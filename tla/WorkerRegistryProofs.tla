------------------------ MODULE WorkerRegistryProofs ------------------------
(***************************************************************************)
(* Proofs about WorkerRegistry, for any numbers of queues, workers and     *)
(* callers.  What overlapping calls of unregister() cannot break is proved *)
(* of RegistrySpec; what they can break, and only they, of ExclusiveSpec.  *)
(***************************************************************************)
EXTENDS WorkerRegistry, TLAPS

(* A call that has sent its quit has seen the close resolve.                *)
QuittersClosed ==
    \A c \in Callers : unreg[c].at = "quitting" => worker[unreg[c].worker] = "closed"

RegistryInv == RegistryTypeOK /\ QuitAfterClose /\ QuittersClosed

(* The typing invariant holds initially.                                    *)
LEMMA InitTyped == RegistryInit => RegistryTypeOK
  BY DEF RegistryInit, RegistryTypeOK, WorkerStates, ConnStates, Frames, Idle

(* Every operation of the registry preserves the typing invariant.          *)
LEMMA StepTyped == RegistryTypeOK /\ [RegistryNext]_registryVars => RegistryTypeOK'
<1> SUFFICES ASSUME RegistryTypeOK, [RegistryNext]_registryVars
             PROVE  RegistryTypeOK'
  OBVIOUS
<1> USE NoneAssumption DEF RegistryTypeOK, WorkerStates, ConnStates
<1>1. ASSUME NEW q \in Queues, NEW w \in Workers, Register(q, w) \/ RegisterSandboxed(q, w)
      PROVE  RegistryTypeOK'
  BY <1>1 DEF Register, RegisterSandboxed, Constructed, ConstructorThrew
<1>2. ASSUME NEW w \in Workers, CloseResolves(w)
      PROVE  RegistryTypeOK'
  <2>1. unreg' \in [Callers -> Frames]
    BY <1>2 DEF CloseResolves, Awaits, Frames, Idle
  <2> QED
    BY <1>2, <2>1 DEF CloseResolves, QuitSent
<1>3. ASSUME NEW w \in Workers, CloseRejects(w)
      PROVE  RegistryTypeOK'
  BY <1>3 DEF CloseRejects, Frames
<1>4. ASSUME NEW c \in Callers, NEW q \in Queues, UnregisterCall(c, q)
      PROVE  RegistryTypeOK'
  BY <1>4 DEF UnregisterCall, AskedToClose, Frames
<1>5. ASSUME NEW c \in Callers, NEW q \in Queues, UnregisterCallClosed(c, q)
      PROVE  RegistryTypeOK'
  BY <1>5 DEF UnregisterCallClosed, QuitSent, Frames
<1>6. ASSUME NEW c \in Callers, UnregisterDeletes(c)
      PROVE  RegistryTypeOK'
  BY <1>6 DEF UnregisterDeletes, Frames, Idle
<1>7. CASE UNCHANGED registryVars
  BY <1>7 DEF registryVars
<1> QED
  BY <1>1, <1>2, <1>3, <1>4, <1>5, <1>6, <1>7 DEF RegistryNext, UnregisterStep

(* The state of the registry is always well typed, whatever the calls.      *)
THEOREM RegistryTyping == RegistrySpec => []RegistryTypeOK
  BY InitTyped, StepTyped, PTL DEF RegistrySpec

-----------------------------------------------------------------------------
(* A call only goes on to quit when the close it awaited resolves.          *)
LEMMA StepQuitters ==
    ASSUME RegistryTypeOK, QuittersClosed, [RegistryNext]_registryVars
    PROVE  QuittersClosed'
<1> USE NoneAssumption DEF RegistryTypeOK, QuittersClosed, WorkerStates
<1>1. ASSUME NEW q \in Queues, NEW w \in Workers, Register(q, w) \/ RegisterSandboxed(q, w)
      PROVE  QuittersClosed'
  BY <1>1 DEF Register, RegisterSandboxed, Constructed, ConstructorThrew, Frames, Idle
<1>2. ASSUME NEW w \in Workers, CloseResolves(w)
      PROVE  QuittersClosed'
  BY <1>2 DEF CloseResolves, Awaits, Frames, Idle
<1>3. ASSUME NEW w \in Workers, CloseRejects(w)
      PROVE  QuittersClosed'
  BY <1>3 DEF CloseRejects, Frames, Idle
<1>4. ASSUME NEW c \in Callers, NEW q \in Queues, UnregisterCall(c, q)
      PROVE  QuittersClosed'
  BY <1>4 DEF UnregisterCall, AskedToClose, Frames, Idle
<1>5. ASSUME NEW c \in Callers, NEW q \in Queues, UnregisterCallClosed(c, q)
      PROVE  QuittersClosed'
  BY <1>5 DEF UnregisterCallClosed, Frames, Idle
<1>6. ASSUME NEW c \in Callers, UnregisterDeletes(c)
      PROVE  QuittersClosed'
  BY <1>6 DEF UnregisterDeletes, Frames, Idle
<1>7. CASE UNCHANGED registryVars
  BY <1>7 DEF registryVars
<1> QED
  BY <1>1, <1>2, <1>3, <1>4, <1>5, <1>6, <1>7 DEF RegistryNext, UnregisterStep

(* No operation quits the connection of a worker that has not closed.       *)
LEMMA StepQuit ==
    ASSUME RegistryInv, RegistryTypeOK', [RegistryNext]_registryVars
    PROVE  QuitAfterClose'
<1> USE NoneAssumption DEF RegistryInv, RegistryTypeOK, QuitAfterClose, QuittersClosed,
                           WorkerStates, ConnStates
<1>1. ASSUME NEW q \in Queues, NEW w \in Workers, Register(q, w) \/ RegisterSandboxed(q, w)
      PROVE  QuitAfterClose'
  BY <1>1 DEF Register, RegisterSandboxed, Constructed, ConstructorThrew
<1>2. ASSUME NEW w \in Workers, CloseResolves(w)
      PROVE  QuitAfterClose'
  BY <1>2 DEF CloseResolves, QuitSent
<1>3. ASSUME NEW w \in Workers, CloseRejects(w)
      PROVE  QuitAfterClose'
  BY <1>3 DEF CloseRejects
<1>4. ASSUME NEW c \in Callers, NEW q \in Queues, UnregisterCall(c, q)
      PROVE  QuitAfterClose'
  BY <1>4 DEF UnregisterCall, AskedToClose
<1>5. ASSUME NEW c \in Callers, NEW q \in Queues, UnregisterCallClosed(c, q)
      PROVE  QuitAfterClose'
  BY <1>5 DEF UnregisterCallClosed, QuitSent
<1>6. ASSUME NEW c \in Callers, UnregisterDeletes(c)
      PROVE  QuitAfterClose'
  BY <1>6 DEF UnregisterDeletes, Frames, Idle
<1>7. CASE UNCHANGED registryVars
  BY <1>7 DEF registryVars
<1> QED
  BY <1>1, <1>2, <1>3, <1>4, <1>5, <1>6, <1>7 DEF RegistryNext, UnregisterStep

(* The invariant holds initially.                                           *)
LEMMA InitInv == RegistryInit => RegistryInv
  BY InitTyped DEF RegistryInit, RegistryInv, QuitAfterClose, QuittersClosed, Idle

(* Every operation preserves the invariant.                                 *)
LEMMA StepInv == RegistryInv /\ [RegistryNext]_registryVars => RegistryInv'
  BY StepTyped, StepQuitters, StepQuit DEF RegistryInv

(* However the calls overlap, a worker's connection is quit only after the  *)
(* worker's close() has resolved.                                           *)
THEOREM QuitsFollowCloses == RegistrySpec => []QuitAfterClose
<1>1. RegistryInv => QuitAfterClose
  BY DEF RegistryInv
<1> QED
  BY InitInv, StepInv, <1>1, PTL DEF RegistrySpec

-----------------------------------------------------------------------------
(***************************************************************************)
(* With no two overlapping calls for one queue.  A frame then still owns   *)
(* its entry when it deletes it, which is what the map's agreement with    *)
(* the workers rests on.                                                   *)
(***************************************************************************)
FramesOwn ==
    \A c \in Callers : unreg[c] # Idle => entries[unreg[c].queue] = unreg[c].worker

EntriesNamed ==
    \A q \in Queues : entries[q] # None =>
        /\ name[entries[q]] = q
        /\ worker[entries[q]] \notin {"unmade", "thrown"}

LiveTracked ==
    \A w \in Workers : Live(w) => name[w] \in Queues /\ entries[name[w]] = w

OpenTracked ==
    \A w \in Workers :
        conn[w] \in {"open", "quitting"} => name[w] \in Queues /\ entries[name[w]] = w

Agreement == FramesOwn /\ EntriesNamed /\ LiveTracked /\ OpenTracked

(* Nothing here rests on QuitAfterClose, which the shutdown sequence gives  *)
(* up for the workers it forces.                                            *)
ExclusiveInv == RegistryTypeOK /\ QuittersClosed /\ Exclusive /\ Agreement

(* The stronger invariant holds initially.                                  *)
LEMMA InitExclusive == RegistryInit => ExclusiveInv
  BY InitInv DEF RegistryInv, RegistryInit, ExclusiveInv, Exclusive, Agreement, FramesOwn,
                 EntriesNamed, LiveTracked, OpenTracked, Live

(* A registration only adds an entry under a name that has none.            *)
LEMMA RegisterAgrees ==
    ASSUME ExclusiveInv, RegistryTypeOK', NEW q \in Queues, NEW w \in Workers,
           Register(q, w) \/ RegisterSandboxed(q, w)
    PROVE  Agreement'
<1> USE NoneAssumption DEF ExclusiveInv, Agreement, RegistryTypeOK, Live
<1>1. CASE Constructed(q, w)
  <2> entries[q] = None /\ worker[w] = "unmade"
    BY DEF Register, RegisterSandboxed, NotRegistered
  <2>1. FramesOwn'
    BY <1>1 DEF Constructed, FramesOwn, Frames, Idle
  <2>2. EntriesNamed'
    BY <1>1 DEF Constructed, EntriesNamed
  <2>3. LiveTracked'
    BY <1>1 DEF Constructed, LiveTracked
  <2>4. OpenTracked'
    BY <1>1 DEF Constructed, OpenTracked
  <2> QED
    BY <2>1, <2>2, <2>3, <2>4
<1>2. CASE ConstructorThrew(w)
  <2> worker[w] = "unmade"
    BY DEF Register, RegisterSandboxed
  <2> QED
    BY <1>2 DEF ConstructorThrew, FramesOwn, EntriesNamed, LiveTracked, OpenTracked
<1> QED
  BY <1>1, <1>2 DEF Register, RegisterSandboxed

(* A deletion removes the frame's own entry, whose worker has closed.       *)
LEMMA DeleteAgrees ==
    ASSUME ExclusiveInv, RegistryTypeOK', NEW c \in Callers, UnregisterDeletes(c)
    PROVE  Agreement'
<1> USE NoneAssumption DEF ExclusiveInv, Agreement, RegistryTypeOK, Live
<1> DEFINE q == unreg[c].queue
           w == unreg[c].worker
<1>1. q \in Queues /\ w \in Workers /\ unreg[c] # Idle
  BY DEF UnregisterDeletes, Frames, Idle
<1>2. entries[q] = w /\ worker[w] = "closed" /\ name[w] = q
  BY <1>1 DEF UnregisterDeletes, FramesOwn, QuittersClosed, EntriesNamed
<1>3. entries' = [entries EXCEPT ![q] = None] /\ conn' = [conn EXCEPT ![w] = "closed"]
  BY DEF UnregisterDeletes
<1>4. unreg' = [unreg EXCEPT ![c] = Idle] /\ worker' = worker /\ name' = name
  BY DEF UnregisterDeletes
<1>5. FramesOwn'
  <2> SUFFICES ASSUME NEW d \in Callers, unreg'[d] # Idle
               PROVE  entries'[unreg'[d].queue] = unreg'[d].worker
    BY DEF FramesOwn
  <2>1. d # c /\ unreg'[d] = unreg[d]
    BY <1>4
  <2>2. unreg[d].queue # q
    BY <1>1, <2>1 DEF Exclusive
  <2>3. unreg[d].queue \in Queues
    BY <2>1 DEF Frames
  <2> QED
    BY <1>3, <2>1, <2>2, <2>3 DEF FramesOwn
<1>6. EntriesNamed'
  BY <1>1, <1>3, <1>4 DEF EntriesNamed
<1>7. LiveTracked'
  BY <1>1, <1>2, <1>3, <1>4 DEF LiveTracked
<1>8. OpenTracked'
  BY <1>1, <1>2, <1>3, <1>4 DEF OpenTracked
<1> QED
  BY <1>5, <1>6, <1>7, <1>8

(* The other steps leave the map as it is.                                  *)
LEMMA StepAgrees ==
    ASSUME ExclusiveInv, RegistryTypeOK', [RegistryNext]_registryVars
    PROVE  Agreement'
<1> USE NoneAssumption DEF ExclusiveInv, Agreement, RegistryTypeOK, Live,
                           FramesOwn, EntriesNamed, LiveTracked, OpenTracked
<1>1. ASSUME NEW w \in Workers, CloseResolves(w)
      PROVE  Agreement'
  <2>1. \A c \in Callers : unreg'[c] # Idle =>
            /\ unreg[c] # Idle
            /\ unreg'[c].queue = unreg[c].queue
            /\ unreg'[c].worker = unreg[c].worker
    BY <1>1 DEF CloseResolves, Awaits, Frames, Idle
  <2> QED
    BY <1>1, <2>1 DEF CloseResolves, QuitSent, ConnStates
<1>2. ASSUME NEW w \in Workers, CloseRejects(w)
      PROVE  Agreement'
  BY <1>2 DEF CloseRejects
<1>3. ASSUME NEW c \in Callers, NEW q \in Queues, UnregisterCall(c, q)
      PROVE  Agreement'
  BY <1>3 DEF UnregisterCall, AskedToClose
<1>4. ASSUME NEW c \in Callers, NEW q \in Queues, UnregisterCallClosed(c, q)
      PROVE  Agreement'
  BY <1>4 DEF UnregisterCallClosed, QuitSent
<1>5. CASE UNCHANGED registryVars
  BY <1>5 DEF registryVars
<1> QED
  BY <1>1, <1>2, <1>3, <1>4, <1>5, RegisterAgrees, DeleteAgrees
     DEF RegistryNext, UnregisterStep

(* It is preserved while no two calls of one queue overlap.                 *)
LEMMA StepExclusive ==
    ExclusiveInv /\ [RegistryNext /\ Exclusive']_registryVars => ExclusiveInv'
<1> SUFFICES ASSUME ExclusiveInv, [RegistryNext /\ Exclusive']_registryVars
             PROVE  ExclusiveInv'
  OBVIOUS
<1>1. RegistryTypeOK' /\ QuittersClosed'
  BY StepTyped, StepQuitters DEF ExclusiveInv
<1>2. Exclusive'
  BY DEF ExclusiveInv, Exclusive, registryVars
<1>3. Agreement'
  BY <1>1, StepAgrees
<1> QED
  BY <1>1, <1>2, <1>3 DEF ExclusiveInv

(* So it is an invariant of ExclusiveSpec.                                  *)
LEMMA ExclusiveInvariant == ExclusiveSpec => []ExclusiveInv
  BY InitExclusive, StepExclusive, PTL DEF ExclusiveSpec

(* At most one live worker consumes a queue, for any number of queues,      *)
(* workers and callers, as long as calls for one queue do not overlap.      *)
THEOREM OneWorker == ExclusiveSpec => []OneWorkerPerQueue
<1>1. ExclusiveInv => OneWorkerPerQueue
  BY DEF ExclusiveInv, Agreement, LiveTracked, OneWorkerPerQueue
<1> QED
  BY ExclusiveInvariant, <1>1, PTL

(* No connection the registry opened is lost to the shutdown sequence.      *)
THEOREM NoConnectionLost == ExclusiveSpec => []OpenConnectionsTracked
<1>1. ExclusiveInv => OpenConnectionsTracked
  BY NoneAssumption DEF ExclusiveInv, Agreement, OpenTracked, OpenConnectionsTracked,
                        getConnections, getAll
<1> QED
  BY ExclusiveInvariant, <1>1, PTL

(* An entry leaves the map only with its worker closed and its own          *)
(* connection released.                                                     *)
THEOREM LeavesReleased == ExclusiveSpec => EntryLeavesReleased
<1> DEFINE Leaves == \A q \in Queues :
                        entries[q] # None /\ entries'[q] # entries[q] =>
                            /\ worker[entries[q]] = "closed"
                            /\ conn'[entries[q]] = "closed"
<1>1. ExclusiveInv /\ [RegistryNext /\ Exclusive']_registryVars => [Leaves]_registryVars
  <2> SUFFICES ASSUME ExclusiveInv, RegistryNext
               PROVE  Leaves
    OBVIOUS
  <2> USE NoneAssumption DEF ExclusiveInv, RegistryTypeOK
  <2>1. ASSUME NEW q \in Queues, NEW w \in Workers, Register(q, w) \/ RegisterSandboxed(q, w)
        PROVE  Leaves
    BY <2>1 DEF Register, RegisterSandboxed, NotRegistered, Constructed, ConstructorThrew
  <2>2. ASSUME NEW c \in Callers, UnregisterDeletes(c)
        PROVE  Leaves
    BY <2>2 DEF UnregisterDeletes, Agreement, FramesOwn, QuittersClosed, Frames, Idle
  <2>3. CASE UNCHANGED entries
    BY <2>3
  <2> QED
    BY <2>1, <2>2, <2>3 DEF RegistryNext, UnregisterStep, CloseResolves, CloseRejects,
                            UnregisterCall, UnregisterCallClosed
<1> QED
  BY ExclusiveInvariant, <1>1, PTL DEF ExclusiveSpec, EntryLeavesReleased
=============================================================================
