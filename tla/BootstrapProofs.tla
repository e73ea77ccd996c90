--------------------------- MODULE BootstrapProofs ---------------------------
(***************************************************************************)
(* Proofs about Bootstrap, for any queues, processors and options.         *)
(***************************************************************************)
EXTENDS Bootstrap, WellFoundedInduction, TLAPS

(* The client was found usable before any service was constructed.          *)
UsableSinceProviders == boot \in {"providers", "hooks", "up"} => usable

(* Until then nothing is opened on it.                                      *)
NothingYet ==
    boot \in {"options", "connect", "wait"} =>
        ~flow /\ \A q \in Queues : owner[q] = None /\ opened[q] = 0

(* The processors discovery is through with are wired, and stay so.         *)
WiredSoFar ==
    boot \in {"hooks", "up"} =>
        \A p \in Processors \ todo : /\ owner[queueOf[p]] = p
                                     /\ p \in Listening => opened[queueOf[p]] = 1

NothingLeftToWire == boot = "up" => todo = {}

BootInv ==
    /\ BootTypeOK
    /\ UsableSinceProviders
    /\ NothingYet
    /\ NothingBeforeUsable
    /\ WaitIsClean
    /\ WiredSoFar
    /\ NothingLeftToWire

-----------------------------------------------------------------------------
(* The typing invariant holds initially.                                    *)
LEMMA InitTyped == Init => BootTypeOK
<1> SUFFICES ASSUME Init PROVE BootTypeOK
  OBVIOUS
<1>1. status \in Statuses
  BY DEF Init, Statuses
<1>2. options \in Options /\ queueOf \in [Processors -> Queues]
  BY DEF Init
<1>3. /\ drain = Undefined /\ boot = "options" /\ usable = FALSE
      /\ armed = {} /\ todo = {} /\ registered = {} /\ flow = FALSE
  BY DEF Init
<1>4. /\ owner \in [Queues -> Processors \cup {None, App}]
      /\ opened \in [Queues -> 0 .. 1]
  BY DEF Init
<1> QED
  BY <1>1, <1>2, <1>3, <1>4 DEF BootTypeOK

(* Every step of the start, and of what happens beside it, preserves it.    *)
LEMMA StepTyped == BootTypeOK /\ [Next]_vars => BootTypeOK'
<1> SUFFICES ASSUME BootTypeOK, [Next]_vars
             PROVE  BootTypeOK'
  OBVIOUS
<1> USE BootstrapAssumption DEF BootTypeOK, inputs, connectionVars, wiringVars, Statuses
<1>1. CASE forRoot
  <2>1. options.drainTimeoutMs \in DrainTimeouts
    BY DEF Options
  <2>2. DefaultDrain \in Int /\ DrainTimeouts \subseteq Int \cup {NaN, Undefined}
    BY DEF BootstrapAssumption
  <2>3. applyDefaults(options.drainTimeoutMs, DefaultDrain) \in Int \cup {NaN, Undefined}
    BY <2>1, <2>2 DEF applyDefaults
  <2> QED
    BY <1>1, <2>3 DEF forRoot
<1>2. CASE initModeA
  BY <1>2 DEF initModeA
<1>3. CASE initModeB
  BY <1>3 DEF initModeB
<1>4. CASE ClientReady
  BY <1>4 DEF ClientReady, Settles
<1>5. CASE ClientError
  BY <1>5 DEF ClientError, Settles
<1>6. CASE ReadyTimeout
  BY <1>6 DEF ReadyTimeout, Settles
<1>7. CASE ConstructServices
  <2>1. options.flows \in BOOLEAN
    BY DEF Options
  <2> QED
    BY <1>7, <2>1 DEF ConstructServices
<1>8. CASE HooksDone
  BY <1>8 DEF HooksDone
<1>9. ASSUME NEW q \in Queues, AppRegisters(q) \/ AppObserves(q)
      PROVE  BootTypeOK'
  <2>1. CASE AppRegisters(q)
    BY <2>1 DEF AppRegisters
  <2>2. CASE AppObserves(q)
    <3>1. opened' \in [Queues -> 0 .. 1]
      BY <2>2 DEF AppObserves, getOrCreateEvents
    <3> QED
      BY <2>2, <3>1 DEF AppObserves
  <2> QED
    BY <1>9, <2>1, <2>2
<1>10. ASSUME NEW p \in Processors, WireProcessor(p)
       PROVE  BootTypeOK'
  BY <1>10 DEF WireProcessor, Fails, getOrCreateEvents
<1>11. ASSUME NEW p \in Processors, WireRefused(p)
       PROVE  BootTypeOK'
  BY <1>11 DEF WireRefused, Fails
<1>12. CASE UNCHANGED vars
  BY <1>12 DEF vars
<1> QED
  BY <1>1, <1>2, <1>3, <1>4, <1>5, <1>6, <1>7, <1>8, <1>9, <1>10, <1>11, <1>12 DEF Next, Start

(* The start is well typed throughout.                                      *)
THEOREM BootTyping == Spec => []BootTypeOK
  BY InitTyped, StepTyped, PTL DEF Spec

-----------------------------------------------------------------------------
(* The invariant holds initially.                                           *)
LEMMA InitInv == Init => BootInv
<1> SUFFICES ASSUME Init PROVE BootInv
  OBVIOUS
<1>1. BootTypeOK
  BY InitTyped
<1>2. boot = "options" /\ armed = {} /\ ~flow
      /\ \A q \in Queues : owner[q] = None /\ opened[q] = 0
  BY DEF Init
<1> QED
  BY <1>1, <1>2
     DEF BootInv, UsableSinceProviders, NothingYet, NothingBeforeUsable, WaitIsClean,
         WiredSoFar, NothingLeftToWire

(* Every step preserves it.  A worker is only given to a queue that has     *)
(* none, so no step takes a wired processor's queue away.                   *)
LEMMA StepInv == BootInv /\ [Next]_vars => BootInv'
<1> SUFFICES ASSUME BootInv, [Next]_vars
             PROVE  BootInv'
  OBVIOUS
<1>1. BootTypeOK /\ BootTypeOK'
  BY StepTyped DEF BootInv
<1> USE DEF BootInv, UsableSinceProviders, NothingYet, NothingBeforeUsable, WaitIsClean,
            WiredSoFar, NothingLeftToWire, inputs, connectionVars, wiringVars
<1>2. CASE forRoot
  BY <1>1, <1>2 DEF forRoot
<1>3. CASE initModeA
  BY <1>1, <1>3 DEF initModeA
<1>4. CASE initModeB
  BY <1>1, <1>4 DEF initModeB
<1>5. CASE ClientReady
  BY <1>1, <1>5 DEF ClientReady, Settles
<1>6. CASE ClientError
  BY <1>1, <1>6 DEF ClientError, Settles
<1>7. CASE ReadyTimeout
  BY <1>1, <1>7 DEF ReadyTimeout, Settles
<1>8. CASE ConstructServices
  BY <1>1, <1>8 DEF ConstructServices
<1>9. CASE HooksDone
  BY <1>1, <1>9 DEF HooksDone
<1>10. ASSUME NEW q \in Queues, AppRegisters(q)
       PROVE  BootInv'
  <2>1. boot \in {"hooks", "up"} /\ usable
    BY <1>10 DEF AppRegisters, AppCalls
  <2>2. \A p \in Processors \ todo : owner[queueOf[p]] = p /\ p # None
    BY <2>1, BootstrapAssumption
  <2>3. /\ owner[q] = None /\ owner' = [owner EXCEPT ![q] = App]
        /\ UNCHANGED <<queueOf, boot, usable, armed, todo, opened, flow>>
    BY <1>10 DEF AppRegisters
  <2>4. WiredSoFar'
    BY <1>1, <2>1, <2>2, <2>3 DEF BootTypeOK
  <2> QED
    BY <1>1, <2>1, <2>3, <2>4
<1>11. ASSUME NEW q \in Queues, AppObserves(q)
       PROVE  BootInv'
  <2>1. boot \in {"hooks", "up"} /\ usable
    BY <1>11 DEF AppObserves, AppCalls
  <2>2. /\ opened' = [opened EXCEPT ![q] = 1]
        /\ UNCHANGED <<queueOf, boot, usable, armed, todo, owner, flow>>
    BY <1>11 DEF AppObserves, getOrCreateEvents
  <2>3. WiredSoFar'
    BY <1>1, <2>1, <2>2 DEF BootTypeOK
  <2> QED
    BY <1>1, <2>1, <2>2, <2>3
<1>12. ASSUME NEW p \in Processors, WireProcessor(p)
       PROVE  BootInv'
  <2>1. boot = "hooks" /\ usable /\ p \in todo /\ owner[queueOf[p]] = None
    BY <1>12 DEF WireProcessor
  <2>2. \A r \in Processors \ todo : owner[queueOf[r]] = r /\ r # None
    BY <2>1, BootstrapAssumption
  <2>3. UNCHANGED <<queueOf, usable, armed, flow>> /\ boot' \in {"hooks", "failed"}
    BY <1>12, <2>1 DEF WireProcessor, Fails
  <2>4. WiredSoFar'
    <3> SUFFICES ASSUME boot' = "hooks", NEW r \in Processors \ todo'
                 PROVE  owner'[queueOf[r]] = r /\ (r \in Listening => opened'[queueOf[r]] = 1)
      BY <2>3
    <3>1. /\ owner' = [owner EXCEPT ![queueOf[p]] = p]
          /\ opened' = IF p \in Listening THEN [opened EXCEPT ![queueOf[p]] = 1] ELSE opened
          /\ todo' = todo \ {p}
      BY <1>12 DEF WireProcessor, Fails, getOrCreateEvents
    <3>2. CASE r = p
      BY <1>1, <3>1, <3>2 DEF BootTypeOK
    <3>3. CASE r # p
      <4>1. r \in Processors \ todo /\ queueOf[r] # queueOf[p] /\ queueOf[r] \in Queues
        BY <1>1, <2>1, <2>2, <3>1, <3>3 DEF BootTypeOK
      <4> QED
        BY <1>1, <2>1, <3>1, <4>1 DEF BootTypeOK
    <3> QED
      BY <3>2, <3>3
  <2> QED
    BY <1>1, <2>1, <2>3, <2>4
<1>13. ASSUME NEW p \in Processors, WireRefused(p)
       PROVE  BootInv'
  BY <1>1, <1>13 DEF WireRefused, Fails
<1>14. CASE UNCHANGED vars
  BY <1>1, <1>14 DEF vars
<1> QED
  BY <1>2, <1>3, <1>4, <1>5, <1>6, <1>7, <1>8, <1>9, <1>10, <1>11, <1>12, <1>13, <1>14
     DEF Next, Start

(* So it is an invariant.                                                   *)
LEMMA InvHolds == Spec => []BootInv
  BY InitInv, StepInv, PTL DEF Spec

-----------------------------------------------------------------------------
(* An application that comes up has every processor wired to its own        *)
(* worker, and to the QueueEvents its listeners need.                       *)
THEOREM WiredOnceUp == Spec => []WiredWhenUp
<1>1. BootInv => WiredWhenUp
  BY DEF BootInv, WiredSoFar, NothingLeftToWire, WiredWhenUp
<1> QED
  BY <1>1, InvHolds, PTL

(* Nothing is opened on a client that was not found usable.                 *)
THEOREM NothingOpensEarly == Spec => []NothingBeforeUsable
<1>1. BootInv => NothingBeforeUsable
  BY DEF BootInv
<1> QED
  BY <1>1, InvHolds, PTL

(* The wait for the first connection leaves nothing registered behind it.   *)
THEOREM WaitLeavesNothing == Spec => []WaitIsClean
<1>1. BootInv => WaitIsClean
  BY DEF BootInv
<1> QED
  BY <1>1, InvHolds, PTL

-----------------------------------------------------------------------------
(* The dispatcher.  A set of positions has a last one.                      *)
LEMMA LastPosition ==
    ASSUME NEW n \in Nat, NEW S \in SUBSET (1 .. n), S # {}
    PROVE  Max(S) \in S /\ \A k \in S : Max(S) >= k
<1> DEFINE Above == {m \in Nat : \A k \in S : k <= m}
<1>1. PICK m \in Above : \A k \in Above : ~ (<<k, m>> \in OpToRel(<, Nat))
  <2>1. n \in Above
    OBVIOUS
  <2>2. Above \in SUBSET Nat
    OBVIOUS
  <2> QED
    BY <2>1, <2>2, WFMin, NatLessThanWellFounded
<1>2. m \in Nat /\ \A k \in S : k <= m
  OBVIOUS
<1>3. \A k \in Above : ~(k < m)
  BY <1>1 DEF OpToRel
<1>4. m \in S
  <2> SUFFICES ASSUME m \notin S PROVE FALSE
    OBVIOUS
  <2>1. \A k \in S : k \in Nat /\ k < m /\ k <= m - 1
    BY <1>2
  <2>2. m - 1 \in Nat
    <3>1. PICK k \in S : k \in Nat /\ k < m
      BY <2>1
    <3> QED
      BY <1>2, <3>1
  <2>3. m - 1 \in Above
    BY <2>1, <2>2
  <2> QED
    BY <1>2, <1>3, <2>3
<1>5. \E x \in S : \A k \in S : x >= k
  BY <1>2, <1>4
<1> QED
  BY <1>5 DEF Max

(* What buildDispatcher makes of the entries at some positions: of each     *)
(* name the last of its entries that are functions.                         *)
Matching(list, S, name) ==
    {i \in S : list[i].isFunction /\ list[i].jobName = name}
TableOf(list, S) ==
    [name \in JobNames \cup {CatchAll} |->
        IF Matching(list, S, name) = {} THEN NoHandler ELSE Max(Matching(list, S, name))]
Register(list, table, i) ==
    IF list[i].isFunction THEN [table EXCEPT ![list[i].jobName] = i] ELSE table

(* The last entry registered on top of those before it makes the table.     *)
LEMMA TableGrows ==
    ASSUME NEW list \in Seq(HandlerEntry), NEW S \in SUBSET DOMAIN list, S # {}
    PROVE  /\ Max(S) \in S /\ Max(S) \in Nat /\ \A k \in S \ {Max(S)} : k < Max(S)
           /\ Register(list, TableOf(list, S \ {Max(S)}), Max(S)) = TableOf(list, S)
<1> DEFINE last == Max(S)
           Names == JobNames \cup {CatchAll}
           rest == S \ {last}
<1>1. DOMAIN list = 1 .. Len(list) /\ Len(list) \in Nat
  OBVIOUS
<1>2. last \in S /\ \A k \in S : last >= k
  BY <1>1, LastPosition
<1>3. /\ last \in Nat /\ last \in DOMAIN list
      /\ \A k \in S : k \in Nat
      /\ \A k \in rest : k < last
  BY <1>1, <1>2
<1>4. list[last] \in HandlerEntry
  BY <1>1, <1>3
<1>5. list[last].jobName \in Names
  BY <1>4 DEF HandlerEntry
<1> HIDE DEF last
<1>6. ASSUME NEW name \in Names
      PROVE  Register(list, TableOf(list, rest), last)[name] = TableOf(list, S)[name]
  <2>1. CASE last \in Matching(list, S, name)
    <3>1. Matching(list, S, name) # {} /\ Matching(list, S, name) \in SUBSET (1 .. Len(list))
      BY <1>1, <2>1 DEF Matching
    <3>2. /\ Max(Matching(list, S, name)) \in Matching(list, S, name)
          /\ Max(Matching(list, S, name)) >= last
      BY <1>1, <2>1, <3>1, LastPosition
    <3>3. Max(Matching(list, S, name)) \in S
      BY <3>2 DEF Matching
    <3>4. Max(Matching(list, S, name)) = last
      BY <1>2, <1>3, <3>2, <3>3
    <3>5. list[last].isFunction /\ list[last].jobName = name
      BY <2>1 DEF Matching
    <3>6. Register(list, TableOf(list, rest), last)[name] = last
      BY <3>5 DEF Register, TableOf
    <3> QED
      BY <3>1, <3>4, <3>6 DEF TableOf
  <2>2. CASE last \notin Matching(list, S, name)
    <3>1. Matching(list, rest, name) = Matching(list, S, name)
      BY <1>2, <2>2 DEF Matching
    <3>2. ~(list[last].isFunction /\ list[last].jobName = name)
      BY <1>2, <2>2 DEF Matching
    <3>3. Register(list, TableOf(list, rest), last)[name] = TableOf(list, rest)[name]
      BY <1>5, <3>2 DEF Register, TableOf
    <3> QED
      BY <3>1, <3>3 DEF TableOf
  <2> QED
    BY <2>1, <2>2
<1>7. Register(list, TableOf(list, rest), last) = TableOf(list, S)
  <2>1. TableOf(list, S) = [name \in Names |-> TableOf(list, S)[name]]
    BY DEF TableOf
  <2>2. Register(list, TableOf(list, rest), last) =
            [name \in Names |-> Register(list, TableOf(list, rest), last)[name]]
    BY DEF TableOf, Register
  <2> QED
    BY <1>6, <2>1, <2>2
<1> QED
  BY <1>2, <1>3, <1>7 DEF last

(* The fold of buildDispatcher is the only function that solves its         *)
(* recursion, and the tables above solve it.                                *)
Indices(list) == [i \in DOMAIN list |-> i]
SolvesFold(it, list) ==
    it = [S \in SUBSET DOMAIN Indices(list) |->
             IF S = {} THEN NoHandlers
             ELSE Register(list, it[S \ {Max(S)}], Indices(list)[Max(S)])]

LEMMA FoldUnfolds ==
    ASSUME NEW list, NEW solution, SolvesFold(solution, list)
    PROVE  \E it : SolvesFold(it, list) /\ buildDispatcher(list) = it[DOMAIN Indices(list)]
<1> DEFINE it == CHOOSE f : SolvesFold(f, list)
<1>1. SolvesFold(it, list)
  BY Zenon
<1>2. buildDispatcher(list) = it[DOMAIN Indices(list)]
  BY Zenon DEF buildDispatcher, FoldLeftDomain, FoldLeft, MapThenFoldSet, SolvesFold, Register,
               Indices
<1> QED
  BY <1>1, <1>2

LEMMA TablesSolve ==
    ASSUME NEW list \in Seq(HandlerEntry)
    PROVE  SolvesFold([S \in SUBSET DOMAIN list |-> TableOf(list, S)], list)
<1> DEFINE tables == [S \in SUBSET DOMAIN list |-> TableOf(list, S)]
<1>1. TableOf(list, {}) = NoHandlers
  BY DEF TableOf, NoHandlers, Matching
<1>2. ASSUME NEW S \in SUBSET DOMAIN list, S # {}
      PROVE  TableOf(list, S) = Register(list, tables[S \ {Max(S)}], Indices(list)[Max(S)])
  <2>1. Max(S) \in S /\ Register(list, TableOf(list, S \ {Max(S)}), Max(S)) = TableOf(list, S)
    BY <1>2, TableGrows
  <2>2. Indices(list)[Max(S)] = Max(S)
    BY <2>1 DEF Indices
  <2>3. tables[S \ {Max(S)}] = TableOf(list, S \ {Max(S)})
    OBVIOUS
  <2> QED
    BY <2>1, <2>2, <2>3
<1>3. DOMAIN Indices(list) = DOMAIN list
  BY DEF Indices
<1> QED
  BY <1>1, <1>2, <1>3 DEF SolvesFold

LEMMA OnlyTablesSolve ==
    ASSUME NEW list \in Seq(HandlerEntry), NEW it, SolvesFold(it, list)
    PROVE  it[DOMAIN Indices(list)] = TableOf(list, DOMAIN list)
<1>1. DOMAIN Indices(list) = DOMAIN list /\ \A i \in DOMAIN list : Indices(list)[i] = i
  BY DEF Indices
<1>2. DOMAIN list = 1 .. Len(list) /\ Len(list) \in Nat
  OBVIOUS
<1> DEFINE Wrong == {m \in Nat : \E S \in SUBSET DOMAIN list :
                                     S \subseteq 1 .. m /\ it[S] # TableOf(list, S)}
<1>3. Wrong = {}
  <2> SUFFICES ASSUME Wrong # {} PROVE FALSE
    OBVIOUS
  <2>1. PICK m \in Wrong : \A k \in Wrong : ~ (<<k, m>> \in OpToRel(<, Nat))
    <3>1. Wrong \in SUBSET Nat
      OBVIOUS
    <3> HIDE DEF Wrong
    <3> QED
      BY <3>1, WFMin, NatLessThanWellFounded
  <2>2. PICK S \in SUBSET DOMAIN list : S \subseteq 1 .. m /\ it[S] # TableOf(list, S)
    OBVIOUS
  <2>3. m \in Nat /\ \A k \in Nat : k < m => k \notin Wrong
    <3>1. Wrong \in SUBSET Nat
      OBVIOUS
    <3> HIDE DEF Wrong
    <3> QED
      BY <2>1, <3>1 DEF OpToRel
  <2>4. CASE S = {}
    <3>1. it[S] = NoHandlers
      BY <1>1, <2>4 DEF SolvesFold
    <3>2. TableOf(list, {}) = NoHandlers
      BY DEF TableOf, NoHandlers, Matching
    <3> QED
      BY <2>2, <2>4, <3>1, <3>2
  <2>5. CASE S # {}
    <3>1. /\ Max(S) \in S /\ Max(S) \in Nat /\ \A k \in S \ {Max(S)} : k < Max(S)
          /\ Register(list, TableOf(list, S \ {Max(S)}), Max(S)) = TableOf(list, S)
      BY <2>5, TableGrows
    <3>2. it[S] = Register(list, it[S \ {Max(S)}], Max(S))
      BY <1>1, <2>5, <3>1 DEF SolvesFold
    <3>3. it[S \ {Max(S)}] = TableOf(list, S \ {Max(S)})
      <4>1. Max(S) - 1 \in Nat /\ Max(S) - 1 < m
        BY <2>2, <2>3, <3>1
      <4>2. S \ {Max(S)} \subseteq 1 .. Max(S) - 1
        BY <1>2, <3>1
      <4>3. Max(S) - 1 \notin Wrong
        BY <2>3, <4>1
      <4> QED
        BY <4>1, <4>2, <4>3
    <3> QED
      BY <2>2, <3>1, <3>2, <3>3
  <2> QED
    BY <2>4, <2>5
<1>4. Len(list) \notin Wrong
  BY <1>3
<1> QED
  BY <1>1, <1>2, <1>4

(* The dispatcher of any list of entries calls what is declared.            *)
LEMMA BuiltAsDeclared ==
    ASSUME NEW list \in Seq(HandlerEntry), NEW n \in JobNames
    PROVE  Dispatch(buildDispatcher(list), n) = Declared(list, n)
<1>1. buildDispatcher(list) = TableOf(list, DOMAIN list)
  BY FoldUnfolds, TablesSolve, OnlyTablesSolve
<1>2. DOMAIN list = 1 .. Len(list) /\ Len(list) \in Nat
  OBVIOUS
<1> DEFINE For(name) == Matching(list, DOMAIN list, name)
           LastOf(S) == CHOOSE i \in S : \A k \in S : k <= i
<1>3. ASSUME NEW name \in JobNames \cup {CatchAll}
      PROVE  /\ buildDispatcher(list)[name] = IF For(name) = {} THEN NoHandler ELSE LastOf(For(name))
             /\ For(name) # {} => LastOf(For(name)) # NoHandler
  <2>1. For(name) \in SUBSET (1 .. Len(list))
    BY <1>2 DEF Matching
  <2>2. buildDispatcher(list)[name] = IF For(name) = {} THEN NoHandler ELSE Max(For(name))
    BY <1>1 DEF TableOf
  <2>3. CASE For(name) # {}
    <3> DEFINE S == For(name)
    <3>1. S \in SUBSET (1 .. Len(list)) /\ S # {}
      BY <2>1, <2>3
    <3> HIDE DEF For, S
    <3>2. Max(S) \in S /\ \A k \in S : Max(S) >= k
      BY <1>2, <3>1, LastPosition
    <3>3. LastOf(S) \in S /\ \A k \in S : k <= LastOf(S)
      BY <1>2, <3>1, <3>2
    <3>4. LastOf(S) = Max(S) /\ LastOf(S) # 0
      <4> HIDE DEF LastOf
      <4>1. LastOf(S) \in 1 .. Len(list) /\ Max(S) \in 1 .. Len(list)
        BY <3>1, <3>2, <3>3
      <4>2. Max(S) <= LastOf(S) /\ Max(S) >= LastOf(S)
        BY <3>2, <3>3
      <4> QED
        BY <1>2, <4>1, <4>2
    <3> QED
      BY <2>2, <2>3, <3>4 DEF S, NoHandler
  <2> QED
    BY <2>2, <2>3
<1>4. Declared(list, n) = CASE For(n) # {} -> LastOf(For(n))
                            [] For(n) = {} /\ For(CatchAll) # {} -> LastOf(For(CatchAll))
                            [] OTHER -> NoHandler
  BY DEF Declared, Matching
<1> HIDE DEF For, LastOf
<1> QED
  BY <1>3, <1>4 DEF Dispatch

(* A job goes to the handler its name was declared for, whatever entries a  *)
(* class has and in whatever order.                                         *)
THEOREM JobsAreRouted == Spec => []RoutedAsDeclared
<1> DEFINE Routed == /\ DOMAIN handlers = Processors /\ DOMAIN dispatcher = Processors
                     /\ RoutedAsDeclared
<1>1. Init => Routed
  <2> SUFFICES ASSUME Init, NEW p \in Processors, NEW n \in JobNames
               PROVE  Dispatch(dispatcher[p], n) = Declared(handlers[p], n)
    BY DEF Init, RoutedAsDeclared
  <2>1. dispatcher[p] = NoHandlers /\ handlers[p] = << >>
    BY DEF Init
  <2>2. Dispatch(NoHandlers, n) = NoHandler
    BY DEF Dispatch, NoHandlers
  <2>3. Declared(<< >>, n) = NoHandler
    BY DEF Declared
  <2> QED
    BY <2>1, <2>2, <2>3
<1>2. Routed /\ [Next]_vars => Routed'
  <2> SUFFICES ASSUME Routed, [Next]_vars PROVE Routed'
    OBVIOUS
  <2>1. CASE UNCHANGED <<handlers, dispatcher>>
    BY <2>1 DEF RoutedAsDeclared
  <2>2. ASSUME NEW p \in Processors, WireProcessor(p) PROVE Routed'
    <3>1. PICK list \in HandlerLists :
              /\ handlers' = [handlers EXCEPT ![p] = list]
              /\ dispatcher' = [dispatcher EXCEPT ![p] = buildDispatcher(list)]
      BY <2>2 DEF WireProcessor
    <3>2. list \in Seq(HandlerEntry)
      BY BootstrapAssumption DEF BootstrapAssumption
    <3>3. \A n \in JobNames : Dispatch(buildDispatcher(list), n) = Declared(list, n)
      BY <3>2, BuiltAsDeclared
    <3>4. ASSUME NEW r \in Processors, NEW n \in JobNames
          PROVE  Dispatch(dispatcher'[r], n) = Declared(handlers'[r], n)
      BY <3>1, <3>3 DEF RoutedAsDeclared
    <3> QED
      BY <3>1, <3>4 DEF RoutedAsDeclared
  <2> QED
    BY <2>1, <2>2
       DEF Next, Start, forRoot, initModeA, initModeB, ReadyTimeout, ClientReady, ClientError,
           ConstructServices, HooksDone, WireRefused, AppRegisters, AppObserves, vars, wiringVars
<1> QED
  BY <1>1, <1>2, PTL DEF Spec
=============================================================================
