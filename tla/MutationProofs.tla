---------------------------- MODULE MutationProofs ----------------------------
(***************************************************************************)
(* Proofs about the mutation run, as a part of Scripts: what its cuts make *)
(* of a table, what it leaves on the disk, and what its exit status says,  *)
(* for any tables in any number of files.                                  *)
(***************************************************************************)
EXTENDS ScriptsProofs, FiniteSetTheorems

(* A function on an initial segment of the numbers is a sequence.           *)
LEMMA FunctionIsList ==
    ASSUME NEW T, NEW n \in Nat, NEW f \in [1 .. n -> T]
    PROVE  f \in Seq(T) /\ Len(f) = n
<1>1. f = [i \in 1 .. n |-> f[i]] /\ \A i \in 1 .. n : f[i] \in T
  OBVIOUS
<1>2. [i \in 1 .. n |-> f[i]] \in Seq(T) /\ Len([i \in 1 .. n |-> f[i]]) = n
  BY <1>1
<1> QED
  BY <1>1, <1>2

-----------------------------------------------------------------------------
(* The numbers of a finite set in ascending order.  The rank of a number is *)
(* how many are not above it.                                               *)
Rank(S, i) == Cardinality({k \in S : k <= i})
Ascends(s) == \A m, n \in DOMAIN s : m < n => s[m] < s[n]

LEMMA RankGrows ==
    ASSUME NEW S, \A k \in S : k \in Int, IsFiniteSet(S), NEW i \in S
    PROVE  /\ Cardinality(S) \in Nat /\ Rank(S, i) \in 1 .. Cardinality(S)
           /\ \A j \in S : i < j => Rank(S, i) < Rank(S, j)
<1>0. \A j \in S : j \in Int
  OBVIOUS
<1>1. ASSUME NEW j \in S
      PROVE  /\ IsFiniteSet({k \in S : k <= j}) /\ Rank(S, j) \in Nat
             /\ Rank(S, j) <= Cardinality(S) /\ Rank(S, j) # 0
  <2> DEFINE T == {k \in S : k <= j}
  <2>1. T \in SUBSET S /\ T # {}
    OBVIOUS
  <2>2. IsFiniteSet(T) /\ Cardinality(T) <= Cardinality(S)
    BY <2>1, FS_Subset
  <2>3. Cardinality(T) \in Nat /\ Cardinality(T) # 0
    BY <2>1, <2>2, FS_CardinalityType, FS_EmptySet
  <2> QED
    BY <2>2, <2>3 DEF Rank
<1>2. ASSUME NEW j \in S, i < j PROVE Rank(S, i) < Rank(S, j)
  <2> DEFINE A == {k \in S : k <= i}
             B == {k \in S : k <= j}
  <2>0. \A k \in S : k <= i => k <= j
    <3> SUFFICES ASSUME NEW k \in S, k <= i PROVE k <= j
      OBVIOUS
    <3>1. i \in Int /\ j \in Int /\ k \in Int
      OBVIOUS
    <3> QED
      BY <1>2, <3>1
  <2>1. A \subseteq B /\ j \in B /\ j \notin A
    BY <1>0, <1>2, <2>0
  <2>2. IsFiniteSet(B)
    BY <1>1
  <2>3. Cardinality(A) <= Cardinality(B) /\ Cardinality(A) # Cardinality(B)
    BY <2>1, <2>2, FS_Subset
  <2>4. Cardinality(A) = Rank(S, i) /\ Cardinality(B) = Rank(S, j)
    BY DEF Rank
  <2> QED
    BY <1>1, <2>3, <2>4
<1>3. Cardinality(S) \in Nat
  BY FS_CardinalityType
<1>4. Rank(S, i) \in Nat /\ Rank(S, i) <= Cardinality(S) /\ Rank(S, i) # 0
  BY <1>1
<1>5. Rank(S, i) \in 1 .. Cardinality(S)
  BY <1>3, <1>4
<1> QED
  BY <1>2, <1>3, <1>5

(* Numbers of the same rank are the same.                                   *)
LEMMA RankIsOne ==
    ASSUME NEW S, \A k \in S : k \in Int, IsFiniteSet(S), NEW i \in S, NEW j \in S,
           Rank(S, i) = Rank(S, j)
    PROVE  i = j
<1>1. Rank(S, i) \in Int /\ i \in Int /\ j \in Int
  BY RankGrows
<1>2. (i < j => Rank(S, i) < Rank(S, j)) /\ (j < i => Rank(S, j) < Rank(S, i))
  BY RankGrows
<1> QED
  BY <1>1, <1>2

LEMMA SortedAscends ==
    ASSUME NEW S, \A k \in S : k \in Int, IsFiniteSet(S)
    PROVE  /\ DOMAIN Sorted(S) = 1 .. Cardinality(S) /\ Cardinality(S) \in Nat
           /\ \A n \in DOMAIN Sorted(S) : Sorted(S)[n] \in S
           /\ \A i \in S : \E n \in DOMAIN Sorted(S) : Sorted(S)[n] = i
           /\ Ascends(Sorted(S))
<1> DEFINE N == Cardinality(S)
           f == [i \in S |-> Rank(S, i)]
<1>1. N \in Nat
  BY FS_CardinalityType
<1>2. f \in Injection(S, 1 .. N)
  BY RankGrows, RankIsOne DEF Injection, IsInjective
<1>3. f \in Surjection(S, 1 .. N)
  <2>1. IsFiniteSet(1 .. N) /\ Cardinality(1 .. N) = N
    BY <1>1, FS_Interval
  <2> QED
    BY <1>2, <2>1, FS_Injection
<1>4. \A n \in 1 .. N : \E i \in S : Rank(S, i) = n
  BY <1>3 DEF Surjection
<1>5. Sorted(S) = [n \in 1 .. N |-> CHOOSE i \in S : Rank(S, i) = n]
  BY DEF Sorted, Rank
<1>6. \A n \in 1 .. N : Sorted(S)[n] \in S /\ Rank(S, Sorted(S)[n]) = n
  BY <1>4, <1>5
<1>7. DOMAIN Sorted(S) = 1 .. N
  BY <1>5
<1> HIDE DEF N, f
<1>8. \A i \in S : \E n \in 1 .. N : Sorted(S)[n] = i
  <2> SUFFICES ASSUME NEW i \in S PROVE Rank(S, i) \in 1 .. N /\ Sorted(S)[Rank(S, i)] = i
    OBVIOUS
  <2>1. Rank(S, i) \in 1 .. N
    BY RankGrows DEF N
  <2>2. Sorted(S)[Rank(S, i)] \in S /\ Rank(S, Sorted(S)[Rank(S, i)]) = Rank(S, i)
    BY <1>6, <2>1
  <2>3. Sorted(S)[Rank(S, i)] = i
    BY <2>2, RankIsOne
  <2> QED
    BY <2>1, <2>3
<1>9. Ascends(Sorted(S))
  <2> SUFFICES ASSUME NEW m \in 1 .. N, NEW n \in 1 .. N, m < n
               PROVE  Sorted(S)[m] < Sorted(S)[n]
    BY <1>7 DEF Ascends
  <2> DEFINE a == Sorted(S)[m]
             b == Sorted(S)[n]
  <2>1. a \in S /\ b \in S /\ Rank(S, a) = m /\ Rank(S, b) = n
    BY <1>6
  <2> HIDE DEF a, b
  <2>2. m \in Int /\ n \in Int /\ a \in Int /\ b \in Int
    BY <1>1, <2>1
  <2>3. b < a => n < m
    BY <2>1, RankGrows
  <2>4. a < b
    BY <2>1, <2>2, <2>3
  <2> QED
    BY <2>4 DEF a, b
<1> QED
  BY <1>1, <1>6, <1>7, <1>8, <1>9 DEF N

(* It is the only such sequence.                                            *)
LEMMA SortedIsOne ==
    ASSUME NEW S, \A k \in S : k \in Int, NEW N \in Nat, NEW s \in [1 .. N -> S],
           Ascends(s), \A i \in S : \E n \in 1 .. N : s[n] = i
    PROVE  Sorted(S) = s
<1>0. \A n \in 1 .. N : s[n] \in Int /\ n \in Int
  <2> SUFFICES ASSUME NEW n \in 1 .. N PROVE s[n] \in Int /\ n \in Int
    OBVIOUS
  <2>1. s[n] \in S
    OBVIOUS
  <2> QED
    BY <2>1
<1>1. ASSUME NEW m \in 1 .. N, NEW n \in 1 .. N, s[m] <= s[n] PROVE m <= n
  <2>1. n < m => s[n] < s[m]
    BY DEF Ascends
  <2> QED
    BY <1>0, <1>1, <2>1
<1>2. IsInjective(s)
  <2> SUFFICES ASSUME NEW m \in 1 .. N, NEW n \in 1 .. N, s[m] = s[n] PROVE m = n
    BY DEF IsInjective
  <2>1. s[m] <= s[n] /\ s[n] <= s[m]
    BY <1>0
  <2> QED
    BY <1>0, <1>1, <2>1
<1>3. s \in Bijection(1 .. N, S)
  BY <1>2 DEF Bijection, Injection, Surjection
<1>4. IsFiniteSet(S) /\ Cardinality(S) = N
  BY <1>3, FS_NatBijection, FS_CountingElements DEF ExistsBijection
<1>5. ASSUME NEW n \in 1 .. N PROVE Rank(S, s[n]) = n
  <2> DEFINE T == {k \in S : k <= s[n]}
             g == [m \in 1 .. n |-> s[m]]
  <2>1. ASSUME NEW m \in 1 .. n PROVE s[m] \in T
    <3>1. m \in 1 .. N /\ (m < n \/ m = n)
      OBVIOUS
    <3>2. m < n => s[m] < s[n]
      BY <3>1 DEF Ascends
    <3>3. s[m] <= s[n] /\ s[m] \in S
      BY <1>0, <3>1, <3>2
    <3> QED
      BY <3>3
  <2>2. ASSUME NEW k \in T PROVE \E m \in 1 .. n : g[m] = k
    <3>1. PICK m \in 1 .. N : s[m] = k
      OBVIOUS
    <3> QED
      BY <1>1, <3>1
  <2>3. g \in [1 .. n -> T] /\ IsInjective(g)
    BY <1>2, <2>1 DEF IsInjective
  <2>4. g \in Bijection(1 .. n, T)
    BY <2>2, <2>3 DEF Bijection, Injection, Surjection
  <2> QED
    BY <2>4, FS_CountingElements DEF ExistsBijection, Rank
<1>6. \A n \in 1 .. N : (CHOOSE i \in S : Rank(S, i) = n) = s[n]
  BY <1>4, <1>5, RankIsOne
<1>7. Sorted(S) = [n \in 1 .. N |-> CHOOSE i \in S : Rank(S, i) = n]
  BY <1>4 DEF Sorted, Rank
<1>8. Sorted(S) = [n \in 1 .. N |-> s[n]]
  BY <1>6, <1>7, Zenon
<1> QED
  BY <1>8

(* A bounded set of numbers that is not empty has a greatest one.           *)
LEMMA GreatestNumber ==
    ASSUME NEW L \in Nat, NEW S, \A i \in S : i \in 1 .. L, S # {}
    PROVE  \E m \in S : \A i \in S : i <= m
<1> DEFINE T == {L - i : i \in S}
<1>1. T \in SUBSET Nat /\ T # {}
  OBVIOUS
<1>2. Min(T) \in T /\ \A t \in T : Min(T) <= t
  BY <1>1, LeastNumber
<1>3. PICK m \in S : Min(T) = L - m
  BY <1>2
<1>4. ASSUME NEW i \in S PROVE i <= m
  <2>1. L - m <= L - i
    BY <1>2, <1>3
  <2>2. i \in Int /\ m \in Int
    OBVIOUS
  <2> QED
    BY <2>1, <2>2
<1> QED
  BY <1>4

-----------------------------------------------------------------------------
(* The entries of a text, by their positions, are all of them, in order.    *)
LEMMA EntriesAscend ==
    ASSUME NEW T, NEW text \in Seq(T)
    PROVE  /\ Len(Entries(text)) \in Nat /\ DOMAIN Entries(text) = 1 .. Len(Entries(text))
           /\ \A n \in DOMAIN Entries(text) :
                 Entries(text)[n] \in DOMAIN text /\ IsEntry(text[Entries(text)[n]])
           /\ \A i \in DOMAIN text : IsEntry(text[i]) =>
                 \E n \in DOMAIN Entries(text) : Entries(text)[n] = i
           /\ Ascends(Entries(text))
<1> DEFINE S == {i \in DOMAIN text : IsEntry(text[i])}
           N == Cardinality(S)
<1>1. DOMAIN text = 1 .. Len(text) /\ Len(text) \in Nat
  OBVIOUS
<1>2. IsFiniteSet(S)
  <2>1. S \in SUBSET (1 .. Len(text)) /\ IsFiniteSet(1 .. Len(text))
    BY <1>1, FS_Interval
  <2> HIDE DEF S
  <2> QED
    BY <2>1, FS_Subset
<1>3. \A k \in S : k \in Int
  BY <1>1
<1>4. Entries(text) = Sorted(S)
  BY DEF Entries
<1> HIDE DEF S
<1>5. /\ DOMAIN Sorted(S) = 1 .. N /\ N \in Nat
      /\ \A n \in DOMAIN Sorted(S) : Sorted(S)[n] \in S
      /\ \A i \in S : \E n \in DOMAIN Sorted(S) : Sorted(S)[n] = i
      /\ Ascends(Sorted(S))
  BY <1>2, <1>3, SortedAscends
<1>6. Sorted(S) = [n \in 1 .. N |-> Sorted(S)[n]]
  BY <1>5 DEF Sorted
<1>7. Len(Sorted(S)) = N
  BY <1>5, <1>6
<1> QED
  BY <1>4, <1>5, <1>7 DEF S

(* Whatever lists them in order is that sequence.                           *)
LEMMA EntriesAre ==
    ASSUME NEW T, NEW text \in Seq(T), NEW N \in Nat, NEW s \in [1 .. N -> DOMAIN text],
           Ascends(s), \A n \in 1 .. N : IsEntry(text[s[n]]),
           \A i \in DOMAIN text : IsEntry(text[i]) => \E n \in 1 .. N : s[n] = i
    PROVE  Entries(text) = s
<1> DEFINE S == {i \in DOMAIN text : IsEntry(text[i])}
<1>1. \A k \in S : k \in Int
  OBVIOUS
<1>2. s \in [1 .. N -> S]
  OBVIOUS
<1>3. \A i \in S : \E n \in 1 .. N : s[n] = i
  OBVIOUS
<1>4. Entries(text) = Sorted(S)
  BY DEF Entries
<1> HIDE DEF S
<1> QED
  BY <1>1, <1>2, <1>3, <1>4, SortedIsOne

-----------------------------------------------------------------------------
(* The tokens around a position.  Behind the first there is some code       *)
(* before it, ...                                                           *)
LEMMA CodeBefore ==
    ASSUME NEW text \in Seq(TableTokens), IsList(text), NEW at \in DOMAIN text, at # 1
    PROVE  \E p \in DOMAIN text : p < at /\ text[p][1] # "note" /\ Notes(text, p, at)
<1> DEFINE S == {p \in 1 .. at - 1 : text[p][1] # "note"}
<1>1. at \in 1 .. Len(text) /\ Len(text) \in Nat /\ DOMAIN text = 1 .. Len(text)
  OBVIOUS
<1>2. 1 \in S
  BY <1>1 DEF IsList
<1>3. PICK p \in S : \A i \in S : i <= p
  <2>1. \A i \in S : i \in 1 .. Len(text)
    BY <1>1
  <2> HIDE DEF S
  <2> QED
    BY <1>1, <1>2, <2>1, GreatestNumber
<1>4. Notes(text, p, at)
  <2> SUFFICES ASSUME NEW l \in p + 1 .. at - 1, text[l][1] # "note" PROVE FALSE
    BY DEF Notes
  <2>1. l \in S /\ p \in Int
    BY <1>1
  <2> QED
    BY <1>3, <2>1
<1> QED
  BY <1>1, <1>4

(* ... and before the last some after it.                                   *)
LEMMA CodeAfter ==
    ASSUME NEW text \in Seq(TableTokens), IsList(text), NEW at \in DOMAIN text, at # Len(text)
    PROVE  \E k \in DOMAIN text : at < k /\ text[k][1] # "note" /\ Notes(text, at, k)
<1> DEFINE S == {k \in at + 1 .. Len(text) : text[k][1] # "note"}
<1>1. at \in 1 .. Len(text) /\ Len(text) \in Nat /\ DOMAIN text = 1 .. Len(text)
  OBVIOUS
<1>2. Len(text) \in S
  BY <1>1 DEF IsList
<1>3. PICK k \in S : \A i \in S : k <= i
  <2>1. S \in SUBSET Nat /\ S # {}
    BY <1>1, <1>2
  <2> HIDE DEF S
  <2> QED
    BY <2>1, LeastNumber
<1>4. Notes(text, at, k)
  <2> SUFFICES ASSUME NEW l \in at + 1 .. k - 1, text[l][1] # "note" PROVE FALSE
    BY DEF Notes
  <2>1. l \in S /\ k \in Int
    BY <1>1
  <2> QED
    BY <1>3, <2>1
<1> QED
  BY <1>1, <1>4

(* What kinds of token there are.                                           *)
LEMMA Kinds ==
    ASSUME NEW text \in Seq(TableTokens), NEW i \in DOMAIN text
    PROVE  /\ text[i] \in TableTokens
           /\ IsEntry(text[i]) \/ text[i][1] \in {"(", ")", ",", "note"}
           /\ text[i][1] = "number" => text[i][2] \in Nat
<1>1. text[i] \in TableTokens
  OBVIOUS
<1> QED
  BY <1>1 DEF TableTokens, IsEntry

(* The brackets are the first and the last token of a list.                 *)
LEMMA Brackets ==
    ASSUME NEW text \in Seq(TableTokens), IsList(text), NEW i \in DOMAIN text
    PROVE  (text[i][1] = "(" => i = 1) /\ (text[i][1] = ")" => i = Len(text))
<1>1. ASSUME text[i][1] = "(", i # 1 PROVE FALSE
  <2>1. PICK p \in DOMAIN text : p < i /\ text[p][1] # "note" /\ Notes(text, p, i)
    BY <1>1, CodeBefore
  <2>2. MayFollow(text[p], text[i])
    BY <1>1, <2>1 DEF IsList
  <2> QED
    BY <1>1, <2>2 DEF MayFollow, IsEntry
<1>2. ASSUME text[i][1] = ")", i # Len(text) PROVE FALSE
  <2>1. PICK k \in DOMAIN text : i < k /\ text[k][1] # "note" /\ Notes(text, i, k)
    BY <1>2, CodeAfter
  <2>2. MayFollow(text[i], text[k])
    BY <1>2, <2>1 DEF IsList
  <2> QED
    BY <1>2, <2>2 DEF MayFollow, IsEntry
<1> QED
  BY <1>1, <1>2

(* An entry starts behind a bracket or a comma, ...                         *)
LEMMA FullStartIs ==
    ASSUME NEW text \in Seq(TableTokens), IsList(text), NEW at \in DOMAIN text, IsEntry(text[at])
    PROVE  \E q \in DOMAIN text : /\ FullStart(text, at) = q + 1 /\ q < at
                                  /\ text[q][1] \in {"(", ","} /\ Notes(text, q, at)
<1>1. at \in 1 .. Len(text) /\ Len(text) \in Nat /\ DOMAIN text = 1 .. Len(text) /\ at # 1
  BY DEF IsList, IsEntry
<1>2. PICK p \in DOMAIN text : p < at /\ text[p][1] # "note" /\ Notes(text, p, at)
  BY <1>1, CodeBefore
<1>3. MayFollow(text[p], text[at])
  BY <1>2 DEF IsList, IsEntry
<1>4. text[p][1] \in {"(", ","}
  BY <1>2, <1>3, Kinds DEF MayFollow, IsEntry
<1> DEFINE start(i) == text[i][1] \in {"(", ","} /\ Notes(text, i, at)
           q == CHOOSE i \in 1 .. at - 1 : start(i)
<1>5. p \in Int /\ at \in Int /\ 1 <= p /\ p < at
  BY <1>1, <1>2
<1>6. p \in 1 .. at - 1
  BY <1>5
<1>7. start(p)
  BY <1>2, <1>4
<1>8. FullStart(text, at) = 1 + q
  BY DEF FullStart
<1> HIDE DEF start
<1>9. q \in 1 .. at - 1 /\ start(q)
  BY <1>6, <1>7
<1> HIDE DEF q
<1>10. q \in DOMAIN text /\ q \in Int /\ q < at /\ FullStart(text, at) = q + 1
  BY <1>1, <1>8, <1>9
<1> QED
  BY <1>9, <1>10 DEF start

LEMMA Above ==
    ASSUME NEW L \in Nat, NEW m \in 1 .. L
    PROVE  /\ \A k \in m + 1 .. L : k \in 1 .. L /\ k # 1 /\ ~ (k <= m)
           /\ \A k \in m + 1 .. L - 1 : k \in m + 1 .. L /\ k # L
           /\ m # L => m < L
OBVIOUS

(* ... and the list ends behind its last entry or comma.                    *)
LEMMA ListEndIs ==
    ASSUME NEW text \in Seq(TableTokens), IsList(text),
           \E i \in DOMAIN text : IsEntry(text[i])
    PROVE  \E z \in DOMAIN text : /\ ListEnd(text) = z + 1 /\ z < Len(text)
                                  /\ IsEntry(text[z]) \/ text[z][1] = ","
                                  /\ \A k \in z + 1 .. Len(text) - 1 : text[k][1] = "note"
<1> DEFINE S == {i \in DOMAIN text : IsEntry(text[i]) \/ text[i][1] = ","}
           end(i) == /\ IsEntry(text[i]) \/ text[i][1] = ","
                     /\ \A k \in i + 1 .. Len(text) : text[k][1] \in {"note", ")"}
           z == CHOOSE i \in DOMAIN text : end(i)
<1>1. Len(text) \in Nat /\ DOMAIN text = 1 .. Len(text)
  OBVIOUS
<1>2. PICK m \in S : \A i \in S : i <= m
  <2>1. S # {} /\ \A i \in S : i \in 1 .. Len(text)
    BY <1>1
  <2> HIDE DEF S
  <2> QED
    BY <1>1, <2>1, GreatestNumber
<1>3. end(m)
  <2>1. m \in 1 .. Len(text) /\ (IsEntry(text[m]) \/ text[m][1] = ",")
    BY <1>1
  <2>2. ASSUME NEW k \in m + 1 .. Len(text) PROVE text[k][1] \in {"note", ")"}
    <3> HIDE DEF S, end
    <3>1. k \in 1 .. Len(text) /\ k # 1 /\ ~ (k <= m)
      BY <1>1, <2>1, Above
    <3>2. k \notin S
      BY <1>2, <3>1
    <3>3. k \in DOMAIN text /\ k # 1
      BY <1>1, <3>1
    <3> QED
      BY <3>2, <3>3, Kinds, Brackets DEF S
  <2> QED
    BY <2>1, <2>2
<1>5. ListEnd(text) = 1 + z
  BY DEF ListEnd
<1> HIDE DEF end
<1>4. z \in DOMAIN text /\ end(z)
  <2>1. m \in DOMAIN text
    OBVIOUS
  <2> QED
    BY <1>3, <2>1
<1>6. z \in 1 .. Len(text) /\ (IsEntry(text[z]) \/ text[z][1] = ",")
  BY <1>1, <1>4 DEF end
<1>7. \A k \in z + 1 .. Len(text) : text[k][1] \in {"note", ")"}
  BY <1>4 DEF end
<1> HIDE DEF z, S
<1>8. z # Len(text)
  BY <1>6 DEF IsList, IsEntry
<1>9. ASSUME NEW k \in z + 1 .. Len(text) - 1 PROVE text[k][1] = "note"
  <2>1. k \in 1 .. Len(text) /\ k # Len(text) /\ k \in z + 1 .. Len(text)
    BY <1>1, <1>6, Above
  <2>2. k \in DOMAIN text /\ text[k][1] \in {"note", ")"}
    BY <1>1, <1>7, <2>1
  <2> QED
    BY <2>1, <2>2, Brackets
<1>10. z \in DOMAIN text /\ z \in Int /\ z < Len(text)
  <2>1. z \in 1 .. Len(text)
    BY <1>6
  <2>2. z < Len(text)
    BY <1>1, <1>8, <2>1, Above
  <2> QED
    BY <1>1, <2>1, <2>2
<1>11. ListEnd(text) = z + 1
  BY <1>5, <1>10
<1> QED
  BY <1>6, <1>9, <1>10, <1>11

-----------------------------------------------------------------------------
(* A cut takes the tokens from one position to another out of a text.       *)
LEMMA CutIs ==
    ASSUME NEW T, NEW text \in Seq(T), NEW a \in Nat, NEW b \in Nat, a < b, b <= Len(text)
    PROVE  /\ Cut(text, a + 1, b + 1) \in Seq(T)
           /\ Len(Cut(text, a + 1, b + 1)) = Len(text) - (b - a)
           /\ \A i \in 1 .. a : Cut(text, a + 1, b + 1)[i] = text[i]
           /\ \A i \in a + 1 .. Len(text) - (b - a) :
                 Cut(text, a + 1, b + 1)[i] = text[i + (b - a)]
<1> DEFINE x == SubSeq(text, 1, a)
           y == SubSeq(text, b + 1, Len(text))
<1>1. Len(text) \in Nat
  OBVIOUS
<1>2. /\ x \in Seq(T) /\ Len(x) = a
      /\ \A i \in 1 .. a : x[i] = text[i]
  <2>1. a <= Len(text) /\ 1 \in Int /\ a \in Int
    BY <1>1
  <2>2. \A i \in 1 .. a : i \in 1 .. Len(text)
    BY <1>1, <2>1
  <2>3. x \in Seq(T)
    BY <2>1, <2>2, SubSeqProperties
  <2>4. Len(x) = a
    BY <2>1, <2>2, SubSeqProperties
  <2>5. \A i \in 1 .. a : x[i] = text[i]
    BY <2>1, <2>2, <2>4, SubSeqProperties
  <2> QED
    BY <2>3, <2>4, <2>5
<1>3. /\ y \in Seq(T) /\ Len(y) = Len(text) - b
      /\ \A i \in 1 .. Len(text) - b : y[i] = text[b + i]
  BY <1>1, SubSeqProperties
<1>4. Cut(text, a + 1, b + 1) = x \o y
  <2>1. Cut(text, a + 1, b + 1) = SubSeq(text, 1, (a + 1) - 1) \o y
    BY DEF Cut
  <2>2. (a + 1) - 1 = a
    OBVIOUS
  <2> QED
    BY <2>1, <2>2, Zenon
<1> HIDE DEF x, y
<1>5. /\ x \o y \in Seq(T) /\ Len(x \o y) = Len(x) + Len(y)
      /\ \A i \in 1 .. Len(x) + Len(y) :
            (x \o y)[i] = IF i <= Len(x) THEN x[i] ELSE y[i - Len(x)]
  BY <1>2, <1>3, ConcatProperties
<1>6. Len(x \o y) = Len(text) - (b - a)
  BY <1>1, <1>2, <1>3, <1>5
<1>7. ASSUME NEW i \in 1 .. a PROVE (x \o y)[i] = text[i]
  <2>1. i \in 1 .. Len(x) + Len(y) /\ i <= Len(x)
    BY <1>1, <1>2, <1>3
  <2> QED
    BY <1>2, <1>5, <2>1
<1>8. ASSUME NEW i \in a + 1 .. Len(text) - (b - a) PROVE (x \o y)[i] = text[i + (b - a)]
  <2>0. i \in Int /\ a < i /\ i <= Len(text) - (b - a)
    BY <1>1
  <2>1. i \in 1 .. Len(x) + Len(y) /\ ~ (i <= Len(x)) /\ i - a \in 1 .. Len(text) - b
    <3>1. Len(x) = a /\ Len(x) + Len(y) = Len(text) - (b - a)
      BY <1>1, <1>2, <1>3
    <3>2. i \in 1 .. Len(text) - (b - a) /\ ~ (i <= a)
      BY <1>1, <2>0
    <3>3. i - a \in 1 .. Len(text) - b
      BY <1>1, <2>0
    <3> QED
      BY <3>1, <3>2, <3>3
  <2>2. b + (i - a) = i + (b - a)
    BY <2>0
  <2> QED
    BY <1>2, <1>3, <1>5, <2>1, <2>2
<1> QED
  BY <1>4, <1>5, <1>6, <1>7, <1>8

(* A text that is another one without d of its tokens is a list if what     *)
(* comes before and after the cut may follow each other.                    *)
IsCut(text, r, a, d) ==
    /\ 1 <= a /\ 0 < d /\ a + d < Len(text) /\ Len(r) = Len(text) - d
    /\ \A i \in Int : 1 <= i /\ i <= a => r[i] = text[i]
    /\ \A i \in Int : a < i /\ i <= Len(text) - d => r[i] = text[i + d]

MayMeet(text, a, b, k) ==
    /\ b < k /\ k <= Len(text) /\ text[a][1] # "note" /\ text[k][1] # "note"
    /\ Notes(text, b, k) /\ MayFollow(text[a], text[k])

LEMMA ShorterIsList ==
    ASSUME NEW T, NEW text \in Seq(T), NEW r \in Seq(T), NEW a \in Int, NEW d \in Int,
           NEW k0 \in Int, IsList(text), IsCut(text, r, a, d), MayMeet(text, a, a + d, k0)
    PROVE  IsList(r)
<1> DEFINE L == Len(text)
<1>0. L \in Int /\ Len(text) = L /\ DOMAIN text = 1 .. L /\ DOMAIN r = 1 .. Len(r)
  OBVIOUS
<1>c. /\ 1 <= a /\ 0 < d /\ a + d < L /\ Len(r) = L - d
      /\ \A i \in Int : 1 <= i /\ i <= a => r[i] = text[i]
      /\ \A i \in Int : a < i /\ i <= L - d => r[i] = text[i + d]
      /\ a + d < k0 /\ k0 <= L /\ text[a][1] # "note" /\ text[k0][1] # "note"
      /\ Notes(text, a + d, k0) /\ MayFollow(text[a], text[k0])
  BY DEF IsCut, MayMeet
<1> HIDE DEF L
<1> USE <1>0, <1>c
<1>1. Len(r) > 1 /\ r[1] = text[1] /\ r[Len(r)] = text[L]
  <2>1. a < L - d /\ L - d <= L - d /\ (L - d) + d = L
    OBVIOUS
  <2>2. r[L - d] = text[(L - d) + d]
    BY <2>1
  <2> QED
    BY <2>1, <2>2
<1>2. ASSUME NEW i \in Int, NEW k \in Int, 1 <= i, i < k, k <= L - d,
             r[i][1] # "note", r[k][1] # "note", Notes(r, i, k)
      PROVE  MayFollow(r[i], r[k])
  <2>0. \A l \in Int : i < l /\ l < k => r[l][1] = "note"
    BY <1>2 DEF Notes
  <2>n. \A x, y \in Int : (\A l \in Int : x < l /\ l < y => text[l][1] = "note") => Notes(text, x, y)
    BY DEF Notes
  <2>m. ASSUME NEW x \in Int, NEW y \in Int, 1 <= x, x < y, y <= L, text[x][1] # "note", text[y][1] # "note",
               \A l \in Int : x < l /\ l < y => text[l][1] = "note"
        PROVE  MayFollow(text[x], text[y])
    <3>1. x \in DOMAIN text /\ y \in DOMAIN text
      BY <2>m
    <3>2. Notes(text, x, y)
      BY <2>m, <2>n
    <3> QED
      BY <2>m, <3>1, <3>2 DEF IsList
  <2>1. CASE k <= a
    <3>1. r[i] = text[i] /\ r[k] = text[k]
      BY <1>2, <2>1
    <3>2. \A l \in Int : i < l /\ l < k => text[l][1] = "note"
      BY <1>2, <2>0, <2>1
    <3>3. k <= L
      BY <1>2
    <3> QED
      BY <1>2, <2>m, <3>1, <3>2, <3>3
  <2>2. CASE a < i
    <3>0. i <= L - d /\ a < k /\ k <= L - d
      BY <1>2, <2>2
    <3>1. r[i] = text[i + d] /\ r[k] = text[k + d]
      BY <2>2, <3>0
    <3>2. ASSUME NEW l \in Int, i + d < l, l < k + d PROVE text[l][1] = "note"
      <4>1. i < l - d /\ l - d < k /\ a < l - d /\ l - d <= L - d /\ (l - d) + d = l
        BY <1>2, <2>2, <3>2
      <4>2. r[l - d][1] = "note" /\ r[l - d] = text[(l - d) + d]
        BY <2>0, <4>1
      <4> QED
        BY <4>1, <4>2
    <3>3. /\ i + d \in Int /\ k + d \in Int /\ 1 <= i + d /\ i + d < k + d /\ k + d <= L
          /\ text[i + d][1] # "note" /\ text[k + d][1] # "note"
      BY <1>2, <2>2, <3>1
    <3>4. MayFollow(text[i + d], text[k + d])
      BY <2>m, <3>2, <3>3
    <3> QED
      BY <3>1, <3>4
  <2>3. CASE i <= a /\ a < k
    <3>1. i = a
      <4>1. i < a => r[a][1] = "note" /\ r[a] = text[a]
        BY <2>0, <2>3
      <4> QED
        BY <2>3, <4>1
    <3>2. ASSUME NEW l \in Int, a + d < l, l < k0 PROVE text[l][1] = "note"
      <4>1. l \in (a + d) + 1 .. k0 - 1
        BY <3>2
      <4>2. Notes(text, a + d, k0)
        BY <1>c
      <4> HIDE <1>0, <1>c
      <4> QED
        BY <4>1, <4>2 DEF Notes
    <3>3. k + d = k0
      <4>1. ASSUME k + d < k0 PROVE FALSE
        <5>1. k + d \in Int /\ a + d < k + d /\ k <= L - d
          BY <1>2, <2>3
        <5>2. r[k] = text[k + d] /\ text[k + d][1] = "note"
          BY <2>3, <3>2, <4>1, <5>1
        <5> QED
          BY <1>2, <5>2
      <4>2. ASSUME k0 < k + d PROVE FALSE
        <5>1. a < k0 - d /\ k0 - d < k /\ k0 - d <= L - d /\ (k0 - d) + d = k0
          BY <1>2, <4>2
        <5>2. r[k0 - d][1] = "note" /\ r[k0 - d] = text[(k0 - d) + d]
          BY <2>0, <3>1, <5>1
        <5> QED
          BY <5>1, <5>2
      <4>3. k + d \in Int /\ k0 \in Int
        BY <1>2
      <4> QED
        BY <4>1, <4>2, <4>3
    <3>4. r[i] = text[a] /\ r[k] = text[k0]
      BY <1>2, <2>3, <3>1, <3>3
    <3> QED
      BY <3>4
  <2> QED
    BY <2>1, <2>2, <2>3
<1>3. \A i, k \in DOMAIN r : i < k /\ r[i][1] # "note" /\ r[k][1] # "note" /\ Notes(r, i, k) =>
          MayFollow(r[i], r[k])
  <2> SUFFICES ASSUME NEW i \in DOMAIN r, NEW k \in DOMAIN r, i < k,
                      r[i][1] # "note", r[k][1] # "note", Notes(r, i, k)
               PROVE  MayFollow(r[i], r[k])
    OBVIOUS
  <2>1. i \in Int /\ k \in Int /\ 1 <= i /\ k <= L - d
    OBVIOUS
  <2> QED
    BY <1>2, <2>1
<1> QED
  BY <1>1, <1>3 DEF IsList

(* If one entry is cut out, the others remain, in their order.              *)
LEMMA ShorterEntries ==
    ASSUME NEW T, NEW text \in Seq(T), NEW r \in Seq(T), NEW a \in Int, NEW d \in Int,
           IsCut(text, r, a, d),
           NEW n \in DOMAIN Entries(text), a < Entries(text)[n], Entries(text)[n] <= a + d,
           \A i \in Int : a < i /\ i <= a + d /\ IsEntry(text[i]) => i = Entries(text)[n]
    PROVE  ListOf(r) = RemoveAt(ListOf(text), n)
<1> DEFINE L == Len(text)
<1>0. L \in Int /\ Len(text) = L
  OBVIOUS
<1>c. /\ 1 <= a /\ 0 < d /\ a + d < L /\ Len(r) = L - d
      /\ \A i \in Int : 1 <= i /\ i <= a => r[i] = text[i]
      /\ \A i \in Int : a < i /\ i <= L - d => r[i] = text[i + d]
  BY DEF IsCut
<1> HIDE DEF L
<1> USE <1>0, <1>c
<1> DEFINE e == Entries(text)
           N == Len(e)
           s == [m \in 1 .. N - 1 |-> IF m < n THEN e[m] ELSE e[m + 1] - d]
<1>1. /\ N \in Nat /\ DOMAIN e = 1 .. N /\ Ascends(e)
      /\ \A m \in DOMAIN e : e[m] \in DOMAIN text /\ IsEntry(text[e[m]])
      /\ \A i \in DOMAIN text : IsEntry(text[i]) => \E m \in DOMAIN e : e[m] = i
  BY EntriesAscend
<1>2. DOMAIN text = 1 .. L /\ DOMAIN r = 1 .. L - d
  OBVIOUS
<1>h. n \in DOMAIN e /\ a < e[n] /\ e[n] <= a + d /\ \A i \in Int : a < i /\ i <= a + d /\ IsEntry(text[i]) => i = e[n]
  OBVIOUS
<1>e. ListOf(text) = [m \in 1 .. N |-> text[e[m]]]
  BY <1>1 DEF ListOf
<1> HIDE DEF e
<1>s. /\ DOMAIN s = 1 .. N - 1
      /\ \A m \in Int : 1 <= m /\ m <= N - 1 => s[m] = IF m < n THEN e[m] ELSE e[m + 1] - d
  BY <1>1
<1>d. s = [m \in 1 .. N - 1 |-> s[m]]
  OBVIOUS
<1> HIDE DEF s
<1>3. n \in Int /\ 1 <= n /\ n <= N
  BY <1>1, <1>h
<1>4. ASSUME NEW m \in Int, 1 <= m, m <= N
      PROVE  /\ e[m] \in Int /\ 1 <= e[m] /\ e[m] <= L /\ IsEntry(text[e[m]])
             /\ (m < n => e[m] <= a) /\ (n < m => a + d < e[m])
  <2>1. m \in DOMAIN e
    BY <1>1, <1>4
  <2>2. e[m] \in Int /\ 1 <= e[m] /\ e[m] <= L /\ IsEntry(text[e[m]])
    BY <1>1, <1>2, <2>1
  <2>3. e[n] \in Int
    BY <1>1, <1>2, <1>h
  <2>4. (m < n => e[m] < e[n]) /\ (n < m => e[n] < e[m])
    BY <1>1, <1>h, <2>1 DEF Ascends
  <2>5. a < e[m] /\ e[m] <= a + d => e[m] = e[n]
    BY <1>h, <2>2
  <2> QED
    BY <1>3, <1>h, <2>2, <2>3, <2>4, <2>5
<1>5. ASSUME NEW m \in Int, 1 <= m, m <= N - 1
      PROVE  /\ s[m] \in Int /\ 1 <= s[m] /\ s[m] <= L - d
             /\ r[s[m]] = IF m < n THEN text[e[m]] ELSE text[e[m + 1]]
             /\ IsEntry(r[s[m]]) /\ (m < n => s[m] <= a) /\ (n <= m => a < s[m])
  <2>1. s[m] = IF m < n THEN e[m] ELSE e[m + 1] - d
    BY <1>s, <1>5
  <2>2. CASE m < n
    <3>1. m <= N
      BY <1>1, <1>5
    <3>2. e[m] \in Int /\ 1 <= e[m] /\ e[m] <= a /\ IsEntry(text[e[m]])
      BY <1>4, <1>5, <2>2, <3>1
    <3>3. s[m] = e[m] /\ r[e[m]] = text[e[m]]
      BY <2>1, <2>2, <3>2
    <3> QED
      BY <1>3, <2>2, <3>2, <3>3
  <2>3. CASE n <= m
    <3>1. 1 <= m + 1 /\ m + 1 <= N /\ n < m + 1 /\ m + 1 \in Int
      BY <1>1, <1>3, <1>5, <2>3
    <3>2. e[m + 1] \in Int /\ e[m + 1] <= L /\ a + d < e[m + 1] /\ IsEntry(text[e[m + 1]])
      BY <1>4, <3>1
    <3>3. s[m] = e[m + 1] - d /\ e[m + 1] - d \in Int /\ a < e[m + 1] - d /\ e[m + 1] - d <= L - d
          /\ (e[m + 1] - d) + d = e[m + 1]
      BY <1>3, <2>1, <2>3, <3>2
    <3>4. r[e[m + 1] - d] = text[(e[m + 1] - d) + d]
      BY <3>3
    <3>5. r[s[m]] = text[e[m + 1]]
      BY <3>3, <3>4
    <3>6. s[m] \in Int /\ 1 <= s[m] /\ s[m] <= L - d /\ a < s[m]
      BY <3>3
    <3>7. ~ (m < n)
      BY <1>3, <2>3
    <3> QED
      BY <2>3, <3>2, <3>5, <3>6, <3>7
  <2> QED
    BY <1>3, <1>5, <2>2, <2>3
<1> DEFINE K == N - 1
<1>6. K \in Nat /\ s \in [1 .. K -> DOMAIN r] /\ \A m \in 1 .. K : IsEntry(r[s[m]])
  <2>1. K \in Nat
    BY <1>1, <1>3
  <2>2. \A m \in 1 .. K : s[m] \in 1 .. L - d /\ IsEntry(r[s[m]])
    BY <1>1, <1>5
  <2> QED
    BY <1>2, <1>s, <1>d, <2>1, <2>2
<1>7. Ascends(s)
  <2> SUFFICES ASSUME NEW x \in DOMAIN s, NEW y \in DOMAIN s, x < y PROVE s[x] < s[y]
    BY DEF Ascends
  <2>1. x \in Int /\ y \in Int /\ 1 <= x /\ x <= N - 1 /\ 1 <= y /\ y <= N - 1
    BY <1>1, <1>s
  <2>2. /\ s[x] \in Int /\ s[y] \in Int /\ (x < n => s[x] <= a) /\ (n <= y => a < s[y])
        /\ s[x] = (IF x < n THEN e[x] ELSE e[x + 1] - d)
        /\ s[y] = (IF y < n THEN e[y] ELSE e[y + 1] - d)
    BY <1>5, <1>s, <2>1
  <2>3. CASE x < n /\ n <= y
    BY <1>3, <2>2, <2>3
  <2>4. CASE y < n
    <3>1. x \in DOMAIN e /\ y \in DOMAIN e
      BY <1>1, <2>1
    <3>2. e[x] < e[y]
      BY <1>1, <3>1 DEF Ascends
    <3>3. x < n
      BY <1>3, <2>1, <2>4
    <3> QED
      BY <2>2, <2>4, <3>2, <3>3
  <2>5. CASE n <= x
    <3>1. x + 1 \in DOMAIN e /\ y + 1 \in DOMAIN e /\ x + 1 < y + 1
      BY <1>1, <2>1
    <3>2. e[x + 1] < e[y + 1]
      BY <1>1, <3>1 DEF Ascends
    <3>3. ~ (x < n) /\ ~ (y < n)
      BY <1>3, <2>1, <2>5
    <3>4. e[x + 1] \in Int /\ e[y + 1] \in Int
      BY <1>1, <1>2, <3>1
    <3>5. s[x] = e[x + 1] - d /\ s[y] = e[y + 1] - d
      BY <2>2, <3>3
    <3> QED
      BY <3>2, <3>4, <3>5
  <2> QED
    BY <1>3, <2>1, <2>3, <2>4, <2>5
<1>8. ASSUME NEW i \in DOMAIN r, IsEntry(r[i]) PROVE \E m \in 1 .. K : s[m] = i
  <2>0. i \in Int /\ 1 <= i /\ i <= L - d
    BY <1>2
  <2>1. CASE i <= a
    <3>1. IsEntry(text[i]) /\ i \in DOMAIN text
      BY <1>2, <1>8, <2>0, <2>1
    <3>2. PICK m \in DOMAIN e : e[m] = i
      BY <1>1, <3>1
    <3>3. m \in Int /\ 1 <= m /\ m <= N
      BY <1>1
    <3>4. m # n /\ ~ (n < m)
      BY <1>4, <1>h, <2>0, <2>1, <3>2, <3>3
    <3>5. m \in 1 .. K /\ m < n
      BY <1>1, <1>3, <3>3, <3>4
    <3>6. s[m] = i
      BY <1>s, <3>2, <3>5
    <3> QED
      BY <3>5, <3>6
  <2>2. CASE a < i
    <3>1. IsEntry(text[i + d]) /\ i + d \in DOMAIN text
      BY <1>2, <1>8, <2>0, <2>2
    <3>2. PICK m \in DOMAIN e : e[m] = i + d
      BY <1>1, <3>1
    <3>3. m \in Int /\ 1 <= m /\ m <= N
      BY <1>1
    <3>4. m # n /\ ~ (m < n)
      BY <1>4, <1>h, <2>0, <2>2, <3>2, <3>3
    <3>5. m - 1 \in 1 .. K /\ ~ (m - 1 < n) /\ (m - 1) + 1 = m
      BY <1>1, <1>3, <3>3, <3>4
    <3>6. s[m - 1] = e[(m - 1) + 1] - d
      BY <1>s, <3>5
    <3>7. s[m - 1] = i
      BY <2>0, <3>2, <3>5, <3>6
    <3> QED
      BY <3>5, <3>7
  <2> QED
    BY <2>0, <2>1, <2>2
<1> HIDE DEF K
<1>9. Entries(r) = s
  BY <1>6, <1>7, <1>8, EntriesAre
<1>10. ListOf(r) = [m \in 1 .. K |-> IF m < n THEN text[e[m]] ELSE text[e[m + 1]]]
  <2>1. DOMAIN s = 1 .. K
    BY <1>6
  <2>2. \A m \in 1 .. K : r[s[m]] = IF m < n THEN text[e[m]] ELSE text[e[m + 1]]
    BY <1>1, <1>5 DEF K
  <2>3. ListOf(r) = [m \in 1 .. K |-> r[s[m]]]
    BY <1>9, <2>1 DEF ListOf
  <2> QED
    BY <2>2, <2>3
<1> DEFINE list == ListOf(text)
<1>11. list \in Seq(T) /\ Len(list) = N /\ \A m \in 1 .. N : list[m] = text[e[m]]
  <2>1. \A m \in 1 .. N : text[e[m]] \in T
    <3> SUFFICES ASSUME NEW m \in 1 .. N PROVE text[e[m]] \in T
      OBVIOUS
    <3>1. e[m] \in DOMAIN text
      BY <1>1
    <3> QED
      BY <3>1
  <2>2. list \in [1 .. N -> T] /\ N \in Nat
    BY <1>1, <1>e, <2>1
  <2>3. list \in Seq(T) /\ Len(list) = N
    <3> HIDE DEF list
    <3> QED
      BY <2>2, FunctionIsList
  <2> QED
    BY <1>e, <2>3
<1>12. RemoveAt(list, n) = Cut(list, (n - 1) + 1, n + 1)
  <2>1. ((n - 1) + 1) - 1 = n - 1
    BY <1>3
  <2>2. Cut(list, (n - 1) + 1, n + 1) = SubSeq(list, 1, ((n - 1) + 1) - 1) \o SubSeq(list, n + 1, Len(list))
    BY DEF Cut
  <2>3. Cut(list, (n - 1) + 1, n + 1) = SubSeq(list, 1, n - 1) \o SubSeq(list, n + 1, Len(list))
    BY <2>1, <2>2, Zenon
  <2> QED
    BY <2>3, Zenon DEF RemoveAt
<1> DEFINE c == Cut(list, (n - 1) + 1, n + 1)
<1> HIDE DEF list
<1>13. /\ c \in Seq(T) /\ Len(c) = N - (n - (n - 1))
       /\ \A i \in 1 .. n - 1 : c[i] = list[i]
       /\ \A i \in (n - 1) + 1 .. N - (n - (n - 1)) : c[i] = list[i + (n - (n - 1))]
  <2>1. n - 1 \in Nat /\ n \in Nat /\ n - 1 < n /\ n <= Len(list)
    BY <1>3, <1>11
  <2>2. /\ c \in Seq(T) /\ Len(c) = Len(list) - (n - (n - 1))
        /\ \A i \in 1 .. n - 1 : c[i] = list[i]
        /\ \A i \in (n - 1) + 1 .. Len(list) - (n - (n - 1)) : c[i] = list[i + (n - (n - 1))]
    <3> DEFINE x == n - 1
    <3>1. list \in Seq(T) /\ x \in Nat /\ n \in Nat /\ x < n /\ n <= Len(list)
      BY <1>11, <2>1
    <3>2. c = Cut(list, x + 1, n + 1)
      OBVIOUS
    <3> HIDE DEF x, c
    <3>3. /\ Cut(list, x + 1, n + 1) \in Seq(T)
          /\ Len(Cut(list, x + 1, n + 1)) = Len(list) - (n - x)
          /\ \A i \in 1 .. x : Cut(list, x + 1, n + 1)[i] = list[i]
          /\ \A i \in x + 1 .. Len(list) - (n - x) :
                Cut(list, x + 1, n + 1)[i] = list[i + (n - x)]
      BY <3>1, CutIs
    <3> QED
      BY <3>2, <3>3 DEF x
  <2>3. Len(list) = N
    BY <1>11
  <2> HIDE DEF c
  <2> QED
    BY <2>2, <2>3, Zenon
<1> HIDE DEF c
<1>14. /\ Len(c) = K /\ DOMAIN c = 1 .. K
       /\ \A m \in 1 .. K : c[m] = IF m < n THEN text[e[m]] ELSE text[e[m + 1]]
  <2>1. n - (n - 1) = 1 /\ (n - 1) + 1 = n
    BY <1>3
  <2>2. Len(c) = K /\ DOMAIN c = 1 .. K
    BY <1>13, <2>1 DEF K
  <2>3. ASSUME NEW m \in 1 .. K PROVE c[m] = IF m < n THEN text[e[m]] ELSE text[e[m + 1]]
    <3>0. m \in Int /\ 1 <= m /\ m <= N - 1
      BY <1>1 DEF K
    <3>1. CASE m < n
      <4>1. m \in 1 .. n - 1 /\ m \in 1 .. N
        BY <1>1, <1>3, <3>0, <3>1
      <4> QED
        BY <1>11, <1>13, <3>1, <4>1
    <3>2. CASE ~ (m < n)
      <4>1. m \in n .. N - 1 /\ m + 1 \in 1 .. N
        BY <1>1, <1>3, <3>0, <3>2
      <4>2. c[m] = list[m + 1]
        BY <1>13, <2>1, <4>1
      <4> QED
        BY <1>11, <3>2, <4>1, <4>2
    <3> QED
      BY <3>1, <3>2
  <2> QED
    BY <2>2, <2>3
<1>15. c = [m \in 1 .. K |-> IF m < n THEN text[e[m]] ELSE text[e[m + 1]]]
  <2>1. c = [m \in 1 .. K |-> c[m]]
    BY <1>13, <1>14
  <2> QED
    BY <1>14, <2>1
<1> QED
  BY <1>10, <1>12, <1>15 DEF c, list

(* Together: what is left when an entry is cut out with the notes and the   *)
(* comma that go with it.                                                   *)
OneEntryLess(text, r, n) == IsList(r) /\ r # text /\ ListOf(r) = RemoveAt(ListOf(text), n)

LEMMA CutOut ==
    ASSUME NEW text \in Seq(TableTokens), IsList(text), NEW n \in DOMAIN Entries(text),
           NEW a \in Int, NEW b \in Int, NEW k0 \in Int,
           1 <= a, b < k0, k0 <= Len(text), text[a][1] # "note", text[k0][1] # "note",
           Notes(text, b, k0), MayFollow(text[a], text[k0]),
           a < Entries(text)[n], Entries(text)[n] <= b,
           \A m \in DOMAIN Entries(text) : a < Entries(text)[m] /\ Entries(text)[m] <= b => m = n
    PROVE  OneEntryLess(text, Cut(text, a + 1, b + 1), n)
<1> DEFINE L == Len(text)
           d == b - a
           r == Cut(text, a + 1, b + 1)
           e == Entries(text)
<1>1. L \in Int /\ DOMAIN text = 1 .. L
  OBVIOUS
<1>2. /\ DOMAIN e = 1 .. Len(e)
      /\ \A m \in DOMAIN e : e[m] \in DOMAIN text /\ IsEntry(text[e[m]])
      /\ \A i \in DOMAIN text : IsEntry(text[i]) => \E m \in DOMAIN e : e[m] = i
  BY EntriesAscend
<1>3. e[n] \in Int
  BY <1>1, <1>2
<1>4. /\ d \in Int /\ 0 < d /\ a + d = b /\ a \in Nat /\ b \in Nat /\ a < b /\ b <= L /\ b < L
      /\ L - (b - a) = L - d
  BY <1>1, <1>3
<1>5. /\ r \in Seq(TableTokens) /\ Len(r) = L - (b - a)
      /\ \A i \in 1 .. a : r[i] = text[i]
      /\ \A i \in a + 1 .. L - (b - a) : r[i] = text[i + (b - a)]
  BY <1>4, CutIs
<1>6. Len(r) = L - d /\ DOMAIN r = 1 .. L - d
  BY <1>5
<1>7. \A i \in Int : 1 <= i /\ i <= a => r[i] = text[i]
  BY <1>5
<1>8. \A i \in Int : a < i /\ i <= L - d => r[i] = text[i + d]
  <2> SUFFICES ASSUME NEW i \in Int, a < i, i <= L - d PROVE r[i] = text[i + d]
    OBVIOUS
  <2>1. i \in a + 1 .. L - (b - a)
    BY <1>1, <1>4
  <2> QED
    BY <1>5, <2>1
<1>9. \A i \in Int : a < i /\ i <= a + d /\ IsEntry(text[i]) => i = e[n]
  <2> SUFFICES ASSUME NEW i \in Int, a < i, i <= a + d, IsEntry(text[i]) PROVE i = e[n]
    OBVIOUS
  <2>1. i \in DOMAIN text
    BY <1>1, <1>4
  <2>2. PICK m \in DOMAIN e : e[m] = i
    BY <1>2, <2>1
  <2>3. m = n
    BY <1>4, <2>2
  <2> QED
    BY <2>2, <2>3
<1>0. a + d < k0 /\ Notes(text, a + d, k0) /\ a < e[n] /\ e[n] <= a + d /\ n \in DOMAIN e /\ a + d < L
  BY <1>4
<1> HIDE DEF d, r
<1>c. IsCut(text, r, a, d) /\ d \in Int /\ r \in Seq(TableTokens)
  BY <1>0, <1>4, <1>5, <1>6, <1>7, <1>8 DEF IsCut
<1>10. IsList(r)
  <2>1. MayMeet(text, a, a + d, k0)
    BY <1>0 DEF MayMeet
  <2> QED
    BY <1>c, <2>1, ShorterIsList
<1>11. ListOf(r) = RemoveAt(ListOf(text), n)
  BY <1>c, <1>0, <1>9, ShorterEntries
<1>12. r # text
  BY <1>1, <1>4, <1>6
<1> QED
  BY <1>10, <1>11, <1>12 DEF r, OneEntryLess

(* A removal cuts out its entry.                                            *)
LEMMA EntryRemoved ==
    ASSUME NEW text \in Seq(TableTokens), IsList(text), NEW n \in DOMAIN Entries(text)
    PROVE  OneEntryLess(text, withoutEntry(text, Entries(text), n), n)
<1> DEFINE e == Entries(text)
           N == Len(e)
           L == Len(text)
<1>1. /\ N \in Nat /\ DOMAIN e = 1 .. N /\ Ascends(e)
      /\ \A m \in DOMAIN e : e[m] \in DOMAIN text /\ IsEntry(text[e[m]])
      /\ \A i \in DOMAIN text : IsEntry(text[i]) => \E m \in DOMAIN e : e[m] = i
  BY EntriesAscend
<1>2. L \in Nat /\ DOMAIN text = 1 .. L
  OBVIOUS
<1>n. n \in DOMAIN e /\ n \in Int /\ 1 <= n /\ n <= N
  BY <1>1
<1>3. withoutEntry(text, e, n) =
          IF n < N THEN Cut(text, FullStart(text, e[n]), FullStart(text, e[n + 1]))
          ELSE Cut(text, IF n = 1 THEN FullStart(text, e[n]) ELSE e[n - 1] + 1, ListEnd(text))
  BY DEF withoutEntry
<1>4. ASSUME NEW m \in DOMAIN e
      PROVE  m \in Int /\ 1 <= m /\ m <= N /\ e[m] \in Int /\ 1 <= e[m] /\ e[m] <= L
  BY <1>1, <1>2
<1>5. ASSUME NEW m \in DOMAIN e, NEW k \in DOMAIN e PROVE (m < k => e[m] < e[k]) /\ (k < m => e[k] < e[m])
  BY <1>1 DEF Ascends
<1>q. ASSUME NEW m \in DOMAIN e
      PROVE  \E q \in Int : /\ 1 <= q /\ FullStart(text, e[m]) = q + 1 /\ q < e[m]
                            /\ text[q][1] \in {"(", ","} /\ Notes(text, q, e[m])
  <2>1. e[m] \in DOMAIN text /\ IsEntry(text[e[m]])
    BY <1>1
  <2>2. PICK q \in DOMAIN text : /\ FullStart(text, e[m]) = q + 1 /\ q < e[m]
                                 /\ text[q][1] \in {"(", ","} /\ Notes(text, q, e[m])
    BY <2>1, FullStartIs
  <2>3. q \in Int /\ 1 <= q
    BY <1>2
  <2> QED
    BY <2>2, <2>3
<1>z. \E z \in Int : /\ 1 <= z /\ ListEnd(text) = z + 1 /\ z < L /\ e[n] <= z
                     /\ text[L][1] = ")" /\ Notes(text, z, L)
  <2>1. PICK z \in DOMAIN text : /\ ListEnd(text) = z + 1 /\ z < L
                                 /\ \A k \in z + 1 .. L - 1 : text[k][1] = "note"
    BY <1>1, <1>n, ListEndIs
  <2>2. z \in Int /\ 1 <= z /\ text[L][1] = ")" /\ Notes(text, z, L)
    BY <1>2, <2>1 DEF Notes, IsList
  <2>3. e[n] <= z
    <3>1. e[n] \in Int /\ e[n] <= L /\ IsEntry(text[e[n]])
      BY <1>1, <1>4, <1>n
    <3>2. e[n] # L
      BY <2>2, <3>1 DEF IsEntry
    <3>3. ~ (e[n] \in z + 1 .. L - 1)
      BY <2>1, <3>1 DEF IsEntry
    <3> QED
      BY <1>2, <2>2, <3>1, <3>2, <3>3
  <2> QED
    BY <2>1, <2>2, <2>3
<1> HIDE DEF e, N, L
<1>6. CASE n < N
  <2>1. n + 1 \in DOMAIN e /\ n < n + 1
    BY <1>1, <1>n, <1>6
  <2>2. PICK a \in Int : /\ 1 <= a /\ FullStart(text, e[n]) = a + 1 /\ a < e[n]
                         /\ text[a][1] \in {"(", ","} /\ Notes(text, a, e[n])
    BY <1>q, <1>n
  <2>3. PICK b \in Int : /\ 1 <= b /\ FullStart(text, e[n + 1]) = b + 1 /\ b < e[n + 1]
                         /\ text[b][1] \in {"(", ","} /\ Notes(text, b, e[n + 1])
    BY <1>q, <2>1
  <2> DEFINE k0 == e[n + 1]
  <2>4. /\ e[n] \in Int /\ k0 \in Int /\ k0 <= L /\ e[n] < k0 /\ IsEntry(text[e[n]]) /\ IsEntry(text[k0])
    BY <1>1, <1>4, <1>5, <1>n, <2>1
  <2>5. e[n] <= b
    <3>1. ~ (e[n] \in b + 1 .. k0 - 1)
      BY <2>3, <2>4 DEF IsEntry, Notes
    <3> QED
      BY <2>4, <3>1
  <2>6. ASSUME NEW m \in DOMAIN e, a < e[m], e[m] <= b PROVE m = n
    <3>1. /\ m \in Int /\ e[m] \in Int /\ IsEntry(text[e[m]])
          /\ (m < n => e[m] < e[n]) /\ (n + 1 < m => e[n + 1] < e[m])
      BY <1>1, <1>4, <1>5, <1>n, <2>1
    <3>2. ~ (e[m] \in a + 1 .. e[n] - 1)
      BY <2>2, <3>1 DEF IsEntry, Notes
    <3>3. ~ (m < n)
      BY <2>4, <2>6, <3>1, <3>2
    <3>4. m # n + 1 /\ ~ (n + 1 < m)
      <4>1. k0 = e[n + 1] /\ b < k0
        BY <2>3
      <4> HIDE DEF k0
      <4> QED
        BY <2>4, <2>6, <3>1, <4>1
    <3> QED
      BY <1>n, <3>1, <3>3, <3>4
  <2>7. text[a][1] # "note" /\ text[k0][1] # "note" /\ MayFollow(text[a], text[k0])
    BY <2>2, <2>4 DEF MayFollow, IsEntry
  <2>8. b < k0 /\ Notes(text, b, k0)
    BY <2>3
  <2>9. withoutEntry(text, e, n) = Cut(text, a + 1, b + 1)
    BY <1>3, <1>6, <2>2, <2>3
  <2> HIDE DEF k0
  <2> QED
    BY <1>n, <2>2, <2>4, <2>5, <2>6, <2>7, <2>8, <2>9, CutOut DEF e, L
<1>7. CASE n = N
  <2>1. PICK b \in Int : /\ 1 <= b /\ ListEnd(text) = b + 1 /\ b < L /\ e[n] <= b
                         /\ text[L][1] = ")" /\ Notes(text, b, L)
    BY <1>z
  <2>2. \E a \in Int : /\ 1 <= a /\ a < e[n] /\ text[a][1] # "note" /\ MayFollow(text[a], text[L])
                       /\ \A m \in DOMAIN e : a < e[m] => m = n
                       /\ withoutEntry(text, e, n) = Cut(text, a + 1, b + 1)
    <3>1. CASE n = 1
      <4>1. PICK a \in Int : /\ 1 <= a /\ FullStart(text, e[n]) = a + 1 /\ a < e[n]
                             /\ text[a][1] \in {"(", ","}
        BY <1>q, <1>n
      <4>0. ~ (n < N)
        BY <1>7, <1>n
      <4>5. withoutEntry(text, e, n) = Cut(text, FullStart(text, e[n]), ListEnd(text))
        BY <1>3, <3>1, <4>0
      <4>2. withoutEntry(text, e, n) = Cut(text, a + 1, b + 1)
        BY <2>1, <4>1, <4>5
      <4>3. text[a][1] # "note" /\ MayFollow(text[a], text[L])
        BY <2>1, <4>1 DEF MayFollow, IsEntry
      <4>4. \A m \in DOMAIN e : m = n
        BY <1>1, <1>7, <3>1
      <4> QED
        BY <4>1, <4>2, <4>3, <4>4
    <3>2. CASE n # 1
      <4> DEFINE a == e[n - 1]
      <4>1. n - 1 \in DOMAIN e /\ n - 1 < n
        BY <1>1, <1>n, <3>2
      <4>2. a \in Int /\ 1 <= a /\ a < e[n] /\ IsEntry(text[a])
        BY <1>1, <1>4, <1>5, <1>n, <4>1
      <4>3. text[a][1] # "note" /\ MayFollow(text[a], text[L])
        BY <2>1, <4>2 DEF MayFollow, IsEntry
      <4>4. ASSUME NEW m \in DOMAIN e, a < e[m] PROVE m = n
        <5>1. m \in Int /\ m <= N /\ e[m] \in Int /\ (m < n - 1 => e[m] < e[n - 1])
          BY <1>4, <1>5, <4>1
        <5>2. m # n - 1 /\ ~ (m < n - 1)
          BY <4>2, <4>4, <5>1
        <5> QED
          BY <1>7, <1>n, <5>1, <5>2
      <4>5. withoutEntry(text, e, n) = Cut(text, a + 1, b + 1)
        BY <1>3, <1>7, <1>n, <2>1, <3>2
      <4> HIDE DEF a
      <4> QED
        BY <4>2, <4>3, <4>4, <4>5
    <3> QED
      BY <3>1, <3>2
  <2>3. PICK a \in Int : /\ 1 <= a /\ a < e[n] /\ text[a][1] # "note" /\ MayFollow(text[a], text[L])
                         /\ \A m \in DOMAIN e : a < e[m] => m = n
                         /\ withoutEntry(text, e, n) = Cut(text, a + 1, b + 1)
    BY <2>2
  <2>4. L \in Int /\ L <= L /\ text[L][1] # "note"
    BY <1>2, <2>1
  <2> QED
    BY <1>n, <2>1, <2>3, <2>4, CutOut DEF e, L
<1> QED
  BY <1>n, <1>1, <1>6, <1>7 DEF e

(* A raised number leaves everything else as it is.                         *)
OneNumberRaised(text, r, n) ==
    IsList(r) /\ r # text /\ ListOf(r) = [ListOf(text) EXCEPT ![n][2] = @ + 1]

LEMMA NumberRaised ==
    ASSUME NEW text \in Seq(TableTokens), IsList(text), NEW n \in DOMAIN Entries(text),
           Bumpable(text[Entries(text)[n]])
    PROVE  OneNumberRaised(text, withNumberBumped(text, Entries(text)[n]), n)
<1> DEFINE e == Entries(text)
           N == Len(e)
           at == e[n]
           r == withNumberBumped(text, at)
           new == <<"number", text[at][2] + 1>>
<1>1. /\ N \in Nat /\ DOMAIN e = 1 .. N /\ Ascends(e)
      /\ \A m \in DOMAIN e : e[m] \in DOMAIN text /\ IsEntry(text[e[m]])
      /\ \A i \in DOMAIN text : IsEntry(text[i]) => \E m \in DOMAIN e : e[m] = i
  BY EntriesAscend
<1>2. at \in DOMAIN text /\ text[at] \in TableTokens /\ text[at][1] = "number"
  BY <1>1 DEF Bumpable
<1>3. text[at] = <<"number", text[at][2]>> /\ text[at][2] \in Nat
  <2>1. text[at] \in {"number"} \X Nat
    <3>1. \A x \in {"(", ")", ",", "note"} \X {""} : x[1] # "number"
      OBVIOUS
    <3>2. \A x \in {"name"} \X Names : x[1] # "number"
      OBVIOUS
    <3> QED
      BY <1>2, <3>1, <3>2, Zenon DEF TableTokens
  <2>2. \A x \in {"number"} \X Nat : x = <<"number", x[2]>> /\ x[2] \in Nat
    OBVIOUS
  <2> HIDE DEF at
  <2> QED
    BY <2>1, <2>2
<1>4. [text[at] EXCEPT ![2] = text[at][2] + 1] = new /\ new # text[at]
  BY <1>3
<1>5. r = [text EXCEPT ![at] = new]
  BY <1>4 DEF withNumberBumped
<1>6. /\ DOMAIN r = DOMAIN text /\ Len(r) = Len(text) /\ r[at] = new /\ r # text
      /\ \A i \in DOMAIN text : i # at => r[i] = text[i]
  BY <1>2, <1>4, <1>5
<1>7. \A i \in DOMAIN text : r[i][1] = text[i][1] /\ (IsEntry(r[i]) <=> IsEntry(text[i]))
  BY <1>2, <1>6 DEF IsEntry
<1> HIDE DEF r, new, at
<1>8. IsList(r)
  <2>1. Len(text) \in Nat /\ DOMAIN text = 1 .. Len(text) /\ 1 \in DOMAIN text /\ Len(text) \in DOMAIN text
    BY DEF IsList
  <2>2. \A i, k \in DOMAIN text : MayFollow(r[i], r[k]) <=> MayFollow(text[i], text[k])
    BY <1>7 DEF MayFollow
  <2>3. ASSUME NEW i \in DOMAIN text, NEW k \in DOMAIN text, Notes(r, i, k) PROVE Notes(text, i, k)
    <3>1. \A l \in i + 1 .. k - 1 : l \in DOMAIN text
      BY <2>1
    <3> QED
      BY <1>7, <2>3, <3>1 DEF Notes
  <2>4. Len(r) > 1 /\ r[1][1] = "(" /\ r[Len(r)][1] = ")"
    BY <1>6, <1>7, <2>1 DEF IsList
  <2>5. ASSUME NEW i \in DOMAIN r, NEW k \in DOMAIN r, i < k,
               r[i][1] # "note", r[k][1] # "note", Notes(r, i, k)
        PROVE  MayFollow(r[i], r[k])
    BY <1>6, <1>7, <2>2, <2>3, <2>5 DEF IsList
  <2> QED
    BY <2>4, <2>5 DEF IsList
<1>9. Entries(r) = e
  <2>1. {i \in DOMAIN r : IsEntry(r[i])} = {i \in DOMAIN text : IsEntry(text[i])}
    BY <1>6, <1>7
  <2> QED
    BY <2>1 DEF Entries
<1>10. ListOf(text) = [m \in 1 .. N |-> text[e[m]]] /\ ListOf(r) = [m \in 1 .. N |-> r[e[m]]]
  BY <1>1, <1>9 DEF ListOf
<1>11. n \in 1 .. N /\ at = e[n]
  BY <1>1 DEF at
<1>12. \A m \in 1 .. N : r[e[m]] = IF m = n THEN new ELSE text[e[m]]
  <2> SUFFICES ASSUME NEW m \in 1 .. N PROVE r[e[m]] = IF m = n THEN new ELSE text[e[m]]
    OBVIOUS
  <2>1. e[m] \in DOMAIN text /\ e[m] \in Int /\ e[n] \in Int /\ m \in Int /\ n \in Int
    BY <1>1, <1>11
  <2>2. (m < n => e[m] < e[n]) /\ (n < m => e[n] < e[m])
    BY <1>1, <1>11 DEF Ascends
  <2>3. m # n => e[m] # at
    BY <1>11, <2>1, <2>2
  <2> QED
    BY <1>6, <1>11, <2>1, <2>3
<1> HIDE DEF e, N
<1>13. [ListOf(text) EXCEPT ![n][2] = @ + 1] = [m \in 1 .. N |-> IF m = n THEN new ELSE text[e[m]]]
  <2>1. ListOf(text)[n] = text[at]
    BY <1>10, <1>11
  <2>2. [ListOf(text)[n] EXCEPT ![2] = ListOf(text)[n][2] + 1] = new
    BY <1>4, <2>1
  <2>3. [ListOf(text) EXCEPT ![n][2] = @ + 1] = [ListOf(text) EXCEPT ![n] = new]
    BY <2>2
  <2> QED
    BY <1>10, <1>11, <2>3
<1>14. ListOf(r) = [ListOf(text) EXCEPT ![n][2] = @ + 1]
  BY <1>10, <1>12, <1>13
<1> QED
  BY <1>6, <1>8, <1>14 DEF OneNumberRaised, r, at, e

-----------------------------------------------------------------------------
(* The mutants of a text are its removals and its raised numbers, each of   *)
(* them once; a text with entries has some.                                 *)
LEMMA AllMutants ==
    ASSUME NEW text \in Seq(TableTokens), IsList(text)
    PROVE  /\ mutantsOf(text) \in Seq(ToSet(mutantsOf(text)))
           /\ ListOf(text) # << >> => mutantsOf(text) # << >>
           /\ ToSet(mutantsOf(text)) =
                 {withoutEntry(text, Entries(text), n) : n \in DOMAIN Entries(text)} \cup
                 {withNumberBumped(text, Entries(text)[n]) :
                     n \in {k \in DOMAIN Entries(text) : Bumpable(text[Entries(text)[k]])}}
<1> DEFINE e == Entries(text)
           N == Len(e)
           raised == {k \in DOMAIN e : Bumpable(text[e[k]])}
           X == {2 * n - 1 : n \in DOMAIN e} \cup {2 * n : n \in raised}
           order == Sorted(X)
           C == Cardinality(X)
           mutant(x) == IF x % 2 = 1 THEN withoutEntry(text, e, (x + 1) \div 2)
                        ELSE withNumberBumped(text, e[x \div 2])
<1>1. N \in Nat /\ DOMAIN e = 1 .. N
  BY EntriesAscend
<1>2. mutantsOf(text) = [m \in DOMAIN order |-> mutant(order[m])]
  BY DEF mutantsOf
<1> HIDE DEF e
<1>3. X \subseteq 1 .. 2 * N
  BY <1>1
<1>4. IsFiniteSet(X)
  <2>1. 2 * N \in Nat
    BY <1>1
  <2>2. IsFiniteSet(1 .. 2 * N)
    BY <2>1, FS_Interval
  <2> HIDE DEF X
  <2> QED
    BY <1>3, <2>2, FS_Subset
<1>5. \A x \in X : x \in Int
  BY <1>1, <1>3
<1>6. /\ DOMAIN order = 1 .. C /\ C \in Nat
      /\ \A m \in DOMAIN order : order[m] \in X
      /\ \A x \in X : \E m \in DOMAIN order : order[m] = x
  <2> HIDE DEF X
  <2> QED
    BY <1>4, <1>5, SortedAscends
<1> HIDE DEF order, C
<1>7. ToSet(mutantsOf(text)) = {mutant(x) : x \in X}
  <2>1. ToSet(mutantsOf(text)) = {mutant(order[m]) : m \in DOMAIN order}
    BY <1>2 DEF ToSet
  <2> HIDE DEF mutant, X
  <2> QED
    BY <1>6, <2>1
<1>8. ASSUME NEW n \in DOMAIN e
      PROVE  mutant(2 * n - 1) = withoutEntry(text, e, n) /\ mutant(2 * n) = withNumberBumped(text, e[n])
  <2>1. n \in Int
    BY <1>1
  <2>2. (2 * n - 1) % 2 = 1 /\ ((2 * n - 1) + 1) \div 2 = n /\ (2 * n) % 2 = 0 /\ (2 * n) \div 2 = n
    BY <2>1
  <2> QED
    BY <2>2
<1>9. {mutant(x) : x \in X} =
          {withoutEntry(text, e, n) : n \in DOMAIN e} \cup {withNumberBumped(text, e[n]) : n \in raised}
  <2>1. \A n \in raised : n \in DOMAIN e
    OBVIOUS
  <2>2. {mutant(x) : x \in X} = {mutant(2 * n - 1) : n \in DOMAIN e} \cup {mutant(2 * n) : n \in raised}
    <3> HIDE DEF mutant, raised
    <3> QED
      OBVIOUS
  <2> HIDE DEF mutant, raised, X
  <2> QED
    BY <1>8, <2>1, <2>2
<1>10. mutantsOf(text) \in Seq(ToSet(mutantsOf(text)))
  <2> DEFINE M == mutantsOf(text)
  <2>1. M = [m \in 1 .. C |-> M[m]] /\ C \in Nat
    BY <1>2, <1>6
  <2>2. \A m \in 1 .. C : M[m] \in ToSet(M)
    BY <1>2, <1>6 DEF ToSet
  <2> HIDE DEF M
  <2>3. M \in [1 .. C -> ToSet(M)]
    BY <2>1, <2>2
  <2>4. M \in Seq(ToSet(M))
    BY <2>1, <2>3
  <2> QED
    BY <2>4 DEF M
<1>11. ASSUME ListOf(text) # << >> PROVE mutantsOf(text) # << >>
  <2>1. N # 0
    <3>1. ListOf(text) = [m \in 1 .. N |-> text[e[m]]]
      BY <1>1 DEF ListOf, e
    <3>2. N = 0 => ListOf(text) = << >>
      BY <3>1
    <3> QED
      BY <1>11, <3>2
  <2>2. 1 \in DOMAIN e /\ 2 * 1 - 1 = 1
    BY <1>1, <2>1
  <2>3. 1 \in X
    BY <2>2
  <2>4. DOMAIN mutantsOf(text) # {}
    BY <1>2, <1>6, <2>3
  <2> QED
    BY <2>4
<1> QED
  BY <1>7, <1>9, <1>10, <1>11 DEF e

(* The mutants of a table and what they mean.                               *)
LEMMA MutantsOfAList ==
    ASSUME NEW text \in Seq(TableTokens), IsList(text)
    PROVE  /\ {ListOf(m) : m \in ToSet(mutantsOf(text))} = Variants(ListOf(text))
           /\ \A m \in ToSet(mutantsOf(text)) : IsList(m) /\ m # text
<1> DEFINE e == Entries(text)
           list == ListOf(text)
           raised == {k \in DOMAIN e : Bumpable(text[e[k]])}
           without(n) == withoutEntry(text, e, n)
           bumped(n) == withNumberBumped(text, e[n])
           plus(n) == [list EXCEPT ![n][2] = @ + 1]
<1>1. ToSet(mutantsOf(text)) = {without(n) : n \in DOMAIN e} \cup {bumped(n) : n \in raised}
  BY AllMutants
<1>2. ASSUME NEW n \in DOMAIN e
      PROVE  IsList(without(n)) /\ without(n) # text /\ ListOf(without(n)) = RemoveAt(list, n)
  BY EntryRemoved DEF OneEntryLess
<1>3. ASSUME NEW n \in raised
      PROVE  IsList(bumped(n)) /\ bumped(n) # text /\ ListOf(bumped(n)) = plus(n)
  BY NumberRaised DEF OneNumberRaised
<1>4. DOMAIN list = DOMAIN e /\ raised = {k \in DOMAIN list : Bumpable(list[k])}
  BY DEF ListOf
<1>5. Variants(list) = {RemoveAt(list, n) : n \in DOMAIN e} \cup {plus(n) : n \in raised}
  BY <1>4 DEF Variants
<1> HIDE DEF e, list, raised, without, bumped, plus
<1>6. {ListOf(m) : m \in ToSet(mutantsOf(text))} =
          {ListOf(without(n)) : n \in DOMAIN e} \cup {ListOf(bumped(n)) : n \in raised}
  BY <1>1
<1>7. {ListOf(m) : m \in ToSet(mutantsOf(text))} = Variants(list)
  BY <1>2, <1>3, <1>5, <1>6
<1>8. \A m \in ToSet(mutantsOf(text)) : IsList(m) /\ m # text
  BY <1>1, <1>2, <1>3
<1> QED
  BY <1>7, <1>8 DEF list

-----------------------------------------------------------------------------
(* The mutation run.  A file may differ from its source only while it is    *)
(* the current one of a mutant that is judged or of the finally block.      *)
MutHolds ==
    /\ mutPc = "idle" => source = << >> /\ disk = << >>
    /\ mutPc # "idle" => DOMAIN source = Files /\ DOMAIN disk = Files
    /\ current \in 1 .. FileCount + 1
    /\ mutPc \in {"baseline", "mutant", "finally"} => current \in Files
    /\ SourceRestored

(* Writing the next mutant, or throwing, leaves the other files alone.      *)
LEMMA MutOnDisk ==
    ASSUME MutHolds, mutPc \in {"baseline", "mutant"}, UNCHANGED <<source, current>>,
           NEW todo, WriteNext(todo) \/ Thrown
    PROVE  MutHolds'
<1> USE DEF MutHolds
<1>1. DOMAIN disk = Files /\ current \in Files
  OBVIOUS
<1>2. CASE WriteNext(todo)
  <2>1. CASE todo = << >>
    BY <1>1, <1>2, <2>1 DEF WriteNext, SourceRestored
  <2>2. CASE todo # << >>
    <3>1. mutPc' = "mutant" /\ disk' = [disk EXCEPT ![current] = Head(todo)]
      BY <1>2, <2>2 DEF WriteNext
    <3> QED
      BY <1>1, <3>1 DEF SourceRestored
  <2> QED
    BY <2>1, <2>2
<1>3. CASE Thrown
  <2>1. mutPc' = "exit 2" /\ disk' = [disk EXCEPT ![current] = source[current]]
    BY <1>3 DEF Thrown
  <2> QED
    BY <1>1, <2>1 DEF SourceRestored
<1> QED
  BY <1>2, <1>3

(* Every step of the run preserves this.                                    *)
LEMMA MutStep == ASSUME MutHolds, MutNext PROVE MutHolds'
<1> USE MutationAssumption DEF MutHolds, fixed
<1>1. CASE ReadFile
  <2>1. mutPc = "read" /\ UNCHANGED <<source, disk, current>>
    BY <1>1 DEF ReadFile
  <2>2. \A f \in DOMAIN disk : disk[f] = source[f]
    BY <2>1 DEF SourceRestored
  <2>3. CASE current > FileCount
    <3>1. mutPc' \in {"exit 0", "exit 1"}
      BY <1>1, <2>3 DEF ReadFile
    <3> QED
      BY <2>1, <2>2, <3>1 DEF SourceRestored
  <2>4. CASE ~(current > FileCount)
    <3>1. mutPc' \in {"finally", "baseline"}
      BY <1>1, <2>4 DEF ReadFile
    <3>2. current \in Files
      BY <2>4 DEF Files
    <3> QED
      BY <2>1, <2>2, <3>1, <3>2 DEF SourceRestored
  <2> QED
    BY <2>3, <2>4
<1>2. CASE requirePassing
  BY <1>2, MutOnDisk DEF requirePassing
<1>3. CASE JudgeMutant
  BY <1>3, MutOnDisk DEF JudgeMutant
<1>4. CASE Finally
  <2>1. /\ mutPc = "finally" /\ mutPc' = "read" /\ source' = source
        /\ disk' = [disk EXCEPT ![current] = source[current]]
        /\ current' = current + 1
    BY <1>4 DEF Finally
  <2> QED
    BY <2>1 DEF SourceRestored, Files
<1>5. CASE onSignal
  BY <1>5, MutOnDisk DEF onSignal, Running
<1> QED
  BY <1>1, <1>2, <1>3, <1>4, <1>5 DEF MutNext

(* So it always holds.                                                      *)
LEMMA MutRunHolds == Spec => []MutHolds
<1>1. Init => MutHolds
  <2>1. MutInit => MutHolds
    BY MutationAssumption DEF MutInit, MutHolds, SourceRestored
  <2> QED
    BY <2>1, MutationAssumption DEF Init, MutIdle, MutHolds, SourceRestored
<1>2. MutHolds /\ [Next]_scriptsVars => MutHolds'
  <2> SUFFICES ASSUME MutHolds, [Next]_scriptsVars PROVE MutHolds'
    OBVIOUS
  <2>1. CASE UNCHANGED mutVars
    BY <2>1 DEF mutVars, MutHolds, SourceRestored
  <2> QED
    BY <2>1, MutStep, ScriptSteps
<1> QED
  BY <1>1, <1>2, PTL DEF Spec

(* However a mutation run ends, by itself, by an interrupt or by a command  *)
(* that was killed, every file is as it was, for any files and tables.      *)
THEOREM MutationRestores == Spec => []SourceRestored
<1>1. MutHolds => SourceRestored
  BY DEF MutHolds
<1> QED
  BY <1>1, MutRunHolds, PTL

(* What the files hold is never changed.                                    *)
SourcesAreTables == \A f \in DOMAIN source : source[f] \in Texts

LEMMA TablesStay == Spec => []SourcesAreTables
<1>1. Init => SourcesAreTables
  BY DEF Init, MutIdle, MutInit, SourcesAreTables
<1>2. SourcesAreTables /\ [Next]_scriptsVars => SourcesAreTables'
  <2> SUFFICES ASSUME SourcesAreTables, [Next]_scriptsVars PROVE SourcesAreTables'
    OBVIOUS
  <2>1. MutNext \/ UNCHANGED mutVars
    BY ScriptSteps
  <2>2. source' = source
    BY <2>1 DEF MutNext, ReadFile, requirePassing, JudgeMutant, Finally, onSignal, fixed, mutVars
  <2> QED
    BY <2>2 DEF SourcesAreTables
<1> QED
  BY <1>1, <1>2, PTL DEF Spec

(* The mutants of every table that is a list, however its notes and commas  *)
(* lie, are the lists that differ from it in one entry, none of them left   *)
(* out and each of them still a list.                                       *)
THEOREM MutantsAreTheVariants == Spec => []MutantsAreVariants
<1>1. SourcesAreTables => MutantsAreVariants
  <2> SUFFICES ASSUME SourcesAreTables, NEW f \in DOMAIN source
               PROVE  /\ {ListOf(m) : m \in ToSet(mutantsOf(source[f]))} = Variants(ListOf(source[f]))
                      /\ \A m \in ToSet(mutantsOf(source[f])) : IsList(m) /\ m # source[f]
    BY DEF MutantsAreVariants
  <2>1. source[f] \in Seq(TableTokens) /\ IsList(source[f])
    BY TextsAssumption DEF SourcesAreTables
  <2> QED
    BY <2>1, MutantsOfAList
<1> QED
  BY TablesStay, <1>1, PTL

(* What the run has found out: of the files it is through with, all         *)
(* mutants; of the current one, those that are neither on the disk nor      *)
(* left.  Each of them fails the tests, or will be printed, or its command  *)
(* was not started.                                                         *)
MutantsOf(f) == ToSet(mutantsOf(source[f]))
Failing(m) == ~(IsList(m) /\ ListOf(m) \notin pinned)
Told(m) == Failing(m) \/ m \in ToSet(survivors) \/ ListOf(m) \in unstarted
AllTold(M) == \A m \in M : Told(m)
BaselineOK(f) == ListOf(source[f]) # << >> => f \in green

FilesJudged == \A f \in Files : f < current => BaselineOK(f) /\ AllTold(MutantsOf(f))
SurvivorsPass ==
    /\ survivors \in Seq(UNION {MutantsOf(f) : f \in Files})
    /\ \A m \in ToSet(survivors) : ~Failing(m)
FileAtWork ==
    /\ mutPc = "baseline" => left = mutantsOf(source[current])
    /\ mutPc = "mutant" =>
          /\ left \in Seq(MutantsOf(current)) /\ disk[current] \in MutantsOf(current)
          /\ BaselineOK(current)
          /\ AllTold(MutantsOf(current) \ ({disk[current]} \cup ToSet(left)))
    /\ mutPc = "finally" => BaselineOK(current) /\ AllTold(MutantsOf(current))
RunOver ==
    /\ mutPc \in {"exit 0", "exit 1"} => current > FileCount
    /\ mutPc = "exit 0" => survivors = << >>
    /\ mutPc = "exit 1" => survivors # << >>

JudgedSoFar == FilesJudged /\ SurvivorsPass /\ FileAtWork /\ RunOver
JudgedHolds == mutPc # "idle" => JudgedSoFar

(* What a sequence holds is of the set it is over.                          *)
LEMMA SetOfSequence ==
    ASSUME NEW S, NEW s \in Seq(S)
    PROVE  /\ s = << >> <=> ToSet(s) = {}
           /\ \A e \in ToSet(s) : e \in S
<1>1. DOMAIN s = 1 .. Len(s) /\ Len(s) \in Nat /\ \A i \in 1 .. Len(s) : s[i] \in S
  OBVIOUS
<1>2. s = << >> <=> Len(s) = 0
  OBVIOUS
<1>3. Len(s) # 0 => 1 \in DOMAIN s
  BY <1>1
<1> QED
  BY <1>1, <1>2, <1>3 DEF ToSet

(* The next mutant goes to the disk, or all have been there.                *)
LEMMA NextMutant ==
    ASSUME MutHolds, current \in Files, mutPc \in {"baseline", "mutant"},
           NEW todo \in Seq(MutantsOf(current)), WriteNext(todo), UNCHANGED <<source, current>>
    PROVE  \/ /\ mutPc' = "finally" /\ todo = << >> /\ ToSet(todo) = {}
           \/ /\ mutPc' = "mutant" /\ left' \in Seq(MutantsOf(current))
              /\ disk'[current] \in MutantsOf(current)
              /\ ToSet(todo) = {disk'[current]} \cup ToSet(left')
<1>1. CASE todo = << >>
  BY <1>1 DEF WriteNext, ToSet
<1>2. CASE todo # << >>
  <2>1. /\ mutPc' = "mutant" /\ disk' = [disk EXCEPT ![current] = Head(todo)]
        /\ left' = Tail(todo)
    BY <1>2 DEF WriteNext
  <2>2. DOMAIN disk = Files
    BY DEF MutHolds
  <2>3. disk'[current] = Head(todo)
    BY <2>1, <2>2
  <2>4. /\ Len(todo) \in Nat \ {0} /\ DOMAIN todo = 1 .. Len(todo) /\ Head(todo) = todo[1]
        /\ Tail(todo) \in Seq(MutantsOf(current)) /\ Len(Tail(todo)) = Len(todo) - 1
        /\ DOMAIN Tail(todo) = 1 .. Len(todo) - 1
        /\ \A i \in 1 .. Len(todo) - 1 : Tail(todo)[i] = todo[i + 1]
    BY <1>2
  <2>5. todo[1] \in MutantsOf(current)
    BY <2>4
  <2>6. ToSet(todo) = {todo[1]} \cup ToSet(Tail(todo))
    <3>1. ASSUME NEW i \in 1 .. Len(todo) PROVE todo[i] \in {todo[1]} \cup ToSet(Tail(todo))
      <4>1. CASE i = 1
        BY <4>1
      <4>2. CASE i # 1
        <5>1. i - 1 \in 1 .. Len(todo) - 1 /\ Tail(todo)[i - 1] = todo[i]
          BY <2>4, <4>2
        <5> QED
          BY <2>4, <5>1 DEF ToSet
      <4> QED
        BY <4>1, <4>2
    <3>2. ASSUME NEW i \in 1 .. Len(todo) - 1 PROVE Tail(todo)[i] \in ToSet(todo)
      <4>1. i + 1 \in 1 .. Len(todo) /\ Tail(todo)[i] = todo[i + 1]
        BY <2>4
      <4> QED
        BY <2>4, <4>1 DEF ToSet
    <3>3. todo[1] \in ToSet(todo)
      BY <2>4 DEF ToSet
    <3> QED
      BY <2>4, <3>1, <3>2, <3>3 DEF ToSet
  <2> QED
    BY <2>1, <2>3, <2>4, <2>5, <2>6
<1> QED
  BY <1>1, <1>2

(* Each step of the run adds what its command has shown.                    *)
LEMMA JudgedStep ==
    ASSUME MutHolds, MutHolds', MutNext, mutPc # "idle", SourcesAreTables, JudgedSoFar
    PROVE  JudgedSoFar'
<1> USE MutationAssumption
<1>1. UNCHANGED <<source, pinned, green>>
  BY DEF MutNext, ReadFile, requirePassing, JudgeMutant, Finally, onSignal, fixed
<1>2. DOMAIN source = Files /\ DOMAIN disk = Files /\ current \in 1 .. FileCount + 1
  BY DEF MutHolds
<1>3. ASSUME NEW f \in Files
      PROVE  /\ mutantsOf(source[f]) \in Seq(MutantsOf(f))
             /\ \A m \in MutantsOf(f) : IsList(m) /\ m # source[f]
             /\ ListOf(source[f]) # << >> => mutantsOf(source[f]) # << >>
             /\ MutantsOf(f)' = MutantsOf(f) /\ (BaselineOK(f)' <=> BaselineOK(f))
  <2>1. source[f] \in Seq(TableTokens) /\ IsList(source[f])
    BY <1>2, TextsAssumption DEF SourcesAreTables
  <2>2. /\ mutantsOf(source[f]) \in Seq(MutantsOf(f))
        /\ ListOf(source[f]) # << >> => mutantsOf(source[f]) # << >>
    BY <2>1, AllMutants DEF MutantsOf
  <2>3. \A m \in MutantsOf(f) : IsList(m) /\ m # source[f]
    BY <2>1, MutantsOfAList DEF MutantsOf
  <2> QED
    BY <1>1, <2>2, <2>3 DEF MutantsOf, BaselineOK
<1>4. \A m : Failing(m)' <=> Failing(m)
  BY <1>1 DEF Failing
<1>5. (UNION {MutantsOf(f) : f \in Files})' = UNION {MutantsOf(f) : f \in Files}
  BY <1>3 DEF Files
<1>5a. ASSUME survivors' = survivors, unstarted \subseteq unstarted'
       PROVE  /\ current' = current => FilesJudged'
              /\ SurvivorsPass'
              /\ \A f \in Files : AllTold(MutantsOf(f)) => AllTold(MutantsOf(f))'
  <2>1. \A f \in Files : AllTold(MutantsOf(f)) => AllTold(MutantsOf(f))'
    BY <1>3, <1>4, <1>5a DEF AllTold, Told
  <2>2. current' = current => FilesJudged'
    BY <1>3, <2>1 DEF JudgedSoFar, FilesJudged
  <2>3. SurvivorsPass'
    BY <1>3, <1>4, <1>5, <1>5a DEF JudgedSoFar, SurvivorsPass
  <2> QED
    BY <2>1, <2>2, <2>3
<1>6. CASE ReadFile
  <2>1. /\ mutPc = "read" /\ UNCHANGED <<disk, current, survivors, unstarted>>
    BY <1>6 DEF ReadFile
  <2>2. CASE current > FileCount
    <3>1. mutPc' = IF survivors = << >> THEN "exit 0" ELSE "exit 1"
      BY <1>6, <2>2 DEF ReadFile
    <3>2. FileAtWork' /\ RunOver'
      BY <2>1, <2>2, <3>1 DEF FileAtWork, RunOver
    <3> QED
      BY <1>5a, <2>1, <3>2 DEF JudgedSoFar
  <2>3. CASE ~(current > FileCount)
    <3>1. /\ left' = mutantsOf(source[current])
          /\ mutPc' = IF left' = << >> THEN "finally" ELSE "baseline"
      BY <1>6, <2>3 DEF ReadFile
    <3>2. current \in Files
      BY <1>2, <2>3 DEF Files
    <3>3. left' = << >> => MutantsOf(current) = {} /\ BaselineOK(current)
      <4>1. left' = << >> => ToSet(mutantsOf(source[current])) = {}
        BY <3>1 DEF ToSet
      <4>2. left' = << >> => BaselineOK(current)
        BY <1>3, <3>1, <3>2 DEF BaselineOK
      <4> QED
        BY <4>1, <4>2 DEF MutantsOf
    <3>4. left' = << >> => AllTold(MutantsOf(current))'
      BY <1>3, <2>1, <3>2, <3>3 DEF AllTold
    <3>5. FileAtWork'
      BY <1>1, <1>3, <2>1, <3>1, <3>2, <3>3, <3>4 DEF FileAtWork
    <3>6. RunOver'
      BY <3>1 DEF RunOver
    <3> QED
      BY <1>5a, <2>1, <3>5, <3>6 DEF JudgedSoFar
  <2> QED
    BY <2>2, <2>3
<1>7. ASSUME current \in Files, mutPc \in {"baseline", "mutant"}, Thrown, UNCHANGED current,
             survivors' = survivors, unstarted \subseteq unstarted'
      PROVE  JudgedSoFar'
  <2>1. mutPc' = "exit 2"
    BY <1>7 DEF Thrown
  <2>2. FileAtWork' /\ RunOver'
    BY <2>1 DEF FileAtWork, RunOver
  <2>3. FilesJudged' /\ SurvivorsPass'
    BY <1>5a, <1>7
  <2> QED
    BY <2>2, <2>3 DEF JudgedSoFar
<1>8. CASE requirePassing
  <2>1. /\ mutPc = "baseline" /\ UNCHANGED <<current, survivors, unstarted>> /\ current \in Files
    BY <1>8 DEF requirePassing, MutHolds
  <2>2. PICK outcome \in Outcomes : IF outcome = "passed" THEN WriteNext(left) ELSE Thrown
    BY <1>8 DEF requirePassing
  <2>3. CASE outcome = "passed"
    <3>1. disk[current] = source[current]
      BY <1>2, <2>1 DEF MutHolds, SourceRestored
    <3>2. current \in green
      BY <2>2, <2>3, <3>1 DEF Outcomes, Verdict
    <3>3. left = mutantsOf(source[current]) /\ ToSet(left) = MutantsOf(current)
      BY <2>1 DEF JudgedSoFar, FileAtWork, MutantsOf
    <3>4. left \in Seq(MutantsOf(current))
      BY <1>3, <2>1, <3>3
    <3>5. \/ mutPc' = "finally" /\ MutantsOf(current) = {}
          \/ /\ mutPc' = "mutant" /\ left' \in Seq(MutantsOf(current))
             /\ disk'[current] \in MutantsOf(current)
             /\ MutantsOf(current) = {disk'[current]} \cup ToSet(left')
      BY <1>1, <2>1, <2>2, <2>3, <3>3, <3>4, NextMutant
    <3>6. BaselineOK(current)'
      BY <1>1, <2>1, <3>2 DEF BaselineOK
    <3>7. mutPc' = "finally" => AllTold(MutantsOf(current))'
      BY <1>3, <2>1, <3>5 DEF AllTold
    <3>8. mutPc' = "mutant" =>
              AllTold(MutantsOf(current) \ ({disk[current]} \cup ToSet(left)))'
      BY <1>3, <2>1, <3>5 DEF AllTold
    <3>9. FileAtWork' /\ RunOver'
      BY <1>3, <2>1, <3>5, <3>6, <3>7, <3>8 DEF FileAtWork, RunOver
    <3> QED
      BY <1>5a, <2>1, <3>9 DEF JudgedSoFar
  <2>4. CASE outcome # "passed"
    BY <1>7, <2>1, <2>2, <2>4
  <2> QED
    BY <2>3, <2>4
<1>9. CASE JudgeMutant
  <2>1. /\ mutPc = "mutant" /\ UNCHANGED current /\ current \in Files
    BY <1>9 DEF JudgeMutant, MutHolds
  <2>2. PICK outcome \in Outcomes :
            /\ IF outcome = "signal" THEN Thrown ELSE WriteNext(left)
            /\ survivors' = IF outcome = "passed" THEN Append(survivors, disk[current]) ELSE survivors
            /\ unstarted' = unstarted \cup Unjudged(outcome)
    BY <1>9 DEF JudgeMutant
  <2>3. CASE outcome = "signal"
    <3>1. survivors' = survivors /\ unstarted \subseteq unstarted'
      BY <2>2, <2>3
    <3> QED
      BY <1>7, <2>1, <2>2, <2>3, <3>1
  <2>4. CASE outcome # "signal"
    <3> DEFINE tried == disk[current]
               All == UNION {MutantsOf(f) : f \in Files}
    <3>1. /\ left \in Seq(MutantsOf(current)) /\ tried \in MutantsOf(current) /\ BaselineOK(current)
          /\ AllTold(MutantsOf(current) \ ({tried} \cup ToSet(left)))
          /\ survivors \in Seq(All)
      BY <2>1 DEF JudgedSoFar, FileAtWork, SurvivorsPass
    <3>2. Verdict <=> ~Failing(tried)
      BY <1>3, <2>1, <3>1 DEF Verdict, Failing
    <3>3. \/ outcome = "passed" /\ ~Failing(tried)
          \/ outcome = "failed" /\ Failing(tried)
          \/ outcome = "not started" /\ (Failing(tried) \/ ListOf(tried) \in unstarted')
      BY <2>2, <2>4, <3>2 DEF Outcomes, Unjudged
    <3>4. /\ survivors' \in Seq(All)
          /\ outcome = "passed" => ToSet(survivors') = ToSet(survivors) \cup {tried}
          /\ outcome # "passed" => survivors' = survivors
      <4>1. tried \in All
        BY <2>1, <3>1
      <4> HIDE DEF tried, All
      <4>2. /\ Append(survivors, tried) \in Seq(All)
            /\ Len(Append(survivors, tried)) = Len(survivors) + 1 /\ Len(survivors) \in Nat
            /\ DOMAIN survivors = 1 .. Len(survivors)
            /\ DOMAIN Append(survivors, tried) = 1 .. Len(survivors) + 1
            /\ \A i \in 1 .. Len(survivors) : Append(survivors, tried)[i] = survivors[i]
            /\ Append(survivors, tried)[Len(survivors) + 1] = tried
        BY <3>1, <4>1
      <4>3. ToSet(Append(survivors, tried)) = ToSet(survivors) \cup {tried}
        BY <4>2 DEF ToSet
      <4> QED
        BY <2>2, <3>1, <4>2, <4>3 DEF tried
    <3>5. /\ ToSet(survivors) \subseteq ToSet(survivors') /\ unstarted \subseteq unstarted'
          /\ \A m \in ToSet(survivors') : ~Failing(m)
      BY <2>1, <2>2, <3>3, <3>4 DEF JudgedSoFar, SurvivorsPass
    <3>6. \A m : (Told(m) => Told(m)') /\ (m = tried => Told(m)')
      <4>1. \A m : Told(m)' <=> (Failing(m) \/ m \in ToSet(survivors') \/ ListOf(m) \in unstarted')
        BY <1>4 DEF Told
      <4>2. Failing(tried) \/ tried \in ToSet(survivors') \/ ListOf(tried) \in unstarted'
        BY <3>3, <3>4
      <4> QED
        BY <3>5, <4>1, <4>2 DEF Told
    <3>7. \/ mutPc' = "finally" /\ ToSet(left) = {}
          \/ /\ mutPc' = "mutant" /\ left' \in Seq(MutantsOf(current))
             /\ disk'[current] \in MutantsOf(current)
             /\ ToSet(left) = {disk'[current]} \cup ToSet(left')
      BY <1>1, <2>1, <2>2, <2>4, <3>1, NextMutant
    <3>8. \A x \in MutantsOf(current) \ ToSet(left) : Told(x)'
      BY <3>1, <3>6 DEF AllTold
    <3>9. mutPc' = "finally" => AllTold(MutantsOf(current))'
      BY <1>3, <2>1, <3>7, <3>8 DEF AllTold
    <3>10. mutPc' = "mutant" =>
               AllTold(MutantsOf(current) \ ({disk[current]} \cup ToSet(left)))'
      <4>1. mutPc' = "mutant" => ToSet(left) = {disk'[current]} \cup ToSet(left')
        BY <3>7
      <4> QED
        BY <1>3, <2>1, <3>8, <4>1 DEF AllTold
    <3>11. FileAtWork' /\ RunOver'
      BY <1>3, <2>1, <3>1, <3>7, <3>9, <3>10 DEF FileAtWork, RunOver
    <3>12. FilesJudged'
      BY <1>3, <2>1, <3>6 DEF JudgedSoFar, FilesJudged, AllTold
    <3>13. SurvivorsPass'
      BY <1>3, <1>4, <1>5, <3>4, <3>5 DEF SurvivorsPass
    <3> QED
      BY <3>11, <3>12, <3>13 DEF JudgedSoFar
  <2> QED
    BY <2>3, <2>4
<1>10. CASE Finally
  <2>1. /\ mutPc = "finally" /\ mutPc' = "read" /\ current' = current + 1
        /\ UNCHANGED <<survivors, unstarted>> /\ current \in Files
    BY <1>10 DEF Finally, MutHolds
  <2>2. \A f \in Files : f < current + 1 => f < current \/ f = current
    BY <1>2 DEF Files
  <2>3. BaselineOK(current) /\ AllTold(MutantsOf(current))
    BY <2>1 DEF JudgedSoFar, FileAtWork
  <2>4. FilesJudged'
    BY <1>3, <1>5a, <2>1, <2>2, <2>3 DEF JudgedSoFar, FilesJudged
  <2>5. FileAtWork' /\ RunOver'
    BY <2>1 DEF FileAtWork, RunOver
  <2> QED
    BY <1>5a, <2>1, <2>4, <2>5 DEF JudgedSoFar
<1>11. CASE onSignal
  BY <1>7, <1>11 DEF onSignal, Running, MutHolds
<1> QED
  BY <1>6, <1>8, <1>9, <1>10, <1>11 DEF MutNext

(* The report and the exit status are the truth about the tests, for any    *)
(* tables in any number of files, any tests, and commands that are          *)
(* interrupted; a command that never starts costs the verdict on its own    *)
(* mutant and on no other.                                                  *)
THEOREM ExitIsTruthful == Spec => []ExitTellsTheTruth
<1>0. ASSUME NEW n \in 1 .. FileCount + 1, n > FileCount PROVE \A f \in Files : f < n
  BY <1>0, MutationAssumption DEF Files
<1>1. Init => JudgedHolds
  <2>1. MutInit => JudgedSoFar
    <3> SUFFICES ASSUME MutInit PROVE JudgedSoFar
      OBVIOUS
    <3>1. mutPc = "read" /\ current = 1 /\ survivors = << >>
      BY DEF MutInit
    <3>2. \A f \in Files : ~(f < current)
      BY <3>1 DEF Files
    <3>3. ToSet(survivors) = {}
      BY <3>1 DEF ToSet
    <3> QED
      BY <3>1, <3>2, <3>3 DEF JudgedSoFar, FilesJudged, SurvivorsPass, FileAtWork, RunOver
  <2> QED
    BY <2>1 DEF Init, MutIdle, JudgedHolds
<1>2. MutHolds /\ MutHolds' /\ SourcesAreTables /\ JudgedHolds /\ [Next]_scriptsVars => JudgedHolds'
  <2> SUFFICES ASSUME MutHolds, MutHolds', SourcesAreTables, JudgedHolds, [Next]_scriptsVars
               PROVE  JudgedHolds'
    OBVIOUS
  <2>1. CASE UNCHANGED mutVars
    <3>1. UNCHANGED <<mutPc, source, disk, current, left, pinned, green, survivors, unstarted>>
      BY <2>1 DEF mutVars
    <3>2. \A f : /\ MutantsOf(f)' = MutantsOf(f) /\ (BaselineOK(f)' <=> BaselineOK(f))
                 /\ (AllTold(MutantsOf(f))' <=> AllTold(MutantsOf(f)))
      BY <3>1 DEF MutantsOf, BaselineOK, AllTold, Told, Failing
    <3>3. FilesJudged => FilesJudged'
      BY <3>1, <3>2 DEF FilesJudged
    <3>4. SurvivorsPass => SurvivorsPass'
      BY <3>1, <3>2 DEF SurvivorsPass, Failing
    <3>5. FileAtWork => FileAtWork'
      BY <3>1, <3>2 DEF FileAtWork, AllTold, Told, Failing
    <3>6. RunOver => RunOver'
      BY <3>1 DEF RunOver
    <3> QED
      BY <3>1, <3>3, <3>4, <3>5, <3>6 DEF JudgedHolds, JudgedSoFar
  <2>2. CASE MutNext
    <3>1. mutPc # "idle"
      BY <2>2 DEF MutNext, ReadFile, requirePassing, JudgeMutant, Finally, onSignal, Running
    <3> QED
      BY <2>2, <3>1, JudgedStep DEF JudgedHolds
  <2> QED
    BY <2>1, <2>2, ScriptSteps
<1>3. MutHolds /\ JudgedHolds /\ MutantsAreVariants => ExitTellsTheTruth
  <2> SUFFICES ASSUME MutHolds, JudgedSoFar, MutantsAreVariants, mutPc \in {"exit 0", "exit 1"}
               PROVE  ExitTellsTheTruth
    BY DEF JudgedHolds, ExitTellsTheTruth
  <2>1. DOMAIN source = Files /\ current > FileCount /\ current \in 1 .. FileCount + 1
    BY DEF MutHolds, JudgedSoFar, RunOver
  <2>1a. \A f \in Files : f < current
    BY <1>0, <2>1
  <2>2. ASSUME NEW f \in Files
        PROVE  {ListOf(m) : m \in MutantsOf(f)} = Variants(ListOf(source[f]))
               /\ \A m \in MutantsOf(f) : IsList(m)
    BY <2>1 DEF MutantsAreVariants, MutantsOf
  <2> DEFINE printed == {ListOf(m) : m \in ToSet(survivors)}
             slipped == (UNION {Variants(ListOf(source[f])) : f \in DOMAIN source}) \ pinned
  <2>3. slipped \ unstarted \subseteq printed
    <3> SUFFICES ASSUME NEW f \in Files, NEW list \in Variants(ListOf(source[f])),
                        list \notin pinned, list \notin unstarted
                 PROVE  list \in printed
      BY <2>1
    <3>1. PICK m \in MutantsOf(f) : list = ListOf(m)
      BY <2>2
    <3>2. Told(m)
      BY <2>1a DEF JudgedSoFar, FilesJudged, AllTold
    <3>3. m \in ToSet(survivors)
      BY <2>2, <3>1, <3>2 DEF Told, Failing
    <3> QED
      BY <3>1, <3>3
  <2>4. printed \subseteq slipped
    <3> SUFFICES ASSUME NEW m \in ToSet(survivors) PROVE ListOf(m) \in slipped
      OBVIOUS
    <3>1. ~Failing(m)
      BY DEF JudgedSoFar, SurvivorsPass
    <3>2. survivors \in Seq(UNION {MutantsOf(f) : f \in Files})
      BY DEF JudgedSoFar, SurvivorsPass
    <3>2a. m \in UNION {MutantsOf(f) : f \in Files}
      BY <3>2, SetOfSequence
    <3>3. PICK f \in Files : m \in MutantsOf(f)
      BY <3>2a
    <3>4. ListOf(m) \in Variants(ListOf(source[f])) /\ ListOf(m) \notin pinned
      BY <2>2, <3>1, <3>3 DEF Failing
    <3> QED
      BY <2>1, <3>4
  <2>4a. mutPc = "exit 1" <=> printed # {}
    <3>1. survivors = << >> <=> ToSet(survivors) = {}
      <4>1. survivors \in Seq(UNION {MutantsOf(f) : f \in Files})
        BY DEF JudgedSoFar, SurvivorsPass
      <4> QED
        BY <4>1, SetOfSequence
    <3>2. ToSet(survivors) = {} <=> printed = {}
      OBVIOUS
    <3>3. mutPc = "exit 1" <=> survivors # << >>
      BY DEF JudgedSoFar, RunOver
    <3> QED
      BY <3>1, <3>2, <3>3
  <2>5. \A f \in Files : ListOf(source[f]) # << >> => f \in green
    BY <2>1a DEF JudgedSoFar, FilesJudged, BaselineOK
  <2> QED
    BY <2>1, <2>3, <2>4, <2>4a, <2>5 DEF ExitTellsTheTruth
<1>4. Spec => []MutHolds
  BY MutRunHolds
<1> QED
  BY <1>1, <1>2, <1>3, <1>4, TablesStay, MutantsAreTheVariants, PTL DEF Spec
===============================================================================
