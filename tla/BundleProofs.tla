----------------------------- MODULE BundleProofs -----------------------------
(***************************************************************************)
(* Proofs about the strip of the bundles, as a part of Scripts: each       *)
(* comment that goes leaves the same program, so that the comparison of    *)
(* the script accepts what strip makes of any bundles.                     *)
(***************************************************************************)
EXTENDS MutationProofs

-----------------------------------------------------------------------------
(* The comments.  The largest and the smallest number of a set.             *)
LEMMA LargestIs ==
    ASSUME NEW L \in Nat, NEW S, \A i \in S : i \in 1 .. L
    PROVE  \/ S = {} /\ LargestOf(S, 0) = 0
           \/ LargestOf(S, 0) \in S /\ \A k \in S : k <= LargestOf(S, 0)
<1>1. CASE S = {}
  BY <1>1 DEF LargestOf
<1>2. CASE S # {}
  <2>1. \E m \in S : \A i \in S : i <= m
    BY <1>2, GreatestNumber
  <2> QED
    BY <1>2, <2>1 DEF LargestOf
<1> QED
  BY <1>1, <1>2

LEMMA SmallestIs ==
    ASSUME NEW S \in SUBSET Nat, NEW default
    PROVE  \/ S = {} /\ SmallestOf(S, default) = default
           \/ SmallestOf(S, default) \in S /\ \A k \in S : SmallestOf(S, default) <= k
<1>1. CASE S = {}
  BY <1>1 DEF SmallestOf
<1>2. CASE S # {}
  <2>1. \E m \in S : \A i \in S : m <= i
    BY <1>2, LeastNumber
  <2> QED
    BY <1>2, <2>1 DEF SmallestOf
<1> QED
  BY <1>1, <1>2

LEMMA PrefixIs ==
    ASSUME NEW u \in Seq(Units), NEW a \in Nat, a <= Len(u)
    PROVE  /\ SubSeq(u, 1, a) \in Seq(Units) /\ Len(SubSeq(u, 1, a)) = a
           /\ \A i \in Int : 1 <= i /\ i <= a => SubSeq(u, 1, a)[i] = u[i]
<1>1. \A i \in 1 .. a : i \in 1 .. Len(u)
  OBVIOUS
<1>2. SubSeq(u, 1, a) \in Seq(Units)
  BY <1>1, SubSeqProperties
<1>3. Len(SubSeq(u, 1, a)) = a
  BY <1>1, SubSeqProperties
<1>4. \A i \in Int : 1 <= i /\ i <= a => SubSeq(u, 1, a)[i] = u[i]
  BY <1>1, <1>3, SubSeqProperties
<1> QED
  BY <1>2, <1>3, <1>4

LEMMA SuffixIs ==
    ASSUME NEW u \in Seq(Units), NEW b \in Nat, b <= Len(u)
    PROVE  /\ SubSeq(u, b + 1, Len(u)) \in Seq(Units) /\ Len(SubSeq(u, b + 1, Len(u))) = Len(u) - b
           /\ \A i \in Int : 1 <= i /\ i <= Len(u) - b => SubSeq(u, b + 1, Len(u))[i] = u[b + i]
BY SubSeqProperties

(* The bundle u with s in the place of its units from a + 1 to b.           *)
Spliced(u, a, s, b) == SubSeq(u, 1, a) \o s \o SubSeq(u, b + 1, Len(u))

(* What is in w after b + e is what is in u after b.                        *)
Shifted(u, w, b, e) == \A i, j \in Int : b < i /\ i <= Len(u) /\ j = i + e => w[j] = u[i]

LEMMA SpliceIs ==
    ASSUME NEW u \in Seq(Units), NEW s \in Seq(Units), NEW a \in Nat, NEW b \in Nat,
           a <= b, b <= Len(u)
    PROVE  /\ Spliced(u, a, s, b) \in Seq(Units)
           /\ Len(Spliced(u, a, s, b)) = a + Len(s) + (Len(u) - b)
           /\ \A i \in Int : 1 <= i /\ i <= a => Spliced(u, a, s, b)[i] = u[i]
           /\ \A i \in Int : 1 <= i /\ i <= Len(s) => Spliced(u, a, s, b)[a + i] = s[i]
           /\ Shifted(u, Spliced(u, a, s, b), b, a + Len(s) - b)
<1> DEFINE x == SubSeq(u, 1, a)
           y == SubSeq(u, b + 1, Len(u))
           v == x \o s
           L == Len(u)
           c == Len(s)
<1>1. L \in Nat /\ c \in Nat /\ a <= L
  OBVIOUS
<1>2. x \in Seq(Units) /\ Len(x) = a /\ \A i \in Int : 1 <= i /\ i <= a => x[i] = u[i]
  BY <1>1, PrefixIs
<1>3. y \in Seq(Units) /\ Len(y) = L - b /\ \A i \in Int : 1 <= i /\ i <= L - b => y[i] = u[b + i]
  BY SuffixIs
<1> HIDE DEF x, y, L
<1>4. /\ v \in Seq(Units) /\ Len(v) = Len(x) + Len(s)
      /\ \A i \in 1 .. Len(x) + Len(s) : v[i] = IF i <= Len(x) THEN x[i] ELSE s[i - Len(x)]
  BY <1>2, ConcatProperties
<1> HIDE DEF v, c
<1>5. /\ v \o y \in Seq(Units) /\ Len(v \o y) = Len(v) + Len(y)
      /\ \A i \in 1 .. Len(v) + Len(y) : (v \o y)[i] = IF i <= Len(v) THEN v[i] ELSE y[i - Len(v)]
  <2>1. v \in Seq(Units) /\ y \in Seq(Units)
    BY <1>3, <1>4
  <2> QED
    BY <2>1, ConcatProperties
<1>6. Len(v) = a + c /\ Len(v) + Len(y) = a + c + (L - b) /\ b <= L /\ c = Len(s)
  BY <1>1, <1>2, <1>3, <1>4 DEF c, L
<1>7. ASSUME NEW i \in Int, 1 <= i, i <= a PROVE (v \o y)[i] = u[i]
  <2>1. i \in 1 .. Len(x) + Len(s) /\ i <= Len(x)
    BY <1>1, <1>2, <1>6, <1>7
  <2>2. i \in 1 .. Len(v) + Len(y) /\ i <= Len(v)
    BY <1>1, <1>6, <1>7
  <2> QED
    BY <1>2, <1>4, <1>5, <1>7, <2>1, <2>2
<1>8. ASSUME NEW i \in Int, 1 <= i, i <= c PROVE (v \o y)[a + i] = s[i]
  <2>1. a + i \in 1 .. Len(x) + Len(s) /\ ~ (a + i <= Len(x)) /\ (a + i) - Len(x) = i
    BY <1>1, <1>2, <1>6, <1>8
  <2>2. a + i \in 1 .. Len(v) + Len(y) /\ a + i <= Len(v)
    BY <1>1, <1>6, <1>8
  <2>3. (v \o y)[a + i] = v[a + i]
    BY <1>5, <2>2
  <2>4. v[a + i] = s[(a + i) - Len(x)]
    BY <1>4, <2>1
  <2> QED
    BY <2>1, <2>3, <2>4
<1>9. ASSUME NEW i \in Int, NEW j \in Int, b < i, i <= L, j = i + (a + c - b)
      PROVE  (v \o y)[j] = u[i]
  <2>1. j \in 1 .. Len(v) + Len(y) /\ ~ (j <= Len(v)) /\ j - Len(v) = i - b
    BY <1>1, <1>6, <1>9
  <2>2. i - b \in Int /\ 1 <= i - b /\ i - b <= L - b /\ b + (i - b) = i
    BY <1>1, <1>9
  <2>3. (v \o y)[j] = y[j - Len(v)]
    BY <1>5, <2>1
  <2>4. y[i - b] = u[b + (i - b)]
    BY <1>3, <2>2
  <2> QED
    BY <2>1, <2>2, <2>3, <2>4
<1> QED
  <2>1. v \o y = Spliced(u, a, s, b)
    BY DEF v, x, y, L, Spliced
  <2> QED
    BY <1>5, <1>6, <1>7, <1>8, <1>9, <2>1 DEF Shifted, c, L

-----------------------------------------------------------------------------
(* The program of a bundle.  No code follows a line comment on its line, so *)
(* the code is what is no comment, in order.                                *)
CodeOf(units) == Sorted({i \in DOMAIN units : units[i] \in Tokens})

Fused(units, x, y) == x = y - 1 /\ units[y] = units[x] /\ Joins(units[y])
Broken(units, x, y) == \E k \in x + 1 .. y - 1 : Breaks(units[k])
FusedAt(units, code, n) == /\ n > 1 /\ code[n - 1] = code[n] - 1
                           /\ units[code[n]] = units[code[n] - 1] /\ Joins(units[code[n]])
BrokenAt(units, code, n) == n > 1 /\ \E k \in code[n - 1] + 1 .. code[n] - 1 : Breaks(units[k])
Link(units, code, n) == <<units[code[n]], FusedAt(units, code, n), BrokenAt(units, code, n)>>

LEMMA CodeIs ==
    ASSUME NEW u \in Seq(Units)
    PROVE  /\ DOMAIN CodeOf(u) = 1 .. Cardinality({i \in DOMAIN u : u[i] \in Tokens})
           /\ Cardinality({i \in DOMAIN u : u[i] \in Tokens}) \in Nat
           /\ \A n \in DOMAIN CodeOf(u) : CodeOf(u)[n] \in DOMAIN u /\ u[CodeOf(u)[n]] \in Tokens
           /\ \A i \in DOMAIN u : u[i] \in Tokens => \E n \in DOMAIN CodeOf(u) : CodeOf(u)[n] = i
           /\ Ascends(CodeOf(u))
<1> DEFINE S == {i \in DOMAIN u : u[i] \in Tokens}
<1>1. S \in SUBSET (1 .. Len(u)) /\ Len(u) \in Nat
  OBVIOUS
<1>2. IsFiniteSet(1 .. Len(u))
  BY <1>1, FS_Interval
<1>3. \A i \in S : i \in Int
  BY <1>1
<1>4. CodeOf(u) = Sorted(S)
  BY DEF CodeOf
<1> HIDE DEF S
<1>5. IsFiniteSet(S)
  BY <1>1, <1>2, FS_Subset
<1>6. /\ DOMAIN Sorted(S) = 1 .. Cardinality(S) /\ Cardinality(S) \in Nat
      /\ \A n \in DOMAIN Sorted(S) : Sorted(S)[n] \in S
      /\ \A i \in S : \E n \in DOMAIN Sorted(S) : Sorted(S)[n] = i
      /\ Ascends(Sorted(S))
  BY <1>3, <1>5, SortedAscends
<1> QED
  BY <1>4, <1>6 DEF S

LEMMA ProgramIs ==
    ASSUME NEW u, IsBundle(u)
    PROVE  Program(u) = [n \in DOMAIN CodeOf(u) |-> Link(u, CodeOf(u), n)]
<1> DEFINE Follows(i) == \E k \in 1 .. i - 1 : /\ IsLineComment(u[k])
                                              /\ \A j \in k + 1 .. i - 1 : u[j] # "newline"
           Code(i) == u[i] \in Tokens /\ ~ Follows(i)
<1>1. DOMAIN u = 1 .. Len(u) /\ Len(u) \in Nat
  BY DEF IsBundle
<1>2. \A i \in DOMAIN u : u[i] \in Tokens => ~ Follows(i)
  <2> SUFFICES ASSUME NEW i \in DOMAIN u, u[i] \in Tokens, NEW k \in 1 .. i - 1,
                      IsLineComment(u[k]), \A j \in k + 1 .. i - 1 : u[j] # "newline"
               PROVE  FALSE
    OBVIOUS
  <2>1. i \in Int /\ i <= Len(u)
    BY <1>1
  <2>2. k \in Int /\ 1 <= k /\ k < i
    <3>1. \A m \in Int : \A h \in 1 .. m - 1 : h \in Int /\ 1 <= h /\ h < m
      OBVIOUS
    <3> QED
      BY <2>1, <3>1
  <2>3. k \in DOMAIN u /\ k # Len(u)
    <3>1. \A L \in Int, m \in Int, h \in Int :
              1 <= h /\ h < m /\ m <= L => h \in 1 .. L /\ h # L
      OBVIOUS
    <3>2. k \in 1 .. Len(u) /\ k # Len(u)
      <4>1. Len(u) \in Int
        BY <1>1
      <4> QED
        BY <2>1, <2>2, <3>1, <4>1
    <3> QED
      BY <1>1, <3>2
  <2>4. u[k + 1] = "newline"
    BY <2>3 DEF IsBundle
  <2>5. k + 1 # i
    BY <2>4 DEF Tokens
  <2>6. k + 1 \in k + 1 .. i - 1
    BY <2>1, <2>2, <2>5
  <2> QED
    BY <2>4, <2>6
<1>3. {i \in DOMAIN u : Code(i)} = {i \in DOMAIN u : u[i] \in Tokens}
  BY <1>2
<1> DEFINE code == Sorted({i \in DOMAIN u : Code(i)})
<1>4. Program(u) = [n \in DOMAIN code |-> Link(u, code, n)]
  BY Zenon DEF Program, Link, FusedAt, BrokenAt
<1>5. code = CodeOf(u)
  BY <1>3 DEF CodeOf
<1> HIDE DEF code
<1> QED
  BY <1>4, <1>5

(* u without some units, w: all code is left, in the same order.  d is how  *)
(* far what follows moves.                                                  *)
IsRewrite(u, w, a, c, d) ==
    /\ 0 <= a /\ c \in {0, 1} /\ 1 <= c + d /\ a + c + d <= Len(u) /\ Len(w) = Len(u) - d
    /\ \A i \in Int : 1 <= i /\ i <= a => w[i] = u[i]
    /\ \A i \in Int : a + c < i /\ i <= Len(u) - d => w[i] = u[i + d]
    /\ \A i \in Int : a < i /\ i <= a + c => w[i] \in {"space", "newline"}

(* What is left out is blank but for the comment at p.                      *)
LeavesOut(u, a, b, p) ==
    /\ a < p /\ p <= b /\ u[p] \in Comments \ Kept
    /\ \A i \in Int : a < i /\ i <= b /\ i # p => u[i] \in {"space", "newline"}

(* It has no code, ...                                                      *)
KeepsApart(u, a, c, d) ==
    c = 0 /\ 1 <= a /\ a + d + 1 <= Len(u) /\ u[a] \in Tokens /\ u[a + d + 1] \in Tokens =>
        ~ (u[a] = u[a + d + 1] /\ Joins(u[a]))
KeepsBreaks(u, w, a, c, d) ==
    \A x, y \in Int :
        1 <= x /\ x <= a /\ a + c + d < y /\ y <= Len(u) /\ u[x] \in Tokens /\ u[y] \in Tokens =>
            (Broken(u, x, y) <=> Broken(w, x, y - d))

(* and the program is the same if the tokens on both sides stay apart and a *)
(* break stays between them where there was one.                            *)
Moved(i, a, d) == IF i <= a THEN i ELSE i - d

LEMMA MovedIs ==
    ASSUME NEW i \in Int, NEW a \in Int, NEW c \in Int, NEW d \in Int, NEW L \in Int,
           0 <= a, c = 0 \/ c = 1, 1 <= c + d, a + c + d < i, i <= L
    PROVE  Moved(i, a, d) = i - d /\ a + c < i - d /\ i - d <= L - d /\ (i - d) + d = i
BY DEF Moved

LEMMA RewriteKeepsProgram ==
    ASSUME NEW u, NEW w, IsBundle(u), IsBundle(w), NEW a \in Int, NEW c \in Int, NEW d \in Int,
           NEW p \in Int, IsRewrite(u, w, a, c, d), LeavesOut(u, a, a + c + d, p),
           KeepsApart(u, a, c, d), KeepsBreaks(u, w, a, c, d)
    PROVE  Program(w) = Program(u)
<1> DEFINE L == Len(u)
           C == CodeOf(u)
           N == Cardinality({i \in DOMAIN u : u[i] \in Tokens})
           s == [n \in 1 .. N |-> Moved(C[n], a, d)]
<1>1. /\ L \in Int /\ DOMAIN u = 1 .. L /\ DOMAIN w = 1 .. L - d /\ u \in Seq(Units) /\ w \in Seq(Units)
      /\ 0 <= a /\ (c = 0 \/ c = 1) /\ 1 <= c + d /\ a + c + d <= L
  <2>1. u \in Seq(Units) /\ w \in Seq(Units)
    BY DEF IsBundle
  <2>2. L \in Nat /\ DOMAIN u = 1 .. L /\ DOMAIN w = 1 .. Len(w)
    BY <2>1
  <2> HIDE DEF L
  <2>3. 0 <= a /\ (c = 0 \/ c = 1) /\ 1 <= c + d /\ a + c + d <= L /\ Len(w) = L - d
    BY DEF IsRewrite, L
  <2> QED
    BY <2>1, <2>2, <2>3
<1>2. /\ \A i \in Int : 1 <= i /\ i <= a => w[i] = u[i]
      /\ \A i \in Int : a + c < i /\ i <= L - d => w[i] = u[i + d]
      /\ \A i \in Int : a < i /\ i <= a + c => w[i] \in {"space", "newline"}
  BY DEF IsRewrite
<1>3. \A i \in Int : a < i /\ i <= a + c + d => u[i] \notin Tokens
  BY DEF LeavesOut, Tokens, Comments, Kept
<1>4. /\ DOMAIN C = 1 .. N /\ N \in Nat /\ Ascends(C)
      /\ \A n \in DOMAIN C : C[n] \in DOMAIN u /\ u[C[n]] \in Tokens
      /\ \A i \in DOMAIN u : u[i] \in Tokens => \E n \in DOMAIN C : C[n] = i
  BY <1>1, CodeIs
<1> HIDE DEF L, C, N
<1>5. ASSUME NEW n \in 1 .. N
      PROVE  /\ C[n] \in Int /\ 1 <= C[n] /\ C[n] <= L /\ u[C[n]] \in Tokens
             /\ C[n] <= a \/ a + c + d < C[n]
             /\ s[n] = Moved(C[n], a, d) /\ Moved(C[n], a, d) \in DOMAIN w /\ w[Moved(C[n], a, d)] = u[C[n]]
  <2>1. C[n] \in Int /\ 1 <= C[n] /\ C[n] <= L /\ u[C[n]] \in Tokens
    BY <1>1, <1>4
  <2>2. C[n] <= a \/ a + c + d < C[n]
    BY <1>3, <2>1
  <2>3. s[n] = Moved(C[n], a, d)
    OBVIOUS
  <2> HIDE DEF s
  <2>4. CASE C[n] <= a
    <3>1. Moved(C[n], a, d) = C[n] /\ w[C[n]] = u[C[n]]
      BY <1>2, <2>1, <2>4 DEF Moved
    <3>2. C[n] <= L - d
      BY <1>1, <2>1, <2>4
    <3>3. C[n] \in DOMAIN w
      BY <1>1, <2>1, <3>2
    <3> QED
      BY <2>3, <2>1, <2>2, <3>1, <3>3
  <2>5. CASE a + c + d < C[n]
    <3>1. Moved(C[n], a, d) = C[n] - d /\ a + c < C[n] - d /\ C[n] - d <= L - d /\ (C[n] - d) + d = C[n]
      BY <1>1, <2>1, <2>5, MovedIs
    <3>2. w[C[n] - d] = u[(C[n] - d) + d]
      <4>1. C[n] - d \in Int
        BY <2>1
      <4> QED
        BY <1>2, <3>1, <4>1
    <3>3. Moved(C[n], a, d) \in DOMAIN w
      BY <1>1, <2>1, <3>1
    <3> QED
      BY <2>3, <2>1, <2>2, <3>1, <3>2, <3>3
  <2> QED
    BY <2>2, <2>4, <2>5
<1>6. CodeOf(w) = s
  <2> DEFINE S == {i \in DOMAIN w : w[i] \in Tokens}
  <2>1. s \in [1 .. N -> S]
    BY <1>5
  <2>2. Ascends(s)
    <3> SUFFICES ASSUME NEW m \in 1 .. N, NEW n \in 1 .. N, m < n PROVE Moved(C[m], a, d) < Moved(C[n], a, d)
      BY DEF Ascends
    <3>1. C[m] < C[n]
      BY <1>4 DEF Ascends
    <3>2. /\ C[m] \in Int /\ C[n] \in Int /\ (C[m] <= a \/ a + c + d < C[m])
          /\ (C[n] <= a \/ a + c + d < C[n])
      BY <1>5
    <3> QED
      BY <1>1, <3>1, <3>2 DEF Moved
  <2>3. ASSUME NEW i \in S PROVE \E n \in 1 .. N : s[n] = i
    <3>1. i \in Int /\ 1 <= i /\ i <= L - d /\ w[i] \in Tokens
      <4>1. i \in 1 .. L - d /\ w[i] \in Tokens
        BY <1>1
      <4> HIDE DEF S, s
      <4> QED
        BY <1>1, <4>1
    <3>2. CASE i <= a
      <4>1. i \in DOMAIN u /\ u[i] \in Tokens
        <5>1. i <= L
          BY <1>1, <3>2
        <5> HIDE DEF S, s
        <5>2. w[i] = u[i]
          BY <1>2, <3>1, <3>2
        <5>3. i \in 1 .. L
          BY <1>1, <3>1, <5>1
        <5> QED
          BY <1>1, <3>1, <5>2, <5>3
      <4>2. PICK n \in 1 .. N : C[n] = i
        BY <1>4, <4>1
      <4> QED
        BY <3>2, <4>2 DEF Moved
    <3>3. CASE a + c < i
      <4>1. i + d \in DOMAIN u /\ u[i + d] \in Tokens
        <5> HIDE DEF S, s
        <5>1. i + d \in Int /\ 1 <= i + d /\ i + d <= L
          BY <1>1, <3>1, <3>3
        <5>2. w[i] = u[i + d]
          BY <1>2, <3>1, <3>3
        <5> QED
          BY <1>1, <3>1, <5>1, <5>2
      <4>2. PICK n \in 1 .. N : C[n] = i + d
        BY <1>4, <4>1
      <4>3. s[n] = i
        <5>1. ~ (i + d <= a) /\ (i + d) - d = i
          BY <1>1, <3>1, <3>3
        <5> QED
          BY <4>2, <5>1 DEF Moved
      <4> QED
        BY <4>3
    <3>4. CASE a < i /\ i <= a + c
      <4>1. w[i] \in {"space", "newline"}
        BY <1>2, <3>1, <3>4
      <4> QED
        BY <3>1, <4>1 DEF Tokens
    <3> QED
      BY <1>1, <3>1, <3>2, <3>3, <3>4
  <2>4. \A i \in S : i \in Int
    BY <1>1
  <2>5. CodeOf(w) = Sorted(S)
    BY DEF CodeOf
  <2> HIDE DEF S, s
  <2> QED
    BY <1>4, <2>1, <2>2, <2>3, <2>4, <2>5, SortedIsOne
<1>7. ASSUME NEW n \in 1 .. N PROVE Link(w, s, n) = Link(u, C, n)
  <2>1. w[s[n]] = u[C[n]]
    BY <1>5
  <2>2. ASSUME n > 1
        PROVE  /\ Fused(w, s[n - 1], s[n]) <=> Fused(u, C[n - 1], C[n])
               /\ Broken(w, s[n - 1], s[n]) <=> Broken(u, C[n - 1], C[n])
    <3> DEFINE x == C[n - 1]
               y == C[n]
    <3>1. n - 1 \in 1 .. N /\ n - 1 < n
      BY <1>4, <2>2
    <3>2. /\ x \in Int /\ y \in Int /\ 1 <= x /\ x < y /\ y <= L /\ u[x] \in Tokens /\ u[y] \in Tokens
          /\ (x <= a \/ a + c + d < x) /\ (y <= a \/ a + c + d < y)
          /\ s[n - 1] = Moved(x, a, d) /\ s[n] = Moved(y, a, d) /\ w[Moved(x, a, d)] = u[x] /\ w[Moved(y, a, d)] = u[y]
      BY <1>4, <1>5, <3>1 DEF Ascends
    <3> HIDE DEF x, y, s
    <3>3. CASE y <= a
      <4>1. Moved(x, a, d) = x /\ Moved(y, a, d) = y
        BY <3>2, <3>3 DEF Moved
      <4>2. \A k \in x + 1 .. y - 1 : w[k] = u[k]
        <5> SUFFICES ASSUME NEW k \in x + 1 .. y - 1 PROVE w[k] = u[k]
          OBVIOUS
        <5>1. k \in Int /\ 1 <= k /\ k <= a
          BY <1>1, <3>2, <3>3
        <5> QED
          BY <1>2, <5>1
      <4>3. Broken(w, x, y) <=> Broken(u, x, y)
        BY <4>2 DEF Broken
      <4>4. Fused(w, x, y) <=> Fused(u, x, y)
        BY <3>2, <4>1 DEF Fused
      <4> QED
        BY <3>2, <4>1, <4>3, <4>4 DEF x, y
    <3>4. CASE a + c + d < x
      <4>1. Moved(x, a, d) = x - d /\ Moved(y, a, d) = y - d
        BY <1>1, <3>2, <3>4 DEF Moved
      <4>2. Broken(w, x - d, y - d) <=> Broken(u, x, y)
        <5>1. ASSUME NEW k \in Int, x < k, k < y PROVE w[k - d] = u[k]
          <6>1. a + c < k - d /\ k - d <= L - d /\ k - d \in Int /\ (k - d) + d = k
            BY <1>1, <3>2, <3>4, <5>1
          <6>2. w[k - d] = u[(k - d) + d]
            BY <1>2, <6>1
          <6> QED
            BY <6>1, <6>2
        <5>2. ASSUME NEW k \in x + 1 .. y - 1, Breaks(u[k]) PROVE Broken(w, x - d, y - d)
          <6>1. k \in Int /\ x < k /\ k < y /\ k - d \in (x - d) + 1 .. (y - d) - 1
            BY <3>2
          <6> QED
            BY <5>1, <5>2, <6>1 DEF Broken
        <5>3. ASSUME NEW k \in (x - d) + 1 .. (y - d) - 1, Breaks(w[k]) PROVE Broken(u, x, y)
          <6>1. k + d \in x + 1 .. y - 1 /\ (k + d) - d = k
            BY <3>2
          <6>2. k + d \in Int /\ x < k + d /\ k + d < y
            BY <3>2, <6>1
          <6>3. w[(k + d) - d] = u[k + d]
            BY <5>1, <6>2
          <6> QED
            BY <5>3, <6>1, <6>3 DEF Broken
        <5> QED
          BY <5>2, <5>3 DEF Broken
      <4>3. Fused(w, x - d, y - d) <=> Fused(u, x, y)
        <5>1. x - d = (y - d) - 1 <=> x = y - 1
          BY <3>2
        <5>2. w[x - d] = u[x] /\ w[y - d] = u[y]
          BY <3>2, <4>1
        <5> QED
          BY <5>1, <5>2 DEF Fused
      <4> QED
        BY <3>2, <4>1, <4>2, <4>3 DEF x, y
    <3>5. CASE x <= a /\ a + c + d < y
      <4>1. Moved(x, a, d) = x /\ Moved(y, a, d) = y - d
        BY <1>1, <3>2, <3>5 DEF Moved
      <4>2. Broken(w, x, y - d) <=> Broken(u, x, y)
        BY <3>2, <3>5 DEF KeepsBreaks, L
      <4>3. ~ Fused(u, x, y)
        BY <1>1, <3>2, <3>5 DEF Fused
      <4>4. ~ Fused(w, x, y - d)
        <5> SUFFICES ASSUME x = (y - d) - 1, w[y - d] = w[x], Joins(w[y - d]) PROVE FALSE
          BY DEF Fused
        <5>1. x = a /\ c = 0 /\ y = a + d + 1
          BY <1>1, <3>2, <3>5
        <5>2. u[a] = u[a + d + 1] /\ Joins(u[a])
          BY <3>2, <4>1, <5>1
        <5> QED
          BY <3>2, <5>1, <5>2 DEF KeepsApart, L
      <4> QED
        BY <3>2, <4>1, <4>2, <4>3, <4>4 DEF x, y
    <3> QED
      BY <3>2, <3>3, <3>4, <3>5
  <2>3. FusedAt(w, s, n) = FusedAt(u, C, n)
    <3>1. ASSUME n > 1 PROVE Fused(w, s[n - 1], s[n]) <=> Fused(u, C[n - 1], C[n])
      BY <2>2, <3>1
    <3>2. /\ FusedAt(w, s, n) <=> n > 1 /\ Fused(w, s[n - 1], s[n])
          /\ FusedAt(u, C, n) <=> n > 1 /\ Fused(u, C[n - 1], C[n])
      BY DEF FusedAt, Fused
    <3> QED
      BY <3>1, <3>2 DEF FusedAt
  <2>4. BrokenAt(w, s, n) = BrokenAt(u, C, n)
    BY <2>2 DEF BrokenAt, Broken
  <2> QED
    BY <2>1, <2>3, <2>4 DEF Link
<1>8. Program(u) = [n \in 1 .. N |-> Link(u, C, n)] /\ Program(w) = [n \in 1 .. N |-> Link(w, s, n)]
  <2>1. DOMAIN s = 1 .. N
    OBVIOUS
  <2>2. Program(u) = [n \in DOMAIN CodeOf(u) |-> Link(u, CodeOf(u), n)]
    BY ProgramIs
  <2>3. Program(w) = [n \in DOMAIN CodeOf(w) |-> Link(w, CodeOf(w), n)]
    BY ProgramIs
  <2> HIDE DEF s
  <2> QED
    BY <1>4, <1>6, <2>1, <2>2, <2>3 DEF C
<1> HIDE DEF s
<1> QED
  BY <1>7, <1>8

(* A mark in the place of what is left out around the last comment to go.   *)
Marks == {<< >>, <<"space">>, <<"newline">>}
IsLast(u, p) == \A i \in Gone(u) : i <= p

LEMMA MarksAre ==
    ASSUME NEW s \in Marks
    PROVE  s \in Seq(Units) /\ (Len(s) = 0 \/ Len(s) = 1) /\ (Len(s) = 1 => s[1] \in {"space", "newline"})
<1>1. s = << >> \/ s = <<"space">> \/ s = <<"newline">>
  BY DEF Marks
<1>2. "space" \in Units /\ "newline" \in Units
  BY DEF Units
<1>3. CASE s = << >>
  BY <1>3
<1>4. CASE s = <<"space">>
  BY <1>2, <1>4
<1>5. CASE s = <<"newline">>
  BY <1>2, <1>5
<1> QED
  BY <1>1, <1>3, <1>4, <1>5

LEMMA MovedBack ==
    ASSUME NEW i \in Int, NEW a \in Int, NEW b \in Int, NEW c \in Int, NEW d \in Int, NEW L \in Int,
           a + c + d = b, a + c < i, i <= L - d
    PROVE  /\ b < i + d /\ i + d <= L /\ (i + d) + 1 = (i + 1) + d
           /\ i # L - d => i + d # L /\ i + 1 <= L - d /\ a + c < i + 1
<1>1. b < i + d /\ i + d <= L
  OBVIOUS
<1>2. (i + d) + 1 = (i + 1) + d
  OBVIOUS
<1>3. i # L - d => i + d # L
  OBVIOUS
<1>4. i # L - d => i + 1 <= L - d /\ a + c < i + 1
  OBVIOUS
<1> QED
  BY <1>1, <1>2, <1>3, <1>4

LEMMA SpliceRewrites ==
    ASSUME NEW u, NEW a \in Nat, NEW b \in Nat, NEW p \in Int, NEW s \in Marks,
           IsBundle(u), b <= Len(u), LeavesOut(u, a, b, p), IsLast(u, p),
           a >= 1 => ~ IsLineComment(u[a])
    PROVE  /\ IsRewrite(u, Spliced(u, a, s, b), a, Len(s), b - a - Len(s))
           /\ Len(s) = 1 => Spliced(u, a, s, b)[a + 1] = s[1]
           /\ IsBundle(Spliced(u, a, s, b))
           /\ Gone(Spliced(u, a, s, b)) = Gone(u) \ {p}
<1> DEFINE w == Spliced(u, a, s, b)
           c == Len(s)
           d == b - a - c
           L == Len(u)
<1>1. u \in Seq(Units)
  BY DEF IsBundle
<1>2. L \in Nat /\ DOMAIN u = 1 .. L
  BY <1>1
<1>3. s \in Seq(Units) /\ (c = 0 \/ c = 1) /\ (c = 1 => s[1] \in {"space", "newline"})
  BY MarksAre
<1>4. a \in Int /\ b \in Int /\ p \in Int /\ 0 <= a /\ a < p /\ p <= b /\ b <= L
  BY DEF LeavesOut
<1>5. /\ u[p] \in Comments \ Kept
      /\ \A i \in Int : a < i /\ i <= b /\ i # p => u[i] \in {"space", "newline"}
  BY DEF LeavesOut
<1>6. /\ w \in Seq(Units) /\ Len(w) = a + c + (L - b)
      /\ \A i \in Int : 1 <= i /\ i <= a => w[i] = u[i]
      /\ \A i \in Int : 1 <= i /\ i <= c => w[a + i] = s[i]
      /\ Shifted(u, w, b, a + c - b)
  <2>1. a <= b
    BY <1>4
  <2>2. s \in Seq(Units)
    BY <1>3
  <2>3. b <= Len(u)
    OBVIOUS
  <2> HIDE DEF w, c, L
  <2>4. Spliced(u, a, s, b) \in Seq(Units)
    BY <1>1, <2>1, <2>2, <2>3, SpliceIs
  <2>5. Len(Spliced(u, a, s, b)) = a + Len(s) + (Len(u) - b)
    BY <1>1, <2>1, <2>2, <2>3, SpliceIs
  <2>6. \A i \in Int : 1 <= i /\ i <= a => Spliced(u, a, s, b)[i] = u[i]
    BY <1>1, <2>1, <2>2, <2>3, SpliceIs
  <2>7. \A i \in Int : 1 <= i /\ i <= Len(s) => Spliced(u, a, s, b)[a + i] = s[i]
    BY <1>1, <2>1, <2>2, <2>3, SpliceIs
  <2>8. Shifted(u, Spliced(u, a, s, b), b, a + Len(s) - b)
    BY <1>1, <2>1, <2>2, <2>3, SpliceIs
  <2> QED
    BY <2>4, <2>5, <2>6, <2>7, <2>8 DEF w, c, L
<1> HIDE DEF w, c, L
<1>7. /\ d \in Int /\ 1 <= c + d /\ a + c + d = b /\ Len(w) = L - d /\ c \in {0, 1} /\ b <= L
  <2>1. L \in Int /\ Len(w) = a + c + (L - b) /\ c \in Int /\ 0 <= c /\ c <= 1 /\ (c = 0 \/ c = 1)
    BY <1>2, <1>3, <1>6
  <2>2. d \in Int /\ a + c + d = b /\ 1 <= c + d
    BY <1>4, <2>1
  <2>3. Len(w) = L - d
    BY <1>4, <2>1
  <2> QED
    BY <1>4, <2>1, <2>2, <2>3
<1>8. Len(w) \in Nat /\ DOMAIN w = 1 .. Len(w)
  BY <1>6
<1>9. ASSUME NEW i \in Int, a + c < i, i <= L - d PROVE w[i] = u[i + d]
  <2> DEFINE j == i + d
  <2>1. j \in Int /\ b < j /\ j <= L /\ i = j + (a + c - b)
    BY <1>2, <1>3, <1>7, <1>9
  <2> HIDE DEF j
  <2>2. w[i] = u[j]
    BY <1>6, <2>1 DEF Shifted, L
  <2> QED
    BY <2>1, <2>2 DEF j
<1>10. ASSUME NEW i \in Int, a < i, i <= a + c PROVE w[i] \in {"space", "newline"} /\ w[i] = s[1] /\ c = 1
  <2>1. i = a + 1 /\ c = 1
    BY <1>3, <1>10
  <2>2. w[a + 1] = s[1]
    BY <1>6, <2>1
  <2> QED
    BY <1>3, <2>1, <2>2
<1> HIDE DEF d
<1>11. IsRewrite(u, w, a, c, d)
  <2>1. /\ 0 <= a /\ c \in {0, 1} /\ 1 <= c + d /\ a + c + d <= L /\ Len(w) = L - d
        /\ \A i \in Int : 1 <= i /\ i <= a => w[i] = u[i]
    BY <1>4, <1>6, <1>7
  <2>2. \A i \in Int : a + c < i /\ i <= L - d => w[i] = u[i + d]
    BY <1>9
  <2>3. \A i \in Int : a < i /\ i <= a + c => w[i] \in {"space", "newline"}
    BY <1>10
  <2> QED
    BY <2>1, <2>2, <2>3 DEF IsRewrite, L
<1>12. IsBundle(w)
  <2> SUFFICES ASSUME NEW i \in DOMAIN w, IsLineComment(w[i]), i # Len(w) PROVE w[i + 1] = "newline"
    BY <1>6 DEF IsBundle
  <2>1. i \in 1 .. Len(w)
    BY <1>8
  <2>2. i \in Int /\ 1 <= i /\ i <= L - d /\ i # L - d /\ i + 1 \in Int
    BY <1>7, <1>8, <2>1
  <2>3. CASE i <= a
    <3>1. w[i] = u[i] /\ i # a
      BY <1>6, <2>2, <2>3
    <3>2. i + 1 <= a /\ i # L /\ i <= L
      BY <1>2, <1>5, <1>7, <2>2, <2>3, <3>1
    <3>3. w[i + 1] = u[i + 1]
      BY <1>6, <2>2, <3>2
    <3>4. i \in DOMAIN u
      BY <1>2, <2>2, <3>2
    <3> QED
      BY <3>1, <3>2, <3>3, <3>4 DEF IsBundle, L
  <2>4. CASE a < i /\ i <= a + c
    BY <1>10, <2>2, <2>4 DEF IsLineComment
  <2>5. CASE a + c < i
    <3>1. w[i] = u[i + d]
      BY <1>9, <2>2, <2>5
    <3> HIDE DEF d
    <3>2. i \in Int /\ d \in Int /\ L \in Int /\ a \in Int /\ b \in Int /\ c \in Int /\ 0 <= b
      BY <1>2, <1>3, <1>7, <2>2
    <3>3. i <= L - d /\ i # L - d /\ a + c < i /\ a + c + d = b
      BY <1>7, <2>2, <2>5
    <3>4. b < i + d /\ i + d <= L /\ (i + d) + 1 = (i + 1) + d
      BY <3>2, <3>3, MovedBack
    <3>5. i + d # L /\ i + 1 <= L - d /\ a + c < i + 1
      BY <3>2, <3>3, MovedBack
    <3>6. i + d \in 1 .. L
      BY <3>2, <3>4
    <3>7. w[i + 1] = u[(i + 1) + d]
      BY <1>9, <2>2, <3>5
    <3>8. u[(i + d) + 1] = "newline"
      BY <1>2, <3>1, <3>5, <3>6 DEF IsBundle, L
    <3> QED
      BY <3>7, <3>8, <3>4
  <2> QED
    BY <1>3, <2>2, <2>3, <2>4, <2>5
<1>13. ASSUME NEW i \in Gone(w) PROVE i \in Gone(u) \ {p}
  <2>1. i \in 1 .. Len(w) /\ w[i] \in Comments \ Kept
    BY <1>8, <1>13 DEF Gone
  <2>2. i \in Int /\ 1 <= i /\ i <= L - d
    BY <1>7, <1>8, <2>1
  <2>3. CASE i <= a
    <3>1. w[i] = u[i]
      BY <1>6, <2>2, <2>3
    <3>2. i \in 1 .. L /\ i # p
      BY <1>4, <1>2, <2>2, <2>3
    <3> QED
      BY <1>2, <2>1, <3>1, <3>2 DEF Gone
  <2>4. CASE a < i /\ i <= a + c
    BY <1>10, <2>1, <2>2, <2>4 DEF Comments, Kept
  <2>5. CASE a + c < i
    <3>1. w[i] = u[i + d]
      BY <1>9, <2>2, <2>5
    <3>2. i + d \in 1 .. L /\ ~ (i + d <= p)
      <4>1. i \in Int /\ d \in Int /\ L \in Int /\ a \in Int /\ b \in Int /\ c \in Int /\ p \in Int /\ 0 <= b
        BY <1>2, <1>3, <1>7, <1>4, <2>2
      <4>2. a + c < i /\ i <= L - d /\ p <= b
        BY <1>7, <1>4, <2>2, <2>5
      <4>3. b < i + d /\ i + d <= L
        BY <1>7, <4>1, <4>2, MovedBack
      <4> QED
        BY ONLY <4>1, <4>2, <4>3
    <3>3. i + d \in Gone(u)
      BY <1>2, <2>1, <3>1, <3>2 DEF Gone
    <3> QED
      BY <3>2, <3>3 DEF IsLast
  <2> QED
    BY <1>3, <2>2, <2>3, <2>4, <2>5
<1>14. ASSUME NEW i \in Gone(u) \ {p} PROVE i \in Gone(w)
  <2>1. i \in 1 .. L /\ u[i] \in Comments \ Kept /\ i <= p /\ i # p
    BY <1>2, <1>14 DEF Gone, IsLast
  <2>2. i \in Int /\ 1 <= i /\ i <= b
    BY <1>4, <1>2, <2>1
  <2>3. i <= a
    <3> SUFFICES ASSUME ~ (i <= a) PROVE FALSE
      OBVIOUS
    <3>1. u[i] \in {"space", "newline"}
      BY <1>5, <2>1, <2>2
    <3> QED
      BY <2>1, <3>1 DEF Comments, Kept
  <2>4. w[i] = u[i]
    BY <1>6, <2>2, <2>3
  <2>5. i \in 1 .. Len(w)
    BY <1>2, <1>3, <1>6, <1>7, <2>2, <2>3
  <2> QED
    BY <1>8, <2>1, <2>4, <2>5 DEF Gone
<1>15. c = 1 => w[a + 1] = s[1]
  BY <1>6
<1> QED
  BY <1>11, <1>12, <1>13, <1>14, <1>15 DEF w, c, d

(* A break that is left out, of the comment or after it, is replaced or is  *)
(* not the only one between two tokens.                                     *)
BreaksElsewhere(u, a, b, x, y) ==
    \E k \in Int : x < k /\ k < y /\ (k <= a \/ b < k) /\ Breaks(u[k])
BreakReplaced(u, w, a, c, d) ==
    /\ \A k \in Int : a < k /\ k <= a + c + d /\ Breaks(u[k]) => c = 1 /\ Breaks(w[a + 1])
    /\ c = 1 /\ Breaks(w[a + 1]) => \E k \in Int : a < k /\ k <= a + c + d /\ Breaks(u[k])
Compensated(u, w, a, c, d) ==
    \A x, y \in Int :
        1 <= x /\ x <= a /\ a + c + d < y /\ y <= Len(u) /\ u[x] \in Tokens /\ u[y] \in Tokens =>
            BreaksElsewhere(u, a, a + c + d, x, y) \/ BreakReplaced(u, w, a, c, d)

LEMMA BreaksStay ==
    ASSUME NEW u, NEW w, IsBundle(u), NEW a \in Int, NEW c \in Int, NEW d \in Int,
           IsRewrite(u, w, a, c, d), Compensated(u, w, a, c, d)
    PROVE  KeepsBreaks(u, w, a, c, d)
<1> DEFINE L == Len(u)
           b == a + c + d
<1>1. /\ L \in Int /\ 0 <= a /\ (c = 0 \/ c = 1) /\ 1 <= c + d /\ b <= L
  BY DEF IsRewrite, IsBundle
<1>2. /\ \A i \in Int : 1 <= i /\ i <= a => w[i] = u[i]
      /\ \A i \in Int : a + c < i /\ i <= L - d => w[i] = u[i + d]
  BY DEF IsRewrite
<1> HIDE DEF L
<1> SUFFICES ASSUME NEW x \in Int, NEW y \in Int, 1 <= x, x <= a, b < y, y <= L,
                    u[x] \in Tokens, u[y] \in Tokens
             PROVE  Broken(u, x, y) <=> Broken(w, x, y - d)
  BY DEF KeepsBreaks, L
<1>3. ASSUME NEW k \in Int, x < k, k <= a, Breaks(u[k]) \/ Breaks(w[k])
      PROVE  Broken(u, x, y) /\ Broken(w, x, y - d)
  <2>1. w[k] = u[k]
    BY <1>1, <1>2, <1>3
  <2>2. k \in x + 1 .. y - 1 /\ k \in x + 1 .. (y - d) - 1
    BY <1>1, <1>3
  <2> QED
    BY <1>3, <2>1, <2>2 DEF Broken
<1>4. ASSUME NEW k \in Int, b < k, k < y, Breaks(u[k]) \/ Breaks(w[k - d])
      PROVE  Broken(u, x, y) /\ Broken(w, x, y - d)
  <2>1. k - d \in Int /\ a + c < k - d /\ k - d <= L - d /\ (k - d) + d = k
    BY <1>1, <1>4
  <2>2. w[k - d] = u[(k - d) + d]
    BY <1>2, <2>1
  <2>3. k \in x + 1 .. y - 1 /\ k - d \in x + 1 .. (y - d) - 1
    BY <1>1, <1>4
  <2>4. Breaks(u[k]) /\ Breaks(w[k - d])
    BY <1>4, <2>1, <2>2
  <2> QED
    BY <2>3, <2>4 DEF Broken
<1>5. CASE BreaksElsewhere(u, a, b, x, y)
  BY <1>3, <1>4, <1>5 DEF BreaksElsewhere
<1>6. CASE BreakReplaced(u, w, a, c, d)
  <2>1. c = 1 => a + 1 \in x + 1 .. (y - d) - 1
    BY <1>1
  <2>2. ASSUME NEW k \in x + 1 .. y - 1, Breaks(u[k]) PROVE Broken(w, x, y - d)
    <3>1. k \in Int /\ x < k /\ k < y
      OBVIOUS
    <3>2. CASE k <= a
      BY <1>3, <2>2, <3>1, <3>2
    <3>3. CASE b < k
      BY <1>4, <2>2, <3>1, <3>3
    <3>4. CASE a < k /\ k <= b
      <4>1. c = 1 /\ Breaks(w[a + 1])
        BY <1>6, <2>2, <3>1, <3>4 DEF BreakReplaced
      <4> QED
        BY <2>1, <4>1 DEF Broken
    <3> QED
      BY <1>1, <3>1, <3>2, <3>3, <3>4
  <2>3. ASSUME NEW k \in x + 1 .. (y - d) - 1, Breaks(w[k]) PROVE Broken(u, x, y)
    <3>1. k \in Int /\ x < k /\ k < y - d
      OBVIOUS
    <3>2. CASE k <= a
      BY <1>3, <2>3, <3>1, <3>2
    <3>3. CASE a + c < k
      <4>1. k + d \in Int /\ b < k + d /\ k + d < y /\ (k + d) - d = k
        BY <3>1, <3>3
      <4>2. Breaks(w[(k + d) - d])
        BY <2>3, <4>1
      <4> QED
        BY <1>4, <4>1, <4>2
    <3>4. CASE a < k /\ k <= a + c
      <4>1. c = 1 /\ k = a + 1
        BY <1>1, <3>1, <3>4
      <4>2. PICK h \in Int : a < h /\ h <= b /\ Breaks(u[h])
        BY <1>6, <2>3, <4>1 DEF BreakReplaced
      <4>3. h \in x + 1 .. y - 1
        BY <4>2
      <4> QED
        BY <4>2, <4>3 DEF Broken
    <3> QED
      BY <1>1, <3>1, <3>2, <3>3, <3>4
  <2> QED
    BY <2>2, <2>3 DEF Broken
<1> QED
  BY <1>5, <1>6 DEF Compensated, L

(* So the bundle is the same program.                                       *)
Splices(u, a, s, b, p) ==
    /\ IsBundle(u) /\ a \in Nat /\ b \in Nat /\ p \in Int /\ b <= Len(u) /\ s \in Marks
    /\ LeavesOut(u, a, b, p) /\ IsLast(u, p) /\ (a >= 1 => ~ IsLineComment(u[a]))
    /\ KeepsApart(u, a, Len(s), b - a - Len(s))
    /\ Compensated(u, Spliced(u, a, s, b), a, Len(s), b - a - Len(s))
StaysWithout(u, w, p) == IsBundle(w) /\ Program(w) = Program(u) /\ Gone(w) = Gone(u) \ {p}

LEMMA SplicedStays ==
    ASSUME NEW u, NEW a, NEW s, NEW b, NEW p, Splices(u, a, s, b, p)
    PROVE  StaysWithout(u, Spliced(u, a, s, b), p)
<1> DEFINE w == Spliced(u, a, s, b)
           c == Len(s)
           d == b - a - c
<1>1. /\ IsBundle(u) /\ a \in Nat /\ b \in Nat /\ p \in Int /\ b <= Len(u) /\ s \in Marks
      /\ LeavesOut(u, a, b, p) /\ IsLast(u, p) /\ (a >= 1 => ~ IsLineComment(u[a]))
      /\ KeepsApart(u, a, c, d) /\ Compensated(u, w, a, c, d)
  BY DEF Splices
<1>2. IsRewrite(u, w, a, c, d) /\ IsBundle(w) /\ Gone(w) = Gone(u) \ {p}
  BY <1>1, SpliceRewrites
<1>3. c \in Int
  <2>1. s \in Seq(Units)
    BY <1>1, MarksAre
  <2> QED
    BY <2>1
<1> HIDE DEF w, c
<1>4. d \in Int /\ a + c + d = b /\ a \in Int
  BY <1>1, <1>3
<1> HIDE DEF d
<1>5. KeepsBreaks(u, w, a, c, d)
  BY <1>1, <1>2, <1>3, <1>4, BreaksStay
<1>6. LeavesOut(u, a, a + c + d, p)
  BY <1>1, <1>4
<1>7. Program(w) = Program(u)
  BY <1>1, <1>2, <1>3, <1>4, <1>5, <1>6, RewriteKeepsProgram
<1> QED
  BY <1>2, <1>7 DEF StaysWithout, w

(* The last comment goes and the program stays.                             *)
LEMMA CommentGoes ==
    ASSUME NEW u, NEW p \in Gone(u), IsBundle(u), IsLast(u, p)
    PROVE  StaysWithout(u, WithoutComment(u, p), p)
<1> DEFINE L == Len(u)
           before == {i \in 1 .. p - 1 : Breaks(u[i])}
           after == {i \in p + 1 .. L : Breaks(u[i])}
           solid == {i \in 1 .. p - 1 : u[i] # "space"}
           breakBefore == LargestOf(before, 0)
           breakAfter == SmallestOf(after, L + 1)
           last == LargestOf(solid, 0)
           nothingBefore == /\ breakBefore = 0 \/ u[breakBefore] = "newline"
                            /\ \A i \in breakBefore + 1 .. p - 1 : u[i] = "space"
           nothingAfter == /\ breakAfter > L \/ u[breakAfter] = "newline"
                           /\ \A i \in p + 1 .. breakAfter - 1 : u[i] = "space"
           lineBreak == ~ nothingBefore /\ ~ nothingAfter /\ u[p] = "spanning"
           kept == SubSeq(u, 1, last)
           rest == SubSeq(u, p + 1, L)
           sep == Separator(lineBreak, kept, rest)
<1>1. WithoutComment(u, p) = IF nothingBefore /\ nothingAfter
                             THEN SubSeq(u, 1, breakBefore) \o SubSeq(u, breakAfter + 1, L)
                             ELSE kept \o sep \o rest
  BY Zenon DEF WithoutComment
<1>2. u \in Seq(Units) /\ L \in Nat /\ DOMAIN u = 1 .. L
  BY DEF IsBundle
<1>3. p \in Int /\ 1 <= p /\ p <= L /\ u[p] \in Comments \ Kept
  <2>1. p \in 1 .. L /\ u[p] \in Comments \ Kept
    BY <1>2 DEF Gone
  <2> QED
    BY <1>2, <2>1
<1> HIDE DEF L
<1>4. /\ breakBefore \in Nat /\ breakBefore < p
      /\ breakBefore = 0 \/ Breaks(u[breakBefore])
  <2>1. p - 1 \in Nat /\ \A i \in before : i \in 1 .. p - 1 /\ Breaks(u[i])
    BY <1>3
  <2> HIDE DEF before
  <2>2. breakBefore = 0 \/ breakBefore \in before
    BY <2>1, LargestIs
  <2> HIDE DEF breakBefore
  <2>3. breakBefore = 0 \/ (breakBefore \in 1 .. p - 1 /\ Breaks(u[breakBefore]))
    BY <2>1, <2>2
  <2> QED
    BY <1>3, <2>3
<1>5. /\ breakAfter \in Nat /\ p < breakAfter /\ breakAfter <= L + 1
      /\ breakAfter <= L => Breaks(u[breakAfter])
  <2>1. \A i \in after : i \in p + 1 .. L /\ Breaks(u[i])
    OBVIOUS
  <2>2. after \in SUBSET Nat
    BY <1>2, <1>3
  <2> HIDE DEF after
  <2>3. breakAfter = L + 1 \/ breakAfter \in after
    BY <2>2, SmallestIs
  <2> HIDE DEF breakAfter
  <2>4. breakAfter = L + 1 \/ (breakAfter \in p + 1 .. L /\ Breaks(u[breakAfter]))
    BY <2>1, <2>3
  <2> QED
    BY <1>2, <1>3, <2>4
<1>6. /\ last \in Nat /\ last < p
      /\ last = 0 \/ u[last] # "space"
      /\ \A i \in Int : last < i /\ i < p => u[i] = "space"
  <2>1. p - 1 \in Nat /\ \A i \in solid : i \in 1 .. p - 1 /\ u[i] # "space"
    BY <1>3
  <2>2. \A i \in 1 .. p - 1 : u[i] # "space" => i \in solid
    OBVIOUS
  <2> HIDE DEF solid
  <2>3. (solid = {} /\ last = 0) \/ (last \in solid /\ \A k \in solid : k <= last)
    BY <2>1, LargestIs
  <2> HIDE DEF last
  <2>4. last = 0 \/ (last \in 1 .. p - 1 /\ u[last] # "space")
    BY <2>1, <2>3
  <2>5. last \in Nat /\ last < p
    BY <1>3, <2>4
  <2>6. ASSUME NEW i \in Int, last < i, i < p PROVE u[i] = "space"
    <3>1. i \in 1 .. p - 1 /\ ~ (i <= last)
      BY <1>3, <2>5, <2>6
    <3> QED
      BY <2>2, <2>3, <3>1
  <2> QED
    BY <2>4, <2>5, <2>6
<1>7. CASE nothingBefore /\ nothingAfter
  <2> DEFINE a == breakBefore
             b == IF breakAfter <= L THEN breakAfter ELSE L
             s == << >>
  <2>1. WithoutComment(u, p) = Spliced(u, a, s, b)
    <3>1. SubSeq(u, 1, a) \in Seq(Units)
      <4>1. a <= Len(u)
        BY <1>2, <1>3, <1>4 DEF L
      <4> QED
        BY <1>2, <1>4, <4>1, PrefixIs
    <3>2. SubSeq(u, 1, a) \o << >> = SubSeq(u, 1, a)
      BY <3>1, ConcatEmptySeq
    <3>3. SubSeq(u, breakAfter + 1, L) = SubSeq(u, b + 1, L)
      <4>1. CASE breakAfter <= L
        BY <4>1
      <4>2. CASE ~ (breakAfter <= L)
        <5>1. breakAfter + 1 \in Int /\ L + 1 \in Int /\ L \in Int /\ L < breakAfter + 1 /\ L < L + 1 /\ b = L
          BY <1>2, <1>5, <4>2
        <5>2. SubSeq(u, breakAfter + 1, L) = << >> /\ SubSeq(u, L + 1, L) = << >>
          BY <1>2, <5>1, SubSeqEmpty
        <5> QED
          BY <5>1, <5>2
      <4> QED
        BY <4>1, <4>2
    <3> QED
      BY <1>1, <1>7, <3>2, <3>3 DEF Spliced, L
  <2>2. a \in Nat /\ b \in Nat /\ b <= L /\ a < p /\ p <= b /\ (b = breakAfter \/ (breakAfter = L + 1 /\ b = L))
    BY <1>2, <1>3, <1>4, <1>5
  <2>3. /\ a = 0 \/ u[a] = "newline"
        /\ \A i \in Int : a < i /\ i < p => u[i] = "space"
        /\ breakAfter > L \/ u[breakAfter] = "newline"
        /\ \A i \in Int : p < i /\ i < breakAfter => u[i] = "space"
    <3> HIDE DEF breakBefore, breakAfter
    <3>1. \A i \in Int : a < i /\ i < p => i \in breakBefore + 1 .. p - 1
      BY <1>3, <1>4
    <3>2. \A i \in Int : p < i /\ i < breakAfter => i \in p + 1 .. breakAfter - 1
      BY <1>3, <1>5
    <3> QED
      BY <1>7, <3>1, <3>2
  <2>4. LeavesOut(u, a, b, p)
    <3> SUFFICES ASSUME NEW i \in Int, a < i, i <= b, i # p PROVE u[i] \in {"space", "newline"}
      BY <1>3, <2>2 DEF LeavesOut
    <3>1. CASE i < p
      BY <2>3, <3>1
    <3>2. CASE p < i /\ i < breakAfter
      BY <2>3, <3>2
    <3>3. CASE i = breakAfter
      BY <1>2, <1>5, <2>2, <2>3, <3>3
    <3> QED
      BY <1>2, <1>3, <1>5, <2>2, <3>1, <3>2, <3>3
  <2> HIDE DEF a, b
  <2>5. s \in Marks /\ Len(s) = 0
    BY DEF Marks
  <2>6. a >= 1 => u[a] = "newline"
    BY <2>2, <2>3
  <2>7. "newline" \notin Tokens /\ ~ IsLineComment("newline") /\ Breaks("newline")
    BY DEF Tokens, IsLineComment, Breaks
  <2>8. KeepsApart(u, a, Len(s), b - a - Len(s))
    BY <2>2, <2>6, <2>7 DEF KeepsApart
  <2>9. Compensated(u, Spliced(u, a, s, b), a, Len(s), b - a - Len(s))
    <3> SUFFICES ASSUME NEW x \in Int, NEW y \in Int, 1 <= x, x <= a, b < y, u[x] \in Tokens
                 PROVE  BreaksElsewhere(u, a, b, x, y)
      <4>1. a + Len(s) + (b - a - Len(s)) = b
        BY <2>2, <2>5
      <4> QED
        BY <4>1 DEF Compensated
    <3>1. a \in Int /\ x < a /\ a < y /\ Breaks(u[a])
      <4>1. x # a
        BY <2>6, <2>7
      <4>2. a \in Int /\ x < a
        BY <2>2, <4>1
      <4>3. a < y
        BY <1>3, <2>2
      <4> QED
        BY <2>2, <2>6, <2>7, <4>2, <4>3
    <3> QED
      BY <3>1 DEF BreaksElsewhere
  <2>10. Splices(u, a, s, b, p)
    BY <1>3, <2>2, <2>4, <2>5, <2>6, <2>7, <2>8, <2>9 DEF Splices, L
  <2> QED
    BY <2>1, <2>10, SplicedStays
<1>8. CASE ~ (nothingBefore /\ nothingAfter)
  <2> DEFINE a == last
             s == sep
  <2>1. WithoutComment(u, p) = Spliced(u, a, s, p)
    BY <1>1, <1>8 DEF Spliced, L
  <2>2. a \in Nat /\ p \in Nat /\ p <= L /\ a < p
    BY <1>3, <1>6
  <2>3. LeavesOut(u, a, p, p)
    BY <1>3, <1>6 DEF LeavesOut
  <2>4. kept \in Seq(Units) /\ Len(kept) = a /\ (a >= 1 => Last(kept) = u[a])
    <3>1. a <= Len(u)
      BY <1>2, <2>2 DEF L
    <3> HIDE DEF a
    <3>2. /\ SubSeq(u, 1, a) \in Seq(Units) /\ Len(SubSeq(u, 1, a)) = a
          /\ a >= 1 => SubSeq(u, 1, a)[a] = u[a]
      BY <1>2, <2>2, <3>1, PrefixIs
    <3> QED
      BY <3>2 DEF Last, a
  <2>5. rest \in Seq(Units) /\ Len(rest) = L - p /\ (p + 1 <= L => Head(rest) = u[p + 1])
    <3>1. rest \in Seq(Units) /\ Len(rest) = L - p
      BY <1>2, <2>2, SuffixIs DEF L
    <3>2. p + 1 <= L => rest[1] = u[p + 1]
      BY <1>2, <2>2, SuffixIs DEF L
    <3> QED
      BY <1>2, <2>2, <3>1, <3>2
  <2> HIDE DEF a, kept, rest, L
  <2>6. /\ s \in Marks
        /\ (s = <<"newline">> /\ lineBreak) \/ (s = <<"space">> /\ ~ lineBreak)
           \/ (s = << >> /\ ~ lineBreak /\ ~ needsSpace(kept, rest))
    BY DEF Separator, Marks
  <2>7. a >= 1 => ~ IsLineComment(u[a])
    <3> SUFFICES ASSUME a >= 1, IsLineComment(u[a]) PROVE FALSE
      OBVIOUS
    <3>1. a \in DOMAIN u /\ a # Len(u)
      <4>1. a \in 1 .. L /\ a # L
        BY <1>2, <1>3, <2>2
      <4> QED
        BY <1>2, <4>1 DEF L
    <3>2. u[a + 1] = "newline"
      BY <3>1 DEF IsBundle
    <3>3. a + 1 \in Int /\ (a + 1 = p \/ a + 1 < p)
      BY <2>2
    <3>4. CASE a + 1 = p
      BY <1>3, <3>2, <3>4 DEF Comments
    <3>5. CASE a + 1 < p
      BY <1>6, <2>2, <3>2, <3>3, <3>5 DEF a
    <3> QED
      BY <3>3, <3>4, <3>5
  <2>8. KeepsApart(u, a, Len(s), p - a - Len(s))
    <3> SUFFICES ASSUME Len(s) = 0, 1 <= a, p + 1 <= L, u[a] = u[p + 1], Joins(u[a]) PROVE FALSE
      <4>1. Len(s) = 0 => a + (p - a - Len(s)) + 1 = p + 1
        BY <2>2
      <4> QED
        BY <4>1 DEF KeepsApart, L
    <3>1. s = << >> /\ ~ needsSpace(kept, rest)
      <4> HIDE DEF s
      <4>1. Len(<<"newline">>) = 1 /\ Len(<<"space">>) = 1
        OBVIOUS
      <4> QED
        BY <2>6, <4>1
    <3>2. kept # << >> /\ rest # << >>
      BY <1>2, <2>2, <2>4, <2>5
    <3> QED
      BY <2>4, <2>5, <3>1, <3>2 DEF needsSpace
  <2>9. ASSUME NEW k \in Int, a < k, k <= p
        PROVE  Breaks(u[k]) <=> k = p /\ u[p] = "spanning"
    <3>1. CASE k < p
      BY <1>6, <2>9, <3>1 DEF a, Breaks
    <3>2. CASE k = p
      BY <1>3, <3>2 DEF Comments, Kept, Breaks
    <3> QED
      BY <1>3, <2>9, <3>1, <3>2
  <2> DEFINE w == Spliced(u, a, s, p)
             c == Len(s)
             d == p - a - c
  <2>10. /\ c = 1 => w[a + 1] = s[1]
         /\ a + c + d = p
    <3>1. c \in Int
      BY <2>6, MarksAre
    <3> HIDE DEF s
    <3>2. c = 1 => w[a + 1] = s[1]
      BY <1>3, <2>2, <2>3, <2>6, <2>7, SpliceRewrites DEF L
    <3> HIDE DEF c
    <3>3. a + c + d = p
      BY <1>3, <2>2, <3>1
    <3> QED
      BY <3>2, <3>3
  <2> HIDE DEF s, w
  <2>11. ASSUME lineBreak \/ u[p] # "spanning"
         PROVE  BreakReplaced(u, w, a, c, d)
    <3> HIDE DEF lineBreak
    <3>1. CASE lineBreak
      <4>1. s = <<"newline">> /\ u[p] = "spanning"
        BY <2>6, <3>1 DEF lineBreak
      <4>2. c = 1 /\ s[1] = "newline"
        BY <4>1
      <4> HIDE DEF c, d
      <4>3. Breaks(w[a + 1]) /\ Breaks(u[p])
        BY <2>10, <4>1, <4>2 DEF Breaks
      <4> QED
        BY <1>3, <2>2, <2>10, <4>2, <4>3 DEF BreakReplaced
    <3>2. CASE ~ lineBreak
      <4>1. u[p] # "spanning"
        BY <2>11, <3>2
      <4>2. s = <<"space">> \/ s = << >>
        BY <2>6, <3>2
      <4>3. c = 1 => s[1] = "space"
        BY <4>2
      <4> HIDE DEF c, d
      <4>4. c = 1 => ~ Breaks(w[a + 1])
        BY <2>10, <4>3 DEF Breaks
      <4>5. \A k \in Int : a < k /\ k <= p => ~ Breaks(u[k])
        BY <2>9, <4>1
      <4> QED
        BY <2>10, <4>4, <4>5 DEF BreakReplaced
    <3> QED
      BY <3>1, <3>2
  <2>12. ASSUME ~ (lineBreak \/ u[p] # "spanning"), NEW x \in Int, NEW y \in Int,
                1 <= x, x <= a, p < y, y <= L, u[x] \in Tokens, u[y] \in Tokens
         PROVE  BreaksElsewhere(u, a, p, x, y)
    <3>1. nothingBefore \/ nothingAfter
      BY <2>12
    <3>2. "newline" \notin Tokens /\ "space" \notin Tokens /\ Breaks("newline") /\ ~ Breaks("space")
      BY DEF Tokens, Breaks
    <3> HIDE DEF breakBefore, breakAfter, lineBreak
    <3>3. CASE nothingBefore
      <4>1. ~ (x \in breakBefore + 1 .. p - 1)
        BY <2>12, <3>2, <3>3
      <4>2. x <= breakBefore /\ breakBefore >= 1
        BY <1>3, <1>4, <2>2, <2>12, <4>1
      <4>3. u[breakBefore] = "newline" /\ x # breakBefore
        BY <2>12, <3>2, <3>3, <4>2
      <4>4. breakBefore <= a
        <5> SUFFICES ASSUME ~ (breakBefore <= a) PROVE FALSE
          OBVIOUS
        <5>1. a < breakBefore /\ breakBefore < p /\ breakBefore \in Int
          BY <1>4, <2>2
        <5>2. u[breakBefore] = "space"
          BY <1>6, <5>1 DEF a
        <5> QED
          BY <3>2, <4>3, <5>2
      <4>5. breakBefore \in Int /\ x < breakBefore /\ breakBefore < y
        BY <1>3, <1>4, <2>12, <4>2, <4>3
      <4> QED
        BY <3>2, <4>3, <4>4, <4>5 DEF BreaksElsewhere
    <3>4. CASE nothingAfter
      <4>1. ~ (y \in p + 1 .. breakAfter - 1)
        BY <2>12, <3>2, <3>4
      <4>2. breakAfter <= y /\ breakAfter <= L
        BY <1>2, <1>3, <1>5, <2>12, <4>1
      <4>3. u[breakAfter] = "newline" /\ y # breakAfter
        BY <1>2, <1>5, <2>12, <3>2, <3>4, <4>2
      <4>4. breakAfter \in Int /\ x < breakAfter /\ breakAfter < y /\ p < breakAfter
        BY <1>3, <1>5, <2>2, <2>12, <4>2, <4>3
      <4> QED
        BY <3>2, <4>3, <4>4 DEF BreaksElsewhere
    <3> QED
      BY <3>1, <3>3, <3>4
  <2>13. Compensated(u, w, a, c, d)
    <3> HIDE DEF lineBreak, c, d
    <3> QED
      BY <2>10, <2>11, <2>12 DEF Compensated, L
  <2>14. Splices(u, a, s, p, p)
    BY <1>3, <2>2, <2>3, <2>6, <2>7, <2>8, <2>13 DEF Splices, L, w
  <2> QED
    BY <2>1, <2>14, SplicedStays DEF s
<1> QED
  BY <1>7, <1>8

-----------------------------------------------------------------------------
(* The comments go one after the other, from the last to the first.         *)
LEMMA DroppedIs ==
    ASSUME NEW u, IsBundle(u)
    PROVE  /\ Dropped(u) \in Seq(Gone(u))
           /\ \A i \in Gone(u) : \E k \in 1 .. Len(Dropped(u)) : Dropped(u)[k] = i
           /\ \A m, n \in 1 .. Len(Dropped(u)) : m < n => Dropped(u)[n] < Dropped(u)[m]
<1> DEFINE S == Gone(u)
           C == Cardinality(S)
           A == Sorted(S)
           D == Dropped(u)
<1>1. \A i \in S : i \in Int
  BY DEF Gone, IsBundle
<1>2. IsFiniteSet(S)
  <2>1. S \in SUBSET (1 .. Len(u)) /\ Len(u) \in Nat
    BY DEF Gone, IsBundle
  <2>2. IsFiniteSet(1 .. Len(u))
    BY <2>1, FS_Interval
  <2> HIDE DEF S
  <2> QED
    BY <2>1, <2>2, FS_Subset
<1> HIDE DEF S
<1>3. /\ DOMAIN A = 1 .. C /\ C \in Nat
      /\ \A n \in DOMAIN A : A[n] \in S
      /\ \A i \in S : \E n \in DOMAIN A : A[n] = i
      /\ Ascends(A)
  BY <1>1, <1>2, SortedAscends
<1>4. A \in Seq(S) /\ Len(A) = C
  <2>1. A = [n \in 1 .. C |-> A[n]]
    BY <1>3 DEF Sorted
  <2> HIDE DEF A, C
  <2>2. A \in [1 .. C -> S]
    BY <1>3, <2>1
  <2> QED
    BY <1>3, <2>2, FunctionIsList
<1> HIDE DEF A, C
<1>5. D = [i \in 1 .. C |-> A[(C - i) + 1]]
  BY <1>4 DEF Dropped, Reverse, S, A
<1> HIDE DEF D
<1>6. \A k \in 1 .. C : (C - k) + 1 \in 1 .. C
  BY <1>3
<1>7. D \in Seq(S) /\ Len(D) = C
  <2>1. D \in [1 .. C -> S]
    BY <1>3, <1>5, <1>6
  <2> QED
    BY <1>3, <2>1, FunctionIsList
<1>8. ASSUME NEW i \in S PROVE \E k \in 1 .. C : D[k] = i
  <2>1. PICK n \in 1 .. C : A[n] = i
    BY <1>3
  <2>2. (C - n) + 1 \in 1 .. C /\ (C - ((C - n) + 1)) + 1 = n
    BY <1>3
  <2> QED
    BY <1>5, <2>1, <2>2
<1>9. ASSUME NEW m \in 1 .. C, NEW n \in 1 .. C, m < n PROVE D[n] < D[m]
  <2>1. (C - n) + 1 < (C - m) + 1
    BY <1>3, <1>9
  <2>2. A[(C - n) + 1] < A[(C - m) + 1]
    BY <1>3, <1>6, <2>1 DEF Ascends
  <2> QED
    BY <1>5, <2>2
<1> QED
  BY <1>7, <1>8, <1>9 DEF D, S

IsFold(out, u, ranges, N) ==
    out = [n \in 0 .. N |-> IF n = 0 THEN u ELSE WithoutComment(out[n - 1], ranges[n])]

LEMMA FoldExists ==
    ASSUME NEW u, NEW ranges, NEW N \in Nat
    PROVE  \E out : IsFold(out, u, ranges, N)
<1> DEFINE Missing == {m \in 0 .. N : ~ \E out : IsFold(out, u, ranges, m)}
<1>1. SUFFICES ASSUME Missing # {} PROVE FALSE
  <2>1. N \in 0 .. N
    OBVIOUS
  <2> QED
    BY <1>1, <2>1
<1> DEFINE m == Min(Missing)
<1>2. Missing \in SUBSET Nat
  OBVIOUS
<1>3. m \in Missing /\ \A k \in Missing : m <= k
  <2> HIDE DEF Missing
  <2> QED
    BY <1>1, <1>2, LeastNumber
<1> HIDE DEF m
<1>4. m \in 0 .. N /\ ~ \E out : IsFold(out, u, ranges, m)
  BY <1>3
<1>5. m # 0
  <2> DEFINE out == [n \in 0 .. 0 |-> u]
  <2>1. \A n \in 0 .. 0 : n = 0
    OBVIOUS
  <2>2. IsFold(out, u, ranges, 0)
    BY <2>1 DEF IsFold
  <2> HIDE DEF out
  <2> QED
    BY <1>4, <2>2
<1>6. m - 1 \in 0 .. N /\ ~ (m <= m - 1) /\ m \in Nat
  BY <1>4, <1>5
<1>7. m - 1 \notin Missing
  <2> HIDE DEF Missing
  <2> QED
    BY <1>3, <1>6
<1>8. PICK f : IsFold(f, u, ranges, m - 1)
  BY <1>6, <1>7
<1> DEFINE last == WithoutComment(f[m - 1], ranges[m])
           g == [n \in 0 .. m |-> IF n = m THEN last ELSE f[n]]
<1>9. \A n \in 0 .. m : g[n] = IF n = 0 THEN u ELSE WithoutComment(g[n - 1], ranges[n])
  <2> SUFFICES ASSUME NEW n \in 0 .. m
               PROVE  g[n] = IF n = 0 THEN u ELSE WithoutComment(g[n - 1], ranges[n])
    OBVIOUS
  <2>1. CASE n = m
    <3>1. m - 1 \in 0 .. m /\ m - 1 # m
      BY <1>5, <1>6
    <3>2. g[m] = last /\ g[m - 1] = f[m - 1]
      BY <2>1, <3>1
    <3> QED
      BY <1>5, <2>1, <3>2
  <2>2. CASE n # m
    <3>1. n \in 0 .. m - 1
      BY <1>6, <2>2
    <3>2. f[n] = IF n = 0 THEN u ELSE WithoutComment(f[n - 1], ranges[n])
      BY <1>8, <3>1 DEF IsFold
    <3>3. g[n] = f[n]
      BY <2>2
    <3>4. n # 0 => n - 1 \in 0 .. m /\ n - 1 # m
      BY <1>6, <3>1
    <3>5. n # 0 => g[n - 1] = f[n - 1]
      BY <3>4
    <3> QED
      BY <3>2, <3>3, <3>5
  <2> QED
    BY <2>1, <2>2
<1>10. g = [n \in 0 .. m |-> g[n]]
  OBVIOUS
<1> HIDE DEF g
<1>11. IsFold(g, u, ranges, m)
  BY <1>9, <1>10 DEF IsFold
<1> QED
  BY <1>4, <1>11

LEMMA StripIsFold ==
    ASSUME NEW u, IsBundle(u)
    PROVE  \E out : /\ IsFold(out, u, Dropped(u), Len(Dropped(u)))
                    /\ stripComments(u) = out[Len(Dropped(u))]
<1> DEFINE ranges == Dropped(u)
           N == Len(ranges)
           output[n \in 0 .. N] == IF n = 0 THEN u ELSE WithoutComment(output[n - 1], ranges[n])
<1>1. stripComments(u) = output[N]
  BY Zenon DEF stripComments
<1>2. N \in Nat
  BY DroppedIs
<1>3. \E out : IsFold(out, u, ranges, N)
  <2> HIDE DEF N, ranges
  <2> QED
    BY <1>2, FoldExists
<1>4. IsFold(output, u, ranges, N)
  <2> HIDE DEF N, ranges
  <2> QED
    BY <1>3 DEF IsFold
<1> HIDE DEF output
<1> QED
  BY <1>1, <1>4

(* After m of them have gone the rest is left, and the program is the same. *)
LEMMA CommentsGo ==
    ASSUME NEW u, IsBundle(u), NEW out, IsFold(out, u, Dropped(u), Len(Dropped(u))),
           NEW m \in 0 .. Len(Dropped(u))
    PROVE  /\ IsBundle(out[m]) /\ Program(out[m]) = Program(u)
           /\ Gone(out[m]) = {Dropped(u)[k] : k \in m + 1 .. Len(Dropped(u))}
<1> DEFINE D == Dropped(u)
           N == Len(D)
           Left(n) == {D[k] : k \in n + 1 .. N}
           Good(n) == IsBundle(out[n]) /\ Program(out[n]) = Program(u) /\ Gone(out[n]) = Left(n)
           Bad == {n \in 0 .. N : ~ Good(n)}
           b == Min(Bad)
<1>1. /\ D \in Seq(Gone(u)) /\ N \in Nat
      /\ \A i \in Gone(u) : \E k \in 1 .. N : D[k] = i
      /\ \A i, n \in 1 .. N : i < n => D[n] < D[i]
  BY DroppedIs
<1>2. \A k \in 1 .. N : D[k] \in Gone(u)
  BY <1>1
<1>3. \A i \in Gone(u) : i \in Int
  BY DEF Gone, IsBundle
<1>4. \A n \in 0 .. N : out[n] = IF n = 0 THEN u ELSE WithoutComment(out[n - 1], D[n])
  BY DEF IsFold
<1> HIDE DEF D, N
<1> SUFFICES ASSUME Bad # {} PROVE FALSE
  <2>1. m \in 0 .. N
    BY DEF N, D
  <2>2. Good(m)
    BY <2>1
  <2> QED
    BY <2>2 DEF N, D
<1>5. b \in Bad /\ \A n \in Bad : b <= n
  <2>1. Bad \in SUBSET Nat
    BY <1>1
  <2> HIDE DEF Bad
  <2> QED
    BY <2>1, LeastNumber
<1> HIDE DEF b
<1>6. b \in 0 .. N /\ ~ Good(b)
  BY <1>5
<1>7. b # 0
  <2>1. out[0] = u
    BY <1>1, <1>4
  <2>2. Gone(u) = Left(0)
    BY <1>1, <1>2
  <2> QED
    BY <1>6, <2>1, <2>2
<1> DEFINE a == b - 1
<1>8. a \in 0 .. N /\ ~ (b <= a) /\ b \in 1 .. N /\ b \in Int /\ a + 1 = b /\ b - 1 = a
  BY <1>1, <1>6, <1>7
<1> HIDE DEF a
<1>9. Good(a)
  BY <1>5, <1>8
<1>10. out[b] = WithoutComment(out[a], D[b])
  BY <1>4, <1>6, <1>7, <1>8
<1>11. D[b] \in Gone(out[a]) /\ IsLast(out[a], D[b])
  <2>1. b \in a + 1 .. N
    BY <1>1, <1>8
  <2>2. D[b] \in Left(a)
    BY <2>1
  <2>3. ASSUME NEW i \in Left(a) PROVE i <= D[b]
    <3>1. PICK k \in a + 1 .. N : i = D[k]
      BY <2>3
    <3>2. k \in 1 .. N /\ (k = b \/ b < k)
      BY <1>1, <1>8, <3>1
    <3>3. D[k] \in Int /\ D[b] \in Int
      BY <1>2, <1>3, <1>8, <3>2
    <3>4. k # b => D[k] < D[b]
      BY <1>1, <1>8, <3>2
    <3> QED
      BY <3>1, <3>3, <3>4
  <2> HIDE DEF Left
  <2> QED
    BY <1>9, <2>2, <2>3 DEF IsLast
<1>12. StaysWithout(out[a], out[b], D[b])
  BY <1>9, <1>10, <1>11, CommentGoes
<1>13. Left(a) \ {D[b]} = Left(b)
  <2>1. ASSUME NEW i \in Left(a) \ {D[b]} PROVE i \in Left(b)
    <3>1. PICK k \in a + 1 .. N : i = D[k]
      BY <2>1
    <3>2. k # b
      BY <2>1, <3>1
    <3>3. k \in b + 1 .. N
      BY <1>1, <1>8, <3>1, <3>2
    <3> QED
      BY <3>1, <3>3
  <2>2. ASSUME NEW i \in Left(b) PROVE i \in Left(a) \ {D[b]}
    <3>1. PICK k \in b + 1 .. N : i = D[k]
      BY <2>2
    <3>2. k \in a + 1 .. N /\ k \in 1 .. N /\ b < k
      BY <1>1, <1>8, <3>1
    <3>3. D[k] < D[b] /\ D[k] \in Int /\ D[b] \in Int
      BY <1>1, <1>2, <1>3, <1>8, <3>2
    <3> QED
      BY <3>1, <3>2, <3>3
  <2> QED
    BY <2>1, <2>2
<1> HIDE DEF Left
<1> QED
  BY <1>6, <1>9, <1>12, <1>13 DEF StaysWithout

(* What strip-bundle-comments writes: the same program, without a comment   *)
(* that should go, and nothing to do for a second run.                      *)
LEMMA StripWorks ==
    ASSUME NEW u, IsBundle(u)
    PROVE  /\ IsBundle(stripComments(u)) /\ Program(stripComments(u)) = Program(u)
           /\ Gone(stripComments(u)) = {}
<1> DEFINE N == Len(Dropped(u))
<1>1. PICK out : IsFold(out, u, Dropped(u), N) /\ stripComments(u) = out[N]
  BY StripIsFold
<1>2. N \in Nat
  BY DroppedIs
<1>3. N \in 0 .. N /\ N + 1 .. N = {}
  BY <1>2
<1>4. /\ IsBundle(out[N]) /\ Program(out[N]) = Program(u)
      /\ Gone(out[N]) = {Dropped(u)[k] : k \in N + 1 .. N}
  BY <1>1, <1>3, CommentsGo
<1> QED
  BY <1>1, <1>3, <1>4

LEMMA NothingToStrip ==
    ASSUME NEW u, IsBundle(u), Gone(u) = {}
    PROVE  Dropped(u) = << >> /\ stripComments(u) = u
<1>1. Dropped(u) = << >> /\ Len(Dropped(u)) = 0
  BY DroppedIs
<1>2. PICK out : IsFold(out, u, Dropped(u), 0) /\ stripComments(u) = out[0]
  BY <1>1, StripIsFold
<1> QED
  BY <1>1, <1>2 DEF IsFold
-----------------------------------------------------------------------------
(* The script.  What is on the disk, and what is about to be written, is    *)
(* the program that was built, in every bundle whose write was not cut off. *)
StripHolds ==
    /\ DOMAIN built \subseteq Nat \ {0} /\ DOMAIN onDisk = DOMAIN built
    /\ \A f \in DOMAIN built : IsBundle(built[f])
    /\ BundlesKeepTheirProgram
    /\ DOMAIN writes \subseteq DOMAIN built
    /\ \A f \in DOMAIN writes \ torn : sameProgram(built[f], writes[f])
    /\ writing \in DOMAIN writes \cup {0}
    /\ writing # 0 => stripPc = "write"

(* What a step of a write does to the disk: the bundle being written has a  *)
(* new text, every other one the text it had.                               *)
Rewritten(first, text) ==
    /\ DOMAIN onDisk' = DOMAIN onDisk
    /\ \A f \in DOMAIN onDisk : onDisk'[f] = IF f = first THEN text ELSE onDisk[f]

(* It truncates a bundle that is to be written.                             *)
LEMMA FirstIsTruncated ==
    ASSUME StripHolds, TruncateBundle
    PROVE  /\ writing' \in DOMAIN writes /\ Rewritten(writing', << >>)
           /\ stripPc = "write" /\ UNCHANGED <<stripPc, strip, built, writes, torn>>
<1> DEFINE first == SmallestOf(DOMAIN writes, 0)
<1>1. first \in DOMAIN writes
  <2>1. DOMAIN writes \in SUBSET Nat
    BY DEF StripHolds
  <2> QED
    BY <2>1, SmallestIs DEF TruncateBundle
<1>2. /\ writing' = first /\ onDisk' = [onDisk EXCEPT ![writing'] = << >>]
      /\ stripPc = "write" /\ UNCHANGED <<stripPc, strip, built, writes, torn>>
  BY DEF TruncateBundle
<1> HIDE DEF first
<1> QED
  BY <1>1, <1>2 DEF Rewritten

(* It writes that bundle's text and takes it off what is to be written.     *)
LEMMA FirstIsWritten ==
    ASSUME StripHolds, WriteBundle
    PROVE  /\ writing \in DOMAIN writes /\ Rewritten(writing, writes[writing])
           /\ DOMAIN writes' = DOMAIN writes \ {writing}
           /\ \A f \in DOMAIN writes' : writes'[f] = writes[f]
           /\ writing' = 0
           /\ stripPc = "write" /\ UNCHANGED <<stripPc, strip, built, torn>>
<1>1. /\ onDisk' = [onDisk EXCEPT ![writing] = writes[writing]]
      /\ writes' = [f \in DOMAIN writes \ {writing} |-> writes[f]]
      /\ writing' = 0 /\ writing # 0
      /\ stripPc = "write" /\ UNCHANGED <<stripPc, strip, built, torn>>
  BY DEF WriteBundle
<1> QED
  BY <1>1 DEF StripHolds, Rewritten

(* Or it is cut off: a part of the text is on the disk.                     *)
LEMMA WriteCutOff ==
    ASSUME StripHolds, StripKilled, writing # 0
    PROVE  /\ writing \in DOMAIN writes /\ torn' = torn \cup {writing}
           /\ \E n \in 0 .. Len(writes[writing]) :
                  Rewritten(writing, SubSeq(writes[writing], 1, n))
  BY DEF StripHolds, StripKilled, Rewritten

LEMMA StripStep == ASSUME StripHolds, StripNext PROVE StripHolds'
<1> USE DEF StripHolds, BundlesKeepTheirProgram
<1>1. CASE stripDirectory
  <2>1. UNCHANGED <<built, onDisk, writing, torn>> /\ writing = 0
    BY <1>1 DEF stripDirectory
  <2>2. CASE \A f \in Changed : sameProgram(onDisk[f], Applied(onDisk[f]))
    <3>1. writes' = [f \in Changed |-> Applied(onDisk[f])]
      BY <1>1, <2>2 DEF stripDirectory
    <3>2. Changed \subseteq DOMAIN built
      BY DEF Changed
    <3>3. \A f \in Changed \ torn : sameProgram(built[f], Applied(onDisk[f]))
      BY <2>1, <2>2, <3>2 DEF sameProgram
    <3>4. DOMAIN writes' = Changed /\ \A f \in Changed : writes'[f] = Applied(onDisk[f])
      BY <3>1
    <3> QED
      BY <2>1, <3>2, <3>3, <3>4 DEF sameProgram
  <2>3. CASE ~\A f \in Changed : sameProgram(onDisk[f], Applied(onDisk[f]))
    <3>1. UNCHANGED writes
      BY <1>1, <2>3 DEF stripDirectory
    <3> QED
      BY <2>1, <3>1 DEF sameProgram
  <2> QED
    BY <2>2, <2>3
<1>2. CASE TruncateBundle
  <2>1. /\ writing' \in DOMAIN writes /\ Rewritten(writing', << >>)
        /\ stripPc = "write" /\ UNCHANGED <<stripPc, strip, built, writes, torn>>
    BY <1>2, FirstIsTruncated
  <2>2. writing = 0 /\ 0 \notin DOMAIN built
    BY <1>2 DEF TruncateBundle
  <2> QED
    BY <2>1, <2>2 DEF Rewritten, sameProgram
<1>3. CASE WriteBundle
  <2>1. /\ writing \in DOMAIN writes /\ Rewritten(writing, writes[writing])
        /\ DOMAIN writes' = DOMAIN writes \ {writing}
        /\ \A f \in DOMAIN writes' : writes'[f] = writes[f]
        /\ writing' = 0
        /\ stripPc = "write" /\ UNCHANGED <<stripPc, strip, built, torn>>
    BY <1>3, FirstIsWritten
  <2>2. \A f \in DOMAIN built \ torn : sameProgram(built[f], onDisk'[f])
    BY <2>1 DEF Rewritten, sameProgram
  <2> QED
    BY <2>1, <2>2 DEF Rewritten, sameProgram
<1>4. CASE StripDone
  <2>1. UNCHANGED <<built, onDisk, writes, writing, torn>> /\ writing = 0
    BY <1>4 DEF StripDone
  <2> QED
    BY <2>1 DEF sameProgram
<1>5. CASE StripKilled
  <2>1. UNCHANGED <<built, writes>> /\ writing' = 0
    BY <1>5 DEF StripKilled
  <2>2. CASE writing = 0
    BY <1>5, <2>1, <2>2 DEF StripKilled, sameProgram
  <2>3. CASE writing # 0
    <3>1. /\ writing \in DOMAIN writes /\ torn' = torn \cup {writing}
          /\ \E n \in 0 .. Len(writes[writing]) :
                 Rewritten(writing, SubSeq(writes[writing], 1, n))
      BY <1>5, <2>3, WriteCutOff
    <3> QED
      BY <2>1, <3>1 DEF Rewritten, sameProgram
  <2> QED
    BY <2>2, <2>3
<1>6. CASE StripAgain
  <2>1. UNCHANGED <<built, onDisk, writing, torn>> /\ writes' = << >> /\ writing = 0
    BY <1>6 DEF StripAgain
  <2> QED
    BY <2>1 DEF sameProgram
<1> QED
  BY <1>1, <1>2, <1>3, <1>4, <1>5, <1>6 DEF StripNext

LEMMA StripInvariant == Spec => []StripHolds
<1>1. Init => StripHolds
  <2>1. StripInit => StripHolds
    <3> SUFFICES ASSUME StripInit PROVE StripHolds
      OBVIOUS
    <3>1. /\ onDisk = built /\ writes = << >> /\ writing = 0 /\ built \in Seq(Seq(Units))
          /\ \A f \in DOMAIN built : IsBundle(built[f])
      BY BundlesAssumption DEF StripInit
    <3>2. DOMAIN built \subseteq Nat \ {0}
      BY <3>1
    <3>3. DOMAIN writes = {}
      <4>1. writes = << >>
        BY <3>1
      <4> QED
        BY <4>1
    <3> QED
      BY <3>1, <3>2, <3>3 DEF StripHolds, BundlesKeepTheirProgram, sameProgram
  <2>2. StripIdle => StripHolds
    BY DEF StripIdle, StripHolds, BundlesKeepTheirProgram
  <2> QED
    BY <2>1, <2>2 DEF Init
<1>2. StripHolds /\ [Next]_scriptsVars => StripHolds'
  <2> SUFFICES ASSUME StripHolds, [Next]_scriptsVars PROVE StripHolds'
    OBVIOUS
  <2>1. CASE UNCHANGED stripVars
    BY <2>1 DEF stripVars, StripHolds, BundlesKeepTheirProgram, sameProgram
  <2> QED
    BY <2>1, StripStep, ScriptSteps
<1> QED
  BY <1>1, <1>2, PTL DEF Spec

(* Whichever strip runs, as often as it runs and at whatever point of a     *)
(* write it is killed, and whatever tsup built: each bundle on the disk is  *)
(* the program it was, save those whose own write was cut off or is under   *)
(* way.                                                                     *)
THEOREM ProgramsKept == Spec => []BundlesKeepTheirProgram
<1>1. StripHolds => BundlesKeepTheirProgram
  BY DEF StripHolds
<1> QED
  BY <1>1, StripInvariant, PTL

-----------------------------------------------------------------------------
(* The real strip.  Each bundle is as built or a beginning of the stripped  *)
(* text, all of it unless its write was cut off or is under way.            *)
PartlyStripped(f, text) ==
    \E n \in 0 .. Len(stripComments(built[f])) : text = SubSeq(stripComments(built[f]), 1, n)

(* A run that writes has still to write those that are as built.            *)
HalfStripped ==
    strip = "stripComments" =>
        /\ stripPc # "refused"
        /\ \A f \in DOMAIN built : onDisk[f] = built[f] \/ PartlyStripped(f, onDisk[f])
        /\ stripPc = "write" =>
               /\ \A f \in DOMAIN writes : writes[f] = stripComments(built[f])
               /\ \A f \in DOMAIN built \ DOMAIN writes : PartlyStripped(f, onDisk[f])
        /\ stripPc = "done" => \A f \in DOMAIN built : PartlyStripped(f, onDisk[f])

(* A beginning of a stripped text has nothing to strip either.              *)
LEMMA BeginningsStripped ==
    ASSUME NEW u, IsBundle(u), NEW n \in 0 .. Len(stripComments(u))
    PROVE  /\ Dropped(SubSeq(stripComments(u), 1, n)) = << >>
           /\ stripComments(SubSeq(stripComments(u), 1, n)) = SubSeq(stripComments(u), 1, n)
<1> DEFINE s == stripComments(u)
           part == SubSeq(s, 1, n)
<1>1. IsBundle(s) /\ Gone(s) = {}
  BY StripWorks
<1> HIDE DEF s
<1>2. s \in Seq(Units) /\ n \in 0 .. Len(s)
  BY <1>1 DEF IsBundle, s
<1>3. /\ part \in Seq(Units) /\ Len(part) = n
      /\ \A i \in 1 .. n : i \in DOMAIN s /\ part[i] = s[i]
  BY <1>2
<1>4. DOMAIN part = 1 .. n /\ DOMAIN s = 1 .. Len(s)
  BY <1>2, <1>3
<1> HIDE DEF part
<1>5. IsBundle(part)
  <2> SUFFICES ASSUME NEW i \in 1 .. n, IsLineComment(part[i]), i # n
               PROVE  part[i + 1] = "newline"
    BY <1>3, <1>4 DEF IsBundle
  <2>1. i \in Int /\ n \in Int /\ Len(s) \in Int /\ 1 <= i /\ i < n /\ n <= Len(s)
    BY <1>2
  <2>2. i \in DOMAIN s /\ part[i] = s[i]
    BY <1>3
  <2>3. i # Len(s) /\ i + 1 \in 1 .. n
    BY <2>1
  <2> QED
    BY <1>1, <1>3, <2>2, <2>3 DEF IsBundle
<1>6. Gone(part) = {}
  BY <1>1, <1>3, <1>4 DEF Gone
<1>7. Dropped(part) = << >> /\ stripComments(part) = part
  BY <1>5, <1>6, NothingToStrip
<1> QED
  BY <1>7 DEF part, s

(* All of it and nothing of it are beginnings.                              *)
LEMMA StrippedIsPart ==
    ASSUME NEW f, IsBundle(built[f])
    PROVE  PartlyStripped(f, stripComments(built[f])) /\ PartlyStripped(f, << >>)
<1>1. stripComments(built[f]) \in Seq(Units)
  BY StripWorks DEF IsBundle
<1> DEFINE s == stripComments(built[f])
<1>2. /\ Len(s) \in 0 .. Len(s) /\ SubSeq(s, 1, Len(s)) = s
      /\ 0 \in 0 .. Len(s) /\ SubSeq(s, 1, 0) = << >>
  <2> HIDE DEF s
  <2>1. s \in Seq(Units)
    BY <1>1 DEF s
  <2> QED
    BY <2>1
<1> QED
  BY <1>2 DEF PartlyStripped

LEMMA StrippedOnce ==
    ASSUME NEW u, IsBundle(u)
    PROVE  sameProgram(u, stripComments(u))
BY StripWorks DEF sameProgram

LEMMA HalfStrippedStep ==
    ASSUME StripHolds, HalfStripped, StripNext
    PROVE  HalfStripped'
<1> SUFFICES ASSUME strip = "stripComments" PROVE HalfStripped'
  <2>1. UNCHANGED strip
    BY DEF StripNext, stripDirectory, TruncateBundle, WriteBundle, StripDone, StripKilled,
           StripAgain
  <2> QED
    BY <2>1 DEF HalfStripped
<1>1. /\ DOMAIN onDisk = DOMAIN built /\ DOMAIN writes \subseteq DOMAIN built
      /\ \A f \in DOMAIN built : IsBundle(built[f])
  BY DEF StripHolds
<1>2. \A f \in DOMAIN built :
          /\ sameProgram(built[f], stripComments(built[f]))
          /\ PartlyStripped(f, stripComments(built[f])) /\ PartlyStripped(f, << >>)
          /\ \A text : PartlyStripped(f, text) => stripComments(text) = text
  BY <1>1, StrippedOnce, StrippedIsPart, BeginningsStripped DEF PartlyStripped
<1>3. /\ \A f \in DOMAIN built : onDisk[f] = built[f] \/ PartlyStripped(f, onDisk[f])
      /\ stripPc = "write" =>
             /\ \A f \in DOMAIN writes : writes[f] = stripComments(built[f])
             /\ \A f \in DOMAIN built \ DOMAIN writes : PartlyStripped(f, onDisk[f])
      /\ stripPc = "done" => \A f \in DOMAIN built : PartlyStripped(f, onDisk[f])
  BY DEF HalfStripped
<1>5. CASE stripDirectory
  <2>1. \A f \in DOMAIN built : Applied(onDisk[f]) # onDisk[f] => onDisk[f] = built[f]
    BY <1>2, <1>3 DEF Applied
  <2>2. \A f \in Changed : f \in DOMAIN built /\ onDisk[f] = built[f]
    BY <2>1 DEF Changed
  <2>3. \A f \in Changed : /\ Applied(onDisk[f]) = stripComments(built[f])
                           /\ sameProgram(onDisk[f], Applied(onDisk[f]))
    BY <1>2, <2>2 DEF Applied
  <2>4. /\ stripPc' = "write" /\ writes' = [f \in Changed |-> Applied(onDisk[f])]
        /\ UNCHANGED <<strip, built, onDisk>>
    BY <1>5, <2>3 DEF stripDirectory
  <2>5. DOMAIN writes' = Changed /\ \A f \in Changed : writes'[f] = stripComments(built[f])
    BY <2>3, <2>4
  <2>6. \A f \in DOMAIN built \ Changed : PartlyStripped(f, onDisk[f])
    BY <1>2, <1>3 DEF Changed, Applied
  <2> QED
    BY <1>3, <2>4, <2>5, <2>6 DEF HalfStripped, PartlyStripped
<1>6. ASSUME NEW first \in DOMAIN writes, NEW text, PartlyStripped(first, text),
             Rewritten(first, text), UNCHANGED <<strip, built>>, stripPc = "write",
             stripPc' \in {"write", "killed"},
             stripPc' = "write" => \/ UNCHANGED writes
                                   \/ /\ DOMAIN writes' = DOMAIN writes \ {first}
                                      /\ \A f \in DOMAIN writes' : writes'[f] = writes[f]
      PROVE  HalfStripped'
  <2>1. \A f \in DOMAIN built : onDisk'[f] = built[f] \/ PartlyStripped(f, onDisk'[f])
    BY <1>1, <1>3, <1>6 DEF Rewritten
  <2>2. stripPc' = "write" =>
            /\ \A f \in DOMAIN writes' : writes'[f] = stripComments(built[f])
            /\ \A f \in DOMAIN built \ DOMAIN writes' : PartlyStripped(f, onDisk'[f])
    BY <1>1, <1>3, <1>6 DEF Rewritten
  <2> QED
    BY <1>6, <2>1, <2>2 DEF HalfStripped, PartlyStripped
<1>7. CASE TruncateBundle
  <2>1. /\ writing' \in DOMAIN writes /\ Rewritten(writing', << >>)
        /\ stripPc = "write" /\ UNCHANGED <<stripPc, strip, built, writes, torn>>
    BY <1>7, FirstIsTruncated
  <2>2. PartlyStripped(writing', << >>)
    BY <1>1, <1>2, <2>1
  <2> QED
    BY <1>6, <2>1, <2>2
<1>8. CASE WriteBundle
  <2>1. /\ writing \in DOMAIN writes /\ Rewritten(writing, writes[writing])
        /\ DOMAIN writes' = DOMAIN writes \ {writing}
        /\ \A f \in DOMAIN writes' : writes'[f] = writes[f]
        /\ stripPc = "write" /\ UNCHANGED <<stripPc, strip, built>>
    BY <1>8, FirstIsWritten
  <2>2. PartlyStripped(writing, writes[writing])
    BY <1>1, <1>2, <1>3, <2>1
  <2> QED
    BY <1>6, <2>1, <2>2
<1>9. CASE StripDone
  <2>1. /\ stripPc = "write" /\ stripPc' = "done" /\ DOMAIN writes = {}
        /\ UNCHANGED <<strip, built, onDisk, writes>>
    BY <1>9 DEF StripDone
  <2> QED
    BY <1>3, <2>1 DEF HalfStripped, PartlyStripped
<1>10. CASE StripKilled
  <2>1. /\ stripPc = "write" /\ stripPc' = "killed" /\ UNCHANGED <<strip, built, writes>>
    BY <1>10 DEF StripKilled
  <2>2. CASE writing = 0
    <3>1. UNCHANGED onDisk
      BY <1>10, <2>2 DEF StripKilled
    <3> QED
      BY <1>3, <2>1, <3>1 DEF HalfStripped, PartlyStripped
  <2>3. CASE writing # 0
    <3>1. /\ writing \in DOMAIN writes
          /\ \E n \in 0 .. Len(writes[writing]) :
                 Rewritten(writing, SubSeq(writes[writing], 1, n))
      BY <1>10, <2>3, WriteCutOff
    <3>2. PICK n \in 0 .. Len(writes[writing]) :
              Rewritten(writing, SubSeq(writes[writing], 1, n))
      BY <3>1
    <3>3. writes[writing] = stripComments(built[writing])
      BY <1>3, <2>1, <3>1
    <3>4. PartlyStripped(writing, SubSeq(writes[writing], 1, n))
      BY <3>2, <3>3 DEF PartlyStripped
    <3> QED
      BY <1>6, <2>1, <3>1, <3>2, <3>4
  <2> QED
    BY <2>2, <2>3
<1>11. CASE StripAgain
  <2>1. /\ stripPc' = "read" /\ UNCHANGED <<strip, built, onDisk>>
    BY <1>11 DEF StripAgain
  <2> QED
    BY <1>3, <2>1 DEF HalfStripped, PartlyStripped
<1> QED
  BY <1>5, <1>7, <1>8, <1>9, <1>10, <1>11 DEF StripNext

(* Whatever tsup built: the comparison never refuses what strip-bundle-     *)
(* comments makes of it, no comment that should go is left when it has      *)
(* ended, and a second run finds nothing to write, not even in a bundle     *)
(* whose write was cut off.                                                 *)
THEOREM StripNeverRefused == Spec => []StripIsAccepted
<1>1. Init => HalfStripped
  <2>1. StripInit => HalfStripped
    BY DEF StripInit, HalfStripped
  <2>2. StripIdle => HalfStripped
    BY DEF StripIdle, HalfStripped
  <2> QED
    BY <2>1, <2>2 DEF Init
<1>2. StripHolds /\ HalfStripped /\ [Next]_scriptsVars => HalfStripped'
  <2>1. HalfStripped /\ UNCHANGED stripVars => HalfStripped'
    BY DEF stripVars, HalfStripped, PartlyStripped
  <2> QED
    BY <2>1, HalfStrippedStep, ScriptSteps
<1>3. StripHolds /\ HalfStripped => StripIsAccepted
  <2> SUFFICES ASSUME StripHolds, HalfStripped, strip = "stripComments" PROVE StripIsAccepted
    BY DEF StripIsAccepted
  <2>1. /\ DOMAIN onDisk = DOMAIN built
        /\ \A f \in DOMAIN built : \A text :
               PartlyStripped(f, text) => Dropped(text) = << >> /\ stripComments(text) = text
    BY BeginningsStripped DEF StripHolds, PartlyStripped
  <2>2. /\ stripPc # "refused"
        /\ \A f \in DOMAIN built : onDisk[f] = built[f] \/ PartlyStripped(f, onDisk[f])
        /\ stripPc = "done" => \A f \in DOMAIN built : PartlyStripped(f, onDisk[f])
    BY DEF HalfStripped
  <2> QED
    BY <2>1, <2>2 DEF StripIsAccepted
<1> QED
  BY <1>1, <1>2, <1>3, StripInvariant, PTL DEF Spec
=============================================================================
