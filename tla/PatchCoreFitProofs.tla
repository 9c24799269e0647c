------------------------- MODULE PatchCoreFitProofs -------------------------
(***************************************************************************)
(* Proofs about a PatchCore fit (PatchCoreFit), for any points, batches,   *)
(* chunk sizes, budget, ratio and number of patches, on either device:     *)
(*   - what the fit and a whole checkpoint hold is what the adds that      *)
(*     succeeded brought (FInv).  Every merge of moments is exact since    *)
(*     Scale is a multiple of all counts, so the statistics after c chunks *)
(*     are those of the rows up to chunk c, and a write at the committed   *)
(*     prefix of the spool covers what a failed append left;               *)
(*   - a saved bank is of the right size, repeats no patch needlessly, and *)
(*     covers all patches (ArtifactHeld).  Farthest-first selection leaves *)
(*     out no row that is farther from the bank than two of its rows are   *)
(*     from each other; so two rows of the bank, or one and the row left   *)
(*     out, share one of as many centers (the pigeonhole principle), and   *)
(*     every row is within twice the centers' radius.  Each reduction of   *)
(*     the streamed bank adds this once.                                   *)
(* Loops are sequences of states of the loop (Iteration), and induction    *)
(* over their rounds is induction for sets (SetInduction).                 *)
(***************************************************************************)
EXTENDS PatchCoreFit, FiniteSetTheorems, SequenceTheorems, TLAPS

(* Induction over the natural numbers, for a set instead of a predicate:   *)
(* the numbers up to m outside T would all have their predecessor among    *)
(* them, different ones and none of them m, which the pigeonhole principle *)
(* excludes.                                                               *)
LEMMA SetInduction ==
  ASSUME NEW T, 0 \in T, \A n \in Nat : n \in T => n + 1 \in T
  PROVE  \A n \in Nat : n \in T
<1> SUFFICES ASSUME NEW m \in Nat, m \notin T PROVE FALSE
  OBVIOUS
<1> DEFINE V == {n \in 0 .. m : n \notin T}
           down == [n \in V |-> n - 1]
<1>1. IsFiniteSet(V)
  <2>1. IsFiniteSet(0 .. m)
    BY FS_Interval
  <2> QED
    BY <2>1, FS_Subset
<1>2. m \in V
  OBVIOUS
<1>3. ASSUME NEW n \in V PROVE n - 1 \in V \ {m}
  <2>1. n # 0 /\ n \in Nat /\ n <= m /\ n \notin T
    OBVIOUS
  <2>2. n - 1 \in Nat /\ (n - 1) + 1 = n
    BY <2>1
  <2>3. n - 1 \notin T
    BY <2>1, <2>2
  <2> QED
    BY <2>1, <2>2, <2>3
<1>4. down \in [V -> V \ {m}]
  BY <1>3
<1>5. IsFiniteSet(V \ {m}) /\ Cardinality(V \ {m}) = Cardinality(V) - 1
  BY <1>1, <1>2, FS_RemoveElement
<1>6. Cardinality(V) \in Nat
  BY <1>1, FS_CardinalityType
<1> HIDE DEF down
<1>7. PICK x, y \in V : x # y /\ down[x] = down[y]
  <2> HIDE DEF V
  <2>1. Cardinality(V \ {m}) < Cardinality(V)
    BY <1>5, <1>6
  <2> QED
    BY <1>1, <1>4, <1>5, <2>1, FS_PigeonHole
<1> QED
  BY <1>7 DEF down

(* f is what n steps make of d0: the value of a loop after each round.     *)
Iteration(f, n, D, d0, step) ==
  /\ f \in [0..n -> D] /\ f[0] = d0
  /\ \A i \in 1..n : f[i] = step[i][f[i - 1]]

(* Such an f exists: what makes k steps is continued by one more.          *)
LEMMA Iterates ==
  ASSUME NEW n \in Nat, NEW D, NEW d0 \in D, NEW step \in [1..n -> [D -> D]]
  PROVE  \E f : Iteration(f, n, D, d0, step)
<1> DEFINE Good(k, f) == /\ f \in [0..k -> D] /\ f[0] = d0
                         /\ \A i \in 1..k : f[i] = step[i][f[i - 1]]
           T == {k \in Nat : k <= n => \E f : Good(k, f)}
<1>1. 0 \in T
  <2>1. Good(0, [i \in 0..0 |-> d0])
    OBVIOUS
  <2> QED
    BY <2>1
<1>2. ASSUME NEW k \in Nat, k \in T PROVE k + 1 \in T
  <2> SUFFICES ASSUME k + 1 <= n PROVE \E f : Good(k + 1, f)
    OBVIOUS
  <2>1. PICK f : Good(k, f)
    BY <1>2
  <2>2. step[k + 1] \in [D -> D] /\ f[k] \in D
    BY <2>1
  <2> DEFINE g == [i \in 0..(k + 1) |-> IF i = k + 1 THEN step[k + 1][f[k]] ELSE f[i]]
  <2>3. g \in [0..(k + 1) -> D] /\ g[0] = d0
    BY <2>1, <2>2
  <2>4. ASSUME NEW i \in 1..(k + 1) PROVE g[i] = step[i][g[i - 1]]
    <3>1. CASE i = k + 1
      BY <3>1
    <3>2. CASE i # k + 1
      <4>1. i \in 1..k /\ i - 1 \in 0..k /\ i - 1 # k + 1
        BY <3>2
      <4> QED
        BY <2>1, <4>1
    <3> QED
      BY <3>1, <3>2
  <2>5. Good(k + 1, g)
    BY <2>3, <2>4
  <2> HIDE DEF g
  <2> QED
    BY <2>5
<1> HIDE DEF T
<1>3. \A k \in Nat : k \in T
  BY <1>1, <1>2, SetInduction
<1>4. n \in T
  BY <1>3
<1> QED
  BY <1>4 DEF T, Iteration

-----------------------------------------------------------------------------
(* Sums.                                                                   *)

(* f has the partial sums of s, as the loops over the rows of a chunk have *)
(* them.                                                                   *)
IsSum(f, s) ==
  /\ f \in [0..Len(s) -> Int] /\ f[0] = 0
  /\ \A i \in 1..Len(s) : f[i] = f[i - 1] + s[i]

(* Total(s) is the last partial sum of s.                                  *)
LEMMA SumOf ==
  ASSUME NEW s \in Seq(Int)
  PROVE  \E f : IsSum(f, s) /\ Total(s) = f[Len(s)]
<1> DEFINE n == Len(s)
           next == [i \in 1..n |-> [d \in Int |-> d + s[i]]]
           h == CHOOSE g : g = [i \in 0..Len(s) |-> IF i = 0 THEN 0 ELSE g[i - 1] + s[i]]
<1>1. n \in Nat /\ \A i \in 1..n : s[i] \in Int
  BY LenProperties
<1>2. next \in [1..n -> [Int -> Int]]
  BY <1>1
<1>3. \E f \in [0..n -> Int] : f[0] = 0 /\ \A i \in 1..n : f[i] = next[i][f[i - 1]]
  <2>1. n \in Nat /\ 0 \in Int
    BY <1>1
  <2> HIDE DEF next, n
  <2>2. \E f : Iteration(f, n, Int, 0, next)
    BY <1>2, <2>1, Iterates
  <2> QED
    BY <2>2 DEF Iteration
<1>4. PICK f \in [0..n -> Int] : f[0] = 0 /\ \A i \in 1..n : f[i] = next[i][f[i - 1]]
  BY <1>3
<1>5. \A i \in 1..n : f[i] = f[i - 1] + s[i]
  <2> SUFFICES ASSUME NEW i \in 1..n PROVE f[i] = f[i - 1] + s[i]
    OBVIOUS
  <2>1. f[i - 1] \in Int
    BY <1>1
  <2>2. next[i] = [d \in Int |-> d + s[i]]
    OBVIOUS
  <2>3. f[i] = next[i][f[i - 1]]
    BY <1>4
  <2> QED
    BY <2>1, <2>2, <2>3
<1>6. f = [i \in 0..Len(s) |-> IF i = 0 THEN 0 ELSE f[i - 1] + s[i]]
  <2>1. \A i \in 0..n : f[i] = IF i = 0 THEN 0 ELSE f[i - 1] + s[i]
    BY <1>1, <1>4, <1>5
  <2> QED
    BY <1>4, <2>1
<1>7. Total(s) = h[Len(s)]
  BY DEF Total
<1>8. h = [i \in 0..Len(s) |-> IF i = 0 THEN 0 ELSE h[i - 1] + s[i]]
  BY <1>6
<1> HIDE DEF h
<1> DEFINE T == {k \in Nat : k <= n => h[k] \in Int}
<1>9. \A k \in Nat : k \in T
  <2>1. 0 \in T
    BY <1>1, <1>8
  <2>2. ASSUME NEW k \in Nat, k \in T PROVE k + 1 \in T
    <3> SUFFICES ASSUME k + 1 <= n PROVE h[k + 1] \in Int
      OBVIOUS
    <3>1. h[k] \in Int /\ s[k + 1] \in Int
      BY <1>1, <2>2
    <3>2. h[k + 1] = h[(k + 1) - 1] + s[k + 1]
      BY <1>1, <1>8
    <3> QED
      BY <3>1, <3>2
  <2> HIDE DEF T
  <2> QED
    BY <2>1, <2>2, SetInduction
<1>10. IsSum(h, s)
  <2>1. \A k \in 0..n : h[k] \in Int
    BY <1>9
  <2>2. h \in [0..n -> Int]
    <3>1. h = [i \in 0..n |-> h[i]]
      <4> DEFINE step(i) == IF i = 0 THEN 0 ELSE h[i - 1] + s[i]
      <4>1. h = [i \in 0..n |-> step(i)]
        BY <1>8
      <4> HIDE DEF step
      <4> QED
        BY <4>1
    <3> QED
      BY <2>1, <3>1
  <2>3. h[0] = 0
    <3>1. 0 \in 0..n
      BY <1>1
    <3> QED
      BY <1>8, <3>1
  <2>4. ASSUME NEW i \in 1..n PROVE h[i] = h[i - 1] + s[i]
    <3>1. i \in 0..n /\ i # 0
      BY <1>1
    <3> QED
      BY <1>8, <3>1
  <2> QED
    BY <2>2, <2>3, <2>4 DEF IsSum
<1> QED
  BY <1>7, <1>10

(* Any function with the partial sums of s ends in Total(s).               *)
LEMMA SameSum ==
  ASSUME NEW s \in Seq(Int), NEW f, IsSum(f, s)
  PROVE  Total(s) = f[Len(s)]
<1>1. PICK g : IsSum(g, s) /\ Total(s) = g[Len(s)]
  BY SumOf
<1> DEFINE n == Len(s)
           T == {k \in Nat : k <= n => f[k] = g[k]}
<1>2. n \in Nat
  BY LenProperties
<1>3. 0 \in T
  BY <1>1 DEF IsSum
<1>4. ASSUME NEW k \in Nat, k \in T PROVE k + 1 \in T
  BY <1>1, <1>2, <1>4 DEF IsSum
<1>5. \A k \in Nat : k \in T
  <2> HIDE DEF T
  <2> QED
    BY <1>3, <1>4, SetInduction
<1> QED
  BY <1>1, <1>2, <1>5

(* A sum of integers is an integer.                                        *)
LEMMA TotalType ==
  ASSUME NEW s \in Seq(Int)
  PROVE  Total(s) \in Int
<1>1. Len(s) \in Nat
  BY LenProperties
<1> QED
  BY <1>1, SumOf DEF IsSum

(* Nothing sums to zero.                                                   *)
LEMMA TotalEmpty ==
  Total(<<>>) = 0
<1>1. <<>> \in Seq(Int) /\ Len(<<>>) = 0
  OBVIOUS
<1> QED
  BY <1>1, SumOf DEF IsSum

(* The sum over two chunks, one after the other, is the sum of their sums. *)
LEMMA TotalConcat ==
  ASSUME NEW s \in Seq(Int), NEW t \in Seq(Int)
  PROVE  Total(s \o t) = Total(s) + Total(t)
<1> DEFINE m == Len(s)
           n == Len(t)
<1>1. PICK f : IsSum(f, s) /\ Total(s) = f[m]
  BY SumOf
<1>2. PICK g : IsSum(g, t) /\ Total(t) = g[n]
  BY SumOf
<1> DEFINE h == [i \in 0..(m + n) |-> IF i <= m THEN f[i] ELSE f[m] + g[i - m]]
<1>3. m \in Nat /\ n \in Nat /\ s \o t \in Seq(Int) /\ Len(s \o t) = m + n
  BY LenProperties, ConcatProperties
<1>4. \A i \in 1..(m + n) : (s \o t)[i] = IF i <= m THEN s[i] ELSE t[i - m]
  BY ConcatProperties
<1>5. /\ f \in [0..m -> Int] /\ f[0] = 0 /\ \A i \in 1..m : f[i] = f[i - 1] + s[i]
      /\ g \in [0..n -> Int] /\ g[0] = 0 /\ \A i \in 1..n : g[i] = g[i - 1] + t[i]
  BY <1>1, <1>2 DEF IsSum
<1>6. h \in [0..(m + n) -> Int] /\ h[0] = 0
  <2>1. ASSUME NEW i \in 0..(m + n) PROVE h[i] \in Int
    <3>1. CASE i <= m
      <4>1. i \in 0..m
        BY <1>3, <3>1
      <4>2. h[i] = f[i]
        BY <3>1
      <4> HIDE DEF h
      <4> QED
        BY <1>5, <4>1, <4>2
    <3>2. CASE ~(i <= m)
      <4>1. i - m \in 0..n /\ m \in 0..m
        BY <1>3, <3>2
      <4>2. g[i - m] \in Int /\ f[m] \in Int
        BY <1>5, <4>1
      <4>3. h[i] = f[m] + g[i - m]
        BY <3>2
      <4> HIDE DEF h
      <4> QED
        BY <4>2, <4>3
    <3> QED
      BY <3>1, <3>2
  <2> QED
    BY <1>3, <1>5, <2>1
<1>7. ASSUME NEW i \in 1..(m + n) PROVE h[i] = h[i - 1] + (s \o t)[i]
  <2> HIDE DEF m, n
  <2>1. CASE i <= m
    <3>1. i \in 1..m /\ i - 1 <= m /\ i - 1 \in 0..(m + n) /\ i \in 0..(m + n)
      BY <1>3, <2>1
    <3> QED
      BY <1>4, <1>5, <2>1, <3>1
  <2>2. CASE i = m + 1
    <3>1. i - 1 = m /\ i - m = 1 /\ i \in 0..(m + n) /\ m \in 0..(m + n) /\ 1 \in 1..n /\ ~(i <= m)
      BY <1>3, <2>2
    <3>2. t[1] = g[1] /\ t[1] \in Int /\ f[m] \in Int
      <4>1. g[1] = g[1 - 1] + t[1] /\ g[1 - 1] = 0 /\ t[1] \in Int
        BY <1>5, <3>1, LenProperties DEF n
      <4> QED
        BY <1>3, <1>5, <3>1, <4>1
    <3>3. h[i] = f[m] + g[1] /\ h[i - 1] = f[m] /\ (s \o t)[i] = t[1]
      BY <1>3, <1>4, <3>1
    <3> HIDE DEF h
    <3> QED
      BY <3>2, <3>3
  <2>3. CASE i > m + 1
    <3>1. /\ i - m \in 1..n /\ ~(i - 1 <= m) /\ ~(i <= m) /\ (i - 1) - m = (i - m) - 1
          /\ (i - m) - 1 \in 0..n /\ i - 1 \in 0..(m + n) /\ i \in 0..(m + n)
      BY <1>3, <2>3
    <3>2. t[i - m] \in Int /\ f[m] \in Int /\ g[(i - m) - 1] \in Int
      <4>1. t \in [1..n -> Int] /\ m \in 0..m
        BY <1>3, LenProperties DEF n
      <4> QED
        BY <1>5, <3>1, <4>1
    <3>3. h[i] = f[m] + (g[(i - m) - 1] + t[i - m])
      BY <1>5, <3>1
    <3>4. h[i - 1] = f[m] + g[(i - m) - 1] /\ (s \o t)[i] = t[i - m]
      BY <1>4, <3>1
    <3> HIDE DEF h
    <3> QED
      BY <3>2, <3>3, <3>4
  <2> QED
    BY <1>3, <2>1, <2>2, <2>3
<1>8. IsSum(h, s \o t)
  <2> HIDE DEF h, m, n
  <2> QED
    BY <1>3, <1>6, <1>7 DEF IsSum
<1>9. h[m + n] = f[m] + g[n]
  <2>1. CASE n = 0
    BY <1>3, <1>5, <2>1
  <2>2. CASE n # 0
    BY <1>3, <2>2
  <2> QED
    BY <2>1, <2>2
<1> HIDE DEF h
<1> QED
  BY <1>1, <1>2, <1>3, <1>8, <1>9, SameSum

-----------------------------------------------------------------------------
(* Moments.                                                                *)

(* The squares that the second moment adds up.                             *)
Squares(s) == [i \in DOMAIN s |-> s[i] * s[i]]

(* A product divided by one of its factors is the other.                   *)
LEMMA ExactDivision ==
  ASSUME NEW k \in Int, NEW n \in Nat \ {0}
  PROVE  (k * n) \div n = k /\ (n * k) \div n = k
OBVIOUS

(* c is a multiple of both counts and of their sum, with quotients p1, p2  *)
(* and q.                                                                  *)
Multiple(c, n1, n2, p1, p2, q) ==
  /\ c \in Int /\ n1 \in Int /\ n2 \in Int /\ p1 \in Int /\ p2 \in Int /\ q \in Int
  /\ c = p1 * n1 /\ c = p2 * n2 /\ c = q * (n1 + n2)

(* What makes the mean merged from two chunks the mean of both together.   *)
MergedMean(n1, n2, p1, p2, q, S1, S2) ==
  (p2 * S2 - p1 * S1) * n2 = (q * (S1 + S2) - p1 * S1) * (n1 + n2)

(* What makes the second moment merged from two chunks that of both        *)
(* together.                                                               *)
MergedMoment(c, n1, n2, p1, p2, q, S1, S2) ==
  (((p2 * S2 - p1 * S1) * (p2 * S2 - p1 * S1)) * n1) * n2
    = (p1 * (S1 * S1) + p2 * (S2 * S2) - q * ((S1 + S2) * (S1 + S2))) * (c * (n1 + n2))

(* The identity behind the update of nextMean.                             *)
LEMMA MeanIdentity ==
  ASSUME NEW c, NEW n1, NEW n2, NEW p1, NEW p2, NEW q, Multiple(c, n1, n2, p1, p2, q),
         NEW S1 \in Int, NEW S2 \in Int
  PROVE  MergedMean(n1, n2, p1, p2, q, S1, S2)
<1> /\ c \in Int /\ n1 \in Int /\ n2 \in Int /\ p1 \in Int /\ p2 \in Int /\ q \in Int
    /\ p1 * n1 = q * (n1 + n2) /\ p2 * n2 = q * (n1 + n2)
  BY DEF Multiple
<1>1. (p1 * n1) * S1 = (q * (n1 + n2)) * S1 /\ (p2 * n2) * S2 = (q * (n1 + n2)) * S2
  OBVIOUS
<1> QED
  BY <1>1 DEF MergedMean

(* The identity behind the update of nextM2 (the parallel form of the      *)
(* variance).                                                              *)
LEMMA MomentIdentity ==
  ASSUME NEW c, NEW n1, NEW n2, NEW p1, NEW p2, NEW q, Multiple(c, n1, n2, p1, p2, q),
         NEW S1 \in Int, NEW S2 \in Int
  PROVE  MergedMoment(c, n1, n2, p1, p2, q, S1, S2)
<1> DEFINE x == S1 * S1
           y == S2 * S2
           z == S1 * S2
<1> /\ c \in Int /\ n1 \in Int /\ n2 \in Int /\ p1 \in Int /\ p2 \in Int /\ q \in Int
    /\ c = p1 * n1 /\ c = p2 * n2 /\ c = q * (n1 + n2)
  BY DEF Multiple
<1>1. x \in Int /\ y \in Int /\ z \in Int
  OBVIOUS
<1>2. (p2 * S2 - p1 * S1) * (p2 * S2 - p1 * S1)
        = (p2 * p2) * y - 2 * ((p1 * p2) * z) + (p1 * p1) * x
  OBVIOUS
<1>3. (S1 + S2) * (S1 + S2) = x + 2 * z + y
  OBVIOUS
<1> DEFINE d2 == (p2 * p2) * y - 2 * ((p1 * p2) * z) + (p1 * p1) * x
<1>4. (d2 * n1) * n2 = (n1 * (p2 * y)) * (p2 * n2) - (2 * z) * ((p1 * n1) * (p2 * n2))
                         + (n2 * (p1 * x)) * (p1 * n1)
  OBVIOUS
<1>5. (d2 * n1) * n2 = (n1 * (p2 * y)) * c - (2 * z) * (c * c) + (n2 * (p1 * x)) * c
  BY <1>4
<1> DEFINE e == p1 * x + p2 * y - q * (x + 2 * z + y)
<1>6. e * (n1 + n2) = (p1 * n1) * x + n2 * (p1 * x) + n1 * (p2 * y) + (p2 * n2) * y
                        - (q * (n1 + n2)) * (x + 2 * z + y)
  OBVIOUS
<1>7. e * (n1 + n2) = c * x + n2 * (p1 * x) + n1 * (p2 * y) + c * y - c * (x + 2 * z + y)
  BY <1>6
<1>8. e * (n1 + n2) = n2 * (p1 * x) + n1 * (p2 * y) - c * (2 * z)
  BY <1>1, <1>7
<1>9. e * (c * (n1 + n2)) = c * (e * (n1 + n2))
  OBVIOUS
<1>10. e * (c * (n1 + n2)) = c * (n2 * (p1 * x) + n1 * (p2 * y) - c * (2 * z))
  BY <1>8, <1>9
<1>11. c * (n2 * (p1 * x) + n1 * (p2 * y) - c * (2 * z))
         = (n1 * (p2 * y)) * c - (2 * z) * (c * c) + (n2 * (p1 * x)) * c
  BY <1>1
<1>12. (d2 * n1) * n2 = e * (c * (n1 + n2))
  BY <1>5, <1>10, <1>11
<1>13. (((p2 * S2 - p1 * S1) * (p2 * S2 - p1 * S1)) * n1) * n2
         = (p1 * (S1 * S1) + p2 * (S2 * S2) - q * ((S1 + S2) * (S1 + S2))) * (c * (n1 + n2))
  BY <1>2, <1>3, <1>12
<1> QED
  BY <1>13 DEF MergedMoment

(* Points are integers, a batch is a sequence of them and not empty.       *)
LEMMA PatchTypes ==
  /\ Points \subseteq Int /\ Scale \in Nat \ {0} /\ MaxPatches \in Nat
  /\ \A s \in Seq(Points) : s \in Seq(Int)
  /\ \A b \in Batches : b \in Seq(Points) /\ b # <<>>
<1>1. Points \subseteq Int
  BY PatchCoreFitAssumption
<1>2. ASSUME NEW s \in Seq(Points) PROVE s \in Seq(Int)
  <2>1. Len(s) \in Nat /\ s \in [1..Len(s) -> Points]
    BY LenProperties
  <2>2. s \in [1..Len(s) -> Int]
    BY <1>1, <2>1
  <2> QED
    BY <2>1, <2>2, SeqDef
<1> QED
  BY <1>1, <1>2, PatchCoreFitAssumption

(* The squares of a sequence of integers are as many integers.             *)
LEMMA SquaresType ==
  ASSUME NEW s \in Seq(Int)
  PROVE  Squares(s) \in Seq(Int) /\ Len(Squares(s)) = Len(s)
<1> DEFINE n == Len(s)
<1>1. n \in Nat /\ s \in [1..n -> Int] /\ DOMAIN s = 1..n
  BY LenProperties
<1>2. Squares(s) \in [1..n -> Int]
  BY <1>1 DEF Squares
<1>3. Squares(s) \in Seq(Int)
  BY <1>1, <1>2, SeqDef
<1>4. Len(Squares(s)) = n
  BY <1>1, <1>2, <1>3, LenProperties
<1> QED
  BY <1>3, <1>4

(* The squares of two chunks, one after the other.                         *)
LEMMA SquaresConcat ==
  ASSUME NEW s \in Seq(Int), NEW t \in Seq(Int)
  PROVE  Squares(s \o t) = Squares(s) \o Squares(t)
<1> DEFINE m == Len(s)
           n == Len(t)
           u == s \o t
           v == Squares(s) \o Squares(t)
<1>1. m \in Nat /\ n \in Nat /\ u \in Seq(Int) /\ Len(u) = m + n
  BY LenProperties, ConcatProperties
<1>2. Squares(u) \in Seq(Int) /\ Len(Squares(u)) = m + n
  BY <1>1, SquaresType
<1>3. v \in Seq(Int) /\ Len(v) = m + n
  BY SquaresType, ConcatProperties
<1>4. ASSUME NEW i \in 1..(m + n) PROVE Squares(u)[i] = v[i]
  <2>1. DOMAIN s = 1..m /\ DOMAIN t = 1..n /\ DOMAIN u = 1..(m + n)
    BY <1>1, LenProperties
  <2>2. Squares(u)[i] = u[i] * u[i]
    BY <2>1 DEF Squares
  <2>3. u[i] = IF i <= m THEN s[i] ELSE t[i - m]
    BY ConcatProperties
  <2>4. v[i] = IF i <= m THEN Squares(s)[i] ELSE Squares(t)[i - m]
    <3>1. Squares(s) \in Seq(Int) /\ Squares(t) \in Seq(Int)
          /\ Len(Squares(s)) = m /\ Len(Squares(t)) = n
      BY SquaresType
    <3> QED
      BY <3>1, ConcatProperties
  <2>5. CASE i <= m
    <3>1. i \in 1..m
      BY <1>1, <2>5
    <3>2. Squares(s)[i] = s[i] * s[i]
      BY <2>1, <3>1 DEF Squares
    <3> QED
      BY <2>2, <2>3, <2>4, <2>5, <3>2
  <2>6. CASE ~(i <= m)
    <3>1. i - m \in 1..n
      BY <1>1, <2>6
    <3>2. Squares(t)[i - m] = t[i - m] * t[i - m]
      BY <2>1, <3>1 DEF Squares
    <3> QED
      BY <2>2, <2>3, <2>4, <2>6, <3>2
  <2> QED
    BY <2>5, <2>6
<1> HIDE DEF u, v
<1> QED
  BY <1>2, <1>3, <1>4, SeqEqual DEF u, v

(* The moments of at most MaxPatches patches without a rounded division.   *)
LEMMA MomentsOf ==
  ASSUME NEW s \in Seq(Int), Len(s) \in 1..MaxPatches
  PROVE  \E p \in Int :
           /\ Scale = p * Len(s)
           /\ Moments(s) = [count |-> Len(s), mean |-> p * Total(s),
                            m2 |-> Scale * Total(Squares(s)) - p * (Total(s) * Total(s))]
<1> DEFINE n == Len(s)
           S == Total(s)
           p == Scale \div n
<1>1. n \in Nat \ {0} /\ Scale \in Nat \ {0} /\ Scale % n = 0
  <2>1. \A k \in 1..MaxPatches : Scale % k = 0
    BY PatchCoreFitAssumption
  <2> QED
    BY <2>1, PatchTypes, LenProperties
<1>2. p \in Int /\ Scale = p * n
  BY <1>1
<1>3. S \in Int
  BY TotalType
<1> HIDE DEF n, S, p
<1>4. (Scale * S) \div n = p * S
  <2>1. Scale * S = (p * S) * n /\ p * S \in Int
    BY <1>1, <1>2, <1>3
  <2>2. ((p * S) * n) \div n = p * S
    BY <1>1, <2>1, ExactDivision
  <2> QED
    BY <2>1, <2>2
<1>5. (Scale * S * S) \div n = p * (S * S)
  <2>1. Scale * S * S = (p * (S * S)) * n /\ p * (S * S) \in Int
    BY <1>1, <1>2, <1>3
  <2>2. ((p * (S * S)) * n) \div n = p * (S * S)
    BY <1>1, <2>1, ExactDivision
  <2> QED
    BY <2>1, <2>2
<1>6. Moments(s) = [count |-> n, mean |-> (Scale * S) \div n,
                    m2 |-> Scale * Total(Squares(s)) - (Scale * S * S) \div n]
  BY DEF Moments, Squares, n, S
<1>7. Moments(s) = [count |-> n, mean |-> p * S,
                    m2 |-> Scale * Total(Squares(s)) - p * (S * S)]
  BY <1>4, <1>5, <1>6
<1> QED
  BY <1>2, <1>7 DEF n, S

(* Merging the moments of two sequences gives the moments of the two       *)
(* together: an update of the statistics by a chunk loses nothing.         *)
LEMMA MergeMoments ==
  ASSUME NEW s \in Seq(Int), NEW t \in Seq(Int), Len(s) > 0, Len(t) > 0,
         Len(s) + Len(t) <= MaxPatches
  PROVE  Merge(Moments(s), Moments(t)) = Moments(s \o t)
<1> DEFINE n1 == Len(s)
           n2 == Len(t)
           S1 == Total(s)
           S2 == Total(t)
           Q1 == Total(Squares(s))
           Q2 == Total(Squares(t))
           u == s \o t
<1>1. n1 \in Nat \ {0} /\ n2 \in Nat \ {0} /\ n1 \in 1..MaxPatches /\ n2 \in 1..MaxPatches
  BY LenProperties, PatchTypes
<1>2. u \in Seq(Int) /\ Len(u) = n1 + n2 /\ n1 + n2 \in 1..MaxPatches
  BY <1>1, LenProperties, ConcatProperties, PatchTypes
<1>3. S1 \in Int /\ S2 \in Int /\ Q1 \in Int /\ Q2 \in Int
  BY TotalType, SquaresType
<1>4. Total(u) = S1 + S2
  BY TotalConcat
<1>5. Total(Squares(u)) = Q1 + Q2
  BY TotalConcat, SquaresConcat, SquaresType
<1>6. PICK p1 \in Int : /\ Scale = p1 * n1
                        /\ Moments(s) = [count |-> n1, mean |-> p1 * S1,
                                         m2 |-> Scale * Q1 - p1 * (S1 * S1)]
  BY <1>1, MomentsOf
<1>7. PICK p2 \in Int : /\ Scale = p2 * n2
                        /\ Moments(t) = [count |-> n2, mean |-> p2 * S2,
                                         m2 |-> Scale * Q2 - p2 * (S2 * S2)]
  BY <1>1, MomentsOf
<1>8. PICK q \in Int : /\ Scale = q * (n1 + n2)
                       /\ Moments(u) = [count |-> n1 + n2, mean |-> q * (S1 + S2),
                                        m2 |-> Scale * (Q1 + Q2) - q * ((S1 + S2) * (S1 + S2))]
  <2> HIDE DEF u
  <2>1. \E p \in Int :
           /\ Scale = p * Len(u)
           /\ Moments(u) = [count |-> Len(u), mean |-> p * Total(u),
                            m2 |-> Scale * Total(Squares(u)) - p * (Total(u) * Total(u))]
    BY <1>2, MomentsOf
  <2> QED
    BY <1>2, <1>4, <1>5, <2>1
<1> HIDE DEF n1, n2, S1, S2, Q1, Q2, u
<1> DEFINE d == p2 * S2 - p1 * S1
           n == n1 + n2
<1>9. Scale \in Int /\ n \in Nat \ {0} /\ d \in Int /\ Scale * n \in Nat \ {0}
  BY <1>1, <1>3, PatchTypes
<1>0. Multiple(Scale, n1, n2, p1, p2, q)
  <2>1. Scale = p1 * n1 /\ Scale = p2 * n2 /\ Scale = q * (n1 + n2)
    BY <1>6, <1>7, <1>8
  <2>2. Scale \in Int /\ n1 \in Int /\ n2 \in Int
    BY <1>1, <1>9
  <2> QED
    BY <2>1, <2>2 DEF Multiple
<1>10. (d * n2) \div n = q * (S1 + S2) - p1 * S1
  <2>1. d * n2 = (q * (S1 + S2) - p1 * S1) * n
    <3>1. MergedMean(n1, n2, p1, p2, q, S1, S2)
      BY <1>0, <1>3, MeanIdentity
    <3> QED
      BY <3>1, Zenon DEF MergedMean
  <2>2. q * (S1 + S2) - p1 * S1 \in Int
    BY <1>3
  <2> HIDE DEF d, n
  <2> QED
    BY <1>9, <2>1, <2>2, ExactDivision
<1>11. (d * d * n1 * n2) \div (Scale * n)
         = p1 * (S1 * S1) + p2 * (S2 * S2) - q * ((S1 + S2) * (S1 + S2))
  <2> DEFINE e == p1 * (S1 * S1) + p2 * (S2 * S2) - q * ((S1 + S2) * (S1 + S2))
             m == Scale * n
  <2>1. ((d * d) * n1) * n2 = e * m
    <3>1. MergedMoment(Scale, n1, n2, p1, p2, q, S1, S2)
      BY <1>0, <1>3, MomentIdentity
    <3> QED
      BY <3>1, Zenon DEF MergedMoment
  <2>2. e \in Int
    BY <1>3
  <2>3. m \in Nat \ {0}
    BY <1>9
  <2> HIDE DEF e, m
  <2>4. (e * m) \div m = e
    BY <2>2, <2>3, ExactDivision
  <2>5. (d * d * n1 * n2) \div m = e
    BY <2>1, <2>4
  <2> QED
    BY <2>5 DEF e, m
<1> DEFINE a == Moments(s)
           b == Moments(t)
<1>12. /\ a.count = n1 /\ a.mean = p1 * S1 /\ a.m2 = Scale * Q1 - p1 * (S1 * S1)
       /\ b.count = n2 /\ b.mean = p2 * S2 /\ b.m2 = Scale * Q2 - p2 * (S2 * S2)
  BY <1>6, <1>7
<1> HIDE DEF a, b
<1>13. Merge(a, b) = [count |-> n, mean |-> p1 * S1 + (d * n2) \div n,
                      m2 |-> Scale * Q1 - p1 * (S1 * S1) + (Scale * Q2 - p2 * (S2 * S2))
                               + (d * d * n1 * n2) \div (Scale * n)]
  BY <1>1, <1>12 DEF Merge
<1>14. p1 * S1 + (d * n2) \div n = q * (S1 + S2)
  BY <1>3, <1>10
<1>15. Scale * Q1 - p1 * (S1 * S1) + (Scale * Q2 - p2 * (S2 * S2))
         + (d * d * n1 * n2) \div (Scale * n) = Scale * (Q1 + Q2) - q * ((S1 + S2) * (S1 + S2))
  <2> DEFINE x == p1 * (S1 * S1)
             y == p2 * (S2 * S2)
             z == q * ((S1 + S2) * (S1 + S2))
  <2>1. x \in Int /\ y \in Int /\ z \in Int /\ Scale * Q1 \in Int /\ Scale * Q2 \in Int
    BY <1>3, <1>9
  <2>2. Scale * (Q1 + Q2) = Scale * Q1 + Scale * Q2
    BY <1>3, <1>9
  <2>3. (d * d * n1 * n2) \div (Scale * n) = x + y - z
    BY <1>11
  <2> HIDE DEF x, y, z
  <2>4. Scale * Q1 - x + (Scale * Q2 - y) + (x + y - z) = Scale * Q1 + Scale * Q2 - z
    BY <2>1
  <2> DEFINE w == (d * d * n1 * n2) \div (Scale * n)
  <2>5. w = x + y - z
    BY <2>3
  <2> HIDE DEF w
  <2>6. Scale * Q1 - x + (Scale * Q2 - y) + w = Scale * (Q1 + Q2) - z
    BY <2>1, <2>2, <2>4, <2>5
  <2> QED
    BY <2>6 DEF w, x, y, z
<1>16. Merge(a, b) = Moments(u)
  BY <1>8, <1>13, <1>14, <1>15
<1> QED
  BY <1>16 DEF a, b, u

-----------------------------------------------------------------------------
(* Prefixes and chunks.                                                    *)

(* A prefix of a sequence.                                                 *)
LEMMA TakeProperties ==
  ASSUME NEW S, NEW s \in Seq(S), NEW n \in 0..Len(s)
  PROVE  /\ Take(s, n) \in Seq(S) /\ Len(Take(s, n)) = n
         /\ \A i \in 1..n : Take(s, n)[i] = s[i]
<1>1. Len(s) \in Nat /\ s \in [1..Len(s) -> S] /\ n \in Int /\ n \in Nat
  BY LenProperties
<1>2. \A i \in 1..n : s[i] \in S
  BY <1>1
<1>3. /\ SubSeq(s, 1, n) \in Seq(S)
      /\ Len(SubSeq(s, 1, n)) = IF 1 <= n THEN n - 1 + 1 ELSE 0
      /\ \A i \in 1..(n - 1 + 1) : SubSeq(s, 1, n)[i] = s[1 + i - 1]
  <2>1. 1 \in Int
    OBVIOUS
  <2> QED
    BY <1>1, <1>2, <2>1, SubSeqProperties
<1>4. n - 1 + 1 = n /\ \A i \in 1..n : 1 + i - 1 = i
  BY <1>1
<1>5. Len(SubSeq(s, 1, n)) = n
  BY <1>1, <1>3
<1>6. \A i \in 1..n : SubSeq(s, 1, n)[i] = s[i]
  BY <1>3, <1>4
<1> QED
  BY <1>3, <1>5, <1>6 DEF Take

(* What is appended does not change a prefix.                              *)
LEMMA TakeOfConcat ==
  ASSUME NEW S, NEW s \in Seq(S), NEW t \in Seq(S), NEW n \in 0..Len(s)
  PROVE  Take(s \o t, n) = Take(s, n)
<1>1. Len(s) \in Nat /\ Len(t) \in Nat /\ s \o t \in Seq(S) /\ Len(s \o t) = Len(s) + Len(t)
  BY LenProperties, ConcatProperties
<1>2. n \in 0..Len(s \o t)
  BY <1>1
<1>3. /\ Take(s, n) \in Seq(S) /\ Len(Take(s, n)) = n
      /\ \A i \in 1..n : Take(s, n)[i] = s[i]
  BY TakeProperties
<1>4. /\ Take(s \o t, n) \in Seq(S) /\ Len(Take(s \o t, n)) = n
      /\ \A i \in 1..n : Take(s \o t, n)[i] = (s \o t)[i]
  BY <1>1, <1>2, TakeProperties
<1>5. \A i \in 1..n : (s \o t)[i] = s[i]
  <2>1. \A i \in 1..(Len(s) + Len(t)) : (s \o t)[i] = IF i <= Len(s) THEN s[i] ELSE t[i - Len(s)]
    BY ConcatProperties
  <2> QED
    BY <1>1, <2>1
<1>6. \A i \in 1..n : Take(s \o t, n)[i] = Take(s, n)[i]
  BY <1>3, <1>4, <1>5
<1> QED
  BY <1>3, <1>4, <1>6, SeqEqual

(* The whole sequence is a prefix of it.                                   *)
LEMMA TakeAll ==
  ASSUME NEW S, NEW s \in Seq(S)
  PROVE  Take(s, Len(s)) = s
BY SubSeqFull DEF Take

(* The empty sequence is a prefix of any.                                  *)
LEMMA TakeNone ==
  ASSUME NEW s
  PROVE  Take(s, 0) = <<>>
BY SubSeqEmpty DEF Take

(* The number of chunks is enough for all rows, and every chunk begins     *)
(* before the last row.                                                    *)
LEMMA CeilDivProperties ==
  ASSUME NEW n \in Nat, NEW size \in Nat \ {0}
  PROVE  /\ CeilDiv(n, size) \in Nat
         /\ n <= CeilDiv(n, size) * size
         /\ \A c \in 1..CeilDiv(n, size) : (c - 1) * size < n /\ (c - 1) * size \in Nat
<1> DEFINE k == CeilDiv(n, size)
           r == (n + size - 1) % size
<1>1. k = (n + size - 1) \div size
  BY DEF CeilDiv
<1>2. k \in Nat /\ r \in 0..(size - 1) /\ n + size - 1 = k * size + r
  BY <1>1
<1> HIDE DEF k, r
<1>3. n <= k * size
  <2>1. k * size \in Int
    BY <1>2
  <2> QED
    BY <1>2, <2>1
<1>4. ASSUME NEW c \in 1..k PROVE (c - 1) * size < n /\ (c - 1) * size \in Nat
  <2>1. c - 1 \in Nat /\ c \in Int /\ k - c \in Nat
    BY <1>2
  <2>2. (c - 1) * size \in Nat
    BY <2>1
  <2>3. (k - c) * size \in Nat
    BY <2>1
  <2>4. k * size = (k - c) * size + ((c - 1) * size + size)
    BY <1>2, <2>1
  <2>5. k * size \in Int
    BY <1>2
  <2> QED
    BY <1>2, <2>2, <2>3, <2>4, <2>5
<1> QED
  BY <1>2, <1>3, <1>4 DEF k

\* What the chunks up to c hold.
(* The rows of the first c chunks.                                         *)
UpTo(s, c, size) == Take(s, Least(c * size, Len(s)))

(* The chunks are not empty, and each continues the rows of the chunks     *)
(* before it, from none to all.                                            *)
ChunksSplit(S, s, size, chunks, k) ==
  /\ k \in Nat /\ chunks \in Seq(Seq(S)) /\ Len(chunks) = k
  /\ \A c \in 1..k : /\ chunks[c] \in Seq(S) /\ Len(chunks[c]) > 0
                     /\ UpTo(s, c - 1, size) \in Seq(S) /\ UpTo(s, c, size) \in Seq(S)
                     /\ UpTo(s, c, size) = UpTo(s, c - 1, size) \o chunks[c]
                     /\ Len(UpTo(s, c, size)) <= Len(s)
  /\ UpTo(s, 0, size) = <<>> /\ UpTo(s, k, size) = s

(* ChunksOf cuts a sequence this way, whatever its length and the chunk    *)
(* size.                                                                   *)
LEMMA ChunkProperties ==
  ASSUME NEW S, NEW s \in Seq(S), NEW size \in Nat \ {0}
  PROVE  ChunksSplit(S, s, size, ChunksOf(s, size), CeilDiv(Len(s), size))
<1> DEFINE n == Len(s)
           k == CeilDiv(n, size)
           chunks == ChunksOf(s, size)
<1>1. n \in Nat
  BY LenProperties
<1>2. k \in Nat /\ n <= k * size /\ \A c \in 1..k : (c - 1) * size < n /\ (c - 1) * size \in Nat
  BY <1>1, CeilDivProperties
<1>3. \A c \in 1..k : chunks[c] = SubSeq(s, (c - 1) * size + 1, Least(c * size, n))
  BY DEF ChunksOf
<1>4. ASSUME NEW c \in 1..k
      PROVE  /\ chunks[c] \in Seq(S) /\ Len(chunks[c]) > 0
             /\ UpTo(s, c - 1, size) \in Seq(S) /\ UpTo(s, c, size) \in Seq(S)
             /\ UpTo(s, c, size) = UpTo(s, c - 1, size) \o chunks[c]
             /\ Len(UpTo(s, c, size)) <= Len(s)
  <2> DEFINE a == (c - 1) * size
             b == Least(c * size, n)
  <2>1. a \in Nat /\ a < n
    BY <1>2
  <2>2. c * size = a + size
    <3>1. c \in Nat
      BY <1>2
    <3> QED
      BY <3>1
  <2>3. b \in Nat /\ a < b /\ b <= n
    BY <1>1, <2>1, <2>2 DEF Least
  <2>4. Least(a, n) = a
    BY <2>1 DEF Least
  <2>5. chunks[c] = SubSeq(s, a + 1, b)
    BY <1>3
  <2>6. UpTo(s, c - 1, size) = Take(s, a) /\ UpTo(s, c, size) = Take(s, b)
    BY <2>4 DEF UpTo
  <2> HIDE DEF a, b, k, chunks
  <2>7. /\ Take(s, a) \in Seq(S) /\ Take(s, b) \in Seq(S) /\ Len(Take(s, b)) = b
    <3>1. a \in 0..Len(s) /\ b \in 0..Len(s)
      BY <1>1, <2>1, <2>3
    <3> QED
      BY <3>1, TakeProperties
  <2>8. SubSeq(s, 1, a) \o SubSeq(s, a + 1, b) = SubSeq(s, 1, b)
    <3>1. 1 \in 1..(Len(s) + 1) /\ a \in (1 - 1)..Len(s) /\ b \in a..Len(s)
      BY <1>1, <2>1, <2>3
    <3> QED
      BY <3>1, ConcatAdjacentSubSeq
  <2>9. SubSeq(s, a + 1, b) \in Seq(S) /\ Len(SubSeq(s, a + 1, b)) > 0
    <3>1. a + 1 \in Int /\ b \in Int /\ a + 1 <= b
      BY <2>1, <2>3
    <3>2. \A i \in (a + 1)..b : s[i] \in S
      <4>1. s \in [1..n -> S]
        BY LenProperties
      <4> QED
        BY <1>1, <2>1, <2>3, <4>1
    <3>3. SubSeq(s, a + 1, b) \in Seq(S)
          /\ Len(SubSeq(s, a + 1, b)) = IF a + 1 <= b THEN b - (a + 1) + 1 ELSE 0
      BY <3>1, <3>2, SubSeqProperties
    <3>4. Len(SubSeq(s, a + 1, b)) = b - (a + 1) + 1
      BY <3>1, <3>3
    <3> QED
      BY <2>1, <2>3, <3>3, <3>4
  <2>10. UpTo(s, c, size) = UpTo(s, c - 1, size) \o chunks[c]
    BY <2>5, <2>6, <2>8 DEF Take
  <2>11. Len(UpTo(s, c, size)) <= Len(s)
    BY <2>3, <2>6, <2>7
  <2> QED
    BY <2>5, <2>6, <2>7, <2>9, <2>10, <2>11
<1>5. chunks \in Seq(Seq(S)) /\ Len(chunks) = k
  <2>1. chunks = [c \in 1..k |-> SubSeq(s, (c - 1) * size + 1, Least(c * size, n))]
    BY DEF ChunksOf
  <2>2. \A c \in 1..k : chunks[c] \in Seq(S)
    BY <1>4
  <2>3. chunks \in [1..k -> Seq(S)]
    <3> DEFINE e(c) == SubSeq(s, (c - 1) * size + 1, Least(c * size, n))
    <3>1. chunks = [c \in 1..k |-> e(c)]
      BY <2>1
    <3> HIDE DEF e, chunks
    <3> QED
      BY <2>2, <3>1
  <2> HIDE DEF chunks, k
  <2>4. chunks \in Seq(Seq(S))
    BY <1>2, <2>3, SeqDef
  <2> QED
    BY <1>2, <2>3, <2>4, LenProperties
<1>6. UpTo(s, 0, size) = <<>>
  <2>1. Least(0 * size, n) = 0
    BY <1>1 DEF Least
  <2> QED
    BY <2>1, TakeNone DEF UpTo
<1>7. UpTo(s, k, size) = s
  <2>1. Least(k * size, n) = n
    <3>1. k * size \in Nat
      BY <1>2
    <3> HIDE DEF k, n
    <3> QED
      BY <1>1, <1>2, <3>1 DEF Least
  <2> QED
    BY <2>1, TakeAll DEF UpTo
<1> QED
  BY <1>2, <1>4, <1>5, <1>6, <1>7 DEF ChunksSplit

-----------------------------------------------------------------------------
(* The moment update.                                                      *)

(* The moments are those of these patches.                                 *)
Counted(moments, patches) ==
  /\ moments.count = Len(patches)
  /\ patches # <<>> => moments = Moments(patches)

LEMMA PatchesAssociate ==
  \A a, b, c \in Seq(Points) : (a \o b) \o c = a \o (b \o c)
  BY ConcatAssociative

(* An update of the statistics, chunk by chunk on either device, makes the *)
(* moments those of all patches accepted and the new ones.                 *)
LEMMA UpdatedExact ==
  ASSUME accepted \in Seq(Points), Counted(stats, accepted), gpu \in BOOLEAN,
         NEW p \in Seq(Points), Len(accepted) + Len(p) <= MaxPatches
  PROVE  Counted(Updated(p), accepted \o p)
<1> DEFINE size == RowsPerUpdate
           chunks == ChunksOf(p, size)
           k == Len(chunks)
           all(c) == accepted \o UpTo(p, c, size)
<1>1. size \in Nat \ {0}
  BY PatchCoreFitAssumption DEF RowsPerUpdate
<1>2. /\ k \in Nat
      /\ \A c \in 1..k : /\ chunks[c] \in Seq(Points) /\ Len(chunks[c]) > 0
                         /\ UpTo(p, c - 1, size) \in Seq(Points) /\ UpTo(p, c, size) \in Seq(Points)
                         /\ UpTo(p, c, size) = UpTo(p, c - 1, size) \o chunks[c]
                         /\ Len(UpTo(p, c, size)) <= Len(p)
      /\ UpTo(p, 0, size) = <<>> /\ UpTo(p, k, size) = p
  <2> DEFINE j == CeilDiv(Len(p), size)
  <2> HIDE DEF size
  <2>1. ChunksSplit(Points, p, size, chunks, j)
    BY <1>1, ChunkProperties
  <2> HIDE DEF j, chunks
  <2> QED
    BY <2>1 DEF ChunksSplit
<1> DEFINE f == [c \in 0..k |-> IF c = 0 THEN stats ELSE Moments(all(c))]
<1> HIDE DEF size, chunks, k
<1>3. ASSUME NEW c \in 1..k
      PROVE  Merge(f[c - 1], Moments(chunks[c])) = Moments(all(c))
  <2> DEFINE before == UpTo(p, c - 1, size)
             piece == chunks[c]
             old == accepted \o before
  <2>1. /\ before \in Seq(Points) /\ piece \in Seq(Points)
        /\ UpTo(p, c, size) = before \o piece /\ Len(piece) > 0
        /\ Len(UpTo(p, c, size)) <= Len(p)
    BY <1>2
  <2>2. old \in Seq(Points) /\ Len(old) = Len(accepted) + Len(before)
    BY <2>1, ConcatProperties
  <2>3. all(c) = old \o piece
    <3>1. all(c) = accepted \o (before \o piece)
      BY <2>1
    <3>2. before \in Seq(Points) /\ piece \in Seq(Points) /\ accepted \in Seq(Points)
      BY <2>1
    <3> HIDE DEF before, piece, all
    <3>3. (accepted \o before) \o piece = accepted \o (before \o piece)
      BY <3>2, PatchesAssociate
    <3> QED
      BY <3>1, <3>3
  <2>4. Len(old) + Len(piece) <= MaxPatches
    <3>1. Len(UpTo(p, c, size)) = Len(before) + Len(piece)
      BY <2>1, ConcatProperties
    <3> QED
      <4>1. Len(before) \in Nat /\ Len(piece) \in Nat /\ Len(accepted) \in Nat /\ Len(p) \in Nat
        BY <2>1, LenProperties
      <4>2. Len(before) + Len(piece) <= Len(p)
        BY <2>1, <3>1
      <4> HIDE DEF before, piece, old
      <4>3. Len(old) = Len(accepted) + Len(before)
        BY <2>2
      <4> QED
        BY <4>1, <4>2, <4>3, PatchTypes
  <2>5. Len(old) \in Nat /\ Len(piece) \in Nat /\ Len(accepted) \in Nat
    BY <2>1, <2>2, LenProperties
  <2>6. CASE Len(old) = 0
    <3>1. old = <<>>
      BY <2>2, <2>6, EmptySeq
    <3>2. Len(accepted) = 0 /\ Len(before) = 0
      BY <2>1, <2>2, <2>6, LenProperties
    <3>3. c = 1
      <4> SUFFICES ASSUME c # 1 PROVE FALSE
        OBVIOUS
      <4>1. c - 1 \in 1..k
        BY <1>2
      <4>2. /\ chunks[c - 1] \in Seq(Points) /\ Len(chunks[c - 1]) > 0
            /\ UpTo(p, (c - 1) - 1, size) \in Seq(Points)
            /\ before = UpTo(p, (c - 1) - 1, size) \o chunks[c - 1]
        BY <1>2, <4>1
      <4> DEFINE last == chunks[c - 1]
                 first == UpTo(p, (c - 1) - 1, size)
      <4>3. /\ first \in Seq(Points) /\ last \in Seq(Points) /\ Len(last) > 0
            /\ before = first \o last
        BY <4>2
      <4>4. /\ first \in Seq(Points) /\ last \in Seq(Points) /\ Len(last) > 0
            /\ Len(before) = Len(first) + Len(last)
        <5> HIDE DEF first, last, before
        <5>1. Len(first \o last) = Len(first) + Len(last)
          BY <4>3, ConcatProperties
        <5> QED
          BY <4>3, <5>1
      <4>5. Len(before) = 0
        BY <3>2
      <4> HIDE DEF before, first, last
      <4>6. Len(first) \in Nat /\ Len(last) \in Nat
        BY <4>4, LenProperties
      <4> DEFINE x == Len(first)
                 y == Len(last)
      <4>7. x \in Nat /\ y \in Nat /\ y > 0 /\ x + y = 0
        BY <4>4, <4>5, <4>6
      <4> HIDE DEF x, y
      <4> QED
        BY <4>7
    <3>4. f[c - 1] = stats
      BY <1>2, <3>3
    <3>5. stats.count = 0
      BY <3>2 DEF Counted
    <3>6. Merge(stats, Moments(piece)) = Moments(piece)
      BY <3>5 DEF Merge
    <3>7. all(c) = piece
      BY <2>1, <2>3, <3>1, ConcatEmptySeq
    <3> QED
      BY <3>4, <3>6, <3>7
  <2>7. CASE Len(old) # 0
    <3>1. f[c - 1] = Moments(old)
      <4>1. CASE c = 1
        <5>1. before = <<>>
          BY <1>2, <4>1
        <5>2. old = accepted
          BY <5>1, ConcatEmptySeq
        <5>3. accepted # <<>>
          BY <2>7, <5>2, EmptySeq
        <5>4. c - 1 = 0 /\ f[0] = stats
          BY <1>2, <4>1
        <5>5. stats = Moments(accepted)
          BY <5>3 DEF Counted
        <5> HIDE DEF f, old
        <5> QED
          BY <5>2, <5>4, <5>5
      <4>2. CASE c # 1
        <5>1. c - 1 \in 0..k /\ c - 1 # 0
          BY <1>2, <4>2
        <5> QED
          BY <5>1
      <4> QED
        BY <4>1, <4>2
    <3>2. Merge(Moments(old), Moments(piece)) = Moments(old \o piece)
      <4>1. old \in Seq(Int) /\ piece \in Seq(Int) /\ Len(old) > 0
        BY <2>1, <2>2, <2>5, <2>7, PatchTypes
      <4> HIDE DEF old, piece
      <4> QED
        BY <2>1, <2>4, <4>1, MergeMoments
    <3> QED
      BY <2>3, <3>1, <3>2
  <2> QED
    BY <2>6, <2>7
<1> DEFINE h == CHOOSE g : g = [c \in 0..k |-> IF c = 0 THEN stats
                                              ELSE Merge(g[c - 1], Moments(chunks[c]))]
<1>4. f = [c \in 0..k |-> IF c = 0 THEN stats ELSE Merge(f[c - 1], Moments(chunks[c]))]
  <2>1. ASSUME NEW c \in 0..k
        PROVE  f[c] = IF c = 0 THEN stats ELSE Merge(f[c - 1], Moments(chunks[c]))
    <3>1. CASE c = 0
      BY <3>1
    <3>2. CASE c # 0
      <4>1. c \in 1..k
        BY <1>2, <3>2
      <4>2. f[c] = Moments(all(c))
        BY <3>2
      <4> QED
        BY <1>3, <3>2, <4>1, <4>2
    <3> QED
      BY <3>1, <3>2
  <2> DEFINE e(c) == IF c = 0 THEN stats ELSE Merge(f[c - 1], Moments(chunks[c]))
             m(c) == IF c = 0 THEN stats ELSE Moments(all(c))
  <2>2. f = [c \in 0..k |-> m(c)]
    OBVIOUS
  <2>3. \A c \in 0..k : f[c] = e(c)
    BY <2>1
  <2> HIDE DEF f, m, e
  <2>4. f = [c \in 0..k |-> e(c)]
    BY <2>2, <2>3
  <2> QED
    BY <2>4 DEF e
<1>5. Updated(p) = h[k]
  BY DEF Updated, k, chunks, size
<1>6. h = [c \in 0..k |-> IF c = 0 THEN stats ELSE Merge(h[c - 1], Moments(chunks[c]))]
  <2> HIDE DEF f
  <2> QED
    BY <1>4
<1> HIDE DEF h
<1> DEFINE T == {c \in Nat : c <= k => h[c] = f[c]}
<1>7. \A c \in Nat : c \in T
  <2>1. 0 \in T
    BY <1>2, <1>6
  <2>2. ASSUME NEW c \in Nat, c \in T PROVE c + 1 \in T
    <3> SUFFICES ASSUME c + 1 <= k PROVE h[c + 1] = f[c + 1]
      OBVIOUS
    <3>1. h[c] = f[c] /\ c + 1 \in 1..k /\ c + 1 \in 0..k /\ (c + 1) - 1 = c /\ c + 1 # 0
      BY <1>2, <2>2
    <3>2. h[c + 1] = Merge(h[c], Moments(chunks[c + 1]))
      BY <1>6, <3>1
    <3>3. Merge(f[c], Moments(chunks[c + 1])) = Moments(all(c + 1))
      <4> HIDE DEF f
      <4> QED
        BY <1>3, <3>1
    <3>4. f[c + 1] = Moments(all(c + 1))
      BY <3>1
    <3> HIDE DEF f
    <3> QED
      BY <3>1, <3>2, <3>3, <3>4
  <2> HIDE DEF T
  <2> QED
    BY <2>1, <2>2, SetInduction
<1>8. Updated(p) = f[k]
  <2>1. k \in T
    BY <1>2, <1>7
  <2>2. h[k] = f[k]
    BY <1>2, <2>1
  <2> QED
    BY <1>5, <2>2
<1>9. CASE k = 0
  <2>1. p = <<>>
    BY <1>2, <1>9
  <2>2. accepted \o p = accepted
    BY <2>1, ConcatEmptySeq
  <2> QED
    BY <1>8, <1>9, <2>2
<1>10. CASE k # 0
  <2>1. Updated(p) = Moments(accepted \o p)
    BY <1>2, <1>8, <1>10
  <2>2. Moments(accepted \o p).count = Len(accepted \o p)
    BY DEF Moments
  <2> QED
    BY <2>1, <2>2 DEF Counted
<1> QED
  BY <1>9, <1>10

-----------------------------------------------------------------------------
(* The spool.                                                              *)

(* A write at a position, then a read up to the end of what was written.   *)
Continued(data, at, new) ==
  Take(Overwrite(data, at, new), at + Len(new)) = Take(data, at) \o new

(* Writing to the spool at the committed prefix keeps that prefix and      *)
(* continues it with the new patches, whatever a failed append had left    *)
(* behind it.                                                              *)
LEMMA OverwriteProperties ==
  ASSUME NEW S, NEW data \in Seq(S), NEW at \in 0..Len(data), NEW new \in Seq(S)
  PROVE  /\ Overwrite(data, at, new) \in Seq(S)
         /\ at + Len(new) \in 0..Len(Overwrite(data, at, new))
         /\ Take(Overwrite(data, at, new), at) = Take(data, at)
         /\ Continued(data, at, new)
<1> DEFINE head == Take(data, at)
           rest == SubSeq(data, at + Len(new) + 1, Len(data))
           both == head \o new
<1>1. Len(data) \in Nat /\ Len(new) \in Nat /\ at \in Nat
  BY LenProperties
<1>2. head \in Seq(S) /\ Len(head) = at
  BY TakeProperties
<1>3. rest \in Seq(S)
  <2>1. \A i \in (at + Len(new) + 1)..Len(data) : data[i] \in S
    <3>1. data \in [1..Len(data) -> S]
      BY LenProperties
    <3> QED
      BY <1>1, <3>1
  <2>2. at + Len(new) + 1 \in Int /\ Len(data) \in Int
    BY <1>1
  <2> QED
    BY <2>1, <2>2, SubSeqProperties
<1> HIDE DEF head, rest
<1>4. both \in Seq(S) /\ Len(both) = at + Len(new)
  BY <1>2, ConcatProperties
<1> HIDE DEF both
<1>5. Overwrite(data, at, new) = both \o rest
  BY DEF Overwrite, both, head, rest
<1>6. both \o rest \in Seq(S) /\ Len(both \o rest) = Len(both) + Len(rest) /\ Len(rest) \in Nat
  BY <1>3, <1>4, ConcatProperties, LenProperties
<1>7. at + Len(new) \in 0..Len(both \o rest)
  BY <1>1, <1>4, <1>6
<1>8. Take(both \o rest, at + Len(new)) = both
  <2>1. at + Len(new) \in 0..Len(both)
    BY <1>1, <1>4
  <2>2. Take(both \o rest, at + Len(new)) = Take(both, at + Len(new))
    BY <1>3, <1>4, <2>1, TakeOfConcat
  <2> QED
    BY <1>4, <2>2, TakeAll
<1>9. Take(both \o rest, at) = head
  <2>1. at \in 0..Len(both) /\ at \in 0..Len(head)
    BY <1>1, <1>2, <1>4
  <2>2. Take(both \o rest, at) = Take(both, at)
    BY <1>3, <1>4, <2>1, TakeOfConcat
  <2>3. Take(both, at) = Take(head, at)
    BY <1>2, <2>1, TakeOfConcat DEF both
  <2> QED
    BY <1>2, <2>2, <2>3, TakeAll
<1> QED
  BY <1>5, <1>6, <1>7, <1>8, <1>9 DEF both, head, Continued

-----------------------------------------------------------------------------
(* The fit and the checkpoint.                                             *)

(* The values the variables have.                                          *)
PatchCoreTypes ==
  /\ variant \in Variants /\ gpu \in BOOLEAN
  /\ accepted \in Seq(Points) /\ Len(accepted) <= MaxPatches
  /\ spool \in [open : BOOLEAN, data : Seq(Points)]

(* What each variant keeps is what the adds that succeeded brought: for    *)
(* the spool, its committed prefix.                                        *)
FitHeld ==
  /\ variant = "original" => features = accepted
  /\ variant # "original" => Counted(stats, accepted)
  /\ variant = "mahalanobis" => /\ stats.count <= Len(spool.data)
                                /\ Take(spool.data, stats.count) = accepted

(* A whole checkpoint holds what its writer had accepted.                  *)
CheckpointHeld ==
  checkpoint.state = "whole" =>
    /\ checkpoint.variant \in Variants
    /\ checkpoint.accepted \in Seq(Points) /\ Len(checkpoint.accepted) <= MaxPatches
    /\ Exact(checkpoint.variant, checkpoint.patches, checkpoint.stats, checkpoint.accepted)

(* The inductive invariant of the fit.                                     *)
FInv == PatchCoreTypes /\ FitHeld /\ CheckpointHeld

(* A fit without patches has the statistics of none.                       *)
LEMMA CountedEmpty ==
  Counted(NoStats, <<>>) /\ <<>> \in Seq(Points) /\ Len(<<>>) = 0
BY EmptySeq DEF Counted, NoStats

(* A fit that has just been made or cleared.                               *)
LEMMA EmptiedHeld ==
  ASSUME features = <<>>, stats = NoStats, spool = ClosedSpool, accepted = <<>>,
         variant \in Variants, gpu \in BOOLEAN
  PROVE  PatchCoreTypes /\ FitHeld
<1>1. Counted(NoStats, <<>>) /\ <<>> \in Seq(Points) /\ Len(<<>>) = 0
  BY CountedEmpty
<1>2. PatchCoreTypes
  BY <1>1, PatchTypes DEF PatchCoreTypes, ClosedSpool
<1>3. Take(<<>>, 0) = <<>>
  BY TakeNone
<1> QED
  BY <1>1, <1>2, <1>3 DEF FitHeld, ClosedSpool, NoStats

(* The invariant holds at the start.                                       *)
LEMMA InitFInv ==
  InitPatchCore => FInv
<1> SUFFICES ASSUME InitPatchCore PROVE FInv
  OBVIOUS
<1>1. PatchCoreTypes /\ FitHeld
  BY EmptiedHeld DEF InitPatchCore
<1>2. CheckpointHeld
  BY DEF InitPatchCore, CheckpointHeld, NoFile
<1> QED
  BY <1>1, <1>2 DEF FInv

(* A step that leaves the file alone keeps what is known of it.            *)
LEMMA CheckpointKept ==
  ASSUME CheckpointHeld, UNCHANGED checkpoint
  PROVE  CheckpointHeld'
BY DEF CheckpointHeld, Exact

(* PatchCorePipeline::addFeatures of the original variant, and the import  *)
(* of a bank, keep the invariant.                                          *)
LEMMA AddOriginalFInv ==
  ASSUME FInv, NEW p \in Seq(Points), AddOriginal(p)
  PROVE  FInv'
<1>1. PatchCoreTypes /\ FitHeld /\ CheckpointHeld
  BY DEF FInv
<1>2. /\ variant = "original" /\ features' = features \o p /\ accepted' = accepted \o p
      /\ Len(accepted) + Len(p) <= MaxPatches
      /\ UNCHANGED <<variant, gpu, stats, spool, checkpoint>>
  BY DEF AddOriginal, Room
<1>3. accepted \o p \in Seq(Points) /\ Len(accepted \o p) = Len(accepted) + Len(p)
  BY <1>1, ConcatProperties DEF PatchCoreTypes
<1>4. PatchCoreTypes'
  BY <1>1, <1>2, <1>3 DEF PatchCoreTypes
<1>5. FitHeld'
  BY <1>1, <1>2 DEF FitHeld
<1> QED
  BY <1>1, <1>2, <1>4, <1>5, CheckpointKept DEF FInv

(* PatchCoreStatisticalFit::add keeps the invariant, also when an append   *)
(* to the spool fails after any number of patches.                         *)
LEMMA AddStatisticalFInv ==
  ASSUME FInv, NEW p \in Seq(Points), AddStatistical(p)
  PROVE  FInv'
<1> DEFINE at == stats.count
           n == Len(accepted)
<1>1. PatchCoreTypes /\ FitHeld /\ CheckpointHeld
  BY DEF FInv
<1>2. /\ variant # "original" /\ Len(accepted) + Len(p) <= MaxPatches
      /\ UNCHANGED <<variant, gpu, features, checkpoint>>
  BY DEF AddStatistical, AddStatisticalAt, Room
<1>3. accepted \in Seq(Points) /\ n \in Nat /\ Len(p) \in Nat /\ Counted(stats, accepted) /\ at = n
  BY <1>1, <1>2, LenProperties DEF PatchCoreTypes, FitHeld, Counted
<1>4. accepted \o p \in Seq(Points) /\ Len(accepted \o p) = n + Len(p)
  BY <1>3, ConcatProperties
<1>5. ASSUME variant = "mahalanobis"
      PROVE  /\ spool.data \in Seq(Points) /\ at \in 0..Len(spool.data)
             /\ Take(spool.data, at) = accepted
  BY <1>1, <1>3, <1>5, LenProperties DEF PatchCoreTypes, FitHeld
<1>6. CASE /\ stats' = Updated(p) /\ accepted' = accepted \o p
           /\ spool' = IF variant # "mahalanobis" THEN spool
                       ELSE [open |-> TRUE, data |-> Overwrite(spool.data, at, p)]
  <2>1. Counted(Updated(p), accepted \o p)
    BY <1>1, <1>2, <1>3, UpdatedExact DEF PatchCoreTypes
  <2>2. Counted(stats', accepted')
    BY <1>6, <2>1
  <2>3. CASE variant # "mahalanobis"
    <3>1. PatchCoreTypes'
      BY <1>1, <1>2, <1>4, <1>6, <2>3 DEF PatchCoreTypes
    <3>2. FitHeld'
      BY <1>2, <2>2, <2>3 DEF FitHeld, Counted
    <3> QED
      BY <1>1, <1>2, <3>1, <3>2, CheckpointKept DEF FInv
  <2>4. CASE variant = "mahalanobis"
    <3> DEFINE new == Overwrite(spool.data, at, p)
    <3>1. /\ new \in Seq(Points) /\ at + Len(p) \in 0..Len(new)
          /\ Take(new, at + Len(p)) = accepted \o p
      <4> DEFINE data == spool.data
      <4>1. data \in Seq(Points) /\ at \in 0..Len(data) /\ Take(data, at) = accepted
        BY <1>5, <2>4
      <4> HIDE DEF at, data
      <4>2. /\ Overwrite(data, at, p) \in Seq(Points)
            /\ at + Len(p) \in 0..Len(Overwrite(data, at, p))
        BY <4>1, OverwriteProperties
      <4>3. Continued(data, at, p)
        BY <4>1, OverwriteProperties
      <4> QED
        BY <4>1, <4>2, <4>3 DEF data, Continued
    <3>2. spool' = [open |-> TRUE, data |-> new]
      BY <1>6, <2>4
    <3>3. stats'.count = at + Len(p)
      BY <1>3, <1>4, <2>1, <1>6 DEF Counted
    <3> HIDE DEF new
    <3>4. PatchCoreTypes'
      BY <1>1, <1>2, <1>4, <1>6, <3>1, <3>2 DEF PatchCoreTypes
    <3>5. FitHeld'
      <4>1. spool'.data = new /\ stats'.count <= Len(new)
        BY <3>1, <3>2, <3>3
      <4>2. Take(new, stats'.count) = accepted'
        BY <1>6, <3>1, <3>3
      <4> QED
        BY <1>2, <2>2, <2>4, <4>1, <4>2 DEF FitHeld, Counted
    <3> QED
      BY <1>1, <1>2, <3>4, <3>5, CheckpointKept DEF FInv
  <2> QED
    BY <2>3, <2>4
<1>7. CASE /\ variant = "mahalanobis"
           /\ \E i \in 0..Len(p) :
                spool' = [open |-> TRUE, data |-> Overwrite(spool.data, at, Take(p, i))]
           /\ UNCHANGED <<stats, accepted>>
  <2>1. PICK i \in 0..Len(p) :
          spool' = [open |-> TRUE, data |-> Overwrite(spool.data, at, Take(p, i))]
    BY <1>7
  <2> DEFINE part == Take(p, i)
             new == Overwrite(spool.data, at, part)
  <2>2. part \in Seq(Points) /\ Len(part) \in Nat
    BY TakeProperties, LenProperties
  <2>3. /\ new \in Seq(Points) /\ at + Len(part) \in 0..Len(new)
        /\ Take(new, at) = accepted
    <3> DEFINE data == spool.data
    <3>1. data \in Seq(Points) /\ at \in 0..Len(data) /\ Take(data, at) = accepted
      BY <1>5, <1>7
    <3> HIDE DEF at, part, data
    <3>2. /\ Overwrite(data, at, part) \in Seq(Points)
          /\ at + Len(part) \in 0..Len(Overwrite(data, at, part))
          /\ Take(Overwrite(data, at, part), at) = Take(data, at)
      BY <2>2, <3>1, OverwriteProperties
    <3> QED
      BY <3>1, <3>2 DEF data
  <2>4. spool' = [open |-> TRUE, data |-> new]
    BY <2>1
  <2> HIDE DEF part, new
  <2>5. PatchCoreTypes'
    BY <1>1, <1>2, <1>7, <2>3, <2>4 DEF PatchCoreTypes
  <2>6. stats.count <= Len(new)
    BY <1>3, <2>2, <2>3, LenProperties
  <2>7. FitHeld'
    BY <1>1, <1>2, <1>7, <2>3, <2>4, <2>6 DEF FitHeld, Counted
  <2> QED
    BY <1>1, <1>2, <2>5, <2>7, CheckpointKept DEF FInv
<1> QED
  BY <1>6, <1>7 DEF AddStatistical, AddStatisticalAt

(* saveCheckpoint keeps the invariant: the patches it writes are the       *)
(* committed prefix only.                                                  *)
LEMMA SaveCheckpointFInv ==
  ASSUME FInv, SaveCheckpoint
  PROVE  FInv'
<1> DEFINE patches == IF variant = "mahalanobis" THEN Take(spool.data, stats.count) ELSE features
<1>1. PatchCoreTypes /\ FitHeld /\ CheckpointHeld
  BY DEF FInv
<1>2. UNCHANGED <<variant, gpu, features, stats, spool, accepted>>
  BY DEF SaveCheckpoint, SaveCheckpointOf, fit
<1>3. PatchCoreTypes' /\ FitHeld'
  BY <1>1, <1>2 DEF PatchCoreTypes, FitHeld, Counted
<1>4. \/ checkpoint' = [NoFile EXCEPT !.state = "torn"]
      \/ checkpoint' = [state |-> "whole", variant |-> variant, patches |-> patches,
                        stats |-> stats, accepted |-> accepted]
  BY DEF SaveCheckpoint, SaveCheckpointOf
<1>5. CASE checkpoint' = [NoFile EXCEPT !.state = "torn"]
  <2>1. checkpoint'.state = "torn"
    BY <1>5 DEF NoFile
  <2> QED
    BY <1>3, <2>1 DEF FInv, CheckpointHeld
<1>6. CASE checkpoint' = [state |-> "whole", variant |-> variant, patches |-> patches,
                          stats |-> stats, accepted |-> accepted]
  <2>1. Exact(variant, patches, stats, accepted)
    BY <1>1 DEF FitHeld, Exact, Counted
  <2> HIDE DEF patches
  <2>2. /\ checkpoint'.variant = variant /\ checkpoint'.patches = patches
        /\ checkpoint'.stats = stats /\ checkpoint'.accepted = accepted
    BY <1>6
  <2>3. Exact(variant, patches, stats, accepted)
           = Exact(checkpoint'.variant, checkpoint'.patches, checkpoint'.stats, checkpoint'.accepted)
    BY <2>2
  <2>4. CheckpointHeld'
    BY <1>1, <2>1, <2>2 DEF CheckpointHeld, PatchCoreTypes, Exact
  <2> QED
    BY <1>3, <2>4 DEF FInv
<1> QED
  BY <1>4, <1>5, <1>6

(* loadCheckpoint keeps the invariant: what it restores is what the file's *)
(* writer had accepted.                                                    *)
LEMMA LoadCheckpointFInv ==
  ASSUME FInv, LoadCheckpoint
  PROVE  FInv'
<1>1. PatchCoreTypes /\ FitHeld /\ CheckpointHeld
  BY DEF FInv
<1>2. /\ checkpoint.state = "whole" /\ checkpoint.variant = variant
      /\ variant = "mahalanobis" => Len(checkpoint.patches) = checkpoint.stats.count
      /\ features' = IF variant = "original" THEN checkpoint.patches ELSE features
      /\ stats' = checkpoint.stats
      /\ spool' = IF variant = "mahalanobis" THEN [open |-> TRUE, data |-> checkpoint.patches]
                  ELSE ClosedSpool
      /\ accepted' = checkpoint.accepted
      /\ UNCHANGED <<variant, gpu, checkpoint>>
  BY DEF LoadCheckpoint, Compatible
<1>3. /\ checkpoint.accepted \in Seq(Points) /\ Len(checkpoint.accepted) <= MaxPatches
      /\ Exact(variant, checkpoint.patches, checkpoint.stats, checkpoint.accepted)
  BY <1>1, <1>2 DEF CheckpointHeld
<1>4. variant # "original" => Counted(checkpoint.stats, checkpoint.accepted)
  BY <1>3 DEF Exact, Counted
<1>5. variant \in {"original", "mahalanobis"} => checkpoint.patches = checkpoint.accepted
  BY <1>3 DEF Exact
<1>6. PatchCoreTypes'
  <2>1. ClosedSpool \in [open : BOOLEAN, data : Seq(Points)]
    BY CountedEmpty DEF ClosedSpool
  <2>2. spool' \in [open : BOOLEAN, data : Seq(Points)]
    BY <1>2, <1>3, <1>5, <2>1
  <2> QED
    BY <1>1, <1>2, <1>3, <2>2 DEF PatchCoreTypes
<1>7. FitHeld'
  <2>1. CASE variant = "mahalanobis"
    <3> DEFINE patches == checkpoint.patches
    <3>1. patches \in Seq(Points) /\ patches = checkpoint.accepted
      BY <1>3, <1>5, <2>1
    <3>2. spool'.data = patches /\ stats'.count = Len(patches) /\ Len(patches) \in Nat
      BY <1>2, <2>1, <3>1, LenProperties
    <3>3. Take(patches, Len(patches)) = patches
      BY <3>1, TakeAll
    <3> QED
      BY <1>2, <1>4, <2>1, <3>1, <3>2, <3>3 DEF FitHeld, Counted
  <2>2. CASE variant # "mahalanobis"
    BY <1>2, <1>4, <1>5, <2>2 DEF FitHeld, Counted
  <2> QED
    BY <2>1, <2>2
<1> QED
  BY <1>1, <1>2, <1>6, <1>7, CheckpointKept DEF FInv

(* Clearing a fit, and a restart with the checkpoint there is, keep the    *)
(* invariant.                                                              *)
LEMMA EmptiedFInv ==
  ASSUME FInv, Emptied, variant' \in Variants, gpu' \in BOOLEAN, UNCHANGED checkpoint
  PROVE  FInv'
<1>1. /\ features' = <<>> /\ stats' = NoStats /\ spool' = ClosedSpool /\ accepted' = <<>>
  BY DEF Emptied
<1>2. Counted(NoStats, <<>>) /\ <<>> \in Seq(Points) /\ Len(<<>>) = 0
  BY CountedEmpty
<1>3. PatchCoreTypes'
  BY <1>1, <1>2, PatchTypes DEF PatchCoreTypes, ClosedSpool
<1>4. Take(<<>>, 0) = <<>>
  BY TakeNone
<1>5. FitHeld'
  BY <1>1, <1>2, <1>4 DEF FitHeld, ClosedSpool, NoStats, Counted
<1>6. CheckpointHeld'
  BY CheckpointKept DEF FInv
<1> QED
  BY <1>3, <1>5, <1>6 DEF FInv

(* Every step keeps the invariant.                                         *)
LEMMA NextFInv ==
  FInv /\ [PatchCoreNext]_patchCoreVars => FInv'
<1> SUFFICES ASSUME FInv, [PatchCoreNext]_patchCoreVars PROVE FInv'
  OBVIOUS
<1>1. ASSUME NEW b \in Batches, AddOriginal(b) PROVE FInv'
  BY <1>1, AddOriginalFInv, PatchTypes
<1>2. ASSUME NEW b \in Batches, AddStatistical(b) PROVE FInv'
  BY <1>2, AddStatisticalFInv, PatchTypes
<1>3. ASSUME NEW b \in Batches, ImportBank(b) PROVE FInv'
  BY <1>3, AddOriginalFInv, PatchTypes DEF ImportBank
<1>4. CASE SaveArtifacts
  <2>1. UNCHANGED <<variant, gpu, features, stats, spool, accepted, checkpoint>>
    BY <1>4 DEF SaveArtifacts, fit
  <2> QED
    BY <2>1 DEF FInv, PatchCoreTypes, FitHeld, CheckpointHeld, Counted, Exact
<1>5. CASE SaveCheckpoint
  BY <1>5, SaveCheckpointFInv
<1>6. CASE LoadCheckpoint
  BY <1>6, LoadCheckpointFInv
<1>7. CASE Clear
  <2>1. Emptied /\ UNCHANGED <<variant, gpu, checkpoint>>
    BY <1>7 DEF Clear
  <2>2. variant' \in Variants /\ gpu' \in BOOLEAN
    BY <2>1 DEF FInv, PatchCoreTypes
  <2> QED
    BY <2>1, <2>2, EmptiedFInv
<1>8. CASE Restart
  BY <1>8, EmptiedFInv DEF Restart
<1>9. CASE UNCHANGED patchCoreVars
  <2>1. UNCHANGED <<variant, gpu, features, stats, spool, accepted, checkpoint>>
    BY <1>9 DEF patchCoreVars, fit
  <2> QED
    BY <2>1 DEF FInv, PatchCoreTypes, FitHeld, CheckpointHeld, Counted, Exact
<1> QED
  BY <1>1, <1>2, <1>3, <1>4, <1>5, <1>6, <1>7, <1>8, <1>9 DEF PatchCoreNext

(* The invariant holds in every state: a fit holds exactly the accepted    *)
(* patches, in whatever chunks and on whatever device it was updated and   *)
(* whatever appends to the spool failed; so does a whole checkpoint.       *)
THEOREM PatchCoreSafety == PatchCoreSpec => []FInv
<1> QED
  BY InitFInv, NextFInv, PTL DEF PatchCoreSpec

(* The statistics, the features and the committed prefix of the spool are  *)
(* those of the accepted patches (PatchCoreStatisticalFit::add,            *)
(* PatchCorePipeline::addFeatures).                                        *)
THEOREM FitsExact == PatchCoreSpec => []FitExact
<1>1. FInv => FitExact
  BY DEF FInv, FitHeld, FitExact, Exact, Counted
<1> QED
  BY <1>1, PatchCoreSafety, PTL

(* A whole checkpoint is accepted by the variant that wrote it, and holds  *)
(* what had been accepted when it was written (saveCheckpoint,             *)
(* loadCheckpoint).                                                        *)
THEOREM CheckpointsRestorable == PatchCoreSpec => []CheckpointRestorable
<1>1. FInv => CheckpointRestorable
  <2> SUFFICES ASSUME FInv, checkpoint.state = "whole"
               PROVE  /\ Exact(checkpoint.variant, checkpoint.patches, checkpoint.stats,
                               checkpoint.accepted)
                      /\ variant = checkpoint.variant => Compatible
    BY DEF CheckpointRestorable
  <2>1. Exact(checkpoint.variant, checkpoint.patches, checkpoint.stats, checkpoint.accepted)
    BY DEF FInv, CheckpointHeld
  <2> QED
    BY <2>1 DEF Compatible, Exact
<1> QED
  BY <1>1, PatchCoreSafety, PTL

-----------------------------------------------------------------------------
(* Least and greatest numbers, distances.                                  *)

(* Among some of the first n numbers there is a greatest.                  *)
LEMMA GreatestExists ==
  ASSUME NEW n \in Nat, NEW W, W \subseteq 1 .. n, W # {}, NEW f, \A i \in W : f[i] \in Int
  PROVE  \E m \in W : \A i \in W : f[i] <= f[m]
<1> DEFINE T == {k \in Nat : (\E i \in W : i <= k) =>
                               \E m \in W : m <= k /\ \A i \in W : i <= k => f[i] <= f[m]}
<1>1. 0 \in T
  <2>1. \A i \in W : ~(i <= 0)
    OBVIOUS
  <2> QED
    BY <2>1
<1>2. ASSUME NEW k \in Nat, k \in T PROVE k + 1 \in T
  <2> SUFFICES ASSUME NEW o \in W, o <= k + 1
               PROVE  \E m \in W : m <= k + 1 /\ \A i \in W : i <= k + 1 => f[i] <= f[m]
    OBVIOUS
  <2>1. \A i \in W : i \in Nat /\ (i <= k + 1 <=> i <= k \/ i = k + 1)
    OBVIOUS
  <2>2. CASE ~\E i \in W : i <= k
    BY <2>1, <2>2
  <2>3. CASE \E i \in W : i <= k
    <3>1. PICK m \in W : m <= k /\ \A i \in W : i <= k => f[i] <= f[m]
      BY <1>2, <2>3
    <3>2. CASE k + 1 \in W /\ f[k + 1] > f[m]
      <4>1. \A i \in W : i <= k + 1 => f[i] <= f[k + 1]
        BY <2>1, <3>1, <3>2
      <4> QED
        BY <3>2, <4>1
    <3>3. CASE ~(k + 1 \in W /\ f[k + 1] > f[m])
      <4>1. \A i \in W : i <= k + 1 => f[i] <= f[m]
        BY <2>1, <3>1, <3>3
      <4> QED
        BY <2>1, <3>1, <4>1
    <3> QED
      BY <3>2, <3>3
  <2> QED
    BY <2>2, <2>3
<1> HIDE DEF T
<1>3. n \in T
  BY <1>1, <1>2, SetInduction
<1>4. \A i \in W : i <= n
  OBVIOUS
<1> QED
  BY <1>3, <1>4 DEF T


(* Max and Min of a finite set of integers.                                *)
LEMMA FiniteExtremes ==
  ASSUME NEW S, IsFiniteSet(S), S # {}, S \subseteq Int
  PROVE  /\ Max(S) \in S /\ \A y \in S : y <= Max(S)
         /\ Min(S) \in S /\ \A y \in S : Min(S) <= y
<1> DEFINE n == Cardinality(S)
<1>1. n \in Nat /\ ExistsBijection(1..n, S)
  BY FS_CardinalityType
<1>2. PICK f \in [1..n -> S] : \A t \in S : \E i \in 1..n : f[i] = t
  BY <1>1 DEF ExistsBijection, Bijection, Surjection
<1>3. 1..n # {} /\ \A i \in 1..n : f[i] \in Int
  BY <1>2
<1> DEFINE g == [i \in 1..n |-> 0 - f[i]]
<1>4. \A i \in 1..n : g[i] \in Int
  BY <1>3
<1> HIDE DEF n, g
<1>5. PICK m \in 1..n : \A i \in 1..n : f[i] <= f[m]
  BY <1>1, <1>3, GreatestExists
<1>6. PICK l \in 1..n : \A i \in 1..n : g[i] <= g[l]
  BY <1>1, <1>3, <1>4, GreatestExists
<1>7. f[m] \in S /\ \A y \in S : f[m] >= y
  BY <1>2, <1>5
<1>8. f[l] \in S /\ \A y \in S : f[l] <= y
  <2>1. ASSUME NEW y \in S PROVE f[l] <= y
    <3>1. PICK i \in 1..n : f[i] = y
      BY <1>2
    <3>2. g[i] <= g[l] /\ g[i] = 0 - f[i] /\ g[l] = 0 - f[l]
      BY <1>6 DEF g
    <3> QED
      BY <1>3, <3>1, <3>2
  <2> QED
    BY <2>1
<1>9. Max(S) \in S /\ \A y \in S : Max(S) >= y
  BY <1>7 DEF Max
<1>10. Min(S) \in S /\ \A y \in S : Min(S) <= y
  BY <1>8 DEF Min
<1> QED
  BY <1>9, <1>10

(* The image of a finite set is finite and not larger.                     *)
LEMMA ImageFinite ==
  ASSUME NEW S, NEW T, IsFiniteSet(S), NEW f \in [S -> T], \A t \in T : \E s \in S : f[s] = t
  PROVE  IsFiniteSet(T) /\ Cardinality(T) <= Cardinality(S)
<1>1. f \in Surjection(S, T)
  BY DEF Surjection
<1> QED
  BY <1>1, FS_Surjection

(* The values of a sequence.                                               *)
LEMMA ToSetFinite ==
  ASSUME NEW S, NEW s \in Seq(S)
  PROVE  /\ IsFiniteSet(ToSet(s)) /\ ToSet(s) \subseteq S
         /\ Cardinality(ToSet(s)) \in Nat /\ Cardinality(ToSet(s)) <= Len(s)
         /\ \A i \in 1..Len(s) : s[i] \in ToSet(s)
         /\ \A x \in ToSet(s) : \E i \in 1..Len(s) : s[i] = x
<1>1. Len(s) \in Nat /\ s \in [1..Len(s) -> S] /\ DOMAIN s = 1..Len(s)
  BY LenProperties
<1>2. /\ ToSet(s) \subseteq S /\ \A i \in 1..Len(s) : s[i] \in ToSet(s)
      /\ \A x \in ToSet(s) : \E i \in 1..Len(s) : s[i] = x
  BY <1>1 DEF ToSet
<1>3. IsFiniteSet(1..Len(s)) /\ Cardinality(1..Len(s)) = Len(s)
  BY <1>1, FS_Interval
<1>4. s \in [1..Len(s) -> ToSet(s)]
  BY <1>1, <1>2
<1>5. IsFiniteSet(ToSet(s)) /\ Cardinality(ToSet(s)) <= Len(s)
  BY <1>2, <1>3, <1>4, ImageFinite
<1> QED
  BY <1>2, <1>5, FS_CardinalityType

(* Distance is a metric.                                                   *)
LEMMA DistanceProperties ==
  ASSUME NEW a \in Int, NEW b \in Int
  PROVE  /\ Distance(a, b) \in Nat /\ Distance(a, b) = Distance(b, a)
         /\ Distance(a, b) = 0 <=> a = b
         /\ \A c \in Int : Distance(a, c) <= Distance(a, b) + Distance(b, c)
BY DEF Distance

(* The distance to the closest of finitely many points is one of the       *)
(* distances, and none is less.                                            *)
LEMMA Nearest ==
  ASSUME NEW x \in Int, NEW C, C \subseteq Int, C # {}, IsFiniteSet(C)
  PROVE  /\ ToNearest(x, C) \in Nat
         /\ \E y \in C : ToNearest(x, C) = Distance(x, y)
         /\ \A y \in C : ToNearest(x, C) <= Distance(x, y)
<1> DEFINE D == {Distance(x, y) : y \in C}
           f == [y \in C |-> Distance(x, y)]
<1>1. D # {} /\ D \subseteq Int /\ D \subseteq Nat
  <2>1. \A y \in C : Distance(x, y) \in Nat
    BY DistanceProperties
  <2>2. \A d \in D : d \in Nat
    BY <2>1
  <2>3. D # {}
    OBVIOUS
  <2> HIDE DEF D
  <2> QED
    BY <2>2, <2>3
<1>2. f \in [C -> D] /\ \A t \in D : \E y \in C : f[y] = t
  OBVIOUS
<1>3. IsFiniteSet(D)
  <2> HIDE DEF f, D
  <2> QED
    BY <1>2, ImageFinite
<1>4. Min(D) \in D /\ \A d \in D : Min(D) <= d
  <2> HIDE DEF D
  <2> QED
    BY <1>1, <1>3, FiniteExtremes
<1>5. ToNearest(x, C) = Min(D)
  BY DEF ToNearest
<1> HIDE DEF f
<1> QED
  BY <1>1, <1>4, <1>5

(* With more points the closest is not farther.                            *)
LEMMA NearestOfMore ==
  ASSUME NEW x \in Int, NEW C, NEW B, C \subseteq Int, IsFiniteSet(C), B \subseteq C, B # {}
  PROVE  ToNearest(x, C) <= ToNearest(x, B)
<1>1. IsFiniteSet(B) /\ B \subseteq Int /\ C # {}
  BY FS_Subset
<1>2. PICK y \in B : ToNearest(x, B) = Distance(x, y)
  BY <1>1, Nearest
<1>3. ToNearest(x, C) <= Distance(x, y)
  BY <1>1, Nearest
<1> QED
  BY <1>2, <1>3

(* The distance to a set is zero for its members only.                     *)
LEMMA NearestZero ==
  ASSUME NEW C, C \subseteq Int, IsFiniteSet(C), NEW x \in Int
  PROVE  /\ x \in C => ToNearest(x, C) = 0
         /\ C # {} /\ ToNearest(x, C) = 0 => x \in C
<1>1. ASSUME x \in C PROVE ToNearest(x, C) = 0
  <2>1. /\ C # {} /\ Distance(x, x) = 0
    BY <1>1, DistanceProperties
  <2>2. ToNearest(x, C) \in Nat /\ ToNearest(x, C) <= Distance(x, x)
    BY <1>1, <2>1, Nearest
  <2> DEFINE d == ToNearest(x, C)
  <2>3. d \in Nat /\ d <= 0
    BY <2>1, <2>2
  <2> HIDE DEF d
  <2>4. d = 0
    BY <2>3
  <2> QED
    BY <2>4 DEF d
<1>2. ASSUME C # {}, ToNearest(x, C) = 0 PROVE x \in C
  <2>1. PICK y \in C : ToNearest(x, C) = Distance(x, y)
    BY <1>2, Nearest
  <2>2. x = y
    BY <1>2, <2>1, DistanceProperties
  <2> QED
    BY <2>2
<1> QED
  BY <1>1, <1>2

(* The radius is the distance of one of the points, and no point is        *)
(* farther.                                                                *)
LEMMA RadiusProperties ==
  ASSUME NEW S, S \subseteq Int, S # {}, IsFiniteSet(S),
         NEW C, C \subseteq Int, C # {}, IsFiniteSet(C)
  PROVE  /\ Radius(S, C) \in Nat
         /\ \E x \in S : Radius(S, C) = ToNearest(x, C)
         /\ \A x \in S : ToNearest(x, C) <= Radius(S, C)
<1> DEFINE D == {ToNearest(x, C) : x \in S}
           f == [x \in S |-> ToNearest(x, C)]
<1>1. D # {} /\ D \subseteq Int /\ D \subseteq Nat
  <2>1. \A x \in S : ToNearest(x, C) \in Nat
    BY Nearest
  <2>2. \A d \in D : d \in Nat
    BY <2>1
  <2>3. D # {}
    OBVIOUS
  <2> HIDE DEF D
  <2> QED
    BY <2>2, <2>3
<1>2. f \in [S -> D] /\ \A t \in D : \E x \in S : f[x] = t
  OBVIOUS
<1>3. IsFiniteSet(D)
  <2> HIDE DEF f, D
  <2> QED
    BY <1>2, ImageFinite
<1>4. Max(D) \in D /\ \A d \in D : d <= Max(D)
  <2> HIDE DEF D
  <2> QED
    BY <1>1, <1>3, FiniteExtremes
<1>5. Radius(S, C) = Max(D)
  BY DEF Radius
<1> HIDE DEF f
<1> QED
  BY <1>1, <1>4, <1>5

-----------------------------------------------------------------------------
(* What a selection by farthest-first gives.                               *)

(* What farthest-first selection makes of the data: every row left out is  *)
(* at most as far from the bank as any two rows of the bank are from each  *)
(* other.                                                                  *)
Selection(data, bank) ==
  /\ bank \in Seq(Int) /\ Len(bank) > 0
  /\ ToSet(bank) \subseteq ToSet(data)
  /\ \A x \in ToSet(data) \ ToSet(bank) : \A i, j \in 1..Len(bank) :
       i # j => ToNearest(x, ToSet(bank)) <= Distance(bank[i], bank[j])

(* No patch occurs more often in the bank than in the data.                *)
NoMoreOften(bank, data) == \A p : Bagged(bank, p) <= Bagged(data, p)

(* Every point of S is within rho of C.                                    *)
Covers(S, C, rho) == \A x \in S : ToNearest(x, C) <= rho

(* All rows together are a selection: nothing is left out.                 *)
LEMMA WholeSelection ==
  ASSUME NEW data \in Seq(Int), data # <<>>
  PROVE  Selection(data, data) /\ NoMoreOften(data, data)
<1>1. Len(data) \in Nat \ {0} /\ DOMAIN data = 1..Len(data)
  BY EmptySeq, LenProperties
<1>2. \A p : Bagged(data, p) \in Nat
  <2> SUFFICES ASSUME NEW p PROVE Bagged(data, p) \in Nat
    OBVIOUS
  <2>1. IsFiniteSet(1..Len(data))
    BY <1>1, FS_Interval
  <2>2. {i \in DOMAIN data : data[i] = p} \in SUBSET (1..Len(data))
    BY <1>1
  <2> QED
    BY <2>1, <2>2, FS_Subset, FS_CardinalityType DEF Bagged
<1> QED
  BY <1>1, <1>2 DEF Selection, NoMoreOften

(* A selection repeats a value only if it has all values of the data.      *)
LEMMA SelectionDistinct ==
  ASSUME NEW data \in Seq(Int), NEW bank, Selection(data, bank)
  PROVE  Cardinality(ToSet(bank)) = Least(Len(bank), Cardinality(ToSet(data)))
<1> DEFINE n == Len(bank)
           S == ToSet(data)
           B == ToSet(bank)
<1>1. bank \in Seq(Int) /\ n \in Nat /\ n > 0 /\ B \subseteq S
  BY LenProperties DEF Selection
<1>2. IsFiniteSet(S) /\ S \subseteq Int /\ Cardinality(S) \in Nat
  BY ToSetFinite
<1>3. /\ IsFiniteSet(B) /\ B \subseteq Int /\ Cardinality(B) \in Nat /\ Cardinality(B) <= n
      /\ \A i \in 1..n : bank[i] \in B
      /\ \A x \in B : \E i \in 1..n : bank[i] = x
  BY <1>1, ToSetFinite
<1>4. Cardinality(B) <= Cardinality(S)
  <2> HIDE DEF S, B
  <2> QED
    BY <1>1, <1>2, FS_Subset
<1>5. CASE B = S
  BY <1>2, <1>3, <1>5 DEF Least
<1>6. CASE B # S
  <2>1. PICK x \in S \ B : TRUE
    BY <1>1, <1>6
  <2>2. \A i, j \in 1..n : i # j => ToNearest(x, B) <= Distance(bank[i], bank[j])
    BY <2>1 DEF Selection
  <2>3. x \in Int /\ bank[1] \in B /\ B # {}
    BY <1>1, <1>2, <1>3, <2>1
  <2>4. ToNearest(x, B) \in Nat /\ ToNearest(x, B) # 0
    <3> HIDE DEF B, S, n
    <3>1. ToNearest(x, B) \in Nat
      BY <1>3, <2>3, Nearest
    <3>2. ToNearest(x, B) # 0
      BY <1>3, <2>1, <2>3, NearestZero
    <3> QED
      BY <3>1, <3>2
  <2>5. ASSUME NEW i \in 1..n, NEW j \in 1..n, bank[i] = bank[j] PROVE i = j
    <3> SUFFICES ASSUME i # j PROVE FALSE
      OBVIOUS
    <3> DEFINE a == bank[i]
               r == ToNearest(x, B)
    <3>1. r <= Distance(a, a) /\ a \in Int
      BY <1>3, <2>2, <2>5
    <3> HIDE DEF a
    <3>2. Distance(a, a) = 0
      BY <3>1, DistanceProperties
    <3> HIDE DEF r
    <3> QED
      BY <2>4, <3>1, <3>2 DEF r
  <2>6. bank \in [1..n -> B]
    <3>1. bank \in [1..n -> Int]
      BY <1>1, LenProperties
    <3> HIDE DEF n, B
    <3> QED
      BY <1>3, <3>1
  <2>7. bank \in Injection(1..n, B)
    <3>1. IsInjective(bank)
      <4>1. DOMAIN bank = 1..n
        BY <2>6
      <4> QED
        BY <2>5, <4>1 DEF IsInjective
    <3> QED
      BY <2>6, <3>1 DEF Injection
  <2>8. Cardinality(1..n) <= Cardinality(B)
    <3> HIDE DEF B, n
    <3> QED
      BY <1>3, <2>7, FS_Injection
  <2>9. Cardinality(1..n) = n
    BY <1>1, FS_Interval
  <2>10. Cardinality(B) = n
    BY <1>1, <1>3, <2>8, <2>9
  <2> HIDE DEF B, S, n
  <2>11. Least(n, Cardinality(S)) = n
    BY <1>1, <1>2, <1>4, <2>10 DEF Least
  <2> QED
    BY <2>10, <2>11 DEF B, S, n
<1> QED
  BY <1>5, <1>6

(* If as many centers as the selection has rows cover the data within rho, *)
(* then the selection covers it within twice rho: two rows of the bank, or *)
(* one of them and a point left out, share a center.                       *)
LEMMA SelectionCovers ==
  ASSUME NEW data \in Seq(Int), NEW bank, Selection(data, bank),
         NEW C, C \subseteq Int, C # {}, IsFiniteSet(C), Cardinality(C) <= Len(bank),
         NEW rho \in Nat, Covers(ToSet(data), C, rho)
  PROVE  Covers(ToSet(data), ToSet(bank), 2 * rho)
<1> DEFINE n == Len(bank)
           S == ToSet(data)
           B == ToSet(bank)
<1>1. bank \in Seq(Int) /\ n \in Nat /\ n > 0 /\ B \subseteq S
  BY LenProperties DEF Selection
<1>2. S \subseteq Int
  BY ToSetFinite
<1>3. IsFiniteSet(B) /\ B \subseteq Int /\ \A i \in 1..n : bank[i] \in B
  BY <1>1, ToSetFinite
<1>4. B # {}
  <2>1. 1 \in 1..n
    BY <1>1
  <2> QED
    BY <1>3, <2>1
<1> SUFFICES ASSUME NEW x \in S PROVE ToNearest(x, B) <= 2 * rho
  BY DEF Covers
<1> DEFINE r == ToNearest(x, B)
<1>5. x \in Int
  BY <1>2
<1>6. r \in Nat /\ \A y \in B : r <= Distance(x, y)
  <2> HIDE DEF B, S
  <2> QED
    BY <1>3, <1>4, <1>5, Nearest
<1>7. CASE x \in B
  <2>1. r = 0
    <3> HIDE DEF B, S
    <3> QED
      BY <1>3, <1>4, <1>5, <1>7, NearestZero
  <2> QED
    BY <2>1
<1>8. CASE x \notin B
  <2>1. \A i, j \in 1..n : i # j => r <= Distance(bank[i], bank[j])
    BY <1>8 DEF Selection
  <2> DEFINE point == [i \in 0..n |-> IF i = 0 THEN x ELSE bank[i]]
             center == [i \in 0..n |-> CHOOSE c \in C : Distance(point[i], c) <= rho]
  <2>2. ASSUME NEW i \in 0..n PROVE point[i] \in S
    <3>1. CASE i = 0
      BY <3>1
    <3>2. CASE i # 0
      <4>1. i \in 1..n
        BY <1>1, <3>2
      <4> QED
        BY <1>1, <1>3, <3>2, <4>1
    <3> QED
      BY <3>1, <3>2
  <2> HIDE DEF point
  <2>3. ASSUME NEW i \in 0..n
        PROVE  center[i] \in C /\ Distance(point[i], center[i]) <= rho
    <3> DEFINE a == point[i]
    <3>1. a \in S /\ a \in Int
      BY <1>2, <2>2
    <3>2. ToNearest(a, C) <= rho
      BY <3>1 DEF Covers
    <3> HIDE DEF a, S
    <3>3. PICK y \in C : ToNearest(a, C) = Distance(a, y)
      BY <3>1, Nearest
    <3>4. \E c \in C : Distance(a, c) <= rho
      BY <3>2, <3>3
    <3> USE DEF a
    <3> QED
      BY <3>4
  <2>4. center \in [0..n -> C]
    BY <2>3
  <2> HIDE DEF center
  <2>5. IsFiniteSet(0..n) /\ Cardinality(0..n) = n + 1
    <3>1. 0 \in Int /\ n \in Int /\ ~(0 > n) /\ n - 0 + 1 = n + 1
      BY <1>1
    <3> HIDE DEF n
    <3> QED
      BY <3>1, FS_Interval
  <2>6. Cardinality(C) < Cardinality(0..n)
    BY <1>1, <2>5, FS_CardinalityType
  <2>7. PICK i, j \in 0..n : i # j /\ center[i] = center[j]
    <3> HIDE DEF n
    <3> QED
      BY <2>4, <2>5, <2>6, FS_PigeonHole
  <2>8. Distance(point[i], point[j]) <= 2 * rho
    <3> DEFINE a == point[i]
               b == point[j]
               c == center[i]
    <3>1. a \in Int /\ b \in Int /\ c \in Int /\ Distance(a, c) <= rho /\ Distance(b, c) <= rho
      BY <1>2, <2>2, <2>3, <2>7
    <3> HIDE DEF a, b, c
    <3>2. Distance(a, b) <= Distance(a, c) + Distance(c, b) /\ Distance(c, b) = Distance(b, c)
      BY <3>1, DistanceProperties
    <3>3. Distance(a, b) \in Nat /\ Distance(a, c) \in Nat /\ Distance(b, c) \in Nat
      BY <3>1, DistanceProperties
    <3>4. Distance(a, b) <= 2 * rho
      BY <3>1, <3>2, <3>3
    <3> QED
      BY <3>4 DEF a, b
  <2>9. r <= Distance(point[i], point[j])
    <3>1. CASE i = 0
      <4>1. j \in 1..n /\ point[i] = x /\ point[j] = bank[j]
        BY <1>1, <2>7, <3>1 DEF point
      <4>2. bank[j] \in B
        BY <1>3, <4>1
      <4> QED
        BY <1>6, <4>1, <4>2
    <3>2. CASE j = 0
      <4> DEFINE a == bank[i]
      <4>1. i \in 1..n /\ point[j] = x /\ point[i] = a
        BY <1>1, <2>7, <3>2 DEF point
      <4>2. a \in B /\ a \in Int
        BY <1>3, <4>1
      <4>3. r <= Distance(x, a)
        BY <1>6, <4>2
      <4> HIDE DEF a, r
      <4>4. Distance(x, a) = Distance(a, x)
        BY <1>5, <4>2, DistanceProperties
      <4> QED
        BY <4>1, <4>3, <4>4
    <3>3. CASE i # 0 /\ j # 0
      <4>1. i \in 1..n /\ j \in 1..n /\ point[i] = bank[i] /\ point[j] = bank[j]
        BY <1>1, <3>3 DEF point
      <4> QED
        BY <2>1, <2>7, <4>1
    <3> QED
      BY <3>1, <3>2, <3>3
  <2>10. Distance(point[i], point[j]) \in Nat
    <3> DEFINE a == point[i]
               b == point[j]
    <3>1. a \in Int /\ b \in Int
      BY <1>2, <2>2
    <3> HIDE DEF a, b
    <3>2. Distance(a, b) \in Nat
      BY <3>1, DistanceProperties
    <3> QED
      BY <3>2 DEF a, b
  <2> HIDE DEF r
  <2> QED
    BY <1>6, <2>8, <2>9, <2>10 DEF r
<1> QED
  BY <1>7, <1>8

-----------------------------------------------------------------------------
(* The rows farthest-first selection takes.                                *)

(* Different rows of the data.                                             *)
LEMMA RowsProperties ==
  ASSUME NEW data \in Seq(Int), NEW count \in Nat, NEW s \in [1..count -> 1..Len(data)],
         \A i, j \in 1..count : s[i] = s[j] => i = j
  PROVE  /\ Rows(data, s) \in Seq(Int) /\ Len(Rows(data, s)) = count
         /\ \A i \in 1..count : Rows(data, s)[i] = data[s[i]]
         /\ NoMoreOften(Rows(data, s), data)
<1> DEFINE n == Len(data)
           rows == Rows(data, s)
<1>1. n \in Nat /\ data \in [1..n -> Int] /\ DOMAIN data = 1..n /\ DOMAIN s = 1..count
  BY LenProperties
<1>2. rows \in [1..count -> Int] /\ \A i \in 1..count : rows[i] = data[s[i]]
  BY <1>1 DEF Rows
<1> HIDE DEF rows, n
<1>3. rows \in Seq(Int)
  BY <1>2, SeqDef
<1>4. Len(rows) = count /\ DOMAIN rows = 1..count
  BY <1>2, <1>3, LenProperties
<1>5. ASSUME NEW p PROVE Bagged(rows, p) <= Bagged(data, p)
  <2> DEFINE From == {i \in 1..count : rows[i] = p}
             To == {i \in 1..n : data[i] = p}
             f == [i \in From |-> s[i]]
  <2>1. IsFiniteSet(To)
    <3>1. IsFiniteSet(1..n) /\ To \in SUBSET (1..n)
      BY <1>1, FS_Interval
    <3> HIDE DEF To
    <3> QED
      BY <3>1, FS_Subset
  <2>2. \A i \in From : s[i] \in To
    BY <1>2 DEF n
  <2>3. f \in [From -> To]
    BY <2>2
  <2>4. IsInjective(f)
    <3>1. DOMAIN f = From /\ \A i \in From : i \in 1..count /\ f[i] = s[i]
      OBVIOUS
    <3> HIDE DEF f, From
    <3> QED
      BY <3>1 DEF IsInjective
  <2>5. f \in Injection(From, To)
    BY <2>3, <2>4 DEF Injection
  <2> HIDE DEF f
  <2>6. Cardinality(From) <= Cardinality(To)
    <3> HIDE DEF From, To
    <3> QED
      BY <2>1, <2>5, FS_Injection
  <2>7. Bagged(rows, p) = Cardinality(From) /\ Bagged(data, p) = Cardinality(To)
    BY <1>1, <1>4 DEF Bagged
  <2> QED
    BY <2>6, <2>7
<1> QED
  BY <1>2, <1>3, <1>4, <1>5 DEF NoMoreOften, rows

(* The values of the rows chosen.                                          *)
ValuesAt(data, chosen) == {data[c] : c \in chosen}

(* There are finitely many of them.                                        *)
LEMMA ValuesProperties ==
  ASSUME NEW data \in Seq(Int), NEW chosen, chosen \subseteq 1..Len(data), chosen # {}
  PROVE  /\ ValuesAt(data, chosen) \subseteq Int /\ ValuesAt(data, chosen) # {}
         /\ IsFiniteSet(ValuesAt(data, chosen)) /\ IsFiniteSet(chosen)
<1> DEFINE V == ValuesAt(data, chosen)
           f == [c \in chosen |-> data[c]]
<1>1. Len(data) \in Nat /\ data \in [1..Len(data) -> Int]
  BY LenProperties
<1>2. IsFiniteSet(chosen)
  <2>1. IsFiniteSet(1..Len(data))
    BY <1>1, FS_Interval
  <2> QED
    BY <2>1, FS_Subset
<1>3. f \in [chosen -> V] /\ \A v \in V : \E c \in chosen : f[c] = v
  BY DEF ValuesAt
<1>4. V \subseteq Int /\ V # {}
  BY <1>1 DEF ValuesAt
<1> HIDE DEF f, V
<1>5. IsFiniteSet(V)
  BY <1>2, <1>3, ImageFinite
<1> QED
  BY <1>2, <1>4, <1>5 DEF V

(* The next row is not chosen yet, and no other such row is farther from   *)
(* those chosen.                                                           *)
LEMMA NextRowFarthest ==
  ASSUME NEW data \in Seq(Int), NEW chosen, chosen \subseteq 1..Len(data), chosen # {},
         chosen # 1..Len(data)
  PROVE  /\ NextRow(data, chosen) \in 1..Len(data) /\ NextRow(data, chosen) \notin chosen
         /\ \A i \in 1..Len(data) : i \notin chosen =>
              ToNearest(data[i], ValuesAt(data, chosen))
                <= ToNearest(data[NextRow(data, chosen)], ValuesAt(data, chosen))
<1> DEFINE n == Len(data)
           V == ValuesAt(data, chosen)
           left == DOMAIN data \ chosen
           f == [i \in left |-> ToNearest(data[i], V)]
           D == {ToNearest(data[i], V) : i \in left}
           far == Max(D)
           E == {i \in left : ToNearest(data[i], V) = far}
<1>1. n \in Nat /\ data \in [1..n -> Int] /\ DOMAIN data = 1..n
  BY LenProperties
<1>2. V \subseteq Int /\ V # {} /\ IsFiniteSet(V)
  BY ValuesProperties
<1>3. left \subseteq 1..n /\ left # {} /\ left \subseteq Int
  <2>1. left = (1..n) \ chosen
    BY <1>1
  <2>2. \E i \in 1..n : i \notin chosen
    OBVIOUS
  <2> HIDE DEF left, n
  <2> QED
    BY <2>1, <2>2
<1>4. IsFiniteSet(left)
  <2>1. IsFiniteSet(1..n)
    BY <1>1, FS_Interval
  <2> HIDE DEF left
  <2> QED
    BY <1>3, <2>1, FS_Subset
<1>5. \A i \in left : ToNearest(data[i], V) \in Int
  <2> SUFFICES ASSUME NEW i \in left PROVE ToNearest(data[i], V) \in Int
    OBVIOUS
  <2> DEFINE a == data[i]
  <2>1. a \in Int
    BY <1>1, <1>3
  <2> HIDE DEF a, V
  <2>2. ToNearest(a, V) \in Nat
    BY <1>2, <2>1, Nearest
  <2> QED
    BY <2>2 DEF a
<1>6. f \in [left -> D] /\ \A d \in D : \E i \in left : f[i] = d
  OBVIOUS
<1>7. D # {} /\ D \subseteq Int
  <2>1. \A d \in D : d \in Int
    BY <1>5
  <2>2. D # {}
    BY <1>3
  <2> HIDE DEF D
  <2> QED
    BY <2>1, <2>2
<1> HIDE DEF f
<1>8. IsFiniteSet(D)
  <2> HIDE DEF D, left
  <2> QED
    BY <1>4, <1>6, ImageFinite
<1>9. far \in D /\ \A d \in D : d <= far
  <2> HIDE DEF D
  <2> QED
    BY <1>7, <1>8, FiniteExtremes
<1> HIDE DEF far
<1>10. E # {} /\ E \subseteq Int /\ E \subseteq left
  BY <1>3, <1>9
<1>11. IsFiniteSet(E)
  <2> HIDE DEF E, left
  <2> QED
    BY <1>4, <1>10, FS_Subset
<1>12. Min(E) \in E
  <2> HIDE DEF E
  <2> QED
    BY <1>10, <1>11, FiniteExtremes
<1>13. NextRow(data, chosen) = Min(E)
  BY DEF NextRow, FarthestOf, ValuesAt, far
<1> DEFINE next == NextRow(data, chosen)
<1>14. next \in left /\ ToNearest(data[next], V) = far
  BY <1>12, <1>13
<1>15. \A i \in left : ToNearest(data[i], V) <= far
  BY <1>9
<1>16. \A i \in left : ToNearest(data[i], V) <= ToNearest(data[next], V)
  BY <1>14, <1>15
<1> HIDE DEF next, V
<1>17. next \in 1..n /\ next \notin chosen
  BY <1>1, <1>14
<1>18. \A i \in 1..n : i \notin chosen => ToNearest(data[i], V) <= ToNearest(data[next], V)
  BY <1>1, <1>16
<1> QED
  BY <1>17, <1>18 DEF next, V

(* The first m choices.                                                    *)
Firsts(s, m) == {s[l] : l \in 1..m}

(* The n choices are different rows, and each was the farthest from the    *)
(* choices before it.                                                      *)
Picked(data, s, n) ==
  /\ s \in Seq(1..Len(data)) /\ Len(s) = n
  /\ \A i, j \in 1..n : s[i] = s[j] => i = j
  /\ \A j \in 2..n : \A i \in 1..Len(data) : i \notin Firsts(s, j - 1) =>
       ToNearest(data[i], ValuesAt(data, Firsts(s, j - 1)))
         <= ToNearest(data[s[j]], ValuesAt(data, Firsts(s, j - 1)))

(* The first choice may be any row.                                        *)
LEMMA PickedOne ==
  ASSUME NEW data \in Seq(Int), NEW first \in 1..Len(data)
  PROVE  Picked(data, <<first>>, 1) /\ <<first>> \in Seq(1..Len(data))
<1>1. <<first>> \in Seq(1..Len(data)) /\ Len(<<first>>) = 1
  OBVIOUS
<1>2. 2..1 = {}
  OBVIOUS
<1> QED
  BY <1>1, <1>2 DEF Picked

(* The next row continues the choices.                                     *)
LEMMA PickedAppend ==
  ASSUME NEW data \in Seq(Int), NEW n \in Nat, n > 0, n < Len(data), NEW s, Picked(data, s, n)
  PROVE  /\ NextRow(data, ToSet(s)) \in 1..Len(data)
         /\ Picked(data, Append(s, NextRow(data, ToSet(s))), n + 1)
<1> DEFINE N == Len(data)
           next == NextRow(data, ToSet(s))
           t == Append(s, next)
<1>1. N \in Nat /\ s \in Seq(1..N) /\ Len(s) = n
  BY LenProperties DEF Picked
<1>2. ToSet(s) \subseteq 1..N /\ ToSet(s) # {} /\ Cardinality(ToSet(s)) <= n
  <2>1. /\ ToSet(s) \subseteq 1..N /\ Cardinality(ToSet(s)) <= Len(s)
        /\ \A i \in 1..Len(s) : s[i] \in ToSet(s)
    BY <1>1, ToSetFinite
  <2>2. 1 \in 1..Len(s)
    BY <1>1
  <2> QED
    BY <1>1, <2>1, <2>2
<1>3. ToSet(s) # 1..N
  <2>1. Cardinality(1..N) = N
    <3>1. 1 \in Int /\ N \in Int /\ ~(1 > N) /\ N - 1 + 1 = N
      BY <1>1
    <3> HIDE DEF N
    <3> QED
      BY <3>1, FS_Interval
  <2> QED
    BY <1>1, <1>2, <2>1
<1>4. /\ next \in 1..N /\ next \notin ToSet(s)
      /\ \A i \in 1..N : i \notin ToSet(s) =>
              ToNearest(data[i], ValuesAt(data, ToSet(s)))
                <= ToNearest(data[next], ValuesAt(data, ToSet(s)))
  BY <1>2, <1>3, NextRowFarthest
<1> HIDE DEF next
<1>5. /\ t \in Seq(1..N) /\ Len(t) = n + 1 /\ t[n + 1] = next
      /\ \A i \in 1..n : t[i] = s[i]
  <2> HIDE DEF N
  <2> QED
    BY <1>1, <1>4, AppendProperties
<1>6. ToSet(s) = Firsts(t, n)
  <2>1. DOMAIN s = 1..n
    BY <1>1, LenProperties
  <2>2. ToSet(s) = {s[l] : l \in 1..n}
    BY <2>1 DEF ToSet
  <2> HIDE DEF t
  <2> QED
    BY <1>5, <2>2 DEF Firsts
<1>7. \A m \in 0..n : Firsts(t, m) = Firsts(s, m)
  <2> HIDE DEF t
  <2> SUFFICES ASSUME NEW m \in 0..n PROVE Firsts(t, m) = Firsts(s, m)
    OBVIOUS
  <2>1. \A l \in 1..m : t[l] = s[l]
    BY <1>5
  <2> QED
    BY <2>1 DEF Firsts
<1> HIDE DEF t
<1>8. ASSUME NEW i \in 1..(n + 1), NEW j \in 1..(n + 1), t[i] = t[j] PROVE i = j
  <2>1. \A l \in 1..n : t[l] \in ToSet(s)
    BY <1>6 DEF Firsts
  <2>2. CASE i = n + 1
    BY <1>4, <1>5, <1>8, <2>1, <2>2
  <2>3. CASE j = n + 1
    BY <1>4, <1>5, <1>8, <2>1, <2>3
  <2>4. CASE i # n + 1 /\ j # n + 1
    <3>1. i \in 1..n /\ j \in 1..n
      BY <2>4
    <3>2. s[i] = s[j]
      BY <1>5, <1>8, <3>1
    <3> QED
      BY <3>1, <3>2 DEF Picked
  <2> QED
    BY <2>2, <2>3, <2>4
<1>9. ASSUME NEW j \in 2..(n + 1), NEW i \in 1..N, i \notin Firsts(t, j - 1)
      PROVE  ToNearest(data[i], ValuesAt(data, Firsts(t, j - 1)))
               <= ToNearest(data[t[j]], ValuesAt(data, Firsts(t, j - 1)))
  <2>1. CASE j = n + 1
    <3>1. j - 1 = n
      BY <2>1
    <3> QED
      BY <1>4, <1>5, <1>6, <1>9, <2>1, <3>1
  <2>2. CASE j # n + 1
    <3>1. j \in 2..n /\ j \in 1..n /\ j - 1 \in 0..n
      BY <2>2
    <3>2. Firsts(t, j - 1) = Firsts(s, j - 1) /\ t[j] = s[j]
      BY <1>5, <1>7, <3>1
    <3>3. i \notin Firsts(s, j - 1)
      BY <1>9, <3>2
    <3>4. ToNearest(data[i], ValuesAt(data, Firsts(s, j - 1)))
            <= ToNearest(data[s[j]], ValuesAt(data, Firsts(s, j - 1)))
      BY <3>1, <3>3 DEF Picked
    <3> QED
      BY <3>2, <3>4
  <2> QED
    BY <2>1, <2>2
<1>10. Picked(data, t, n + 1)
  BY <1>5, <1>8, <1>9 DEF Picked
<1> QED
  BY <1>4, <1>10 DEF t, next

(* Farthest-first selection chooses this way, from any first row.          *)
LEMMA PickedAll ==
  ASSUME NEW data \in Seq(Int), NEW count \in 1..Len(data), NEW first \in 1..Len(data)
  PROVE  Picked(data, FarthestFirst(data, first, count), count)
<1> DEFINE N == Len(data)
           D == Seq(1..N)
           last == count - 1
           next(d) == IF \E n \in Nat : n > 0 /\ n < N /\ Picked(data, d, n)
                      THEN Append(d, NextRow(data, ToSet(d))) ELSE d
           step == [i \in 1..last |-> [d \in D |-> next(d)]]
<1>1. N \in Nat /\ last \in Nat /\ count \in Nat /\ count <= N /\ last + 1 = count
  BY LenProperties
<1>2. ASSUME NEW d \in D PROVE next(d) \in D
  <2>1. CASE \E n \in Nat : n > 0 /\ n < N /\ Picked(data, d, n)
    <3>1. NextRow(data, ToSet(d)) \in 1..N
      BY <2>1, PickedAppend
    <3>2. Append(d, NextRow(data, ToSet(d))) \in D
      BY <3>1, AppendProperties
    <3> QED
      BY <2>1, <3>2
  <2>2. CASE ~ \E n \in Nat : n > 0 /\ n < N /\ Picked(data, d, n)
    BY <2>2
  <2> QED
    BY <2>1, <2>2
<1>3. step \in [1..last -> [D -> D]]
  <2> HIDE DEF D, next
  <2> QED
    BY <1>2
<1>4. \E f : Iteration(f, last, D, <<first>>, step)
  <2>1. <<first>> \in D
    BY PickedOne
  <2> HIDE DEF D, step, last
  <2> QED
    BY <1>1, <1>3, <2>1, Iterates
<1>5. PICK f \in [0..last -> D] : f[0] = <<first>> /\ \A i \in 1..last : f[i] = step[i][f[i - 1]]
  BY <1>4 DEF Iteration
<1>6. \A i \in 1..last : f[i] = next(f[i - 1])
  <2> SUFFICES ASSUME NEW i \in 1..last PROVE f[i] = next(f[i - 1])
    OBVIOUS
  <2>1. f[i - 1] \in D
    BY <1>1, <1>5
  <2>2. step[i] = [d \in D |-> next(d)]
    OBVIOUS
  <2> HIDE DEF next, step
  <2> QED
    BY <1>5, <2>1, <2>2
<1> HIDE DEF step
<1> DEFINE T == {i \in Nat : i <= last => Picked(data, f[i], i + 1)}
<1>7. \A i \in Nat : i \in T
  <2>1. 0 \in T
    <3>1. Picked(data, f[0], 1) /\ 0 + 1 = 1
      BY <1>5, PickedOne
    <3> QED
      BY <3>1
  <2>2. ASSUME NEW i \in Nat, i \in T PROVE i + 1 \in T
    <3> SUFFICES ASSUME i + 1 <= last PROVE Picked(data, f[i + 1], (i + 1) + 1)
      OBVIOUS
    <3>1. Picked(data, f[i], i + 1) /\ i + 1 \in 1..last /\ (i + 1) - 1 = i
      BY <1>1, <2>2
    <3>2. i + 1 \in Nat /\ i + 1 > 0 /\ i + 1 < N
      BY <1>1
    <3>3. f[i + 1] = Append(f[i], NextRow(data, ToSet(f[i])))
      BY <1>6, <3>1, <3>2
    <3> DEFINE s == f[i]
               m == i + 1
    <3>4. Picked(data, s, m) /\ m \in Nat /\ m > 0 /\ m < N
      BY <3>1, <3>2
    <3> HIDE DEF s, m
    <3>5. Picked(data, Append(s, NextRow(data, ToSet(s))), m + 1)
      BY <3>4, PickedAppend
    <3> QED
      BY <3>3, <3>5 DEF s, m
  <2> HIDE DEF T
  <2> QED
    BY <2>1, <2>2, SetInduction
<1> DEFINE g == [n \in 1..count |-> f[n - 1]]
           h == CHOOSE c : c = [n \in 1..count |->
                                  IF n = 1 THEN <<first>>
                                  ELSE Append(c[n - 1], NextRow(data, ToSet(c[n - 1])))]
<1>8. ASSUME NEW i \in 1..last PROVE f[i] = Append(f[i - 1], NextRow(data, ToSet(f[i - 1])))
  <2>1. i - 1 \in T /\ i - 1 \in Nat /\ i - 1 <= last
    BY <1>1, <1>7
  <2>2. Picked(data, f[i - 1], i)
    BY <2>1
  <2>3. i \in Nat /\ i > 0 /\ i < N
    BY <1>1
  <2> QED
    BY <1>6, <2>2, <2>3
<1> HIDE DEF T, next
<1>9. g = [n \in 1..count |-> IF n = 1 THEN <<first>>
                              ELSE Append(g[n - 1], NextRow(data, ToSet(g[n - 1])))]
  <2>1. ASSUME NEW n \in 1..count
        PROVE  g[n] = IF n = 1 THEN <<first>>
                      ELSE Append(g[n - 1], NextRow(data, ToSet(g[n - 1])))
    <3>1. CASE n = 1
      <4>1. n - 1 = 0
        BY <3>1
      <4> QED
        BY <1>5, <3>1, <4>1
    <3>2. CASE n # 1
      <4>1. n - 1 \in 1..last /\ n - 1 \in 1..count
        BY <1>1, <3>2
      <4>2. g[n] = f[n - 1] /\ g[n - 1] = f[(n - 1) - 1]
        BY <4>1
      <4> HIDE DEF g
      <4> QED
        BY <1>8, <3>2, <4>1, <4>2
    <3> QED
      BY <3>1, <3>2
  <2> DEFINE e(n) == IF n = 1 THEN <<first>>
                     ELSE Append(g[n - 1], NextRow(data, ToSet(g[n - 1])))
  <2>2. g = [n \in 1..count |-> g[n]]
    OBVIOUS
  <2>3. \A n \in 1..count : g[n] = e(n)
    BY <2>1
  <2> HIDE DEF g, e
  <2>4. g = [n \in 1..count |-> e(n)]
    BY <2>2, <2>3
  <2> QED
    BY <2>4 DEF e
<1>10. FarthestFirst(data, first, count) = h[count]
  BY DEF FarthestFirst
<1>11. h = [n \in 1..count |-> IF n = 1 THEN <<first>>
                               ELSE Append(h[n - 1], NextRow(data, ToSet(h[n - 1])))]
  <2> HIDE DEF g
  <2> QED
    BY <1>9
<1> HIDE DEF h, g
<1> DEFINE U == {n \in Nat : n + 1 <= count => Picked(data, h[n + 1], n + 1)}
<1>12. \A n \in Nat : n \in U
  <2>1. 0 \in U
    <3>1. h[1] = <<first>> /\ 0 + 1 = 1
      BY <1>1, <1>11
    <3>2. Picked(data, h[1], 1)
      BY <3>1, PickedOne
    <3> QED
      BY <3>1, <3>2
  <2>2. ASSUME NEW n \in Nat, n \in U PROVE n + 1 \in U
    <3> DEFINE m == n + 1
               s == h[m]
    <3> SUFFICES ASSUME m + 1 <= count PROVE Picked(data, h[m + 1], m + 1)
      OBVIOUS
    <3>1. Picked(data, s, m) /\ m \in Nat /\ m > 0 /\ m < N
      BY <1>1, <2>2
    <3>2. m + 1 \in 1..count /\ m + 1 # 1 /\ (m + 1) - 1 = m
      BY <1>1
    <3> HIDE DEF m
    <3>3. h[m + 1] = Append(s, NextRow(data, ToSet(s)))
      BY <1>11, <3>2
    <3> HIDE DEF s
    <3>4. Picked(data, Append(s, NextRow(data, ToSet(s))), m + 1)
      BY <3>1, PickedAppend
    <3> QED
      BY <3>3, <3>4
  <2> HIDE DEF U
  <2> QED
    BY <2>1, <2>2, SetInduction
<1>13. Picked(data, h[last + 1], last + 1)
  <2>1. last \in U /\ last + 1 <= count
    <3> HIDE DEF last, U
    <3> QED
      BY <1>1, <1>12
  <2> HIDE DEF last
  <2> QED
    BY <2>1
<1> QED
  BY <1>1, <1>10, <1>13

(* Rows chosen this way are a selection: when the later of two rows was    *)
(* chosen, a row left out was not farther from those before it.            *)
LEMMA PickedSelection ==
  ASSUME NEW data \in Seq(Int), NEW count \in 1..Len(data), NEW s, Picked(data, s, count)
  PROVE  /\ Selection(data, Rows(data, s)) /\ NoMoreOften(Rows(data, s), data)
         /\ Len(Rows(data, s)) = count
<1> DEFINE N == Len(data)
           bank == Rows(data, s)
           S == ToSet(data)
           B == ToSet(bank)
<1>1. N \in Nat /\ count \in Nat /\ count > 0 /\ DOMAIN data = 1..N /\ data \in [1..N -> Int]
  BY LenProperties
<1>2. s \in [1..count -> 1..N] /\ \A i, j \in 1..count : s[i] = s[j] => i = j
  <2>1. s \in Seq(1..N) /\ Len(s) = count
    BY DEF Picked
  <2>2. s \in [1..count -> 1..N]
    BY <2>1, LenProperties
  <2> QED
    BY <2>2 DEF Picked
<1>3. /\ bank \in Seq(Int) /\ Len(bank) = count
      /\ \A i \in 1..count : bank[i] = data[s[i]]
      /\ NoMoreOften(bank, data)
  BY <1>1, <1>2, RowsProperties
<1> HIDE DEF bank
<1>4. /\ IsFiniteSet(B) /\ B \subseteq Int /\ \A i \in 1..count : bank[i] \in B
      /\ \A x \in B : \E i \in 1..count : bank[i] = x
  BY <1>3, ToSetFinite
<1>5. S = {data[i] : i \in 1..N}
  BY <1>1 DEF ToSet
<1>6. B \subseteq S
  <2> SUFFICES ASSUME NEW x \in B PROVE x \in S
    OBVIOUS
  <2>1. PICK i \in 1..count : bank[i] = x
    BY <1>4
  <2>2. s[i] \in 1..N /\ data[s[i]] = x
    BY <1>2, <1>3, <2>1
  <2> QED
    BY <1>5, <2>2
<1>7. ASSUME NEW x \in S \ B, NEW i \in 1..count, NEW j \in 1..count, i < j
      PROVE  /\ ToNearest(x, B) <= Distance(bank[j], bank[i])
             /\ ToNearest(x, B) <= Distance(bank[i], bank[j])
  <2> DEFINE chosen == Firsts(s, j - 1)
             V == ValuesAt(data, chosen)
  <2>1. PICK m \in 1..N : x = data[m]
    BY <1>5
  <2>2. m \notin chosen
    <3> SUFFICES ASSUME m \in chosen PROVE FALSE
      OBVIOUS
    <3>1. PICK l \in 1..(j - 1) : s[l] = m
      BY DEF Firsts
    <3>2. l \in 1..count
      BY <1>1
    <3> QED
      BY <1>3, <1>4, <2>1, <3>1, <3>2
  <2>3. j \in 2..count /\ i \in 1..(j - 1)
    BY <1>1, <1>7
  <2>4. ToNearest(x, V) <= ToNearest(data[s[j]], V)
    BY <2>1, <2>2, <2>3 DEF Picked
  <2>5. chosen \subseteq 1..N /\ s[i] \in chosen /\ chosen # {}
    BY <1>1, <1>2, <2>3 DEF Firsts
  <2> DEFINE a == bank[i]
             b == bank[j]
  <2>6. a \in V /\ a \in Int /\ b \in Int /\ b = data[s[j]] /\ V \subseteq B
    <3>1. a = data[s[i]] /\ b = data[s[j]]
      BY <1>3
    <3>2. a \in Int /\ b \in Int
      BY <1>4
    <3>3. a \in V
      BY <2>5, <3>1 DEF ValuesAt
    <3>4. ASSUME NEW v \in V PROVE v \in B
      <4>1. PICK l \in 1..(j - 1) : v = data[s[l]]
        BY DEF ValuesAt, Firsts
      <4>2. l \in 1..count
        BY <1>1
      <4> QED
        BY <1>3, <1>4, <4>1, <4>2
    <3> QED
      BY <3>1, <3>2, <3>3, <3>4
  <2>7. V \subseteq Int /\ V # {} /\ IsFiniteSet(V)
    <3> HIDE DEF chosen
    <3> QED
      BY <2>5, ValuesProperties
  <2>8. x \in Int
    BY <1>1, <2>1
  <2> HIDE DEF a, b, V, B, chosen
  <2>9. ToNearest(x, B) <= ToNearest(x, V)
    BY <1>4, <2>6, <2>7, <2>8, NearestOfMore
  <2>10. ToNearest(b, V) <= Distance(b, a)
    BY <2>6, <2>7, Nearest
  <2>11. B # {}
    BY <2>6, <2>7
  <2>12. ToNearest(x, B) \in Nat /\ ToNearest(x, V) \in Nat /\ ToNearest(b, V) \in Nat
    BY <1>4, <2>6, <2>7, <2>8, <2>11, Nearest
  <2>13. Distance(b, a) \in Nat /\ Distance(b, a) = Distance(a, b)
    BY <2>6, DistanceProperties
  <2>14. ToNearest(x, B) <= Distance(b, a)
    BY <2>4, <2>6, <2>9, <2>10, <2>12, <2>13
  <2> QED
    BY <2>13, <2>14 DEF a, b
<1>8. ASSUME NEW x \in S \ B, NEW i \in 1..count, NEW j \in 1..count, i # j
      PROVE  ToNearest(x, B) <= Distance(bank[i], bank[j])
  <2>1. CASE i < j
    BY <1>7, <1>8, <2>1
  <2>2. CASE j < i
    BY <1>7, <1>8, <2>2
  <2> QED
    BY <1>8, <2>1, <2>2
<1>9. Selection(data, bank)
  BY <1>1, <1>3, <1>6, <1>8 DEF Selection
<1> QED
  BY <1>3, <1>9 DEF bank

-----------------------------------------------------------------------------
(* The memory bank of a stream of chunks.                                  *)

(* The values of two sequences, one after the other.                       *)
LEMMA ToSetConcat ==
  ASSUME NEW S, NEW s \in Seq(S), NEW t \in Seq(S)
  PROVE  ToSet(s \o t) = ToSet(s) \cup ToSet(t)
<1> DEFINE m == Len(s)
           n == Len(t)
           u == s \o t
<1>1. /\ m \in Nat /\ n \in Nat /\ u \in Seq(S) /\ Len(u) = m + n
      /\ \A i \in 1..(m + n) : u[i] = IF i <= m THEN s[i] ELSE t[i - m]
  BY LenProperties, ConcatProperties
<1>2. /\ \A i \in 1..m : s[i] \in ToSet(s)
      /\ \A x \in ToSet(s) : \E i \in 1..m : s[i] = x
  BY ToSetFinite
<1>3. /\ \A i \in 1..n : t[i] \in ToSet(t)
      /\ \A x \in ToSet(t) : \E i \in 1..n : t[i] = x
  BY ToSetFinite
<1> HIDE DEF u
<1>4. /\ \A i \in 1..(m + n) : u[i] \in ToSet(u)
      /\ \A x \in ToSet(u) : \E i \in 1..(m + n) : u[i] = x
  <2>1. /\ \A i \in 1..Len(u) : u[i] \in ToSet(u)
        /\ \A x \in ToSet(u) : \E i \in 1..Len(u) : u[i] = x
    BY <1>1, ToSetFinite
  <2> QED
    BY <1>1, <2>1
<1> HIDE DEF m, n
<1>5. ASSUME NEW x \in ToSet(u) PROVE x \in ToSet(s) \/ x \in ToSet(t)
  <2>1. PICK i \in 1..(m + n) : u[i] = x
    BY <1>4
  <2>2. CASE i <= m
    <3>1. i \in 1..m /\ x = s[i]
      BY <1>1, <2>1, <2>2
    <3> QED
      BY <1>2, <3>1
  <2>3. CASE ~(i <= m)
    <3>1. i - m \in 1..n /\ x = t[i - m]
      BY <1>1, <2>1, <2>3
    <3> QED
      BY <1>3, <3>1
  <2> QED
    BY <2>2, <2>3
<1>6. ASSUME NEW x \in ToSet(s) PROVE x \in ToSet(u)
  <2>1. PICK i \in 1..m : s[i] = x
    BY <1>2
  <2>2. i \in 1..(m + n) /\ i <= m
    BY <1>1
  <2>3. u[i] = s[i]
    BY <1>1, <2>2
  <2> QED
    BY <1>4, <2>1, <2>2, <2>3
<1>7. ASSUME NEW x \in ToSet(t) PROVE x \in ToSet(u)
  <2>1. PICK i \in 1..n : t[i] = x
    BY <1>3
  <2>2. m + i \in 1..(m + n) /\ ~(m + i <= m) /\ (m + i) - m = i
    BY <1>1
  <2>3. u[m + i] = t[i]
    BY <1>1, <2>2
  <2> QED
    BY <1>4, <2>1, <2>2, <2>3
<1>8. ToSet(u) = ToSet(s) \cup ToSet(t)
  BY <1>5, <1>6, <1>7
<1> QED
  BY <1>8 DEF u

(* How often a value occurs in two sequences, one after the other.         *)
LEMMA BaggedConcat ==
  ASSUME NEW S, NEW s \in Seq(S), NEW t \in Seq(S), NEW p
  PROVE  /\ Bagged(s \o t, p) = Bagged(s, p) + Bagged(t, p)
         /\ Bagged(s, p) \in Nat /\ Bagged(t, p) \in Nat
<1> DEFINE m == Len(s)
           n == Len(t)
           u == s \o t
           A == {i \in 1..m : s[i] = p}
           B == {i \in 1..n : t[i] = p}
           B2 == {i \in (m + 1)..(m + n) : u[i] = p}
           U == {i \in 1..(m + n) : u[i] = p}
           f == [i \in B |-> m + i]
<1>1. /\ m \in Nat /\ n \in Nat /\ u \in Seq(S) /\ Len(u) = m + n
      /\ \A i \in 1..(m + n) : u[i] = IF i <= m THEN s[i] ELSE t[i - m]
  BY LenProperties, ConcatProperties
<1>2. DOMAIN s = 1..m /\ DOMAIN t = 1..n /\ DOMAIN u = 1..(m + n)
  <2> HIDE DEF u
  <2> QED
    BY <1>1, LenProperties
<1>3. Bagged(s, p) = Cardinality(A) /\ Bagged(t, p) = Cardinality(B) /\ Bagged(u, p) = Cardinality(U)
  BY <1>2 DEF Bagged
<1> HIDE DEF u, m, n
<1>4. IsFiniteSet(A) /\ IsFiniteSet(B)
  <2>1. IsFiniteSet(1..m) /\ IsFiniteSet(1..n)
    <3>1. m \in Int /\ n \in Int /\ 1 \in Int
      BY <1>1
    <3> QED
      BY <3>1, FS_Interval
  <2>2. A \in SUBSET (1..m) /\ B \in SUBSET (1..n)
    OBVIOUS
  <2> HIDE DEF A, B
  <2> QED
    BY <2>1, <2>2, FS_Subset
<1>5. \A i \in 1..m : i \in 1..(m + n) /\ u[i] = s[i]
  BY <1>1
<1>6. \A i \in 1..n : m + i \in (m + 1)..(m + n) /\ m + i \in 1..(m + n) /\ u[m + i] = t[i]
  <2> SUFFICES ASSUME NEW i \in 1..n
               PROVE  m + i \in (m + 1)..(m + n) /\ m + i \in 1..(m + n) /\ u[m + i] = t[i]
    OBVIOUS
  <2>1. m + i \in (m + 1)..(m + n) /\ m + i \in 1..(m + n) /\ ~(m + i <= m) /\ (m + i) - m = i
    BY <1>1
  <2> QED
    BY <1>1, <2>1
<1>7. f \in [B -> B2]
  BY <1>6
<1>8. /\ \A i, j \in B : f[i] = f[j] => i = j
      /\ \A k \in B2 : \E i \in B : f[i] = k
  <2>1. ASSUME NEW i \in B, NEW j \in B, f[i] = f[j] PROVE i = j
    BY <1>1, <2>1
  <2>2. ASSUME NEW k \in B2 PROVE \E i \in B : f[i] = k
    <3>1. k - m \in 1..n /\ m + (k - m) = k
      BY <1>1
    <3>2. t[k - m] = p
      BY <1>6, <3>1
    <3> QED
      BY <3>1, <3>2
  <2> QED
    BY <2>1, <2>2
<1>9. f \in Bijection(B, B2)
  <2>1. DOMAIN f = B
    OBVIOUS
  <2> HIDE DEF f, B, B2
  <2> QED
    BY <1>7, <1>8, <2>1 DEF Bijection, Injection, Surjection, IsInjective
<1> HIDE DEF f
<1>10. IsFiniteSet(B2) /\ Cardinality(B2) = Cardinality(B)
  <2>1. ExistsBijection(B, B2)
    BY <1>9 DEF ExistsBijection
  <2> HIDE DEF B, B2
  <2> QED
    BY <1>4, <2>1, FS_Bijection
<1>11. U = A \cup B2 /\ A \cap B2 = {}
  <2>1. A \cap B2 = {}
    BY <1>1
  <2>2. ASSUME NEW i \in U PROVE i \in A \cup B2
    BY <1>1, <1>5
  <2>3. ASSUME NEW i \in A \cup B2 PROVE i \in U
    BY <1>1, <1>5
  <2> HIDE DEF A, B2, U
  <2> QED
    BY <2>1, <2>2, <2>3
<1>12. Cardinality(A \cup B2) = Cardinality(A) + Cardinality(B2) - Cardinality({})
  <2> HIDE DEF A, B2
  <2>1. Cardinality(A \cup B2) = Cardinality(A) + Cardinality(B2) - Cardinality(A \cap B2)
    BY <1>4, <1>10, FS_Union
  <2> QED
    BY <1>11, <2>1
<1>13. Cardinality(A) \in Nat /\ Cardinality(B) \in Nat /\ Cardinality({}) = 0
  <2> HIDE DEF A, B
  <2> QED
    BY <1>4, FS_CardinalityType, FS_EmptySet
<1> HIDE DEF A, B, B2, U
<1> QED
  BY <1>3, <1>10, <1>11, <1>12, <1>13 DEF u

(* reduceBank makes a selection of the bank and the chunk, of at most the  *)
(* configured size.                                                        *)
LEMMA ReducedSelection ==
  ASSUME NEW data \in Seq(Int), data # <<>>, NEW budget \in Nat \ {0}
  PROVE  /\ Selection(data, reduceBank(data, budget))
         /\ NoMoreOften(reduceBank(data, budget), data)
         /\ Len(reduceBank(data, budget)) = Least(budget, Len(data))
         /\ Len(data) <= budget => reduceBank(data, budget) = data
<1>1. Len(data) \in Nat \ {0}
  BY EmptySeq
<1>2. CASE Len(data) <= budget
  <2>1. reduceBank(data, budget) = data
    BY <1>2 DEF reduceBank
  <2>2. Least(budget, Len(data)) = Len(data)
    BY <1>1, <1>2 DEF Least
  <2> QED
    BY <2>1, <2>2, WholeSelection
<1>3. CASE ~(Len(data) <= budget)
  <2> DEFINE s == FarthestFirst(data, 1, budget)
  <2>1. reduceBank(data, budget) = Rows(data, s)
    BY <1>3 DEF reduceBank
  <2>2. budget \in 1..Len(data) /\ 1 \in 1..Len(data)
    BY <1>1, <1>3
  <2>3. Picked(data, s, budget)
    BY <2>2, PickedAll
  <2>4. Least(budget, Len(data)) = budget
    BY <1>1, <1>3 DEF Least
  <2> HIDE DEF s
  <2>5. Selection(data, Rows(data, s)) /\ NoMoreOften(Rows(data, s), data) /\ Len(Rows(data, s)) = budget
    BY <2>2, <2>3, PickedSelection
  <2> QED
    BY <1>3, <2>1, <2>4, <2>5
<1> QED
  BY <1>2, <1>3

(* As many centers as the bank may have rows.                              *)
Centers == {C \in SUBSET Int : C # {} /\ IsFiniteSet(C) /\ Cardinality(C) <= Budget}

(* What is known of the bank after c chunks that brought these patches: it *)
(* covers them within twice the radius of any centers, once for each       *)
(* reduction.                                                              *)
Streamed(bank, all, c) ==
  /\ bank \in Seq(Int) /\ all \in Seq(Int)
  /\ Len(bank) = Least(Budget, Len(all))
  /\ Len(all) <= Budget => bank = all
  /\ NoMoreOften(bank, all)
  /\ ToSet(bank) \subseteq ToSet(all)
  /\ Cardinality(ToSet(bank)) = Least(Len(bank), Cardinality(ToSet(all)))
  /\ \A C \in Centers, rho \in Nat :
       Covers(ToSet(all), C, rho) => Covers(ToSet(all), ToSet(bank), (2 * c) * rho)

(* The empty bank before the first chunk.                                  *)
LEMMA NothingStreamed ==
  Streamed(<<>>, <<>>, 0)
<1>1. <<>> \in Seq(Int) /\ Len(<<>>) = 0 /\ ToSet(<<>>) = {}
  <2>1. <<>> \in Seq(Int) /\ Len(<<>>) = 0
    BY EmptySeq
  <2>2. \A x \in ToSet(<<>>) : \E i \in 1..0 : TRUE
    <3> DEFINE e == <<>>
    <3>1. e \in Seq(Int) /\ Len(e) = 0
      BY <2>1
    <3> HIDE DEF e
    <3>2. \A x \in ToSet(e) : \E i \in 1..Len(e) : e[i] = x
      BY <3>1, ToSetFinite
    <3>3. \A x \in ToSet(e) : \E i \in 1..0 : TRUE
      BY <3>1, <3>2
    <3> QED
      BY <3>3 DEF e
  <2> QED
    BY <2>1, <2>2
<1>2. Budget \in Nat \ {0}
  BY PatchCoreFitAssumption
<1>3. \A p : Bagged(<<>>, p) \in Nat
  BY <1>1, BaggedConcat
<1>4. NoMoreOften(<<>>, <<>>)
  BY <1>3 DEF NoMoreOften
<1>5. Cardinality({}) = 0
  BY FS_EmptySet
<1>6. Least(Budget, 0) = 0 /\ Least(0, 0) = 0
  BY <1>2 DEF Least
<1> QED
  BY <1>1, <1>2, <1>4, <1>5, <1>6 DEF Streamed, Covers

(* One more chunk and one more reduction of the bank.                      *)
LEMMA StreamedStep ==
  ASSUME NEW bank, NEW all, NEW c \in Nat, Streamed(bank, all, c),
         NEW chunk \in Seq(Int), Len(chunk) > 0
  PROVE  Streamed(reduceBank(bank \o chunk, Budget), all \o chunk, c + 1)
<1> DEFINE input == bank \o chunk
           all2 == all \o chunk
           bank2 == reduceBank(input, Budget)
<1>1. Budget \in Nat \ {0} /\ Budget \in Nat /\ Budget > 0
  <2>1. Budget \in Nat \ {0}
    BY PatchCoreFitAssumption
  <2> QED
    BY <2>1
<1>2. /\ bank \in Seq(Int) /\ all \in Seq(Int) /\ Len(bank) = Least(Budget, Len(all))
      /\ Len(all) <= Budget => bank = all
      /\ NoMoreOften(bank, all) /\ ToSet(bank) \subseteq ToSet(all)
      /\ Cardinality(ToSet(bank)) = Least(Len(bank), Cardinality(ToSet(all)))
  BY DEF Streamed
<1>3. /\ Len(bank) \in Nat /\ Len(all) \in Nat /\ Len(chunk) \in Nat
  BY <1>2, LenProperties
<1>4. /\ input \in Seq(Int) /\ Len(input) = Len(bank) + Len(chunk)
      /\ all2 \in Seq(Int) /\ Len(all2) = Len(all) + Len(chunk)
  BY <1>2, ConcatProperties
<1>5. ToSet(input) = ToSet(bank) \cup ToSet(chunk) /\ ToSet(all2) = ToSet(all) \cup ToSet(chunk)
  BY <1>2, ToSetConcat
<1>6. /\ Selection(input, bank2) /\ NoMoreOften(bank2, input)
      /\ Len(bank2) = Least(Budget, Len(input))
      /\ Len(input) <= Budget => bank2 = input
  <2>1. input # <<>>
    <3>1. Len(<<>>) = 0 /\ Len(input) > 0
      BY <1>3, <1>4, EmptySeq
    <3> HIDE DEF input
    <3> QED
      BY <3>1
  <2> HIDE DEF input, bank2
  <2>2. input \in Seq(Int) /\ Budget \in Nat \ {0}
    BY <1>1, <1>4
  <2>3. /\ Selection(input, reduceBank(input, Budget))
        /\ NoMoreOften(reduceBank(input, Budget), input)
        /\ Len(reduceBank(input, Budget)) = Least(Budget, Len(input))
        /\ Len(input) <= Budget => reduceBank(input, Budget) = input
    BY <2>1, <2>2, ReducedSelection
  <2> QED
    BY <2>3 DEF bank2
<1>7. NoMoreOften(input, all2)
  <2> SUFFICES ASSUME NEW p PROVE Bagged(input, p) <= Bagged(all2, p)
    BY DEF NoMoreOften
  <2>1. Bagged(bank, p) <= Bagged(all, p)
    BY <1>2 DEF NoMoreOften
  <2>2. /\ Bagged(input, p) = Bagged(bank, p) + Bagged(chunk, p)
        /\ Bagged(all2, p) = Bagged(all, p) + Bagged(chunk, p)
        /\ Bagged(bank, p) \in Nat /\ Bagged(all, p) \in Nat /\ Bagged(chunk, p) \in Nat
    BY <1>2, BaggedConcat
  <2> QED
    BY <2>1, <2>2
<1>8. Len(all) <= Budget => input = all2
  BY <1>2
<1> HIDE DEF input, all2, bank2
<1>9. bank2 \in Seq(Int) /\ Len(bank2) \in Nat /\ Len(bank2) > 0 /\ ToSet(bank2) \subseteq ToSet(input)
  BY <1>6, LenProperties DEF Selection
<1>10. Len(bank2) = Least(Budget, Len(all2))
  BY <1>1, <1>2, <1>3, <1>4, <1>6 DEF Least
<1>11. Len(all2) <= Budget => bank2 = all2
  <2> SUFFICES ASSUME Len(all2) <= Budget PROVE bank2 = all2
    OBVIOUS
  <2>1. Len(all) <= Budget
    BY <1>1, <1>3, <1>4
  <2> QED
    BY <1>6, <1>8, <2>1
<1>12. NoMoreOften(bank2, all2)
  <2> SUFFICES ASSUME NEW p PROVE Bagged(bank2, p) <= Bagged(all2, p)
    BY DEF NoMoreOften
  <2>1. Bagged(bank2, p) <= Bagged(input, p) /\ Bagged(input, p) <= Bagged(all2, p)
    BY <1>6, <1>7 DEF NoMoreOften
  <2>2. Bagged(bank2, p) \in Nat /\ Bagged(input, p) \in Nat /\ Bagged(all2, p) \in Nat
    BY <1>4, <1>9, BaggedConcat
  <2> QED
    BY <2>1, <2>2
<1>13. ToSet(input) \subseteq ToSet(all2)
  BY <1>2, <1>5
<1>14. /\ \A s \in {bank, all, input, all2, bank2} :
            IsFiniteSet(ToSet(s)) /\ ToSet(s) \subseteq Int /\ Cardinality(ToSet(s)) \in Nat
  BY <1>2, <1>4, <1>9, ToSetFinite
<1>15. Cardinality(ToSet(bank2)) = Least(Len(bank2), Cardinality(ToSet(input)))
  BY <1>4, <1>6, SelectionDistinct
<1>16. Cardinality(ToSet(bank2)) = Least(Len(bank2), Cardinality(ToSet(all2)))
  <2>1. CASE ToSet(bank) = ToSet(all)
    BY <1>5, <1>15, <2>1
  <2>2. CASE ToSet(bank) # ToSet(all)
    <3> DEFINE b == Cardinality(ToSet(bank))
               a == Cardinality(ToSet(all))
               i == Cardinality(ToSet(input))
               a2 == Cardinality(ToSet(all2))
    <3>1. a \in Nat /\ b \in Nat /\ i \in Nat /\ a2 \in Nat
      BY <1>14
    <3>2. b <= a /\ b # a
      BY <1>2, <1>14, <2>2, FS_Subset
    <3>3. b <= i /\ a <= a2
      BY <1>5, <1>14, FS_Subset
    <3>4. ~(Len(all) <= Budget)
      BY <1>2, <2>2
    <3>5. Len(bank) = Budget
      BY <1>1, <1>2, <1>3, <3>4 DEF Least
    <3>6. b = Least(Len(bank), a)
      BY <1>2
    <3> HIDE DEF a, b, i, a2
    <3>7. b = Budget
      BY <1>1, <3>1, <3>2, <3>5, <3>6 DEF Least
    <3>8. Len(bank2) = Budget
      BY <1>1, <1>3, <1>4, <1>10, <3>4 DEF Least
    <3>9. Least(Budget, i) = Least(Budget, a2)
      BY <1>1, <3>1, <3>2, <3>3, <3>7 DEF Least
    <3> QED
      BY <1>15, <3>8, <3>9 DEF i, a2
  <2> QED
    BY <2>1, <2>2
<1>17. ASSUME NEW C \in Centers, NEW rho \in Nat, Covers(ToSet(all2), C, rho)
       PROVE  Covers(ToSet(all2), ToSet(bank2), (2 * (c + 1)) * rho)
  <2> DEFINE B == ToSet(bank)
             B2 == ToSet(bank2)
             far == (2 * c) * rho
  <2>1. C \subseteq Int /\ C # {} /\ IsFiniteSet(C) /\ Cardinality(C) <= Budget
    BY DEF Centers
  <2>2. Covers(ToSet(input), C, rho) /\ Covers(ToSet(all), C, rho)
    BY <1>5, <1>13, <1>17 DEF Covers
  <2>3. Covers(ToSet(all), B, far)
    BY <2>2 DEF Streamed
  <2>4. far \in Nat /\ (2 * (c + 1)) * rho = far + 2 * rho /\ 2 * rho \in Nat
    <3>1. 2 * c \in Nat
      OBVIOUS
    <3> QED
      BY <3>1
  <2>5. B2 # {} /\ B2 \subseteq Int /\ IsFiniteSet(B2)
    <3>1. \A j \in 1..Len(bank2) : bank2[j] \in B2
      BY <1>9, ToSetFinite
    <3>2. 1 \in 1..Len(bank2)
      BY <1>9
    <3> QED
      BY <1>14, <3>1, <3>2
  <2>6. Covers(ToSet(input), B2, 2 * rho)
    <3>1. CASE Len(input) <= Budget
      <4> SUFFICES ASSUME NEW x \in ToSet(input) PROVE ToNearest(x, B2) <= 2 * rho
        BY DEF Covers
      <4>1. x \in B2 /\ x \in Int
        BY <1>6, <1>14, <3>1
      <4> HIDE DEF B2
      <4>2. ToNearest(x, B2) = 0
        BY <2>5, <4>1, NearestZero
      <4> QED
        BY <2>4, <4>2
    <3>2. CASE ~(Len(input) <= Budget)
      <4>1. Len(bank2) = Budget
        BY <1>1, <1>3, <1>4, <1>6, <3>2 DEF Least
      <4> HIDE DEF B2
      <4> QED
        BY <1>4, <1>6, <2>1, <2>2, <4>1, SelectionCovers DEF B2
    <3> QED
      BY <3>1, <3>2
  <2> SUFFICES ASSUME NEW x \in ToSet(all2) PROVE ToNearest(x, B2) <= far + 2 * rho
    BY <2>4 DEF Covers
  <2>7. x \in Int
    BY <1>14
  <2>8. CASE x \in ToSet(chunk)
    <3>1. ToNearest(x, B2) <= 2 * rho
      BY <1>5, <2>6, <2>8 DEF Covers
    <3> HIDE DEF B2, far
    <3>2. ToNearest(x, B2) \in Nat
      BY <2>5, <2>7, Nearest
    <3> QED
      BY <2>4, <3>1, <3>2
  <2>9. CASE x \notin ToSet(chunk)
    <3>1. x \in ToSet(all)
      BY <1>5, <2>9
    <3>2. B # {} /\ B \subseteq Int /\ IsFiniteSet(B)
      <4>1. \A j \in 1..Len(bank) : bank[j] \in B
        BY <1>2, ToSetFinite
      <4>2. PICK j \in 1..Len(all) : all[j] = x
        BY <1>2, <3>1, ToSetFinite
      <4>3. Len(bank) > 0
        BY <1>1, <1>2, <1>3, <4>2 DEF Least
      <4>4. 1 \in 1..Len(bank)
        BY <1>3, <4>3
      <4> QED
        BY <1>14, <4>1, <4>4
    <3>3. ToNearest(x, B) <= far
      BY <2>3, <3>1 DEF Covers
    <3> HIDE DEF B, B2, far
    <3>4. PICK y \in B : ToNearest(x, B) = Distance(x, y)
      BY <2>7, <3>2, Nearest
    <3>5. y \in Int /\ y \in ToSet(input)
      BY <1>5, <3>2 DEF B
    <3>6. ToNearest(y, B2) <= 2 * rho
      BY <2>6, <3>5 DEF Covers
    <3>7. PICK z \in B2 : ToNearest(y, B2) = Distance(y, z)
      BY <2>5, <3>5, Nearest
    <3>8. z \in Int
      BY <2>5
    <3>9. Distance(x, z) <= Distance(x, y) + Distance(y, z)
      BY <2>7, <3>5, <3>8, DistanceProperties
    <3>10. ToNearest(x, B2) <= Distance(x, z) /\ ToNearest(x, B2) \in Nat
      BY <2>5, <2>7, Nearest
    <3>11. Distance(x, y) \in Nat /\ Distance(y, z) \in Nat /\ Distance(x, z) \in Nat
      BY <2>7, <3>5, <3>8, DistanceProperties
    <3>12. Distance(x, y) <= far /\ Distance(y, z) <= 2 * rho
      BY <3>3, <3>4, <3>6, <3>7
    <3> QED
      BY <2>4, <3>9, <3>10, <3>11, <3>12
  <2> QED
    BY <2>8, <2>9
<1>18. ToSet(bank2) \subseteq ToSet(all2)
  BY <1>9, <1>13
<1>19. Streamed(bank2, all2, c + 1)
  BY <1>4, <1>9, <1>10, <1>11, <1>12, <1>16, <1>17, <1>18 DEF Streamed
<1> QED
  BY <1>19 DEF input, all2, bank2

-----------------------------------------------------------------------------
(* The replay of the spool.                                                *)

(* PatchCoreStatistics::transform of integers.                             *)
LEMMA TransformType ==
  ASSUME NEW s \in Seq(Int), NEW m \in Int
  PROVE  /\ Transform(s, m) \in Seq(Int) /\ Len(Transform(s, m)) = Len(s)
         /\ \A i \in 1..Len(s) : Transform(s, m)[i] = Scale * s[i] - m
<1> DEFINE n == Len(s)
           t == Transform(s, m)
<1>1. n \in Nat /\ s \in [1..n -> Int] /\ DOMAIN s = 1..n
  BY LenProperties
<1>2. Scale \in Int
  BY PatchTypes
<1>3. \A i \in 1..n : t[i] = Scale * s[i] - m
  BY <1>1 DEF Transform
<1>4. t \in [1..n -> Int]
  BY <1>1, <1>2 DEF Transform
<1> HIDE DEF t
<1>5. t \in Seq(Int)
  BY <1>1, <1>4, SeqDef
<1>6. Len(t) = n
  BY <1>1, <1>4, <1>5, LenProperties
<1> QED
  BY <1>3, <1>5, <1>6 DEF t

(* Transforming chunk by chunk is transforming all.                        *)
LEMMA TransformConcat ==
  ASSUME NEW s \in Seq(Int), NEW t \in Seq(Int), NEW mean \in Int
  PROVE  Transform(s \o t, mean) = Transform(s, mean) \o Transform(t, mean)
<1> DEFINE m == Len(s)
           n == Len(t)
           u == s \o t
           a == Transform(s, mean)
           b == Transform(t, mean)
           v == a \o b
           w == Transform(u, mean)
<1>1. m \in Nat /\ n \in Nat /\ u \in Seq(Int) /\ Len(u) = m + n
  BY LenProperties, ConcatProperties
<1>2. /\ a \in Seq(Int) /\ Len(a) = m /\ \A i \in 1..m : a[i] = Scale * s[i] - mean
      /\ b \in Seq(Int) /\ Len(b) = n /\ \A i \in 1..n : b[i] = Scale * t[i] - mean
  BY TransformType
<1>3. w \in Seq(Int) /\ Len(w) = m + n /\ \A i \in 1..(m + n) : w[i] = Scale * u[i] - mean
  <2> HIDE DEF u, m, n
  <2>1. w \in Seq(Int) /\ Len(w) = Len(u) /\ \A i \in 1..Len(u) : w[i] = Scale * u[i] - mean
    BY <1>1, TransformType
  <2> QED
    BY <1>1, <2>1
<1>4. \A i \in 1..(m + n) : u[i] = IF i <= m THEN s[i] ELSE t[i - m]
  BY ConcatProperties
<1> HIDE DEF a, b, w
<1>5. v \in Seq(Int) /\ Len(v) = m + n /\ \A i \in 1..(m + n) : v[i] = IF i <= m THEN a[i] ELSE b[i - m]
  <2> HIDE DEF m, n
  <2>1. v \in Seq(Int) /\ Len(v) = Len(a) + Len(b)
        /\ \A i \in 1..(Len(a) + Len(b)) : v[i] = IF i <= Len(a) THEN a[i] ELSE b[i - Len(a)]
    BY <1>2, ConcatProperties
  <2> QED
    BY <1>2, <2>1
<1> HIDE DEF u, v, m, n
<1>6. ASSUME NEW i \in 1..(m + n) PROVE w[i] = v[i]
  <2>1. CASE i <= m
    <3>1. i \in 1..m
      BY <1>1, <2>1
    <3>2. w[i] = Scale * u[i] - mean /\ u[i] = s[i]
      BY <1>3, <1>4, <2>1
    <3>3. v[i] = a[i]
      BY <1>5, <2>1
    <3>4. a[i] = Scale * s[i] - mean
      BY <1>2, <3>1
    <3> QED
      BY <3>2, <3>3, <3>4
  <2>2. CASE ~(i <= m)
    <3>1. i - m \in 1..n
      BY <1>1, <2>2
    <3>2. w[i] = Scale * u[i] - mean /\ u[i] = t[i - m]
      BY <1>3, <1>4, <2>2
    <3>3. v[i] = b[i - m]
      BY <1>5, <2>2
    <3>4. b[i - m] = Scale * t[i - m] - mean
      BY <1>2, <3>1
    <3> QED
      BY <3>2, <3>3, <3>4
  <2> QED
    BY <2>1, <2>2
<1>7. w = v
  BY <1>3, <1>5, <1>6, SeqEqual
<1> QED
  BY <1>7 DEF u, v, w, a, b

(* The bank that the replay of the spool ends with.                        *)
LEMMA ReplayedStreamed ==
  ASSUME NEW all \in Seq(Int), all = Take(spool.data, stats.count), stats.mean \in Int
  PROVE  Streamed(ReplayedBank, Transform(all, stats.mean), CeilDiv(Len(all), StreamChunk))
<1> DEFINE mean == stats.mean
           D == Seq(Int)
           chunks == ChunksOf(all, StreamChunk)
           k == CeilDiv(Len(all), StreamChunk)
           next(d, c) == reduceBank(d \o Transform(chunks[c], mean), Budget)
           step == [c \in 1..k |-> [d \in D |-> next(d, c)]]
<1>1. mean \in Int /\ StreamChunk \in Nat \ {0} /\ Budget \in Nat \ {0}
  BY PatchCoreFitAssumption
<1>2. /\ k \in Nat /\ Len(chunks) = k
      /\ \A c \in 1..k : /\ chunks[c] \in D /\ Len(chunks[c]) > 0
                         /\ UpTo(all, c - 1, StreamChunk) \in D
                         /\ UpTo(all, c, StreamChunk) = UpTo(all, c - 1, StreamChunk) \o chunks[c]
      /\ UpTo(all, 0, StreamChunk) = <<>> /\ UpTo(all, k, StreamChunk) = all
  <2>1. ChunksSplit(Int, all, StreamChunk, chunks, k)
    BY <1>1, ChunkProperties
  <2> HIDE DEF chunks, k
  <2> QED
    BY <2>1 DEF ChunksSplit
<1> HIDE DEF chunks, k, mean
<1>3. ASSUME NEW c \in 1..k
      PROVE  Transform(chunks[c], mean) \in D /\ Len(Transform(chunks[c], mean)) > 0
  <2> DEFINE piece == chunks[c]
  <2>1. piece \in D /\ Len(piece) > 0
    BY <1>2
  <2> HIDE DEF piece
  <2>2. Transform(piece, mean) \in Seq(Int) /\ Len(Transform(piece, mean)) = Len(piece)
    BY <1>1, <2>1, TransformType
  <2> QED
    BY <2>1, <2>2 DEF piece
<1>4. ASSUME NEW c \in 1..k, NEW d \in D PROVE next(d, c) \in D
  <2> DEFINE piece == Transform(chunks[c], mean)
             data == d \o piece
  <2>1. piece \in Seq(Int) /\ Len(piece) > 0 /\ Len(piece) \in Nat /\ Len(d) \in Nat
    BY <1>3, LenProperties
  <2> HIDE DEF piece
  <2>2. data \in Seq(Int) /\ Len(data) = Len(d) + Len(piece)
    BY <2>1, ConcatProperties
  <2>3. data # <<>>
    <3>1. Len(<<>>) = 0 /\ Len(data) > 0
      BY <2>1, <2>2, EmptySeq
    <3> HIDE DEF data
    <3> QED
      BY <3>1
  <2> HIDE DEF data
  <2>4. Selection(data, reduceBank(data, Budget))
    BY <1>1, <2>2, <2>3, ReducedSelection
  <2> QED
    BY <2>4 DEF Selection, data, piece
<1>5. step \in [1..k -> [D -> D]]
  <2> HIDE DEF D, next
  <2> QED
    BY <1>4
<1>6. \E f : Iteration(f, k, D, <<>>, step)
  <2>1. <<>> \in D
    BY EmptySeq
  <2> HIDE DEF D, step
  <2> QED
    BY <1>2, <1>5, <2>1, Iterates
<1>7. PICK f \in [0..k -> D] : f[0] = <<>> /\ \A i \in 1..k : f[i] = step[i][f[i - 1]]
  BY <1>6 DEF Iteration
<1>8. \A i \in 1..k : f[i] = next(f[i - 1], i)
  <2> SUFFICES ASSUME NEW i \in 1..k PROVE f[i] = next(f[i - 1], i)
    OBVIOUS
  <2>1. f[i - 1] \in D
    BY <1>2, <1>7
  <2>2. step[i] = [d \in D |-> next(d, i)]
    OBVIOUS
  <2> HIDE DEF next, step
  <2> QED
    BY <1>7, <2>1, <2>2
<1> HIDE DEF step
<1> DEFINE h == CHOOSE g : g = [c \in 0..k |-> IF c = 0 THEN <<>> ELSE next(g[c - 1], c)]
<1>9. f = [c \in 0..k |-> IF c = 0 THEN <<>> ELSE next(f[c - 1], c)]
  <2>1. ASSUME NEW c \in 0..k PROVE f[c] = IF c = 0 THEN <<>> ELSE next(f[c - 1], c)
    <3>1. CASE c = 0
      BY <1>7, <3>1
    <3>2. CASE c # 0
      <4>1. c \in 1..k
        BY <1>2, <3>2
      <4> HIDE DEF next
      <4> QED
        BY <1>8, <3>2, <4>1
    <3> QED
      BY <3>1, <3>2
  <2> DEFINE e(c) == IF c = 0 THEN <<>> ELSE next(f[c - 1], c)
  <2>2. \A c \in 0..k : f[c] = e(c)
    BY <2>1
  <2> HIDE DEF e
  <2>3. f = [c \in 0..k |-> e(c)]
    BY <1>7, <2>2
  <2> QED
    BY <2>3 DEF e
<1>10. h = [c \in 0..k |-> IF c = 0 THEN <<>> ELSE next(h[c - 1], c)]
  <2> HIDE DEF next
  <2> QED
    BY <1>9
<1>11. ReplayedBank = h[k]
  <2>1. CommittedChunks = chunks
    BY DEF CommittedChunks, chunks
  <2>2. Len(chunks) = k
    BY <1>2
  <2> HIDE DEF chunks
  <2> QED
    BY <2>1, <2>2 DEF ReplayedBank, mean
<1> HIDE DEF h
<1> DEFINE sofar(c) == Transform(UpTo(all, c, StreamChunk), mean)
           T == {c \in Nat : c <= k => Streamed(h[c], sofar(c), c)}
<1>12. 0 \in T
  <2>1. h[0] = <<>>
    <3> HIDE DEF next
    <3> QED
      BY <1>2, <1>10
  <2>2. sofar(0) = <<>>
    <3>1. <<>> \in Seq(Int) /\ Len(<<>>) = 0
      BY EmptySeq
    <3> DEFINE none == <<>>
               t == Transform(none, mean)
    <3>2. none \in Seq(Int) /\ Len(none) = 0
      BY <3>1
    <3> HIDE DEF none
    <3>3. t \in Seq(Int) /\ Len(t) = 0
      BY <1>1, <3>2, TransformType
    <3> HIDE DEF t
    <3>4. t = <<>>
      BY <3>3, EmptySeq
    <3> QED
      BY <1>2, <3>4 DEF t, none
  <2> QED
    BY <2>1, <2>2, NothingStreamed
<1>13. ASSUME NEW c \in Nat, c \in T PROVE c + 1 \in T
  <2> SUFFICES ASSUME c + 1 <= k PROVE Streamed(h[c + 1], sofar(c + 1), c + 1)
    OBVIOUS
  <2> DEFINE bank == h[c]
             before == UpTo(all, c, StreamChunk)
             old == Transform(before, mean)
             raw == chunks[c + 1]
             piece == Transform(raw, mean)
  <2>1. c + 1 \in 1..k /\ c + 1 \in 0..k /\ (c + 1) - 1 = c /\ c + 1 # 0 /\ c <= k
    BY <1>2
  <2>2. Streamed(bank, old, c)
    BY <1>13, <2>1
  <2>3. h[c + 1] = reduceBank(bank \o piece, Budget)
    BY <1>10, <2>1
  <2>4. /\ raw \in Seq(Int) /\ Len(raw) > 0 /\ before \in Seq(Int)
        /\ UpTo(all, c + 1, StreamChunk) = before \o raw
    BY <1>2, <2>1
  <2>5. piece \in Seq(Int) /\ Len(piece) > 0
    BY <1>3, <2>1
  <2>6. sofar(c + 1) = old \o piece
    <3> HIDE DEF before, raw
    <3>1. Transform(before \o raw, mean) = Transform(before, mean) \o Transform(raw, mean)
      BY <1>1, <2>4, TransformConcat
    <3> QED
      BY <2>4, <3>1
  <2> HIDE DEF bank, old, piece, sofar, T, before, raw
  <2>7. Streamed(reduceBank(bank \o piece, Budget), old \o piece, c + 1)
    BY <2>2, <2>5, StreamedStep
  <2> QED
    BY <2>3, <2>6, <2>7
<1>14. k \in T
  <2>1. \A c \in Nat : c \in T
    <3> HIDE DEF T
    <3> QED
      BY <1>12, <1>13, SetInduction
  <2> QED
    BY <1>2, <2>1
<1>15. Streamed(h[k], Transform(all, mean), k)
  BY <1>2, <1>14
<1> QED
  BY <1>11, <1>15 DEF k, mean

-----------------------------------------------------------------------------
(* The bank that a finalize call has saved.                                *)

(* The target of buildCoreset is at least one row and at most all.         *)
LEMMA TargetType ==
  ASSUME NEW n \in Nat \ {0}
  PROVE  TargetCount(n) \in 1..n
<1> DEFINE a == n * RatioNum
           k == CeilDiv(a, RatioDen)
<1>1. /\ RatioNum \in Nat /\ RatioDen \in Nat \ {0} /\ RatioNum <= RatioDen
      /\ n \in Nat /\ n >= 1
  BY PatchCoreFitAssumption
<1>2. a \in Nat /\ a <= n * RatioDen
  <2>1. n * RatioNum \in Nat
    BY <1>1
  <2>2. n * (RatioDen - RatioNum) >= 0
    BY <1>1
  <2>3. n * RatioDen = n * RatioNum + n * (RatioDen - RatioNum)
    BY <1>1
  <2> QED
    BY <1>1, <2>1, <2>2, <2>3
<1> HIDE DEF a
<1>3. k \in Nat /\ \A c \in 1..k : (c - 1) * RatioDen < a
  BY <1>1, <1>2, CeilDivProperties
<1> HIDE DEF k
<1>4. k <= n
  <2> SUFFICES ASSUME ~(k <= n) PROVE FALSE
    OBVIOUS
  <2>1. n + 1 \in 1..k /\ (n + 1) - 1 = n
    BY <1>1, <1>3
  <2>2. n * RatioDen < a
    BY <1>3, <2>1
  <2>3. n * RatioDen \in Int
    BY <1>1
  <2> QED
    BY <1>2, <2>2, <2>3
<1>5. TargetCount(n) = Max({1, k})
  BY DEF TargetCount, k, a
<1>6. Max({1, k}) \in {1, k} /\ 1 <= Max({1, k})
  <2> DEFINE two == {1, k}
  <2>1. two \subseteq Int /\ two # {} /\ 1 \in two
    BY <1>3
  <2>2. IsFiniteSet(two)
    <3>1. IsFiniteSet({}) /\ IsFiniteSet({} \cup {1}) /\ IsFiniteSet(({} \cup {1}) \cup {k})
      BY FS_EmptySet, FS_AddElement
    <3>2. two = ({} \cup {1}) \cup {k}
      OBVIOUS
    <3> QED
      BY <3>1, <3>2
  <2> HIDE DEF two
  <2>3. Max(two) \in two /\ \A y \in two : y <= Max(two)
    BY <2>1, <2>2, FiniteExtremes
  <2> QED
    BY <2>1, <2>3 DEF two
<1> QED
  BY <1>1, <1>3, <1>4, <1>5, <1>6

(* What is known of the bank of the original variant.                      *)
Kept(bank, all, greedy) ==
  /\ bank \in Seq(Int) /\ Len(bank) = TargetCount(Len(all))
  /\ NoMoreOften(bank, all)
  /\ greedy => Selection(all, bank)

(* buildCoreset, in all three cases.                                       *)
LEMMA CoresetKept ==
  ASSUME features \in Seq(Int), features # <<>>, NEW bank \in Coresets
  PROVE  Kept(bank, features, ~TooManyDistances(Len(features)))
<1> DEFINE n == Len(features)
           k == TargetCount(n)
<1>1. n \in Nat \ {0}
  BY EmptySeq, LenProperties
<1>2. k \in 1..n
  <2> HIDE DEF n
  <2> QED
    BY <1>1, TargetType
<1>3. bank \in IF k >= n THEN {features}
               ELSE IF TooManyDistances(n) THEN {Rows(features, s) : s \in Shuffles(n, k)}
               ELSE {Rows(features, FarthestFirst(features, first, k)) : first \in 1..n}
  BY DEF Coresets
<1>4. CASE k >= n
  <2>1. bank = features /\ n = k
    BY <1>1, <1>2, <1>3, <1>4
  <2> QED
    BY <2>1, WholeSelection DEF Kept
<1>5. CASE ~(k >= n) /\ TooManyDistances(n)
  <2>1. PICK s \in Shuffles(n, k) : bank = Rows(features, s)
    BY <1>3, <1>5
  <2>2. s \in [1..k -> 1..n] /\ \A i, j \in 1..k : s[i] = s[j] => i = j
    <3> HIDE DEF n, k
    <3> QED
      BY <2>1 DEF Shuffles, IsInjective
  <2>3. k \in Nat
    BY <1>2
  <2> HIDE DEF k
  <2>4. bank \in Seq(Int) /\ Len(bank) = k /\ NoMoreOften(bank, features)
    BY <2>1, <2>2, <2>3, RowsProperties
  <2> QED
    BY <1>5, <2>4 DEF Kept, k
<1>6. CASE ~(k >= n) /\ ~TooManyDistances(n)
  <2>1. PICK first \in 1..n : bank = Rows(features, FarthestFirst(features, first, k))
    BY <1>3, <1>6
  <2> DEFINE s == FarthestFirst(features, first, k)
  <2> HIDE DEF k
  <2>2. Picked(features, s, k)
    BY <1>2, PickedAll
  <2> HIDE DEF s
  <2>3. /\ Selection(features, Rows(features, s)) /\ NoMoreOften(Rows(features, s), features)
        /\ Len(Rows(features, s)) = k
    BY <1>2, <2>2, PickedSelection
  <2>4. bank = Rows(features, s)
    BY <2>1 DEF s
  <2> QED
    BY <2>3, <2>4 DEF Kept, Selection, k
<1> QED
  BY <1>4, <1>5, <1>6

(* What is known of the bank that has just been saved.                     *)
ArtifactHeld ==
  artifact.state = "whole" =>
    /\ variant = "original" =>
         accepted # <<>> /\ Kept(artifact.bank, accepted, artifact.greedy)
    /\ variant = "mahalanobis" =>
         /\ accepted # <<>> /\ stats.mean \in Int
         /\ Streamed(artifact.bank, Transform(accepted, stats.mean),
                     CeilDiv(Len(accepted), StreamChunk))

(* saveArtifacts of either variant saves such a bank.                      *)
LEMMA SaveArtifactsHeld ==
  ASSUME FInv, SaveArtifacts
  PROVE  ArtifactHeld'
<1>1. UNCHANGED <<variant, gpu, features, stats, spool, accepted, checkpoint>>
  BY DEF SaveArtifacts, fit
<1>2. accepted \in Seq(Points) /\ accepted \in Seq(Int) /\ Len(accepted) <= MaxPatches /\ Len(accepted) \in Nat
  BY PatchTypes, LenProperties DEF FInv, PatchCoreTypes
<1>3. CASE SaveCoreset
  <2>1. variant = "original" /\ features # <<>> /\ features = accepted
    BY <1>3 DEF SaveCoreset, FInv, FitHeld
  <2>2. PICK bank \in Coresets :
          artifact' \in {[state |-> s, bank |-> bank,
                          greedy |-> ~TooManyDistances(Len(features))] : s \in {"torn", "whole"}}
    BY <1>3 DEF SaveCoreset
  <2>3. Kept(bank, features, ~TooManyDistances(Len(features)))
    BY <1>2, <2>1, CoresetKept
  <2>4. artifact'.bank = bank /\ artifact'.greedy = ~TooManyDistances(Len(features))
    BY <2>2
  <2> DEFINE greedy == ~TooManyDistances(Len(features))
  <2> HIDE DEF greedy
  <2>5. Kept(bank, accepted, greedy) /\ artifact'.bank = bank /\ artifact'.greedy = greedy
    BY <2>1, <2>3, <2>4 DEF greedy
  <2>6. Kept(artifact'.bank, accepted', artifact'.greedy)
    BY <1>1, <2>5
  <2> QED
    BY <1>1, <2>1, <2>6 DEF ArtifactHeld
<1>4. CASE SaveStatistics /\ variant = "mahalanobis"
  <2>1. Counted(stats, accepted) /\ Take(spool.data, stats.count) = accepted /\ stats.count >= 2
    BY <1>4 DEF SaveStatistics, FInv, FitHeld
  <2>2. accepted # <<>> /\ stats = Moments(accepted) /\ Len(accepted) \in 1..MaxPatches
    <3>1. Len(accepted) >= 2
      BY <2>1 DEF Counted
    <3>2. accepted # <<>>
      BY <1>2, <3>1, EmptySeq
    <3> QED
      BY <1>2, <2>1, <3>1, <3>2, PatchTypes DEF Counted
  <2>3. stats.mean \in Int
    <3>1. PICK p \in Int : Moments(accepted) =
             [count |-> Len(accepted), mean |-> p * Total(accepted),
              m2 |-> Scale * Total(Squares(accepted)) - p * (Total(accepted) * Total(accepted))]
      BY <1>2, <2>2, MomentsOf
    <3>2. Total(accepted) \in Int
      BY <1>2, TotalType
    <3>3. Moments(accepted).mean = p * Total(accepted)
      BY <3>1
    <3> QED
      BY <2>2, <3>2, <3>3
  <2>4. Streamed(ReplayedBank, Transform(accepted, stats.mean), CeilDiv(Len(accepted), StreamChunk))
    BY <1>2, <2>1, <2>3, ReplayedStreamed
  <2>5. artifact'.state = "whole" => artifact'.bank = ReplayedBank
    <3> DEFINE bank == ReplayedBank
    <3>1. artifact' \in {[state |-> "torn", bank |-> <<>>, greedy |-> TRUE]} \cup
                        IF spool.open /\ Len(bank) >= Neighbors
                        THEN {[state |-> "whole", bank |-> bank, greedy |-> TRUE]} ELSE {}
      BY <1>4 DEF SaveStatistics
    <3> HIDE DEF bank
    <3>2. artifact'.state = "whole" => artifact'.bank = bank
      BY <3>1
    <3> QED
      BY <3>2 DEF bank
  <2>6. artifact'.state = "whole" =>
          Streamed(artifact'.bank, Transform(accepted', stats'.mean), CeilDiv(Len(accepted'), StreamChunk))
    BY <1>1, <2>4, <2>5
  <2> QED
    BY <1>1, <1>4, <2>2, <2>3, <2>6 DEF ArtifactHeld
<1>5. CASE SaveStatistics /\ variant # "mahalanobis"
  <2>1. variant' # "original" /\ variant' # "mahalanobis"
    BY <1>1, <1>5 DEF SaveStatistics
  <2> QED
    BY <2>1 DEF ArtifactHeld
<1> QED
  BY <1>3, <1>4, <1>5 DEF SaveArtifacts

(* Every step keeps what is known of the saved bank: no step that changes  *)
(* the fit leaves the files of an earlier call as current.                 *)
LEMMA NextArtifactHeld ==
  FInv /\ ArtifactHeld /\ [PatchCoreNext]_patchCoreVars => ArtifactHeld'
<1> SUFFICES ASSUME FInv, ArtifactHeld, [PatchCoreNext]_patchCoreVars PROVE ArtifactHeld'
  OBVIOUS
<1>1. ASSUME artifact' = NoArtifact PROVE ArtifactHeld'
  BY <1>1 DEF ArtifactHeld, NoArtifact
<1>2. ASSUME NEW b \in Batches, AddOriginal(b) \/ AddStatistical(b) \/ ImportBank(b)
      PROVE  ArtifactHeld'
  BY <1>1, <1>2 DEF AddOriginal, AddStatistical, AddStatisticalAt, ImportBank
<1>3. CASE SaveArtifacts
  BY <1>3, SaveArtifactsHeld
<1>4. CASE SaveCheckpoint \/ LoadCheckpoint \/ Clear \/ Restart
  BY <1>1, <1>4 DEF SaveCheckpoint, SaveCheckpointOf, LoadCheckpoint, Clear, Restart
<1>5. CASE UNCHANGED patchCoreVars
  <2>1. UNCHANGED <<variant, stats, accepted, artifact>>
    BY <1>5 DEF patchCoreVars, fit
  <2> QED
    BY <2>1 DEF ArtifactHeld
<1> QED
  BY <1>2, <1>3, <1>4, <1>5 DEF PatchCoreNext

(* A bank saved by saveArtifacts is a farthest-first or random coreset of  *)
(* the accepted patches, or what the replay of the spool makes of all of   *)
(* them.                                                                   *)
THEOREM ArtifactsHeld == PatchCoreSpec => []ArtifactHeld
<1>1. InitPatchCore => ArtifactHeld
  BY DEF InitPatchCore, ArtifactHeld, NoArtifact
<1> QED
  BY <1>1, PatchCoreSafety, NextArtifactHeld, PTL DEF PatchCoreSpec

-----------------------------------------------------------------------------
(* The two properties of the bank.                                         *)

(* The transformation keeps different patches different.                   *)
LEMMA TransformKeepsDistinct ==
  ASSUME NEW s \in Seq(Int), NEW m \in Int
  PROVE  Cardinality(ToSet(Transform(s, m))) = Cardinality(ToSet(s))
<1> DEFINE t == Transform(s, m)
           A == ToSet(s)
           B == ToSet(t)
           f == [x \in A |-> Scale * x - m]
<1>1. /\ Len(s) \in Nat /\ t \in Seq(Int) /\ Len(t) = Len(s)
      /\ \A i \in 1..Len(s) : t[i] = Scale * s[i] - m
  BY TransformType, LenProperties
<1>2. /\ IsFiniteSet(A) /\ A \subseteq Int
      /\ \A i \in 1..Len(s) : s[i] \in A
      /\ \A x \in A : \E i \in 1..Len(s) : s[i] = x
  BY ToSetFinite
<1> HIDE DEF t
<1>3. /\ \A i \in 1..Len(s) : t[i] \in B
      /\ \A y \in B : \E i \in 1..Len(s) : t[i] = y
  <2>1. /\ \A i \in 1..Len(t) : t[i] \in ToSet(t)
        /\ \A y \in ToSet(t) : \E i \in 1..Len(t) : t[i] = y
    BY <1>1, ToSetFinite
  <2> QED
    BY <1>1, <2>1
<1> HIDE DEF A, B
<1>4. f \in [A -> B]
  <2> SUFFICES ASSUME NEW x \in A PROVE Scale * x - m \in B
    OBVIOUS
  <2>1. PICK i \in 1..Len(s) : s[i] = x
    BY <1>2
  <2> QED
    BY <1>1, <1>3, <2>1
<1>5. ASSUME NEW x \in A, NEW y \in A, f[x] = f[y] PROVE x = y
  <2>1. x \in Int /\ y \in Int /\ Scale * x - m = Scale * y - m
    BY <1>2, <1>5
  <2>2. Scale \in Nat /\ Scale > 0
    BY PatchTypes
  <2>3. ASSUME NEW a \in Int, NEW b \in Int, a < b PROVE Scale * a < Scale * b
    <3>1. Scale * b = Scale * a + Scale * (b - a)
      BY <2>2, <2>3
    <3>2. Scale * (b - a) > 0
      BY <2>2, <2>3
    <3>3. Scale * a \in Int /\ Scale * (b - a) \in Int
      BY <2>2, <2>3
    <3> QED
      BY <3>1, <3>2, <3>3
  <2>4. Scale * x = Scale * y /\ Scale * x \in Int
    <3>1. Scale * x \in Int /\ Scale * y \in Int
      BY <2>1, <2>2
    <3> QED
      BY <2>1, <3>1
  <2>5. ~(x < y) /\ ~(y < x)
    BY <2>1, <2>3, <2>4
  <2> QED
    BY <2>1, <2>5
<1>6. ASSUME NEW y \in B PROVE \E x \in A : f[x] = y
  <2>1. PICK i \in 1..Len(s) : t[i] = y
    BY <1>3
  <2> QED
    BY <1>1, <1>2, <2>1
<1>7. ExistsBijection(A, B)
  <2>1. DOMAIN f = A
    OBVIOUS
  <2> HIDE DEF f
  <2>2. f \in Bijection(A, B)
    BY <1>4, <1>5, <1>6, <2>1 DEF Bijection, Injection, Surjection, IsInjective
  <2> QED
    BY <2>2 DEF ExistsBijection
<1>8. Cardinality(B) = Cardinality(A)
  BY <1>2, <1>7, FS_Bijection
<1> QED
  BY <1>8 DEF A, B, t

(* The best radius is that of some centers.                                *)
LEMMA BestRadiusReached ==
  ASSUME NEW S, S \subseteq Int, S # {}, IsFiniteSet(S), NEW K \in Nat \ {0}
  PROVE  \E C \in SUBSET S :
           /\ C # {} /\ IsFiniteSet(C) /\ Cardinality(C) <= K
           /\ BestRadius(S, K) = Radius(S, C)
<1> DEFINE F == UNION {kSubset(j, S) : j \in 1..Least(K, Cardinality(S))}
           W == {Radius(S, C) : C \in F}
           f == [C \in F |-> Radius(S, C)]
<1>1. Cardinality(S) \in Nat \ {0}
  BY FS_CardinalityType, FS_EmptySet
<1>2. Least(K, Cardinality(S)) \in Nat \ {0} /\ Least(K, Cardinality(S)) <= K
  BY <1>1 DEF Least
<1>3. ASSUME NEW C \in F
      PROVE  C \in SUBSET S /\ C # {} /\ IsFiniteSet(C) /\ Cardinality(C) <= K
  <2>1. PICK j \in 1..Least(K, Cardinality(S)) : C \in kSubset(j, S)
    OBVIOUS
  <2>2. C \in SUBSET S /\ Cardinality(C) = j
    BY <2>1 DEF kSubset
  <2>3. j \in Nat /\ j > 0 /\ j <= K
    BY <1>2
  <2>4. IsFiniteSet(C)
    BY <2>2, FS_Subset
  <2>5. C # {}
    BY <2>2, <2>3, FS_EmptySet
  <2> QED
    BY <2>2, <2>3, <2>4, <2>5
<1>4. F # {}
  <2>1. PICK x \in S : TRUE
    OBVIOUS
  <2>2. Cardinality({x}) = 1 /\ {x} \in SUBSET S
    BY FS_Singleton
  <2>3. {x} \in kSubset(1, S)
    BY <2>2 DEF kSubset
  <2>4. 1 \in 1..Least(K, Cardinality(S))
    BY <1>2
  <2> QED
    BY <2>3, <2>4
<1>5. IsFiniteSet(F)
  <2>1. IsFiniteSet(SUBSET S)
    BY FS_SUBSET
  <2>2. F \in SUBSET (SUBSET S)
    <3> HIDE DEF F
    <3> QED
      BY <1>3
  <2> HIDE DEF F
  <2> QED
    BY <2>1, <2>2, FS_Subset
<1> HIDE DEF F
<1>6. ASSUME NEW C \in F PROVE Radius(S, C) \in Int
  <2>1. C \subseteq Int /\ C # {} /\ IsFiniteSet(C)
    BY <1>3
  <2>2. Radius(S, C) \in Nat
    BY <2>1, RadiusProperties
  <2> QED
    BY <2>2
<1>7. W \subseteq Int /\ W # {}
  BY <1>4, <1>6
<1>8. IsFiniteSet(W)
  <2>1. f \in [F -> W] /\ \A w \in W : \E C \in F : f[C] = w
    OBVIOUS
  <2> HIDE DEF f, W
  <2> QED
    BY <1>5, <2>1, ImageFinite
<1>9. Min(W) \in W
  <2> HIDE DEF W
  <2> QED
    BY <1>7, <1>8, FiniteExtremes
<1>10. BestRadius(S, K) = Min(W)
  BY DEF BestRadius, F
<1>11. PICK C \in F : Min(W) = Radius(S, C)
  <2> DEFINE r == Min(W)
  <2>1. r \in W
    BY <1>9
  <2> HIDE DEF r
  <2>2. \E C \in F : r = Radius(S, C)
    BY <2>1
  <2> QED
    BY <2>2 DEF r
<1> HIDE DEF W
<1> QED
  BY <1>3, <1>10, <1>11

(* What covers within twice any centers' radius, c times, does so for the  *)
(* best.                                                                   *)
LEMMA CoversBest ==
  ASSUME NEW S, S \subseteq Int, S # {}, IsFiniteSet(S),
         NEW B, B \subseteq Int, B # {}, IsFiniteSet(B),
         NEW K \in Nat \ {0}, NEW c \in Nat,
         \A C, rho : /\ C \subseteq Int /\ C # {} /\ IsFiniteSet(C) /\ Cardinality(C) <= K
                     /\ rho \in Nat /\ Covers(S, C, rho)
                     => Covers(S, B, (2 * c) * rho)
  PROVE  Radius(S, B) <= 2 * c * BestRadius(S, K)
<1>1. PICK C \in SUBSET S :
        /\ C # {} /\ IsFiniteSet(C) /\ Cardinality(C) <= K
        /\ BestRadius(S, K) = Radius(S, C)
  BY BestRadiusReached
<1> DEFINE rho == Radius(S, C)
<1>2. C \subseteq Int
  BY <1>1
<1>3. rho \in Nat /\ \A x \in S : ToNearest(x, C) <= rho
  BY <1>1, <1>2, RadiusProperties
<1> HIDE DEF rho
<1>4. Covers(S, C, rho)
  BY <1>3 DEF Covers
<1>5. Covers(S, B, (2 * c) * rho)
  BY <1>1, <1>2, <1>3, <1>4
<1>6. PICK x \in S : Radius(S, B) = ToNearest(x, B)
  BY RadiusProperties
<1>7. ToNearest(x, B) <= (2 * c) * rho
  BY <1>5 DEF Covers
<1>8. BestRadius(S, K) = rho
  BY <1>1 DEF rho
<1> QED
  BY <1>6, <1>7, <1>8

(* The bank there is, in the words of the invariant.                       *)
LEMMA BankHeld ==
  ASSUME FInv, ArtifactHeld, HasBank
  PROVE  /\ variant \in {"original", "mahalanobis"}
         /\ accepted \in Seq(Int) /\ accepted # <<>>
         /\ variant = "original" => Kept(artifact.bank, accepted, artifact.greedy)
         /\ variant = "mahalanobis" =>
              /\ stats.mean \in Int
              /\ Streamed(artifact.bank, Transform(accepted, stats.mean),
                          CeilDiv(Len(accepted), StreamChunk))
<1>1. variant \in Variants /\ variant # "subspace_ad" /\ artifact.state = "whole"
  BY DEF FInv, PatchCoreTypes, HasBank
<1>2. accepted \in Seq(Int)
  BY PatchTypes DEF FInv, PatchCoreTypes
<1> QED
  BY <1>1, <1>2 DEF ArtifactHeld, Variants

(* The invariant implies the size and the members of the bank.             *)
LEMMA HeldRepresentative ==
  ASSUME FInv, ArtifactHeld
  PROVE  BankRepresentative
<1> DEFINE bank == artifact.bank
           greedy == artifact.greedy
<1> SUFFICES ASSUME HasBank
    PROVE /\ Len(bank) = (IF variant = "original" THEN TargetCount(Len(accepted))
                          ELSE Least(Budget, Len(accepted)))
          /\ \A p \in ToSet(bank) : Bagged(bank, p) <= Bagged(Candidates, p)
          /\ greedy => Cardinality(ToSet(bank)) = Least(Len(bank), Cardinality(ToSet(accepted)))
  BY DEF BankRepresentative
<1>1. CASE variant = "original"
  <2>1. Kept(bank, accepted, greedy) /\ Candidates = accepted /\ accepted \in Seq(Int)
    BY <1>1, BankHeld DEF Candidates
  <2> HIDE DEF bank, greedy
  <2>2. greedy => Cardinality(ToSet(bank)) = Least(Len(bank), Cardinality(ToSet(accepted)))
    BY <2>1, SelectionDistinct DEF Kept
  <2> QED
    BY <1>1, <2>1, <2>2 DEF Kept, NoMoreOften
<1>2. CASE variant = "mahalanobis"
  <2> DEFINE all == Transform(accepted, stats.mean)
             c == CeilDiv(Len(accepted), StreamChunk)
  <2>1. Streamed(bank, all, c) /\ Candidates = all
    BY <1>2, BankHeld DEF Candidates
  <2>2. accepted \in Seq(Int) /\ stats.mean \in Int
    BY <1>2, BankHeld
  <2>3. Len(all) = Len(accepted) /\ Cardinality(ToSet(all)) = Cardinality(ToSet(accepted))
    BY <2>2, TransformType, TransformKeepsDistinct
  <2> HIDE DEF bank, greedy, all, c
  <2>4. /\ Len(bank) = Least(Budget, Len(accepted)) /\ NoMoreOften(bank, all)
        /\ Cardinality(ToSet(bank)) = Least(Len(bank), Cardinality(ToSet(accepted)))
    BY <2>1, <2>3 DEF Streamed
  <2> QED
    BY <1>2, <2>1, <2>4 DEF NoMoreOften
<1> QED
  BY <1>1, <1>2, BankHeld

(* The invariant implies the quality of the bank.                          *)
LEMMA HeldCovers ==
  ASSUME FInv, ArtifactHeld
  PROVE  BankCovers
<1> DEFINE bank == artifact.bank
           S == ToSet(Candidates)
           B == ToSet(bank)
           K == Len(bank)
<1> SUFFICES ASSUME HasBank, artifact.greedy
             PROVE  Radius(S, B) <= 2 * Reductions * BestRadius(S, K)
  BY DEF BankCovers
<1>1. accepted \in Seq(Int) /\ accepted # <<>> /\ Len(accepted) \in Nat /\ Len(accepted) > 0
  <2>1. accepted \in Seq(Int) /\ accepted # <<>>
    BY BankHeld
  <2> QED
    BY <2>1, EmptySeq, LenProperties
<1>2. CASE variant = "original"
  <2>1. Kept(bank, accepted, TRUE) /\ Candidates = accepted /\ Reductions = 1
    BY <1>2, BankHeld DEF Candidates, Reductions
  <2> DEFINE all == ToSet(accepted)
  <2> HIDE DEF bank
  <2>2. Selection(accepted, bank) /\ bank \in Seq(Int) /\ Len(bank) > 0 /\ K \in Nat \ {0}
    <3>1. Selection(accepted, bank)
      BY <2>1 DEF Kept
    <3> QED
      BY <3>1, LenProperties DEF Selection
  <2>3. all \subseteq Int /\ all # {} /\ IsFiniteSet(all)
    <3>1. 1 \in 1..Len(accepted)
      BY <1>1
    <3> QED
      BY <1>1, <3>1, ToSetFinite
  <2>4. B \subseteq Int /\ B # {} /\ IsFiniteSet(B)
    <3>1. 1 \in 1..Len(bank)
      BY <2>2
    <3> QED
      BY <2>2, <3>1, ToSetFinite
  <2>5. ASSUME NEW C, NEW rho, C \subseteq Int, C # {}, IsFiniteSet(C), Cardinality(C) <= K,
               rho \in Nat, Covers(all, C, rho)
        PROVE  Covers(all, B, (2 * 1) * rho)
    <3>1. Covers(ToSet(accepted), ToSet(bank), 2 * rho)
      BY <1>1, <2>2, <2>5, SelectionCovers
    <3>2. (2 * 1) * rho = 2 * rho
      BY <2>5
    <3> QED
      BY <3>1, <3>2
  <2> HIDE DEF all, B, K
  <2>6. Radius(all, B) <= 2 * 1 * BestRadius(all, K)
    <3>1. \A C, rho : /\ C \subseteq Int /\ C # {} /\ IsFiniteSet(C) /\ Cardinality(C) <= K
                      /\ rho \in Nat /\ Covers(all, C, rho)
                      => Covers(all, B, (2 * 1) * rho)
      BY <2>5
    <3> QED
      BY <2>2, <2>3, <2>4, <3>1, CoversBest
  <2> QED
    BY <2>1, <2>6 DEF all
<1>3. CASE variant = "mahalanobis"
  <2> DEFINE all == Transform(accepted, stats.mean)
             c == CeilDiv(Len(accepted), StreamChunk)
             s == ToSet(all)
  <2>1. Streamed(bank, all, c) /\ Candidates = all /\ stats.mean \in Int
    BY <1>3, BankHeld DEF Candidates
  <2>2. all \in Seq(Int) /\ Len(all) = Len(accepted)
    BY <1>1, <2>1, TransformType
  <2>3. Budget \in Nat \ {0} /\ StreamChunk \in Nat \ {0}
    BY PatchCoreFitAssumption
  <2>4. Reductions = c /\ c \in Nat
    <3>1. ChunksSplit(Int, accepted, StreamChunk, ChunksOf(accepted, StreamChunk), c)
      BY <1>1, <2>3, ChunkProperties
    <3>2. Len(ChunksOf(accepted, StreamChunk)) = c /\ c \in Nat
      <4> HIDE DEF c
      <4> QED
        BY <3>1 DEF ChunksSplit
    <3> QED
      BY <1>3, <3>2 DEF Reductions
  <2> HIDE DEF bank, all, c
  <2>5. bank \in Seq(Int) /\ K \in Nat \ {0} /\ K <= Budget
    <3>1. bank \in Seq(Int) /\ Len(bank) = Least(Budget, Len(all))
      BY <2>1 DEF Streamed
    <3> QED
      BY <1>1, <2>2, <2>3, <3>1 DEF Least
  <2>6. s \subseteq Int /\ s # {} /\ IsFiniteSet(s)
    <3>1. 1 \in 1..Len(all)
      BY <1>1, <2>2
    <3> QED
      BY <2>2, <3>1, ToSetFinite
  <2>7. B \subseteq Int /\ B # {} /\ IsFiniteSet(B)
    <3>1. 1 \in 1..Len(bank)
      BY <2>5
    <3> QED
      BY <2>5, <3>1, ToSetFinite
  <2>8. \A C \in Centers, rho \in Nat : Covers(s, C, rho) => Covers(s, B, (2 * c) * rho)
    BY <2>1 DEF Streamed
  <2> HIDE DEF s, B, K
  <2>9. ASSUME NEW C, NEW rho, C \subseteq Int, C # {}, IsFiniteSet(C), Cardinality(C) <= K,
               rho \in Nat, Covers(s, C, rho)
        PROVE  Covers(s, B, (2 * c) * rho)
    <3>1. Cardinality(C) <= Budget
      <4>1. Cardinality(C) \in Nat
        BY <2>9, FS_CardinalityType
      <4> QED
        BY <2>3, <2>5, <2>9, <4>1
    <3>2. C \in Centers
      BY <2>9, <3>1 DEF Centers
    <3> QED
      BY <2>8, <2>9, <3>2
  <2>10. Radius(s, B) <= 2 * c * BestRadius(s, K)
    <3>1. \A C, rho : /\ C \subseteq Int /\ C # {} /\ IsFiniteSet(C) /\ Cardinality(C) <= K
                      /\ rho \in Nat /\ Covers(s, C, rho)
                      => Covers(s, B, (2 * c) * rho)
      BY <2>9
    <3> QED
      BY <2>4, <2>5, <2>6, <2>7, <3>1, CoversBest
  <2> QED
    BY <2>1, <2>4, <2>10 DEF s
<1> QED
  BY <1>2, <1>3, BankHeld

(* A saved bank has the configured size, no more copies of a patch than    *)
(* were accepted, and repeats one only when there are not enough different *)
(* ones (buildCoreset, reduceBank, saveArtifacts).                         *)
THEOREM BanksRepresentative == PatchCoreSpec => []BankRepresentative
<1>1. FInv /\ ArtifactHeld => BankRepresentative
  BY HeldRepresentative
<1> QED
  BY <1>1, PatchCoreSafety, ArtifactsHeld, PTL

(* Every accepted patch is within twice the best possible radius of the    *)
(* bank, once for each reduction: farthest-first selection keeps its       *)
(* guarantee although the streaming reduction never sees all patches       *)
(* together.                                                               *)
THEOREM BanksCover == PatchCoreSpec => []BankCovers
<1>1. FInv /\ ArtifactHeld => BankCovers
  BY HeldCovers
<1> QED
  BY <1>1, PatchCoreSafety, ArtifactsHeld, PTL
=============================================================================
