----------------------------- MODULE ListProofs -----------------------------
(***************************************************************************)
(* What is proved of lists, and needed by the proofs about several         *)
(* components: orders of finite sets, lists of which some positions are    *)
(* kept, lists made of other lists, and folds.                             *)
(***************************************************************************)
EXTENDS Lists, SequencesExt, FiniteSetTheorems, WellFoundedInduction, TLAPS

----------------------------------------------------------------------------
(* Numbers *)

\* A set of natural numbers has a least one, which makes up for induction.
LEMMA SmallestOf ==
  ASSUME NEW T \in SUBSET Nat, T # {}
  PROVE  \E m \in T : \A k \in T : m <= k
<1>1. \E m \in T : \A k \in T : <<k, m>> \notin OpToRel(<, Nat)
  BY NatLessThanWellFounded, WFMin
<1>2. \A k, m \in Nat : <<k, m>> \notin OpToRel(<, Nat) => m <= k
  BY DEF OpToRel
<1> QED
  BY <1>1, <1>2

\* Induction over the numbers up to n, with a set for the predicate.
LEMMA Upwards ==
  ASSUME NEW n \in Nat, NEW T, 0 \in T,
         \A k \in 0 .. n - 1 : k \in T => k + 1 \in T
  PROVE  0 .. n \subseteq T
<1> SUFFICES ASSUME ~ (0 .. n \subseteq T) PROVE FALSE
  OBVIOUS
<1> DEFINE U == {k \in 0 .. n : k \notin T}
<1>1. U \in SUBSET Nat /\ U # {}
  OBVIOUS
<1>2. PICK m \in U : \A k \in U : m <= k
  <2> HIDE DEF U
  <2> QED
    BY <1>1, SmallestOf
<1>3. m \in Nat /\ m # 0 /\ m <= n /\ m \notin T
  OBVIOUS
<1>4. m - 1 \in 0 .. n - 1 /\ (m - 1) + 1 = m
  BY <1>3
<1>5. m - 1 \notin U
  BY <1>2, <1>3
<1> QED
  BY <1>3, <1>4, <1>5

LEMMA SubsetOfInterval ==
  ASSUME NEW n \in Nat, NEW S \in SUBSET (1 .. n)
  PROVE  IsFiniteSet(S) /\ Cardinality(S) \in Nat
<1>1. IsFiniteSet(1 .. n)
  BY FS_Interval
<1>2. IsFiniteSet(S)
  BY <1>1, FS_Subset
<1> QED
  BY <1>2, FS_CardinalityType

----------------------------------------------------------------------------
(* Orders *)

IsOrderOf(S, R) ==
  /\ \A x \in S : <<x, x>> \notin R
  /\ \A x, y \in S : x # y => <<x, y>> \in R \/ <<y, x>> \in R
  /\ \A x, y, z \in S : <<x, y>> \in R /\ <<y, z>> \in R => <<x, z>> \in R

Earlier(S, R, x) == {y \in S : <<y, x>> \in R}

\* Who comes later has more before it.
LEMMA EarlierGrows ==
  ASSUME NEW S, IsFiniteSet(S), NEW R, IsOrderOf(S, R)
  PROVE  /\ \A x \in S : Cardinality(Earlier(S, R, x)) \in 0 .. Cardinality(S) - 1
         /\ \A x, y \in S : <<x, y>> \in R =>
              Cardinality(Earlier(S, R, x)) < Cardinality(Earlier(S, R, y))
<1>0. \A x : IsFiniteSet(Earlier(S, R, x))
             /\ Cardinality(Earlier(S, R, x)) \in Nat
  <2>1. \A x : Earlier(S, R, x) \in SUBSET S
    BY DEF Earlier
  <2> QED
    BY <2>1, FS_Subset, FS_CardinalityType
<1>1. ASSUME NEW x \in S
      PROVE  Cardinality(Earlier(S, R, x)) \in 0 .. Cardinality(S) - 1
  <2>1. Earlier(S, R, x) \in SUBSET S /\ Earlier(S, R, x) # S
    BY DEF Earlier, IsOrderOf
  <2>2. /\ Cardinality(Earlier(S, R, x)) <= Cardinality(S)
        /\ Cardinality(Earlier(S, R, x)) # Cardinality(S)
        /\ Cardinality(S) \in Nat
    BY <2>1, FS_Subset, FS_CardinalityType
  <2> QED
    BY <1>0, <2>2
<1>2. ASSUME NEW x \in S, NEW y \in S, <<x, y>> \in R
      PROVE  Cardinality(Earlier(S, R, x)) < Cardinality(Earlier(S, R, y))
  <2>1. /\ Earlier(S, R, x) \in SUBSET Earlier(S, R, y)
        /\ x \in Earlier(S, R, y) /\ x \notin Earlier(S, R, x)
    BY <1>2 DEF Earlier, IsOrderOf
  <2>2. /\ Cardinality(Earlier(S, R, x)) <= Cardinality(Earlier(S, R, y))
        /\ Cardinality(Earlier(S, R, x)) # Cardinality(Earlier(S, R, y))
    BY <1>0, <2>1, FS_Subset
  <2> QED
    BY <1>0, <2>2
<1> QED
  BY <1>1, <1>2

\* Every number of predecessors occurs.
LEMMA EveryRank ==
  ASSUME NEW S, IsFiniteSet(S), NEW R, IsOrderOf(S, R)
  PROVE  /\ Cardinality(S) \in Nat
         /\ \A i \in 1 .. Cardinality(S) :
              \E x \in S : Cardinality(Earlier(S, R, x)) = i - 1
<1> DEFINE n == Cardinality(S)
           f == [x \in S |-> Cardinality(Earlier(S, R, x)) + 1]
<1>1. n \in Nat
  BY FS_CardinalityType
<1>2. /\ \A x \in S : Cardinality(Earlier(S, R, x)) \in 0 .. n - 1
      /\ \A x, y \in S : <<x, y>> \in R =>
           Cardinality(Earlier(S, R, x)) < Cardinality(Earlier(S, R, y))
  BY EarlierGrows
<1>3. f \in Injection(S, 1 .. n)
  <2>1. f \in [S -> 1 .. n]
    BY <1>1, <1>2
  <2>2. \A x, y \in S : x # y => f[x] # f[y]
    <3> SUFFICES ASSUME NEW x \in S, NEW y \in S, x # y PROVE f[x] # f[y]
      OBVIOUS
    <3>1. <<x, y>> \in R \/ <<y, x>> \in R
      BY DEF IsOrderOf
    <3>2. Cardinality(Earlier(S, R, x)) # Cardinality(Earlier(S, R, y))
      BY <1>1, <1>2, <3>1
    <3> QED
      BY <1>1, <1>2, <3>2
  <2> HIDE DEF f, n
  <2> QED
    BY <2>1, <2>2 DEF Injection, IsInjective
<1>4. f \in Surjection(S, 1 .. n)
  <2>1. IsFiniteSet(1 .. n) /\ Cardinality(1 .. n) = n
    BY <1>1, FS_Interval
  <2> HIDE DEF f
  <2> QED
    BY <1>3, <2>1, FS_Injection
<1>5. \A i \in 1 .. n : \E x \in S : Cardinality(Earlier(S, R, x)) = i - 1
  <2> SUFFICES ASSUME NEW i \in 1 .. n
               PROVE  \E x \in S : Cardinality(Earlier(S, R, x)) = i - 1
    OBVIOUS
  <2>1. PICK x \in S : f[x] = i
    <3> HIDE DEF f, n
    <3> QED
      BY <1>4 DEF Surjection
  <2>2. Cardinality(Earlier(S, R, x)) + 1 = i
    BY <2>1
  <2> QED
    BY <1>1, <1>2, <2>2
<1> QED
  BY <1>1, <1>5

\* A list in which each member has its number of predecessors is in order,
\* complete and without repetition.
RanksFit(S, R, s) ==
  /\ s \in [1 .. Cardinality(S) -> S]
  /\ \A i \in 1 .. Cardinality(S) : Cardinality(Earlier(S, R, s[i])) = i - 1

IsListing(S, R, s) ==
  /\ Cardinality(S) \in Nat
  /\ s \in [1 .. Cardinality(S) -> S]
  /\ \A x \in S : \E i \in 1 .. Cardinality(S) : s[i] = x
  /\ \A i, j \in 1 .. Cardinality(S) : i < j => <<s[i], s[j]>> \in R
  /\ \A i, j \in 1 .. Cardinality(S) : s[i] = s[j] => i = j

LEMMA OrderedList ==
  ASSUME NEW S, IsFiniteSet(S), NEW R, IsOrderOf(S, R),
         NEW s, RanksFit(S, R, s)
  PROVE  IsListing(S, R, s)
<1>1. PICK n \in Nat : n = Cardinality(S)
  BY FS_CardinalityType
<1>2. /\ \A x \in S : Cardinality(Earlier(S, R, x)) \in 0 .. n - 1
      /\ \A x, y \in S : <<x, y>> \in R =>
           Cardinality(Earlier(S, R, x)) < Cardinality(Earlier(S, R, y))
  BY <1>1, EarlierGrows
<1>3. \A i \in 1 .. n : s[i] \in S /\ Cardinality(Earlier(S, R, s[i])) = i - 1
  BY <1>1 DEF RanksFit
<1>4. ASSUME NEW i \in 1 .. n, NEW j \in 1 .. n, i < j
      PROVE  <<s[i], s[j]>> \in R
  <2>1. /\ s[i] \in S /\ s[j] \in S
        /\ Cardinality(Earlier(S, R, s[i])) = i - 1
        /\ Cardinality(Earlier(S, R, s[j])) = j - 1
    BY <1>3
  <2>2. s[i] # s[j] /\ <<s[j], s[i]>> \notin R
    BY <1>2, <1>4, <2>1
  <2> QED
    BY <2>1, <2>2 DEF IsOrderOf
<1>5. ASSUME NEW i \in 1 .. n, NEW j \in 1 .. n, s[i] = s[j] PROVE i = j
  <2>1. i - 1 = j - 1
    BY <1>3, <1>5
  <2> QED
    BY <2>1
<1>6. ASSUME NEW x \in S PROVE \E i \in 1 .. n : s[i] = x
  <2>1. PICK i \in 1 .. n : i = Cardinality(Earlier(S, R, x)) + 1
    BY <1>2
  <2>2. /\ s[i] \in S
        /\ Cardinality(Earlier(S, R, s[i])) = Cardinality(Earlier(S, R, x))
    BY <1>2, <1>3, <2>1
  <2>3. <<s[i], x>> \notin R /\ <<x, s[i]>> \notin R
    BY <1>2, <2>2
  <2>4. s[i] = x
    BY <2>2, <2>3 DEF IsOrderOf
  <2> QED
    BY <2>4
<1> QED
  BY <1>1, <1>4, <1>5, <1>6 DEF IsListing, RanksFit

----------------------------------------------------------------------------
(* Kept positions *)

LessIn(S) == {p \in S \X S : p[1] < p[2]}

Below(S, x) == {y \in S : y < x}

LEMMA NumbersInOrder ==
  ASSUME NEW S \in SUBSET Nat, IsFiniteSet(S), NEW s,
         s = [i \in 1 .. Cardinality(S) |->
                CHOOSE x \in S : Cardinality(Below(S, x)) = i - 1]
  PROVE  IsListing(S, LessIn(S), s)
<1>1. \A x, y \in S : <<x, y>> \in LessIn(S) <=> x < y
  BY DEF LessIn
<1>2. IsOrderOf(S, LessIn(S))
  BY <1>1 DEF IsOrderOf
<1>3. \A x \in S : Earlier(S, LessIn(S), x) = Below(S, x)
  BY <1>1 DEF Earlier, Below
<1>4. PICK n \in Nat : n = Cardinality(S)
  BY FS_CardinalityType
<1>5. \A i \in 1 .. n : \E x \in S : Cardinality(Below(S, x)) = i - 1
  <2>1. \A i \in 1 .. n :
          \E x \in S : Cardinality(Earlier(S, LessIn(S), x)) = i - 1
    BY <1>2, <1>4, EveryRank
  <2> QED
    BY <1>3, <2>1
<1>6. \A i \in 1 .. n : s[i] \in S /\ Cardinality(Below(S, s[i])) = i - 1
  BY <1>4, <1>5
<1>7. s \in [1 .. n -> S]
  BY <1>4, <1>6
<1>8. RanksFit(S, LessIn(S), s)
  BY <1>3, <1>4, <1>6, <1>7 DEF RanksFit
<1> QED
  BY <1>2, <1>8, OrderedList

\* A list with some positions kept has their members and no others, in the
\* order they had.
LEMMA KeptList ==
  ASSUME NEW D, NEW list \in Seq(D), NEW positions \in SUBSET DOMAIN list
  PROVE  /\ Kept(list, positions) \in Seq(D)
         /\ Len(Kept(list, positions)) = Cardinality(positions)
         /\ Cardinality(positions) \in Nat
         /\ \E at \in [DOMAIN Kept(list, positions) -> positions] :
              /\ \A i \in DOMAIN at : Kept(list, positions)[i] = list[at[i]]
              /\ \A i, j \in DOMAIN at : i < j => at[i] < at[j]
              /\ \A p \in positions : \E i \in DOMAIN at : at[i] = p
<1>1. DOMAIN list = 1 .. Len(list) /\ Len(list) \in Nat
  OBVIOUS
<1>2. positions \in SUBSET (1 .. Len(list)) /\ positions \in SUBSET Nat
  BY <1>1
<1>3. IsFiniteSet(positions) /\ Cardinality(positions) \in Nat
  BY <1>1, <1>2, SubsetOfInterval
<1>11. PICK n \in Nat : n = Cardinality(positions)
  BY <1>3
<1>4. PICK at :
        at = [i \in 1 .. Cardinality(positions) |->
                CHOOSE x \in positions : Cardinality(Below(positions, x)) = i - 1]
  OBVIOUS
<1>12. IsListing(positions, LessIn(positions), at)
  BY <1>2, <1>3, <1>4, NumbersInOrder
<1>5. /\ at \in [1 .. n -> positions]
      /\ \A p \in positions : \E i \in 1 .. n : at[i] = p
      /\ \A i, j \in 1 .. n : i < j => <<at[i], at[j]>> \in LessIn(positions)
  BY <1>11, <1>12 DEF IsListing
<1>6. \A i, j \in 1 .. n : i < j => at[i] < at[j]
  BY <1>5 DEF LessIn
<1>0. Kept(list, positions) = [i \in 1 .. n |-> list[at[i]]]
  BY <1>4, <1>5, <1>11 DEF Kept, InOrder, Below
<1>7. \A i \in 1 .. n : list[at[i]] \in D
  <2> SUFFICES ASSUME NEW i \in 1 .. n PROVE list[at[i]] \in D
    OBVIOUS
  <2>1. at[i] \in DOMAIN list
    BY <1>5
  <2> QED
    BY <1>1, <2>1
<1>8. /\ Kept(list, positions) \in Seq(D)
      /\ DOMAIN Kept(list, positions) = 1 .. n
      /\ Len(Kept(list, positions)) = n
  BY <1>0, <1>7
<1> QED
  BY <1>0, <1>3, <1>5, <1>6, <1>8, <1>11

\* The same without naming the positions.
LEMMA KeptMembers ==
  ASSUME NEW D, NEW list \in Seq(D), NEW positions \in SUBSET DOMAIN list
  PROVE  /\ Kept(list, positions) \in Seq(D)
         /\ \A i \in DOMAIN Kept(list, positions) :
              \E p \in positions : Kept(list, positions)[i] = list[p]
         /\ \A p \in positions : \E i \in DOMAIN Kept(list, positions) :
              Kept(list, positions)[i] = list[p]
         /\ \A i, j \in DOMAIN Kept(list, positions) : i # j =>
              \E p, q \in positions :
                /\ p # q
                /\ Kept(list, positions)[i] = list[p]
                /\ Kept(list, positions)[j] = list[q]
<1> DEFINE kept == Kept(list, positions)
<1>1. kept \in Seq(D)
  BY KeptList
<1>2. PICK at \in [DOMAIN kept -> positions] :
        /\ \A i \in DOMAIN at : kept[i] = list[at[i]]
        /\ \A i, j \in DOMAIN at : i < j => at[i] < at[j]
        /\ \A p \in positions : \E i \in DOMAIN at : at[i] = p
  BY KeptList
<1>3. DOMAIN kept = 1 .. Len(kept) /\ Len(kept) \in Nat
  <2> HIDE DEF kept
  <2> QED
    BY <1>1
<1>4. positions \in SUBSET Nat
  OBVIOUS
<1> HIDE DEF kept
<1>5. \A i, j \in DOMAIN kept : i # j => at[i] # at[j]
  <2> SUFFICES ASSUME NEW i \in DOMAIN kept, NEW j \in DOMAIN kept, i # j
               PROVE  at[i] # at[j]
    OBVIOUS
  <2>1. at[i] \in Nat /\ at[j] \in Nat /\ (i < j \/ j < i)
    BY <1>2, <1>3, <1>4
  <2> QED
    BY <1>2, <2>1
<1> QED
  BY <1>1, <1>2, <1>5 DEF kept

----------------------------------------------------------------------------
(* Flattened lists *)

\* Each member of s is one of the first k lists', and no two are the same.
FlatOf(ss, k, s) ==
  \E at \in [DOMAIN s -> (1 .. k) \X Nat] :
    /\ \A i \in DOMAIN s : /\ at[i][2] \in DOMAIN ss[at[i][1]]
                           /\ s[i] = ss[at[i][1]][at[i][2]]
    /\ \A i, j \in DOMAIN s : at[i] = at[j] => i = j

LEMMA FlatGrows ==
  ASSUME NEW D, NEW n \in Nat, NEW ss \in [1 .. n -> Seq(D)],
         NEW k \in Nat, k + 1 \in 1 .. n, NEW s \in Seq(D), FlatOf(ss, k, s)
  PROVE  FlatOf(ss, k + 1, s \o ss[k + 1])
<1> DEFINE t == ss[k + 1]
           a == Len(s)
           b == Len(t)
<1>1. PICK at \in [DOMAIN s -> (1 .. k) \X Nat] :
        /\ \A i \in DOMAIN s : /\ at[i][2] \in DOMAIN ss[at[i][1]]
                               /\ s[i] = ss[at[i][1]][at[i][2]]
        /\ \A i, j \in DOMAIN s : at[i] = at[j] => i = j
  BY DEF FlatOf
<1> DEFINE new == [i \in 1 .. a + b |->
                     IF i <= a THEN at[i] ELSE <<k + 1, i - a>>]
<1>2. t \in Seq(D) /\ a \in Nat /\ b \in Nat
      /\ DOMAIN s = 1 .. a /\ DOMAIN t = 1 .. b
  OBVIOUS
<1>3. /\ DOMAIN (s \o t) = 1 .. a + b
      /\ \A i \in 1 .. a : (s \o t)[i] = s[i]
      /\ \A i \in a + 1 .. a + b : (s \o t)[i] = t[i - a]
  <2> HIDE DEF t
  <2> QED
    BY <1>2
<1> HIDE DEF a, b
<1>4. ASSUME NEW i \in 1 .. a + b
      PROVE  \/ i \in 1 .. a /\ new[i] = at[i]
             \/ i \in a + 1 .. a + b /\ new[i] = <<k + 1, i - a>>
                /\ i - a \in 1 .. b
  BY <1>2
<1>5. \A i \in 1 .. a : at[i] \in (1 .. k) \X Nat /\ at[i][1] # k + 1
                        /\ at[i] \in (1 .. k + 1) \X Nat
  BY <1>1, <1>2
<1>6. new \in [1 .. a + b -> (1 .. k + 1) \X Nat]
  BY <1>2, <1>4, <1>5
<1>7. ASSUME NEW i \in 1 .. a + b
      PROVE  /\ new[i][2] \in DOMAIN ss[new[i][1]]
             /\ (s \o t)[i] = ss[new[i][1]][new[i][2]]
  <2> HIDE DEF new
  <2>1. CASE i \in 1 .. a /\ new[i] = at[i]
    BY <1>1, <1>2, <1>3, <2>1
  <2>2. CASE i \in a + 1 .. a + b /\ new[i] = <<k + 1, i - a>>
             /\ i - a \in 1 .. b
    BY <1>2, <1>3, <2>2
  <2> QED
    BY <1>4, <2>1, <2>2
<1>8. ASSUME NEW i \in 1 .. a + b, NEW j \in 1 .. a + b, new[i] = new[j]
      PROVE  i = j
  <2> HIDE DEF new
  <2>1. CASE i \in 1 .. a /\ j \in 1 .. a
    <3>1. new[i] = at[i] /\ new[j] = at[j]
      BY <1>2, <1>4, <2>1
    <3> QED
      BY <1>1, <1>2, <1>8, <2>1, <3>1
  <2>2. CASE i \in a + 1 .. a + b /\ j \in a + 1 .. a + b
    <3>1. <<k + 1, i - a>> = <<k + 1, j - a>>
      BY <1>2, <1>4, <1>8, <2>2
    <3> QED
      BY <1>2, <3>1
  <2>3. CASE i \in 1 .. a /\ j \in a + 1 .. a + b
    BY <1>2, <1>4, <1>5, <1>8, <2>3
  <2>4. CASE j \in 1 .. a /\ i \in a + 1 .. a + b
    BY <1>2, <1>4, <1>5, <1>8, <2>4
  <2> QED
    BY <1>2, <2>1, <2>2, <2>3, <2>4
<1> HIDE DEF new, t
<1>9. FlatOf(ss, k + 1, s \o t)
  <2> DEFINE u == s \o t
  <2>1. /\ new \in [DOMAIN u -> (1 .. k + 1) \X Nat]
        /\ \A i \in DOMAIN u : /\ new[i][2] \in DOMAIN ss[new[i][1]]
                               /\ u[i] = ss[new[i][1]][new[i][2]]
        /\ \A i, j \in DOMAIN u : new[i] = new[j] => i = j
    BY <1>3, <1>6, <1>7, <1>8
  <2> HIDE DEF u
  <2>2. FlatOf(ss, k + 1, u)
    BY <2>1 DEF FlatOf
  <2> QED
    BY <2>2 DEF u
<1> QED
  BY <1>9 DEF t

\* The recursion of FlattenSeq, up to the k-th list.
Flattens(ss, k, g) ==
  \A i \in 1 .. k : g[i] = IF i = 1 THEN ss[i] ELSE g[i - 1] \o ss[i]

LEMMA FlatteningExists ==
  ASSUME NEW D, NEW n \in Nat, NEW ss \in [1 .. n -> Seq(D)]
  PROVE  \E g \in [1 .. n -> Seq(D)] : Flattens(ss, n, g)
<1> DEFINE T == {k \in 0 .. n : \E g \in [1 .. k -> Seq(D)] : Flattens(ss, k, g)}
<1>1. 0 \in T
  <2> DEFINE none == [i \in 1 .. 0 |-> <<>>]
  <2>1. none \in [1 .. 0 -> Seq(D)]
    OBVIOUS
  <2> HIDE DEF none
  <2>2. Flattens(ss, 0, none)
    BY DEF Flattens
  <2>3. \E g \in [1 .. 0 -> Seq(D)] : Flattens(ss, 0, g)
    BY <2>1, <2>2
  <2>4. 0 \in 0 .. n
    OBVIOUS
  <2> QED
    BY <2>3, <2>4
<1>2. ASSUME NEW k \in 0 .. n - 1, k \in T PROVE k + 1 \in T
  <2>1. PICK g \in [1 .. k -> Seq(D)] : Flattens(ss, k, g)
    BY <1>2
  <2> DEFINE h == [i \in 1 .. k + 1 |->
                     IF i <= k THEN g[i]
                     ELSE IF i = 1 THEN ss[i] ELSE g[i - 1] \o ss[i]]
  <2>2. k + 1 \in 1 .. n /\ ss[k + 1] \in Seq(D)
    OBVIOUS
  <2>3. k # 0 => g[k] \o ss[k + 1] \in Seq(D)
    BY <2>2
  <2>4. h \in [1 .. k + 1 -> Seq(D)]
    BY <2>2, <2>3
  <2>5. ASSUME NEW i \in 1 .. k + 1
        PROVE  h[i] = IF i = 1 THEN ss[i] ELSE h[i - 1] \o ss[i]
    <3>1. i # 1 => i - 1 \in 1 .. k /\ h[i - 1] = g[i - 1]
      OBVIOUS
    <3>2. CASE i <= k
      <4>1. h[i] = g[i]
        BY <3>2
      <4> HIDE DEF h
      <4>2. i \in 1 .. k
        BY <3>2
      <4>3. g[i] = IF i = 1 THEN ss[i] ELSE g[i - 1] \o ss[i]
        BY <2>1, <4>2 DEF Flattens
      <4> QED
        BY <3>1, <4>1, <4>3
    <3>3. CASE ~ (i <= k)
      <4>1. h[i] = IF i = 1 THEN ss[i] ELSE g[i - 1] \o ss[i]
        BY <3>3
      <4> HIDE DEF h
      <4> QED
        BY <3>1, <4>1
    <3> QED
      BY <3>2, <3>3
  <2> HIDE DEF h
  <2>6. Flattens(ss, k + 1, h)
    BY <2>5 DEF Flattens
  <2> QED
    BY <2>2, <2>4, <2>6
<1>3. 0 .. n \subseteq T
  <2> HIDE DEF T
  <2> QED
    BY <1>1, <1>2, Upwards
<1> QED
  BY <1>3

\* FlattenSeq puts the lists one after the other, each member once.
LEMMA FlattenedList ==
  ASSUME NEW D, NEW n \in Nat, NEW ss \in [1 .. n -> Seq(D)]
  PROVE  FlattenSeq(ss) \in Seq(D) /\ FlatOf(ss, n, FlattenSeq(ss))
<1> DEFINE flat == CHOOSE g : g = [i \in 1 .. Len(ss) |->
                     IF i = 1 THEN ss[i] ELSE g[i - 1] \o ss[i]]
<1>0. Len(ss) = n
  OBVIOUS
<1>1. FlattenSeq(ss) = IF Len(ss) = 0 THEN ss ELSE flat[Len(ss)]
  BY DEF FlattenSeq
<1>2. CASE n = 0
  <2>1. FlattenSeq(ss) = ss /\ ss \in Seq(D) /\ DOMAIN ss = {}
    BY <1>0, <1>1, <1>2
  <2>2. [i \in {} |-> <<1, 1>>] \in [{} -> (1 .. n) \X Nat]
    OBVIOUS
  <2>3. FlatOf(ss, n, ss)
    BY <2>1, <2>2 DEF FlatOf
  <2> QED
    BY <2>1, <2>3
<1>3. CASE n # 0
  <2>1. PICK g \in [1 .. n -> Seq(D)] : Flattens(ss, n, g)
    BY FlatteningExists
  <2>2. g = [i \in 1 .. Len(ss) |->
               IF i = 1 THEN ss[i] ELSE g[i - 1] \o ss[i]]
    BY <1>0, <2>1 DEF Flattens
  <2>3. flat = [i \in 1 .. Len(ss) |->
                  IF i = 1 THEN ss[i] ELSE flat[i - 1] \o ss[i]]
    BY <2>2
  <2> HIDE DEF flat
  <2>4. \A i \in 1 .. n : flat[i] = IF i = 1 THEN ss[i] ELSE flat[i - 1] \o ss[i]
    BY <1>0, <2>3
  <2> DEFINE T == {k \in 0 .. n :
                     k # 0 => flat[k] \in Seq(D) /\ FlatOf(ss, k, flat[k])}
  <2>5. 0 \in T
    OBVIOUS
  <2>6. ASSUME NEW k \in 0 .. n - 1, k \in T PROVE k + 1 \in T
    <3>1. k \in Nat /\ k + 1 \in 1 .. n /\ ss[k + 1] \in Seq(D)
      OBVIOUS
    <3>2. CASE k = 0
      <4>1. flat[1] = ss[1]
        BY <2>4, <3>1, <3>2
      <4>2. PICK s \in Seq(D) : s = ss[1]
        BY <3>1, <3>2
      <4> DEFINE at == [i \in DOMAIN s |-> <<1, i>>]
      <4>3. /\ at \in [DOMAIN s -> (1 .. 1) \X Nat]
            /\ \A i \in DOMAIN s : at[i][1] = 1 /\ at[i][2] = i
            /\ \A i, j \in DOMAIN s : at[i] = at[j] => i = j
        OBVIOUS
      <4> HIDE DEF at
      <4>4. \A i \in DOMAIN s : /\ at[i][2] \in DOMAIN ss[at[i][1]]
                                /\ s[i] = ss[at[i][1]][at[i][2]]
        BY <4>2, <4>3
      <4>5. FlatOf(ss, 1, s)
        BY <4>3, <4>4 DEF FlatOf
      <4>6. flat[k + 1] = s /\ k + 1 = 1
        BY <3>2, <4>1, <4>2
      <4> HIDE DEF flat
      <4> QED
        BY <3>1, <4>5, <4>6
    <3>3. CASE k # 0
      <4>1. flat[k + 1] = flat[k] \o ss[k + 1]
        <5>1. k + 1 # 1 /\ (k + 1) - 1 = k
          BY <3>3
        <5> QED
          BY <2>4, <3>1, <5>1
      <4>2. PICK s \in Seq(D) : s = flat[k] /\ FlatOf(ss, k, s)
        BY <2>6, <3>3
      <4>3. FlatOf(ss, k + 1, s \o ss[k + 1])
        BY <3>1, <4>2, FlatGrows
      <4>4. s \o ss[k + 1] \in Seq(D)
        BY <3>1, <4>2
      <4>5. flat[k + 1] \in Seq(D) /\ FlatOf(ss, k + 1, flat[k + 1])
        BY <4>1, <4>2, <4>3, <4>4
      <4> QED
        BY <3>1, <4>5
    <3> QED
      BY <3>2, <3>3
  <2>7. 0 .. n \subseteq T
    <3> HIDE DEF T
    <3> QED
      BY <2>5, <2>6, Upwards
  <2>8. flat[n] \in Seq(D) /\ FlatOf(ss, n, flat[n])
    BY <1>3, <2>7
  <2> QED
    BY <1>0, <1>1, <1>3, <2>8
<1> QED
  BY <1>2, <1>3

\* What a list contains with one more item.
LEMMA ListContains ==
  ASSUME NEW S, NEW s \in Seq(S), NEW e \in S, NEW x
  PROVE  Contains(Append(s, e), x) <=> Contains(s, x) \/ x = e
<1>1. /\ Len(Append(s, e)) = Len(s) + 1 /\ Len(s) \in Nat
      /\ \A i \in 1 .. Len(s) : Append(s, e)[i] = s[i]
      /\ Append(s, e)[Len(s) + 1] = e
  OBVIOUS
<1>2. (\E i \in 1 .. Len(s) + 1 : Append(s, e)[i] = x)
        <=> (\E i \in 1 .. Len(s) : s[i] = x) \/ x = e
  BY <1>1
<1> QED
  BY <1>1, <1>2 DEF Contains

----------------------------------------------------------------------------
(* Folds *)

\* The function behind a fold, defined on every set of positions: the last
\* position is taken last.
Folds(n, base, next, iter) ==
  iter = [s \in SUBSET (1 .. n) |->
            IF s = {} THEN base ELSE next[<<Max(s), iter[s \ {Max(s)}]>>]]

LEMMA MaxOf ==
  ASSUME NEW n \in Nat, NEW s \in SUBSET (1 .. n), s # {}
  PROVE  Max(s) \in s /\ \A y \in s : Max(s) >= y
<1>1. \E x \in s : \A y \in s : x >= y
  <2> DEFINE below == {n - y : y \in s}
  <2>1. below \in SUBSET Nat /\ below # {}
    <3>1. \A y \in s : y \in 1 .. n /\ n - y \in Nat
      OBVIOUS
    <3>2. PICK y \in s : TRUE
      OBVIOUS
    <3>3. n - y \in below
      OBVIOUS
    <3> QED
      BY <3>1, <3>3
  <2>2. PICK m \in below : \A k \in below : m <= k
    <3> HIDE DEF below
    <3> QED
      BY <2>1, SmallestOf
  <2>3. PICK x \in s : m = n - x
    OBVIOUS
  <2>4. \A y \in s : n - x <= n - y
    BY <2>2, <2>3
  <2> QED
    BY <2>4
<1> QED
  BY <1>1 DEF Max

LEMMA FoldingExists ==
  ASSUME NEW n \in Nat, NEW B, NEW base \in B,
         NEW next \in [(1 .. n) \X B -> B]
  PROVE  \E iter \in [SUBSET (1 .. n) -> B] : Folds(n, base, next, iter)
<1> DEFINE T == {k \in 0 .. n : \E g \in [SUBSET (1 .. k) -> B] :
                                  Folds(k, base, next, g)}
<1>1. 0 \in T
  <2> DEFINE none == [s \in SUBSET (1 .. 0) |-> base]
  <2>1. none \in [SUBSET (1 .. 0) -> B]
    OBVIOUS
  <2>2. Folds(0, base, next, none)
    <3>1. \A s \in SUBSET (1 .. 0) : s = {}
      OBVIOUS
    <3> QED
      BY <3>1 DEF Folds
  <2> HIDE DEF none
  <2>3. 0 \in 0 .. n
    OBVIOUS
  <2> QED
    BY <2>1, <2>2, <2>3
<1>2. ASSUME NEW k \in 0 .. n - 1, k \in T PROVE k + 1 \in T
  <2>1. PICK g \in [SUBSET (1 .. k) -> B] : Folds(k, base, next, g)
    BY <1>2
  <2> DEFINE h == [s \in SUBSET (1 .. k + 1) |->
                     IF k + 1 \in s THEN next[<<k + 1, g[s \ {k + 1}]>>]
                                    ELSE g[s]]
  <2>2. k + 1 \in 1 .. n /\ k \in Nat
    OBVIOUS
  <2>3. ASSUME NEW s \in SUBSET (1 .. k + 1)
        PROVE  /\ s \ {k + 1} \in SUBSET (1 .. k)
               /\ k + 1 \notin s => s \in SUBSET (1 .. k)
    BY <2>2
  <2>4. h \in [SUBSET (1 .. k + 1) -> B]
    <3>1. ASSUME NEW s \in SUBSET (1 .. k + 1)
          PROVE  (IF k + 1 \in s THEN next[<<k + 1, g[s \ {k + 1}]>>]
                                 ELSE g[s]) \in B
      <4>1. g[s \ {k + 1}] \in B
        BY <2>3
      <4>2. next[<<k + 1, g[s \ {k + 1}]>>] \in B
        BY <2>2, <4>1
      <4> QED
        BY <2>3, <4>2
    <3> QED
      BY <3>1
  <2>5. ASSUME NEW s \in SUBSET (1 .. k + 1)
        PROVE  h[s] = IF s = {} THEN base ELSE next[<<Max(s), h[s \ {Max(s)}]>>]
    <3>1. CASE k + 1 \in s
      <4>1. Max(s) = k + 1
        <5>1. Max(s) \in s /\ \A y \in s : Max(s) >= y
          <6>1. k + 1 \in Nat /\ s # {} /\ s \in SUBSET (1 .. k + 1)
            BY <2>2, <3>1
          <6> QED
            BY <6>1, MaxOf
        <5>2. \A y \in s : y \in Nat /\ y <= k + 1
          BY <2>2
        <5>3. PICK m \in s : m = Max(s)
          BY <5>1
        <5>4. m >= k + 1 /\ m <= k + 1 /\ m \in Nat
          BY <3>1, <5>1, <5>2, <5>3
        <5> QED
          BY <2>2, <5>3, <5>4
      <4>2. s \ {k + 1} \in SUBSET (1 .. k + 1) /\ k + 1 \notin s \ {k + 1}
        OBVIOUS
      <4>3. h[s \ {k + 1}] = g[s \ {k + 1}]
        BY <4>2
      <4>4. h[s] = next[<<k + 1, g[s \ {k + 1}]>>]
        BY <3>1
      <4> HIDE DEF h
      <4> QED
        BY <3>1, <4>1, <4>3, <4>4
    <3>2. CASE k + 1 \notin s
      <4>1. s \in SUBSET (1 .. k) /\ h[s] = g[s]
        BY <2>3, <3>2
      <4>2. g[s] = IF s = {} THEN base ELSE next[<<Max(s), g[s \ {Max(s)}]>>]
        BY <2>1, <4>1 DEF Folds
      <4>3. s \ {Max(s)} \in SUBSET (1 .. k + 1) /\ k + 1 \notin s \ {Max(s)}
        BY <3>2
      <4>4. h[s \ {Max(s)}] = g[s \ {Max(s)}]
        BY <4>3
      <4> HIDE DEF h
      <4> QED
        BY <4>1, <4>2, <4>4
    <3> QED
      BY <3>1, <3>2
  <2> HIDE DEF h
  <2>6. Folds(k + 1, base, next, h)
    BY <2>4, <2>5 DEF Folds
  <2>7. k + 1 \in 0 .. n
    BY <2>2
  <2> QED
    BY <2>4, <2>6, <2>7
<1>3. 0 .. n \subseteq T
  <2> HIDE DEF T
  <2> QED
    BY <1>1, <1>2, Upwards
<1>4. n \in T
  <2> HIDE DEF T
  <2> QED
    BY <1>3, n \in 0 .. n
<1> QED
  BY <1>4

\* The last of the first positions.
LEMMA LastOfInterval ==
  ASSUME NEW n \in Nat, NEW m \in 0 .. n - 1
  PROVE  /\ 1 .. m + 1 \in SUBSET (1 .. n) /\ 1 .. m + 1 # {}
         /\ Max(1 .. m + 1) = m + 1
         /\ (1 .. m + 1) \ {m + 1} = 1 .. m
<1> DEFINE s == 1 .. m + 1
<1>1. s \in SUBSET (1 .. n) /\ m + 1 \in s
  OBVIOUS
<1>2. \A y \in s : y \in Nat /\ y <= m + 1
  OBVIOUS
<1>3. Max(s) = m + 1
  <2> HIDE DEF s
  <2>1. PICK x \in s : x = Max(s) /\ \A y \in s : x >= y
    BY <1>1, MaxOf
  <2> QED
    BY <1>1, <1>2, <2>1
<1> QED
  BY <1>1, <1>3

\* What the steps of a list keep holds of all it goes through.
LEMMA StepsStay ==
  ASSUME NEW n \in Nat, NEW B, NEW g, g[0] \in B,
         \A m \in 0 .. n - 1 : g[m] \in B => g[m + 1] \in B
  PROVE  \A m \in 0 .. n : g[m] \in B
<1> DEFINE T == {m \in 0 .. n : g[m] \in B}
<1>1. 0 \in T
  OBVIOUS
<1>2. ASSUME NEW k \in 0 .. n - 1, k \in T PROVE k + 1 \in T
  BY <1>2
<1>3. 0 .. n \subseteq T
  <2> HIDE DEF T
  <2> QED
    BY <1>1, <1>2, Upwards
<1> QED
  BY <1>3

\* They depend on the start and on each step alone.
LEMMA SameSteps ==
  ASSUME NEW n \in Nat, NEW g, NEW h, g[0] = h[0],
         \A m \in 0 .. n - 1 : g[m] = h[m] => g[m + 1] = h[m + 1]
  PROVE  \A m \in 0 .. n : g[m] = h[m]
<1> DEFINE T == {m \in 0 .. n : g[m] = h[m]}
<1>1. 0 \in T
  OBVIOUS
<1>2. ASSUME NEW k \in 0 .. n - 1, k \in T PROVE k + 1 \in T
  BY <1>2
<1>3. 0 .. n \subseteq T
  <2> HIDE DEF T
  <2> QED
    BY <1>1, <1>2, Upwards
<1> QED
  BY <1>3

============================================================================
