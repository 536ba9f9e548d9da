----------------------------- MODULE RulesProofs ----------------------------
(***************************************************************************)
(* Proofs about the rules: highlights, baselines and the rating.           *)
(*                                                                         *)
(* HighlightRules: merging candidates leads to one result whatever order   *)
(* they arrive in and whichever pair is taken first, and retention takes   *)
(* nothing back, for every gap, budget, retention and number of items.     *)
(*                                                                         *)
(* Baselines: the cohort of a baseline, its median and its deviation, and  *)
(* what a later import leaves alone, for every history.                    *)
(*                                                                         *)
(* RatingRules: no play in the player's favour lowers the rating, none     *)
(* against them raises it, for every match.                                *)
(***************************************************************************)
EXTENDS HighlightRules, RatingRules, Baselines, FiniteSetTheorems, WellFoundedInduction, TLAPS

(***************************************************************************)
(* Numbers, recursion over what is smaller, and finite sets                *)
(***************************************************************************)

(* Induction over the naturals, for a set that holds 0 and every successor *)
LEMMA NatSet ==
  ASSUME NEW S, 0 \in S, \A n \in Nat : n \in S => n + 1 \in S
  PROVE  Nat \subseteq S
<1> SUFFICES ASSUME Nat \ S # {} PROVE FALSE
  OBVIOUS
<1>1. PICK x \in Nat \ S : \A y \in Nat \ S : <<y, x>> \notin OpToRel(<, Nat)
  BY NatLessThanWellFounded, WFMin
<1>0. x \in Nat /\ x \notin S /\ x # 0
  OBVIOUS
<1>2. x - 1 \in Nat /\ (x - 1) + 1 = x
  BY <1>0
<1>4. x - 1 \notin S
  BY <1>0, <1>2
<1>3. <<x - 1, x>> \in OpToRel(<, Nat)
  BY <1>2 DEF OpToRel
<1> QED BY <1>1, <1>2, <1>3, <1>4

(* A set of naturals has a least element.                                  *)
LEMMA LeastNat ==
  ASSUME NEW S, S \subseteq Nat, S # {}
  PROVE  \E x \in S : \A y \in S : x <= y
<1>1. PICK x \in S : \A y \in S : <<y, x>> \notin OpToRel(<, Nat)
  BY NatLessThanWellFounded, WFMin
<1>2. ASSUME NEW y \in S PROVE x <= y
  <2>1. x \in Nat /\ y \in Nat
    OBVIOUS
  <2>2. ~(y < x)
    BY <1>1, <2>1 DEF OpToRel
  <2> QED BY <2>1, <2>2
<1> QED BY <1>2

(* Min of a set of naturals is in it and below the others.                 *)
LEMMA MinNat ==
  ASSUME NEW S, S \subseteq Nat, S # {}
  PROVE  Min(S) \in S /\ \A y \in S : Min(S) <= y
BY LeastNat DEF Min

(* A finite set with a strict total order has a first element.             *)
LEMMA FirstElement ==
  ASSUME NEW S, IsFiniteSet(S), S # {}, NEW R,
         \A x, y \in S : x # y => <<x, y>> \in R \/ <<y, x>> \in R,
         \A x, y, z \in S : <<x, y>> \in R /\ <<y, z>> \in R => <<x, z>> \in R
  PROVE  \E x \in S : \A y \in S \ {x} : <<x, y>> \in R
<1> DEFINE P == {n \in Nat : \A T \in SUBSET S : T # {} /\ Cardinality(T) = n =>
                               \E x \in T : \A y \in T \ {x} : <<x, y>> \in R}
<1>1. 0 \in P
  <2>1. \A T \in SUBSET S : Cardinality(T) = 0 => T = {}
    BY FS_Subset, FS_EmptySet
  <2> QED BY <2>1
<1>2. ASSUME NEW n \in Nat, n \in P PROVE n + 1 \in P
  <2> SUFFICES ASSUME NEW T \in SUBSET S, T # {}, Cardinality(T) = n + 1
               PROVE  \E x \in T : \A y \in T \ {x} : <<x, y>> \in R
    OBVIOUS
  <2>1. PICK z \in T : TRUE
    OBVIOUS
  <2> DEFINE U == T \ {z}
  <2>2. U \in SUBSET S /\ Cardinality(U) = n
    <3>1. IsFiniteSet(T)
      BY FS_Subset
    <3>2. Cardinality(T \ {z}) = Cardinality(T) - 1
      BY <3>1, <2>1, FS_RemoveElement
    <3> QED BY <3>2
  <2>3. CASE U = {}
    BY <2>3
  <2>4. CASE U # {}
    <3>1. PICK x \in U : \A y \in U \ {x} : <<x, y>> \in R
      BY <1>2, <2>2, <2>4
    <3>2. CASE <<x, z>> \in R
      <4>1. \A y \in T \ {x} : y = z \/ y \in U \ {x}
        OBVIOUS
      <4> QED BY <3>1, <3>2, <4>1
    <3>3. CASE <<z, x>> \in R
      <4>1. ASSUME NEW y \in T \ {z} PROVE <<z, y>> \in R
        <5>1. x \in S /\ y \in S /\ z \in S /\ (y = x \/ y \in U \ {x})
          OBVIOUS
        <5>2. CASE y = x
          BY <3>3, <5>2
        <5>3. CASE y \in U \ {x}
          <6>1. <<x, y>> \in R
            BY <3>1, <5>3
          <6> QED BY <3>3, <5>1, <6>1
        <5> QED BY <5>1, <5>2, <5>3
      <4> QED BY <4>1
    <3>4. x \in S /\ z \in S /\ x # z
      OBVIOUS
    <3> QED BY <3>2, <3>3, <3>4
  <2> QED BY <2>3, <2>4
<1> HIDE DEF P
<1>3. Nat \subseteq P
  BY <1>1, <1>2, NatSet
<1>4. Cardinality(S) \in Nat
  BY FS_CardinalityType
<1> QED BY <1>3, <1>4 DEF P

(* A function may be defined by recursion over what is smaller: h[s] is    *)
(* given its values on below[s].                                           *)
PartOf(g, D, V, size, below, h, n) ==
  /\ g \in [{s \in D : size[s] < n} -> V]
  /\ \A s \in D : size[s] < n => g[s] = h[s][[t \in below[s] |-> g[t]]]

(* The recursion has a solution on what lies below any element.            *)
LEMMA PartExists ==
  ASSUME NEW D, NEW V, NEW size \in [D -> Nat], NEW below, NEW h,
         \A s \in D : \A t \in below[s] : t \in D /\ size[t] < size[s],
         \A s \in D : h[s] \in [[below[s] -> V] -> V]
  PROVE  \A n \in Nat : \E g : PartOf(g, D, V, size, below, h, n)
<1> DEFINE S == {n \in Nat : \E g : PartOf(g, D, V, size, below, h, n)}
<1>1. 0 \in S
  <2> DEFINE g == [s \in {} |-> s]
  <2>1. \A s \in D : ~(size[s] < 0)
    OBVIOUS
  <2>2. {s \in D : size[s] < 0} = {}
    BY <2>1
  <2>3. g \in [{} -> V]
    OBVIOUS
  <2>4. PartOf(g, D, V, size, below, h, 0)
    BY <2>1, <2>2, <2>3 DEF PartOf
  <2> QED BY <2>4
<1>2. ASSUME NEW n \in Nat, n \in S PROVE n + 1 \in S
  <2>1. PICK f : PartOf(f, D, V, size, below, h, n)
    BY <1>2
  <2> DEFINE Es == {s \in D : size[s] < n + 1}
             v(s) == h[s][[t \in below[s] |-> f[t]]]
             g == [s \in Es |-> v(s)]
  <2>2. ASSUME NEW s \in Es
        PROVE  /\ \A t \in below[s] : t \in D /\ size[t] < n
               /\ v(s) \in V
    <3>1. s \in D /\ size[s] \in Nat /\ size[s] <= n
      OBVIOUS
    <3>2. \A t \in below[s] : t \in D /\ size[t] \in Nat /\ size[t] < size[s]
      BY <3>1
    <3>3. \A t \in below[s] : t \in D /\ size[t] < n
      BY <3>1, <3>2
    <3>4. \A t \in below[s] : f[t] \in V
      BY <2>1, <3>3 DEF PartOf
    <3>5. [t \in below[s] |-> f[t]] \in [below[s] -> V]
      BY <3>4
    <3>6. v(s) \in V
      BY <3>1, <3>5
    <3> QED BY <3>3, <3>6
  <2>3. g \in [Es -> V]
    BY <2>2
  <2>4. ASSUME NEW s \in D, size[s] < n PROVE s \in Es /\ g[s] = f[s]
    <3>1. s \in Es
      BY <2>4
    <3> QED BY <2>1, <2>4, <3>1 DEF PartOf
  <2>5. ASSUME NEW s \in Es PROVE g[s] = h[s][[t \in below[s] |-> g[t]]]
    <3>1. \A t \in below[s] : g[t] = f[t]
      BY <2>2, <2>4
    <3>2. [t \in below[s] |-> g[t]] = [t \in below[s] |-> f[t]]
      BY <3>1
    <3>3. g[s] = v(s)
      OBVIOUS
    <3> QED BY <3>2, <3>3
  <2> HIDE DEF g
  <2>6. PartOf(g, D, V, size, below, h, n + 1)
    BY <2>3, <2>5 DEF PartOf
  <2> QED BY <2>6
<1> HIDE DEF S
<1>3. Nat \subseteq S
  BY <1>1, <1>2, NatSet
<1> QED BY <1>3 DEF S

(* Two solutions agree wherever both are defined.                          *)
LEMMA PartUnique ==
  ASSUME NEW D, NEW V, NEW size \in [D -> Nat], NEW below, NEW h,
         \A s \in D : \A t \in below[s] : t \in D /\ size[t] < size[s],
         NEW f, NEW g, NEW m \in Nat, NEW n \in Nat,
         PartOf(f, D, V, size, below, h, m), PartOf(g, D, V, size, below, h, n),
         NEW s \in D, size[s] < m, size[s] < n
  PROVE  f[s] = g[s]
<1> DEFINE S == {k \in Nat : \A x \in D : size[x] < k /\ size[x] < m /\ size[x] < n
                                           => f[x] = g[x]}
<1>1. 0 \in S
  OBVIOUS
<1>2. ASSUME NEW k \in Nat, k \in S PROVE k + 1 \in S
  <2> SUFFICES ASSUME NEW x \in D, size[x] < k + 1, size[x] < m, size[x] < n
               PROVE  f[x] = g[x]
    OBVIOUS
  <2>1. ASSUME NEW t \in below[x] PROVE f[t] = g[t]
    <3>1. t \in D /\ size[t] < size[x] /\ size[t] \in Nat /\ size[x] \in Nat
      OBVIOUS
    <3>2. size[t] < k /\ size[t] < m /\ size[t] < n
      BY <3>1
    <3> QED BY <1>2, <3>1, <3>2
  <2>2. [t \in below[x] |-> f[t]] = [t \in below[x] |-> g[t]]
    BY <2>1
  <2>3. /\ f[x] = h[x][[t \in below[x] |-> f[t]]]
        /\ g[x] = h[x][[t \in below[x] |-> g[t]]]
    BY DEF PartOf
  <2> QED BY <2>2, <2>3
<1> HIDE DEF S
<1>3. Nat \subseteq S
  BY <1>1, <1>2, NatSet
<1>4. size[s] \in Nat /\ size[s] + 1 \in S /\ size[s] < size[s] + 1
  BY <1>3
<1> QED BY <1>4 DEF S
Founded(D, V, size, below, h) ==
  /\ size \in [D -> Nat]
  /\ \A s \in D : \A t \in below[s] : t \in D /\ size[t] < size[s]
  /\ \A s \in D : h[s] \in [[below[s] -> V] -> V]

Solves(g, D, V, below, h) ==
  /\ g \in [D -> V]
  /\ \A s \in D : g[s] = h[s][[t \in below[s] |-> g[t]]]

(* A recursion over what is smaller has a solution.                        *)
LEMMA Recursion ==
  ASSUME NEW D, NEW V, NEW size, NEW below, NEW h, Founded(D, V, size, below, h)
  PROVE  \E g : Solves(g, D, V, below, h)
<1>0. /\ size \in [D -> Nat]
      /\ \A s \in D : \A t \in below[s] : t \in D /\ size[t] < size[s]
      /\ \A s \in D : h[s] \in [[below[s] -> V] -> V]
  BY DEF Founded
<1> USE <1>0
<1> DEFINE part(n) == CHOOSE g : PartOf(g, D, V, size, below, h, n)
           g == [s \in D |-> part(size[s] + 1)[s]]
<1>1. ASSUME NEW n \in Nat PROVE PartOf(part(n), D, V, size, below, h, n)
  BY PartExists
<1> HIDE DEF part
<1>2. ASSUME NEW s \in D PROVE g[s] \in V /\ g[s] = h[s][[t \in below[s] |-> g[t]]]
  <2> DEFINE n == size[s] + 1
  <2>0. n \in Nat /\ size[s] < n /\ size[s] \in Nat
    OBVIOUS
  <2>1. /\ part(n)[s] \in V
        /\ part(n)[s] = h[s][[t \in below[s] |-> part(n)[t]]]
    <3> HIDE DEF n
    <3> QED BY <1>1, <2>0 DEF PartOf
  <2>2. ASSUME NEW t \in below[s] PROVE g[t] = part(n)[t]
    <3>1. t \in D /\ size[t] \in Nat /\ size[t] < size[s]
      OBVIOUS
    <3>2. size[t] + 1 \in Nat /\ size[t] < size[t] + 1 /\ size[t] < n
      BY <3>1, <2>0
    <3>3. PartOf(part(size[t] + 1), D, V, size, below, h, size[t] + 1)
      BY <1>1, <3>2
    <3>4. PartOf(part(n), D, V, size, below, h, n)
      BY <1>1, <2>0
    <3> HIDE DEF n
    <3>5. part(size[t] + 1)[t] = part(n)[t]
      BY <2>0, <3>1, <3>2, <3>3, <3>4, PartUnique
    <3> QED BY <3>1, <3>5
  <2>3. [t \in below[s] |-> g[t]] = [t \in below[s] |-> part(n)[t]]
    BY <2>2
  <2> QED BY <2>1, <2>3
<1>3. g \in [D -> V]
  BY <1>2
<1> QED BY <1>2, <1>3 DEF Solves

(* Induction over what has a size.                                         *)
LEMMA SizeInduction ==
  ASSUME NEW D, NEW size \in [D -> Nat], NEW P,
         \A s \in D : (\A t \in D : size[t] < size[s] => t \in P) => s \in P
  PROVE  D \subseteq P
<1> DEFINE S == {n \in Nat : \A s \in D : size[s] < n => s \in P}
<1>1. 0 \in S
  OBVIOUS
<1>2. ASSUME NEW n \in Nat, n \in S PROVE n + 1 \in S
  <2> SUFFICES ASSUME NEW s \in D, size[s] < n + 1 PROVE s \in P
    OBVIOUS
  <2>1. ASSUME NEW t \in D, size[t] < size[s] PROVE t \in P
    <3>1. size[t] \in Nat /\ size[s] \in Nat
      OBVIOUS
    <3>2. size[t] < n
      BY <2>1, <3>1
    <3> QED BY <1>2, <3>2
  <2> QED BY <2>1
<1> HIDE DEF S
<1>3. Nat \subseteq S
  BY <1>1, <1>2, NatSet
<1>4. ASSUME NEW s \in D PROVE s \in P
  <2>1. size[s] \in Nat /\ size[s] + 1 \in S /\ size[s] < size[s] + 1
    BY <1>3
  <2> QED BY <2>1 DEF S
<1> QED BY <1>4

(* Sizes of the subsets of a finite set.                                   *)
LEMMA SubsetSizes ==
  ASSUME NEW M, IsFiniteSet(M)
  PROVE  /\ [s \in SUBSET M |-> Cardinality(s)] \in [SUBSET M -> Nat]
         /\ \A s \in SUBSET M : \A x \in s : /\ Cardinality(s) \in Nat
                                             /\ s \ {x} \in SUBSET M
                                             /\ Cardinality(s \ {x}) \in Nat
                                             /\ Cardinality(s \ {x}) < Cardinality(s)
<1>1. \A s \in SUBSET M : IsFiniteSet(s)
  BY FS_Subset
<1>2. \A s \in SUBSET M : Cardinality(s) \in Nat
  BY <1>1, FS_CardinalityType
<1>3. ASSUME NEW s \in SUBSET M, NEW x \in s
      PROVE  Cardinality(s \ {x}) = Cardinality(s) - 1 /\ Cardinality(s \ {x}) \in Nat
  <2>1. Cardinality(s \ {x}) = Cardinality(s) - 1
    BY <1>1, FS_RemoveElement
  <2>2. s \ {x} \in SUBSET M
    OBVIOUS
  <2> QED BY <1>2, <2>1, <2>2
<1>4. ASSUME NEW s \in SUBSET M, NEW x \in s
      PROVE  Cardinality(s \ {x}) < Cardinality(s)
  BY <1>2, <1>3
<1> QED BY <1>2, <1>3, <1>4

(* A sum over the subsets of M: each adds the weight of some element of it *)
(* to the sum of the rest.                                                 *)
IsSum(f, w, M) ==
  /\ f \in [SUBSET M -> Nat]
  /\ f[{}] = 0
  /\ \A s \in SUBSET M : s # {} => \E x \in s : f[s] = w[x] + f[s \ {x}]

(* Any element may be taken out of the sum.                                *)
LEMMA SumTakesAny ==
  ASSUME NEW M, IsFiniteSet(M), NEW w \in [M -> Nat], NEW f, IsSum(f, w, M)
  PROVE  \A s \in SUBSET M : \A x \in s : f[s] = w[x] + f[s \ {x}]
<1> DEFINE size == [s \in SUBSET M |-> Cardinality(s)]
           P == {s \in SUBSET M : \A x \in s : f[s] = w[x] + f[s \ {x}]}
<1>1. size \in [SUBSET M -> Nat]
  BY SubsetSizes
<1>2. ASSUME NEW s \in SUBSET M, \A t \in SUBSET M : size[t] < size[s] => t \in P
      PROVE  s \in P
  <2> SUFFICES ASSUME NEW x \in s PROVE f[s] = w[x] + f[s \ {x}]
    OBVIOUS
  <2>1. PICK y \in s : f[s] = w[y] + f[s \ {y}]
    BY DEF IsSum
  <2>2. CASE x = y
    BY <2>1, <2>2
  <2>3. CASE x # y
    <3>1. /\ s \ {x} \in SUBSET M /\ s \ {y} \in SUBSET M
          /\ size[s \ {x}] < size[s] /\ size[s \ {y}] < size[s]
      BY SubsetSizes
    <3>2. s \ {x} \in P /\ s \ {y} \in P
      BY <1>2, <3>1
    <3>3. y \in s \ {x} /\ x \in s \ {y} /\ (s \ {x}) \ {y} = (s \ {y}) \ {x}
      BY <2>3
    <3> DEFINE r == f[(s \ {y}) \ {x}]
    <3>4. f[s \ {x}] = w[y] + r /\ f[s \ {y}] = w[x] + r
      BY <3>2, <3>3
    <3>5. r \in Nat /\ w[x] \in Nat /\ w[y] \in Nat
      BY DEF IsSum
    <3> HIDE DEF r
    <3> QED BY <2>1, <3>4, <3>5
  <2> QED BY <2>2, <2>3
<1> HIDE DEF P, size
<1>3. SUBSET M \subseteq P
  BY <1>1, <1>2, SizeInduction
<1> QED BY <1>3 DEF P

(* Two sums with the same weights agree where both are defined.            *)
LEMMA SumsAgree ==
  ASSUME NEW M, IsFiniteSet(M), NEW w \in [M -> Nat], NEW f, IsSum(f, w, M),
         NEW N \in SUBSET M, NEW v \in [N -> Nat], NEW g, IsSum(g, v, N),
         \A x \in N : v[x] = w[x]
  PROVE  \A s \in SUBSET N : g[s] = f[s]
<1> DEFINE size == [s \in SUBSET N |-> Cardinality(s)]
           P == {s \in SUBSET N : g[s] = f[s]}
<1>0. IsFiniteSet(N)
  BY FS_Subset
<1>1. size \in [SUBSET N -> Nat]
  BY <1>0, SubsetSizes
<1>2. ASSUME NEW s \in SUBSET N, \A t \in SUBSET N : size[t] < size[s] => t \in P
      PROVE  s \in P
  <2>1. CASE s = {}
    BY <2>1 DEF IsSum
  <2>2. CASE s # {}
    <3>1. PICK x \in s : TRUE
      BY <2>2
    <3>2. s \in SUBSET M /\ f[s] = w[x] + f[s \ {x}] /\ g[s] = v[x] + g[s \ {x}]
      BY <1>0, SumTakesAny
    <3>3. s \ {x} \in SUBSET N /\ size[s \ {x}] < size[s]
      BY <1>0, SubsetSizes
    <3>4. g[s \ {x}] = f[s \ {x}]
      BY <1>2, <3>3
    <3> QED BY <3>2, <3>4
  <2> QED BY <2>1, <2>2
<1> HIDE DEF P, size
<1>3. SUBSET N \subseteq P
  <2>1. \A s \in SUBSET N : (\A t \in SUBSET N : size[t] < size[s] => t \in P) => s \in P
    BY <1>2
  <2> QED BY ONLY <1>1, <2>1, SizeInduction
<1> QED BY <1>3 DEF P

-----------------------------------------------------------------------------
(***************************************************************************)
(* HighlightRules: merging                                                 *)
(***************************************************************************)

(* Min and Max of two numbers.                                             *)
LEMMA TwoNumbers ==
  ASSUME NEW x \in Nat, NEW y \in Nat
  PROVE  /\ Min({x, y}) = IF x <= y THEN x ELSE y
         /\ Max({x, y}) = IF x <= y THEN y ELSE x
<1>1. /\ Min({x, y}) \in {x, y} /\ \A z \in {x, y} : Min({x, y}) <= z
  <2>1. \E m \in {x, y} : \A z \in {x, y} : m <= z
    OBVIOUS
  <2> QED BY <2>1 DEF Min
<1>2. /\ Max({x, y}) \in {x, y} /\ \A z \in {x, y} : Max({x, y}) >= z
  <2>1. \E m \in {x, y} : \A z \in {x, y} : m >= z
    OBVIOUS
  <2> QED BY <2>1 DEF Max
<1> QED BY <1>1, <1>2

(* Two receipt lists without a common receipt are ordered by the earliest  *)
(* receipt of both.                                                        *)
LEMMA ListedFirst ==
  ASSUME NEW S \in SUBSET Nat, NEW T \in SUBSET Nat, S # {}, T # {}, S \cap T = {}
  PROVE  ListedBefore(S, T) <=> \E s \in S : \A t \in T : s < t
<1> DEFINE d == Min((S \ T) \cup (T \ S))
<1>1. (S \ T) \cup (T \ S) = S \cup T /\ S # T
  OBVIOUS
<1>2. d \in S \cup T /\ \A y \in S \cup T : d <= y
  BY <1>1, MinNat
<1>3. d \in Nat
  BY <1>2
<1> HIDE DEF d
<1>4. CASE d \in S
  <2>1. ASSUME NEW t \in T PROVE d < t
    <3>1. d <= t /\ d # t /\ t \in Nat
      BY <1>2, <1>4
    <3> QED BY <1>3, <3>1
  <2>2. \E t \in T : t > d
    BY <2>1, <1>3
  <2> QED BY <1>1, <1>4, <2>1, <2>2 DEF ListedBefore, d
<1>5. CASE d \in T
  <2>1. d \notin S
    BY <1>5
  <2>2. ASSUME NEW s \in S PROVE ~(s < d)
    BY <1>2, <1>3
  <2> QED BY <1>1, <1>5, <2>1, <2>2 DEF ListedBefore, d
<1> QED BY <1>2, <1>4, <1>5

(* One of two such lists comes first.                                      *)
LEMMA ListedTotal ==
  ASSUME NEW A \in SUBSET Nat, NEW B \in SUBSET Nat, A # {}, B # {}, A \cap B = {}
  PROVE  ListedBefore(A, B) \/ ListedBefore(B, A)
<1>1. PICK x \in A : \A y \in A : x <= y
  BY LeastNat
<1>2. PICK z \in B : \A y \in B : z <= y
  BY LeastNat
<1>3. x \in Nat /\ z \in Nat /\ x # z
  OBVIOUS
<1>4. CASE x < z
  <2>1. \A t \in B : x < t
    BY <1>2, <1>3, <1>4
  <2> QED BY <2>1, ListedFirst
<1>5. CASE z < x
  <2>1. \A t \in A : z < t
    BY <1>1, <1>3, <1>5
  <2>2. B \cap A = {}
    OBVIOUS
  <2> QED BY <2>1, <2>2, ListedFirst
<1> QED BY <1>3, <1>4, <1>5

(* The candidate order is a strict total order on a session's candidates.  *)
LEMMA BeforeIsAnOrder ==
  ASSUME NEW S \in CandidateSets
  PROVE  /\ \A a \in S : ~Before(a, a)
         /\ \A a, b \in S : a # b => Before(a, b) \/ Before(b, a)
         /\ \A a, b, c \in S : Before(a, b) /\ Before(b, c) => Before(a, c)
<1>0. \A a \in S : /\ a.round \in Nat /\ a.from \in Nat /\ a.to \in Nat
                   /\ a.receipts \in SUBSET Nat /\ a.receipts # {}
  BY HighlightAssumption DEF CandidateSets, Candidates
<1>1. \A a, b \in S : a # b => a.receipts \cap b.receipts = {}
  BY DEF CandidateSets
<1>2. ASSUME NEW a \in S PROVE ~Before(a, a)
  <2>1. ~ListedBefore(a.receipts, a.receipts)
    BY DEF ListedBefore
  <2> QED BY <1>0, <2>1 DEF Before
<1>3. ASSUME NEW a \in S, NEW b \in S, a # b
      PROVE  /\ ListedBefore(a.receipts, b.receipts) \/ ListedBefore(b.receipts, a.receipts)
             /\ Before(a, b) \/ Before(b, a)
  <2> DEFINE A == a.receipts
             B == b.receipts
  <2>1. A \in SUBSET Nat /\ B \in SUBSET Nat /\ A # {} /\ B # {} /\ A \cap B = {} /\ B \cap A = {}
    BY <1>0, <1>1, <1>3
  <2>6. ListedBefore(A, B) \/ ListedBefore(B, A)
    BY <2>1, ListedTotal
  <2>7. /\ a.round \in Nat /\ a.from \in Nat /\ a.to \in Nat
        /\ b.round \in Nat /\ b.from \in Nat /\ b.to \in Nat
    BY <1>0
  <2> QED BY <2>6, <2>7 DEF Before
<1>4. ASSUME NEW a \in S, NEW b \in S, NEW c \in S, Before(a, b), Before(b, c)
      PROVE  Before(a, c)
  <2>1. /\ a.round \in Nat /\ a.from \in Nat /\ a.to \in Nat
        /\ b.round \in Nat /\ b.from \in Nat /\ b.to \in Nat
        /\ c.round \in Nat /\ c.from \in Nat /\ c.to \in Nat
    BY <1>0
  <2>2. ASSUME ListedBefore(a.receipts, b.receipts), ListedBefore(b.receipts, c.receipts)
        PROVE  a = c \/ ListedBefore(a.receipts, c.receipts)
    <3> SUFFICES ASSUME a # c PROVE ListedBefore(a.receipts, c.receipts)
      OBVIOUS
    <3>1. a # b /\ b # c
      BY <2>2 DEF ListedBefore
    <3>2. /\ a.receipts \in SUBSET Nat /\ b.receipts \in SUBSET Nat /\ c.receipts \in SUBSET Nat
          /\ a.receipts # {} /\ b.receipts # {} /\ c.receipts # {}
      BY <1>0
    <3>3. PICK s \in a.receipts : \A t \in b.receipts : s < t
      BY <1>1, <2>2, <3>1, <3>2, ListedFirst
    <3>4. PICK u \in b.receipts : \A t \in c.receipts : u < t
      BY <1>1, <2>2, <3>1, <3>2, ListedFirst
    <3>5. ASSUME NEW t \in c.receipts PROVE s < t
      <4>1. s < u /\ u < t /\ s \in Nat /\ u \in Nat /\ t \in Nat
        BY <3>2, <3>3, <3>4
      <4> QED BY <4>1
    <3> QED BY <1>1, <3>2, <3>5, ListedFirst
  <2>3. CASE ListedBefore(a.receipts, b.receipts) /\ ListedBefore(b.receipts, c.receipts)
    <3>1. CASE a = c
      <4>1. a # b /\ b # a
        BY <2>3 DEF ListedBefore
      <4>2. /\ a.receipts \in SUBSET Nat /\ b.receipts \in SUBSET Nat
            /\ a.receipts # {} /\ b.receipts # {}
            /\ a.receipts \cap b.receipts = {} /\ b.receipts \cap a.receipts = {}
        BY <1>0, <1>1, <4>1
      <4>3. PICK s \in a.receipts : \A t \in b.receipts : s < t
        BY <2>3, <4>2, ListedFirst
      <4>4. PICK u \in b.receipts : \A t \in a.receipts : u < t
        BY <2>3, <3>1, <4>2, ListedFirst
      <4>5. s < u /\ u < s /\ s \in Nat /\ u \in Nat
        BY <4>2, <4>3, <4>4
      <4> QED BY <4>5
    <3>2. CASE ListedBefore(a.receipts, c.receipts)
      <4> HIDE DEF ListedBefore
      <4> QED BY <1>4, <2>1, <3>2 DEF Before
    <3> QED BY <2>2, <2>3, <3>1, <3>2
  <2>4. CASE ~(ListedBefore(a.receipts, b.receipts) /\ ListedBefore(b.receipts, c.receipts))
    BY <1>4, <2>1, <2>4 DEF Before
  <2> QED BY <2>3, <2>4
<1> QED BY <1>2, <1>3, <1>4

(* A pair of different candidates that can merge can be taken, whichever   *)
(* comes first.                                                            *)
Mergeable(S) == {q \in S \X S : q[1] # q[2] /\ CanMerge(q[1], q[2])}
Joined(S, a, b) == (S \ {a, b}) \cup {Merged(a, b)}
Steps(S) == {Joined(S, q[1], q[2]) : q \in Mergeable(S)}

(* Merging keeps every range, start and receipt of its parts, in any order. *)
LEMMA MergedCandidate ==
  ASSUME NEW a \in Candidates, NEW b \in Candidates, a.round = b.round
  PROVE  /\ Merged(a, b) \in Candidates
         /\ Merged(a, b) = Merged(b, a)
         /\ Merged(a, b).round = a.round
         /\ Merged(a, b).starts = a.starts \cup b.starts
         /\ Merged(a, b).receipts = a.receipts \cup b.receipts
         /\ Merged(a, b).from <= a.from /\ Merged(a, b).from <= b.from
         /\ a.to <= Merged(a, b).to /\ b.to <= Merged(a, b).to
<1>1. /\ a.from \in Nat /\ b.from \in Nat /\ a.to \in Nat /\ b.to \in Nat
      /\ a.round \in RuleRounds
      /\ a.starts \in SUBSET Nat /\ b.starts \in SUBSET Nat
      /\ a.receipts \in SUBSET Nat /\ b.receipts \in SUBSET Nat
      /\ a.receipts # {} /\ b.receipts # {}
  BY DEF Candidates
<1>2. /\ Min({a.from, b.from}) = IF a.from <= b.from THEN a.from ELSE b.from
      /\ Max({a.to, b.to}) = IF a.to <= b.to THEN b.to ELSE a.to
  BY <1>1, TwoNumbers
<1>3. {a.from, b.from} = {b.from, a.from} /\ {a.to, b.to} = {b.to, a.to}
  OBVIOUS
<1>4. /\ a.starts \cup b.starts = b.starts \cup a.starts
      /\ a.receipts \cup b.receipts = b.receipts \cup a.receipts
      /\ a.receipts \cup b.receipts # {}
  BY <1>1
<1>5. Merged(a, b) = Merged(b, a)
  BY <1>3, <1>4 DEF Merged
<1>6. Merged(a, b) \in Candidates
  <2>1. Min({a.from, b.from}) \in Nat /\ Max({a.to, b.to}) \in Nat
    BY <1>1, <1>2
  <2>2. a.starts \cup b.starts \in SUBSET Nat /\ a.receipts \cup b.receipts \in (SUBSET Nat) \ {{}}
    BY <1>1
  <2> QED BY <1>1, <2>1, <2>2 DEF Merged, Candidates
<1>7. /\ Merged(a, b).from <= a.from /\ Merged(a, b).from <= b.from
      /\ a.to <= Merged(a, b).to /\ b.to <= Merged(a, b).to
  BY <1>1, <1>2 DEF Merged
<1> QED BY <1>5, <1>6, <1>7 DEF Merged

(* Three candidates of a round merge to the same one either way round.     *)
LEMMA MergedAssociative ==
  ASSUME NEW a \in Candidates, NEW b \in Candidates, NEW c \in Candidates,
         a.round = b.round, b.round = c.round
  PROVE  Merged(Merged(a, b), c) = Merged(a, Merged(b, c))
<1> DEFINE ab == Merged(a, b)
           bc == Merged(b, c)
<1>1. /\ a.from \in Nat /\ b.from \in Nat /\ a.to \in Nat /\ b.to \in Nat
      /\ c.from \in Nat /\ c.to \in Nat
  BY DEF Candidates
<1>2. /\ ab.from = IF a.from <= b.from THEN a.from ELSE b.from
      /\ ab.to = IF a.to <= b.to THEN b.to ELSE a.to
      /\ bc.from = IF b.from <= c.from THEN b.from ELSE c.from
      /\ bc.to = IF b.to <= c.to THEN c.to ELSE b.to
  BY <1>1, TwoNumbers DEF Merged
<1>3. /\ ab.from \in Nat /\ ab.to \in Nat /\ bc.from \in Nat /\ bc.to \in Nat
  BY <1>1, <1>2
<1>4. /\ ab.round = a.round /\ ab.starts = a.starts \cup b.starts
      /\ ab.receipts = a.receipts \cup b.receipts
      /\ bc.round = b.round /\ bc.starts = b.starts \cup c.starts
      /\ bc.receipts = b.receipts \cup c.receipts
  BY DEF Merged
<1> HIDE DEF ab, bc
<1>5. Min({ab.from, c.from}) = Min({a.from, bc.from})
  <2>1. Min({ab.from, c.from}) = IF ab.from <= c.from THEN ab.from ELSE c.from
    BY <1>1, <1>3, TwoNumbers
  <2>2. Min({a.from, bc.from}) = IF a.from <= bc.from THEN a.from ELSE bc.from
    BY <1>1, <1>3, TwoNumbers
  <2> QED BY <1>1, <1>2, <2>1, <2>2
<1>6. Max({ab.to, c.to}) = Max({a.to, bc.to})
  <2>1. Max({ab.to, c.to}) = IF ab.to <= c.to THEN c.to ELSE ab.to
    BY <1>1, <1>3, TwoNumbers
  <2>2. Max({a.to, bc.to}) = IF a.to <= bc.to THEN bc.to ELSE a.to
    BY <1>1, <1>3, TwoNumbers
  <2> QED BY <1>1, <1>2, <2>1, <2>2
<1>7. /\ ab.starts \cup c.starts = a.starts \cup bc.starts
      /\ ab.receipts \cup c.receipts = a.receipts \cup bc.receipts
  BY <1>4
<1>8. Merged(ab, c) = Merged(a, bc)
  BY <1>4, <1>5, <1>6, <1>7 DEF Merged
<1> QED BY <1>8 DEF ab, bc

(* What could merge with a part can merge with the whole.                  *)
LEMMA WholeCanMerge ==
  ASSUME NEW a \in Candidates, NEW b \in Candidates, NEW c \in Candidates,
         a.round = b.round, CanMerge(b, c)
  PROVE  CanMerge(Merged(a, b), c)
<1>1. /\ Merged(a, b) \in Candidates
      /\ Merged(a, b).round = a.round
      /\ Merged(a, b).starts = a.starts \cup b.starts
      /\ Merged(a, b).from <= b.from
      /\ b.to <= Merged(a, b).to
  BY MergedCandidate
<1> DEFINE m == Merged(a, b)
<1>2. m.round = c.round
  BY <1>1 DEF CanMerge
<1>3. CASE Overlap(b, c)
  <2>1. /\ b.from \in Nat /\ b.to \in Nat /\ c.from \in Nat /\ c.to \in Nat
        /\ m.from \in Nat /\ m.to \in Nat
    BY <1>1 DEF Candidates
  <2> HIDE DEF m
  <2>2. m.from <= b.from /\ b.to <= m.to
    BY <1>1 DEF m
  <2>3. Overlap(m, c)
    BY <1>3, <2>1, <2>2 DEF Overlap
  <2> QED BY <1>2, <2>3 DEF CanMerge, m
<1>4. CASE \E s \in b.starts, t \in c.starts : Near(s, t)
  BY <1>1, <1>2, <1>4 DEF CanMerge
<1> QED BY <1>3, <1>4 DEF CanMerge

(* Which of two candidates is named first makes no difference.             *)
LEMMA CanMergeCommutes ==
  ASSUME NEW a \in Candidates, NEW b \in Candidates, CanMerge(a, b)
  PROVE  CanMerge(b, a)
<1>1. /\ a.from \in Nat /\ b.from \in Nat /\ a.to \in Nat /\ b.to \in Nat
      /\ a.starts \in SUBSET Nat /\ b.starts \in SUBSET Nat /\ MergeGap \in Nat
  BY HighlightAssumption DEF Candidates
<1>2. CASE Overlap(a, b)
  BY <1>1, <1>2 DEF CanMerge, Overlap
<1>3. CASE \E s \in a.starts, t \in b.starts : Near(s, t)
  <2>1. PICK s \in a.starts, t \in b.starts : Near(s, t)
    BY <1>3
  <2>2. Near(t, s)
    BY <1>1, <2>1 DEF Near
  <2> QED BY <2>2 DEF CanMerge
<1> QED BY <1>2, <1>3 DEF CanMerge

(* Merging two candidates leaves a session's candidates, one fewer, with   *)
(* the same receipts.                                                      *)
LEMMA JoinedSet ==
  ASSUME NEW S \in CandidateSets, NEW a \in S, NEW b \in S, a # b, CanMerge(a, b)
  PROVE  /\ Joined(S, a, b) \in CandidateSets
         /\ Joined(S, a, b) = Joined(S, b, a)
         /\ Cardinality(S) \in Nat
         /\ Cardinality(Joined(S, a, b)) \in Nat
         /\ Cardinality(Joined(S, a, b)) < Cardinality(S)
         /\ UNION {s.receipts : s \in Joined(S, a, b)} = UNION {s.receipts : s \in S}
<1> DEFINE m == Merged(a, b)
           R == S \ {a, b}
<1>1. /\ S \subseteq Candidates /\ IsFiniteSet(S) /\ a \in Candidates /\ b \in Candidates
      /\ \A s, t \in S : s # t => s.receipts \cap t.receipts = {}
  BY DEF CandidateSets
<1>2. a.round = b.round
  BY DEF CanMerge
<1>3. /\ m \in Candidates /\ m = Merged(b, a)
      /\ m.receipts = a.receipts \cup b.receipts
  BY <1>1, <1>2, MergedCandidate
<1> HIDE DEF m
<1>4. Joined(S, a, b) = R \cup {m} /\ Joined(S, b, a) = R \cup {m}
  BY <1>3 DEF Joined, m
<1>5. \A s \in R : s.receipts \cap m.receipts = {}
  BY <1>1, <1>3
<1>6. \A s \in R : s.receipts # {}
  BY <1>1 DEF Candidates
<1>7. R \cup {m} \in CandidateSets
  <2>1. IsFiniteSet(R)
    BY <1>1, FS_Subset
  <2>2. IsFiniteSet(R \cup {m})
    BY <2>1, FS_AddElement
  <2>3. \A s, t \in R \cup {m} : s # t => s.receipts \cap t.receipts = {}
    BY <1>1, <1>5
  <2> QED BY <1>1, <1>3, <2>2, <2>3 DEF CandidateSets
<1>8. /\ Cardinality(S) \in Nat /\ Cardinality(R \cup {m}) \in Nat
      /\ Cardinality(R \cup {m}) < Cardinality(S)
  <2>1. /\ IsFiniteSet(S \ {a}) /\ Cardinality(S \ {a}) = Cardinality(S) - 1
    BY <1>1, FS_RemoveElement
  <2>2. R = (S \ {a}) \ {b} /\ b \in S \ {a}
    OBVIOUS
  <2>3. /\ IsFiniteSet(R) /\ Cardinality(R) = Cardinality(S \ {a}) - 1
    BY <2>1, <2>2, FS_RemoveElement
  <2>4. m \notin R
    BY <1>5, <1>6
  <2>5. Cardinality(R \cup {m}) = Cardinality(R) + 1 /\ IsFiniteSet(R \cup {m})
    BY <2>3, <2>4, FS_AddElement
  <2>6. Cardinality(S) \in Nat /\ Cardinality(R \cup {m}) \in Nat
    BY <1>1, <2>5, FS_CardinalityType
  <2> HIDE DEF R
  <2> QED BY <2>1, <2>3, <2>5, <2>6
<1>9. UNION {s.receipts : s \in R \cup {m}} = UNION {s.receipts : s \in S}
  <2>1. ASSUME NEW x, NEW s \in R \cup {m}, x \in s.receipts
        PROVE  \E t \in S : x \in t.receipts
    BY <1>3, <2>1
  <2>2. ASSUME NEW x, NEW s \in S, x \in s.receipts
        PROVE  \E t \in R \cup {m} : x \in t.receipts
    BY <1>3, <2>2
  <2> QED BY <2>1, <2>2
<1> QED BY <1>4, <1>7, <1>8, <1>9

(* The pairs the loop chooses from lead to exactly these sets.             *)
LEMMA PairsAreMergeable ==
  ASSUME NEW S \in CandidateSets
  PROVE  /\ Pairs(S) = {} <=> Mergeable(S) = {}
         /\ \A p \in Pairs(S) : p \in Mergeable(S) /\ Fuse(S, p) = Joined(S, p[1], p[2])
         /\ {Fuse(S, p) : p \in Pairs(S)} = Steps(S)
         /\ Pairs(S) # {} => FirstPair(S) \in Pairs(S)
<1>0. S \subseteq Candidates /\ IsFiniteSet(S)
  BY DEF CandidateSets
<1>1. \A p \in Pairs(S) : p \in Mergeable(S) /\ Fuse(S, p) = Joined(S, p[1], p[2])
  <2>1. ASSUME NEW p \in Pairs(S) PROVE p \in Mergeable(S)
    <3>1. p \in S \X S /\ Before(p[1], p[2]) /\ CanMerge(p[1], p[2])
      BY DEF Pairs
    <3>2. p[1] \in S /\ p[1] # p[2]
      BY <3>1, BeforeIsAnOrder
    <3> QED BY <3>1, <3>2 DEF Mergeable
  <2> QED BY <2>1 DEF Fuse, Joined
<1>2. ASSUME NEW q \in Mergeable(S)
      PROVE  \E p \in Pairs(S) : Fuse(S, p) = Joined(S, q[1], q[2])
  <2>1. q[1] \in S /\ q[2] \in S /\ q[1] # q[2] /\ CanMerge(q[1], q[2])
    BY DEF Mergeable
  <2>2. CASE Before(q[1], q[2])
    <3>1. q \in Pairs(S)
      BY <2>1, <2>2 DEF Pairs, Mergeable
    <3> QED BY <1>1, <3>1
  <2>3. CASE Before(q[2], q[1])
    <3>1. CanMerge(q[2], q[1])
      BY <1>0, <2>1, CanMergeCommutes
    <3>2. <<q[2], q[1]>> \in Pairs(S)
      BY <2>1, <2>3, <3>1 DEF Pairs
    <3>3. Joined(S, q[2], q[1]) = Joined(S, q[1], q[2])
      BY <2>1, JoinedSet
    <3> QED BY <1>1, <3>2, <3>3
  <2> QED BY <2>1, <2>2, <2>3, BeforeIsAnOrder
<1>3. {Fuse(S, p) : p \in Pairs(S)} = Steps(S)
  BY <1>1, <1>2 DEF Steps
<1>4. ASSUME Pairs(S) # {} PROVE FirstPair(S) \in Pairs(S)
  <2> DEFINE Lex(p, q) == Before(p[1], q[1]) \/ (p[1] = q[1] /\ Before(p[2], q[2]))
             R == {r \in Pairs(S) \X Pairs(S) : Lex(r[1], r[2])}
  <2>1. IsFiniteSet(Pairs(S))
    <3>1. IsFiniteSet(S \X S)
      BY <1>0, FS_Product
    <3>2. Pairs(S) \in SUBSET (S \X S)
      BY DEF Pairs
    <3> QED BY <3>1, <3>2, FS_Subset
  <2>0. \A p \in Pairs(S) : p[1] \in S /\ p[2] \in S /\ p = <<p[1], p[2]>>
    BY DEF Pairs
  <2>2. ASSUME NEW p \in Pairs(S), NEW q \in Pairs(S), p # q PROVE Lex(p, q) \/ Lex(q, p)
    <3>1. p[1] # q[1] \/ p[2] # q[2]
      BY <2>0, <2>2
    <3> QED BY <2>0, <3>1, BeforeIsAnOrder
  <2>3. ASSUME NEW p \in Pairs(S), NEW q \in Pairs(S), NEW r \in Pairs(S), Lex(p, q), Lex(q, r)
        PROVE  Lex(p, r)
    <3>1. /\ p[1] \in S /\ p[2] \in S /\ q[1] \in S /\ q[2] \in S /\ r[1] \in S /\ r[2] \in S
      BY <2>0
    <3>2. \A a, b, c \in S : Before(a, b) /\ Before(b, c) => Before(a, c)
      BY BeforeIsAnOrder
    <3> QED BY <2>3, <3>1, <3>2
  <2> HIDE DEF Lex
  <2>4. /\ \A x, y \in Pairs(S) : x # y => <<x, y>> \in R \/ <<y, x>> \in R
        /\ \A x, y, z \in Pairs(S) : <<x, y>> \in R /\ <<y, z>> \in R => <<x, z>> \in R
    BY <2>2, <2>3
  <2> HIDE DEF R
  <2>5. \E x \in Pairs(S) : \A y \in Pairs(S) \ {x} : <<x, y>> \in R
    BY <1>4, <2>1, <2>4, FirstElement
  <2>6. \E x \in Pairs(S) : \A y \in Pairs(S) \ {x} : Lex(x, y)
    BY <2>5 DEF R
  <2> QED BY <2>6 DEF FirstPair, Lex
<1>5. Pairs(S) = {} <=> Mergeable(S) = {}
  BY <1>1, <1>2
<1> QED BY <1>1, <1>3, <1>4, <1>5

(* A step leads to a session's candidates again, fewer of them, with the   *)
(* same receipts.                                                          *)
LEMMA StepIsSmaller ==
  ASSUME NEW S \in CandidateSets, NEW T \in Steps(S)
  PROVE  /\ T \in CandidateSets
         /\ Cardinality(S) \in Nat /\ Cardinality(T) \in Nat
         /\ Cardinality(T) < Cardinality(S)
         /\ UNION {s.receipts : s \in T} = UNION {s.receipts : s \in S}
<1>1. PICK q \in Mergeable(S) : T = Joined(S, q[1], q[2])
  BY DEF Steps
<1>2. q[1] \in S /\ q[2] \in S /\ q[1] # q[2] /\ CanMerge(q[1], q[2])
  BY DEF Mergeable
<1> QED BY <1>1, <1>2, JoinedSet

(* Two ways to merge a pair that have a candidate in common meet again.    *)
LEMMA SharedPart ==
  ASSUME NEW S \in CandidateSets, NEW a \in S, NEW b \in S, NEW c \in S,
         a # b, b # c, a # c, CanMerge(a, b), CanMerge(b, c)
  PROVE  Joined(Joined(S, a, b), Merged(a, b), c) = Joined(Joined(S, b, c), a, Merged(b, c))
         /\ Joined(Joined(S, a, b), Merged(a, b), c) \in Steps(Joined(S, a, b))
         /\ Joined(Joined(S, b, c), a, Merged(b, c)) \in Steps(Joined(S, b, c))
<1> DEFINE ab == Merged(a, b)
           bc == Merged(b, c)
           R == S \ {a, b, c}
<1>1. /\ a \in Candidates /\ b \in Candidates /\ c \in Candidates
      /\ a.round = b.round /\ b.round = c.round
      /\ \A s, t \in S : s # t => s.receipts \cap t.receipts = {}
      /\ \A s \in S : s.receipts # {}
  BY DEF CandidateSets, Candidates, CanMerge
<1>2. /\ ab \in Candidates /\ bc \in Candidates /\ bc = Merged(c, b)
      /\ ab.receipts = a.receipts \cup b.receipts
      /\ bc.receipts = b.receipts \cup c.receipts
  BY <1>1, MergedCandidate
<1>3. Merged(ab, c) = Merged(a, bc)
  BY <1>1, MergedAssociative
<1>4. CanMerge(ab, c)
  BY <1>1, WholeCanMerge
<1>5. CanMerge(bc, a)
  <2>1. CanMerge(b, a)
    BY <1>1, CanMergeCommutes
  <2> QED BY <1>1, <1>2, <2>1, WholeCanMerge
<1>6. CanMerge(a, bc)
  BY <1>1, <1>2, <1>5, CanMergeCommutes
<1> HIDE DEF ab, bc
<1>7. /\ ab \notin S /\ bc \notin S
  <2>1. ab # c /\ bc # a
    <3>1. ab.receipts \cap a.receipts # {} /\ bc.receipts \cap b.receipts # {}
      BY <1>1, <1>2
    <3>2. c.receipts \cap a.receipts = {} /\ a.receipts \cap b.receipts = {}
      BY <1>1
    <3> QED BY <3>1, <3>2
  <2>2. ASSUME ab \in S PROVE FALSE
    <3>1. ab.receipts \cap a.receipts # {} /\ ab.receipts \cap b.receipts # {}
      BY <1>1, <1>2
    <3>2. ab = a /\ ab = b
      BY <1>1, <2>2, <3>1
    <3> QED BY <3>2
  <2>3. ASSUME bc \in S PROVE FALSE
    <3>1. bc.receipts \cap b.receipts # {} /\ bc.receipts \cap c.receipts # {}
      BY <1>1, <1>2
    <3>2. bc = b /\ bc = c
      BY <1>1, <2>3, <3>1
    <3> QED BY <3>2
  <2> QED BY <2>2, <2>3
<1>8. Joined(S, a, b) = R \cup {ab, c} /\ Joined(S, b, c) = R \cup {a, bc}
  BY DEF Joined, ab, bc
<1>9. /\ Joined(R \cup {ab, c}, ab, c) = R \cup {Merged(ab, c)}
      /\ Joined(R \cup {a, bc}, a, bc) = R \cup {Merged(a, bc)}
  BY <1>7 DEF Joined
<1>10. <<ab, c>> \in Mergeable(R \cup {ab, c}) /\ <<a, bc>> \in Mergeable(R \cup {a, bc})
  BY <1>4, <1>6, <1>7 DEF Mergeable
<1>11. /\ Joined(R \cup {ab, c}, ab, c) \in Steps(R \cup {ab, c})
       /\ Joined(R \cup {a, bc}, a, bc) \in Steps(R \cup {a, bc})
  BY <1>10 DEF Steps
<1> QED BY <1>3, <1>8, <1>9, <1>11 DEF ab, bc

(* Two ways to merge pairs without a common candidate meet again.          *)
LEMMA SeparateParts ==
  ASSUME NEW S \in CandidateSets, NEW a \in S, NEW b \in S, NEW c \in S, NEW d \in S,
         a # b, c # d, {a, b} \cap {c, d} = {}, CanMerge(a, b), CanMerge(c, d)
  PROVE  Joined(Joined(S, a, b), c, d) = Joined(Joined(S, c, d), a, b)
         /\ Joined(Joined(S, a, b), c, d) \in Steps(Joined(S, a, b))
         /\ Joined(Joined(S, c, d), a, b) \in Steps(Joined(S, c, d))
<1> DEFINE ab == Merged(a, b)
           cd == Merged(c, d)
           R == S \ {a, b, c, d}
<1>1. /\ a \in Candidates /\ b \in Candidates /\ c \in Candidates /\ d \in Candidates
      /\ a.round = b.round /\ c.round = d.round
      /\ \A s, t \in S : s # t => s.receipts \cap t.receipts = {}
      /\ \A s \in S : s.receipts # {}
  BY DEF CandidateSets, Candidates, CanMerge
<1>2. /\ ab.receipts = a.receipts \cup b.receipts
      /\ cd.receipts = c.receipts \cup d.receipts
  BY DEF Merged
<1> HIDE DEF ab, cd
<1>3. ab \notin S
  <2> SUFFICES ASSUME ab \in S PROVE FALSE
    OBVIOUS
  <2>1. ab.receipts \cap a.receipts # {} /\ ab.receipts \cap b.receipts # {}
    BY <1>1, <1>2
  <2>2. ab = a /\ ab = b
    BY <1>1, <2>1
  <2> QED BY <2>2
<1>4. cd \notin S
  <2> SUFFICES ASSUME cd \in S PROVE FALSE
    OBVIOUS
  <2>1. cd.receipts \cap c.receipts # {} /\ cd.receipts \cap d.receipts # {}
    BY <1>1, <1>2
  <2>2. cd = c /\ cd = d
    BY <1>1, <2>1
  <2> QED BY <2>2
<1>8. Joined(S, a, b) = R \cup {ab, c, d} /\ Joined(S, c, d) = R \cup {a, b, cd}
  BY DEF Joined, ab, cd
<1>9. /\ Joined(R \cup {ab, c, d}, c, d) = R \cup {ab, cd}
      /\ Joined(R \cup {a, b, cd}, a, b) = R \cup {ab, cd}
  BY <1>3, <1>4 DEF Joined, ab, cd
<1>10. <<c, d>> \in Mergeable(R \cup {ab, c, d}) /\ <<a, b>> \in Mergeable(R \cup {a, b, cd})
  BY DEF Mergeable
<1>11. /\ Joined(R \cup {ab, c, d}, c, d) \in Steps(R \cup {ab, c, d})
       /\ Joined(R \cup {a, b, cd}, a, b) \in Steps(R \cup {a, b, cd})
  BY <1>10 DEF Steps
<1> QED BY <1>8, <1>9, <1>11

(* Whichever two pairs are merged first, one more step can lead to the same *)
(* candidates.                                                             *)
LEMMA Diamond ==
  ASSUME NEW S \in CandidateSets, NEW T \in Steps(S), NEW U \in Steps(S)
  PROVE  T = U \/ \E X : X \in Steps(T) /\ X \in Steps(U)
<1>1. PICK p \in Mergeable(S) : T = Joined(S, p[1], p[2])
  BY DEF Steps
<1>2. PICK q \in Mergeable(S) : U = Joined(S, q[1], q[2])
  BY DEF Steps
<1> DEFINE a == p[1]
           b == p[2]
           c == q[1]
           d == q[2]
<1>3. /\ a \in S /\ b \in S /\ a # b /\ CanMerge(a, b)
      /\ c \in S /\ d \in S /\ c # d /\ CanMerge(c, d)
  BY DEF Mergeable
<1>4. T = Joined(S, a, b) /\ U = Joined(S, c, d)
  BY <1>1, <1>2
<1> HIDE DEF a, b, c, d
<1>5. /\ CanMerge(b, a) /\ CanMerge(d, c)
      /\ T = Joined(S, b, a) /\ U = Joined(S, d, c)
  BY <1>3, <1>4, JoinedSet, CanMergeCommutes DEF CandidateSets
<1>6. CASE {a, b} \cap {c, d} = {}
  BY <1>3, <1>4, <1>6, SeparateParts
<1>7. CASE b = c
  <2>1. CASE a = d
    BY <1>4, <1>5, <1>7, <2>1
  <2>2. CASE a # d
    BY <1>3, <1>4, <1>7, <2>2, SharedPart
  <2> QED BY <2>1, <2>2
<1>8. CASE b = d
  <2>1. CASE a = c
    BY <1>4, <1>8, <2>1
  <2>2. CASE a # c
    <3>1. b # c /\ CanMerge(b, c) /\ U = Joined(S, b, c)
      BY <1>3, <1>5, <1>8
    <3> QED BY <1>3, <1>4, <2>2, <3>1, SharedPart
  <2> QED BY <2>1, <2>2
<1>9. CASE a = c
  <2>1. CASE b = d
    BY <1>4, <1>9, <2>1
  <2>2. CASE b # d
    <3>1. a # d /\ CanMerge(a, d) /\ U = Joined(S, a, d)
      BY <1>3, <1>4, <1>9
    <3> QED BY <1>3, <1>5, <2>2, <3>1, SharedPart
  <2> QED BY <2>1, <2>2
<1>10. CASE a = d
  <2>1. CASE b = c
    BY <1>4, <1>5, <1>10, <2>1
  <2>2. CASE b # c
    BY <1>3, <1>4, <1>5, <1>10, <2>2, SharedPart
  <2> QED BY <2>1, <2>2
<1> QED BY <1>6, <1>7, <1>8, <1>9, <1>10

(* What the two recursions over merging compute.                           *)
LEMMA MergeCandidatesDef ==
  /\ MergeCandidates \in [CandidateSets -> CandidateSets]
  /\ \A S \in CandidateSets :
        MergeCandidates[S] = IF Pairs(S) = {} THEN S
                             ELSE MergeCandidates[Fuse(S, FirstPair(S))]
<1> DEFINE size == [S \in CandidateSets |-> Cardinality(S)]
           below == [S \in CandidateSets |->
                       IF Pairs(S) = {} THEN {} ELSE {Fuse(S, FirstPair(S))}]
           h == [S \in CandidateSets |-> [f \in [below[S] -> CandidateSets] |->
                   IF Pairs(S) = {} THEN S ELSE f[Fuse(S, FirstPair(S))]]]
<1>1. size \in [CandidateSets -> Nat]
  BY FS_CardinalityType DEF CandidateSets
<1>2. ASSUME NEW S \in CandidateSets, NEW T \in below[S]
      PROVE  T \in CandidateSets /\ size[T] < size[S]
  <2>1. Pairs(S) # {} /\ T = Fuse(S, FirstPair(S))
    BY <1>2
  <2>2. T \in Steps(S)
    BY <2>1, PairsAreMergeable
  <2> QED BY <2>2, StepIsSmaller
<1>3. ASSUME NEW S \in CandidateSets PROVE h[S] \in [[below[S] -> CandidateSets] -> CandidateSets]
  OBVIOUS
<1> HIDE DEF size, h
<1>4. \E g : Solves(g, CandidateSets, CandidateSets, below, h)
  <2>1. Founded(CandidateSets, CandidateSets, size, below, h)
    BY <1>1, <1>2, <1>3 DEF Founded
  <2> QED BY <2>1, Recursion
<1>5. PICK g \in [CandidateSets -> CandidateSets] :
         \A S \in CandidateSets : g[S] = h[S][[T \in below[S] |-> g[T]]]
  BY <1>4 DEF Solves
<1>6. ASSUME NEW S \in CandidateSets
      PROVE  g[S] = IF Pairs(S) = {} THEN S ELSE g[Fuse(S, FirstPair(S))]
  <2>1. [T \in below[S] |-> g[T]] \in [below[S] -> CandidateSets]
    BY <1>2
  <2>2. g[S] = IF Pairs(S) = {} THEN S ELSE [T \in below[S] |-> g[T]][Fuse(S, FirstPair(S))]
    BY <1>5, <2>1 DEF h
  <2> QED BY <2>2
<1>7. g = [S \in CandidateSets |-> IF Pairs(S) = {} THEN S ELSE g[Fuse(S, FirstPair(S))]]
  BY <1>5, <1>6
<1>8. MergeCandidates = [S \in CandidateSets |->
          IF Pairs(S) = {} THEN S ELSE MergeCandidates[Fuse(S, FirstPair(S))]]
  BY <1>7 DEF MergeCandidates
<1>9. MergeCandidates \in [CandidateSets -> CandidateSets]
  <2> DEFINE P == {S \in CandidateSets : MergeCandidates[S] \in CandidateSets}
  <2>1. ASSUME NEW S \in CandidateSets, \A T \in CandidateSets : size[T] < size[S] => T \in P
        PROVE  S \in P
    <3>1. CASE Pairs(S) = {}
      BY <1>8, <3>1
    <3>2. CASE Pairs(S) # {}
      <4>1. Fuse(S, FirstPair(S)) \in below[S]
        BY <3>2
      <4>2. Fuse(S, FirstPair(S)) \in P
        BY <1>2, <2>1, <4>1
      <4> QED BY <1>8, <3>2, <4>2
    <3> QED BY <3>1, <3>2
  <2> HIDE DEF P
  <2>2. CandidateSets \subseteq P
    BY <1>1, <2>1, SizeInduction
  <2> QED BY <1>8, <2>2 DEF P
<1> QED BY <1>8, <1>9

(* What the recursion over all orders of merging computes.                 *)
LEMMA NormalFormsDef ==
  /\ NormalForms \in [CandidateSets -> SUBSET CandidateSets]
  /\ \A S \in CandidateSets :
        NormalForms[S] = IF Pairs(S) = {} THEN {S}
                         ELSE UNION {NormalForms[T] : T \in Steps(S)}
<1> DEFINE V == SUBSET CandidateSets
           size == [S \in CandidateSets |-> Cardinality(S)]
           below == [S \in CandidateSets |-> {Fuse(S, p) : p \in Pairs(S)}]
           h == [S \in CandidateSets |-> [f \in [below[S] -> V] |->
                   IF Pairs(S) = {} THEN {S} ELSE UNION {f[Fuse(S, p)] : p \in Pairs(S)}]]
<1>1. size \in [CandidateSets -> Nat]
  BY FS_CardinalityType DEF CandidateSets
<1>0. \A S \in CandidateSets : below[S] = Steps(S)
  BY PairsAreMergeable
<1>2. ASSUME NEW S \in CandidateSets, NEW T \in below[S]
      PROVE  T \in CandidateSets /\ size[T] < size[S]
  <2>2. T \in Steps(S)
    BY <1>0, <1>2
  <2> QED BY <2>2, StepIsSmaller
<1>3. ASSUME NEW S \in CandidateSets PROVE h[S] \in [[below[S] -> V] -> V]
  <2>1. ASSUME NEW f \in [below[S] -> V]
        PROVE  (IF Pairs(S) = {} THEN {S} ELSE UNION {f[Fuse(S, p)] : p \in Pairs(S)}) \in V
    <3>1. \A p \in Pairs(S) : f[Fuse(S, p)] \in V
      OBVIOUS
    <3> QED BY <3>1
  <2> QED BY <2>1
<1> HIDE DEF size, h
<1>4. \E g : Solves(g, CandidateSets, V, below, h)
  <2>1. Founded(CandidateSets, V, size, below, h)
    BY <1>1, <1>2, <1>3 DEF Founded
  <2> QED BY <2>1, Recursion
<1>5. PICK g \in [CandidateSets -> V] :
         \A S \in CandidateSets : g[S] = h[S][[T \in below[S] |-> g[T]]]
  BY <1>4 DEF Solves
<1>6. ASSUME NEW S \in CandidateSets
      PROVE  g[S] = IF Pairs(S) = {} THEN {S} ELSE UNION {g[Fuse(S, p)] : p \in Pairs(S)}
  <2>1. [T \in below[S] |-> g[T]] \in [below[S] -> V]
    BY <1>2
  <2>2. g[S] = IF Pairs(S) = {} THEN {S}
               ELSE UNION {[T \in below[S] |-> g[T]][Fuse(S, p)] : p \in Pairs(S)}
    BY <1>5, <2>1 DEF h
  <2>3. \A p \in Pairs(S) : [T \in below[S] |-> g[T]][Fuse(S, p)] = g[Fuse(S, p)]
    OBVIOUS
  <2> QED BY <2>2, <2>3
<1>7. g = [S \in CandidateSets |->
             IF Pairs(S) = {} THEN {S} ELSE UNION {g[Fuse(S, p)] : p \in Pairs(S)}]
  BY <1>5, <1>6
<1>8. NormalForms = [S \in CandidateSets |->
          IF Pairs(S) = {} THEN {S} ELSE UNION {NormalForms[Fuse(S, p)] : p \in Pairs(S)}]
  BY <1>7 DEF NormalForms
<1>9. ASSUME NEW S \in CandidateSets
      PROVE  NormalForms[S] = IF Pairs(S) = {} THEN {S}
                              ELSE UNION {NormalForms[T] : T \in Steps(S)}
  <2>1. {NormalForms[Fuse(S, p)] : p \in Pairs(S)} = {NormalForms[T] : T \in Steps(S)}
    <3>1. Steps(S) = {Fuse(S, p) : p \in Pairs(S)}
      BY <1>0
    <3> QED BY <3>1
  <2> QED BY <1>8, <2>1
<1>10. NormalForms \in [CandidateSets -> V]
  <2> DEFINE P == {S \in CandidateSets : NormalForms[S] \in V}
  <2>1. ASSUME NEW S \in CandidateSets, \A T \in CandidateSets : size[T] < size[S] => T \in P
        PROVE  S \in P
    <3>1. CASE Pairs(S) = {}
      BY <1>9, <3>1
    <3>2. CASE Pairs(S) # {}
      <4>1. \A T \in Steps(S) : NormalForms[T] \in V
        BY <1>0, <1>2, <2>1
      <4>2. NormalForms[S] = UNION {NormalForms[T] : T \in Steps(S)}
        BY <1>9, <3>2
      <4>3. ASSUME NEW X \in NormalForms[S] PROVE X \in CandidateSets
        <5>1. PICK T \in Steps(S) : X \in NormalForms[T]
          BY <4>2
        <5> QED BY <4>1, <5>1
      <4> QED BY <4>3
    <3> QED BY <3>1, <3>2
  <2> HIDE DEF P
  <2>2. CandidateSets \subseteq P
    BY <1>1, <2>1, SizeInduction
  <2> QED BY <1>8, <2>2 DEF P
<1> QED BY <1>9, <1>10

(* Whichever pair is taken, and then whichever next, merging ends with the *)
(* same candidates: those the loop of merge_candidates ends with.          *)
THEOREM MergingIsConfluent ==
  ASSUME NEW S \in CandidateSets
  PROVE  /\ NormalForms[S] = {MergeCandidates[S]}
         /\ \A T \in Steps(S) : MergeCandidates[T] = MergeCandidates[S]
<1> DEFINE size == [X \in CandidateSets |-> Cardinality(X)]
           P == {X \in CandidateSets : /\ NormalForms[X] = {MergeCandidates[X]}
                                       /\ \A T \in Steps(X) : MergeCandidates[T] = MergeCandidates[X]}
<1>1. size \in [CandidateSets -> Nat]
  BY FS_CardinalityType DEF CandidateSets
<1>2. ASSUME NEW X \in CandidateSets, \A T \in CandidateSets : size[T] < size[X] => T \in P
      PROVE  X \in P
  <2>0. \A T \in Steps(X) : T \in P
    <3>1. ASSUME NEW T \in Steps(X) PROVE T \in CandidateSets /\ size[T] < size[X]
      BY StepIsSmaller
    <3> QED BY <1>2, <3>1
  <2>1. CASE Pairs(X) = {}
    <3>1. Steps(X) = {}
      BY <2>1, PairsAreMergeable
    <3> QED BY <2>1, <3>1, MergeCandidatesDef, NormalFormsDef
  <2>2. CASE Pairs(X) # {}
    <3> DEFINE F == Fuse(X, FirstPair(X))
    <3>1. F \in Steps(X)
      BY <2>2, PairsAreMergeable
    <3>2. MergeCandidates[X] = MergeCandidates[F]
      BY <2>2, MergeCandidatesDef
    <3> HIDE DEF F
    <3>3. ASSUME NEW T \in Steps(X) PROVE MergeCandidates[T] = MergeCandidates[F]
      <4>1. CASE T = F
        BY <4>1
      <4>2. CASE \E Y : Y \in Steps(T) /\ Y \in Steps(F)
        BY <2>0, <3>1, <4>2
      <4> QED BY <3>1, <4>1, <4>2, Diamond
    <3>4. \A T \in Steps(X) : NormalForms[T] = {MergeCandidates[F]}
      BY <2>0, <3>3
    <3>5. NormalForms[X] = UNION {NormalForms[T] : T \in Steps(X)}
      BY <2>2, NormalFormsDef
    <3>6. NormalForms[X] = {MergeCandidates[F]}
      BY <3>1, <3>4, <3>5
    <3> QED BY <3>2, <3>3, <3>6
  <2> QED BY <2>1, <2>2
<1> HIDE DEF P, size
<1>3. CandidateSets \subseteq P
  BY <1>1, <1>2, SizeInduction
<1> QED BY <1>3 DEF P

(* Merging what was merged with one more candidate gives what merging all  *)
(* of them at once gives.                                                  *)
LEMMA MergedAsTheyCome ==
  ASSUME NEW S \in CandidateSets, NEW c \in Candidates,
         \A s \in S : s.receipts \cap c.receipts = {}
  PROVE  /\ S \cup {c} \in CandidateSets
         /\ MergeCandidates[S] \cup {c} \in CandidateSets
         /\ MergeCandidates[MergeCandidates[S] \cup {c}] = MergeCandidates[S \cup {c}]
<1> DEFINE Apart(X) == \A s \in X : s.receipts \cap c.receipts = {}
           size == [X \in CandidateSets |-> Cardinality(X)]
           M == MergeCandidates
           P == {X \in CandidateSets : Apart(X) =>
                   /\ M[X] \cup {c} \in CandidateSets
                   /\ M[M[X] \cup {c}] = M[X \cup {c}]}
<1>1. size \in [CandidateSets -> Nat]
  BY FS_CardinalityType DEF CandidateSets
<1>0. ASSUME NEW X \in CandidateSets, Apart(X) PROVE X \cup {c} \in CandidateSets
  <2>1. X \subseteq Candidates /\ IsFiniteSet(X)
        /\ \A a, b \in X : a # b => a.receipts \cap b.receipts = {}
    BY DEF CandidateSets
  <2>2. IsFiniteSet(X \cup {c})
    BY <2>1, FS_AddElement
  <2>3. \A a, b \in X \cup {c} : a # b => a.receipts \cap b.receipts = {}
    BY <1>0, <2>1
  <2> QED BY <2>1, <2>2, <2>3 DEF CandidateSets
<1>2. ASSUME NEW X \in CandidateSets, \A T \in CandidateSets : size[T] < size[X] => T \in P
      PROVE  X \in P
  <2> SUFFICES ASSUME Apart(X)
               PROVE  /\ M[X] \cup {c} \in CandidateSets
                      /\ M[M[X] \cup {c}] = M[X \cup {c}]
    OBVIOUS
  <2>1. CASE Pairs(X) = {}
    <3>1. M[X] = X
      BY <2>1, MergeCandidatesDef
    <3> QED BY <1>0, <3>1
  <2>2. CASE Pairs(X) # {}
    <3> DEFINE p == FirstPair(X)
               F == Fuse(X, p)
    <3>1. p \in Mergeable(X) /\ F = Joined(X, p[1], p[2]) /\ F \in Steps(X)
      BY <2>2, PairsAreMergeable
    <3>2. M[X] = M[F]
      BY <2>2, MergeCandidatesDef
    <3> HIDE DEF F, p
    <3>3. /\ F \in CandidateSets /\ size[F] < size[X]
          /\ UNION {s.receipts : s \in F} = UNION {s.receipts : s \in X}
      BY <3>1, StepIsSmaller
    <3>4. Apart(F)
      <4>1. ASSUME NEW s \in F, NEW r \in s.receipts PROVE r \notin c.receipts
        <5>1. r \in UNION {t.receipts : t \in X}
          BY <3>3
        <5> QED BY <5>1
      <4> QED BY <4>1
    <3>5. M[F] \cup {c} \in CandidateSets /\ M[M[F] \cup {c}] = M[F \cup {c}]
      BY <1>2, <3>3, <3>4
    <3>6. F \cup {c} \in Steps(X \cup {c})
      <4>1. p[1] \in X /\ p[2] \in X /\ p[1] # p[2] /\ CanMerge(p[1], p[2])
        BY <3>1 DEF Mergeable
      <4>2. c \notin X
        <5>1. c.receipts # {} /\ c.receipts \cap c.receipts = c.receipts
          BY DEF Candidates
        <5> QED BY <5>1
      <4>3. F \cup {c} = Joined(X \cup {c}, p[1], p[2])
        BY <3>1, <4>1, <4>2 DEF Joined
      <4>4. <<p[1], p[2]>> \in Mergeable(X \cup {c})
        BY <4>1 DEF Mergeable
      <4> QED BY <4>3, <4>4 DEF Steps
    <3>7. M[F \cup {c}] = M[X \cup {c}]
      BY <1>0, <3>6, MergingIsConfluent
    <3> QED BY <3>2, <3>5, <3>7
  <2> QED BY <2>1, <2>2
<1> HIDE DEF P, size
<1>3. CandidateSets \subseteq P
  BY <1>1, <1>2, SizeInduction
<1> QED BY <1>0, <1>3 DEF P

(* The candidates of a session have the receipts 1, 2, ... in the order of *)
(* their arrival, and what is merged is what merging them all gives.       *)
SessionInv ==
  /\ seen \in CandidateSets
  /\ \A s \in seen : s.receipts \subseteq 1..Cardinality(seen)
  /\ merged = MergeCandidates[seen]

(* A session starts without candidates.                                    *)
LEMMA SessionInvInit == RuleInit => SessionInv
<1> SUFFICES ASSUME RuleInit PROVE SessionInv
  OBVIOUS
<1>1. {} \in CandidateSets /\ Pairs({}) = {}
  BY FS_EmptySet DEF CandidateSets, Pairs
<1>2. MergeCandidates[{}] = {}
  BY <1>1, MergeCandidatesDef
<1> QED BY <1>1, <1>2 DEF RuleInit, SessionInv

(* Only Raise touches the candidates: one more, merged as it comes.        *)
LEMMA SessionInvStep == SessionInv /\ [CandidateNext \/ MediaNext]_ruleVars => SessionInv'
<1> SUFFICES ASSUME SessionInv, [CandidateNext \/ MediaNext]_ruleVars PROVE SessionInv'
  OBVIOUS
<1>1. ASSUME NEW round \in RuleRounds, NEW from \in 0..MaxTime, NEW to \in 0..MaxTime,
             Raise(round, from, to)
      PROVE  SessionInv'
  <2> DEFINE n == Cardinality(seen)
             c == Candidate(round, from, to, n + 1)
  <2>1. IsFiniteSet(seen) /\ n \in Nat
    BY FS_CardinalityType DEF SessionInv, CandidateSets
  <2>2. c \in Candidates /\ c.receipts = {n + 1}
    BY <2>1, HighlightAssumption DEF Candidate, Candidates
  <2>3. \A s \in seen : s.receipts \cap c.receipts = {}
    BY <2>1, <2>2 DEF SessionInv
  <2>4. c \notin seen
    BY <2>2, <2>3
  <2>5. seen' = seen \cup {c} /\ merged' = MergeCandidates[merged \cup {c}]
    BY <1>1 DEF Raise
  <2>6. seen' \in CandidateSets /\ merged' = MergeCandidates[seen']
    BY <2>2, <2>3, <2>5, MergedAsTheyCome DEF SessionInv
  <2>7. Cardinality(seen') = n + 1
    BY <2>1, <2>4, <2>5, FS_AddElement
  <2>8. \A s \in seen' : s.receipts \subseteq 1..Cardinality(seen')
    <3>1. 1..n \subseteq 1..(n + 1) /\ n + 1 \in 1..(n + 1)
      BY <2>1
    <3> QED BY <2>2, <2>5, <2>7, <3>1 DEF SessionInv
  <2> QED BY <2>6, <2>8 DEF SessionInv
<1>2. ASSUME UNCHANGED <<seen, merged>> PROVE SessionInv'
  BY <1>2 DEF SessionInv
<1>3. CASE CandidateNext
  BY <1>1, <1>3 DEF CandidateNext
<1>4. CASE MediaNext
  BY <1>2, <1>4 DEF MediaNext, Pass, Keep, Confirm
<1>5. CASE UNCHANGED ruleVars
  BY <1>2, <1>5 DEF ruleVars
<1> QED BY <1>3, <1>4, <1>5

(* Merging does not depend on the order of arrival nor on the pair that is *)
(* taken first, and merging again after each arrival gives what merging    *)
(* them all at the end gives (merge_candidates).                           *)
THEOREM MergeConfluence == RuleSpec => []MergeIsConfluent
<1>1. SessionInv => MergeIsConfluent
  BY MergingIsConfluent DEF SessionInv, MergeIsConfluent
<1> QED BY <1>1, SessionInvInit, SessionInvStep, PTL DEF RuleSpec

-----------------------------------------------------------------------------
(***************************************************************************)
(* HighlightRules: retention                                               *)
(***************************************************************************)

(* The bytes of media are a sum.                                           *)
LEMMA BytesIsSum ==
  ASSUME NEW M, IsFiniteSet(M), \A m \in M : m.bytes \in Nat
  PROVE  \E f : IsSum(f, [m \in M |-> m.bytes], M) /\ Bytes(M) = f[M]
<1> DEFINE D == SUBSET M
           pick(s) == CHOOSE x \in s : TRUE
           size == [s \in D |-> Cardinality(s)]
           below == [s \in D |-> IF s = {} THEN {} ELSE {s \ {pick(s)}}]
           h == [s \in D |-> [f \in [below[s] -> Nat] |->
                   IF s = {} THEN 0 ELSE pick(s).bytes + f[s \ {pick(s)}]]]
           iter == CHOOSE f : f = [s \in D |-> IF s = {} THEN 0
                                                ELSE pick(s).bytes + f[s \ {pick(s)}]]
<1>0. \A s \in D : s # {} => pick(s) \in s
  OBVIOUS
<1>1. Bytes(M) = iter[M]
  BY DEF Bytes, MapThenSumSet, MapThenFoldSet
<1> HIDE DEF pick
<1>2. Founded(D, Nat, size, below, h)
  <2>1. size \in [D -> Nat]
    BY SubsetSizes
  <2>2. \A s \in D : \A t \in below[s] : t \in D /\ size[t] < size[s]
    BY <1>0, SubsetSizes
  <2>3. ASSUME NEW s \in D PROVE h[s] \in [[below[s] -> Nat] -> Nat]
    <3>1. ASSUME NEW f \in [below[s] -> Nat], s # {}
          PROVE  pick(s).bytes + f[s \ {pick(s)}] \in Nat
      <4>1. pick(s).bytes \in Nat
        BY <1>0, <3>1
      <4>2. f[s \ {pick(s)}] \in Nat
        BY <3>1
      <4> QED BY <4>1, <4>2
    <3> QED BY <3>1
  <2> HIDE DEF size, below, h, D
  <2> QED BY <2>1, <2>2, <2>3 DEF Founded
<1>3. PICK g : Solves(g, D, Nat, below, h)
  <2> HIDE DEF size, below, h, D
  <2> QED BY <1>2, Recursion
<1>4. ASSUME NEW s \in D
      PROVE  g[s] = IF s = {} THEN 0 ELSE pick(s).bytes + g[s \ {pick(s)}]
  <2>1. [t \in below[s] |-> g[t]] \in [below[s] -> Nat]
    <3>1. \A t \in below[s] : t \in D
      BY <1>0
    <3> QED BY <1>3, <3>1 DEF Solves
  <2>2. g[s] = h[s][[t \in below[s] |-> g[t]]]
    BY <1>3 DEF Solves
  <2> QED BY <2>1, <2>2
<1>5. g \in [D -> Nat]
  BY <1>3 DEF Solves
<1>6. g = [s \in D |-> IF s = {} THEN 0 ELSE pick(s).bytes + g[s \ {pick(s)}]]
  BY <1>4, <1>5
<1>7. iter = [s \in D |-> IF s = {} THEN 0 ELSE pick(s).bytes + iter[s \ {pick(s)}]]
  <2> HIDE DEF D
  <2> QED BY <1>6
<1> HIDE DEF iter
<1>8. iter \in [D -> Nat]
  <2> DEFINE P == {s \in D : iter[s] \in Nat}
  <2>1. ASSUME NEW s \in D, \A t \in D : size[t] < size[s] => t \in P PROVE s \in P
    <3>1. CASE s = {}
      BY <1>7, <3>1
    <3>2. CASE s # {}
      <4>1. s \ {pick(s)} \in D /\ size[s \ {pick(s)}] < size[s]
        BY <1>0, <3>2, SubsetSizes
      <4>2. iter[s \ {pick(s)}] \in Nat
        BY <2>1, <4>1
      <4>3. pick(s).bytes \in Nat
        BY <1>0, <3>2
      <4>4. iter[s] = pick(s).bytes + iter[s \ {pick(s)}]
        BY <1>7, <3>2
      <4> QED BY <4>2, <4>3, <4>4
    <3> QED BY <3>1, <3>2
  <2>2. size \in [D -> Nat]
    BY SubsetSizes
  <2> HIDE DEF P, size, D
  <2>3. D \subseteq P
    BY <2>1, <2>2, SizeInduction
  <2> QED BY <1>7, <2>3 DEF P
<1>9. IsSum(iter, [m \in M |-> m.bytes], M)
  <2>1. iter[{}] = 0
    BY <1>7
  <2>2. ASSUME NEW s \in D, s # {}
        PROVE  \E x \in s : iter[s] = [m \in M |-> m.bytes][x] + iter[s \ {x}]
    <3>1. pick(s) \in s /\ pick(s) \in M
      BY <1>0, <2>2
    <3>2. iter[s] = pick(s).bytes + iter[s \ {pick(s)}]
      BY <1>7, <2>2
    <3> QED BY <3>1, <3>2
  <2> QED BY <1>8, <2>1, <2>2 DEF IsSum
<1> QED BY <1>1, <1>9

(* Each item adds its bytes.                                               *)
LEMMA BytesAdd ==
  ASSUME NEW M, IsFiniteSet(M), \A m \in M : m.bytes \in Nat, NEW x \in M
  PROVE  /\ Bytes(M) \in Nat /\ Bytes(M \ {x}) \in Nat
         /\ Bytes(M) = x.bytes + Bytes(M \ {x})
<1> DEFINE w == [m \in M |-> m.bytes]
           N == M \ {x}
           v == [m \in N |-> m.bytes]
<1>1. IsFiniteSet(N) /\ N \in SUBSET M
  BY FS_Subset
<1>2. PICK f : IsSum(f, w, M) /\ Bytes(M) = f[M]
  BY BytesIsSum
<1>3. PICK g : IsSum(g, v, N) /\ Bytes(N) = g[N]
  BY <1>1, BytesIsSum
<1>4. w \in [M -> Nat] /\ v \in [N -> Nat] /\ \A y \in N : v[y] = w[y]
  OBVIOUS
<1>5. w[x] = x.bytes
  OBVIOUS
<1> HIDE DEF w, v, N
<1>6. g[N] = f[N]
  <2>1. IsFiniteSet(M) /\ N \in SUBSET M /\ w \in [M -> Nat] /\ v \in [N -> Nat]
        /\ IsSum(f, w, M) /\ IsSum(g, v, N) /\ (\A y \in N : v[y] = w[y])
    BY <1>1, <1>2, <1>3, <1>4
  <2>2. \A s \in SUBSET N : g[s] = f[s]
    BY ONLY <2>1, SumsAgree
  <2> QED BY <2>2
<1>7. f[M] = w[x] + f[M \ {x}]
  BY <1>2, <1>4, SumTakesAny
<1>8. f[M] \in Nat /\ f[N] \in Nat
  BY <1>1, <1>2 DEF IsSum
<1> QED BY <1>2, <1>3, <1>5, <1>6, <1>7, <1>8 DEF N

(* Bytes are never negative.                                               *)
LEMMA BytesNat ==
  ASSUME NEW M, IsFiniteSet(M), \A m \in M : m.bytes \in Nat
  PROVE  Bytes(M) \in Nat
<1>1. PICK f : IsSum(f, [m \in M |-> m.bytes], M) /\ Bytes(M) = f[M]
  BY BytesIsSum
<1> QED BY <1>1 DEF IsSum

(* More media, more bytes.                                                 *)
LEMMA BytesMonotone ==
  ASSUME NEW M, IsFiniteSet(M), \A m \in M : m.bytes \in Nat, NEW N \in SUBSET M
  PROVE  Bytes(N) <= Bytes(M)
<1> DEFINE D == SUBSET M
           size == [s \in D |-> Cardinality(s)]
           P == {s \in D : \A t \in SUBSET s : Bytes(t) <= Bytes(s)}
<1>1. size \in [D -> Nat]
  BY SubsetSizes
<1>0. \A s \in D : IsFiniteSet(s)
  BY FS_Subset
<1>2. ASSUME NEW s \in D PROVE Bytes(s) \in Nat
  BY <1>0, BytesNat
<1>3. ASSUME NEW s \in D, \A t \in D : size[t] < size[s] => t \in P
      PROVE  s \in P
  <2> SUFFICES ASSUME NEW t \in SUBSET s PROVE Bytes(t) <= Bytes(s)
    OBVIOUS
  <2>1. CASE t = s
    BY <1>2, <2>1
  <2>2. CASE t # s
    <3>1. PICK x \in s : x \notin t
      BY <2>2
    <3>2. s \ {x} \in D /\ size[s \ {x}] < size[s] /\ t \in SUBSET (s \ {x})
      BY <3>1, SubsetSizes
    <3>3. Bytes(t) <= Bytes(s \ {x})
      BY <1>3, <3>2
    <3>4. /\ Bytes(s) = x.bytes + Bytes(s \ {x}) /\ x.bytes \in Nat
          /\ Bytes(s) \in Nat /\ Bytes(s \ {x}) \in Nat
      BY <1>0, BytesAdd
    <3>5. Bytes(t) \in Nat
      BY <1>2
    <3> QED BY <3>3, <3>4, <3>5
  <2> QED BY <2>1, <2>2
<1> HIDE DEF P, size, D
<1>4. D \subseteq P
  BY <1>1, <1>3, SizeInduction
<1> QED BY <1>4 DEF P, D

(* Provisional media were created in the past, each with an id of its own. *)
MediaInv ==
  /\ clock \in Nat /\ IsFiniteSet(media)
  /\ media \subseteq [id : Nat, created : Nat, bytes : Nat, confirmed : BOOLEAN]
  /\ \A m \in media : m.created <= clock /\ m.id <= Cardinality(media)
  /\ \A m, n \in media : m # n => m.id # n.id

(* A session starts without media.                                         *)
LEMMA MediaInvInit == RuleInit => MediaInv
<1> SUFFICES ASSUME RuleInit PROVE MediaInv
  OBVIOUS
<1> QED BY FS_EmptySet DEF RuleInit, MediaInv

(* Keep takes the next free id, and time only moves forward.               *)
LEMMA MediaInvStep == MediaInv /\ [CandidateNext \/ MediaNext]_ruleVars => MediaInv'
<1> SUFFICES ASSUME MediaInv, [CandidateNext \/ MediaNext]_ruleVars PROVE MediaInv'
  OBVIOUS
<1> DEFINE Item == [id : Nat, created : Nat, bytes : Nat, confirmed : BOOLEAN]
           k == Cardinality(media)
<1>0. /\ clock \in Nat /\ IsFiniteSet(media) /\ k \in Nat /\ media \subseteq Item
      /\ \A m \in media : m.created <= clock /\ m.id <= k
      /\ \A m, n \in media : m # n => m.id # n.id
  BY FS_CardinalityType DEF MediaInv
<1>1. ASSUME UNCHANGED <<media, clock>> PROVE MediaInv'
  BY <1>1 DEF MediaInv
<1>2. CASE CandidateNext
  BY <1>1, <1>2 DEF CandidateNext, Raise
<1>3. CASE Pass
  <2>1. clock' = clock + 1 /\ media' = media
    BY <1>3 DEF Pass
  <2>2. \A m \in media : m.created <= clock + 1
    BY <1>0
  <2> QED BY <1>0, <2>1, <2>2 DEF MediaInv
<1>4. ASSUME NEW bytes \in Sizes, Keep(bytes) PROVE MediaInv'
  <2> DEFINE new == [id |-> k + 1, created |-> clock, bytes |-> bytes, confirmed |-> FALSE]
  <2>1. media' = media \cup {new} /\ clock' = clock
    BY <1>4 DEF Keep
  <2>2. new \in Item
    BY <1>0, HighlightAssumption
  <2>3. \A m \in media : m.id \in Nat /\ m.id # new.id
    BY <1>0
  <2>4. new \notin media
    BY <2>3
  <2>5. IsFiniteSet(media') /\ Cardinality(media') = k + 1
    BY <1>0, <2>1, <2>4, FS_AddElement
  <2>6. \A m \in media' : m.created <= clock /\ m.id <= k + 1
    BY <1>0, <2>1, <2>3
  <2>7. \A m, n \in media' : m # n => m.id # n.id
    BY <1>0, <2>1, <2>3
  <2>8. media' \subseteq Item
    BY <1>0, <2>1, <2>2
  <2> HIDE DEF k, new
  <2> QED BY <1>0, <2>1, <2>5, <2>6, <2>7, <2>8 DEF MediaInv
<1>5. ASSUME NEW m \in media, Confirm(m) PROVE MediaInv'
  <2> DEFINE c == [m EXCEPT !.confirmed = TRUE]
             R == media \ {m}
  <2>0. media' = R \cup {c} /\ clock' = clock
    BY <1>5 DEF Confirm
  <2>1. m \in Item
    BY <1>0
  <2>2. c \in Item /\ c.id = m.id /\ c.created = m.created
    BY <2>1
  <2>3. \A n \in R : n.id # c.id
    BY <1>0, <2>2
  <2>4. c \notin R
    BY <2>3
  <2>5. IsFiniteSet(R) /\ Cardinality(R) = k - 1
    BY <1>0, FS_RemoveElement
  <2>6. IsFiniteSet(media') /\ Cardinality(media') = k
    <3>1. IsFiniteSet(R \cup {c}) /\ Cardinality(R \cup {c}) = Cardinality(R) + 1
      BY <2>4, <2>5, FS_AddElement
    <3> HIDE DEF R, c
    <3> QED BY <1>0, <2>0, <2>5, <3>1
  <2>7. \A n \in media' : n.created <= clock /\ n.id <= k
    BY <1>0, <2>0, <2>2
  <2>8. \A n, o \in media' : n # o => n.id # o.id
    BY <1>0, <2>0, <2>3
  <2>9. media' \subseteq Item
    BY <1>0, <2>0, <2>2
  <2> HIDE DEF k, c, R
  <2> QED BY <1>0, <2>0, <2>6, <2>7, <2>8, <2>9 DEF MediaInv
<1>6. CASE UNCHANGED ruleVars
  BY <1>1, <1>6 DEF ruleVars
<1> QED BY <1>2, <1>3, <1>4, <1>5, <1>6 DEF MediaNext

(* What was evicted is evicted from any media that hold more.              *)
LEMMA EvictedMonotone ==
  ASSUME NEW M, IsFiniteSet(M), \A x \in M : x.bytes \in Nat,
         NEW N, IsFiniteSet(N), \A x \in N : x.bytes \in Nat,
         NEW now \in Nat, NEW later \in Nat,
         NEW m \in Evicted(M, now), m \in Unexpired(N, later),
         {n \in Unexpired(M, now) : ~Older(n, m)} \subseteq {n \in Unexpired(N, later) : ~Older(n, m)}
  PROVE  m \in Evicted(N, later)
<1> DEFINE A == {n \in Unexpired(M, now) : ~Older(n, m)}
           B == {n \in Unexpired(N, later) : ~Older(n, m)}
<1>1. Bytes(A) > Budget
  BY DEF Evicted
<1>2. /\ B \in SUBSET N /\ A \in SUBSET B
  BY DEF Unexpired
<1>3. IsFiniteSet(B) /\ IsFiniteSet(A)
  <2> HIDE DEF A, B
  <2>1. IsFiniteSet(B)
    BY <1>2, FS_Subset
  <2> QED BY <1>2, <2>1, FS_Subset
<1>4. (\A x \in B : x.bytes \in Nat) /\ (\A x \in A : x.bytes \in Nat)
  BY <1>2
<1> HIDE DEF A, B
<1>5. Bytes(A) <= Bytes(B)
  BY <1>2, <1>3, <1>4, BytesMonotone
<1>6. Bytes(A) \in Nat /\ Bytes(B) \in Nat
  BY <1>3, <1>4, BytesNat
<1>7. Bytes(B) > Budget
  BY <1>1, <1>5, <1>6, HighlightAssumption
<1> QED BY <1>7 DEF Evicted, B

(* What has expired or was evicted is not taken back as time passes and    *)
(* more is recorded: only a confirmation makes room (retention_decisions). *)
THEOREM DroppedMediaStayDropped == RuleSpec => DroppedStaysDropped
<1> DEFINE Kept ==
             \A m \in media :
               /\ m \in media'
               /\ Decision(m, media, clock) # "retain"
               /\ \A n \in media' : n.confirmed => n \in media
               => Decision(m, media', clock') # "retain"
<1>1. MediaInv /\ MediaInv' /\ [CandidateNext \/ MediaNext]_ruleVars => [Kept]_ruleVars
  <2> SUFFICES ASSUME MediaInv, MediaInv', [CandidateNext \/ MediaNext]_ruleVars
               PROVE  Kept \/ UNCHANGED ruleVars
    OBVIOUS
  <2>0. /\ IsFiniteSet(media) /\ IsFiniteSet(media') /\ clock \in Nat /\ clock' \in Nat
        /\ \A x \in media : /\ x.bytes \in Nat /\ x.created \in Nat /\ x.id \in Nat
                            /\ x.confirmed \in BOOLEAN
        /\ \A x \in media' : x.bytes \in Nat /\ x.created \in Nat
        /\ \A m, n \in media : m # n => m.id # n.id
        /\ Retention \in Nat
    BY HighlightAssumption DEF MediaInv
  <2>1. ASSUME media' = media, clock' = clock PROVE Kept
    BY <2>1
  <2>2. ASSUME NEW m \in media, m \in media', Decision(m, media, clock) # "retain",
               clock <= clock', media \subseteq media',
               \A n \in media : ~Expired(m, clock') /\ ~Older(n, m) /\ ~Expired(n, clock)
                                  /\ ~n.confirmed => ~Expired(n, clock')
        PROVE  Decision(m, media', clock') # "retain"
    <3>1. CASE Expired(m, clock')
      BY <3>1 DEF Decision
    <3>2. CASE ~Expired(m, clock')
      <4>1. ~Expired(m, clock)
        BY <2>0, <2>2, <3>2 DEF Expired, Floor
      <4>2. m \in Evicted(media, clock)
        BY <2>2, <4>1 DEF Decision
      <4>3. m \in Unexpired(media', clock')
        BY <2>2, <3>2, <4>2 DEF Evicted, Unexpired
      <4>4. {n \in Unexpired(media, clock) : ~Older(n, m)}
              \subseteq {n \in Unexpired(media', clock') : ~Older(n, m)}
        BY <2>2, <3>2 DEF Unexpired
      <4>5. m \in Evicted(media', clock')
        BY <2>0, <4>2, <4>3, <4>4, EvictedMonotone
      <4> QED BY <3>2, <4>5 DEF Decision
    <3> QED BY <3>1, <3>2
  <2>3. CASE CandidateNext
    BY <2>1, <2>3 DEF CandidateNext, Raise
  <2>4. CASE Pass
    <3> SUFFICES ASSUME NEW m \in media, m \in media', Decision(m, media, clock) # "retain"
                 PROVE  Decision(m, media', clock') # "retain"
      OBVIOUS
    <3>1. clock' = clock + 1 /\ media' = media
      BY <2>4 DEF Pass
    <3>2. clock <= clock' /\ media \subseteq media'
      BY <2>0, <3>1
    <3>3. ASSUME NEW n \in media, ~Expired(m, clock'), ~Older(n, m), ~n.confirmed,
                 ~m.confirmed
          PROVE  ~Expired(n, clock')
      <4>1. n.created >= m.created
        BY <2>0, <3>3 DEF Older
      <4> QED BY <2>0, <3>3, <4>1 DEF Expired, Floor
    <3>4. CASE m.confirmed
      <4>1. ~Expired(m, clock) /\ m \notin Evicted(media, clock)
        BY <3>4 DEF Expired, Evicted, Unexpired
      <4> QED BY <4>1 DEF Decision
    <3>5. CASE ~m.confirmed
      BY <2>2, <3>2, <3>3, <3>5
    <3> QED BY <3>4, <3>5
  <2>5. ASSUME NEW bytes \in Sizes, Keep(bytes) PROVE Kept
    <3>1. clock' = clock /\ media \subseteq media'
      BY <2>5 DEF Keep
    <3> QED BY <2>0, <2>2, <3>1
  <2>6. ASSUME NEW x \in media, Confirm(x) PROVE Kept
    <3> DEFINE c == [x EXCEPT !.confirmed = TRUE]
    <3>1. c \in media' /\ ~x.confirmed
      BY <2>6 DEF Confirm
    <3>2. c.confirmed /\ c.id = x.id
      BY DEF MediaInv
    <3>3. c \notin media
      BY <2>0, <3>1, <3>2
    <3> QED BY <3>1, <3>2, <3>3
  <2> QED BY <2>3, <2>4, <2>5, <2>6 DEF MediaNext
<1> QED BY <1>1, MediaInvInit, MediaInvStep, PTL DEF RuleSpec, DroppedStaysDropped

-----------------------------------------------------------------------------
(***************************************************************************)
(* Baselines: ranks and medians                                            *)
(***************************************************************************)

(* How many values are at most v, or below it, is a number that grows with *)
(* v.                                                                      *)
LEMMA Ranks ==
  ASSUME NEW S, IsFiniteSet(S), NEW f \in [S -> Nat], NEW P \in SUBSET S, NEW Q \in SUBSET S,
         P \subseteq Q
  PROVE  /\ Cardinality(P) \in Nat /\ Cardinality(Q) \in Nat
         /\ Cardinality(P) <= Cardinality(Q)
         /\ Cardinality(Q) <= Cardinality(S) /\ Cardinality(S) \in Nat
<1>1. IsFiniteSet(Q) /\ IsFiniteSet(P) /\ Cardinality(Q) <= Cardinality(S)
  BY FS_Subset
<1>2. Cardinality(P) <= Cardinality(Q)
  BY <1>1, FS_Subset
<1> QED BY <1>1, <1>2, FS_CardinalityType

(* The positions with values up to v, and with lower ones.                 *)
UpTo(f, v) == {i \in DOMAIN f : f[i] <= v}
Lower(f, v) == {i \in DOMAIN f : f[i] < v}

(* The k-th smallest value exists: fewer than k values are below it and at *)
(* least k are not above it.                                               *)
LEMMA KthExists ==
  ASSUME NEW S, IsFiniteSet(S), NEW B \in Nat, NEW f \in [S -> 0..B],
         NEW k \in Nat, 1 <= k, k <= Cardinality(S)
  PROVE  /\ Kth(k, f) \in 0..B
         /\ Cardinality(Lower(f, Kth(k, f))) < k
         /\ k <= Cardinality(UpTo(f, Kth(k, f)))
<1> DEFINE Upto(v) == {i \in S : f[i] <= v}
           Below(v) == {i \in S : f[i] < v}
           W == {v \in Nat : Cardinality(Upto(v)) >= k}
<1>0. f \in [S -> Nat] /\ DOMAIN f = S
  OBVIOUS
<1>1. ASSUME NEW v \in Nat
      PROVE  Cardinality(Upto(v)) \in Nat /\ Cardinality(Below(v)) \in Nat
  <2>1. Upto(v) \in SUBSET S /\ Below(v) \in SUBSET S
    OBVIOUS
  <2> HIDE DEF Upto, Below
  <2> QED BY <1>0, <2>1, Ranks
<1>2. B \in W
  <2>1. Upto(B) = S
    OBVIOUS
  <2> QED BY <2>1
<1>3. PICK v \in W : \A y \in W : v <= y
  <2>1. W \subseteq Nat
    OBVIOUS
  <2> HIDE DEF W
  <2> QED BY <1>2, <2>1, LeastNat
<1>4. v \in Nat /\ Cardinality(Upto(v)) >= k
  BY <1>3
<1>5. Cardinality(Below(v)) < k
  <2>1. CASE v = 0
    <3>1. Below(v) = {}
      BY <2>1
    <3> HIDE DEF Below
    <3> QED BY <3>1, FS_EmptySet
  <2>2. CASE v # 0
    <3>1. v - 1 \in Nat /\ ~(v <= v - 1)
      BY <1>4, <2>2
    <3>2. Below(v) = Upto(v - 1)
      BY <1>0, <1>4
    <3>3. v - 1 \notin W
      BY <1>3, <3>1
    <3>4. ~(Cardinality(Upto(v - 1)) >= k)
      BY <3>1, <3>3
    <3>5. Cardinality(Upto(v - 1)) \in Nat
      BY <1>1, <3>1
    <3> QED BY <3>2, <3>4, <3>5
  <2> QED BY <2>1, <2>2
<1>6. v \in {f[i] : i \in DOMAIN f}
  <2> SUFFICES ASSUME \A i \in S : f[i] # v PROVE FALSE
    BY <1>0
  <2>1. Upto(v) = Below(v)
    BY <1>0, <1>4
  <2> HIDE DEF Upto, Below
  <2> QED BY <1>1, <1>4, <1>5, <2>1
<1>7. Cardinality(Below(v)) < k /\ Cardinality(Upto(v)) >= k
  BY <1>4, <1>5
<1>8. /\ Kth(k, f) \in {f[i] : i \in DOMAIN f}
      /\ Cardinality({i \in DOMAIN f : f[i] < Kth(k, f)}) < k
      /\ Cardinality({i \in DOMAIN f : f[i] <= Kth(k, f)}) >= k
  BY <1>0, <1>6, <1>7 DEF Kth
<1> QED BY <1>0, <1>8 DEF Lower, UpTo

(* The next smallest value is no smaller.                                  *)
LEMMA KthMonotone ==
  ASSUME NEW S, IsFiniteSet(S), NEW B \in Nat, NEW f \in [S -> 0..B],
         NEW k \in Nat, 1 <= k, k + 1 <= Cardinality(S)
  PROVE  Kth(k, f) <= Kth(k + 1, f)
<1> DEFINE u == Kth(k, f)
           v == Kth(k + 1, f)
           P == UpTo(f, v)
           Q == Lower(f, u)
<1>0. k + 1 \in Nat /\ 1 <= k + 1 /\ k <= Cardinality(S)
  BY FS_CardinalityType
<1>1. u \in 0..B /\ Cardinality(Q) < k
  BY <1>0, KthExists
<1>2. v \in 0..B /\ k + 1 <= Cardinality(P)
  BY <1>0, KthExists
<1> HIDE DEF u, v
<1>3. ASSUME v < u PROVE FALSE
  <2>1. P \subseteq Q /\ P \in SUBSET S /\ Q \in SUBSET S
    BY <1>1, <1>2, <1>3 DEF UpTo, Lower
  <2>2. f \in [S -> Nat]
    OBVIOUS
  <2> HIDE DEF P, Q
  <2>3. Cardinality(P) \in Nat /\ Cardinality(Q) \in Nat /\ Cardinality(P) <= Cardinality(Q)
    BY <2>1, <2>2, Ranks
  <2> QED BY <1>1, <1>2, <2>3
<1> QED BY <1>1, <1>2, <1>3 DEF u, v

(* A median is on the scale of the values, and at least half of them are   *)
(* not above it.                                                           *)
LEMMA MedianSplits ==
  ASSUME NEW S, IsFiniteSet(S), S # {}, NEW B \in Nat, NEW f \in [S -> 0..B]
  PROVE  /\ Median(f) \in 0..B
         /\ 2 * Cardinality(UpTo(f, Median(f))) >= Cardinality(S)
<1> DEFINE n == Cardinality(S)
<1>0. n \in Nat /\ n # 0 /\ DOMAIN f = S
  BY FS_CardinalityType, FS_EmptySet
<1>1. ASSUME NEW u \in 0..B, NEW v \in 0..B, u <= v
      PROVE  /\ Cardinality(UpTo(f, u)) \in Nat /\ Cardinality(UpTo(f, v)) \in Nat
             /\ Cardinality(UpTo(f, u)) <= Cardinality(UpTo(f, v))
  <2>1. UpTo(f, u) \in SUBSET S /\ UpTo(f, v) \in SUBSET S /\ UpTo(f, u) \subseteq UpTo(f, v)
    BY <1>1 DEF UpTo
  <2>2. f \in [S -> Nat]
    OBVIOUS
  <2> QED BY <2>1, <2>2, Ranks
<1>4. ASSUME NEW k \in Nat, 1 <= k, k <= n
      PROVE  Kth(k, f) \in 0..B /\ k <= Cardinality(UpTo(f, Kth(k, f)))
  BY <1>4, KthExists
<1> HIDE DEF n
<1>2. CASE n % 2 = 1
  <2> DEFINE k == (n + 1) \div 2
  <2>1. k \in Nat /\ 1 <= k /\ k <= n /\ 2 * k >= n
    BY <1>0, <1>2
  <2>2. Median(f) = Kth(k, f)
    BY <1>0, <1>2 DEF Median, n
  <2> HIDE DEF k
  <2>3. Kth(k, f) \in 0..B /\ k <= Cardinality(UpTo(f, Kth(k, f)))
    BY <1>4, <2>1
  <2> DEFINE c == Cardinality(UpTo(f, Kth(k, f)))
  <2>4. c \in Nat
    BY <1>1, <2>3
  <2>5. 2 * c >= n
    <3> HIDE DEF c
    <3>1. c >= k
      BY <2>3 DEF c
    <3> QED BY <1>0, <2>1, <2>4, <3>1
  <2> QED BY <2>2, <2>3, <2>5 DEF n
<1>3. CASE n % 2 # 1
  <2> DEFINE k == n \div 2
  <2>1. k \in Nat /\ k + 1 \in Nat /\ 1 <= k /\ 1 <= k + 1 /\ k <= n /\ k + 1 <= n /\ 2 * k = n
    BY <1>0, <1>3
  <2>2. Median(f) = (Kth(k, f) + Kth(k + 1, f)) \div 2
    BY <1>0, <1>3 DEF Median, n
  <2> HIDE DEF k
  <2> DEFINE u == Kth(k, f)
             w == Kth(k + 1, f)
             v == (u + w) \div 2
  <2>3. u \in 0..B /\ k <= Cardinality(UpTo(f, u))
    BY <1>4, <2>1
  <2>4. w \in 0..B
    BY <2>1, KthExists DEF n
  <2>5. u <= w
    BY <2>1, KthMonotone DEF n
  <2>6. v \in 0..B /\ u <= v
    <3> HIDE DEF u, w
    <3> QED BY <2>3, <2>4, <2>5
  <2>7. Median(f) = v
    BY <2>2
  <2> HIDE DEF u, w, v
  <2> DEFINE c == Cardinality(UpTo(f, v))
             d == Cardinality(UpTo(f, u))
  <2>8. c \in Nat /\ d \in Nat /\ d <= c
    BY <1>1, <2>3, <2>6
  <2>9. d >= k
    BY <2>3
  <2>10. 2 * c >= n
    <3> HIDE DEF c, d
    <3> QED BY <1>0, <2>1, <2>8, <2>9
  <2> QED BY <2>6, <2>7, <2>10 DEF n
<1> QED BY <1>2, <1>3

-----------------------------------------------------------------------------
(***************************************************************************)
(* Baselines: the cohort                                                   *)
(***************************************************************************)

(* The history is made of matches, no two canonical ones of the same demo. *)
BaselineInv ==
  /\ history \in Seq(Matches)
  /\ \A i, j \in DOMAIN history :
        i # j /\ history[i].kind = "trend" /\ history[j].kind = "trend"
          => history[i].demo # history[j].demo

(* Nothing is imported yet.                                                *)
LEMMA BaselineInvInit == BaselineInit => BaselineInv
BY DEF BaselineInit, BaselineInv

(* A demo is imported as canonical only once.                              *)
LEMMA BaselineInvStep == BaselineInv /\ [BaselineNext]_baselineVars => BaselineInv'
<1> SUFFICES ASSUME BaselineInv, [BaselineNext]_baselineVars PROVE BaselineInv'
  OBVIOUS
<1>1. ASSUME NEW m \in Matches, Import(m) PROVE BaselineInv'
  <2> DEFINE n == Len(history) + 1
  <2>1. history \in Seq(Matches) /\ history' = Append(history, m)
    BY <1>1 DEF BaselineInv, Import
  <2>2. history' \in Seq(Matches)
    BY <2>1
  <2>3. /\ DOMAIN history' = DOMAIN history \cup {n} /\ history'[n] = m
        /\ \A i \in DOMAIN history : history'[i] = history[i]
    BY <2>1
  <2>4. m.kind = "trend" => \A i \in DOMAIN history :
           history[i].kind = "trend" => history[i].demo # m.demo
    BY <1>1 DEF Import
  <2> HIDE DEF n
  <2>5. \A i, j \in DOMAIN history' :
          i # j /\ history'[i].kind = "trend" /\ history'[j].kind = "trend"
            => history'[i].demo # history'[j].demo
    BY <2>3, <2>4 DEF BaselineInv
  <2> QED BY <2>2, <2>5 DEF BaselineInv
<1>2. CASE UNCHANGED baselineVars
  BY <1>2 DEF baselineVars, BaselineInv
<1> QED BY <1>1, <1>2 DEF BaselineNext

(* The matches of a history that nothing leaves out: dated, rated and each *)
(* of a demo of its own.                                                   *)
LEMMA ComparableMatches ==
  BaselineInv =>
    \A cutoff :
      /\ Comparable(cutoff) \in SUBSET (1..Len(history)) /\ IsFiniteSet(Comparable(cutoff))
      /\ \A i \in Comparable(cutoff) :
            /\ Span(history[i]) \in Int \X Int
            /\ Span(history[i])[1] \in Int /\ Span(history[i])[2] \in Int
            /\ Span(history[i])[1] <= Span(history[i])[2]
            /\ cutoff # Absent => ~(Span(history[i])[2] > cutoff)
            /\ history[i].value \in 0..MaxValue /\ history[i].demo \in Int
            /\ \A j \in Comparable(cutoff) \ {i} : history[i].demo # history[j].demo
<1> SUFFICES ASSUME BaselineInv, NEW cutoff
             PROVE
      /\ Comparable(cutoff) \in SUBSET (1..Len(history)) /\ IsFiniteSet(Comparable(cutoff))
      /\ \A i \in Comparable(cutoff) :
            /\ Span(history[i]) \in Int \X Int
            /\ Span(history[i])[1] \in Int /\ Span(history[i])[2] \in Int
            /\ Span(history[i])[1] <= Span(history[i])[2]
            /\ cutoff # Absent => ~(Span(history[i])[2] > cutoff)
            /\ history[i].value \in 0..MaxValue /\ history[i].demo \in Int
            /\ \A j \in Comparable(cutoff) \ {i} : history[i].demo # history[j].demo
  OBVIOUS
<1>1. history \in Seq(Matches) /\ DOMAIN history = 1..Len(history) /\ Len(history) \in Nat
  BY DEF BaselineInv
<1>2. Comparable(cutoff) \in SUBSET (1..Len(history))
  BY <1>1 DEF Comparable
<1>3. IsFiniteSet(Comparable(cutoff))
  <2>1. IsFiniteSet(1..Len(history))
    BY <1>1, FS_Interval
  <2> QED BY <1>2, <2>1, FS_Subset
<1>4. ASSUME NEW i \in Comparable(cutoff)
      PROVE  /\ history[i].kind = "trend"
             /\ Span(history[i]) \in Int \X Int
             /\ Span(history[i])[1] <= Span(history[i])[2]
             /\ cutoff # Absent => ~(Span(history[i])[2] > cutoff)
             /\ history[i].value \in 0..MaxValue /\ history[i].demo \in Int
  <2>1. history[i] \in Matches /\ Reason(history[i], cutoff) = Absent
    BY <1>1 DEF Comparable
  <2> DEFINE m == history[i]
  <2>2. /\ m.demo \in Demos /\ m.kind \in {"trend", "other_series", "non_canonical"}
        /\ m.kind = "trend" => m.value \in Values
    BY <2>1 DEF Matches
  <2> HIDE DEF m
  <2>3. m.kind = "trend"
    BY <2>1, <2>2, BaselineAssumption DEF Reason, m
  <2>4. Span(m) # Absent
    BY <2>1, <2>3, BaselineAssumption DEF Reason, m
  <2>5. ~(Span(m)[1] > Span(m)[2])
    BY <2>1, <2>3, <2>4, BaselineAssumption DEF Reason, m
  <2>6. cutoff # Absent => ~(Span(m)[2] > cutoff)
    BY <2>1, <2>3, <2>4, <2>5, BaselineAssumption DEF Reason, m
  <2>7. Span(m) \in Int \X Int
    BY <2>2, <2>4, BaselineAssumption DEF Span
  <2>8. Span(m)[1] <= Span(m)[2]
    BY <2>5, <2>7
  <2>9. m.value \in 0..MaxValue /\ m.demo \in Int
    BY <2>2, <2>3, BaselineAssumption
  <2> QED BY <2>3, <2>6, <2>7, <2>8, <2>9 DEF m
<1>5. ASSUME NEW i \in Comparable(cutoff), NEW j \in Comparable(cutoff) \ {i}
      PROVE  history[i].demo # history[j].demo
  BY <1>1, <1>2, <1>4 DEF BaselineInv
<1>6. \A i \in Comparable(cutoff) : Span(history[i])[1] \in Int /\ Span(history[i])[2] \in Int
  BY <1>4
<1> QED BY <1>2, <1>3, <1>4, <1>5, <1>6

(* So the latest matches are those with few later ones.                    *)
LEMMA CohortIsLatest ==
  BaselineInv =>
    /\ Distinct = Comparable(Cutoff)
    /\ Cohort = {i \in Comparable(Cutoff) :
                   Cardinality({j \in Comparable(Cutoff) : Later(j, i)}) < WindowMatches}
<1> SUFFICES ASSUME BaselineInv
             PROVE  /\ Distinct = Comparable(Cutoff)
                    /\ Cohort = {i \in Comparable(Cutoff) :
                         Cardinality({j \in Comparable(Cutoff) : Later(j, i)}) < WindowMatches}
  OBVIOUS
<1>1. \A i \in Comparable(Cutoff) :
         \A j \in Comparable(Cutoff) \ {i} : history[i].demo # history[j].demo
  BY ComparableMatches
<1>2. Distinct = Comparable(Cutoff)
  BY <1>1 DEF Distinct, FirstOfDemo
<1> QED BY <1>2 DEF Cohort, FirstN

(* The statistics of values on the scale.                                  *)
LEMMA StatsAreCentered ==
  ASSUME NEW S, IsFiniteSet(S), NEW f \in [S -> 0..MaxValue], Stats(f) # Absent
  PROVE  /\ Stats(f).lower <= Stats(f).median /\ Stats(f).median <= Stats(f).upper
         /\ 2 * Cardinality({i \in S : Distance(f[i], Stats(f).median) <= Stats(f).mad})
              >= Cardinality(S)
<1> DEFINE c == Median(f)
           d == [i \in DOMAIN f |-> Distance(f[i], c)]
           mad == Median(d)
<1>0. MaxValue \in Nat /\ DOMAIN f = S
  BY BaselineAssumption
<1>1. Cardinality(S) \in Nat /\ ~(Cardinality(S) < MinimumMatches)
  BY <1>0, FS_CardinalityType DEF Stats
<1>2. S # {}
  BY <1>1, FS_EmptySet, BaselineAssumption
<1>3. c \in 0..MaxValue
  BY <1>0, <1>2, MedianSplits
<1>4. Stats(f) = [median |-> c, mad |-> mad,
                  lower |-> InScale(c - 2 * mad), upper |-> InScale(c + 2 * mad)]
  BY <1>0, <1>1 DEF Stats
<1> HIDE DEF c
<1>5. d \in [S -> 0..MaxValue]
  BY <1>0, <1>3 DEF Distance
<1> HIDE DEF d
<1>6. mad \in 0..MaxValue /\ 2 * Cardinality(UpTo(d, mad)) >= Cardinality(S)
  BY <1>0, <1>2, <1>5, MedianSplits
<1>7. UpTo(d, mad) = {i \in S : Distance(f[i], c) <= mad}
  BY <1>0, <1>5 DEF UpTo, d
<1> HIDE DEF mad
<1>8. InScale(c - 2 * mad) <= c /\ c <= InScale(c + 2 * mad)
  BY <1>0, <1>3, <1>6 DEF InScale
<1> QED BY <1>4, <1>6, <1>7, <1>8

(* The cohort of any history is the one the property describes.            *)
LEMMA RecentBaseline == BaselineInv => BaselineIsRecent
<1> SUFFICES ASSUME BaselineInv PROVE BaselineIsRecent
  OBVIOUS
<1> DEFINE C == Comparable(Cutoff)
           K == Cohort
           Preds(i) == {j \in C : Later(j, i)}
           stats == Stats(ValuesOf(K))
           near == {i \in K : Distance(history[i].value, stats.median) <= stats.mad}
<1>0. /\ C \in SUBSET DOMAIN history /\ IsFiniteSet(C)
      /\ \A i \in C : /\ Span(history[i])[1] \in Int /\ Span(history[i])[2] \in Int
                      /\ history[i].value \in 0..MaxValue /\ history[i].demo \in Int
                      /\ ~(Span(history[i])[2] > Cutoff)
                      /\ \A j \in C \ {i} : history[i].demo # history[j].demo
  <2>1. Cutoff # Absent /\ DOMAIN history = 1..Len(history)
    BY BaselineAssumption DEF BaselineInv
  <2> QED BY <2>1, ComparableMatches
<1>1. Distinct = C /\ K = {i \in C : Cardinality(Preds(i)) < WindowMatches}
  BY CohortIsLatest
<1>2. K \subseteq C /\ IsFiniteSet(K)
  <2>1. K \subseteq C
    BY <1>1
  <2> HIDE DEF K, C
  <2> QED BY <1>0, <2>1, FS_Subset
<1>3. ASSUME NEW i \in DOMAIN history PROVE (i \in K) = (LeftOut(i, K) = Absent)
  <2> HIDE DEF K
  <2>1. CASE Reason(history[i], Cutoff) # Absent
    <3>1. i \notin C
      BY <2>1 DEF Comparable
    <3> QED BY <1>2, <2>1, <3>1 DEF LeftOut
  <2>2. CASE Reason(history[i], Cutoff) = Absent
    <3>1. i \in C
      BY <2>2 DEF Comparable
    <3>2. LeftOut(i, K) = IF i \notin K THEN "outside_recent_window" ELSE Absent
      BY <1>1, <2>2, <3>1 DEF LeftOut
    <3> QED BY <3>2, BaselineAssumption
  <2> QED BY <2>1, <2>2
<1>4. ASSUME NEW i \in K PROVE Span(history[i])[2] <= Cutoff
  <2>1. Span(history[i])[2] \in Int /\ ~(Span(history[i])[2] > Cutoff)
    BY <1>0, <1>2
  <2> QED BY <2>1, BaselineAssumption
<1>5. ASSUME NEW i \in K, NEW j \in DOMAIN history, LeftOut(j, K) = "outside_recent_window"
      PROVE  Span(history[i])[2] >= Span(history[j])[2]
  <2>1. j \in C /\ j \notin K
    <3>1. history[j] \in Matches
      BY DEF BaselineInv
    <3>2. Reason(history[j], Cutoff) # "outside_recent_window"
      BY <3>1, BaselineAssumption DEF Reason, Matches
    <3>3. Reason(history[j], Cutoff) = Absent
      BY <1>5, <3>2 DEF LeftOut
    <3>4. j \in C
      BY <3>3 DEF Comparable
    <3> HIDE DEF K
    <3> QED BY <1>3, <1>5, <3>4, BaselineAssumption
  <2>2. i \in C
    BY <1>2
  <2> SUFFICES ASSUME ~(Span(history[i])[2] >= Span(history[j])[2]) PROVE FALSE
    OBVIOUS
  <2>3. /\ Span(history[i])[2] \in Int /\ Span(history[j])[2] \in Int
        /\ Span(history[j])[2] > Span(history[i])[2]
    BY <1>0, <2>1, <2>2
  <2>4. ASSUME NEW x \in C, Later(x, j) PROVE Later(x, i)
    <3>1. Span(history[x])[2] \in Int /\ Span(history[x])[2] >= Span(history[j])[2]
      BY <1>0, <2>1, <2>4 DEF Later
    <3> QED BY <2>3, <3>1 DEF Later
  <2>5. Preds(j) \in SUBSET Preds(i) /\ Preds(i) \in SUBSET C
    BY <2>4
  <2>6. IsFiniteSet(Preds(i)) /\ Cardinality(Preds(i)) < WindowMatches
    <3>1. Cardinality(Preds(i)) < WindowMatches
      BY <1>1
    <3> HIDE DEF Preds, C, K
    <3> QED BY <1>0, <2>5, <3>1, FS_Subset
  <2>7. ~(Cardinality(Preds(j)) < WindowMatches)
    BY <1>1, <2>1
  <2> HIDE DEF Preds, K, C
  <2>8. Cardinality(Preds(j)) <= Cardinality(Preds(i)) /\ IsFiniteSet(Preds(j))
    BY <2>5, <2>6, FS_Subset
  <2>9. Cardinality(Preds(j)) \in Nat /\ Cardinality(Preds(i)) \in Nat /\ WindowMatches \in Nat
    BY <2>6, <2>8, FS_CardinalityType, BaselineAssumption
  <2> QED BY <2>6, <2>7, <2>8, <2>9
<1>6. ASSUME stats # Absent
      PROVE  /\ stats.lower <= stats.median /\ stats.median <= stats.upper
             /\ 2 * Cardinality(near) >= Cardinality(K)
  <2> DEFINE f == ValuesOf(K)
  <2>1. f \in [K -> 0..MaxValue] /\ \A i \in K : f[i] = history[i].value
    <3> HIDE DEF K
    <3> QED BY <1>0, <1>2 DEF ValuesOf
  <2>2. near = {i \in K : Distance(f[i], stats.median) <= stats.mad}
    BY <2>1
  <2> HIDE DEF f, near, K
  <2>3. Stats(f) # Absent /\ stats = Stats(f)
    BY <1>6 DEF f
  <2> HIDE DEF stats
  <2> QED BY <1>2, <2>1, <2>2, <2>3, StatsAreCentered
<1>7. Baseline = [cohort |-> K, stats |-> stats]
  BY DEF Baseline
<1> HIDE DEF K, stats
<1> QED BY <1>3, <1>4, <1>5, <1>6, <1>7 DEF BaselineIsRecent

(* A baseline is made of the latest matches that ended no later than the   *)
(* cutoff: every match of the history is in it or has one reason not to    *)
(* be, none that is left out for its age is later than one that counts,    *)
(* and half of them lie within the deviation of the median (build_lens,    *)
(* finalize_baseline).                                                     *)
THEOREM BaselinesAreRecent == BaselineSpec => []BaselineIsRecent
BY BaselineInvInit, BaselineInvStep, RecentBaseline, PTL DEF BaselineSpec

-----------------------------------------------------------------------------
(***************************************************************************)
(* Baselines: sessions                                                     *)
(***************************************************************************)

(* The operators of group_sessions, for any history H.                     *)
SpanIn(H, i) == Intervals[H[i].demo]
DatedIn(H) == {i \in DOMAIN H : SpanIn(H, i) # Absent /\ SpanIn(H, i)[1] <= SpanIn(H, i)[2]}
SoonerIn(H, i, j) ==
  \/ SpanIn(H, i)[1] < SpanIn(H, j)[1]
  \/ SpanIn(H, i)[1] = SpanIn(H, j)[1] /\ SpanIn(H, i)[2] < SpanIn(H, j)[2]
  \/ /\ SpanIn(H, i)[1] = SpanIn(H, j)[1] /\ SpanIn(H, i)[2] = SpanIn(H, j)[2]
     /\ H[i].demo < H[j].demo
EarlierIn(H, i, j) == SoonerIn(H, i, j) \/ (~SoonerIn(H, j, i) /\ i < j)
LastIn(H, C) == CHOOSE i \in C : \A j \in C \ {i} : EarlierIn(H, j, i)

SessionRecs == [demos : SUBSET Demos, from : Int, to : Int]
OpenedBy(s, m) == Append(s, [demos |-> {m.demo}, from |-> Intervals[m.demo][1],
                             to |-> Intervals[m.demo][2]])
JoinedBy(s, m) == [s EXCEPT ![Len(s)].demos = @ \cup {m.demo},
                            ![Len(s)].to = Intervals[m.demo][2]]
ExtendedBy(s, m) ==
  IF Len(s) = 0 THEN OpenedBy(s, m)
  ELSE IF Intervals[m.demo][1] <= s[Len(s)].to THEN s
  ELSE IF Intervals[m.demo][1] - s[Len(s)].to <= SessionGap THEN JoinedBy(s, m)
  ELSE OpenedBy(s, m)

GroupsOf(G, H) ==
  /\ G \in [SUBSET DatedIn(H) -> Seq(SessionRecs)]
  /\ \A C \in SUBSET DatedIn(H) :
        G[C] = IF C = {} THEN <<>> ELSE ExtendedBy(G[C \ {LastIn(H, C)}], H[LastIn(H, C)])

ApartBy(s) == \A n \in 1..Len(s) - 1 : s[n + 1].from - s[n].to > SessionGap

(* The matches with a chronology.                                          *)
LEMMA DatedMatches ==
  ASSUME NEW H \in Seq(Matches)
  PROVE  /\ DatedIn(H) \in SUBSET (1..Len(H)) /\ IsFiniteSet(DatedIn(H))
         /\ \A i \in DatedIn(H) :
               /\ i \in Int /\ H[i] \in Matches /\ H[i].demo \in Demos /\ H[i].demo \in Int
               /\ SpanIn(H, i)[1] \in Int /\ SpanIn(H, i)[2] \in Int
               /\ SpanIn(H, i)[1] <= SpanIn(H, i)[2]
<1>1. DOMAIN H = 1..Len(H) /\ Len(H) \in Nat /\ IsFiniteSet(1..Len(H))
  BY FS_Interval
<1>2. DatedIn(H) \in SUBSET (1..Len(H))
  BY <1>1 DEF DatedIn
<1>3. IsFiniteSet(DatedIn(H))
  BY <1>1, <1>2, FS_Subset
<1>4. ASSUME NEW i \in DatedIn(H)
      PROVE  /\ i \in Int /\ H[i] \in Matches /\ H[i].demo \in Demos /\ H[i].demo \in Int
             /\ SpanIn(H, i)[1] \in Int /\ SpanIn(H, i)[2] \in Int
             /\ SpanIn(H, i)[1] <= SpanIn(H, i)[2]
  <2>1. i \in 1..Len(H) /\ SpanIn(H, i) # Absent /\ SpanIn(H, i)[1] <= SpanIn(H, i)[2]
    BY <1>1 DEF DatedIn
  <2>2. H[i] \in Matches
    BY <1>1, <2>1
  <2>3. H[i].demo \in Demos /\ H[i].demo \in Int
    BY <2>2, BaselineAssumption DEF Matches
  <2>4. SpanIn(H, i) \in Int \X Int
    BY <2>1, <2>3, BaselineAssumption DEF SpanIn
  <2> QED BY <2>1, <2>2, <2>3, <2>4
<1> QED BY <1>2, <1>3, <1>4

(* The order by start, end, demo and position.                             *)
Lex(a, b, c, i, d, e, f, j) ==
  \/ a < d
  \/ a = d /\ b < e
  \/ a = d /\ b = e /\ c < f
  \/ a = d /\ b = e /\ c = f /\ i < j

(* The order of three numbers is transitive.                               *)
LEMMA LexTransitive ==
  ASSUME NEW a \in Int, NEW b \in Int, NEW c \in Int, NEW i \in Int,
         NEW d \in Int, NEW e \in Int, NEW f \in Int, NEW j \in Int,
         NEW u \in Int, NEW v \in Int, NEW w \in Int, NEW k \in Int,
         Lex(a, b, c, i, d, e, f, j), Lex(d, e, f, j, u, v, w, k)
  PROVE  Lex(a, b, c, i, u, v, w, k)
BY DEF Lex

(* Matches are ordered by their start, their end and their demo.           *)
LEMMA EarlierIsLex ==
  ASSUME NEW H \in Seq(Matches), NEW i \in DatedIn(H), NEW j \in DatedIn(H)
  PROVE  EarlierIn(H, i, j)
           <=> Lex(SpanIn(H, i)[1], SpanIn(H, i)[2], H[i].demo, i,
                   SpanIn(H, j)[1], SpanIn(H, j)[2], H[j].demo, j)
BY DatedMatches DEF EarlierIn, SoonerIn, Lex

(* A set of dated matches has one last match.                              *)
LEMMA LastMatch ==
  ASSUME NEW H \in Seq(Matches), NEW C \in SUBSET DatedIn(H), C # {}
  PROVE  /\ LastIn(H, C) \in C
         /\ \A j \in C \ {LastIn(H, C)} : EarlierIn(H, j, LastIn(H, C))
         /\ \A i \in C : (\A j \in C \ {i} : EarlierIn(H, j, i)) => i = LastIn(H, C)
<1> DEFINE R == {p \in C \X C : EarlierIn(H, p[2], p[1])}
<1>1. \A i \in C : /\ i \in Int /\ H[i].demo \in Int
                   /\ SpanIn(H, i)[1] \in Int /\ SpanIn(H, i)[2] \in Int
  BY DatedMatches
<1>2. IsFiniteSet(C)
  BY DatedMatches, FS_Subset
<1>3. \A x, y \in C : x # y => EarlierIn(H, x, y) \/ EarlierIn(H, y, x)
  BY <1>1 DEF EarlierIn, SoonerIn
<1>4. ASSUME NEW x \in C, NEW y \in C, NEW z \in C, EarlierIn(H, y, x), EarlierIn(H, z, y)
      PROVE  EarlierIn(H, z, x)
  <2>1. x \in DatedIn(H) /\ y \in DatedIn(H) /\ z \in DatedIn(H)
    OBVIOUS
  <2> DEFINE a == SpanIn(H, z)[1]
             b == SpanIn(H, z)[2]
             c == H[z].demo
             d == SpanIn(H, y)[1]
             e == SpanIn(H, y)[2]
             f == H[y].demo
             u == SpanIn(H, x)[1]
             v == SpanIn(H, x)[2]
             w == H[x].demo
  <2>2. /\ Lex(a, b, c, z, d, e, f, y) /\ Lex(d, e, f, y, u, v, w, x)
        /\ EarlierIn(H, z, x) <=> Lex(a, b, c, z, u, v, w, x)
    BY <1>4, <2>1, EarlierIsLex
  <2>3. /\ a \in Int /\ b \in Int /\ c \in Int /\ z \in Int
        /\ d \in Int /\ e \in Int /\ f \in Int /\ y \in Int
        /\ u \in Int /\ v \in Int /\ w \in Int /\ x \in Int
    BY <1>1
  <2> HIDE DEF a, b, c, d, e, f, u, v, w
  <2>4. Lex(a, b, c, z, u, v, w, x)
    BY <2>2, <2>3, LexTransitive
  <2> QED BY <2>2, <2>4
<1>5. ASSUME NEW x \in C, NEW y \in C, x # y, EarlierIn(H, x, y), EarlierIn(H, y, x)
      PROVE  FALSE
  BY <1>1, <1>5 DEF EarlierIn, SoonerIn
<1>6. /\ \A x, y \in C : x # y => <<x, y>> \in R \/ <<y, x>> \in R
      /\ \A x, y, z \in C : <<x, y>> \in R /\ <<y, z>> \in R => <<x, z>> \in R
  BY <1>3, <1>4
<1> HIDE DEF R
<1>7. \E x \in C : \A y \in C \ {x} : <<x, y>> \in R
  BY <1>2, <1>6, FirstElement
<1>8. \E x \in C : \A y \in C \ {x} : EarlierIn(H, y, x)
  BY <1>7 DEF R
<1>9. /\ LastIn(H, C) \in C
      /\ \A j \in C \ {LastIn(H, C)} : EarlierIn(H, j, LastIn(H, C))
  BY <1>8 DEF LastIn
<1> QED BY <1>5, <1>9

(* What a match from a to b can make of the sessions s.                    *)
MadeInto(s, e, a, b) ==
  LET N == Len(s)
  IN  \/ N # 0 /\ a <= s[N].to /\ e = s
      \/ /\ N # 0 /\ a > s[N].to /\ a - s[N].to <= SessionGap
         /\ Len(e) = N /\ e[N].from = s[N].from /\ e[N].to = b
         /\ \A k \in 1..N - 1 : e[k] = s[k]
      \/ /\ N # 0 => a > s[N].to /\ a - s[N].to > SessionGap
         /\ Len(e) = N + 1 /\ e[N + 1].from = a /\ e[N + 1].to = b
         /\ \A k \in 1..N : e[k] = s[k]

(* Extending keeps the sessions apart and changes only the last of them.   *)
LEMMA ExtendedSessions ==
  ASSUME NEW s \in Seq(SessionRecs), NEW m, m.demo \in Demos,
         Intervals[m.demo][1] \in Int, Intervals[m.demo][2] \in Int
  PROVE  /\ ExtendedBy(s, m) \in Seq(SessionRecs)
         /\ MadeInto(s, ExtendedBy(s, m), Intervals[m.demo][1], Intervals[m.demo][2])
<1> DEFINE e == ExtendedBy(s, m)
           N == Len(s)
           a == Intervals[m.demo][1]
           b == Intervals[m.demo][2]
<1>0. N \in Nat /\ (N # 0 => s[N] \in SessionRecs /\ s[N].to \in Int)
  <2>1. N # 0 => s[N] \in SessionRecs
    OBVIOUS
  <2> QED BY <2>1 DEF SessionRecs
<1>1. CASE N = 0 \/ (a > s[N].to /\ a - s[N].to > SessionGap)
  <2> DEFINE r == [demos |-> {m.demo}, from |-> a, to |-> b]
  <2>1. e = Append(s, r)
    BY <1>0, <1>1, BaselineAssumption DEF ExtendedBy, OpenedBy
  <2>2. r \in SessionRecs
    BY DEF SessionRecs
  <2>3. r.from = a /\ r.to = b
    OBVIOUS
  <2> HIDE DEF r, e
  <2>4. /\ e \in Seq(SessionRecs) /\ Len(e) = N + 1 /\ e[N + 1] = r
        /\ \A k \in 1..N : e[k] = s[k]
    BY <2>1, <2>2
  <2> QED BY <1>1, <2>3, <2>4 DEF e, MadeInto
<1>2. CASE N # 0 /\ a <= s[N].to
  BY <1>2 DEF ExtendedBy, MadeInto
<1>3. CASE N # 0 /\ a > s[N].to /\ ~(a - s[N].to > SessionGap)
  <2> DEFINE r == [s[N] EXCEPT !.demos = @ \cup {m.demo}, !.to = b]
  <2>1. e = JoinedBy(s, m)
    BY <1>0, <1>3, BaselineAssumption DEF ExtendedBy
  <2>2. JoinedBy(s, m) = [s EXCEPT ![N] = r]
    BY <1>0, <1>3 DEF JoinedBy
  <2>3. r \in SessionRecs /\ r.from = s[N].from /\ r.to = b
    BY <1>0, <1>3 DEF SessionRecs
  <2> HIDE DEF r, e
  <2>4. /\ e \in Seq(SessionRecs) /\ Len(e) = N /\ e[N] = r
        /\ \A k \in 1..N - 1 : e[k] = s[k]
    BY <1>0, <1>3, <2>1, <2>2, <2>3
  <2>5. a - s[N].to <= SessionGap
    BY <1>0, <1>3, BaselineAssumption
  <2> QED BY <1>3, <2>3, <2>4, <2>5 DEF e, MadeInto
<1> QED BY <1>0, <1>1, <1>2, <1>3, BaselineAssumption

(* The sessions as group_sessions builds them.                             *)
LEMMA GroupedDef == BaselineInv => GroupsOf(Grouped, history) /\ Sessions = Grouped[DatedIn(history)]
<1> SUFFICES ASSUME BaselineInv
             PROVE  GroupsOf(Grouped, history) /\ Sessions = Grouped[DatedIn(history)]
  OBVIOUS
<1> DEFINE D == SUBSET Dated
           V == Seq(SessionRecs)
           last(C) == LastIn(history, C)
           step(s, i) == ExtendedBy(s, history[i])
           size == [C \in D |-> Cardinality(C)]
           below == [C \in D |-> IF C = {} THEN {} ELSE {C \ {last(C)}}]
           h == [C \in D |-> [f \in [below[C] -> V] |->
                   IF C = {} THEN <<>> ELSE step(f[C \ {last(C)}], last(C))]]
<1>0. /\ history \in Seq(Matches) /\ Dated = DatedIn(history) /\ IsFiniteSet(Dated)
  <2>1. Dated = DatedIn(history)
    BY DEF Dated, DatedIn, Span, SpanIn
  <2> QED BY <2>1, DatedMatches DEF BaselineInv
<1>1. \A C \in D : C # {} => last(C) \in C /\ last(C) \in Dated
  BY <1>0, LastMatch
<1>2. ASSUME NEW s \in V, NEW i \in Dated PROVE step(s, i) \in V
  <2>1. /\ history[i].demo \in Demos
        /\ SpanIn(history, i)[1] \in Int /\ SpanIn(history, i)[2] \in Int
    BY <1>0, DatedMatches
  <2> QED BY <2>1, ExtendedSessions DEF SpanIn
<1>3. \A C \in SUBSET Dated : LastOf(C) = last(C)
  BY DEF LastOf, LastIn, Sooner, SoonerIn, EarlierIn, Span, SpanIn
<1>4. ASSUME NEW s, NEW i PROVE Extended(s, i) = step(s, i)
  BY DEF Extended, ExtendedBy, OpenedBy, JoinedBy, Continues, Span
<1> HIDE DEF last, step
<1>5. Founded(D, V, size, below, h)
  <2>1. size \in [D -> Nat]
    BY <1>0, SubsetSizes
  <2>2. \A C \in D : \A t \in below[C] : t \in D /\ size[t] < size[C]
    BY <1>0, <1>1, SubsetSizes
  <2>3. ASSUME NEW C \in D PROVE h[C] \in [[below[C] -> V] -> V]
    <3>1. ASSUME NEW f \in [below[C] -> V], C # {}
          PROVE  step(f[C \ {last(C)}], last(C)) \in V
      <4>1. f[C \ {last(C)}] \in V
        BY <3>1
      <4> QED BY <1>1, <1>2, <3>1, <4>1
    <3>2. <<>> \in V
      OBVIOUS
    <3> QED BY <3>1, <3>2
  <2> HIDE DEF size, below, h, D, V
  <2> QED BY <2>1, <2>2, <2>3 DEF Founded
<1>6. PICK g : Solves(g, D, V, below, h)
  <2> HIDE DEF size, below, h, D, V
  <2> QED BY <1>5, Recursion
<1>7. g \in [D -> V]
  BY <1>6 DEF Solves
<1>8. ASSUME NEW C \in D
      PROVE  g[C] = IF C = {} THEN <<>> ELSE step(g[C \ {last(C)}], last(C))
  <2>1. [t \in below[C] |-> g[t]] \in [below[C] -> V]
    <3>1. \A t \in below[C] : t \in D
      BY <1>1
    <3> QED BY <1>7, <3>1
  <2>2. g[C] = h[C][[t \in below[C] |-> g[t]]]
    BY <1>6 DEF Solves
  <2> QED BY <2>1, <2>2
<1>9. \A C \in D : C # {} => Extended(g[C \ {LastOf(C)}], LastOf(C)) = step(g[C \ {last(C)}], last(C))
  BY <1>3, <1>4
<1>10. g = [C \in D |-> IF C = {} THEN <<>> ELSE Extended(g[C \ {LastOf(C)}], LastOf(C))]
  BY <1>7, <1>8, <1>9
<1>11. Grouped = [C \in D |-> IF C = {} THEN <<>>
                              ELSE Extended(Grouped[C \ {LastOf(C)}], LastOf(C))]
  BY <1>10 DEF Grouped
<1>12. ASSUME NEW C \in D
       PROVE  Grouped[C] = IF C = {} THEN <<>> ELSE step(Grouped[C \ {last(C)}], last(C))
  BY <1>3, <1>4, <1>11
<1>13. Grouped \in [D -> V]
  <2> DEFINE P == {C \in D : Grouped[C] \in V}
  <2>1. ASSUME NEW C \in D, \A t \in D : size[t] < size[C] => t \in P PROVE C \in P
    <3>1. CASE C = {}
      <4>1. Grouped[C] = <<>> /\ <<>> \in V
        BY <1>12, <3>1
      <4> QED BY <4>1
    <3>2. CASE C # {}
      <4>1. C \ {last(C)} \in D /\ size[C \ {last(C)}] < size[C]
        BY <1>0, <1>1, <3>2, SubsetSizes
      <4>2. Grouped[C \ {last(C)}] \in V
        BY <2>1, <4>1
      <4>3. Grouped[C] \in V
        BY <1>1, <1>2, <1>12, <3>2, <4>2
      <4> QED BY <4>3
    <3> QED BY <3>1, <3>2
  <2>2. size \in [D -> Nat]
    BY <1>0, SubsetSizes
  <2> HIDE DEF P, size, D
  <2>3. D \subseteq P
    BY <2>1, <2>2, SizeInduction
  <2>4. \A C \in D : Grouped[C] \in V
    BY <2>3 DEF P
  <2> QED BY <1>11, <2>4 DEF D
<1>14. GroupsOf(Grouped, history)
  BY <1>0, <1>12, <1>13 DEF GroupsOf, last, step
<1> QED BY <1>0, <1>14 DEF Sessions

(* Sessions are apart by more than the gap.                                *)
LEMMA SessionsApart ==
  ASSUME NEW H \in Seq(Matches), NEW G, GroupsOf(G, H)
  PROVE  \A C \in SUBSET DatedIn(H) : ApartBy(G[C])
<1> DEFINE D == SUBSET DatedIn(H)
           size == [C \in D |-> Cardinality(C)]
           P == {C \in D : ApartBy(G[C])}
<1>0. IsFiniteSet(DatedIn(H))
  BY DatedMatches
<1>1. ASSUME NEW C \in D, \A t \in D : size[t] < size[C] => t \in P PROVE C \in P
  <2>1. CASE C = {}
    <3>1. G[C] = <<>>
      BY <2>1 DEF GroupsOf
    <3>2. \A n \in 1..Len(<<>>) - 1 : FALSE
      OBVIOUS
    <3> QED BY <3>1, <3>2 DEF ApartBy
  <2>2. CASE C # {}
    <3> DEFINE x == LastIn(H, C)
               s == G[C \ {x}]
               e == G[C]
               N == Len(s)
               a == SpanIn(H, x)[1]
               b == SpanIn(H, x)[2]
    <3>1. x \in C
      BY <2>2, LastMatch
    <3>2. C \ {x} \in D /\ size[C \ {x}] < size[C]
      BY <1>0, <3>1, SubsetSizes
    <3>3. ApartBy(s) /\ s \in Seq(SessionRecs)
      BY <1>1, <3>2 DEF GroupsOf
    <3>4. e = ExtendedBy(s, H[x])
      BY <2>2 DEF GroupsOf
    <3>5. H[x].demo \in Demos /\ a \in Int /\ b \in Int
      BY <3>1, DatedMatches
    <3>6. a = Intervals[H[x].demo][1] /\ b = Intervals[H[x].demo][2]
      BY DEF SpanIn
    <3> HIDE DEF x, s, e, a, b
    <3>7. \/ e = s
          \/ /\ N # 0 /\ Len(e) = N /\ e[N].from = s[N].from
             /\ \A k \in 1..N - 1 : e[k] = s[k]
          \/ /\ N # 0 => a - s[N].to > SessionGap
             /\ Len(e) = N + 1 /\ e[N + 1].from = a
             /\ \A k \in 1..N : e[k] = s[k]
      <4>1. MadeInto(s, ExtendedBy(s, H[x]), a, b)
        BY <3>3, <3>5, <3>6, ExtendedSessions
      <4> QED BY <3>4, <4>1 DEF MadeInto
    <3>8. N \in Nat
      BY <3>3
    <3>9. ASSUME NEW n \in 1..Len(e) - 1 PROVE e[n + 1].from - e[n].to > SessionGap
      <4>1. CASE e = s
        BY <3>3, <3>9, <4>1 DEF ApartBy
      <4>2. CASE /\ N # 0 /\ Len(e) = N /\ e[N].from = s[N].from
                 /\ \A k \in 1..N - 1 : e[k] = s[k]
        <5>1. n \in 1..N - 1 /\ n + 1 \in 1..N
          BY <3>8, <3>9, <4>2
        <5>2. e[n + 1].from = s[n + 1].from /\ e[n] = s[n]
          BY <3>8, <4>2, <5>1
        <5>3. s[n + 1].from - s[n].to > SessionGap
          BY <3>3, <5>1 DEF ApartBy
        <5> QED BY <5>2, <5>3
      <4>3. CASE /\ N # 0 => a - s[N].to > SessionGap
                 /\ Len(e) = N + 1 /\ e[N + 1].from = a
                 /\ \A k \in 1..N : e[k] = s[k]
        <5>1. n \in 1..N
          BY <3>8, <3>9, <4>3
        <5>2. e[n] = s[n]
          BY <4>3, <5>1
        <5>3. CASE n = N
          BY <3>8, <4>3, <5>1, <5>2, <5>3
        <5>4. CASE n # N
          <6>1. n \in 1..N - 1 /\ n + 1 \in 1..N
            BY <3>8, <5>1, <5>4
          <6>2. e[n + 1] = s[n + 1]
            BY <4>3, <6>1
          <6>3. s[n + 1].from - s[n].to > SessionGap
            BY <3>3, <6>1 DEF ApartBy
          <6> QED BY <5>2, <6>2, <6>3
        <5> QED BY <5>3, <5>4
      <4> QED BY <3>7, <4>1, <4>2, <4>3
    <3>10. ApartBy(e)
      BY <3>9 DEF ApartBy
    <3> QED BY <3>10 DEF e
  <2> QED BY <2>1, <2>2
<1>2. size \in [D -> Nat]
  BY <1>0, SubsetSizes
<1> HIDE DEF P, size, D
<1>3. D \subseteq P
  BY <1>1, <1>2, SizeInduction
<1> QED BY <1>3 DEF P, D

(* K is the history H with one match m more, at position n.                *)
Longer(H, m, K, n) == H \in Seq(Matches) /\ m \in Matches /\ K = Append(H, m) /\ n = Len(H) + 1

(* A longer history has the same matches so far, in the same order.        *)
LEMMA LongerHistory ==
  ASSUME NEW H, NEW m, NEW K, NEW n, Longer(H, m, K, n)
  PROVE  /\ H \in Seq(Matches) /\ K \in Seq(Matches) /\ n \notin DOMAIN H /\ DOMAIN K = DOMAIN H \cup {n}
         /\ K[n] = m /\ \A i \in DOMAIN H : K[i] = H[i] /\ SpanIn(K, i) = SpanIn(H, i)
         /\ DatedIn(H) \subseteq DatedIn(K) /\ n \notin DatedIn(H)
         /\ DatedIn(K) = IF n \in DatedIn(K) THEN DatedIn(H) \cup {n} ELSE DatedIn(H)
         /\ \A C \in SUBSET DatedIn(H) : C # {} => LastIn(K, C) = LastIn(H, C)
<1>1. /\ H \in Seq(Matches) /\ K \in Seq(Matches) /\ n \notin DOMAIN H
      /\ DOMAIN K = DOMAIN H \cup {n} /\ K[n] = m /\ \A i \in DOMAIN H : K[i] = H[i]
  BY DEF Longer
<1>2. \A i \in DOMAIN H : SpanIn(K, i) = SpanIn(H, i)
  BY <1>1 DEF SpanIn
<1>3. \A i \in DOMAIN H : i \in DatedIn(K) <=> i \in DatedIn(H)
  BY <1>1, <1>2 DEF DatedIn
<1>4. /\ DatedIn(H) \subseteq DatedIn(K) /\ n \notin DatedIn(H)
      /\ DatedIn(K) = IF n \in DatedIn(K) THEN DatedIn(H) \cup {n} ELSE DatedIn(H)
  <2>1. DatedIn(H) \subseteq DOMAIN H /\ DatedIn(K) \subseteq DOMAIN H \cup {n}
    BY <1>1 DEF DatedIn
  <2>2. CASE n \in DatedIn(K)
    BY <1>1, <1>3, <2>1, <2>2
  <2>3. CASE n \notin DatedIn(K)
    BY <1>1, <1>3, <2>1, <2>3
  <2> QED BY <2>2, <2>3
<1>5. ASSUME NEW C \in SUBSET DatedIn(H), C # {} PROVE LastIn(K, C) = LastIn(H, C)
  <2>1. \A i, j \in C : EarlierIn(K, j, i) <=> EarlierIn(H, j, i)
    <3>1. C \subseteq DOMAIN H
      BY DEF DatedIn
    <3> QED BY <1>1, <1>2, <3>1 DEF EarlierIn, SoonerIn
  <2>2. C \in SUBSET DatedIn(K)
    BY <1>4
  <2>3. /\ LastIn(K, C) \in C
        /\ \A j \in C \ {LastIn(K, C)} : EarlierIn(K, j, LastIn(K, C))
    BY <1>1, <1>5, <2>2, LastMatch
  <2>4. \A j \in C \ {LastIn(K, C)} : EarlierIn(H, j, LastIn(K, C))
    BY <2>1, <2>3
  <2> QED BY <1>1, <1>5, <2>3, <2>4, LastMatch
<1> QED BY <1>1, <1>2, <1>4, <1>5

(* The sessions of the matches so far are the same.                        *)
LEMMA SameSessions ==
  ASSUME NEW H, NEW m, NEW K, NEW n, Longer(H, m, K, n),
         NEW G, GroupsOf(G, H), NEW F, GroupsOf(F, K)
  PROVE  \A C \in SUBSET DatedIn(H) : F[C] = G[C]
<1> DEFINE D == SUBSET DatedIn(H)
           size == [C \in D |-> Cardinality(C)]
           P == {C \in D : F[C] = G[C]}
<1>00. /\ H \in Seq(Matches) /\ DatedIn(H) \subseteq DatedIn(K)
       /\ \A i \in DOMAIN H : K[i] = H[i]
       /\ \A C \in SUBSET DatedIn(H) : C # {} => LastIn(K, C) = LastIn(H, C)
  <2>1. H \in Seq(Matches) /\ DatedIn(H) \subseteq DatedIn(K)
    BY LongerHistory
  <2>2. ASSUME NEW i \in DOMAIN H PROVE K[i] = H[i]
    BY LongerHistory
  <2>3. ASSUME NEW C \in SUBSET DatedIn(H), C # {} PROVE LastIn(K, C) = LastIn(H, C)
    BY <2>3, LongerHistory
  <2> QED BY <2>1, <2>2, <2>3
<1>0. IsFiniteSet(DatedIn(H))
  BY <1>00, DatedMatches
<1>1. ASSUME NEW C \in D, \A t \in D : size[t] < size[C] => t \in P PROVE C \in P
  <2>0. C \in SUBSET DatedIn(K)
    BY <1>00
  <2>1. CASE C = {}
    BY <2>0, <2>1 DEF GroupsOf
  <2>2. CASE C # {}
    <3> DEFINE x == LastIn(H, C)
    <3>1. x \in C
      BY <1>00, <2>2, LastMatch
    <3>2. LastIn(K, C) = x /\ K[x] = H[x]
      <4>1. x \in DOMAIN H
        BY <3>1 DEF DatedIn
      <4> QED BY <1>00, <2>2, <4>1
    <3>3. C \ {x} \in D /\ size[C \ {x}] < size[C]
      BY <1>0, <3>1, SubsetSizes
    <3>4. F[C \ {x}] = G[C \ {x}]
      BY <1>1, <3>3
    <3>5. F[C] = ExtendedBy(F[C \ {x}], H[x])
      BY <2>0, <2>2, <3>2 DEF GroupsOf
    <3>6. G[C] = ExtendedBy(G[C \ {x}], H[x])
      BY <2>2 DEF GroupsOf
    <3> QED BY <3>4, <3>5, <3>6
  <2> QED BY <2>1, <2>2
<1>2. size \in [D -> Nat]
  BY <1>0, SubsetSizes
<1> HIDE DEF P, size, D
<1>3. D \subseteq P
  BY <1>1, <1>2, SizeInduction
<1> QED BY <1>3 DEF P, D

(* One match more, from c to d, leaves a session alone that ended more than *)
(* the gap before it.                                                      *)
LEMMA SettledByOne ==
  ASSUME NEW s \in Seq(SessionRecs), NEW e, NEW c \in Int, NEW d \in Int, MadeInto(s, e, c, d),
         NEW a \in Int, a <= c, NEW k \in 1..Len(s), a - s[k].to > SessionGap
  PROVE  k \in 1..Len(e) /\ e[k] = s[k]
<1> DEFINE N == Len(s)
<1>1. N \in Nat /\ k \in 1..N /\ N # 0 /\ s[k] \in SessionRecs /\ s[k].to \in Int
  <2>1. s[k] \in SessionRecs
    OBVIOUS
  <2> QED BY <2>1 DEF SessionRecs
<1>2. SessionGap \in Nat
  BY BaselineAssumption
<1>3. CASE e = s
  BY <1>3
<1>4. CASE /\ c - s[N].to <= SessionGap /\ Len(e) = N
           /\ \A j \in 1..N - 1 : e[j] = s[j]
  <2>1. k # N
    BY <1>1, <1>2, <1>4
  <2> QED BY <1>1, <1>4, <2>1
<1>5. CASE Len(e) = N + 1 /\ \A j \in 1..N : e[j] = s[j]
  BY <1>1, <1>5
<1> QED BY <1>3, <1>4, <1>5 DEF MadeInto

(* A session that ended more than the gap before a match is the same with  *)
(* that match.                                                             *)
LEMMA SettledSessions ==
  ASSUME NEW H, NEW m, NEW K, NEW n, Longer(H, m, K, n), n \in DatedIn(K),
         NEW G, GroupsOf(G, H), NEW F, GroupsOf(F, K)
  PROVE  \A C \in SUBSET DatedIn(H) : \A k \in 1..Len(G[C]) :
            SpanIn(K, n)[1] - G[C][k].to > SessionGap
              => k \in 1..Len(F[C \cup {n}]) /\ F[C \cup {n}][k] = G[C][k]
<1> DEFINE D == SUBSET DatedIn(H)
           a == SpanIn(K, n)[1]
           size == [C \in D |-> Cardinality(C)]
           Same(C) == \A k \in 1..Len(G[C]) : a - G[C][k].to > SessionGap
                         => k \in 1..Len(F[C \cup {n}]) /\ F[C \cup {n}][k] = G[C][k]
           P == {C \in D : Same(C)}
<1>0. IsFiniteSet(DatedIn(H)) /\ a \in Int /\ K \in Seq(Matches) /\ H \in Seq(Matches)
      /\ n \notin DatedIn(H) /\ DatedIn(H) \subseteq DatedIn(K)
  <2>1. /\ K \in Seq(Matches) /\ H \in Seq(Matches)
        /\ n \notin DatedIn(H) /\ DatedIn(H) \subseteq DatedIn(K)
    BY LongerHistory
  <2>2. a \in Int
    BY <2>1, DatedMatches
  <2> QED BY <2>1, <2>2, DatedMatches
<1>1. ASSUME NEW C \in D, \A t \in D : size[t] < size[C] => t \in P PROVE C \in P
  <2> DEFINE Es == C \cup {n}
             x == LastIn(K, Es)
             c == SpanIn(K, x)[1]
             d == SpanIn(K, x)[2]
  <2>0. Es \in SUBSET DatedIn(K) /\ Es # {} /\ G[C] \in Seq(SessionRecs) /\ n \notin C
    BY <1>0 DEF GroupsOf
  <2>1. x \in Es /\ \A j \in Es \ {x} : EarlierIn(K, j, x)
    BY <1>0, <2>0, LastMatch
  <2>2. K[x].demo \in Demos /\ c \in Int /\ d \in Int /\ c <= d
    BY <1>0, <2>0, <2>1, DatedMatches
  <2>3. F[Es] = ExtendedBy(F[Es \ {x}], K[x]) /\ F[Es \ {x}] \in Seq(SessionRecs)
    <3>1. Es \ {x} \in SUBSET DatedIn(K)
      BY <2>0
    <3> QED BY <2>0, <3>1 DEF GroupsOf
  <2>4. MadeInto(F[Es \ {x}], F[Es], c, d)
    <3>1. c = Intervals[K[x].demo][1] /\ d = Intervals[K[x].demo][2]
      BY DEF SpanIn
    <3> HIDE DEF x, Es, c, d
    <3> QED BY <2>2, <2>3, <3>1, ExtendedSessions
  <2>5. a <= c
    <3>1. CASE x = n
      BY <1>0, <3>1
    <3>2. CASE x # n
      <4>1. EarlierIn(K, n, x)
        BY <2>1, <3>2
      <4>2. n \in DatedIn(K) /\ x \in DatedIn(K)
        BY <2>0, <2>1
      <4>3. SpanIn(K, n)[1] \in Int /\ SpanIn(K, n)[2] \in Int /\ SpanIn(K, x)[1] \in Int
            /\ K[n].demo \in Int /\ n \in Int /\ x \in Int
        BY <1>0, <4>2, DatedMatches
      <4>4. Lex(SpanIn(K, n)[1], SpanIn(K, n)[2], K[n].demo, n,
                SpanIn(K, x)[1], SpanIn(K, x)[2], K[x].demo, x)
        BY <1>0, <4>1, <4>2, EarlierIsLex
      <4>5. SpanIn(K, n)[1] <= SpanIn(K, x)[1]
        <5> HIDE DEF x
        <5> QED BY <4>3, <4>4 DEF Lex
      <4> QED BY <4>5
    <3> QED BY <3>1, <3>2
  <2>6. CASE x = n
    <3>1. Es \ {x} = C
      BY <2>0, <2>6
    <3>2. F[C] = G[C]
      BY SameSessions
    <3>3. MadeInto(G[C], F[Es], c, d)
      BY <2>4, <3>1, <3>2
    <3> HIDE DEF Es, x, a, c, d
    <3>4. \A k \in 1..Len(G[C]) : a - G[C][k].to > SessionGap
                         => k \in 1..Len(F[Es]) /\ F[Es][k] = G[C][k]
      BY <1>0, <2>0, <2>2, <2>5, <3>3, SettledByOne
    <3> QED BY <3>4 DEF Es
  <2>7. CASE x # n
    <3>1. x \in C /\ x = LastIn(H, C) /\ C # {}
      <4>1. x \in C /\ C # {}
        BY <2>1, <2>7
      <4>2. \A j \in C \ {x} : EarlierIn(K, j, x)
        BY <2>1
      <4>3. C \in SUBSET DatedIn(K)
        BY <1>0
      <4>4. x = LastIn(K, C)
        <5> HIDE DEF x
        <5> QED BY <1>0, <4>1, <4>2, <4>3, LastMatch
      <4>5. LastIn(K, C) = LastIn(H, C)
        BY <4>1, LongerHistory
      <4> QED BY <4>1, <4>4, <4>5
    <3> DEFINE B == C \ {x}
               s == G[B]
               t == F[B \cup {n}]
    <3>2. B \in D /\ size[B] < size[C]
      <4> HIDE DEF x
      <4> QED BY <1>0, <3>1, SubsetSizes
    <3>3. \A k \in 1..Len(s) : a - s[k].to > SessionGap => k \in 1..Len(t) /\ t[k] = s[k]
      BY <1>1, <3>2
    <3>4. s \in Seq(SessionRecs)
      BY <3>2 DEF GroupsOf
    <3>5. G[C] = ExtendedBy(s, K[x])
      <4>1. K[x] = H[x]
        <5>1. x \in DOMAIN H
          BY <3>1 DEF DatedIn
        <5>2. \A i \in DOMAIN H : K[i] = H[i]
          BY LongerHistory
        <5> QED BY <5>1, <5>2
      <4>2. G[C] = ExtendedBy(G[C \ {LastIn(H, C)}], H[LastIn(H, C)])
        BY <3>1 DEF GroupsOf
      <4> QED BY <3>1, <4>1, <4>2
    <3>6. MadeInto(s, G[C], c, d)
      <4>1. c = Intervals[K[x].demo][1] /\ d = Intervals[K[x].demo][2]
        BY DEF SpanIn
      <4> HIDE DEF x, c, d, s
      <4> QED BY <2>2, <3>4, <3>5, <4>1, ExtendedSessions
    <3>7. Es \ {x} = B \cup {n}
      BY <2>0, <2>7
    <3>8. MadeInto(t, F[Es], c, d) /\ t \in Seq(SessionRecs)
      BY <2>3, <2>4, <3>7
    <3> HIDE DEF Es, x, a, c, d, s, t, B
    <3>9. ASSUME NEW k \in 1..Len(G[C]), a - G[C][k].to > SessionGap
          PROVE  k \in 1..Len(s) /\ G[C][k] = s[k]
      BY <1>0, <2>0, <2>2, <2>5, <3>4, <3>6, <3>9, BaselineAssumption DEF MadeInto
    <3>10. ASSUME NEW k \in 1..Len(G[C]), a - G[C][k].to > SessionGap
           PROVE  k \in 1..Len(F[Es]) /\ F[Es][k] = G[C][k]
      <4>1. k \in 1..Len(s) /\ G[C][k] = s[k]
        BY <3>9, <3>10
      <4>2. k \in 1..Len(t) /\ t[k] = s[k]
        BY <3>3, <3>10, <4>1
      <4>3. a - t[k].to > SessionGap
        BY <3>10, <4>1, <4>2
      <4>4. k \in 1..Len(F[Es]) /\ F[Es][k] = t[k]
        BY <1>0, <2>2, <2>5, <3>8, <4>2, <4>3, SettledByOne
      <4> QED BY <4>1, <4>2, <4>4
    <3> QED BY <3>10 DEF Es
  <2> QED BY <2>6, <2>7
<1>2. size \in [D -> Nat]
  BY <1>0, SubsetSizes
<1> HIDE DEF P, size, D
<1>3. D \subseteq P
  BY <1>1, <1>2, SizeInduction
<1> QED BY <1>3 DEF P, D

-----------------------------------------------------------------------------
(***************************************************************************)
(* Baselines: what later imports leave alone                               *)
(***************************************************************************)

(* The shape of what is shown, in the terms of the history.                *)
Shape ==
  /\ Cohort = {i \in Comparable(Cutoff) :
                 Cardinality({j \in Comparable(Cutoff) : Later(j, i)}) < WindowMatches}
  /\ Future \in SUBSET (1..Len(history)) /\ IsFiniteSet(Future)
  /\ \A i \in Future : Span(history[i])[1] \in Int
  /\ Evaluated = {i \in Future : Cardinality({j \in Future : Sooner(j, i)}) < GoalMatches}
  /\ GroupsOf(Grouped, history) /\ Sessions = Grouped[DatedIn(history)]
  /\ ApartBy(Sessions)

(* Every history has this shape.                                           *)
LEMMA ShapeHolds == BaselineInv => Shape
<1> SUFFICES ASSUME BaselineInv PROVE Shape
  OBVIOUS
<1>1. /\ Comparable(Absent) \in SUBSET (1..Len(history)) /\ IsFiniteSet(Comparable(Absent))
      /\ \A i \in Comparable(Absent) :
            /\ Span(history[i])[1] \in Int
            /\ \A j \in Comparable(Absent) \ {i} : history[i].demo # history[j].demo
  BY ComparableMatches
<1>2. Future \subseteq Comparable(Absent)
  BY DEF Future
<1>3. Future \in SUBSET (1..Len(history)) /\ IsFiniteSet(Future)
  BY <1>1, <1>2, FS_Subset
<1>4. \A i \in Future : Span(history[i])[1] \in Int
  BY <1>1, <1>2
<1>5. Qualifying = Future
  <2>1. \A i \in Future : \A j \in Future \ {i} : history[i].demo # history[j].demo
    BY <1>1, <1>2
  <2> HIDE DEF Future
  <2> QED BY <2>1 DEF Qualifying, FirstOfDemo
<1>6. Evaluated = {i \in Future : Cardinality({j \in Future : Sooner(j, i)}) < GoalMatches}
  BY <1>5 DEF Evaluated, FirstN
<1>7. GroupsOf(Grouped, history) /\ Sessions = Grouped[DatedIn(history)]
  BY GroupedDef
<1>8. ApartBy(Sessions)
  BY <1>7, SessionsApart DEF BaselineInv
<1> QED BY <1>3, <1>4, <1>6, <1>7, <1>8, CohortIsLatest DEF Shape

(* What an import adds to the history.                                     *)
LEMMA ImportAppends ==
  ASSUME BaselineInv, NEW m \in Matches, Import(m), NEW n, n = Len(history) + 1
  PROVE  /\ Longer(history, m, history', n)
         /\ n \notin DOMAIN history /\ DOMAIN history' = DOMAIN history \cup {n}
         /\ history'[n] = m /\ \A i \in DOMAIN history : history'[i] = history[i]
         /\ Len(history') = n /\ history' # <<>> /\ shown' = Showing
<1>1. history \in Seq(Matches) /\ history' = Append(history, m) /\ shown' = Showing
  BY DEF Import, BaselineInv
<1> QED BY <1>1 DEF Longer

(* A match that is not older than the cutoff does not change the baseline. *)
LEMMA BaselineSettled ==
  ASSUME BaselineInv, Shape, Shape', NEW m \in Matches, Import(m),
         Span(m) = Absent \/ Span(m)[2] > Cutoff
  PROVE  Baseline' = Baseline
<1> DEFINE n == Len(history) + 1
<1>1. /\ n \notin DOMAIN history /\ DOMAIN history' = DOMAIN history \cup {n}
      /\ history'[n] = m /\ \A i \in DOMAIN history : history'[i] = history[i]
  BY ImportAppends
<1> HIDE DEF n
<1>2. Reason(m, Cutoff) # Absent
  <2>1. m.kind \in {"trend", "other_series", "non_canonical"}
    BY DEF Matches
  <2> QED BY <2>1, BaselineAssumption DEF Reason
<1>3. Comparable(Cutoff)' = Comparable(Cutoff) /\ Comparable(Cutoff) \subseteq DOMAIN history
  BY <1>1, <1>2 DEF Comparable
<1>4. \A i, j \in Comparable(Cutoff) : Later(j, i)' <=> Later(j, i)
  BY <1>1, <1>3 DEF Later, Span
<1>5. Cohort' = {i \in Comparable(Cutoff)' :
                   Cardinality({j \in Comparable(Cutoff)' : Later(j, i)'}) < WindowMatches}
  BY DEF Shape
<1>6. \A i \in Comparable(Cutoff) :
         {j \in Comparable(Cutoff) : Later(j, i)'} = {j \in Comparable(Cutoff) : Later(j, i)}
  BY <1>4
<1>7. Cohort' = Cohort /\ Cohort \subseteq Comparable(Cutoff)
  BY <1>3, <1>5, <1>6 DEF Shape
<1>8. ValuesOf(Cohort)' = ValuesOf(Cohort)
  BY <1>1, <1>3, <1>7 DEF ValuesOf
<1> QED BY <1>7, <1>8 DEF Baseline

(* A decided goal only changes with a match that started no later than the *)
(* last match it was decided by.                                           *)
LEMMA GoalSettled ==
  ASSUME BaselineInv, Shape, Shape', NEW m \in Matches, Import(m),
         GoalStatus # "in_progress", GoalStatus' # GoalStatus
  PROVE  \E j \in Evaluated : Span(m)[1] <= Span(history'[j])[1]
<1> SUFFICES ASSUME \A j \in Evaluated : ~(Span(m)[1] <= Span(history'[j])[1])
             PROVE  GoalStatus' = GoalStatus
  OBVIOUS
<1>n. PICK n : n = Len(history) + 1
  OBVIOUS
<1> DEFINE Es == Evaluated
           F == Future
           Preds(i) == {j \in F : Sooner(j, i)}
<1>1. /\ n \notin DOMAIN history /\ DOMAIN history' = DOMAIN history \cup {n}
      /\ history'[n] = m /\ \A i \in DOMAIN history : history'[i] = history[i]
  BY <1>n, ImportAppends
<1>0. F \subseteq DOMAIN history /\ n \notin F
  <2>1. F \subseteq Comparable(Absent)
    BY DEF Future
  <2>2. Comparable(Absent) \subseteq DOMAIN history
    BY DEF Comparable
  <2> HIDE DEF F
  <2> QED BY <1>1, <2>1, <2>2
<1>2. \A i \in DOMAIN history : i \in Future' <=> i \in F
  BY <1>1 DEF Future, Comparable
<1>3. Future' = F \/ Future' = F \cup {n}
  <2>1. Future' \subseteq DOMAIN history'
    BY DEF Future, Comparable
  <2> HIDE DEF F
  <2> QED BY <1>0, <1>1, <1>2, <2>1
<1>4. \A i, j \in F : Sooner(j, i)' <=> Sooner(j, i)
  <2> HIDE DEF F
  <2> QED BY <1>0, <1>1 DEF Sooner, Span
<1>5. /\ Es = {i \in F : Cardinality(Preds(i)) < GoalMatches}
      /\ Evaluated' = {i \in Future' : Cardinality({j \in Future' : Sooner(j, i)'}) < GoalMatches}
  BY DEF Shape
<1>6. IsFiniteSet(F) /\ IsFiniteSet(Future')
  BY DEF Shape
<1>7. IsFiniteSet(Es) /\ ~(Cardinality(Es) < GoalMatches) /\ Cardinality(Es) \in Nat
      /\ Es \subseteq F
  <2>1. Es \subseteq F
    BY <1>5
  <2>2. DOMAIN ValuesOf(Es) = Es
    BY DEF ValuesOf
  <2>3. ~(Cardinality(Es) < GoalMatches)
    BY <2>2 DEF GoalStatus
  <2> HIDE DEF Es, F
  <2>4. IsFiniteSet(Es)
    BY <1>6, <2>1, FS_Subset
  <2> QED BY <2>1, <2>3, <2>4, FS_CardinalityType
<1>8. Evaluated' = Es
  <2>1. CASE Future' = F
    <3>1. \A i \in F : {j \in F : Sooner(j, i)'} = Preds(i)
      BY <1>4
    <3> HIDE DEF Preds, F, Es
    <3> QED BY <1>5, <2>1, <3>1
  <2>2. CASE Future' = F \cup {n} /\ n \in Future'
    <3>1. \A i \in F \cup {n} : Span(history'[i])[1] \in Int
      BY <2>2 DEF Shape
    <3>2. \A j \in Es : Sooner(j, n)' /\ ~Sooner(n, j)'
      <4> SUFFICES ASSUME NEW j \in Es PROVE Sooner(j, n)' /\ ~Sooner(n, j)'
        OBVIOUS
      <4>1. Span(history'[j])[1] \in Int /\ Span(m)[1] \in Int
        <5> HIDE DEF F, Es
        <5> QED BY <1>1, <1>7, <3>1
      <4>2. Span(history'[j])[1] < Span(m)[1]
        BY <4>1
      <4> HIDE DEF Es
      <4> QED BY <1>1, <4>1, <4>2 DEF Sooner
    <3> DEFINE New(i) == {j \in F \cup {n} : Sooner(j, i)'}
    <3>3. ASSUME NEW i \in Es PROVE i \in Evaluated'
      <4>1. New(i) = Preds(i)
        <5>1. i \in F /\ ~Sooner(n, i)'
          BY <1>7, <3>2
        <5>2. \A j \in F : Sooner(j, i)' <=> Sooner(j, i)
          BY <1>4, <5>1
        <5> HIDE DEF F, Es
        <5> QED BY <1>0, <5>1, <5>2
      <4>2. i \in F /\ Cardinality(Preds(i)) < GoalMatches
        BY <1>5
      <4> HIDE DEF New, Preds, F, Es
      <4>3. Cardinality(New(i)) < GoalMatches
        BY <4>1, <4>2
      <4> QED BY <1>5, <2>2, <4>2, <4>3 DEF New
    <3>4. ASSUME NEW i \in F, i \notin Es PROVE i \notin Evaluated'
      <4>1. Preds(i) \in SUBSET New(i) /\ New(i) \in SUBSET Future'
        BY <1>4, <2>2
      <4>2. ~(Cardinality(Preds(i)) < GoalMatches)
        BY <1>5, <3>4
      <4> HIDE DEF New, Preds, F, Es
      <4>3. IsFiniteSet(New(i))
        BY <1>6, <4>1, FS_Subset
      <4>4. Cardinality(Preds(i)) <= Cardinality(New(i)) /\ IsFiniteSet(Preds(i))
        BY <4>1, <4>3, FS_Subset
      <4>5. Cardinality(Preds(i)) \in Nat /\ Cardinality(New(i)) \in Nat /\ GoalMatches \in Nat
        BY <4>3, <4>4, FS_CardinalityType, BaselineAssumption
      <4>6. ~(Cardinality(New(i)) < GoalMatches)
        BY <4>2, <4>4, <4>5
      <4> QED BY <1>5, <2>2, <4>6 DEF New
    <3>5. n \notin Evaluated'
      <4>1. Es \in SUBSET New(n) /\ New(n) \in SUBSET Future'
        BY <1>7, <2>2, <3>2
      <4> HIDE DEF New, F, Es
      <4>3. IsFiniteSet(New(n))
        BY <1>6, <4>1, FS_Subset
      <4>4. Cardinality(Es) <= Cardinality(New(n))
        BY <4>1, <4>3, FS_Subset
      <4>5. Cardinality(New(n)) \in Nat /\ GoalMatches \in Nat
        BY <4>3, FS_CardinalityType, BaselineAssumption
      <4>6. ~(Cardinality(New(n)) < GoalMatches)
        BY <1>7, <4>4, <4>5
      <4> QED BY <1>5, <2>2, <4>6 DEF New
    <3>6. Evaluated' \subseteq F \cup {n}
      BY <1>5, <2>2
    <3> HIDE DEF F, Es
    <3> QED BY <1>7, <3>3, <3>4, <3>5, <3>6
  <2> HIDE DEF F, Es
  <2> QED BY <1>0, <1>3, <2>1, <2>2
<1>9. ValuesOf(Evaluated)' = ValuesOf(Evaluated)
  <2>1. Es \subseteq DOMAIN history
    <3> HIDE DEF Es, F
    <3> QED BY <1>0, <1>7
  <2> QED BY <1>1, <1>8, <2>1 DEF ValuesOf
<1> QED BY <1>9 DEF GoalStatus

(* A session only changes with a match that started at most the gap after  *)
(* its end.                                                                *)
LEMMA SessionsSettled ==
  ASSUME BaselineInv, Shape, Shape', NEW m \in Matches, Import(m),
         NEW k \in DOMAIN Sessions,
         Span(m) = Absent \/ Span(m)[1] - Sessions[k].to > SessionGap
  PROVE  k \in DOMAIN Sessions' /\ Sessions'[k] = Sessions[k]
<1> DEFINE n == Len(history) + 1
           H == history
           K == history'
           G == Grouped
           F == Grouped'
<1>1. Longer(H, m, K, n) /\ K[n] = m
  BY ImportAppends
<1>2. GroupsOf(G, H) /\ Sessions = G[DatedIn(H)]
  BY DEF Shape
<1>3. GroupsOf(F, K) /\ Sessions' = F[DatedIn(K)]
  BY DEF Shape
<1>4. SpanIn(K, n) = Span(m)
  BY <1>1 DEF Span, SpanIn
<1> HIDE DEF n, H, K, G, F
<1>5. DatedIn(K) = IF n \in DatedIn(K) THEN DatedIn(H) \cup {n} ELSE DatedIn(H)
  BY <1>1, LongerHistory
<1>6. DatedIn(H) \in SUBSET DatedIn(H)
  OBVIOUS
<1>7. CASE n \notin DatedIn(K)
  <2>1. F[DatedIn(H)] = G[DatedIn(H)]
    BY <1>1, <1>2, <1>3, <1>6, SameSessions
  <2> QED BY <1>2, <1>3, <1>5, <1>7, <2>1
<1>8. CASE n \in DatedIn(K)
  <2>1. Span(m) # Absent
    BY <1>4, <1>8 DEF DatedIn
  <2>2. SpanIn(K, n)[1] - G[DatedIn(H)][k].to > SessionGap
    BY <1>2, <1>4, <2>1
  <2>3. G[DatedIn(H)] \in Seq(SessionRecs)
    BY <1>2, <1>6 DEF GroupsOf
  <2>4. k \in 1..Len(G[DatedIn(H)])
    BY <1>2, <2>3
  <2>5. F[DatedIn(K)] \in Seq(SessionRecs)
    BY <1>3 DEF GroupsOf
  <2>6. DatedIn(K) = DatedIn(H) \cup {n}
    BY <1>5, <1>8
  <2>7. k \in 1..Len(F[DatedIn(H) \cup {n}]) /\ F[DatedIn(H) \cup {n}][k] = G[DatedIn(H)][k]
    BY <1>1, <1>2, <1>3, <1>6, <1>8, <2>2, <2>4, SettledSessions
  <2> QED BY <1>2, <1>3, <2>5, <2>6, <2>7
<1> QED BY <1>7, <1>8

(* An import leaves alone what is settled, in every history.               *)
LEMMA SettledStep ==
  BaselineInv /\ Shape /\ Shape' /\ SettledStaysSettled /\ [BaselineNext]_baselineVars
    => SettledStaysSettled'
<1>1. ASSUME BaselineInv, Shape, Shape', NEW m \in Matches, Import(m)
      PROVE  SettledStaysSettled'
  <2> DEFINE n == Len(history) + 1
  <2>1. history'[Len(history')] = m /\ shown' = Showing
    BY <1>1, ImportAppends
  <2> DEFINE at == Span(m)
  <2>2. at = Absent \/ at[2] > Cutoff => Baseline' = Baseline
    BY <1>1, BaselineSettled
  <2>3. GoalStatus # "in_progress" /\ GoalStatus' # GoalStatus =>
           \E j \in Evaluated : at[1] <= Span(history'[j])[1]
    BY <1>1, GoalSettled
  <2>4. \A k \in DOMAIN Sessions :
           at = Absent \/ at[1] - Sessions[k].to > SessionGap
             => k \in DOMAIN Sessions' /\ Sessions'[k] = Sessions[k]
    BY <1>1, SessionsSettled
  <2>5. \A k \in 1..Len(Sessions') - 1 : Sessions'[k + 1].from - Sessions'[k].to > SessionGap
    BY <1>1 DEF Shape, ApartBy
  <2>6. /\ shown'.baseline = Baseline /\ shown'.goal = GoalStatus
        /\ shown'.evaluated = Evaluated /\ shown'.sessions = Sessions
    BY <2>1 DEF Showing
  <2>7. /\ Showing'.baseline = Baseline' /\ Showing'.goal = GoalStatus'
        /\ Showing'.sessions = Sessions'
    BY DEF Showing
  <2> HIDE DEF at
  <2>8. Span(history'[Len(history')]) = at
    BY <2>1 DEF at
  <2> QED BY <2>2, <2>3, <2>4, <2>5, <2>6, <2>7, <2>8 DEF SettledStaysSettled
<1>2. ASSUME SettledStaysSettled, UNCHANGED baselineVars PROVE SettledStaysSettled'
  <2>1. history' = history /\ shown' = shown
    BY <1>2 DEF baselineVars
  <2>2. Baseline' = Baseline
    BY <2>1 DEF Baseline, Cohort, Distinct, Comparable, FirstN, FirstOfDemo, Later, ValuesOf
  <2>3. GoalStatus' = GoalStatus /\ Evaluated' = Evaluated
    BY <2>1 DEF GoalStatus, Evaluated, Qualifying, Future, Comparable, FirstN, FirstOfDemo,
       Sooner, ValuesOf
  <2>4. Sessions' = Sessions
    BY <2>1 DEF Sessions, Grouped, Dated, LastOf, Extended, Sooner
  <2>5. Showing' = Showing
    BY <2>2, <2>3, <2>4 DEF Showing
  <2> QED BY <1>2, <2>1, <2>5 DEF SettledStaysSettled
<1> QED BY <1>1, <1>2 DEF BaselineNext

(* What is imported later does not rewrite what is settled: a baseline     *)
(* only changes with a match that ended no later than its cutoff, a        *)
(* decided goal only with a match that was played before the last one it   *)
(* was decided by, and a session only with a match that started at most    *)
(* the gap after its end; sessions stay apart by more than the gap         *)
(* (cohort_reason, evaluate_goal, group_sessions).                         *)
THEOREM SettledMatchesStay == BaselineSpec => []SettledStaysSettled
<1>1. BaselineInit => SettledStaysSettled
  BY DEF BaselineInit, SettledStaysSettled
<1> QED BY <1>1, BaselineInvInit, BaselineInvStep, ShapeHolds, SettledStep, PTL DEF BaselineSpec

-----------------------------------------------------------------------------
(***************************************************************************)
(* RatingRules: fractions and their order                                  *)
(***************************************************************************)

(* Products of whole numbers.                                              *)
LEMMA Products ==
  /\ \A a, b \in Int : a * b \in Int /\ a * b = b * a
  /\ \A a, b \in Nat : a * b \in Nat
  /\ \A a, b \in Nat \ {0} : a * b \in Nat \ {0}
  /\ \A a, b, c \in Int : (a * b) * c = a * (b * c) /\ (a + b) * c = a * c + b * c
OBVIOUS

(* Multiplying by what is not negative keeps the order; by what is         *)
(* positive, it also gives it back.                                        *)
LEMMA Scaling ==
  ASSUME NEW a \in Int, NEW b \in Int, NEW c \in Nat
  PROVE  /\ a <= b => a * c <= b * c
         /\ c # 0 /\ a * c <= b * c => a <= b
<1>1. ASSUME a <= b PROVE a * c <= b * c
  <2>1. b - a \in Nat /\ (b - a) * c = b * c - a * c
    BY <1>1
  <2>2. (b - a) * c \in Nat
    BY <2>1, Products
  <2> QED BY <2>1, <2>2
<1>2. ASSUME c # 0, ~(a <= b) PROVE ~(a * c <= b * c)
  <2>1. a - b \in Nat \ {0} /\ c \in Nat \ {0} /\ (a - b) * c = a * c - b * c
    BY <1>2
  <2>2. (a - b) * c \in Nat \ {0}
    BY <2>1, Products
  <2> QED BY <2>1, <2>2
<1> QED BY <1>1, <1>2

(* What the quotient is.                                                   *)
LEMMA Quotient ==
  ASSUME NEW a \in Int, NEW b \in Nat \ {0}
  PROVE  /\ a \div b \in Int /\ a % b \in 0..b - 1
         /\ a = b * (a \div b) + (a % b)
         /\ \A k \in Int : k * b <= a => k <= a \div b
<1>1. a \div b \in Int /\ a % b \in 0..b - 1 /\ a = b * (a \div b) + (a % b)
  OBVIOUS
<1>2. ASSUME NEW k \in Int, k * b <= a PROVE k <= a \div b
  <2>1. PICK q \in Int, r \in 0..b - 1 : q = a \div b /\ a = b * q + r
    BY <1>1
  <2>2. k * b < (q + 1) * b
    BY <1>2, <2>1
  <2>3. CASE q + 1 <= k
    <3>1. (q + 1) * b <= k * b
      BY <2>1, <2>3, Scaling
    <3> QED BY <2>2, <3>1, <2>1, Products
  <2> QED BY <2>1, <2>3
<1> QED BY <1>1, <1>2

(* A natural number is a multiple and a remainder.                         *)
LEMMA Remainder == \A a \in Nat : \A b \in Nat \ {0} : \E k \in Nat : a = b * k + (a % b)
<1> TAKE a \in Nat, b \in Nat \ {0}
<1>1. PICK q \in Int, r \in 0..b - 1 : q = a \div b /\ r = a % b /\ a = b * q + r
  OBVIOUS
<1>2. CASE q < 0
  <2>1. (q + 1) * b <= 0 * b
    BY <1>1, <1>2, Scaling
  <2>2. (q + 1) * b = b * q + b /\ 0 * b = 0
    BY <1>1
  <2>3. PICK m \in Int : m = b * q
    BY <1>1
  <2>4. m + b <= 0 /\ a = m + r
    BY <1>1, <2>1, <2>2, <2>3
  <2>5. FALSE
    BY ONLY <1>1, <2>3, <2>4
  <2> QED BY <2>5
<1>3. CASE q >= 0
  <2>1. q \in Nat /\ a = b * q + (a % b)
    BY <1>1, <1>3
  <2> QED BY ONLY <2>1
<1> QED BY <1>1, <1>2, <1>3

(* The greatest common divisor divides both.                               *)
LEMMA GcdDivides ==
  \A a, b \in Nat : \E g \in Nat \ {0} : \E q, r \in Nat :
      Gcd[<<a, b>>] = g /\ a = q * g /\ b = r * g
<1> DEFINE D == Nat \X Nat
           size == [p \in D |-> p[2]]
           V == Nat
           rest(p) == <<p[2], p[1] % p[2]>>
           below == [p \in D |-> IF p[2] > 0 THEN {rest(p)} ELSE {}]
           h == [p \in D |-> [f \in [below[p] -> V] |->
                   IF p[2] > 0 THEN f[rest(p)] ELSE IF p[1] > 0 THEN p[1] ELSE 1]]
<1>1. ASSUME NEW p \in D, p[2] > 0
      PROVE  rest(p) \in D /\ rest(p)[1] = p[2] /\ rest(p)[2] = p[1] % p[2] /\ p[1] % p[2] < p[2]
  <2>1. p[1] \in Nat /\ p[2] \in Nat \ {0}
    BY <1>1
  <2>2. PICK a \in Nat, b \in Nat \ {0} : a = p[1] /\ b = p[2]
    BY <2>1
  <2>3. a % b \in 0..b - 1
    BY ONLY <2>2
  <2>4. a % b \in Nat /\ a % b < b
    BY <2>2, <2>3
  <2> QED BY <2>1, <2>2, <2>4
<1>2. \E g : Solves(g, D, V, below, h)
  <2>1. size \in [D -> Nat]
    OBVIOUS
  <2>2. \A s \in D : \A t \in below[s] : t \in D /\ size[t] < size[s]
    BY <1>1
  <2>3. \A s \in D : h[s] \in [[below[s] -> V] -> V]
    OBVIOUS
  <2> HIDE DEF D, V, size, below, h
  <2> QED BY <2>1, <2>2, <2>3, Recursion DEF Founded
<1>3. PICK g : Solves(g, D, V, below, h)
  BY <1>2
<1>4. g = [p \in D |-> IF p[2] > 0 THEN g[rest(p)] ELSE IF p[1] > 0 THEN p[1] ELSE 1]
  <2>1. ASSUME NEW p \in D
        PROVE  g[p] = IF p[2] > 0 THEN g[rest(p)] ELSE IF p[1] > 0 THEN p[1] ELSE 1
    <3>1. g[p] = h[p][[t \in below[p] |-> g[t]]] /\ g \in [D -> V]
      BY <1>3 DEF Solves
    <3>2. \A t \in below[p] : t \in D
      BY <1>1
    <3>3. [t \in below[p] |-> g[t]] \in [below[p] -> V]
      BY <3>1, <3>2
    <3> QED BY <3>1, <3>3
  <2> QED BY <1>3, <2>1 DEF Solves
<1>5. Gcd = [p \in D |-> IF p[2] > 0 THEN Gcd[rest(p)] ELSE IF p[1] > 0 THEN p[1] ELSE 1]
  BY <1>4 DEF Gcd
<1> DEFINE P == {p \in D : \E c \in Nat \ {0} : \E q, r \in Nat :
                              Gcd[p] = c /\ p[1] = q * c /\ p[2] = r * c}
<1>6. ASSUME NEW p \in D, \A t \in D : size[t] < size[p] => t \in P PROVE p \in P
  <2>1. p[1] \in Nat /\ p[2] \in Nat
    OBVIOUS
  <2>2. CASE p[2] > 0
    <3>1. PICK c \in Nat \ {0}, q \in Nat, r \in Nat :
            Gcd[rest(p)] = c /\ p[2] = q * c /\ p[1] % p[2] = r * c
      <4>1. rest(p) \in D /\ size[rest(p)] < size[p]
        BY <1>1, <2>2
      <4>2. rest(p) \in P
        BY <1>6, <4>1
      <4>3. rest(p)[1] = p[2] /\ rest(p)[2] = p[1] % p[2]
        OBVIOUS
      <4> HIDE DEF rest
      <4> QED BY <4>2, <4>3
    <3>2. PICK a \in Int, b \in Nat \ {0} : a = p[1] /\ b = p[2]
      BY <2>1, <2>2
    <3>3. PICK k \in Nat : p[1] = p[2] * k + (p[1] % p[2])
      <4>1. a \in Nat
        BY <2>1, <3>2
      <4>2. \E k \in Nat : a = b * k + (a % b)
        BY ONLY <3>2, <4>1, Remainder
      <4> QED BY <3>2, <4>2
    <3>4. p[1] = (q * k + r) * c /\ q * k + r \in Nat
      <4>1. q * k \in Nat
        BY <3>1, <3>3, Products
      <4>2. p[1] = (q * c) * k + r * c
        BY <3>1, <3>3
      <4>3. (q * c) * k = (q * k) * c
        BY <3>1, <3>3
      <4>4. (q * k + r) * c = (q * k) * c + r * c
        BY <3>1, <4>1, Products
      <4> QED BY <4>1, <4>2, <4>3, <4>4
    <3>5. Gcd[p] = c
      BY <1>5, <2>2, <3>1
    <3> QED BY <3>1, <3>4, <3>5
  <2>3. CASE ~(p[2] > 0)
    <3>1. Gcd[p] = IF p[1] > 0 THEN p[1] ELSE 1
      BY <1>5, <2>3
    <3>2. p[2] = 0
      BY <2>1, <2>3
    <3>3. CASE p[1] > 0
      <4>1. p[1] = 1 * p[1] /\ p[2] = 0 * p[1] /\ Gcd[p] = p[1] /\ p[1] \in Nat \ {0}
        BY <2>1, <3>1, <3>2, <3>3
      <4> QED BY <4>1
    <3>4. CASE ~(p[1] > 0)
      <4>1. p[1] = 0 * 1 /\ p[2] = 0 * 1 /\ Gcd[p] = 1
        BY <2>1, <3>1, <3>2, <3>4
      <4> QED BY <4>1
    <3> QED BY <3>3, <3>4
  <2> QED BY <2>2, <2>3
<1>7. D \subseteq P
  <2>1. size \in [D -> Nat]
    OBVIOUS
  <2>2. \A s \in D : (\A t \in D : size[t] < size[s] => t \in P) => s \in P
    BY <1>6
  <2> HIDE DEF D, P, size
  <2> QED BY ONLY <2>1, <2>2, SizeInduction
<1>8. ASSUME NEW a \in Nat, NEW b \in Nat
      PROVE  \E c \in Nat \ {0} : \E q, r \in Nat : Gcd[<<a, b>>] = c /\ a = q * c /\ b = r * c
  <2>1. <<a, b>> \in P
    BY <1>7
  <2> QED BY <2>1
<1> QED BY <1>8

(* x is a reduced form of n over d.                                        *)
Fractions == Int \X (Nat \ {0})
Stands(x, n, d) == x \in Fractions /\ x[1] * d = n * x[2]

(* Dividing a multiple.                                                    *)
LEMMA ExactQuotient ==
  ASSUME NEW q \in Nat, NEW g \in Nat \ {0}
  PROVE  (q * g) \div g = q
<1>1. PICK a \in Nat : a = q * g
  BY Products
<1>2. PICK k \in Int, r \in 0..g - 1 : k = a \div g /\ a = g * k + r
  OBVIOUS
<1>3. CASE k < q
  <2>1. (k + 1) * g <= q * g
    BY <1>2, <1>3, Scaling
  <2>2. (k + 1) * g = g * k + g
    BY <1>2
  <2>3. PICK m \in Int : m = g * k
    BY <1>2
  <2>4. m + g <= a /\ a = m + r
    BY <1>1, <1>2, <2>1, <2>2, <2>3
  <2>5. FALSE
    BY ONLY <1>1, <1>2, <2>3, <2>4
  <2> QED BY <2>5
<1>4. CASE q < k
  <2>1. (q + 1) * g <= k * g
    BY <1>2, <1>4, Scaling
  <2>2. (q + 1) * g = q * g + g /\ k * g = g * k
    BY <1>2
  <2>3. PICK m \in Int : m = g * k
    BY <1>2
  <2>4. a + g <= m /\ a = m + r
    BY <1>1, <1>2, <2>1, <2>2, <2>3
  <2>5. FALSE
    BY ONLY <1>1, <1>2, <2>3, <2>4
  <2> QED BY <2>5
<1> QED BY <1>1, <1>2, <1>3, <1>4

(* A fraction stands for its numerator over its denominator (normalize).   *)
LEMMA FractionStands ==
  ASSUME NEW n \in Int, NEW d \in Nat \ {0}
  PROVE  Stands(Fraction(n, d), n, d)
<1>1. PICK a \in Nat : a = Magnitude(n) /\ (n < 0 => n = -a) /\ (n >= 0 => n = a)
  BY DEF Magnitude
<1>2. PICK g \in Nat \ {0}, q \in Nat, r \in Nat :
        Gcd[<<a, d>>] = g /\ a = q * g /\ d = r * g
  BY <1>1, GcdDivides
<1>3. a \div g = q /\ d \div g = r
  BY <1>2, ExactQuotient
<1>4. r # 0
  <2>1. 0 * g = 0
    BY <1>2
  <2> QED BY <1>2, <2>1
<1>5. PICK s \in Int : s = IF n < 0 THEN -q ELSE q
  BY <1>2
<1>6. Fraction(n, d) = <<s, r>>
  <2>1. Fraction(n, d) = <<IF n < 0 THEN -(a \div g) ELSE n \div g, d \div g>>
    BY <1>1, <1>2 DEF Fraction
  <2>2. (IF n < 0 THEN -(a \div g) ELSE n \div g) = s
    BY <1>1, <1>3, <1>5
  <2> QED BY <1>3, <2>1, <2>2
<1>7. s * d = n * r
  <2>1. q * d = a * r
    BY <1>2
  <2>2. CASE n < 0
    <3>1. s = -q /\ n = -a
      BY <1>1, <1>5, <2>2
    <3>2. (-q) * d = -(q * d) /\ (-a) * r = -(a * r)
      BY <1>1, <1>2
    <3> QED BY <2>1, <3>1, <3>2
  <2>3. CASE ~(n < 0)
    BY <1>1, <1>5, <2>1, <2>3
  <2> QED BY <2>2, <2>3
<1> QED BY <1>2, <1>4, <1>5, <1>6, <1>7 DEF Stands, Fractions

(* The order of fractions is that of what they stand for.                  *)
LEMMA StandsInOrder ==
  ASSUME NEW x, NEW n \in Int, NEW d \in Nat \ {0}, Stands(x, n, d),
         NEW y, NEW p \in Int, NEW q \in Nat \ {0}, Stands(y, p, q),
         n * q <= p * d
  PROVE  AtMost(x, y)
<1>1. PICK a \in Int, b \in Nat \ {0}, c \in Int, e \in Nat \ {0} :
        a = x[1] /\ b = x[2] /\ c = y[1] /\ e = y[2]
  BY DEF Stands, Fractions
<1>2. a * d = n * b /\ c * q = p * e
  BY <1>1 DEF Stands
<1>3. (a * e) * (d * q) = (n * q) * (b * e)
  <2>1. (a * e) * (d * q) = (a * d) * (e * q) /\ (n * b) * (e * q) = (n * q) * (b * e)
    BY <1>1
  <2> QED BY <1>2, <2>1
<1>4. (c * b) * (d * q) = (p * d) * (b * e)
  <2>1. (c * b) * (d * q) = (c * q) * (b * d) /\ (p * e) * (b * d) = (p * d) * (b * e)
    BY <1>1
  <2> QED BY <1>2, <2>1
<1>5. (n * q) * (b * e) <= (p * d) * (b * e)
  <2>1. n * q \in Int /\ p * d \in Int /\ b * e \in Nat
    BY <1>1, Products
  <2> QED BY <2>1, Scaling
<1>6. a * e <= c * b
  <2>1. a * e \in Int /\ c * b \in Int /\ d * q \in Nat \ {0}
    BY <1>1, Products
  <2>2. (a * e) * (d * q) <= (c * b) * (d * q)
    BY <1>3, <1>4, <1>5
  <2> QED BY ONLY <2>1, <2>2, Scaling
<1> QED BY <1>1, <1>6 DEF AtMost

(* Sums keep the order.                                                    *)
LEMMA PlusInOrder ==
  ASSUME NEW x \in Fractions, NEW y \in Fractions, NEW u \in Fractions, NEW v \in Fractions,
         AtMost(x, u), AtMost(y, v)
  PROVE  AtMost(Plus(x, y), Plus(u, v)) /\ Plus(x, y) \in Fractions /\ Plus(u, v) \in Fractions
<1>1. PICK a \in Int, b \in Nat \ {0}, c \in Int, d \in Nat \ {0} :
        x = <<a, b>> /\ y = <<c, d>>
  BY DEF Fractions
<1>2. PICK e \in Int, f \in Nat \ {0}, g \in Int, h \in Nat \ {0} :
        u = <<e, f>> /\ v = <<g, h>>
  BY DEF Fractions
<1>3. /\ Plus(x, y) = Fraction(a * d + c * b, b * d)
      /\ Plus(u, v) = Fraction(e * h + g * f, f * h)
  BY <1>1, <1>2 DEF Plus
<1>4. /\ a * d \in Int /\ c * b \in Int /\ e * h \in Int /\ g * f \in Int
      /\ b * d \in Nat \ {0} /\ f * h \in Nat \ {0}
  BY Products
<1>5. a * f <= e * b /\ c * h <= g * d
  BY <1>1, <1>2 DEF AtMost
<1>6. (a * f) * (d * h) <= (e * b) * (d * h) /\ (c * h) * (b * f) <= (g * d) * (b * f)
  <2>1. /\ a * f \in Int /\ e * b \in Int /\ c * h \in Int /\ g * d \in Int
        /\ d * h \in Nat /\ b * f \in Nat
    BY Products
  <2> QED BY <1>5, <2>1, Scaling
<1>7. (a * d + c * b) * (f * h) <= (e * h + g * f) * (b * d)
  <2>1. (a * d + c * b) * (f * h) = (a * f) * (d * h) + (c * h) * (b * f)
    OBVIOUS
  <2>2. (e * h + g * f) * (b * d) = (e * b) * (d * h) + (g * d) * (b * f)
    OBVIOUS
  <2>3. /\ (a * f) * (d * h) \in Int /\ (c * h) * (b * f) \in Int
        /\ (e * b) * (d * h) \in Int /\ (g * d) * (b * f) \in Int
    BY Products
  <2> QED BY <1>6, <2>1, <2>2, <2>3
<1>8. PICK n \in Int, m \in Nat \ {0}, p \in Int, q \in Nat \ {0} :
        n = a * d + c * b /\ m = b * d /\ p = e * h + g * f /\ q = f * h
  BY <1>4
<1>9. Stands(Plus(x, y), n, m) /\ Stands(Plus(u, v), p, q) /\ n * q <= p * m
  BY <1>3, <1>7, <1>8, FractionStands
<1> QED BY <1>9, StandsInOrder DEF Stands

(* Products with a fraction that is not negative keep the order.           *)
LEMMA TimesInOrder ==
  ASSUME NEW x \in Fractions, NEW u \in Fractions, AtMost(x, u),
         NEW k \in Nat, NEW l \in Nat \ {0}
  PROVE  /\ AtMost(Times(x, <<k, l>>), Times(u, <<k, l>>))
         /\ Times(x, <<k, l>>) \in Fractions /\ Times(u, <<k, l>>) \in Fractions
<1>1. PICK a \in Int, b \in Nat \ {0}, e \in Int, f \in Nat \ {0} :
        x = <<a, b>> /\ u = <<e, f>>
  BY DEF Fractions
<1>2. /\ Times(x, <<k, l>>) = Fraction(a * k, b * l)
      /\ Times(u, <<k, l>>) = Fraction(e * k, f * l)
  BY <1>1 DEF Times
<1>3. a * k \in Int /\ e * k \in Int /\ b * l \in Nat \ {0} /\ f * l \in Nat \ {0}
  BY Products
<1>4. (a * k) * (f * l) <= (e * k) * (b * l)
  <2>1. a * f <= e * b
    BY <1>1 DEF AtMost
  <2>2. a * f \in Int /\ e * b \in Int /\ k * l \in Nat
    BY Products
  <2>3. (a * f) * (k * l) <= (e * b) * (k * l)
    BY <2>1, <2>2, Scaling
  <2>4. (a * k) * (f * l) = (a * f) * (k * l) /\ (e * k) * (b * l) = (e * b) * (k * l)
    OBVIOUS
  <2> QED BY <2>3, <2>4
<1>5. PICK n \in Int, m \in Nat \ {0}, p \in Int, q \in Nat \ {0} :
        n = a * k /\ m = b * l /\ p = e * k /\ q = f * l
  BY <1>3
<1>6. /\ Stands(Times(x, <<k, l>>), n, m) /\ Stands(Times(u, <<k, l>>), p, q)
      /\ n * q <= p * m
  BY <1>2, <1>4, <1>5, FractionStands
<1> QED BY <1>6, StandsInOrder DEF Stands

(* Clamping keeps the order.                                               *)
LEMMA ClampInOrder ==
  ASSUME NEW x \in Fractions, NEW u \in Fractions, AtMost(x, u)
  PROVE  AtMost(Clamped(x), Clamped(u)) /\ Clamped(x) \in Fractions /\ Clamped(u) \in Fractions
<1>1. PICK a \in Int, b \in Nat \ {0}, e \in Int, f \in Nat \ {0} :
        x = <<a, b>> /\ u = <<e, f>>
  BY DEF Fractions
<1>2. a * f <= e * b
  BY <1>1 DEF AtMost
<1>3. Clamped(x) = (IF a <= 0 THEN Zero ELSE IF b <= a THEN One ELSE x)
  BY <1>1 DEF Clamped, AtMost, Zero, One
<1>4. Clamped(u) = (IF e <= 0 THEN Zero ELSE IF f <= e THEN One ELSE u)
  BY <1>1 DEF Clamped, AtMost, Zero, One
<1>5. Zero \in Fractions /\ One \in Fractions
  BY DEF Zero, One, Fractions
<1>6. CASE a <= 0
  <2>1. AtMost(Zero, Zero) /\ AtMost(Zero, One) /\ (~(e <= 0) => AtMost(Zero, u))
    BY <1>1 DEF AtMost, Zero, One
  <2> QED BY <1>3, <1>4, <1>5, <1>6, <2>1
<1>7. CASE ~(a <= 0)
  <2>1. ~(e <= 0)
    <3>1. SUFFICES ASSUME e <= 0 PROVE FALSE
      OBVIOUS
    <3>2. e * b <= 0 * b
      BY <3>1, Scaling
    <3>3. a * f \in Nat \ {0} /\ 0 * b = 0 /\ e * b \in Int
      <4>1. a \in Nat \ {0}
        BY <1>7
      <4> QED BY <4>1, Products
    <3> QED BY <1>2, <3>2, <3>3
  <2>2. CASE b <= a
    <3>1. b * f <= a * f
      BY <2>2, Scaling
    <3>2. f * b <= e * b
      <4>1. b * f \in Int /\ a * f \in Int /\ e * b \in Int /\ f * b = b * f
        BY Products
      <4> QED BY <1>2, <3>1, <4>1
    <3>3. f <= e
      BY <3>2, Scaling
    <3>4. AtMost(One, One)
      BY DEF AtMost, One
    <3> QED BY <1>3, <1>4, <1>5, <1>7, <2>1, <2>2, <3>3, <3>4
  <2>3. CASE ~(b <= a)
    <3>1. AtMost(x, One)
      BY <1>1, <2>3 DEF AtMost, One
    <3> QED BY <1>3, <1>4, <1>5, <1>7, <2>1, <2>3, <3>1
  <2> QED BY <2>2, <2>3
<1> QED BY <1>6, <1>7

(* Rounding keeps the order.                                               *)
LEMMA RoundInOrder ==
  ASSUME NEW x \in Fractions, NEW u \in Fractions, AtMost(x, u)
  PROVE  Rounded(x) \in Int /\ Rounded(u) \in Int /\ Rounded(x) <= Rounded(u)
<1>1. PICK a \in Int, b \in Nat \ {0}, e \in Int, f \in Nat \ {0} :
        x = <<a, b>> /\ u = <<e, f>>
  BY DEF Fractions
<1>2. a * f <= e * b
  BY <1>1 DEF AtMost
<1>3. PICK n \in Int, d \in Nat \ {0}, p \in Int, q \in Nat \ {0} :
        n = 2 * a + b /\ d = 2 * b /\ p = 2 * e + f /\ q = 2 * f
  OBVIOUS
<1>4. Rounded(x) = n \div d /\ Rounded(u) = p \div q
  BY <1>1, <1>3 DEF Rounded
<1>5. PICK k \in Int, r \in 0..d - 1 : k = n \div d /\ n = d * k + r
  OBVIOUS
<1>6. PICK j \in Int, s \in 0..q - 1 : j = p \div q /\ p = q * j + s
  OBVIOUS
<1>7. n * q <= p * d
  <2>1. n * q = 4 * (a * f) + 2 * (b * f) /\ p * d = 4 * (e * b) + 2 * (b * f)
    BY <1>3
  <2>2. a * f \in Int /\ b * f \in Int /\ e * b \in Int
    BY Products
  <2> QED BY <1>2, <2>1, <2>2
<1>8. k <= j
  <2> SUFFICES ASSUME j + 1 <= k PROVE FALSE
    BY <1>5, <1>6
  <2>1. PICK m \in Int, w \in Int : m = d * k /\ w = q * j
    BY <1>5, <1>6
  <2>2. m * q <= n * q
    BY <1>5, <2>1, Scaling
  <2>3. p < w + q
    BY <1>6, <2>1
  <2>4. p * d < (w + q) * d
    <3>1. (p + 1) * d <= (w + q) * d
      BY <2>3, Scaling
    <3>2. (p + 1) * d = p * d + d /\ p * d \in Int /\ (w + q) * d \in Int
      BY <2>1, Products
    <3> QED BY <3>1, <3>2
  <2>5. (w + q) * d = (j + 1) * (q * d) /\ m * q = k * (q * d)
    BY <2>1
  <2>6. (j + 1) * (q * d) <= k * (q * d)
    <3>1. q * d \in Nat
      BY Products
    <3> QED BY <3>1, <1>5, <1>6, Scaling
  <2>7. m * q \in Int /\ n * q \in Int /\ p * d \in Int /\ (w + q) * d \in Int
    BY <2>1, Products
  <2> QED BY <1>7, <2>2, <2>4, <2>5, <2>6, <2>7
<1> QED BY <1>4, <1>5, <1>6, <1>8

-----------------------------------------------------------------------------
(* Both are fractions, in order.                                           *)
InOrder(x, u) == x \in Fractions /\ u \in Fractions /\ AtMost(x, u)

(* What has more in its favour and less against it has the greater share.  *)
LEMMA ShareInOrder ==
  ASSUME NEW w \in Nat, NEW l \in Nat, NEW s \in Nat, NEW t \in Nat, w <= s, t <= l,
         NEW n, NEW p, n = w + l, p = s + t
  PROVE  InOrder(Share(w, n), Share(s, p))
<1>1. Stands(Half, 1, 2)
  BY DEF Half, Stands, Fractions
<1>2. CASE n # 0 /\ p # 0
  <2>1. w * p <= s * n
    <3>1. w * t <= s * t /\ s * t <= s * l
      <4>1. t * s <= l * s /\ t * s = s * t /\ l * s = s * l
        BY Scaling, Products
      <4> QED BY <4>1, Scaling
    <3>2. w * p = w * s + w * t /\ s * n = w * s + s * l
      OBVIOUS
    <3>3. w * t \in Nat /\ s * t \in Nat /\ s * l \in Nat /\ w * s \in Nat
      BY Products
    <3> QED BY <3>1, <3>2, <3>3
  <2>2. n \in Nat \ {0} /\ p \in Nat \ {0}
    BY <1>2
  <2>3. /\ Share(w, n) = Fraction(w, n) /\ Stands(Fraction(w, n), w, n)
        /\ Share(s, p) = Fraction(s, p) /\ Stands(Fraction(s, p), s, p)
    BY <1>2, <2>2, FractionStands DEF Share
  <2>4. PICK x, y : x = Share(w, n) /\ y = Share(s, p)
    OBVIOUS
  <2>5. Stands(x, w, n) /\ Stands(y, s, p) /\ w \in Int /\ s \in Int
    BY <2>3, <2>4
  <2>6. AtMost(x, y)
    BY ONLY <2>1, <2>2, <2>5, StandsInOrder
  <2> QED BY <2>4, <2>5, <2>6 DEF Stands, InOrder
<1>3. CASE n = 0 /\ p # 0
  <2>1. p \in Nat \ {0} /\ p = s /\ 1 * p <= s * 2
    BY <1>3
  <2>2. Share(w, n) = Half /\ Share(s, p) = Fraction(s, p) /\ Stands(Fraction(s, p), s, p)
    BY <1>3, <2>1, FractionStands DEF Share
  <2>3. PICK x, y : x = Share(w, n) /\ y = Share(s, p)
    OBVIOUS
  <2>4. Stands(x, 1, 2) /\ Stands(y, s, p) /\ s \in Int
    BY <1>1, <2>2, <2>3
  <2>5. AtMost(x, y)
    BY ONLY <2>1, <2>4, StandsInOrder
  <2> QED BY <2>3, <2>4, <2>5 DEF Stands, InOrder
<1>4. CASE n # 0 /\ p = 0
  <2>1. n \in Nat \ {0} /\ w = 0 /\ w * 2 <= 1 * n
    BY <1>4
  <2>2. Share(s, p) = Half /\ Share(w, n) = Fraction(w, n) /\ Stands(Fraction(w, n), w, n)
    BY <1>4, <2>1, FractionStands DEF Share
  <2> QED BY <1>1, <2>1, <2>2, StandsInOrder DEF Stands, InOrder
<1>5. CASE n = 0 /\ p = 0
  <2>1. Share(w, n) = Half /\ Share(s, p) = Half /\ AtMost(Half, Half)
    BY <1>5 DEF Share, AtMost, Half
  <2> QED BY <1>1, <2>1 DEF Stands, InOrder
<1> QED BY <1>2, <1>3, <1>4, <1>5

(* Per round, more is more.                                                *)
LEMMA PerRound ==
  ASSUME NEW n \in Int, NEW p \in Int, n <= p, NEW d \in Nat \ {0}
  PROVE  InOrder(Fraction(n, d), Fraction(p, d))
<1>1. n * d <= p * d
  BY Scaling
<1>2. Stands(Fraction(n, d), n, d) /\ Stands(Fraction(p, d), p, d)
  BY FractionStands
<1> QED BY <1>1, <1>2, StandsInOrder DEF Stands, InOrder

-----------------------------------------------------------------------------
(***************************************************************************)
(* RatingRules: what a play does to a rating                               *)
(***************************************************************************)

(* In the counts n the local player did at least as well as in m.          *)
AtLeastAsGood(m, n) ==
  /\ m.rounds \in Nat \ {0} /\ n.rounds = m.rounds
  /\ \A c \in {"damage", "utility", "trades", "flashes", "wins", "clutchWins"} :
        m[c] \in Nat /\ n[c] \in Nat /\ m[c] <= n[c]
  /\ m.kills \in Nat /\ m.deaths \in Nat /\ n.kills \in Nat /\ n.deaths \in Nat
  /\ m.kills - m.deaths <= n.kills - n.deaths
  /\ m.losses \in Nat /\ n.losses \in Nat /\ n.losses <= m.losses
  /\ m.clutches - m.clutchWins \in Nat /\ n.clutches - n.clutchWins \in Nat
  /\ m.clutches \in Nat /\ n.clutches \in Nat
  /\ n.clutches - n.clutchWins <= m.clutches - m.clutchWins

(* The clamped value of a count per round.                                 *)
LEMMA ClampedPerRound ==
  ASSUME NEW n \in Int, NEW p \in Int, n <= p, NEW d \in Nat \ {0}
  PROVE  InOrder(Clamped(Fraction(n, d)), Clamped(Fraction(p, d)))
BY PerRound, ClampInOrder DEF InOrder

(* No component is lower (component_vector).                               *)
LEMMA ComponentsInOrder ==
  ASSUME NEW m, NEW n, AtLeastAsGood(m, n)
  PROVE  \A c \in {"damage", "frags", "openings", "trades", "utility", "clutches"} :
            InOrder(Components(m)[c], Components(n)[c])
<1>1. PICK r \in Nat \ {0} : r = m.rounds /\ r = n.rounds
  BY DEF AtLeastAsGood
<1>2. 160 * r \in Nat \ {0} /\ 2 * r \in Nat \ {0} /\ 30 * r \in Nat \ {0}
  OBVIOUS
<1>3. \A c \in {"damage", "utility", "trades", "flashes", "wins", "clutchWins"} :
         m[c] \in Nat /\ n[c] \in Nat /\ m[c] <= n[c]
  BY DEF AtLeastAsGood
<1>4. InOrder(Clamped(Fraction(m.damage, 160 * r)), Clamped(Fraction(n.damage, 160 * r)))
  <2>1. m.damage \in Int /\ n.damage \in Int /\ m.damage <= n.damage
    BY <1>3
  <2> QED BY <1>2, <2>1, ClampedPerRound
<1>5. InOrder(Clamped(Plus(Half, Fraction(m.kills - m.deaths, 2 * r))),
              Clamped(Plus(Half, Fraction(n.kills - n.deaths, 2 * r))))
  <2>1. PICK k \in Int, l \in Int : k = m.kills - m.deaths /\ l = n.kills - n.deaths /\ k <= l
    BY DEF AtLeastAsGood
  <2>2. InOrder(Fraction(k, 2 * r), Fraction(l, 2 * r))
    BY <1>2, <2>1, PerRound
  <2>3. Half \in Fractions /\ AtMost(Half, Half)
    BY DEF Half, Fractions, AtMost
  <2>4. InOrder(Plus(Half, Fraction(k, 2 * r)), Plus(Half, Fraction(l, 2 * r)))
    BY <2>2, <2>3, PlusInOrder DEF InOrder
  <2>5. InOrder(Clamped(Plus(Half, Fraction(k, 2 * r))), Clamped(Plus(Half, Fraction(l, 2 * r))))
    BY <2>4, ClampInOrder DEF InOrder
  <2> QED BY <2>1, <2>5
<1>6. InOrder(Share(m.wins, m.wins + m.losses), Share(n.wins, n.wins + n.losses))
  <2>1. /\ m.wins \in Nat /\ n.wins \in Nat /\ m.wins <= n.wins
        /\ m.losses \in Nat /\ n.losses \in Nat /\ n.losses <= m.losses
    BY <1>3 DEF AtLeastAsGood
  <2> QED BY <2>1, ShareInOrder
<1>7. InOrder(TradeRate(m), TradeRate(n))
  <2>1. PICK k \in Int, l \in Int : k = 2 * m.trades /\ l = 2 * n.trades /\ k <= l
    BY <1>3
  <2> QED BY <1>1, <2>1, ClampedPerRound DEF TradeRate
<1>8. InOrder(Plus(Times(Clamped(Fraction(m.utility, 30 * r)), <<7, 10>>),
                   Times(Clamped(Fraction(2 * m.flashes, r)), <<3, 10>>)),
              Plus(Times(Clamped(Fraction(n.utility, 30 * r)), <<7, 10>>),
                   Times(Clamped(Fraction(2 * n.flashes, r)), <<3, 10>>)))
  <2>1. PICK k \in Int, l \in Int : k = 2 * m.flashes /\ l = 2 * n.flashes /\ k <= l
    BY <1>3
  <2>2. m.utility \in Int /\ n.utility \in Int /\ m.utility <= n.utility
    BY <1>3
  <2>3. PICK x, u, y, v :
          /\ x = Clamped(Fraction(m.utility, 30 * r)) /\ u = Clamped(Fraction(n.utility, 30 * r))
          /\ y = Clamped(Fraction(k, r)) /\ v = Clamped(Fraction(l, r))
    OBVIOUS
  <2>4. InOrder(x, u) /\ InOrder(y, v)
    BY <1>2, <2>1, <2>2, <2>3, ClampedPerRound
  <2>5. InOrder(Times(x, <<7, 10>>), Times(u, <<7, 10>>)) /\ InOrder(Times(y, <<3, 10>>), Times(v, <<3, 10>>))
    BY <2>4, TimesInOrder DEF InOrder
  <2>6. InOrder(Plus(Times(x, <<7, 10>>), Times(y, <<3, 10>>)),
                Plus(Times(u, <<7, 10>>), Times(v, <<3, 10>>)))
    BY <2>5, PlusInOrder DEF InOrder
  <2> QED BY <2>1, <2>3, <2>6
<1>9. InOrder(Share(m.clutchWins, m.clutches), Share(n.clutchWins, n.clutches))
  <2>1. PICK k \in Nat, l \in Nat : k = m.clutches - m.clutchWins /\ l = n.clutches - n.clutchWins /\ l <= k
    BY DEF AtLeastAsGood
  <2>2. /\ m.clutchWins \in Nat /\ n.clutchWins \in Nat /\ m.clutchWins <= n.clutchWins
        /\ m.clutches = m.clutchWins + k /\ n.clutches = n.clutchWins + l
    BY <1>3, <2>1 DEF AtLeastAsGood
  <2> QED BY <2>1, <2>2, ShareInOrder
<1>10. /\ Components(m).damage = Clamped(Fraction(m.damage, 160 * r))
       /\ Components(n).damage = Clamped(Fraction(n.damage, 160 * r))
       /\ Components(m).frags = Clamped(Plus(Half, Fraction(m.kills - m.deaths, 2 * r)))
       /\ Components(n).frags = Clamped(Plus(Half, Fraction(n.kills - n.deaths, 2 * r)))
       /\ Components(m).openings = Share(m.wins, m.wins + m.losses)
       /\ Components(n).openings = Share(n.wins, n.wins + n.losses)
       /\ Components(m).trades = TradeRate(m) /\ Components(n).trades = TradeRate(n)
  BY <1>1 DEF Components
<1>11. /\ Components(m).utility = Plus(Times(Clamped(Fraction(m.utility, 30 * r)), <<7, 10>>),
                                       Times(Clamped(Fraction(2 * m.flashes, r)), <<3, 10>>))
       /\ Components(n).utility = Plus(Times(Clamped(Fraction(n.utility, 30 * r)), <<7, 10>>),
                                       Times(Clamped(Fraction(2 * n.flashes, r)), <<3, 10>>))
       /\ Components(m).clutches = Share(m.clutchWins, m.clutches)
       /\ Components(n).clutches = Share(n.clutchWins, n.clutches)
  BY <1>1 DEF Components
<1> QED BY <1>4, <1>5, <1>6, <1>7, <1>8, <1>9, <1>10, <1>11

(* Nor is the rating (weighted_rating).                                    *)
LEMMA BasisPointsInOrder ==
  ASSUME NEW m, NEW n, AtLeastAsGood(m, n)
  PROVE  BasisPoints(m) \in Int /\ BasisPoints(n) \in Int /\ BasisPoints(m) <= BasisPoints(n)
<1>1. PICK c, e : c = Components(m) /\ e = Components(n)
  OBVIOUS
<1>2. /\ InOrder(c.damage, e.damage) /\ InOrder(c.frags, e.frags) /\ InOrder(c.openings, e.openings)
      /\ InOrder(c.trades, e.trades) /\ InOrder(c.utility, e.utility) /\ InOrder(c.clutches, e.clutches)
  BY <1>1, ComponentsInOrder
<1>3. \A x, u : InOrder(x, u) => \A k \in Nat, l \in Nat \ {0} : InOrder(Times(x, <<k, l>>), Times(u, <<k, l>>))
  BY TimesInOrder DEF InOrder
<1>4. \A x, u, y, v : InOrder(x, u) /\ InOrder(y, v) => InOrder(Plus(x, y), Plus(u, v))
  BY PlusInOrder DEF InOrder
<1>5. /\ InOrder(Times(c.damage, <<3, 10>>), Times(e.damage, <<3, 10>>))
      /\ InOrder(Times(c.frags, <<3, 10>>), Times(e.frags, <<3, 10>>))
      /\ InOrder(Times(c.openings, <<3, 20>>), Times(e.openings, <<3, 20>>))
      /\ InOrder(Times(c.trades, <<1, 10>>), Times(e.trades, <<1, 10>>))
      /\ InOrder(Times(c.utility, <<1, 10>>), Times(e.utility, <<1, 10>>))
      /\ InOrder(Times(c.clutches, <<1, 20>>), Times(e.clutches, <<1, 20>>))
  BY <1>2, <1>3
<1>6. /\ InOrder(Plus(Times(c.damage, <<3, 10>>), Times(c.frags, <<3, 10>>)),
                 Plus(Times(e.damage, <<3, 10>>), Times(e.frags, <<3, 10>>)))
      /\ InOrder(Plus(Times(c.openings, <<3, 20>>), Times(c.trades, <<1, 10>>)),
                 Plus(Times(e.openings, <<3, 20>>), Times(e.trades, <<1, 10>>)))
      /\ InOrder(Plus(Times(c.utility, <<1, 10>>), Times(c.clutches, <<1, 20>>)),
                 Plus(Times(e.utility, <<1, 10>>), Times(e.clutches, <<1, 20>>)))
  BY <1>4, <1>5
<1>7. PICK sum, total :
        /\ sum = Plus(Plus(Plus(Times(c.damage, <<3, 10>>), Times(c.frags, <<3, 10>>)),
                           Plus(Times(c.openings, <<3, 20>>), Times(c.trades, <<1, 10>>))),
                      Plus(Times(c.utility, <<1, 10>>), Times(c.clutches, <<1, 20>>)))
        /\ total = Plus(Plus(Plus(Times(e.damage, <<3, 10>>), Times(e.frags, <<3, 10>>)),
                             Plus(Times(e.openings, <<3, 20>>), Times(e.trades, <<1, 10>>))),
                        Plus(Times(e.utility, <<1, 10>>), Times(e.clutches, <<1, 20>>)))
  OBVIOUS
<1>8. InOrder(sum, total)
  BY <1>4, <1>6, <1>7
<1>9. Weighted(c) = Times(sum, <<2, 1>>) /\ Weighted(e) = Times(total, <<2, 1>>)
  BY <1>7 DEF Weighted
<1>10. InOrder(Times(Weighted(c), <<10000, 1>>), Times(Weighted(e), <<10000, 1>>))
  BY <1>3, <1>8, <1>9
<1>11. /\ BasisPoints(m) = Rounded(Times(Weighted(c), <<10000, 1>>))
       /\ BasisPoints(n) = Rounded(Times(Weighted(e), <<10000, 1>>))
  BY <1>1 DEF BasisPoints
<1> QED BY <1>10, <1>11, RoundInOrder DEF InOrder

(* Counts are natural numbers, and no more clutches are won than played.   *)
RatingInv ==
  /\ metrics \in [Counts \cup {"rounds", "plays"} -> Nat]
  /\ metrics.clutchWins <= metrics.clutches

(* A match starts with no plays.                                           *)
LEMMA RatingInvInit == RatingInit => RatingInv
<1> SUFFICES ASSUME RatingInit PROVE RatingInv
  OBVIOUS
<1>1. PICK rounds \in RoundCounts :
        metrics = [c \in Counts \cup {"rounds", "plays"} |-> IF c = "rounds" THEN rounds ELSE 0]
  BY DEF RatingInit
<1>2. rounds \in Nat
  BY RatingAssumption
<1> QED BY <1>1, <1>2 DEF RatingInv, Counts

(* What a play adds to each count; a gain is nothing against the player.   *)
LEMMA PlayCounts ==
  ASSUME RatingInv, NEW gain, Play(gain), \A c \in DOMAIN gain : gain[c] \in Nat,
         "plays" \notin DOMAIN gain, "rounds" \notin DOMAIN gain
  PROVE  /\ metrics' \in [Counts \cup {"rounds", "plays"} -> Nat]
         /\ metrics'.rounds = metrics.rounds /\ flags' = flags
         /\ \A c \in Counts : metrics'[c] = metrics[c] + (IF c \in DOMAIN gain THEN gain[c] ELSE 0)
<1>1. /\ DOMAIN metrics = Counts \cup {"rounds", "plays"} /\ flags' = flags
      /\ metrics' = [c \in DOMAIN metrics |->
                        IF c \in DOMAIN gain THEN metrics[c] + gain[c]
                        ELSE IF c = "plays" THEN metrics.plays + 1 ELSE metrics[c]]
  BY DEF Play, RatingInv
<1>2. \A c \in Counts \cup {"rounds", "plays"} : metrics[c] \in Nat
  BY DEF RatingInv
<1>3. ASSUME NEW c \in Counts \cup {"rounds", "plays"}
      PROVE  metrics'[c] \in Nat
  <2>1. metrics'[c] = IF c \in DOMAIN gain THEN metrics[c] + gain[c]
                      ELSE IF c = "plays" THEN metrics.plays + 1 ELSE metrics[c]
    BY <1>1
  <2>2. metrics[c] \in Nat /\ metrics["plays"] \in Nat
    BY <1>2
  <2> QED BY <2>1, <2>2
<1>4. ASSUME NEW c \in Counts
      PROVE  metrics'[c] = metrics[c] + (IF c \in DOMAIN gain THEN gain[c] ELSE 0)
  <2>1. c # "plays" /\ metrics[c] \in Nat /\ c \in DOMAIN metrics
    BY <1>1, <1>2 DEF Counts
  <2> QED BY <1>1, <2>1
<1>5. metrics'.rounds = metrics.rounds
  BY <1>1
<1> QED BY <1>1, <1>3, <1>4, <1>5

(* The same, as one relation.                                              *)
Counted(gain) ==
  /\ metrics' \in [Counts \cup {"rounds", "plays"} -> Nat]
  /\ metrics'.rounds = metrics.rounds /\ flags' = flags
  /\ \A c \in Counts : metrics'[c] = metrics[c] + (IF c \in DOMAIN gain THEN gain[c] ELSE 0)

(* Every play is counted.                                                  *)
LEMMA PlaysCounted ==
  ASSUME RatingInv
  PROVE  /\ Hit => Counted([damage |-> 160])
         /\ Burn => Counted([utility |-> 30])
         /\ Frag => Counted([kills |-> 1])
         /\ TradeFrag => Counted([kills |-> 1, trades |-> 1])
         /\ OpeningFrag => Counted([kills |-> 1, wins |-> 1])
         /\ Flash => Counted([flashes |-> 1])
         /\ ClutchWon => Counted([clutches |-> 1, clutchWins |-> 1])
         /\ Death => Counted([deaths |-> 1])
         /\ OpeningDeath => Counted([deaths |-> 1, losses |-> 1])
         /\ ClutchLost => Counted([clutches |-> 1])
<1>1. ASSUME Hit PROVE Counted([damage |-> 160])
  <2>1. PICK gain : gain = [damage |-> 160]
    OBVIOUS
  <2>2. DOMAIN gain = {"damage"} /\ \A c \in DOMAIN gain : gain[c] \in Nat
    BY <2>1
  <2>3. Play(gain)
    BY <1>1, <2>1 DEF Hit
  <2> QED BY <2>1, <2>2, <2>3, PlayCounts DEF Counted
<1>2. ASSUME Burn PROVE Counted([utility |-> 30])
  <2>1. PICK gain : gain = [utility |-> 30]
    OBVIOUS
  <2>2. DOMAIN gain = {"utility"} /\ \A c \in DOMAIN gain : gain[c] \in Nat
    BY <2>1
  <2>3. Play(gain)
    BY <1>2, <2>1 DEF Burn
  <2> QED BY <2>1, <2>2, <2>3, PlayCounts DEF Counted
<1>3. ASSUME Frag PROVE Counted([kills |-> 1])
  <2>1. PICK gain : gain = [kills |-> 1]
    OBVIOUS
  <2>2. DOMAIN gain = {"kills"} /\ \A c \in DOMAIN gain : gain[c] \in Nat
    BY <2>1
  <2>3. Play(gain)
    BY <1>3, <2>1 DEF Frag
  <2> QED BY <2>1, <2>2, <2>3, PlayCounts DEF Counted
<1>4. ASSUME TradeFrag PROVE Counted([kills |-> 1, trades |-> 1])
  <2>1. PICK gain : gain = [kills |-> 1, trades |-> 1]
    OBVIOUS
  <2>2. DOMAIN gain = {"kills", "trades"} /\ \A c \in DOMAIN gain : gain[c] \in Nat
    BY <2>1
  <2>3. Play(gain)
    BY <1>4, <2>1 DEF TradeFrag
  <2> QED BY <2>1, <2>2, <2>3, PlayCounts DEF Counted
<1>5. ASSUME OpeningFrag PROVE Counted([kills |-> 1, wins |-> 1])
  <2>1. PICK gain : gain = [kills |-> 1, wins |-> 1]
    OBVIOUS
  <2>2. DOMAIN gain = {"kills", "wins"} /\ \A c \in DOMAIN gain : gain[c] \in Nat
    BY <2>1
  <2>3. Play(gain)
    BY <1>5, <2>1 DEF OpeningFrag
  <2> QED BY <2>1, <2>2, <2>3, PlayCounts DEF Counted
<1>6. ASSUME Flash PROVE Counted([flashes |-> 1])
  <2>1. PICK gain : gain = [flashes |-> 1]
    OBVIOUS
  <2>2. DOMAIN gain = {"flashes"} /\ \A c \in DOMAIN gain : gain[c] \in Nat
    BY <2>1
  <2>3. Play(gain)
    BY <1>6, <2>1 DEF Flash
  <2> QED BY <2>1, <2>2, <2>3, PlayCounts DEF Counted
<1>7. ASSUME ClutchWon PROVE Counted([clutches |-> 1, clutchWins |-> 1])
  <2>1. PICK gain : gain = [clutches |-> 1, clutchWins |-> 1]
    OBVIOUS
  <2>2. DOMAIN gain = {"clutches", "clutchWins"} /\ \A c \in DOMAIN gain : gain[c] \in Nat
    BY <2>1
  <2>3. Play(gain)
    BY <1>7, <2>1 DEF ClutchWon
  <2> QED BY <2>1, <2>2, <2>3, PlayCounts DEF Counted
<1>8. ASSUME Death PROVE Counted([deaths |-> 1])
  <2>1. PICK gain : gain = [deaths |-> 1]
    OBVIOUS
  <2>2. DOMAIN gain = {"deaths"} /\ \A c \in DOMAIN gain : gain[c] \in Nat
    BY <2>1
  <2>3. Play(gain)
    BY <1>8, <2>1 DEF Death
  <2> QED BY <2>1, <2>2, <2>3, PlayCounts DEF Counted
<1>9. ASSUME OpeningDeath PROVE Counted([deaths |-> 1, losses |-> 1])
  <2>1. PICK gain : gain = [deaths |-> 1, losses |-> 1]
    OBVIOUS
  <2>2. DOMAIN gain = {"deaths", "losses"} /\ \A c \in DOMAIN gain : gain[c] \in Nat
    BY <2>1
  <2>3. Play(gain)
    BY <1>9, <2>1 DEF OpeningDeath
  <2> QED BY <2>1, <2>2, <2>3, PlayCounts DEF Counted
<1>10. ASSUME ClutchLost PROVE Counted([clutches |-> 1])
  <2>1. PICK gain : gain = [clutches |-> 1]
    OBVIOUS
  <2>2. DOMAIN gain = {"clutches"} /\ \A c \in DOMAIN gain : gain[c] \in Nat
    BY <2>1
  <2>3. Play(gain)
    BY <1>10, <2>1 DEF ClutchLost
  <2> QED BY <2>1, <2>2, <2>3, PlayCounts DEF Counted
<1> QED BY <1>1, <1>2, <1>3, <1>4, <1>5, <1>6, <1>7, <1>8, <1>9, <1>10

(* What a play does to the player's record.                                *)
LEMMA PlayInOrder ==
  ASSUME RatingInv, RatingNext
  PROVE  /\ RatingInv' /\ flags' = flags /\ metrics'.rounds = metrics.rounds
         /\ metrics.rounds # 0 => /\ Gains => AtLeastAsGood(metrics, metrics')
                                  /\ Losses => AtLeastAsGood(metrics', metrics)
<1>1. /\ \A c \in Counts : metrics[c] \in Nat /\ metrics.rounds \in Nat
      /\ metrics.clutchWins <= metrics.clutches
  BY DEF RatingInv
<1> DEFINE done(better, gain) ==
             /\ Counted(gain)
             /\ \A c \in Counts : metrics'[c] \in Nat
             /\ metrics'.clutchWins <= metrics'.clutches
             /\ metrics.rounds # 0 =>
                  IF better THEN AtLeastAsGood(metrics, metrics') ELSE AtLeastAsGood(metrics', metrics)
<1>2. ASSUME Hit PROVE done(TRUE, [damage |-> 160])
  <2>1. Counted([damage |-> 160])
    BY <1>2, PlaysCounted
  <2>2. /\ metrics'.damage = metrics.damage + 160
        /\ \A c \in {"kills", "deaths", "wins", "losses", "trades", "utility", "flashes", "clutchWins", "clutches"} : metrics'[c] = metrics[c]
    BY <1>1, <2>1 DEF Counted, Counts
  <2>3. /\ \A c \in Counts : metrics'[c] \in Nat /\ metrics'.rounds = metrics.rounds
    BY <2>1 DEF Counted
  <2>4. metrics'.clutchWins <= metrics'.clutches
    BY <1>1, <2>2 DEF Counts
  <2>5. ASSUME metrics.rounds # 0 PROVE AtLeastAsGood(metrics, metrics')
    BY <1>1, <2>2, <2>3, <2>4, <2>5 DEF AtLeastAsGood, Counts
  <2> QED BY <2>1, <2>3, <2>4, <2>5
<1>3. ASSUME Burn PROVE done(TRUE, [utility |-> 30])
  <2>1. Counted([utility |-> 30])
    BY <1>3, PlaysCounted
  <2>2. /\ metrics'.utility = metrics.utility + 30
        /\ \A c \in {"damage", "kills", "deaths", "wins", "losses", "trades", "flashes", "clutchWins", "clutches"} : metrics'[c] = metrics[c]
    BY <1>1, <2>1 DEF Counted, Counts
  <2>3. /\ \A c \in Counts : metrics'[c] \in Nat /\ metrics'.rounds = metrics.rounds
    BY <2>1 DEF Counted
  <2>4. metrics'.clutchWins <= metrics'.clutches
    BY <1>1, <2>2 DEF Counts
  <2>5. ASSUME metrics.rounds # 0 PROVE AtLeastAsGood(metrics, metrics')
    BY <1>1, <2>2, <2>3, <2>4, <2>5 DEF AtLeastAsGood, Counts
  <2> QED BY <2>1, <2>3, <2>4, <2>5
<1>4. ASSUME Frag PROVE done(TRUE, [kills |-> 1])
  <2>1. Counted([kills |-> 1])
    BY <1>4, PlaysCounted
  <2>2. /\ metrics'.kills = metrics.kills + 1
        /\ \A c \in {"damage", "deaths", "wins", "losses", "trades", "utility", "flashes", "clutchWins", "clutches"} : metrics'[c] = metrics[c]
    BY <1>1, <2>1 DEF Counted, Counts
  <2>3. /\ \A c \in Counts : metrics'[c] \in Nat /\ metrics'.rounds = metrics.rounds
    BY <2>1 DEF Counted
  <2>4. metrics'.clutchWins <= metrics'.clutches
    BY <1>1, <2>2 DEF Counts
  <2>5. ASSUME metrics.rounds # 0 PROVE AtLeastAsGood(metrics, metrics')
    BY <1>1, <2>2, <2>3, <2>4, <2>5 DEF AtLeastAsGood, Counts
  <2> QED BY <2>1, <2>3, <2>4, <2>5
<1>5. ASSUME TradeFrag PROVE done(TRUE, [kills |-> 1, trades |-> 1])
  <2>1. Counted([kills |-> 1, trades |-> 1])
    BY <1>5, PlaysCounted
  <2>2. /\ metrics'.kills = metrics.kills + 1 /\ metrics'.trades = metrics.trades + 1
        /\ \A c \in {"damage", "deaths", "wins", "losses", "utility", "flashes", "clutchWins", "clutches"} : metrics'[c] = metrics[c]
    BY <1>1, <2>1 DEF Counted, Counts
  <2>3. /\ \A c \in Counts : metrics'[c] \in Nat /\ metrics'.rounds = metrics.rounds
    BY <2>1 DEF Counted
  <2>4. metrics'.clutchWins <= metrics'.clutches
    BY <1>1, <2>2 DEF Counts
  <2>5. ASSUME metrics.rounds # 0 PROVE AtLeastAsGood(metrics, metrics')
    BY <1>1, <2>2, <2>3, <2>4, <2>5 DEF AtLeastAsGood, Counts
  <2> QED BY <2>1, <2>3, <2>4, <2>5
<1>6. ASSUME OpeningFrag PROVE done(TRUE, [kills |-> 1, wins |-> 1])
  <2>1. Counted([kills |-> 1, wins |-> 1])
    BY <1>6, PlaysCounted
  <2>2. /\ metrics'.kills = metrics.kills + 1 /\ metrics'.wins = metrics.wins + 1
        /\ \A c \in {"damage", "deaths", "losses", "trades", "utility", "flashes", "clutchWins", "clutches"} : metrics'[c] = metrics[c]
    BY <1>1, <2>1 DEF Counted, Counts
  <2>3. /\ \A c \in Counts : metrics'[c] \in Nat /\ metrics'.rounds = metrics.rounds
    BY <2>1 DEF Counted
  <2>4. metrics'.clutchWins <= metrics'.clutches
    BY <1>1, <2>2 DEF Counts
  <2>5. ASSUME metrics.rounds # 0 PROVE AtLeastAsGood(metrics, metrics')
    BY <1>1, <2>2, <2>3, <2>4, <2>5 DEF AtLeastAsGood, Counts
  <2> QED BY <2>1, <2>3, <2>4, <2>5
<1>7. ASSUME Flash PROVE done(TRUE, [flashes |-> 1])
  <2>1. Counted([flashes |-> 1])
    BY <1>7, PlaysCounted
  <2>2. /\ metrics'.flashes = metrics.flashes + 1
        /\ \A c \in {"damage", "kills", "deaths", "wins", "losses", "trades", "utility", "clutchWins", "clutches"} : metrics'[c] = metrics[c]
    BY <1>1, <2>1 DEF Counted, Counts
  <2>3. /\ \A c \in Counts : metrics'[c] \in Nat /\ metrics'.rounds = metrics.rounds
    BY <2>1 DEF Counted
  <2>4. metrics'.clutchWins <= metrics'.clutches
    BY <1>1, <2>2 DEF Counts
  <2>5. ASSUME metrics.rounds # 0 PROVE AtLeastAsGood(metrics, metrics')
    BY <1>1, <2>2, <2>3, <2>4, <2>5 DEF AtLeastAsGood, Counts
  <2> QED BY <2>1, <2>3, <2>4, <2>5
<1>8. ASSUME ClutchWon PROVE done(TRUE, [clutches |-> 1, clutchWins |-> 1])
  <2>1. Counted([clutches |-> 1, clutchWins |-> 1])
    BY <1>8, PlaysCounted
  <2>2. /\ metrics'.clutches = metrics.clutches + 1 /\ metrics'.clutchWins = metrics.clutchWins + 1
        /\ \A c \in {"damage", "kills", "deaths", "wins", "losses", "trades", "utility", "flashes"} : metrics'[c] = metrics[c]
    BY <1>1, <2>1 DEF Counted, Counts
  <2>3. /\ \A c \in Counts : metrics'[c] \in Nat /\ metrics'.rounds = metrics.rounds
    BY <2>1 DEF Counted
  <2>4. metrics'.clutchWins <= metrics'.clutches
    BY <1>1, <2>2 DEF Counts
  <2>5. ASSUME metrics.rounds # 0 PROVE AtLeastAsGood(metrics, metrics')
    BY <1>1, <2>2, <2>3, <2>4, <2>5 DEF AtLeastAsGood, Counts
  <2> QED BY <2>1, <2>3, <2>4, <2>5
<1>9. ASSUME Death PROVE done(FALSE, [deaths |-> 1])
  <2>1. Counted([deaths |-> 1])
    BY <1>9, PlaysCounted
  <2>2. /\ metrics'.deaths = metrics.deaths + 1
        /\ \A c \in {"damage", "kills", "wins", "losses", "trades", "utility", "flashes", "clutchWins", "clutches"} : metrics'[c] = metrics[c]
    BY <1>1, <2>1 DEF Counted, Counts
  <2>3. /\ \A c \in Counts : metrics'[c] \in Nat /\ metrics'.rounds = metrics.rounds
    BY <2>1 DEF Counted
  <2>4. metrics'.clutchWins <= metrics'.clutches
    BY <1>1, <2>2 DEF Counts
  <2>5. ASSUME metrics.rounds # 0 PROVE AtLeastAsGood(metrics', metrics)
    BY <1>1, <2>2, <2>3, <2>4, <2>5 DEF AtLeastAsGood, Counts
  <2> QED BY <2>1, <2>3, <2>4, <2>5
<1>10. ASSUME OpeningDeath PROVE done(FALSE, [deaths |-> 1, losses |-> 1])
  <2>1. Counted([deaths |-> 1, losses |-> 1])
    BY <1>10, PlaysCounted
  <2>2. /\ metrics'.deaths = metrics.deaths + 1 /\ metrics'.losses = metrics.losses + 1
        /\ \A c \in {"damage", "kills", "wins", "trades", "utility", "flashes", "clutchWins", "clutches"} : metrics'[c] = metrics[c]
    BY <1>1, <2>1 DEF Counted, Counts
  <2>3. /\ \A c \in Counts : metrics'[c] \in Nat /\ metrics'.rounds = metrics.rounds
    BY <2>1 DEF Counted
  <2>4. metrics'.clutchWins <= metrics'.clutches
    BY <1>1, <2>2 DEF Counts
  <2>5. ASSUME metrics.rounds # 0 PROVE AtLeastAsGood(metrics', metrics)
    BY <1>1, <2>2, <2>3, <2>4, <2>5 DEF AtLeastAsGood, Counts
  <2> QED BY <2>1, <2>3, <2>4, <2>5
<1>11. ASSUME ClutchLost PROVE done(FALSE, [clutches |-> 1])
  <2>1. Counted([clutches |-> 1])
    BY <1>11, PlaysCounted
  <2>2. /\ metrics'.clutches = metrics.clutches + 1
        /\ \A c \in {"damage", "kills", "deaths", "wins", "losses", "trades", "utility", "flashes", "clutchWins"} : metrics'[c] = metrics[c]
    BY <1>1, <2>1 DEF Counted, Counts
  <2>3. /\ \A c \in Counts : metrics'[c] \in Nat /\ metrics'.rounds = metrics.rounds
    BY <2>1 DEF Counted
  <2>4. metrics'.clutchWins <= metrics'.clutches
    BY <1>1, <2>2 DEF Counts
  <2>5. ASSUME metrics.rounds # 0 PROVE AtLeastAsGood(metrics', metrics)
    BY <1>1, <2>2, <2>3, <2>4, <2>5 DEF AtLeastAsGood, Counts
  <2> QED BY <2>1, <2>3, <2>4, <2>5
<1>12. ASSUME NEW better \in BOOLEAN, NEW gain, done(better, gain)
       PROVE  /\ RatingInv' /\ flags' = flags /\ metrics'.rounds = metrics.rounds
  BY <1>12 DEF Counted, RatingInv
<1>13. ASSUME Gains
       PROVE  \E gain : done(TRUE, gain)
  BY <1>2, <1>3, <1>4, <1>5, <1>6, <1>7, <1>8, <1>13 DEF Gains
<1>14. ASSUME Losses
       PROVE  \E gain : done(FALSE, gain)
  BY <1>9, <1>10, <1>11, <1>14 DEF Losses
<1> HIDE DEF done
<1>15. RatingInv' /\ flags' = flags /\ metrics'.rounds = metrics.rounds
  BY <1>12, <1>13, <1>14 DEF RatingNext
<1>16. ASSUME Gains, metrics.rounds # 0 PROVE AtLeastAsGood(metrics, metrics')
  BY <1>13, <1>16 DEF done
<1>17. ASSUME Losses, metrics.rounds # 0 PROVE AtLeastAsGood(metrics', metrics)
  BY <1>14, <1>17 DEF done
<1> QED BY <1>15, <1>16, <1>17

(* A play in the player's favour never lowers the rating and a play        *)
(* against them never raises it, through every clamp and rounding, and no  *)
(* play decides whether the match is rated or enters a trend               *)
(* (component_vector, weighted_rating, calculate_rating).                  *)
THEOREM PlaysCount == RatingSpec => PlaysCountTheirWay
<1> DEFINE fair == /\ Gains => Rating(metrics', flags') >= Rating(metrics, flags)
                   /\ Losses => Rating(metrics', flags') <= Rating(metrics, flags)
                   /\ TrendEligible(metrics', flags') = TrendEligible(metrics, flags)
<1>1. ASSUME RatingInv, RatingNext PROVE RatingInv' /\ fair
  <2>1. /\ RatingInv' /\ flags' = flags /\ metrics'.rounds = metrics.rounds
        /\ metrics.rounds # 0 => /\ Gains => AtLeastAsGood(metrics, metrics')
                                 /\ Losses => AtLeastAsGood(metrics', metrics)
    BY <1>1, PlayInOrder
  <2>2. Status(metrics', flags') = Status(metrics, flags)
    BY <2>1 DEF Status, Unavailable, Preview
  <2>3. TrendEligible(metrics', flags') = TrendEligible(metrics, flags)
    BY <2>1, <2>2 DEF TrendEligible
  <2>4. CASE Status(metrics, flags) = "unavailable"
    <3>1. Rating(metrics, flags) = -1 /\ Rating(metrics', flags') = -1
      BY <2>2, <2>4 DEF Rating
    <3> QED BY <2>1, <2>3, <3>1
  <2>5. CASE Status(metrics, flags) # "unavailable"
    <3>1. metrics.rounds # 0
      BY <2>5 DEF Status, Unavailable
    <3>2. /\ Rating(metrics, flags) = BasisPoints(metrics)
          /\ Rating(metrics', flags') = BasisPoints(metrics')
      BY <2>2, <2>5 DEF Rating
    <3>3. Gains => BasisPoints(metrics') >= BasisPoints(metrics)
      BY <2>1, <3>1, BasisPointsInOrder
    <3>4. Losses => BasisPoints(metrics') <= BasisPoints(metrics)
      BY <2>1, <3>1, BasisPointsInOrder
    <3> QED BY <2>1, <2>3, <3>2, <3>3, <3>4
  <2> QED BY <2>4, <2>5
<1>2. ASSUME RatingInv, UNCHANGED ratingVars PROVE RatingInv'
  BY <1>2 DEF RatingInv, ratingVars
<1>3. RatingInv /\ [RatingNext]_ratingVars => RatingInv'
  BY <1>1, <1>2
<1>4. RatingInv /\ [RatingNext]_ratingVars => [fair]_ratingVars
  BY <1>1
<1> QED BY <1>3, <1>4, RatingInvInit, PTL DEF RatingSpec, PlaysCountTheirWay

=============================================================================
