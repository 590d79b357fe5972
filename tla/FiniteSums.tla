----------------------------- MODULE FiniteSums -----------------------------
(***************************************************************************)
(* Facts about sums over finite sets, for the proofs about the modules     *)
(* that add up amounts with MapThenSumSet, and about sets that grow by one *)
(* element.  Induction over the size of a set is done by looking at a      *)
(* smallest counterexample.                                                *)
(***************************************************************************)
EXTENDS Integers, FiniteSets, FiniteSetTheorems, WellFoundedInduction, TLAPS

Pick(s) == CHOOSE x \in s : TRUE

(* The recursion equation of MapThenSumSet, for the values f of a set U. *)
IsSum(g, f, U) ==
  g = [s \in SUBSET U |-> IF s = {} THEN 0 ELSE f[Pick(s)] + g[s \ {Pick(s)}]]

SumOver(f, U) == (CHOOSE g : IsSum(g, f, U))[U]

-----------------------------------------------------------------------------
(* A set of natural numbers has a least element. *)
LEMMA Least ==
  ASSUME NEW S \in SUBSET Nat, S # {}
  PROVE  \E m \in S : \A n \in S : m <= n
<1> DEFINE R == OpToRel(<, Nat)
<1>1. IsWellFoundedOn(R, Nat)
  BY NatLessThanWellFounded
<1>2. \A m, n \in Nat : n < m => <<n, m>> \in R
  BY DEF OpToRel
<1> HIDE DEF R
<1>3. PICK m \in S : \A n \in S : ~(<<n, m>> \in R)
  BY <1>1, WFMin
<1>4. \A n \in S : ~(n < m)
  BY <1>2, <1>3
<1> QED
  BY <1>4

(* Of the finite sets in a collection, one is smallest. *)
LEMMA Smallest ==
  ASSUME NEW C, C # {}, \A s \in C : IsFiniteSet(s)
  PROVE  \E s \in C : \A t \in C : Cardinality(s) <= Cardinality(t)
<1> DEFINE N == {Cardinality(s) : s \in C}
<1>1. \A s \in C : Cardinality(s) \in Nat
  BY FS_CardinalityType
<1>2. N \in SUBSET Nat /\ N # {}
  BY <1>1
<1>3. PICK m \in N : \A n \in N : m <= n
  BY <1>2, Least
<1> QED
  BY <1>3

(* A step that adds at most one element to a set makes it larger by at most *)
(* one: what a run has lost stays within the number of its faults.           *)
LEMMA GrowsByOne ==
  ASSUME NEW S, IsFiniteSet(S), NEW x, NEW T, T \subseteq S \cup {x}, NEW n \in Nat,
         Cardinality(S) <= n
  PROVE  IsFiniteSet(T) /\ Cardinality(T) <= n + 1
<1>1. /\ IsFiniteSet(S \cup {x})
      /\ Cardinality(S \cup {x}) = IF x \in S THEN Cardinality(S) ELSE Cardinality(S) + 1
  BY FS_AddElement
<1>2. IsFiniteSet(T) /\ Cardinality(T) <= Cardinality(S \cup {x})
  BY <1>1, FS_Subset
<1>3. Cardinality(S) \in Nat /\ Cardinality(T) \in Nat
  BY <1>2, FS_CardinalityType
<1> QED
  BY <1>1, <1>2, <1>3

(* A step that adds nothing to a set does not make it larger. *)
LEMMA GrowsByNone ==
  ASSUME NEW S, IsFiniteSet(S), NEW T, T \subseteq S, NEW n \in Nat, Cardinality(S) <= n
  PROVE  IsFiniteSet(T) /\ Cardinality(T) <= n
<1>1. IsFiniteSet(T) /\ Cardinality(T) <= Cardinality(S)
  BY FS_Subset
<1>2. Cardinality(S) \in Nat /\ Cardinality(T) \in Nat
  BY <1>1, FS_CardinalityType
<1> QED
  BY <1>1, <1>2

(* Taking an element away makes a set smaller. *)
LEMMA Smaller ==
  ASSUME NEW s, IsFiniteSet(s), NEW x \in s
  PROVE  /\ IsFiniteSet(s \ {x}) /\ Cardinality(s) \in Nat
         /\ Cardinality(s \ {x}) \in Nat /\ Cardinality(s \ {x}) < Cardinality(s)
<1>1. Cardinality(s) \in Nat
  BY FS_CardinalityType
<1>2. IsFiniteSet(s \ {x}) /\ Cardinality(s \ {x}) = Cardinality(s) - 1
  BY FS_RemoveElement
<1>3. Cardinality(s \ {x}) \in Nat
  BY <1>2, FS_CardinalityType
<1> QED
  BY <1>1, <1>2, <1>3

(* The element that is picked is one of the set. *)
LEMMA PickIn == ASSUME NEW s, s # {} PROVE Pick(s) \in s
BY DEF Pick

-----------------------------------------------------------------------------
(* The recursion has a solution: it is built for sets of one size after *)
(* the other.                                                           *)
LEMMA SumExists ==
  ASSUME NEW f, NEW U, IsFiniteSet(U)
  PROVE  \E g : IsSum(g, f, U)
<1> DEFINE Upto(n) == {s \in SUBSET U : Cardinality(s) <= n}
           Up(g, n) == g = [s \in Upto(n) |-> IF s = {} THEN 0 ELSE f[Pick(s)] + g[s \ {Pick(s)}]]
           Bad == {n \in Nat : ~\E g : Up(g, n)}
<1>0. \A s \in SUBSET U : IsFiniteSet(s) /\ Cardinality(s) \in Nat /\ Cardinality(s) <= Cardinality(U)
  BY FS_Subset, FS_CardinalityType
<1>1. ASSUME Bad # {} PROVE FALSE
  <2>1. PICK m \in Bad : \A n \in Bad : m <= n
    BY <1>1, Least
  <2>2. CASE m = 0
    <3>1. \A s \in Upto(0) : s = {}
      BY <1>0, FS_EmptySet
    <3> DEFINE g == [s \in Upto(0) |-> 0]
    <3>2. Up(g, 0)
      BY <3>1
    <3> QED
      BY <2>1, <2>2, <3>2
  <2>3. CASE m # 0
    <3>0. m \in Nat
      BY <2>1
    <3>1. m - 1 \in Nat /\ m - 1 \notin Bad
      <4>1. m - 1 \in Nat /\ ~(m <= m - 1)
        BY <2>3, <3>0
      <4> HIDE DEF Bad
      <4> QED
        BY <2>1, <4>1
    <3>2. PICK g : Up(g, m - 1)
      BY <3>1
    <3> DEFINE h == [s \in Upto(m) |-> IF s = {} THEN 0 ELSE f[Pick(s)] + g[s \ {Pick(s)}]]
    <3>3. ASSUME NEW s \in Upto(m), s # {} PROVE s \ {Pick(s)} \in Upto(m - 1) /\ s \ {Pick(s)} \in Upto(m)
      <4>1. Cardinality(s \ {Pick(s)}) \in Nat /\ Cardinality(s \ {Pick(s)}) < Cardinality(s)
        BY <1>0, <3>3, PickIn, Smaller
      <4> QED
        BY <1>0, <3>1, <4>1
    <3>4. \A t \in Upto(m - 1) : t \in Upto(m) /\ h[t] = g[t]
      <4>1. \A t \in Upto(m - 1) : t \in Upto(m)
        BY <1>0, <3>1
      <4>2. \A t \in Upto(m - 1) : g[t] = IF t = {} THEN 0 ELSE f[Pick(t)] + g[t \ {Pick(t)}]
        BY <3>2
      <4> QED
        BY <4>1, <4>2
    <3>5. Up(h, m)
      BY <3>3, <3>4
    <3> QED
      BY <2>1, <3>5
  <2> QED
    BY <2>2, <2>3
<1>2. Cardinality(U) \in Nat
  BY FS_CardinalityType
<1>3. PICK g : Up(g, Cardinality(U))
  BY <1>1, <1>2
<1>4. Upto(Cardinality(U)) = SUBSET U
  BY <1>0
<1> QED
  BY <1>3, <1>4 DEF IsSum

(* The equation of a sum at any of the subsets. *)
LEMMA SumEquation ==
  ASSUME NEW f, NEW U, IsFiniteSet(U), NEW g, IsSum(g, f, U), NEW s \in SUBSET U
  PROVE  g[s] = IF s = {} THEN 0 ELSE f[Pick(s)] + g[s \ {Pick(s)}]
BY DEF IsSum

(* Two sums agree wherever their values do. *)
LEMMA SumAgrees ==
  ASSUME NEW e, NEW f, NEW U, NEW V, IsFiniteSet(U), IsFiniteSet(V),
         NEW g, NEW h, IsSum(g, e, U), IsSum(h, f, V),
         NEW S, S \subseteq U, S \subseteq V, \A x \in S : e[x] = f[x]
  PROVE  g[S] = h[S]
<1> DEFINE Bad == {s \in SUBSET S : g[s] # h[s]}
<1> SUFFICES ASSUME Bad # {} PROVE FALSE
  OBVIOUS
<1>1. \A s \in Bad : IsFiniteSet(s)
  BY FS_Subset
<1>2. PICK s \in Bad : \A t \in Bad : Cardinality(s) <= Cardinality(t)
  BY <1>1, Smallest
<1>3. /\ g[s] = IF s = {} THEN 0 ELSE e[Pick(s)] + g[s \ {Pick(s)}]
      /\ h[s] = IF s = {} THEN 0 ELSE f[Pick(s)] + h[s \ {Pick(s)}]
  <2>1. s \in SUBSET U /\ s \in SUBSET V
    OBVIOUS
  <2> QED
    BY <2>1 DEF IsSum
<1>4. s # {}
  BY <1>3
<1>5. Pick(s) \in s
  BY <1>4, PickIn
<1>6. s \ {Pick(s)} \notin Bad
  BY <1>1, <1>2, <1>5, Smaller
<1> QED
  BY <1>3, <1>5, <1>6

(* The value of a sum is that of any function that adds up. *)
LEMMA SumIs ==
  ASSUME NEW f, NEW U, IsFiniteSet(U), NEW g, IsSum(g, f, U)
  PROVE  SumOver(f, U) = g[U]
<1> DEFINE h == CHOOSE h : IsSum(h, f, U)
<1>1. IsSum(h, f, U)
  OBVIOUS
<1>2. SumOver(f, U) = h[U]
  BY DEF SumOver
<1> HIDE DEF h
<1>3. h[U] = g[U]
  <2>1. U \subseteq U /\ \A x \in U : f[x] = f[x]
    OBVIOUS
  <2> QED
    BY <1>1, SumAgrees, SMTT(30)
<1> QED
  BY <1>2, <1>3

-----------------------------------------------------------------------------
(* The order of the elements does not matter. *)
AnyLast(g, f, U) == \A s \in SUBSET U : \A x \in s : g[s] = f[x] + g[s \ {x}]

(* A sum taken apart at any element, not only at the picked one. *)
LEMMA SumWithout ==
  ASSUME NEW f, NEW U, NEW g, IsFiniteSet(U), IsSum(g, f, U), \A x \in U : f[x] \in Int
  PROVE  /\ g \in [SUBSET U -> Int]
         /\ AnyLast(g, f, U)
<1>1. ASSUME NEW s \in SUBSET U, g[s] \notin Int PROVE FALSE
  <2> DEFINE Bad == {t \in SUBSET U : g[t] \notin Int}
  <2>1. \A t \in Bad : IsFiniteSet(t)
    BY FS_Subset
  <2>2. PICK t \in Bad : \A u \in Bad : Cardinality(t) <= Cardinality(u)
    BY <1>1, <2>1, Smallest
  <2>3. g[t] = IF t = {} THEN 0 ELSE f[Pick(t)] + g[t \ {Pick(t)}]
    <3>1. t \in SUBSET U
      OBVIOUS
    <3> QED
      BY <3>1 DEF IsSum
  <2>4. t # {} /\ Pick(t) \in t
    BY <2>3, PickIn
  <2>5. t \ {Pick(t)} \notin Bad
    BY <2>1, <2>2, <2>4, Smaller
  <2> QED
    BY <2>3, <2>4, <2>5
<1>2. g \in [SUBSET U -> Int]
  BY <1>1 DEF IsSum
<1> DEFINE Bad == {s \in SUBSET U : \E x \in s : g[s] # f[x] + g[s \ {x}]}
<1>3. ASSUME Bad # {} PROVE FALSE
  <2>1. \A t \in Bad : IsFiniteSet(t)
    BY FS_Subset
  <2>2. PICK s \in Bad : \A t \in Bad : Cardinality(s) <= Cardinality(t)
    BY <1>3, <2>1, Smallest
  <2>3. PICK x \in s : g[s] # f[x] + g[s \ {x}]
    BY <2>2
  <2> DEFINE p == Pick(s)
  <2>4. p \in s
    BY PickIn, <2>3
  <2>5. g[s] = f[p] + g[s \ {p}]
    <3>1. s \in SUBSET U /\ s # {}
      BY <2>4
    <3> QED
      BY <3>1 DEF IsSum
  <2> HIDE DEF p
  <2>6. p # x
    BY <2>3, <2>5
  <2>7. s \ {p} \notin Bad /\ s \ {x} \notin Bad
    <3>1. \A y \in s : /\ Cardinality(s) \in Nat /\ Cardinality(s \ {y}) \in Nat
                       /\ Cardinality(s \ {y}) < Cardinality(s)
      BY <2>1, Smaller
    <3>2. \A y \in s : ~(Cardinality(s) <= Cardinality(s \ {y}))
      BY <3>1
    <3> HIDE DEF Bad
    <3> QED
      BY <2>2, <2>3, <2>4, <3>2
  <2>8. g[s \ {p}] = f[x] + g[(s \ {p}) \ {x}] /\ g[s \ {x}] = f[p] + g[(s \ {x}) \ {p}]
    BY <2>4, <2>6, <2>7
  <2>9. (s \ {p}) \ {x} = (s \ {x}) \ {p}
    OBVIOUS
  <2> DEFINE a == f[p]
             b == f[x]
             c == g[(s \ {x}) \ {p}]
  <2>10. a \in Int /\ b \in Int /\ c \in Int
    BY <1>2, <2>4
  <2>11. g[s] = a + (b + c) /\ g[s \ {x}] = a + c
    BY <2>5, <2>8, <2>9
  <2>12. g[s] # b + (a + c)
    BY <2>3, <2>11
  <2> HIDE DEF a, b, c
  <2> QED
    BY <2>10, <2>11, <2>12
<1> QED
  BY <1>2, <1>3 DEF AnyLast

-----------------------------------------------------------------------------
(* What the proofs cite. *)

(* Nothing adds up to zero. *)
THEOREM SumOfNothing == ASSUME NEW f PROVE SumOver(f, {}) = 0
<1>1. IsFiniteSet({})
  BY FS_EmptySet
<1>2. PICK g : IsSum(g, f, {})
  BY <1>1, SumExists
<1>3. SumOver(f, {}) = g[{}]
  BY <1>1, <1>2, SumIs
<1>4. g[{}] = 0
  BY <1>2 DEF IsSum
<1> QED
  BY <1>3, <1>4

(* A sum of natural numbers is one. *)
THEOREM SumIsNatural ==
  ASSUME NEW f, NEW U, IsFiniteSet(U), \A x \in U : f[x] \in Nat
  PROVE  SumOver(f, U) \in Nat
<1>1. PICK g : IsSum(g, f, U)
  BY SumExists
<1>2. SumOver(f, U) = g[U]
  BY <1>1, SumIs
<1> DEFINE Bad == {s \in SUBSET U : g[s] \notin Nat}
<1>3. ASSUME Bad # {} PROVE FALSE
  <2>1. \A s \in Bad : IsFiniteSet(s)
    BY FS_Subset
  <2>2. PICK s \in Bad : \A t \in Bad : Cardinality(s) <= Cardinality(t)
    BY <1>3, <2>1, Smallest
  <2>3. s \in SUBSET U /\ g[s] \notin Nat
    OBVIOUS
  <2>4. g[s] = IF s = {} THEN 0 ELSE f[Pick(s)] + g[s \ {Pick(s)}]
    BY <1>1, <2>3 DEF IsSum
  <2>5. s # {} /\ Pick(s) \in s
    BY <2>3, <2>4, PickIn
  <2>6. s \ {Pick(s)} \notin Bad
    BY <2>1, <2>2, <2>5, Smaller
  <2> QED
    BY <2>3, <2>4, <2>5, <2>6
<1> QED
  BY <1>2, <1>3

(* Any element can be added last. *)
THEOREM SumSplits ==
  ASSUME NEW f, NEW U, IsFiniteSet(U), \A x \in U : f[x] \in Int, NEW x \in U
  PROVE  SumOver(f, U) = f[x] + SumOver(f, U \ {x})
<1>1. IsFiniteSet(U \ {x})
  BY FS_RemoveElement
<1>2. PICK g : IsSum(g, f, U)
  BY SumExists
<1>3. PICK h : IsSum(h, f, U \ {x})
  BY <1>1, SumExists
<1>4. SumOver(f, U) = g[U] /\ SumOver(f, U \ {x}) = h[U \ {x}]
  BY <1>1, <1>2, <1>3, SumIs
<1>5. g[U \ {x}] = h[U \ {x}]
  <2>1. U \ {x} \subseteq U /\ U \ {x} \subseteq U \ {x}
    OBVIOUS
  <2> QED
    BY <1>1, <1>2, <1>3, <2>1, SumAgrees, SMTT(30)
<1>6. g[U] = f[x] + g[U \ {x}]
  <2>1. AnyLast(g, f, U)
    BY <1>2, SumWithout
  <2> QED
    BY <2>1 DEF AnyLast
<1> QED
  BY <1>4, <1>5, <1>6

(* Only the values of the elements matter. *)
THEOREM SumDependsOn ==
  ASSUME NEW e, NEW f, NEW U, IsFiniteSet(U), \A x \in U : e[x] = f[x]
  PROVE  SumOver(e, U) = SumOver(f, U)
<1>1. PICK g : IsSum(g, e, U)
  BY SumExists
<1>2. PICK h : IsSum(h, f, U)
  BY SumExists
<1>3. g[U] = h[U]
  BY <1>1, <1>2, SumAgrees, SMTT(30)
<1> QED
  BY <1>1, <1>2, <1>3, SumIs

(* A sum of numbers that are at most m is at most m for each of them. *)
THEOREM SumIsBounded ==
  ASSUME NEW f, NEW U, IsFiniteSet(U), NEW m \in Nat, \A x \in U : f[x] \in Nat /\ f[x] <= m
  PROVE  SumOver(f, U) <= Cardinality(U) * m
<1> DEFINE Bad == {s \in SUBSET U : ~(SumOver(f, s) <= Cardinality(s) * m)}
<1>1. ASSUME Bad # {} PROVE FALSE
  <2>1. \A s \in Bad : IsFiniteSet(s)
    BY FS_Subset
  <2> HIDE DEF Bad
  <2>2. PICK s \in Bad : \A t \in Bad : Cardinality(s) <= Cardinality(t)
    BY <1>1, <2>1, Smallest
  <2>3. s \in SUBSET U /\ IsFiniteSet(s) /\ ~(SumOver(f, s) <= Cardinality(s) * m)
    BY <2>1, <2>2 DEF Bad
  <2>4. CASE s = {}
    <3>1. SumOver(f, s) = 0 /\ Cardinality(s) = 0
      BY <2>4, SumOfNothing, FS_EmptySet
    <3> QED
      BY <2>3, <3>1
  <2>5. CASE s # {}
    <3>1. PICK x \in s : TRUE
      BY <2>5
    <3>2. /\ IsFiniteSet(s \ {x}) /\ Cardinality(s \ {x}) \in Nat
          /\ Cardinality(s) \in Nat /\ Cardinality(s \ {x}) < Cardinality(s)
      BY <2>3, <3>1, Smaller
    <3>3. Cardinality(s \ {x}) + 1 = Cardinality(s)
      BY <2>3, <3>1, <3>2, FS_RemoveElement
    <3>4. SumOver(f, s \ {x}) <= Cardinality(s \ {x}) * m
      <4>1. s \ {x} \notin Bad
        BY <2>2, <3>2
      <4> QED
        BY <2>3, <4>1 DEF Bad
    <3>5. SumOver(f, s \ {x}) \in Nat /\ f[x] \in Nat /\ f[x] <= m
      BY <2>3, <3>1, <3>2, SumIsNatural
    <3>6. SumOver(f, s) = f[x] + SumOver(f, s \ {x})
      BY <2>3, <3>1, SumSplits
    <3>7. Cardinality(s) * m = Cardinality(s \ {x}) * m + m /\ Cardinality(s \ {x}) * m \in Nat
      BY <3>2, <3>3
    <3> QED
      BY <2>3, <3>4, <3>5, <3>6, <3>7
  <2> QED
    BY <2>4, <2>5
<1> QED
  BY <1>1

=============================================================================
