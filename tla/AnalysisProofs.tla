----------------------------- MODULE AnalysisProofs --------------------------
(* Proofs about what computes figures over lists: the pattern analyzer, the *)
(* cost tools and the log analyzer, for any lists, amounts and answers.     *)
(* First comes what they and the guards' proofs need of least elements,     *)
(* sums, folds and sorted lists.                                            *)
EXTENDS PatternAnalyzer, LogAnalyzer, SequenceTheorems, FiniteSetTheorems, TLAPS

(* Sums over finite sets: MapThenSumSet is the recursive function that     *)
(* takes the chosen element off; it exists, and is unique, on the subsets  *)
(* of every finite set.                                                    *)
Pick(s) == CHOOSE x \in s : TRUE
Sums(g, f, R) ==
  /\ g \in [SUBSET R -> Int]
  /\ \A s \in SUBSET R : g[s] = IF s = {} THEN 0 ELSE f[Pick(s)] + g[s \ {Pick(s)}]

LEMMA PickIn == ASSUME NEW s, s # {} PROVE Pick(s) \in s
BY DEF Pick

(* Among the subsets of a finite set a least one can be found.             *)
LEMMA LeastSubset ==
  ASSUME NEW R, IsFiniteSet(R), NEW T, T \subseteq SUBSET R, T # {}
  PROVE  \E s \in T : \A u \in T : u \subseteq s => u = s
<1>1. FiniteSubsetsOf(R) = SUBSET R
  BY FS_FiniteSubsetsOfFinite
<1>2. IsWellFoundedOn(StrictSubsetOrdering(R), SUBSET R)
  BY <1>1, FS_StrictSubsetOrderingWellFounded
<1>3. \E s \in T : \A u \in T : ~(<<u, s>> \in StrictSubsetOrdering(R))
  BY <1>2, WFMin
<1> QED
  BY <1>3 DEF StrictSubsetOrdering

LEMMA SumsUnique ==
  ASSUME NEW R, IsFiniteSet(R), NEW f, NEW Q \in SUBSET R, NEW g, NEW h,
         Sums(g, f, R), Sums(h, f, Q)
  PROVE  \A s \in SUBSET Q : g[s] = h[s]
<1> DEFINE T == {s \in SUBSET Q : g[s] # h[s]}
<1> SUFFICES ASSUME T # {} PROVE FALSE
  OBVIOUS
<1>0. T \subseteq SUBSET R
  OBVIOUS
<1> HIDE DEF T
<1>1. PICK s \in T : \A u \in T : u \subseteq s => u = s
  BY <1>0, LeastSubset
<1> USE DEF T
<1>2. s # {} /\ s \in SUBSET R /\ s \in SUBSET Q
  <2>1. {} \in SUBSET R /\ {} \in SUBSET Q /\ s \in SUBSET Q
    BY <1>1
  <2>2. g[{}] = 0 /\ h[{}] = 0
    BY <2>1 DEF Sums
  <2> QED
    BY <1>1, <2>1, <2>2
<1>3. s \ {Pick(s)} \in SUBSET Q /\ s \ {Pick(s)} # s /\ s \ {Pick(s)} \subseteq s
  BY <1>2, PickIn
<1>4. g[s \ {Pick(s)}] = h[s \ {Pick(s)}]
  BY <1>1, <1>3
<1> QED
  BY <1>1, <1>2, <1>4 DEF Sums

LEMMA SumsExist ==
  ASSUME NEW R, IsFiniteSet(R), NEW f, \A r \in R : f[r] \in Int
  PROVE  \E g : Sums(g, f, R)
<1> DEFINE T == {U \in SUBSET R : ~(\E g : Sums(g, f, U))}
<1> SUFFICES ASSUME T # {} PROVE FALSE
  OBVIOUS
<1>0. T \subseteq SUBSET R
  OBVIOUS
<1> HIDE DEF T
<1>1. PICK U \in T : \A V \in T : V \subseteq U => V = U
  BY <1>0, LeastSubset
<1>2. IsFiniteSet(U) /\ U \in SUBSET R /\ ~(\E g : Sums(g, f, U))
  BY <1>1, FS_Subset DEF T
<1> DEFINE G(V) == CHOOSE g : Sums(g, f, V)
           h == [s \in SUBSET U |-> IF s = {} THEN 0
                                    ELSE f[Pick(s)] + G(s \ {Pick(s)})[s \ {Pick(s)}]]
<1>3. \A V \in SUBSET U : V # U => Sums(G(V), f, V)
  BY <1>1, <1>2 DEF T
<1>4. \A V \in SUBSET U : V # {} => V \ {Pick(V)} \in SUBSET U /\ V \ {Pick(V)} # U /\ Pick(V) \in U
  BY PickIn
<1> HIDE DEF G
<1>5. \A V \in SUBSET U : V # U => IsFiniteSet(V) /\ G(V)[V] \in Int
  BY <1>2, <1>3, FS_Subset DEF Sums
<1>6. h \in [SUBSET U -> Int]
  BY <1>2, <1>4, <1>5
<1>7. ASSUME NEW V \in SUBSET U, V # U
      PROVE  h[V] = G(V)[V]
  <2>1. CASE V = {}
    <3>1. Sums(G(V), f, V) /\ {} \in SUBSET V
      BY <1>3, <1>7
    <3>2. G(V)[{}] = 0
      BY <3>1 DEF Sums
    <3> QED
      BY <2>1, <3>2
  <2>2. CASE V # {}
    <3> DEFINE W == V \ {Pick(V)}
    <3>1. W \in SUBSET V /\ W \in SUBSET U /\ W # U
      BY <1>4, <2>2
    <3>2. Sums(G(V), f, V) /\ Sums(G(W), f, W) /\ IsFiniteSet(V)
      BY <1>3, <1>5, <1>7, <3>1
    <3>3. G(V)[W] = G(W)[W]
      BY <3>1, <3>2, SumsUnique
    <3>4. G(V)[V] = f[Pick(V)] + G(V)[W]
      BY <2>2, <3>2 DEF Sums
    <3> QED
      BY <2>2, <3>3, <3>4
  <2> QED
    BY <2>1, <2>2
<1>8. \A s \in SUBSET U : h[s] = IF s = {} THEN 0 ELSE f[Pick(s)] + h[s \ {Pick(s)}]
  <2> SUFFICES ASSUME NEW s \in SUBSET U, s # {}
               PROVE  h[s] = f[Pick(s)] + h[s \ {Pick(s)}]
    OBVIOUS
  <2>1. h[s \ {Pick(s)}] = G(s \ {Pick(s)})[s \ {Pick(s)}]
    BY <1>4, <1>7
  <2> QED
    BY <2>1
<1> HIDE DEF h
<1>9. Sums(h, f, U)
  BY <1>6, <1>8 DEF Sums
<1> QED
  BY <1>2, <1>9

LEMMA SumsNat ==
  ASSUME NEW R, IsFiniteSet(R), NEW f, NEW g, Sums(g, f, R), \A r \in R : f[r] \in Nat
  PROVE  \A s \in SUBSET R : g[s] \in Nat
<1> DEFINE T == {s \in SUBSET R : g[s] \notin Nat}
<1> SUFFICES ASSUME T # {} PROVE FALSE
  OBVIOUS
<1>0. T \subseteq SUBSET R
  OBVIOUS
<1> HIDE DEF T
<1>1. PICK s \in T : \A u \in T : u \subseteq s => u = s
  BY <1>0, LeastSubset
<1> USE DEF T
<1>2. s # {} /\ s \in SUBSET R
  <2>1. {} \in SUBSET R /\ s \in SUBSET R
    BY <1>1
  <2>2. g[{}] = 0
    BY <2>1 DEF Sums
  <2>3. g[s] \notin Nat /\ 0 \in Nat
    BY <1>1
  <2> QED
    BY <2>1, <2>2, <2>3
<1>3. s \ {Pick(s)} \in SUBSET R /\ s \ {Pick(s)} # s /\ s \ {Pick(s)} \subseteq s /\ Pick(s) \in R
  BY <1>2, PickIn
<1>4. g[s \ {Pick(s)}] \in Nat /\ f[Pick(s)] \in Nat
  BY <1>1, <1>3
<1> QED
  BY <1>1, <1>2, <1>4 DEF Sums

LEMMA SumsRemove ==
  ASSUME NEW R, IsFiniteSet(R), NEW f, \A r \in R : f[r] \in Int, NEW g, Sums(g, f, R),
         NEW all \in SUBSET R, NEW any \in all
  PROVE  g[all] = f[any] + g[all \ {any}]
<1> DEFINE T == {s \in SUBSET R : \E x \in s : g[s] # f[x] + g[s \ {x}]}
<1> SUFFICES ASSUME T # {} PROVE FALSE
  OBVIOUS
<1>0. T \subseteq SUBSET R
  OBVIOUS
<1> HIDE DEF T
<1>1. PICK s \in T : \A u \in T : u \subseteq s => u = s
  BY <1>0, LeastSubset
<1> USE DEF T
<1>2. PICK x \in s : g[s] # f[x] + g[s \ {x}]
  BY <1>1
<1> DEFINE p == Pick(s)
<1>3. p \in s /\ s \in SUBSET R /\ s # {}
  BY <1>1, <1>2, PickIn
<1>4. g[s] = f[p] + g[s \ {p}]
  BY <1>3 DEF Sums
<1> HIDE DEF p
<1>5. p # x
  BY <1>2, <1>4
<1>6. g[s \ {p}] = f[x] + g[(s \ {p}) \ {x}]
  <2>1. s \ {p} \in SUBSET R /\ s \ {p} \subseteq s /\ s \ {p} # s /\ x \in s \ {p}
    BY <1>2, <1>3, <1>5
  <2> QED
    BY <1>1, <2>1
<1>7. g[s \ {x}] = f[p] + g[(s \ {x}) \ {p}]
  <2>1. s \ {x} \in SUBSET R /\ s \ {x} \subseteq s /\ s \ {x} # s /\ p \in s \ {x}
    BY <1>2, <1>3, <1>5
  <2> QED
    BY <1>1, <2>1
<1>8. (s \ {p}) \ {x} = (s \ {x}) \ {p} /\ (s \ {p}) \ {x} \in SUBSET R /\ p \in R /\ x \in R
  BY <1>3
<1>9. g[(s \ {p}) \ {x}] \in Int /\ f[p] \in Int /\ f[x] \in Int
  BY <1>8 DEF Sums
<1> DEFINE w == g[(s \ {p}) \ {x}]
<1>10. g[s \ {p}] = f[x] + w /\ g[s \ {x}] = f[p] + w
  BY <1>6, <1>7, <1>8
<1>11. w \in Int
  BY <1>9
<1> HIDE DEF w
<1>12. g[s] = f[x] + g[s \ {x}]
  BY <1>4, <1>9, <1>10, <1>11
<1> QED
  BY <1>2, <1>12

(* The least of some naturals, and the greatest of some up to a bound.     *)
LEMMA LeastNat ==
  ASSUME NEW T, T \subseteq Nat, T # {}
  PROVE  \E n \in T : \A k \in T : n <= k
<1>1. \E n \in T : \A k \in T : ~(<<k, n>> \in OpToRel(<, Nat))
  BY NatLessThanWellFounded, WFMin
<1>2. PICK n \in T : \A k \in T : ~(<<k, n>> \in OpToRel(<, Nat))
  BY <1>1
<1>3. \A k \in T : n <= k
  <2> SUFFICES ASSUME NEW k \in T, k < n PROVE FALSE
    OBVIOUS
  <2>1. <<k, n>> \in OpToRel(<, Nat)
    BY DEF OpToRel
  <2> QED
    BY <1>2, <2>1
<1> QED
  BY <1>3

LEMMA GreatestNat ==
  ASSUME NEW T, T \subseteq Nat, T # {}, NEW bound \in Nat, \A k \in T : k <= bound
  PROVE  \E n \in T : \A k \in T : k <= n
<1> DEFINE U == {bound - k : k \in T}
<1>1. U \subseteq Nat /\ U # {}
  OBVIOUS
<1>2. PICK m \in U : \A u \in U : m <= u
  BY <1>1, LeastNat
<1>3. PICK n \in T : m = bound - n
  OBVIOUS
<1>4. \A k \in T : k <= n
  <2> SUFFICES ASSUME NEW k \in T PROVE k <= n
    OBVIOUS
  <2>1. bound - n <= bound - k
    BY <1>2, <1>3
  <2>2. n \in Nat /\ k \in Nat
    OBVIOUS
  <2> HIDE DEF U
  <2> QED
    BY <2>1, <2>2
<1> QED
  BY <1>4

(* What holds of 0 and of the successor of each number it holds of.        *)
LEMMA ByCounting ==
  ASSUME NEW n \in Nat, NEW T, 0 \in T, \A k \in 0..n - 1 : k \in T => k + 1 \in T
  PROVE  0..n \subseteq T
<1> SUFFICES ASSUME {k \in 0..n : k \notin T} # {} PROVE FALSE
  OBVIOUS
<1>1. PICK k \in 0..n : k \notin T /\ \A j \in {i \in 0..n : i \notin T} : k <= j
  <2>1. {k \in 0..n : k \notin T} \subseteq Nat
    OBVIOUS
  <2> QED
    BY <2>1, LeastNat
<1>2. k # 0 /\ k - 1 \in 0..n - 1
  BY <1>1
<1>3. k - 1 \in T
  <2>1. k - 1 \in 0..n /\ ~(k <= k - 1)
    BY <1>2
  <2> QED
    BY <1>1, <2>1
<1>4. (k - 1) + 1 = k
  OBVIOUS
<1> QED
  BY <1>1, <1>2, <1>3, <1>4

LEMMA MaxIn ==
  ASSUME NEW R, IsFiniteSet(R), \A r \in R : r \in Nat, R # {}
  PROVE  Max(R) \in R
<1> DEFINE Top(s) == \E m \in s : \A k \in s : m >= k
           T == {s \in SUBSET R : s # {} /\ ~Top(s)}
<1>1. T = {}
  <2> SUFFICES ASSUME T # {} PROVE FALSE
    OBVIOUS
  <2>0. T \subseteq SUBSET R
    OBVIOUS
  <2> HIDE DEF T
  <2>1. PICK s \in T : \A u \in T : u \subseteq s => u = s
    BY <2>0, LeastSubset
  <2>2. s \in SUBSET R /\ s # {} /\ ~Top(s)
    BY <2>1 DEF T
  <2>3. PICK x \in s : TRUE
    BY <2>2
  <2>4. PICK y \in s : ~(x >= y)
    BY <2>2
  <2>5. s \ {x} \in SUBSET R /\ s \ {x} # s /\ s \ {x} # {} /\ x \in Nat /\ y \in Nat /\ y \in s \ {x}
    BY <2>2, <2>4
  <2>6. Top(s \ {x})
    BY <2>1, <2>5 DEF T
  <2>7. PICK m \in s \ {x} : \A k \in s \ {x} : m >= k
    BY <2>6
  <2>8. m >= x
    BY <2>2, <2>4, <2>5, <2>7
  <2>9. \A k \in s : m >= k
    BY <2>7, <2>8
  <2> QED
    BY <2>2, <2>7, <2>9
<1>2. Top(R)
  BY <1>1
<1> QED
  BY <1>2 DEF Max

LEMMA LastTaken ==
  ASSUME NEW R, IsFiniteSet(R), \A r \in R : r \in Nat, NEW s \in SUBSET R, s # {}
  PROVE  /\ Max(s) \in s /\ s \ {Max(s)} \in SUBSET R
         /\ s \ {Max(s)} \subseteq s /\ s \ {Max(s)} # s
<1>1. IsFiniteSet(s) /\ s \subseteq Nat
  BY FS_Subset
<1>2. Max(s) \in s
  BY <1>1, MaxIn
<1> QED
  BY <1>2

(* A fold from the left, as a function of the positions folded so far.     *)
Folding(g, base, step, s) == IF s = {} THEN base ELSE step[<<g[s \ {Max(s)}], Max(s)>>]
Folds(g, base, step, R) == g = [s \in SUBSET R |-> Folding(g, base, step, s)]

LEMMA FoldsUnique ==
  ASSUME NEW R, IsFiniteSet(R), \A r \in R : r \in Nat, NEW base, NEW step, NEW Q \in SUBSET R,
         NEW g, NEW h, Folds(g, base, step, R), Folds(h, base, step, Q)
  PROVE  \A s \in SUBSET Q : g[s] = h[s]
<1> DEFINE T == {s \in SUBSET Q : g[s] # h[s]}
<1> SUFFICES ASSUME T # {} PROVE FALSE
  OBVIOUS
<1>0. T \subseteq SUBSET R
  OBVIOUS
<1> HIDE DEF T
<1>1. PICK s \in T : \A u \in T : u \subseteq s => u = s
  BY <1>0, LeastSubset
<1>2. s \in SUBSET R /\ s \in SUBSET Q /\ g[s] # h[s]
  BY <1>1 DEF T
<1>3. g[s] = Folding(g, base, step, s) /\ h[s] = Folding(h, base, step, s)
  BY <1>2 DEF Folds
<1>4. s # {}
  BY <1>2, <1>3 DEF Folding
<1>5. Max(s) \in s /\ s \ {Max(s)} \subseteq s /\ s \ {Max(s)} # s
  BY <1>2, <1>4, LastTaken
<1>6. g[s \ {Max(s)}] = h[s \ {Max(s)}]
  BY <1>1, <1>2, <1>5 DEF T
<1> QED
  BY <1>2, <1>3, <1>4, <1>6 DEF Folding

LEMMA FoldsExist ==
  ASSUME NEW R, IsFiniteSet(R), \A r \in R : r \in Nat, NEW base, NEW step
  PROVE  \E g : Folds(g, base, step, R)
<1> DEFINE T == {U \in SUBSET R : ~(\E g : Folds(g, base, step, U))}
<1> SUFFICES ASSUME T # {} PROVE FALSE
  OBVIOUS
<1>0. T \subseteq SUBSET R
  OBVIOUS
<1> HIDE DEF T
<1>1. PICK U \in T : \A V \in T : V \subseteq U => V = U
  BY <1>0, LeastSubset
<1>2. IsFiniteSet(U) /\ U \in SUBSET R /\ ~(\E g : Folds(g, base, step, U))
  BY <1>1, FS_Subset DEF T
<1> DEFINE G(V) == CHOOSE g : Folds(g, base, step, V)
           Shorter(V) == V \ {Max(V)}
           all == [s \in SUBSET U |-> G(s)[s]]
           h == [s \in SUBSET U |-> Folding(all, base, step, s)]
<1>3. \A V \in SUBSET U : V # U => Folds(G(V), base, step, V)
  BY <1>1, <1>2 DEF T
<1> HIDE DEF G
<1>4. ASSUME NEW s \in SUBSET U, s # {}
      PROVE  Max(s) \in s /\ Shorter(s) \in SUBSET U /\ Shorter(s) \in SUBSET s /\ Shorter(s) # U
  BY <1>2, <1>4, LastTaken
<1>5. ASSUME NEW V \in SUBSET U, V # U
      PROVE  h[V] = all[V]
  <2>1. Folds(G(V), base, step, V) /\ IsFiniteSet(V) /\ \A r \in V : r \in Nat
    BY <1>2, <1>3, <1>5, FS_Subset
  <2>2. G(V)[V] = Folding(G(V), base, step, V)
    BY <2>1 DEF Folds
  <2>3. ASSUME V # {} PROVE all[Shorter(V)] = G(V)[Shorter(V)]
    <3>1. Shorter(V) \in SUBSET V /\ Shorter(V) \in SUBSET U /\ Shorter(V) # U
      BY <1>4, <2>3
    <3> HIDE DEF Shorter
    <3>2. Folds(G(Shorter(V)), base, step, Shorter(V))
      BY <1>3, <3>1
    <3>3. G(V)[Shorter(V)] = G(Shorter(V))[Shorter(V)]
      BY <2>1, <3>1, <3>2, FoldsUnique
    <3> QED
      BY <3>1, <3>3
  <2> QED
    BY <2>2, <2>3 DEF Folding
<1>6. \A s \in SUBSET U : Folding(all, base, step, s) = Folding(h, base, step, s)
  <2> SUFFICES ASSUME NEW s \in SUBSET U, s # {}
               PROVE  Folding(all, base, step, s) = Folding(h, base, step, s)
    BY DEF Folding
  <2>1. h[Shorter(s)] = all[Shorter(s)]
    BY <1>4, <1>5
  <2> HIDE DEF h, all
  <2> QED
    BY <2>1 DEF Folding
<1>7. Folds(h, base, step, U)
  BY <1>6 DEF Folds
<1> QED
  BY <1>2, <1>7

(* With steps that stay in A the whole fold does.                          *)
LEMMA FoldIn ==
  ASSUME NEW n \in Nat, NEW A, NEW base \in A, NEW step, \A a \in A, k \in 1..n : step[<<a, k>>] \in A
  PROVE  \E g : /\ g = [s \in SUBSET (1..n) |-> g[s]]
                /\ \A s \in SUBSET (1..n) :
                     /\ g[s] \in A
                     /\ g[s] = IF s = {} THEN base ELSE step[<<g[s \ {Max(s)}], Max(s)>>]
                /\ \A s \in SUBSET (1..n) : s # {} => g[s \ {Max(s)}] \in A /\ Max(s) \in 1..n
<1> DEFINE R == 1..n
<1>1. IsFiniteSet(R) /\ \A r \in R : r \in Nat
  BY FS_Interval
<1> HIDE DEF R
<1>2. PICK g : Folds(g, base, step, R)
  BY <1>1, FoldsExist
<1>3. g = [s \in SUBSET R |-> g[s]] /\ \A s \in SUBSET R : g[s] = Folding(g, base, step, s)
  BY <1>2 DEF Folds
<1>4. \A s \in SUBSET R : s # {} => Max(s) \in R /\ s \ {Max(s)} \in SUBSET R
                                   /\ s \ {Max(s)} \subseteq s /\ s \ {Max(s)} # s
  BY <1>1, LastTaken
<1>5. \A s \in SUBSET R : g[s] \in A
  <2> DEFINE T == {s \in SUBSET R : g[s] \notin A}
  <2> SUFFICES ASSUME T # {} PROVE FALSE
    OBVIOUS
  <2>0. T \subseteq SUBSET R
    OBVIOUS
  <2> HIDE DEF T
  <2>1. PICK s \in T : \A u \in T : u \subseteq s => u = s
    BY <1>1, <2>0, LeastSubset
  <2>2. s \in SUBSET R /\ g[s] \notin A
    BY <2>1 DEF T
  <2>3. s # {}
    BY <1>3, <2>2 DEF Folding
  <2>4. g[s \ {Max(s)}] \in A /\ Max(s) \in R
    BY <1>4, <2>1, <2>2, <2>3 DEF T
  <2>5. step[<<g[s \ {Max(s)}], Max(s)>>] \in A
    BY <2>4 DEF R
  <2> QED
    BY <1>3, <2>2, <2>3, <2>5 DEF Folding
<1> QED
  BY ZenonT(40), <1>3, <1>4, <1>5 DEF Folding, R

LEMMA LastOfUpTo ==
  ASSUME NEW n \in Nat, NEW k \in 1..n
  PROVE  1..k \in SUBSET (1..n) /\ 1..k # {} /\ Max(1..k) = k /\ (1..k) \ {Max(1..k)} = 1..(k - 1)
<1>1. k \in 1..k /\ \A j \in 1..k : k >= j
  OBVIOUS
<1>2. \A m \in 1..k : (\A j \in 1..k : m >= j) => m = k
  OBVIOUS
<1>3. Max(1..k) = k
  BY <1>1, <1>2 DEF Max
<1>4. (1..k) \ {k} = 1..(k - 1)
  OBVIOUS
<1> QED
  BY <1>1, <1>3, <1>4

(* A finite set under a strict total order, as a list.                     *)
LEMMA InOrderIs ==
  ASSUME NEW S, IsFiniteSet(S), NEW before, \A x \in S : <<x, x>> \notin before,
         \A x, y, z \in S : <<x, y>> \in before /\ <<y, z>> \in before => <<x, z>> \in before,
         \A x, y \in S : x = y \/ <<x, y>> \in before \/ <<y, x>> \in before
  PROVE  LET o == InOrder(S, before)   n == Cardinality(S) IN
         /\ n \in Nat /\ DOMAIN o = 1..n
         /\ \A k \in 1..n : o[k] \in S
         /\ \A x \in S : \E k \in 1..n : o[k] = x
         /\ \A j, k \in 1..n : j < k => <<o[j], o[k]>> \in before
         /\ \A j, k \in 1..n : <<o[j], o[k]>> \in before => j < k
         /\ \A j, k \in 1..n : o[j] = o[k] => j = k
<1> DEFINE n == Cardinality(S)
           Less(x) == {y \in S : <<y, x>> \in before}
           rank == [x \in S |-> Cardinality(Less(x)) + 1]
           o == InOrder(S, before)
<1>1. n \in Nat
  BY FS_CardinalityType
<1>2. \A x \in S : IsFiniteSet(Less(x)) /\ Cardinality(Less(x)) \in Nat
  BY FS_Subset, FS_CardinalityType
<1>3. ASSUME NEW x \in S PROVE Cardinality(Less(x)) < n
  <2>1. Less(x) \in SUBSET S /\ Less(x) # S
    OBVIOUS
  <2>2. Cardinality(Less(x)) <= n /\ Cardinality(Less(x)) # n
    BY <2>1, FS_Subset
  <2> HIDE DEF n, Less
  <2> QED
    BY <1>1, <1>2, <2>2
<1>4. ASSUME NEW x \in S, NEW y \in S, <<x, y>> \in before PROVE rank[x] < rank[y]
  <2>1. Less(x) \in SUBSET Less(y) /\ x \in Less(y) /\ x \notin Less(x)
    BY <1>4
  <2>2. IsFiniteSet(Less(y))
    BY <1>2
  <2>3. Cardinality(Less(x)) <= Cardinality(Less(y)) /\ Cardinality(Less(x)) # Cardinality(Less(y))
    <3> HIDE DEF Less
    <3> QED
      BY <2>1, <2>2, FS_Subset
  <2>4. Cardinality(Less(x)) \in Nat /\ Cardinality(Less(y)) \in Nat
    BY <1>2
  <2> HIDE DEF Less
  <2> QED
    BY <2>3, <2>4
<1>5. rank \in [S -> 1..n] /\ \A x \in S : rank[x] \in Nat
  <2>1. \A x \in S : Cardinality(Less(x)) + 1 \in 1..n
    <3> HIDE DEF n, Less
    <3> QED
      BY <1>1, <1>2, <1>3
  <2> HIDE DEF n, Less
  <2> QED
    BY <2>1
<1> DEFINE r == rank
<1>6. r \in [S -> 1..n] /\ (\A x \in S : r[x] \in Nat)
      /\ \A x, y \in S : <<x, y>> \in before => r[x] < r[y]
  BY <1>4, <1>5
<1>d. \A x \in S : r[x] = Cardinality({y \in S : <<y, x>> \in before}) + 1
  OBVIOUS
<1>e. \A k \in 1..n : o[k] = CHOOSE x \in S : Cardinality({y \in S : <<y, x>> \in before}) = k - 1
  BY DEF InOrder
<1>f. DOMAIN o = 1..n
  BY DEF InOrder
<1>n. n = Cardinality(S)
  OBVIOUS
<1> HIDE DEF r, rank, Less, o, n
<1>7. \A x, y \in S : r[x] = r[y] => x = y
  <2> SUFFICES ASSUME NEW x \in S, NEW y \in S, r[x] = r[y], x # y PROVE FALSE
    OBVIOUS
  <2>1. r[x] < r[y] \/ r[y] < r[x]
    BY <1>6
  <2> QED
    BY <1>6, <2>1
<1>8. \A k \in 1..n : \E x \in S : r[x] = k
  <2>1. r \in Injection(S, 1..n)
    BY <1>6, <1>7 DEF Injection, IsInjective
  <2>2. IsFiniteSet(1..n) /\ Cardinality(1..n) = n
    BY <1>1, FS_Interval
  <2>3. r \in Surjection(S, 1..n)
    BY <1>n, <2>1, <2>2, FS_Injection
  <2> QED
    BY <2>3 DEF Surjection
<1>9. ASSUME NEW k \in 1..n PROVE o[k] \in S /\ r[o[k]] = k
  <2>1. PICK x \in S : r[x] = k
    BY <1>8
  <2>2. \A z \in S : r[z] = k <=> Cardinality({y \in S : <<y, z>> \in before}) = k - 1
    <3> SUFFICES ASSUME NEW z \in S
                 PROVE  r[z] = k <=> Cardinality({y \in S : <<y, z>> \in before}) = k - 1
      OBVIOUS
    <3> DEFINE c == Cardinality({y \in S : <<y, z>> \in before})
    <3>1. r[z] = c + 1
      BY <1>d
    <3>2. c \in Nat /\ k \in Nat
      BY <1>1, <1>2 DEF Less
    <3> HIDE DEF c
    <3>3. r[z] = k <=> c = k - 1
      BY <3>1, <3>2
    <3> QED
      BY <3>3 DEF c
  <2>3. \E z \in S : Cardinality({y \in S : <<y, z>> \in before}) = k - 1
    BY <2>1, <2>2
  <2>4. o[k] \in S /\ Cardinality({y \in S : <<y, o[k]>> \in before}) = k - 1
    BY <1>e, <2>3
  <2> QED
    BY <2>2, <2>4
<1>10. \A x \in S : r[x] \in 1..n /\ o[r[x]] = x
  BY <1>6, <1>7, <1>9
<1>11. ASSUME NEW j \in 1..n, NEW k \in 1..n, <<o[j], o[k]>> \in before PROVE j < k
  BY <1>6, <1>9, <1>11
<1>12. ASSUME NEW j \in 1..n, NEW k \in 1..n, j < k PROVE <<o[j], o[k]>> \in before
  <2>1. o[j] # o[k]
    BY <1>9, <1>12
  <2>2. ~(<<o[k], o[j]>> \in before)
    <3>1. ~(k < j)
      BY <1>1, <1>12
    <3> QED
      BY <1>11, <3>1
  <2> QED
    BY <1>9, <2>1, <2>2
<1>13. \A j, k \in 1..n : o[j] = o[k] => j = k
  BY <1>9
<1> QED
  BY <1>1, <1>9, <1>10, <1>11, <1>12, <1>13, <1>f DEF n, o
LEMMA DisjointCount ==
  ASSUME NEW A, NEW C, IsFiniteSet(A), IsFiniteSet(C), A \intersect C = {}
  PROVE  Cardinality(A \union C) = Cardinality(A) + Cardinality(C)
<1>1. Cardinality(A) \in Nat /\ Cardinality(C) \in Nat /\ Cardinality({}) = 0
  BY FS_CardinalityType, FS_EmptySet
<1>2. Cardinality(A \union C) = Cardinality(A) + Cardinality(C) - Cardinality(A \intersect C)
  BY FS_Union
<1>3. Cardinality(A \intersect C) = 0
  BY <1>1
<1> DEFINE a == Cardinality(A)   b == Cardinality(C)   u == Cardinality(A \union C)
           v == Cardinality(A \intersect C)
<1>4. a \in Nat /\ b \in Nat /\ u = a + b - v /\ v = 0
  BY <1>1, <1>2, <1>3
<1> HIDE DEF a, b, u, v
<1>5. u = a + b
  BY <1>4
<1> QED
  BY <1>5 DEF a, b, u

(* A list that is not empty is its front and its last entry.               *)
LEMMA FrontLast ==
  ASSUME NEW C, NEW s \in Seq(C), s # <<>>
  PROVE  /\ Front(s) \in Seq(C) /\ Last(s) \in C /\ s = Append(Front(s), Last(s))
         /\ Len(s) \in Nat \ {0} /\ Len(Front(s)) = Len(s) - 1
<1>1. Len(s) \in Nat \ {0}
  BY EmptySeq
<1>2. \A i \in 1..(Len(s) - 1) : s[i] \in C
  BY <1>1, ElementOfSeq
<1>3. /\ Front(s) \in Seq(C) /\ Len(Front(s)) = Len(s) - 1
      /\ \A i \in 1..(Len(s) - 1) : Front(s)[i] = s[i]
  <2>1. 1 \in Int /\ Len(s) - 1 \in Int
    BY <1>1
  <2>2. /\ SubSeq(s, 1, Len(s) - 1) \in Seq(C)
        /\ Len(SubSeq(s, 1, Len(s) - 1)) = IF 1 <= Len(s) - 1 THEN (Len(s) - 1) - 1 + 1 ELSE 0
        /\ \A i \in 1..((Len(s) - 1) - 1 + 1) : SubSeq(s, 1, Len(s) - 1)[i] = s[1 + i - 1]
    BY <1>2, <2>1, SubSeqProperties
  <2>3. (Len(s) - 1) - 1 + 1 = Len(s) - 1 /\ \A i \in 1..(Len(s) - 1) : 1 + i - 1 = i
    BY <1>1
  <2> QED
    BY <1>1, <2>2, <2>3 DEF Front
<1>4. Last(s) \in C
  BY <1>1, ElementOfSeq DEF Last
<1>5. /\ Append(Front(s), Last(s)) \in Seq(C) /\ Len(Append(Front(s), Last(s))) = Len(s)
      /\ \A i \in 1..(Len(s) - 1) : Append(Front(s), Last(s))[i] = s[i]
      /\ Append(Front(s), Last(s))[Len(s)] = s[Len(s)]
  <2>1. (Len(s) - 1) + 1 = Len(s)
    BY <1>1
  <2>2. /\ Append(Front(s), Last(s)) \in Seq(C)
        /\ Len(Append(Front(s), Last(s))) = Len(Front(s)) + 1
        /\ \A i \in 1..Len(Front(s)) : Append(Front(s), Last(s))[i] = Front(s)[i]
        /\ Append(Front(s), Last(s))[Len(Front(s)) + 1] = Last(s)
    BY <1>3, <1>4, AppendProperties
  <2>3. Append(Front(s), Last(s))[Len(s)] = Last(s)
    BY <1>3, <2>1, <2>2
  <2>4. Last(s) = s[Len(s)]
    BY DEF Last
  <2> QED
    BY <1>3, <2>1, <2>2, <2>3, <2>4
<1>6. \A i \in 1..Len(s) : s[i] = Append(Front(s), Last(s))[i]
  <2>1. \A i \in 1..Len(s) : i \in 1..(Len(s) - 1) \/ i = Len(s)
    BY <1>1
  <2> QED
    BY <1>5, <2>1
<1>7. s = Append(Front(s), Last(s))
  BY <1>5, <1>6, SeqEqual
<1> QED
  BY <1>1, <1>3, <1>4, <1>7

(* Numbers in order, and what is picked by them.                           *)
LEMMA AscendingIs ==
  ASSUME NEW ks, IsFiniteSet(ks), ks \subseteq Int
  PROVE  /\ Cardinality(ks) \in Nat /\ DOMAIN Ascending(ks) = 1..Cardinality(ks)
         /\ \A i \in 1..Cardinality(ks) : Ascending(ks)[i] \in ks
         /\ \A k \in ks : \E i \in 1..Cardinality(ks) : Ascending(ks)[i] = k
         /\ \A i, j \in 1..Cardinality(ks) : i < j => Ascending(ks)[i] < Ascending(ks)[j]
<1> DEFINE less == {p \in ks \X ks : p[1] < p[2]}   o == InOrder(ks, less)   n == Cardinality(ks)
<1>1. \A x, y \in ks : <<x, y>> \in less <=> x < y
  OBVIOUS
<1>2. /\ \A x \in ks : <<x, x>> \notin less
      /\ \A x, y, z \in ks : <<x, y>> \in less /\ <<y, z>> \in less => <<x, z>> \in less
      /\ \A x, y \in ks : x = y \/ <<x, y>> \in less \/ <<y, x>> \in less
  <2> HIDE DEF less
  <2> QED
    BY <1>1
<1>3. Ascending(ks) = o
  BY Zenon DEF Ascending
<1> HIDE DEF less
<1>4. /\ n \in Nat /\ DOMAIN o = 1..n
      /\ \A i \in 1..n : o[i] \in ks
      /\ \A k \in ks : \E i \in 1..n : o[i] = k
      /\ \A i, j \in 1..n : i < j => <<o[i], o[j]>> \in less
  BY <1>2, InOrderIs
<1> HIDE DEF o
<1>5. \A i, j \in 1..n : i < j => o[i] < o[j]
  BY <1>1, <1>4
<1> HIDE DEF n
<1> QED
  BY <1>3, <1>4, <1>5 DEF n

LEMMA PickedIs ==
  ASSUME NEW s, NEW ks, IsFiniteSet(ks), ks \subseteq Nat
  PROVE  /\ Cardinality(ks) \in Nat /\ DOMAIN Picked(s, ks) = 1..Cardinality(ks)
         /\ \A i \in 1..Cardinality(ks) : \E k \in ks : Picked(s, ks)[i] = s[k]
         /\ \A k \in ks : \E i \in 1..Cardinality(ks) : Picked(s, ks)[i] = s[k]
<1> DEFINE n == Cardinality(ks)   o == Ascending(ks)   p == Picked(s, ks)
<1>1. ks \subseteq Int
  OBVIOUS
<1>2. /\ n \in Nat /\ DOMAIN o = 1..n /\ \A i \in 1..n : o[i] \in ks
      /\ \A k \in ks : \E i \in 1..n : o[i] = k
  BY <1>1, AscendingIs
<1>3. p = [i \in DOMAIN o |-> s[o[i]]]
  BY DEF Picked
<1> HIDE DEF o, p, n
<1>4. DOMAIN p = 1..n /\ \A i \in 1..n : p[i] = s[o[i]]
  BY <1>2, <1>3
<1>5. ASSUME NEW i \in 1..n PROVE \E k \in ks : p[i] = s[k]
  BY <1>2, <1>4
<1>6. ASSUME NEW k \in ks PROVE \E i \in 1..n : p[i] = s[k]
  <2>1. PICK i \in 1..n : o[i] = k
    BY <1>2
  <2>2. p[i] = s[o[i]]
    BY <1>4
  <2> QED
    BY <2>1, <2>2
<1> QED
  BY <1>2, <1>4, <1>5, <1>6 DEF p, n

LEMMA MinIn ==
  ASSUME NEW R, IsFiniteSet(R), \A r \in R : r \in Int, R # {}
  PROVE  Min(R) \in R /\ \A r \in R : Min(R) <= r
<1> DEFINE Low(s) == \E m \in s : \A k \in s : m <= k
           T == {s \in SUBSET R : s # {} /\ ~Low(s)}
<1>1. T = {}
  <2> SUFFICES ASSUME T # {} PROVE FALSE
    OBVIOUS
  <2>0. T \subseteq SUBSET R
    OBVIOUS
  <2> HIDE DEF T
  <2>1. PICK s \in T : \A u \in T : u \subseteq s => u = s
    BY <2>0, LeastSubset
  <2>2. s \in SUBSET R /\ s # {} /\ ~Low(s)
    BY <2>1 DEF T
  <2>3. PICK x \in s : TRUE
    BY <2>2
  <2>4. PICK y \in s : ~(x <= y)
    BY <2>2
  <2>5. s \ {x} \in SUBSET R /\ s \ {x} # s /\ s \ {x} # {} /\ x \in Int /\ y \in Int /\ y \in s \ {x}
    BY <2>2, <2>4
  <2>6. Low(s \ {x})
    BY <2>1, <2>5 DEF T
  <2>7. PICK m \in s \ {x} : \A k \in s \ {x} : m <= k
    BY <2>6
  <2>8. m <= x
    BY <2>2, <2>4, <2>5, <2>7
  <2>9. \A k \in s : m <= k
    BY <2>7, <2>8
  <2> QED
    BY <2>2, <2>7, <2>9
<1>2. Low(R)
  BY <1>1
<1> QED
  BY <1>2 DEF Min
-----------------------------------------------------------------------------
(* How far one number, or two, can be from the mean of n: with s the sum   *)
(* of the numbers and q that of their squares, n x - s is n times the       *)
(* distance of x, and n q - s s is n n times the variance.                  *)
LEMMA SquareNat == ASSUME NEW x \in Int PROVE x * x \in Nat
<1>1. CASE x >= 0
  BY <1>1
<1>2. CASE x < 0
  BY <1>2
<1> QED
  BY <1>1, <1>2

LEMMA Expand ==
  ASSUME NEW x \in Int, NEW t \in Int, NEW q \in Int, NEW m \in Int
  PROVE  /\ (x + t) * (x + t) = x * x + 2 * (x * t) + t * t
         /\ (m + 1) * (x * x + q) = m * (x * x) + m * q + x * x + q
         /\ (m * x - t) * (m * x - t) = m * (m * (x * x)) - 2 * (m * (x * t)) + t * t
  OBVIOUS

LEMMA CauchyStep ==
  ASSUME NEW x \in Int, NEW t \in Int, NEW q \in Int, NEW m \in Nat,
         q >= 0, t * t <= m * q
  PROVE  (x + t) * (x + t) <= (m + 1) * (x * x + q)
<1> DEFINE a == x * x   b == x * t   c == m * a - 2 * b + q
<1>1. a \in Int /\ b \in Int /\ c \in Int
  OBVIOUS
<1>2. c >= 0
  <2>1. CASE m = 0
    <3>1. t = 0
      <4>1. t * t <= 0
        BY <2>1
      <4> QED
        BY <4>1
    <3> QED
      BY <2>1, <3>1
  <2>2. CASE m > 0
    <3>1. (m * x - t) * (m * x - t) >= 0
      <4>1. m * x - t \in Int
        OBVIOUS
      <4> QED
        BY <4>1, SquareNat
    <3>2. (m * x - t) * (m * x - t) = m * (m * a) - 2 * (m * b) + t * t
      BY Expand
    <3>3. m * c = m * (m * a) - 2 * (m * b) + m * q
      OBVIOUS
    <3> HIDE DEF a, b, c
    <3>4. m * c >= 0
      <4>1. m * (m * a) \in Int /\ m * b \in Int /\ m * q \in Int /\ t * t \in Int /\ m * c \in Int
        BY <1>1
      <4> QED
        BY <3>1, <3>2, <3>3, <4>1
    <3> QED
      BY <1>1, <2>2, <3>4
  <2> QED
    BY <2>1, <2>2
<1>3. /\ (x + t) * (x + t) = a + 2 * b + t * t
      /\ (m + 1) * (x * x + q) = m * a + m * q + a + q
  BY Expand
<1> HIDE DEF a, b
<1>4. m * a \in Int /\ m * q \in Int /\ t * t \in Int
  BY <1>1
<1> QED
  BY <1>1, <1>2, <1>3, <1>4

(* The largest deviation of one of n numbers, s their sum, q that of their squares. *)
LEMMA OneFar ==
  ASSUME NEW n \in Nat, NEW s \in Int, NEW q \in Int, NEW x \in Int,
         (s - x) * (s - x) <= (n - 1) * (q - x * x)
  PROVE  (n * x - s) * (n * x - s) <= (n - 1) * (n * q - s * s)
<1> DEFINE w == (n - 1) * (q - x * x) - (s - x) * (s - x)
<1>1. w \in Nat
  OBVIOUS
<1>2. (n - 1) * (n * q - s * s) - (n * x - s) * (n * x - s) = n * w
  OBVIOUS
<1> HIDE DEF w
<1>3. n * w >= 0
  BY <1>1
<1>4. (n - 1) * (n * q - s * s) \in Int /\ (n * x - s) * (n * x - s) \in Int /\ n * w \in Int
  BY <1>1
<1> QED
  BY <1>2, <1>3, <1>4

LEMMA TwoFar ==
  ASSUME NEW n \in Nat, NEW s \in Int, NEW q \in Int, NEW x \in Int, NEW y \in Int,
         (s - x - y) * (s - x - y) <= (n - 2) * (q - x * x - y * y)
  PROVE  (n - 2) * ((n * x - s) * (n * x - s) + (n * y - s) * (n * y - s))
           + (n * x + n * y - 2 * s) * (n * x + n * y - 2 * s)
         <= (n - 2) * (n * (n * q - s * s))
<1> DEFINE w == (n - 2) * (q - x * x - y * y) - (s - x - y) * (s - x - y)
           L == (n - 2) * ((n * x - s) * (n * x - s) + (n * y - s) * (n * y - s))
                  + (n * x + n * y - 2 * s) * (n * x + n * y - 2 * s)
           H == (n - 2) * (n * (n * q - s * s))
<1>1. w \in Nat /\ L \in Int /\ H \in Int
  OBVIOUS
<1>2. H - L = n * (n * w)
  OBVIOUS
<1> HIDE DEF w, L, H
<1>3. n * (n * w) >= 0 /\ n * (n * w) \in Int
  BY <1>1
<1>4. L <= H
  BY <1>1, <1>2, <1>3
<1> QED
  BY <1>4 DEF L, H
LEMMA Monotone ==
  ASSUME NEW a \in Int, NEW b \in Int, NEW c \in Nat, a <= b
  PROVE  a * c <= b * c
  OBVIOUS

LEMMA HalvesSquared == ASSUME NEW h \in Nat, h >= 4 PROVE h * h >= 16
<1>1. h * h >= 4 * h
  OBVIOUS
<1> QED
  BY <1>1

(* One of so few numbers is never two deviations above the mean.           *)
LEMMA FewToFlag ==
  ASSUME NEW n \in Nat, n >= 4, NEW d \in Int, d > 0, NEW h \in Nat, h >= 4, NEW e \in Int,
         e * e <= (n - 1) * d, 4 * e * e * (n - 1) >= h * h * n * d
  PROVE  n >= 6
<1>1. h * h * n * d >= 16 * n * d
  <2>1. h * h \in Int /\ n * d \in Nat /\ h * h >= 16
    BY HalvesSquared
  <2>2. 16 * (n * d) <= (h * h) * (n * d)
    BY <2>1, Monotone
  <2>3. h * h * n * d = (h * h) * (n * d)
    OBVIOUS
  <2> QED
    BY <2>1, <2>2, <2>3
<1>2. 16 * n * d <= 4 * e * e * (n - 1)
  BY <1>1
<1>3. CASE n = 4
  BY <1>2, <1>3
<1>4. CASE n = 5
  BY <1>2, <1>4
<1> QED
  BY <1>3, <1>4

(* Two of them are so only from eleven on.                                 *)
LEMMA FewerThanEleven ==
  ASSUME NEW n \in Nat, n >= 4, NEW d \in Int, d > 0, NEW h \in Nat, h >= 4,
         NEW a \in Int, NEW b \in Int, a >= 0, b >= 0,
         4 * a * a * (n - 1) >= h * h * n * d, 4 * b * b * (n - 1) >= h * h * n * d,
         (n - 2) * (a * a + b * b) + (a + b) * (a + b) <= (n - 2) * (n * d)
  PROVE  n >= 11
<1> DEFINE A == a * a    B == b * b   C == a * b
<1>0. A \in Nat /\ B \in Nat /\ C \in Nat
  BY SquareNat
<1>1. h * h * n * d >= 16 * n * d
  <2>1. h * h \in Int /\ n * d \in Nat /\ h * h >= 16
    BY HalvesSquared
  <2>2. 16 * (n * d) <= (h * h) * (n * d)
    BY <2>1, Monotone
  <2>3. h * h * n * d = (h * h) * (n * d)
    OBVIOUS
  <2> QED
    BY <2>1, <2>2, <2>3
<1>2. A * (n - 1) >= 4 * (n * d) /\ B * (n - 1) >= 4 * (n * d)
  <2>1. 4 * a * a * (n - 1) = 4 * (A * (n - 1)) /\ 4 * b * b * (n - 1) = 4 * (B * (n - 1))
    OBVIOUS
  <2>2. 16 * n * d = 4 * (4 * (n * d))
    OBVIOUS
  <2>3. A * (n - 1) \in Int /\ B * (n - 1) \in Int /\ n * d \in Int /\ h * h * n * d \in Int
    OBVIOUS
  <2> QED
    BY <1>1, <2>1, <2>2, <2>3
<1>3. C >= A \/ C >= B
  <2>1. CASE b >= a
    BY <2>1
  <2>2. CASE a >= b
    BY <2>2
  <2> QED
    BY <2>1, <2>2
<1>4. (a + b) * (a + b) = A + B + 2 * C
  OBVIOUS
<1>5. (n - 2) * (A + B) + A + B + 2 * C <= (n - 2) * (n * d)
  BY <1>4
<1> HIDE DEF A, B, C
<1>6. C * (n - 1) >= 4 * (n * d)
  <2>1. CASE C >= A
    BY <1>0, <1>2, <2>1, Monotone
  <2>2. CASE C >= B
    BY <1>0, <1>2, <2>2, Monotone
  <2> QED
    BY <1>3, <2>1, <2>2
<1>7. CASE n \in 4..10
  <2>1. CASE n = 4
    BY <1>0, <1>2, <1>5, <1>6, <2>1
  <2>2. CASE n = 5
    BY <1>0, <1>2, <1>5, <1>6, <2>2
  <2>3. CASE n = 6
    BY <1>0, <1>2, <1>5, <1>6, <2>3
  <2>4. CASE n = 7
    BY <1>0, <1>2, <1>5, <1>6, <2>4
  <2>5. CASE n = 8
    BY <1>0, <1>2, <1>5, <1>6, <2>5
  <2>6. CASE n = 9
    BY <1>0, <1>2, <1>5, <1>6, <2>6
  <2>7. CASE n = 10
    BY <1>0, <1>2, <1>5, <1>6, <2>7
  <2> QED
    BY <1>7, <2>1, <2>2, <2>3, <2>4, <2>5, <2>6, <2>7
<1> QED
  BY <1>7

(* z deviations take more than z * z numbers.                              *)
LEMMA FarNeedsMany ==
  ASSUME NEW n \in Nat, n >= 2, NEW d \in Int, d # 0, NEW z \in Nat, NEW e \in Int,
         e * e <= (n - 1) * d, e * e >= z * z * d
  PROVE  n > z * z
<1>1. e * e >= 0 /\ e * e \in Int /\ z * z \in Nat
  BY SquareNat
<1>2. d > 0
  <2> SUFFICES ASSUME d < 0 PROVE FALSE
    OBVIOUS
  <2>1. (n - 1) * d < 0
    OBVIOUS
  <2> QED
    BY <1>1, <2>1
<1>3. z * z * d <= (n - 1) * d
  BY <1>1
<1>4. ~(z * z >= n)
  <2> SUFFICES ASSUME z * z >= n PROVE FALSE
    OBVIOUS
  <2>1. n * d <= (z * z) * d
    BY <1>1, <1>2, Monotone
  <2>2. (n - 1) * d = n * d - d
    OBVIOUS
  <2> QED
    BY <1>1, <1>2, <1>3, <2>1, <2>2
<1> QED
  BY <1>1, <1>4

(* Sums as the community modules fold them.                                *)
LEMMA SumIs ==
  ASSUME NEW R, IsFiniteSet(R), NEW f, \A r \in R : f[r] \in Int
  PROVE  \E g : Sums(g, f, R) /\ SumFunctionOnSet(f, R) = g[R]
<1> DEFINE It(g) == g = [s \in SUBSET R |-> IF s = {} THEN 0 ELSE f[Pick(s)] + g[s \ {Pick(s)}]]
           h == CHOOSE g : It(g)
<1>2. SumFunctionOnSet(f, R) = h[R]
  BY DEF SumFunctionOnSet, FoldFunctionOnSet, MapThenFoldSet, Pick
<1>3. \E g : Sums(g, f, R)
  BY SumsExist
<1>4. PICK g : It(g) /\ Sums(g, f, R)
  BY <1>3 DEF Sums
<1>5. It(h)
  BY <1>4
<1>6. h[R] = g[R]
  <2> DEFINE T == {s \in SUBSET R : h[s] # g[s]}
  <2> SUFFICES ASSUME T # {} PROVE FALSE
    OBVIOUS
  <2>0. T \subseteq SUBSET R
    OBVIOUS
  <2> HIDE DEF T, h
  <2>1. PICK s \in T : \A u \in T : u \subseteq s => u = s
    BY <2>0, LeastSubset
  <2> USE DEF T
  <2>2. s # {} /\ s \in SUBSET R
    <3>1. {} \in SUBSET R /\ s \in SUBSET R
      BY <2>1
    <3>2. g[{}] = 0 /\ h[{}] = 0
      BY <1>4, <1>5, <3>1
    <3> QED
      BY <2>1, <3>1, <3>2
  <2>3. s \ {Pick(s)} \in SUBSET R /\ s \ {Pick(s)} # s /\ s \ {Pick(s)} \subseteq s
    BY <2>2, PickIn
  <2>4. g[s \ {Pick(s)}] = h[s \ {Pick(s)}]
    BY <2>1, <2>3
  <2> QED
    BY <1>4, <1>5, <2>1, <2>2, <2>4
<1> QED
  BY <1>2, <1>4, <1>6

(* The square of a sum is at most so many times the sum of the squares.    *)
LEMMA SumOfSquares ==
  ASSUME NEW R, IsFiniteSet(R), NEW f, NEW q, \A r \in R : f[r] \in Int /\ q[r] = f[r] * f[r],
         NEW g, NEW h, Sums(g, f, R), Sums(h, q, R)
  PROVE  \A s \in SUBSET R : /\ g[s] \in Int /\ h[s] \in Nat
                             /\ g[s] * g[s] <= Cardinality(s) * h[s]
<1>1. \A r \in R : q[r] \in Nat
  BY SquareNat
<1>2. \A s \in SUBSET R : g[s] \in Int /\ h[s] \in Nat
  BY <1>1, SumsNat DEF Sums
<1> DEFINE T == {s \in SUBSET R : ~(g[s] * g[s] <= Cardinality(s) * h[s])}
<1> SUFFICES ASSUME T # {} PROVE FALSE
  BY <1>2
<1>3. T \subseteq SUBSET R
  OBVIOUS
<1> HIDE DEF T
<1>4. PICK s \in T : \A u \in T : u \subseteq s => u = s
  BY <1>3, LeastSubset
<1> USE DEF T
<1>5. s # {} /\ s \in SUBSET R
  <2>1. {} \in SUBSET R /\ s \in SUBSET R
    BY <1>4
  <2>2. g[{}] = 0 /\ h[{}] = 0
    BY <2>1 DEF Sums
  <2>3. Cardinality({}) = 0
    BY FS_EmptySet
  <2>4. s # {}
    <3> SUFFICES ASSUME s = {} PROVE FALSE
      OBVIOUS
    <3>1. g[s] = 0 /\ h[s] = 0 /\ Cardinality(s) = 0
      BY <2>2, <2>3
    <3> QED
      BY <1>4, <3>1
  <2> QED
    BY <2>1, <2>4
<1> DEFINE p == Pick(s)
           u == s \ {p}
<1>6. p \in s /\ u \in SUBSET R /\ u # s /\ u \subseteq s
  BY <1>5, PickIn
<1>7. g[s] = f[p] + g[u] /\ h[s] = q[p] + h[u]
  BY <1>5 DEF Sums
<1>8. IsFiniteSet(s) /\ IsFiniteSet(u) /\ Cardinality(u) \in Nat /\ Cardinality(s) = Cardinality(u) + 1
  <2>1. IsFiniteSet(s)
    BY <1>5, FS_Subset
  <2>2. IsFiniteSet(u) /\ Cardinality(u) = Cardinality(s) - 1
    BY <1>6, <2>1, FS_RemoveElement
  <2> QED
    BY <2>1, <2>2, FS_CardinalityType
<1>9. g[u] * g[u] <= Cardinality(u) * h[u]
  BY <1>4, <1>6
<1> HIDE DEF p, u
<1>10. f[p] \in Int /\ q[p] = f[p] * f[p] /\ g[u] \in Int /\ h[u] \in Nat
  BY <1>2, <1>5, <1>6
<1>11. (f[p] + g[u]) * (f[p] + g[u]) <= (Cardinality(u) + 1) * (f[p] * f[p] + h[u])
  <2> DEFINE x == f[p]   t == g[u]   w == h[u]   m == Cardinality(u)
  <2>1. x \in Int /\ t \in Int /\ w \in Int /\ w >= 0 /\ m \in Nat /\ t * t <= m * w
    BY <1>8, <1>9, <1>10
  <2> HIDE DEF x, t, w, m
  <2>2. (x + t) * (x + t) <= (m + 1) * (x * x + w)
    BY <2>1, CauchyStep
  <2> QED
    BY <2>2 DEF x, t, w, m
<1>12. g[s] * g[s] <= Cardinality(s) * h[s]
  BY <1>7, <1>8, <1>10, <1>11
<1> QED
  BY <1>4, <1>12

(* What that means for one and for two of the numbers.                     *)
TwoWithin(n, a, b, s, d) ==
  (n - 2) * ((n * a - s) * (n * a - s) + (n * b - s) * (n * b - s))
    + (n * a + n * b - 2 * s) * (n * a + n * b - 2 * s) <= (n - 2) * (n * d)

LEMMA SpreadOfOne ==
  ASSUME NEW R, IsFiniteSet(R), NEW f, NEW q, \A r \in R : f[r] \in Int /\ q[r] = f[r] * f[r],
         NEW n, n = Cardinality(R), NEW s, s = SumFunctionOnSet(f, R),
         NEW k, k = SumFunctionOnSet(q, R), NEW x \in R
  PROVE  /\ n \in Nat /\ s \in Int /\ k \in Nat
         /\ (n * f[x] - s) * (n * f[x] - s) <= (n - 1) * (n * k - s * s)
         /\ \A y \in R : y # x => TwoWithin(n, f[x], f[y], s, n * k - s * s)
<1>1. \A r \in R : q[r] \in Int
  OBVIOUS
<1>2. PICK g : Sums(g, f, R) /\ s = g[R]
  BY SumIs
<1>3. PICK h : Sums(h, q, R) /\ k = h[R]
  BY <1>1, SumIs
<1>4. \A u \in SUBSET R : /\ g[u] \in Int /\ h[u] \in Nat
                          /\ g[u] * g[u] <= Cardinality(u) * h[u]
  BY <1>2, <1>3, SumOfSquares
<1>5. \A u \in SUBSET R : \A r \in u : g[u] = f[r] + g[u \ {r}] /\ h[u] = q[r] + h[u \ {r}]
  <2> SUFFICES ASSUME NEW u \in SUBSET R, NEW r \in u
               PROVE  g[u] = f[r] + g[u \ {r}] /\ h[u] = q[r] + h[u \ {r}]
    OBVIOUS
  <2>1. g[u] = f[r] + g[u \ {r}]
    BY <1>2, SumsRemove
  <2>2. h[u] = q[r] + h[u \ {r}]
    BY <1>1, <1>3, SumsRemove
  <2> QED
    BY <2>1, <2>2
<1>6. n \in Nat /\ s \in Int /\ k \in Nat /\ R \in SUBSET R
  BY <1>2, <1>3, <1>4, FS_CardinalityType
<1> DEFINE u == R \ {x}
<1>7. u \in SUBSET R /\ IsFiniteSet(u) /\ Cardinality(u) = n - 1
  BY FS_RemoveElement
<1>8. g[u] = s - f[x] /\ h[u] = k - f[x] * f[x] /\ f[x] \in Int
  <2>1. s = f[x] + g[u] /\ k = q[x] + h[u] /\ g[u] \in Int /\ h[u] \in Int
    <3>1. g[R] = f[x] + g[R \ {x}] /\ h[R] = q[x] + h[R \ {x}]
      BY <1>5, <1>6
    <3> QED
      BY <1>2, <1>3, <1>4, <1>7, <3>1
  <2> QED
    BY <2>1
<1> HIDE DEF u
<1>9. (n * f[x] - s) * (n * f[x] - s) <= (n - 1) * (n * k - s * s)
  <2>1. (s - f[x]) * (s - f[x]) <= (n - 1) * (k - f[x] * f[x])
    BY <1>4, <1>7, <1>8
  <2> DEFINE a == f[x]
  <2>2. a \in Int /\ k \in Int /\ (s - a) * (s - a) <= (n - 1) * (k - a * a)
    BY <1>6, <1>8, <2>1
  <2> HIDE DEF a
  <2>3. (n * a - s) * (n * a - s) <= (n - 1) * (n * k - s * s)
    BY <1>6, <2>2, OneFar
  <2> QED
    BY <2>3 DEF a
<1>10. ASSUME NEW y \in R, y # x
       PROVE  TwoWithin(n, f[x], f[y], s, n * k - s * s)
  <2> DEFINE v == u \ {y}
  <2>1. y \in u
    BY <1>10 DEF u
  <2>2. v \in SUBSET R /\ Cardinality(v) = n - 2
    <3>1. Cardinality(v) = (n - 1) - 1
      BY <1>7, <2>1, FS_RemoveElement
    <3> QED
      BY <1>6, <1>7, <3>1
  <2>3. g[u] = f[y] + g[v] /\ h[u] = q[y] + h[v] /\ g[v] \in Int /\ h[v] \in Int
    BY <1>4, <1>5, <1>7, <2>1, <2>2
  <2>4. g[v] * g[v] <= Cardinality(v) * h[v]
    BY <1>4, <2>2
  <2> HIDE DEF v
  <2>5. f[y] \in Int /\ q[y] = f[y] * f[y]
    BY <1>10
  <2>6. g[v] = s - f[x] - f[y] /\ h[v] = k - f[x] * f[x] - f[y] * f[y]
    BY <1>6, <1>8, <2>3, <2>5
  <2>7. (s - f[x] - f[y]) * (s - f[x] - f[y]) <= (n - 2) * (k - f[x] * f[x] - f[y] * f[y])
    BY <2>2, <2>4, <2>6
  <2> DEFINE a == f[x]   b == f[y]
  <2>8. a \in Int /\ b \in Int /\ k \in Int /\ (s - a - b) * (s - a - b) <= (n - 2) * (k - a * a - b * b)
    BY <1>6, <1>8, <2>5, <2>7
  <2> HIDE DEF a, b
  <2>9. (n - 2) * ((n * a - s) * (n * a - s) + (n * b - s) * (n * b - s))
          + (n * a + n * b - 2 * s) * (n * a + n * b - 2 * s)
        <= (n - 2) * (n * (n * k - s * s))
    BY <1>6, <2>8, TwoFar
  <2> QED
    BY <2>9 DEF a, b, TwoWithin
<1> QED
  BY <1>6, <1>9, <1>10
-----------------------------------------------------------------------------
(* The pattern analyzer's bursts.                                          *)
LEMMA BucketsAre ==
  ASSUME NEW list \in Inputs
  PROVE  /\ IsFiniteSet(Buckets(list))
         /\ BucketCount(list) \in [Buckets(list) -> Nat]
<1>1. list \in Seq(LogEvent) /\ DOMAIN list = 1..Len(list) /\ Len(list) \in Nat
  BY AnalyzerAssumption
<1>2. IsFiniteSet(DOMAIN list)
  BY <1>1, FS_Interval
<1>3. IsFiniteSet(Buckets(list))
  <2> DEFINE f == [k \in DOMAIN list |-> Bucket(list, list[k])]
  <2>1. f \in Surjection(DOMAIN list, Buckets(list))
    BY DEF Buckets, Surjection
  <2> QED
    BY <1>2, <2>1, FS_Surjection
<1>4. ASSUME NEW b \in Buckets(list)
      PROVE  Cardinality({k \in DOMAIN list : Bucket(list, list[k]) = b}) \in Nat
  BY <1>2, FS_Subset, FS_CardinalityType
<1> QED
  BY <1>3, <1>4 DEF BucketCount, CountIn

-----------------------------------------------------------------------------
(* The cost tools.                                                         *)
LEMMA BackendsAre ==
  /\ ToSet(Backends) = {"aws", "opencost", "kubecost"}
  /\ \A i \in 1..3 : Backends[i] \in ToSet(Backends)
  /\ \A i, j \in 1..3 : Backends[i] = Backends[j] => i = j
  /\ \A b \in ToSet(Backends) : b # "all" /\ \E i \in 1..3 : b = Backends[i]
<1>1. DOMAIN Backends = {1, 2, 3} /\ 1..3 = {1, 2, 3}
  BY DEF Backends
<1>2. Backends[1] = "aws" /\ Backends[2] = "opencost" /\ Backends[3] = "kubecost"
  BY DEF Backends
<1>3. ToSet(Backends) = {Backends[i] : i \in {1, 2, 3}}
  BY <1>1 DEF ToSet
<1> QED
  BY <1>1, <1>2, <1>3

LEMMA UpTo == ASSUME NEW n \in Nat PROVE IsFiniteSet(1..n) /\ Cardinality(1..n) = n
BY FS_Interval

LEMMA OneOn ==
  /\ \A n \in 1..3 : /\ n + 1 \in 1..4 /\ n < n + 1 /\ ~(n < n)
                     /\ \A i \in 1..3 : i # n => (i < n + 1 <=> i < n)
  /\ \A n \in 1..4 : n <= 3 => n \in 1..3
  /\ ~(4 <= 3) /\ \A i \in 1..3 : i < 4 /\ ~(i < 1)
OBVIOUS

LEMMA ExcessInt == ASSUME NEW n \in Nat, NEW x \in Int, NEW s \in Int PROVE n * x - s \in Int
OBVIOUS

LEMMA DayOn ==
  ASSUME NEW day, day \in 1..(Lookback + 1), day <= Lookback, NEW told \in Nat, NEW failed \in Nat,
         told + failed = day - 1
  PROVE  /\ day + 1 \in 1..(Lookback + 1) /\ failed + 1 \in Nat
         /\ (told + 1) + failed = (day + 1) - 1 /\ told + (failed + 1) = (day + 1) - 1
BY CostAssumption

LEMMA Listed ==
  ASSUME NEW S, NEW s \in Seq(S)
  PROVE  /\ Len(s) \in Nat /\ DOMAIN s = 1..Len(s) /\ \A k \in DOMAIN s : s[k] \in S
  OBVIOUS

LEMMA Appended ==
  ASSUME NEW S, NEW s \in Seq(S), NEW x \in S
  PROVE  /\ Append(s, x) \in Seq(S) /\ Len(Append(s, x)) = Len(s) + 1
         /\ DOMAIN Append(s, x) = 1..(Len(s) + 1) /\ Append(s, x)[Len(s) + 1] = x
         /\ \A k \in DOMAIN s : Append(s, x)[k] = s[k]
  OBVIOUS

LEMMA Joined ==
  ASSUME NEW S, NEW s \in Seq(S), NEW t \in Seq(S)
  PROVE  s \o t \in Seq(S) /\ s \o <<>> = s /\ <<>> \in Seq(S) /\ <<>> \o <<>> = <<>>
  OBVIOUS

(* The days that were told, in order.                                      *)
DayRow == [date : Nat, amount : Nat]
SeriesInv ==
  /\ cost.at \in {"collect", "done"} /\ cost.failed \in Nat /\ cost.series \in Seq(DayRow)
  /\ cost.provider # "aws" =>
       /\ cost.day \in 1..(Lookback + 1) /\ Len(cost.series) + cost.failed = cost.day - 1
       /\ \A k \in DOMAIN cost.series : cost.series[k].date < cost.day
  /\ cost.provider = "aws" =>
       /\ cost.failed = 0 \/ cost.series = <<>>
       /\ cost.day = 1 => cost.failed = 0 /\ cost.series = <<>>
  /\ \A j, k \in DOMAIN cost.series : j < k => cost.series[j].date < cost.series[k].date
  /\ cost.at = "done" =>
       /\ cost.provider # "aws" => cost.day = Lookback + 1
       /\ cost.status = StatusOf(cost)
       /\ cost.flagged = IF StatusOf(cost) = "success" THEN Flagged(cost.series) ELSE {}

(* Of the backends before the next those asked for have been asked.        *)
SpendRow == [provider : ToSet(Backends), name : STRING, cost : Int]
SpendInv ==
  /\ spend.which \in ToSet(Backends) \union {"all"} /\ spend.limit \in Nat
  /\ spend.next \in 1..4 /\ spend.ended \in BOOLEAN
  /\ spend.status \in [ToSet(Backends) -> {"not asked", "success", "unavailable"}]
  /\ \A i \in 1..3 : (spend.status[Backends[i]] # "not asked")
                       <=> (i < spend.next /\ spend.which \in {Backends[i], "all"})
  /\ spend.rows \in Seq(SpendRow)
  /\ (\A b \in ToSet(Backends) : spend.status[b] # "success") => spend.rows = <<>>
  /\ spend.ended => spend.next = 4 /\ spend.top \in RankedRows(spend.rows, spend.limit)

CostKind ==
  /\ cost = [provider |-> cost.provider, at |-> cost.at, day |-> cost.day, series |-> cost.series, failed |-> cost.failed,
             status |-> cost.status, flagged |-> cost.flagged]
  /\ spend = [limit |-> spend.limit, which |-> spend.which, next |-> spend.next, rows |-> spend.rows,
              top |-> spend.top, status |-> spend.status, total |-> spend.total, ended |-> spend.ended]
CostInv == CostKind /\ SeriesInv /\ SpendInv

(* How many numbers it takes for one of them, and for two, to be flagged.  *)
LEMMA FlaggedIs ==
  ASSUME NEW series \in Seq(DayRow), Halves >= 4
  PROVE  /\ Len(series) < 6 => Flagged(series) = {}
         /\ Len(series) < 11 =>
              \A i, j \in DOMAIN series : series[i] \in Flagged(series) /\ series[j] \in Flagged(series) => i = j
<1> DEFINE R == DOMAIN series   n == Len(series)
           f == [k \in R |-> series[k].amount]   q == [k \in R |-> series[k].amount * series[k].amount]
           s == SumOf(series)   k == SquaresOf(series)   d == n * k - s * s
<1>1. R = 1..n /\ n \in Nat /\ IsFiniteSet(R) /\ Cardinality(R) = n
  <2>1. R = 1..n /\ n \in Nat
    BY Listed
  <2>2. IsFiniteSet(1..n) /\ Cardinality(1..n) = n
    BY <2>1, UpTo
  <2> QED
    BY <2>1, <2>2
<1>2. \A r \in R : f[r] \in Int /\ q[r] = f[r] * f[r]
  <2>1. \A r \in R : series[r] \in DayRow
    BY Listed
  <2>2. \A r \in R : series[r].amount \in Int
    BY <2>1 DEF DayRow
  <2> HIDE DEF R
  <2> QED
    BY <2>2
<1>3. s = SumFunctionOnSet(f, R) /\ k = SumFunctionOnSet(q, R)
  BY DEF SumOf, SquaresOf, SumFunction
<1>4. \A x \in R : series[x] \in Flagged(series) =>
        /\ n >= 4 /\ d # 0 /\ n * f[x] - s >= 0
        /\ 4 * (n * f[x] - s) * (n * f[x] - s) * (n - 1) >= Halves * Halves * n * d
  BY DEF Flagged
<1>5. \A e \in Flagged(series) : \E x \in R : e = series[x]
  BY DEF Flagged, ToSet
<1> HIDE DEF R, n, f, q, s, k
<1>6. ASSUME NEW x \in R, series[x] \in Flagged(series)
      PROVE  /\ n >= 4 /\ n \in Nat /\ d \in Int /\ d > 0 /\ f[x] \in Int /\ s \in Int
             /\ (n * f[x] - s) * (n * f[x] - s) <= (n - 1) * d
             /\ 4 * (n * f[x] - s) * (n * f[x] - s) * (n - 1) >= Halves * Halves * n * d
             /\ n * f[x] - s >= 0
  <2>1. /\ n \in Nat /\ s \in Int /\ k \in Nat
        /\ (n * f[x] - s) * (n * f[x] - s) <= (n - 1) * (n * k - s * s)
    BY <1>1, <1>2, <1>3, SpreadOfOne
  <2>2. n >= 4 /\ d # 0 /\ f[x] \in Int
    BY <1>2, <1>4, <1>6
  <2> DEFINE e == n * f[x] - s
  <2>3. e \in Int /\ d \in Int /\ e * e <= (n - 1) * d
    BY <2>1, <2>2
  <2>4. d > 0
    <3>1. e * e >= 0
      BY <2>3, SquareNat
    <3> HIDE DEF d, e
    <3> SUFFICES ASSUME d < 0 PROVE FALSE
      BY <2>2, <2>3
    <3>2. (n - 1) * d < 0
      BY <2>1, <2>2, <2>3
    <3> QED
      BY <2>1, <2>3, <3>1, <3>2
  <2> QED
    BY <1>4, <1>6, <2>1, <2>2, <2>3, <2>4
<1>a. ASSUME NEW x \in R, NEW y \in R, x # y
      PROVE  TwoWithin(n, f[x], f[y], s, d)
  BY <1>1, <1>2, <1>3, <1>a, SpreadOfOne
<1> HIDE DEF d
<1>7. Halves \in Nat
  BY CostAssumption
<1>8. n < 6 => Flagged(series) = {}
  <2> SUFFICES ASSUME Flagged(series) # {} PROVE n >= 6
    BY <1>1
  <2>1. PICK x \in R : series[x] \in Flagged(series)
    BY <1>5
  <2> DEFINE e == n * f[x] - s
  <2>2. /\ n >= 4 /\ n \in Nat /\ d \in Int /\ d > 0 /\ e \in Int
        /\ e * e <= (n - 1) * d /\ 4 * e * e * (n - 1) >= Halves * Halves * n * d
    BY <1>6, <2>1
  <2> HIDE DEF e
  <2> QED
    BY <1>7, <2>2, FewToFlag
<1>9. ASSUME n < 11, NEW i \in R, NEW j \in R, series[i] \in Flagged(series), series[j] \in Flagged(series)
      PROVE  i = j
  <2> SUFFICES ASSUME i # j PROVE FALSE
    OBVIOUS
  <2> DEFINE a == n * f[i] - s   b == n * f[j] - s
  <2>1. /\ n >= 4 /\ n \in Nat /\ d \in Int /\ d > 0 /\ a \in Int /\ b \in Int /\ a >= 0 /\ b >= 0
        /\ 4 * a * a * (n - 1) >= Halves * Halves * n * d /\ 4 * b * b * (n - 1) >= Halves * Halves * n * d
    <3>1. /\ n >= 4 /\ n \in Nat /\ d \in Int /\ d > 0 /\ f[i] \in Int /\ s \in Int /\ a >= 0
          /\ 4 * a * a * (n - 1) >= Halves * Halves * n * d
      BY <1>6, <1>9
    <3>2. /\ f[j] \in Int /\ b >= 0 /\ 4 * b * b * (n - 1) >= Halves * Halves * n * d
      BY <1>6, <1>9
    <3>3. a \in Int /\ b \in Int
      BY <3>1, <3>2, ExcessInt
    <3> HIDE DEF a, b
    <3> QED
      BY <3>1, <3>2, <3>3
  <2>2. (n - 2) * (a * a + b * b) + (n * f[i] + n * f[j] - 2 * s) * (n * f[i] + n * f[j] - 2 * s)
        <= (n - 2) * (n * d)
    BY <1>9, <1>a DEF TwoWithin
  <2>3. n * f[i] + n * f[j] - 2 * s = a + b
    <3> DEFINE u == n * f[i]   v == n * f[j]
    <3>1. f[i] \in Int /\ s \in Int /\ n \in Nat
      BY <1>6, <1>9
    <3>2. f[j] \in Int
      BY <1>6, <1>9
    <3>3. u \in Int /\ v \in Int
      BY <3>1, <3>2
    <3> HIDE DEF u, v
    <3>4. u + v - 2 * s = (u - s) + (v - s)
      BY <3>1, <3>3
    <3> QED
      BY <3>4 DEF u, v
  <2>4. (n - 2) * (a * a + b * b) + (a + b) * (a + b) <= (n - 2) * (n * d)
    BY <2>2, <2>3
  <2> HIDE DEF a, b
  <2>5. n >= 11
    BY <1>7, <2>1, <2>4, FewerThanEleven
  <2> QED
    BY <1>9, <2>1, <2>5
<1> QED
  BY <1>8, <1>9 DEF n, R

LEMMA CostInitInv == CostInit => CostInv
<1> SUFFICES ASSUME NEW limit \in Limits, NEW which \in ToSet(Backends) \union {"all"},
                    NEW provider \in ToSet(Backends), CostStart(limit, which, provider)
             PROVE  CostInv
  BY DEF CostInit
<1>1. Lookback \in Nat /\ limit \in Nat
  BY CostAssumption
<1>2. CostKind
  BY DEF CostStart, CostKind
<1>3. SeriesInv
  <2>1. cost.at = "collect" /\ cost.day = 1 /\ cost.series = <<>> /\ cost.failed = 0
    BY DEF CostStart
  <2>2. <<>> \in Seq(DayRow) /\ Len(<<>>) = 0 /\ DOMAIN <<>> = {} /\ 1 \in 1..(Lookback + 1)
    BY <1>1
  <2> QED
    BY <2>1, <2>2 DEF SeriesInv
<1>4. SpendInv
  <2>1. /\ spend.limit = limit /\ spend.which = which /\ spend.next = 1 /\ spend.rows = <<>>
        /\ spend.status = [b \in ToSet(Backends) |-> "not asked"] /\ spend.ended = FALSE
    BY DEF CostStart
  <2>2. \A i \in 1..3 : ~(i < 1) /\ spend.status[Backends[i]] = "not asked"
    BY <2>1, BackendsAre, OneOn
  <2>3. spend.status \in [ToSet(Backends) -> {"not asked", "success", "unavailable"}]
    BY <2>1
  <2>4. 1 \in 1..4 /\ <<>> \in Seq(SpendRow)
    OBVIOUS
  <2> QED
    BY <1>1, <2>1, <2>2, <2>3, <2>4 DEF SpendInv
<1> QED
  BY <1>2, <1>3, <1>4 DEF CostInv

LEMMA AnomalyStep == CostInv /\ AnomalyNext => CostInv'
<1> SUFFICES ASSUME CostInv, AnomalyNext PROVE CostInv'
  OBVIOUS
<1> USE DEF CostInv
<1>0. spend' = spend /\ Lookback \in Nat
  BY CostAssumption DEF AnomalyNext, SeriesUnavailable, WholeSeries, DayUnavailable, Judge, Day
<1>1. SpendInv'
  BY <1>0 DEF SpendInv
<1>2. ASSUME NEW amount \in Amounts, Day(amount) PROVE CostKind' /\ SeriesInv'
  <2> DEFINE row == [date |-> cost.day, amount |-> amount]
  <2>1. /\ cost.at = "collect" /\ cost.provider # "aws" /\ cost.day <= Lookback
        /\ cost' = [provider |-> cost.provider, at |-> "collect", day |-> cost.day + 1,
                    series |-> Append(cost.series, row),
                    failed |-> cost.failed, status |-> cost.status, flagged |-> cost.flagged]
    BY <1>2 DEF Day, CostKind
  <2>2. row \in DayRow /\ row.date = cost.day /\ cost.day \in Nat /\ cost.series \in Seq(DayRow)
    BY <1>0, <2>1, CostAssumption DEF DayRow, SeriesInv
  <2>3. /\ Append(cost.series, row) \in Seq(DayRow)
        /\ Len(Append(cost.series, row)) = Len(cost.series) + 1 /\ Len(cost.series) \in Nat
        /\ \A k \in DOMAIN Append(cost.series, row) :
             IF k = Len(cost.series) + 1 THEN Append(cost.series, row)[k] = row
             ELSE k \in DOMAIN cost.series /\ Append(cost.series, row)[k] = cost.series[k]
    <3>1. Len(cost.series) \in Nat /\ DOMAIN cost.series = 1..Len(cost.series)
      BY <2>2, Listed
    <3> HIDE DEF row
    <3> QED
      BY <2>2, <3>1, Appended
  <2>a. \A k \in DOMAIN cost.series : cost.series[k].date \in Nat /\ cost.series[k].date < cost.day
    <3>1. \A k \in DOMAIN cost.series : cost.series[k] \in DayRow
      BY <2>2, Listed
    <3> QED
      BY <2>1, <3>1 DEF DayRow, SeriesInv
  <2> HIDE DEF row
  <2>4. \A k \in DOMAIN Append(cost.series, row) : Append(cost.series, row)[k].date < cost.day + 1
    <3> SUFFICES ASSUME NEW k \in DOMAIN Append(cost.series, row)
                 PROVE  Append(cost.series, row)[k].date < cost.day + 1
      OBVIOUS
    <3>1. CASE k = Len(cost.series) + 1
      BY <2>2, <2>3, <3>1
    <3>2. CASE k # Len(cost.series) + 1
      BY <2>2, <2>3, <2>a, <3>2
    <3> QED
      BY <3>1, <3>2
  <2>5. \A j, k \in DOMAIN Append(cost.series, row) :
          j < k => Append(cost.series, row)[j].date < Append(cost.series, row)[k].date
    <3> SUFFICES ASSUME NEW j \in DOMAIN Append(cost.series, row), NEW k \in DOMAIN Append(cost.series, row), j < k
                 PROVE  Append(cost.series, row)[j].date < Append(cost.series, row)[k].date
      OBVIOUS
    <3>1. j # Len(cost.series) + 1
      <4>1. DOMAIN Append(cost.series, row) = 1..(Len(cost.series) + 1)
        BY <2>2, Appended
      <4> QED
        BY <2>3, <4>1
    <3>2. j \in DOMAIN cost.series /\ Append(cost.series, row)[j] = cost.series[j]
      BY <2>3, <3>1
    <3>3. CASE k = Len(cost.series) + 1
      BY <2>2, <2>3, <2>a, <3>2, <3>3
    <3>4. CASE k # Len(cost.series) + 1
      BY <2>3, <3>2, <3>4 DEF SeriesInv
    <3> QED
      BY <3>3, <3>4
  <2>6. CostKind'
    BY <1>0, <2>1 DEF CostKind
  <2>7. /\ cost'.at = "collect" /\ cost'.day = cost.day + 1 /\ cost'.series = Append(cost.series, row)
        /\ cost'.failed = cost.failed /\ cost'.provider # "aws"
    BY <2>1
  <2>8. /\ cost.day + 1 \in 1..(Lookback + 1) /\ cost.failed \in Nat
        /\ Len(Append(cost.series, row)) + cost.failed = (cost.day + 1) - 1
    <3>1. /\ Len(cost.series) \in Nat /\ cost.failed \in Nat /\ cost.day \in 1..(Lookback + 1)
          /\ Len(cost.series) + cost.failed = cost.day - 1
      BY <2>1, Listed DEF SeriesInv
    <3>2. cost.day <= Lookback
      BY <2>1
    <3>3. Len(Append(cost.series, row)) = Len(cost.series) + 1
      BY <2>3
    <3> QED
      BY SMTT(20), <3>1, <3>2, <3>3, DayOn
  <2>9. SeriesInv'
    <3> DEFINE more == Append(cost.series, row)
    <3>1. /\ more \in Seq(DayRow) /\ Len(more) + cost.failed = (cost.day + 1) - 1
          /\ \A k \in DOMAIN more : more[k].date < cost.day + 1
          /\ \A j, k \in DOMAIN more : j < k => more[j].date < more[k].date
      BY <2>3, <2>4, <2>5, <2>8
    <3>2. cost'.series = more
      BY <2>7
    <3> HIDE DEF more
    <3> QED
      BY <3>1, <3>2, <2>7, <2>8 DEF SeriesInv
  <2> QED
    BY <2>6, <2>9
<1>3. ASSUME DayUnavailable PROVE CostKind' /\ SeriesInv'
  <2>1. /\ cost.at = "collect" /\ cost.provider # "aws" /\ cost.day <= Lookback
        /\ cost' = [provider |-> cost.provider, at |-> "collect", day |-> cost.day + 1, series |-> cost.series,
                    failed |-> cost.failed + 1, status |-> cost.status, flagged |-> cost.flagged]
    BY <1>3 DEF DayUnavailable, CostKind
  <2>2. \A k \in DOMAIN cost.series : cost.series[k].date < cost.day + 1
    <3> SUFFICES ASSUME NEW k \in DOMAIN cost.series PROVE cost.series[k].date < cost.day + 1
      OBVIOUS
    <3>0. cost.series[k] \in DayRow
      BY Listed DEF SeriesInv
    <3>1. cost.series[k].date \in Nat /\ cost.series[k].date < cost.day /\ cost.day \in Nat
      BY <1>0, <2>1, <3>0 DEF SeriesInv, DayRow
    <3> QED
      BY <3>1
  <2>3. CostKind'
    BY <1>0, <2>1 DEF CostKind
  <2>7. /\ cost'.at = "collect" /\ cost'.day = cost.day + 1 /\ cost'.series = cost.series
        /\ cost'.failed = cost.failed + 1 /\ cost'.provider # "aws"
    BY <2>1
  <2>8. /\ cost.day + 1 \in 1..(Lookback + 1) /\ cost.failed + 1 \in Nat
        /\ Len(cost.series) + (cost.failed + 1) = (cost.day + 1) - 1
    <3>1. /\ Len(cost.series) \in Nat /\ cost.failed \in Nat /\ cost.day \in 1..(Lookback + 1)
          /\ Len(cost.series) + cost.failed = cost.day - 1
      BY <2>1, Listed DEF SeriesInv
    <3> QED
      BY <2>1, <3>1, DayOn
  <2>9. SeriesInv'
    BY <2>2, <2>7, <2>8 DEF SeriesInv
  <2> QED
    BY <2>3, <2>9
<1>4. ASSUME Judge PROVE CostKind' /\ SeriesInv'
  <2>1. /\ cost.at = "collect" /\ (cost.provider # "aws" => cost.day > Lookback)
        /\ cost' = [provider |-> cost.provider, at |-> "done", day |-> cost.day, series |-> cost.series, failed |-> cost.failed,
                    status |-> StatusOf(cost),
                    flagged |-> IF StatusOf(cost) = "success" THEN Flagged(cost.series) ELSE {}]
    BY <1>4 DEF Judge, CostKind
  <2>2. cost.provider # "aws" => cost.day = Lookback + 1
    BY <1>0, <2>1 DEF SeriesInv
  <2>3. CostKind'
    BY <1>0, <2>1 DEF CostKind
  <2>4. StatusOf(cost)' = StatusOf(cost)
    BY <2>1 DEF StatusOf
  <2> QED
    BY <1>0, <2>1, <2>2, <2>3, <2>4 DEF SeriesInv
<1>5. ASSUME NEW amounts \in Statements, WholeSeries(amounts) PROVE CostKind' /\ SeriesInv'
  <2> DEFINE told == [k \in DOMAIN amounts |-> [date |-> k, amount |-> amounts[k]]]
  <2>1. /\ cost.at = "collect" /\ cost.provider = "aws" /\ cost.day = 1
        /\ cost' = [provider |-> "aws", at |-> "collect", day |-> Lookback + 2, series |-> told,
                    failed |-> cost.failed, status |-> cost.status, flagged |-> cost.flagged]
    BY <1>5 DEF WholeSeries, CostKind
  <2>2. told \in Seq(DayRow) /\ \A j, k \in DOMAIN told : j < k => told[j].date < told[k].date
    <3>1. amounts \in Seq(Nat)
      BY CostAssumption
    <3>2. \A k \in 1..Len(amounts) : [date |-> k, amount |-> amounts[k]] \in DayRow
      BY <3>1 DEF DayRow
    <3> QED
      BY <3>1, <3>2
  <2> HIDE DEF told
  <2>3. cost.failed = 0
    BY <2>1 DEF SeriesInv
  <2>4. CostKind'
    BY <1>0, <2>1 DEF CostKind
  <2>5. /\ cost'.at = "collect" /\ cost'.provider = "aws" /\ cost'.day = Lookback + 2
        /\ cost'.series = told /\ cost'.failed = 0 /\ Lookback + 2 # 1
    BY <1>0, <2>1, <2>3
  <2>6. SeriesInv'
    BY <2>2, <2>5 DEF SeriesInv
  <2> QED
    BY <2>4, <2>6
<1>6. ASSUME SeriesUnavailable PROVE CostKind' /\ SeriesInv'
  <2>1. /\ cost.at = "collect" /\ cost.provider = "aws" /\ cost.day = 1
        /\ cost' = [provider |-> "aws", at |-> "collect", day |-> Lookback + 2, series |-> cost.series,
                    failed |-> 1, status |-> cost.status, flagged |-> cost.flagged]
    BY <1>6 DEF SeriesUnavailable, CostKind
  <2>2. cost.series = <<>> /\ cost.series \in Seq(DayRow)
    BY <2>1 DEF SeriesInv
  <2>3. CostKind'
    BY <1>0, <2>1 DEF CostKind
  <2>4. /\ cost'.at = "collect" /\ cost'.provider = "aws" /\ cost'.day = Lookback + 2
        /\ cost'.series = <<>> /\ cost'.failed = 1 /\ Lookback + 2 # 1 /\ cost'.series \in Seq(DayRow)
    BY <1>0, <2>1, <2>2
  <2>5. SeriesInv'
    BY <2>4 DEF SeriesInv
  <2> QED
    BY <2>3, <2>5
<1> QED
  BY <1>1, <1>2, <1>3, <1>4, <1>5, <1>6 DEF AnomalyNext

(* A backend has been passed over, has answered or has failed.             *)
LEMMA BackendDone ==
  ASSUME CostInv, NEW b \in ToSet(Backends), Asking(b), cost' = cost, ~spend.ended,
         NEW said \in {"not asked", "success", "unavailable"}, NEW rows \in Seq(SpendRow),
         (said = "not asked") <=> (spend.which \notin {b, "all"}), said # "success" => rows = <<>>,
         NEW total,
         spend' = [limit |-> spend.limit, which |-> spend.which, next |-> spend.next + 1,
                   rows |-> spend.rows \o rows, top |-> spend.top,
                   status |-> [spend.status EXCEPT ![b] = said], total |-> total, ended |-> spend.ended]
  PROVE  CostInv'
<1> USE DEF CostInv
<1>1. CostKind' /\ SeriesInv'
  BY DEF CostKind, SeriesInv, StatusOf
<1>2. spend.next \in 1..3 /\ b = Backends[spend.next]
  <2>1. spend.next \in 1..4 /\ spend.next <= 3 /\ Backends[spend.next] = b
    BY DEF Asking, SpendInv
  <2> QED
    BY <2>1, OneOn
<1>3. spend.status \in [ToSet(Backends) -> {"not asked", "success", "unavailable"}]
  BY DEF SpendInv
<1> DEFINE after == [spend.status EXCEPT ![b] = said]
<1>4. /\ after \in [ToSet(Backends) -> {"not asked", "success", "unavailable"}]
      /\ after[b] = said /\ \A c \in ToSet(Backends) : c # b => after[c] = spend.status[c]
  BY <1>3
<1> HIDE DEF after
<1>5. \A i \in 1..3 : (after[Backends[i]] # "not asked")
                        <=> (i < spend.next + 1 /\ spend.which \in {Backends[i], "all"})
  <2> SUFFICES ASSUME NEW i \in 1..3
               PROVE  (after[Backends[i]] # "not asked")
                        <=> (i < spend.next + 1 /\ spend.which \in {Backends[i], "all"})
    OBVIOUS
  <2>1. CASE i = spend.next
    <3>1. after[Backends[i]] = said /\ i < spend.next + 1 /\ Backends[i] = b
      BY <1>2, <1>4, <2>1, OneOn
    <3> QED
      BY <3>1
  <2>2. CASE i # spend.next
    <3>1. Backends[i] # b /\ Backends[i] \in ToSet(Backends)
      BY <1>2, <2>2, BackendsAre
    <3>2. (i < spend.next + 1) <=> (i < spend.next)
      BY <1>2, <2>2, OneOn
    <3> QED
      BY <1>4, <3>1, <3>2 DEF SpendInv
  <2> QED
    BY <2>1, <2>2
<1>6. spend.rows \in Seq(SpendRow) /\ spend.rows \o rows \in Seq(SpendRow)
  <2>1. spend.rows \in Seq(SpendRow)
    BY DEF SpendInv
  <2> QED
    BY <2>1, Joined
<1>7. (\A c \in ToSet(Backends) : after[c] # "success") => spend.rows \o rows = <<>>
  <2> SUFFICES ASSUME \A c \in ToSet(Backends) : after[c] # "success" PROVE spend.rows \o rows = <<>>
    OBVIOUS
  <2>1. said # "success" /\ rows = <<>>
    BY <1>4
  <2>2. spend.status[b] # "success"
    <3>1. (spend.status[b] # "not asked") <=> (spend.next < spend.next /\ spend.which \in {b, "all"})
      BY <1>2 DEF SpendInv
    <3>2. ~(spend.next < spend.next)
      BY <1>2, OneOn
    <3> QED
      BY <3>1, <3>2
  <2>3. spend.rows = <<>>
    BY <1>4, <2>2 DEF SpendInv
  <2> QED
    BY <2>1, <2>3, Joined
<1>8. SpendInv'
  <2>1. /\ spend'.which = spend.which /\ spend'.limit = spend.limit /\ spend'.next = spend.next + 1
        /\ spend'.status = after /\ spend'.rows = spend.rows \o rows /\ spend'.ended = spend.ended
    BY DEF after
  <2>2. /\ spend.which \in ToSet(Backends) \union {"all"} /\ spend.limit \in Nat /\ spend.ended = FALSE
    BY DEF SpendInv
  <2>3. spend.next + 1 \in 1..4
    BY <1>2, OneOn
  <2> QED
    BY <1>4, <1>5, <1>6, <1>7, <2>1, <2>2, <2>3 DEF SpendInv
<1> QED
  BY <1>1, <1>8

LEMMA SpendersStep == CostInv /\ SpendersNext => CostInv'
<1> SUFFICES ASSUME CostInv, SpendersNext PROVE CostInv'
  OBVIOUS
<1> USE DEF CostInv
<1>0. spend.status \in [ToSet(Backends) -> {"not asked", "success", "unavailable"}]
  BY DEF SpendInv
<1>1. \A b \in ToSet(Backends) : Asking(b) => ~spend.ended
  BY OneOn DEF SpendInv, Asking
<1>a. spend.rows \in Seq(SpendRow) /\ spend.rows \o <<>> = spend.rows /\ <<>> \in Seq(SpendRow)
  <2>1. spend.rows \in Seq(SpendRow)
    BY DEF SpendInv
  <2> QED
    BY <2>1, Joined
<1>2. ASSUME NEW b \in ToSet(Backends), Passed(b) PROVE CostInv'
  <2>1. Asking(b) /\ spend.which \notin {b, "all"} /\ cost' = cost
    BY <1>2 DEF Passed
  <2>2. spend.status[b] = "not asked"
    <3>0. spend.next \in 1..4 /\ spend.next <= 3 /\ Backends[spend.next] = b
      BY <2>1 DEF Asking, SpendInv
    <3>1. spend.next \in 1..3 /\ b = Backends[spend.next]
      BY <3>0, OneOn
    <3>2. spend.status[Backends[spend.next]] # "not asked" => spend.which \in {Backends[spend.next], "all"}
      BY <3>1 DEF SpendInv
    <3> QED
      BY <2>1, <3>1, <3>2
  <2>3. [spend.status EXCEPT ![b] = "not asked"] = spend.status
    BY <1>0, <2>2
  <2>5. spend' = [limit |-> spend.limit, which |-> spend.which, next |-> spend.next + 1,
                  rows |-> spend.rows, top |-> spend.top, status |-> spend.status,
                  total |-> spend.total, ended |-> spend.ended]
    BY <1>2 DEF Passed, CostKind
  <2> QED
    BY <1>1, <1>a, <2>1, <2>3, <2>5, BackendDone
<1>3. ASSUME NEW b \in ToSet(Backends), BackendFails(b) PROVE CostInv'
  <2>1. Asking(b) /\ spend.which \in {b, "all"} /\ cost' = cost
    BY <1>3 DEF BackendFails
  <2>5. spend' = [limit |-> spend.limit, which |-> spend.which, next |-> spend.next + 1,
                  rows |-> spend.rows, top |-> spend.top,
                  status |-> [spend.status EXCEPT ![b] = "unavailable"],
                  total |-> spend.total, ended |-> spend.ended]
    BY <1>3 DEF BackendFails, Missed, CostKind
  <2> QED
    BY <1>1, <1>a, <2>1, <2>5, BackendDone
<1>4. ASSUME NEW b \in ToSet(Backends), NEW rows \in Answers[b], BackendAnswers(b, rows) PROVE CostInv'
  <2> DEFINE more == [k \in DOMAIN rows |-> [provider |-> b, name |-> rows[k].name, cost |-> rows[k].cost]]
  <2>1. Asking(b) /\ spend.which \in {b, "all"} /\ cost' = cost
    BY <1>4 DEF BackendAnswers
  <2>2. more \in Seq(SpendRow)
    <3>1. rows \in Seq(Row)
      BY CostAssumption
    <3>2. DOMAIN rows = 1..Len(rows) /\ Len(rows) \in Nat /\ \A k \in DOMAIN rows : rows[k] \in Row
      BY <3>1, Listed
    <3>3. \A k \in DOMAIN rows : rows[k].name \in STRING /\ rows[k].cost \in Int
      BY <3>2 DEF Row
    <3>4. \A k \in 1..Len(rows) : more[k] \in SpendRow
      BY <3>2, <3>3 DEF SpendRow
    <3> HIDE DEF SpendRow
    <3> QED
      BY <3>2, <3>4
  <2>5. spend' = [limit |-> spend.limit, which |-> spend.which, next |-> spend.next + 1,
                  rows |-> spend.rows \o more, top |-> spend.top,
                  status |-> [spend.status EXCEPT ![b] = "success"],
                  total |-> [spend.total EXCEPT ![b] = Billed(rows)], ended |-> spend.ended]
    BY <1>4 DEF BackendAnswers, Taken, CostKind
  <2> HIDE DEF more
  <2> QED
    BY <1>1, <2>1, <2>2, <2>5, BackendDone
<1>5. ASSUME FinishSpenders PROVE CostInv'
  <2>1. PICK top \in RankedRows(spend.rows, spend.limit) :
          spend' = [limit |-> spend.limit, which |-> spend.which, next |-> spend.next, rows |-> spend.rows,
                    top |-> top, status |-> spend.status, total |-> spend.total, ended |-> TRUE]
    BY <1>5 DEF FinishSpenders, CostKind
  <2>2. cost' = cost /\ spend.next = 4
    BY <1>5 DEF FinishSpenders
  <2>3. CostKind' /\ SeriesInv'
    BY <2>1, <2>2 DEF CostKind, SeriesInv, StatusOf
  <2>4. SpendInv'
    BY <2>1, <2>2 DEF SpendInv
  <2> QED
    BY <2>3, <2>4
<1> QED
  BY <1>2, <1>3, <1>4, <1>5 DEF SpendersNext

(* Nothing dearer than a row of the ranking stands behind it.              *)
LEMMA RankingIs ==
  ASSUME NEW rows \in Seq(SpendRow), NEW limit \in Nat, NEW top \in RankedRows(rows, limit)
  PROVE  /\ DOMAIN top = Shown(rows, limit)
         /\ \A k \in DOMAIN top : \A j \in DOMAIN rows :
              rows[j].cost > rows[top[k]].cost => \E m \in DOMAIN top : m < k /\ top[m] = j
<1>1. PICK r \in DearestFirst(rows, DOMAIN rows) : top = [k \in Shown(rows, limit) |-> r[k]]
  BY DEF RankedRows
<1>2. /\ r \in [DOMAIN rows -> DOMAIN rows]
      /\ \A m, n \in DOMAIN rows : m < n => Dearer(rows, r[m], r[n])
      /\ \A k \in DOMAIN rows : \E m \in DOMAIN rows : r[m] = k
  BY DEF DearestFirst
<1>3. /\ DOMAIN rows = 1..Len(rows) /\ Len(rows) \in Nat
      /\ Shown(rows, limit) \subseteq DOMAIN rows
      /\ \A k \in Shown(rows, limit) : \A m \in DOMAIN rows : m < k => m \in Shown(rows, limit)
  BY DEF Shown
<1>4. ASSUME NEW k \in DOMAIN top, NEW j \in DOMAIN rows, rows[j].cost > rows[top[k]].cost
      PROVE  \E m \in DOMAIN top : m < k /\ top[m] = j
  <2>1. k \in DOMAIN rows /\ top[k] = r[k] /\ r[k] \in DOMAIN rows
    BY <1>1, <1>2, <1>3
  <2>2. PICK m \in DOMAIN rows : r[m] = j
    BY <1>2
  <2>3. \A i \in DOMAIN rows : rows[i].cost \in Int
    <3>1. \A i \in DOMAIN rows : rows[i] \in SpendRow
      BY Listed
    <3> QED
      BY <3>1 DEF SpendRow
  <2>4. ~(k < m) /\ k # m
    <3>1. rows[j].cost > rows[r[k]].cost /\ rows[j].cost \in Int /\ rows[r[k]].cost \in Int
      BY <1>4, <2>1, <2>3
    <3>2. ~Dearer(rows, r[k], r[m])
      BY <2>2, <3>1 DEF Dearer
    <3> QED
      BY <1>2, <2>1, <2>2, <3>1, <3>2
  <2>5. m < k
    BY <1>3, <2>1, <2>4
  <2> QED
    BY <1>1, <1>3, <2>2, <2>5
<1> QED
  BY <1>1, <1>4

LEMMA CostInvSound == CostInv => CostsExact
<1> SUFFICES ASSUME CostInv PROVE CostsExact
  OBVIOUS
<1> USE DEF CostInv
<1>1. FewDaysFlagNothing
  <2> SUFFICES ASSUME cost.at = "done", Halves >= 4
               PROVE  /\ Len(cost.series) < 6 => cost.flagged = {}
                      /\ Len(cost.series) < 11 => \A d, e \in cost.flagged : d = e
    BY DEF FewDaysFlagNothing
  <2>1. cost.series \in Seq(DayRow) /\ (cost.flagged = Flagged(cost.series) \/ cost.flagged = {})
    BY DEF SeriesInv
  <2>2. \A e \in Flagged(cost.series) : \E x \in DOMAIN cost.series : e = cost.series[x]
    BY DEF Flagged, ToSet
  <2> QED
    BY <2>1, <2>2, FlaggedIs
<1>2. OutagesOnlyLeaveGaps
  <2> SUFFICES ASSUME cost.at = "done" PROVE OutagesOnlyLeaveGaps
    BY DEF OutagesOnlyLeaveGaps
  <2>1. Lookback \in Nat /\ cost.failed \in Nat /\ Len(cost.series) \in Nat
    BY CostAssumption DEF SeriesInv
  <2>2. cost.status = StatusOf(cost)
    BY DEF SeriesInv
  <2>3. (cost.status = "unavailable") <=> (cost.series = <<>> /\ cost.failed > 0)
    BY <2>2 DEF StatusOf
  <2>4. /\ cost.provider # "aws" => Len(cost.series) + cost.failed = Lookback
        /\ cost.provider = "aws" => cost.failed = 0 \/ cost.series = <<>>
    BY <2>1 DEF SeriesInv
  <2> QED
    BY <2>3, <2>4 DEF OutagesOnlyLeaveGaps, SeriesInv
<1>3. NoBackendHidesAnother
  <2> SUFFICES ASSUME spend.ended PROVE NoBackendHidesAnother
    BY DEF NoBackendHidesAnother
  <2>1. \A i \in 1..3 : (spend.status[Backends[i]] # "not asked") <=> (spend.which \in {Backends[i], "all"})
    <3>1. spend.next = 4
      BY DEF SpendInv
    <3> QED
      BY <3>1, OneOn DEF SpendInv
  <2>2. ASSUME NEW b \in ToSet(Backends)
        PROVE  (spend.status[b] # "not asked") <=> (spend.which \in {b, "all"})
    <3>1. PICK i \in 1..3 : b = Backends[i]
      BY BackendsAre
    <3> QED
      BY <2>1, <3>1
  <2>3. SpendStatus = "unavailable" => spend.rows = <<>>
    BY DEF SpendStatus, SpendInv
  <2> QED
    BY <2>2, <2>3 DEF NoBackendHidesAnother
<1>4. NothingDearerLeftOut
  <2> SUFFICES ASSUME spend.ended PROVE NothingDearerLeftOut
    BY DEF NothingDearerLeftOut
  <2>1. /\ spend.rows \in Seq(SpendRow) /\ spend.limit \in Nat
        /\ spend.top \in RankedRows(spend.rows, spend.limit)
    BY DEF SpendInv
  <2> QED
    BY <2>1, RankingIs DEF NothingDearerLeftOut
<1> QED
  BY <1>1, <1>2, <1>3, <1>4 DEF CostsExact

(* Days and backends that fail leave gaps and nothing else, the ranking    *)
(* keeps the dearest, and few days flag nothing, whatever the amounts:     *)
(* anomaly_detect.py:156-226, top_spenders.py:69-141.                      *)
THEOREM CostsExactThm == CostSpec => []CostsExact
<1>1. CostInv /\ [AnomalyNext \/ SpendersNext]_costVars => CostInv'
  <2> SUFFICES ASSUME CostInv, UNCHANGED costVars PROVE CostInv'
    BY AnomalyStep, SpendersStep
  <2> QED
    BY DEF costVars, CostInv, CostKind, SeriesInv, SpendInv, StatusOf
<1> QED
  BY <1>1, CostInitInv, CostInvSound, PTL DEF CostSpec
-----------------------------------------------------------------------------
(* The log analyzer.  Entries picked from a batch.                         *)
LEMMA PositionsFinite ==
  ASSUME NEW logs \in Seq(Entry)
  PROVE  /\ Len(logs) \in Nat /\ DOMAIN logs = 1..Len(logs) /\ IsFiniteSet(DOMAIN logs)
         /\ Cardinality(DOMAIN logs) = Len(logs) /\ DOMAIN logs \subseteq Nat
         /\ \A k \in DOMAIN logs : logs[k] \in Entry
         /\ \A ks \in SUBSET DOMAIN logs : IsFiniteSet(ks) /\ Cardinality(ks) \in Nat
<1>1. Len(logs) \in Nat /\ DOMAIN logs = 1..Len(logs) /\ \A k \in DOMAIN logs : logs[k] \in Entry
  BY LenProperties, ElementOfSeq
<1>2. IsFiniteSet(1..Len(logs)) /\ Cardinality(1..Len(logs)) = Len(logs)
  BY <1>1, UpTo
<1>3. \A ks \in SUBSET DOMAIN logs : IsFiniteSet(ks) /\ Cardinality(ks) \in Nat
  BY <1>1, <1>2, FS_Subset, FS_CardinalityType
<1> QED
  BY <1>1, <1>2, <1>3

(* The entries and the errors of some services together.                   *)
LEMMA SharesAdd ==
  ASSUME NEW logs \in Seq(Entry), Spiking(logs) = {}
  PROVE  100 * Cardinality(Errors(logs)) <= 15 * Len(logs)
<1> DEFINE All(S) == {k \in DOMAIN logs : ServiceOf(logs[k]) \in S}
           Bad(S) == All(S) \intersect Errors(logs)
           few(S) == 100 * Cardinality(Bad(S)) <= 15 * Cardinality(All(S))
           T == {S \in SUBSET Services(logs) : ~few(S)}
<1>1. IsFiniteSet(DOMAIN logs) /\ Cardinality(DOMAIN logs) = Len(logs)
      /\ \A ks \in SUBSET DOMAIN logs : IsFiniteSet(ks) /\ Cardinality(ks) \in Nat
  BY PositionsFinite
<1>2. IsFiniteSet(Services(logs))
  <2> DEFINE svc == [k \in DOMAIN logs |-> ServiceOf(logs[k])]
  <2>1. svc \in [DOMAIN logs -> Services(logs)] /\ \A s \in Services(logs) : \E k \in DOMAIN logs : svc[k] = s
    BY DEF Services
  <2>2. svc \in Surjection(DOMAIN logs, Services(logs))
    BY <2>1, Zenon DEF Surjection
  <2> HIDE DEF svc
  <2> QED
    BY <1>1, <2>2, FS_Surjection
<1>3. \A S : All(S) \in SUBSET DOMAIN logs /\ Bad(S) \in SUBSET DOMAIN logs
  BY Zenon
<1>4. T = {}
  <2> SUFFICES ASSUME T # {} PROVE FALSE
    OBVIOUS
  <2>1. T \subseteq SUBSET Services(logs)
    OBVIOUS
  <2> HIDE DEF T
  <2>2. PICK S \in T : \A U \in T : U \subseteq S => U = S
    BY <1>2, <2>1, LeastSubset
  <2>3. S \in SUBSET Services(logs) /\ ~few(S)
    BY <2>2, Zenon DEF T
  <2>4. S # {}
    <3> SUFFICES ASSUME S = {} PROVE FALSE
      OBVIOUS
    <3>1. All(S) = {} /\ Bad(S) = {}
      OBVIOUS
    <3>2. Cardinality({}) = 0
      BY FS_EmptySet
    <3>3. few(S) <=> 100 * Cardinality({}) <= 15 * Cardinality({})
      BY <3>1, Zenon
    <3> HIDE DEF few
    <3> QED
      BY <2>3, <3>2, <3>3
  <2>5. PICK s \in S : TRUE
    BY <2>4
  <2> DEFINE U == S \ {s}
  <2>6. U \in SUBSET Services(logs) /\ U \subseteq S /\ U # S /\ s \in Services(logs)
    BY <2>3
  <2>7. few(U)
    BY <2>2, <2>6, Zenon DEF T
  <2>8. 100 * Cardinality(Failing(logs, s)) <= 15 * Cardinality(EntriesOf(logs, s))
    <3> DEFINE a == Cardinality(Failing(logs, s))   b == Cardinality(EntriesOf(logs, s))
    <3>1. a \in Nat /\ b \in Nat
      <4>1. Failing(logs, s) \in SUBSET DOMAIN logs /\ EntriesOf(logs, s) \in SUBSET DOMAIN logs
        BY DEF Failing, EntriesOf
      <4> QED
        BY <1>1, <4>1
    <3>2. ~(100 * a > 15 * b)
      BY <2>6, Zenon DEF Spiking
    <3> HIDE DEF a, b
    <3>3. 100 * a <= 15 * b
      BY <3>1, <3>2
    <3> QED
      BY <3>3 DEF a, b
  <2>9. /\ All(S) = All(U) \union EntriesOf(logs, s) /\ All(U) \intersect EntriesOf(logs, s) = {}
        /\ Bad(S) = Bad(U) \union Failing(logs, s) /\ Bad(U) \intersect Failing(logs, s) = {}
        /\ EntriesOf(logs, s) \in SUBSET DOMAIN logs /\ Failing(logs, s) \in SUBSET DOMAIN logs
    BY <2>5, Zenon DEF EntriesOf, Failing
  <2> HIDE DEF U, few
  <2> DEFINE A == All(U)   B == Bad(U)   C == EntriesOf(logs, s)   D == Failing(logs, s)
  <2>10. /\ A \in SUBSET DOMAIN logs /\ B \in SUBSET DOMAIN logs
         /\ C \in SUBSET DOMAIN logs /\ D \in SUBSET DOMAIN logs
         /\ All(S) = A \union C /\ A \intersect C = {} /\ Bad(S) = B \union D /\ B \intersect D = {}
    BY <1>3, <2>9
  <2>11. 100 * Cardinality(B) <= 15 * Cardinality(A) /\ 100 * Cardinality(D) <= 15 * Cardinality(C)
    BY <2>7, <2>8 DEF few
  <2> HIDE DEF A, B, C, D, All, Bad
  <2>12. Cardinality(A \union C) = Cardinality(A) + Cardinality(C)
    BY <1>1, <2>10, DisjointCount
  <2>13. Cardinality(B \union D) = Cardinality(B) + Cardinality(D)
    BY <1>1, <2>10, DisjointCount
  <2>14. Cardinality(A) \in Nat /\ Cardinality(B) \in Nat /\ Cardinality(C) \in Nat /\ Cardinality(D) \in Nat
    BY <1>1, <2>10
  <2>15. 100 * Cardinality(Bad(S)) <= 15 * Cardinality(All(S))
    BY <2>10, <2>11, <2>12, <2>13, <2>14
  <2> QED
    BY <2>3, <2>15 DEF few
<1>5. few(Services(logs))
  BY <1>4, Zenon
<1>6. All(Services(logs)) = DOMAIN logs
  BY Zenon DEF Services
<1>7. Bad(Services(logs)) = Errors(logs)
  BY <1>6, Zenon DEF Errors
<1> HIDE DEF All, Bad
<1> QED
  BY <1>1, <1>5, <1>6, <1>7

(* What the summary and the anomalies are made of.                         *)
LEMMA FirstsAre ==
  ASSUME NEW logs \in Seq(Entry), NEW ks \in SUBSET DOMAIN logs
  PROVE  /\ Firsts(logs, ks) \in SUBSET ks /\ IsFiniteSet(Firsts(logs, ks)) /\ Firsts(logs, ks) \subseteq Nat
         /\ Cardinality(Firsts(logs, ks)) \in Nat
         /\ \A m \in Messages(logs, ks) : \E k \in Firsts(logs, ks) : logs[k].message = m
<1>1. Firsts(logs, ks) \in SUBSET ks /\ Firsts(logs, ks) \in SUBSET DOMAIN logs
  BY DEF Firsts
<1>2. IsFiniteSet(Firsts(logs, ks)) /\ Cardinality(Firsts(logs, ks)) \in Nat /\ DOMAIN logs \subseteq Nat
  BY <1>1, PositionsFinite
<1>3. ASSUME NEW m \in Messages(logs, ks) PROVE \E k \in Firsts(logs, ks) : logs[k].message = m
  <2> DEFINE T == Saying(logs, ks, m)
  <2>1. T \in SUBSET ks /\ T # {} /\ T \subseteq Nat
    BY <1>2 DEF Saying, Messages
  <2>2. PICK k \in T : \A j \in T : k <= j
    <3> HIDE DEF T
    <3> QED
      BY <2>1, LeastNat
  <2>3. k \in ks /\ logs[k].message = m /\ k \in Nat
    BY <2>1, <2>2 DEF Saying
  <2>4. ASSUME NEW j \in ks, j < k PROVE logs[j].message # logs[k].message
    <3> SUFFICES ASSUME logs[j].message = m PROVE FALSE
      BY <2>3
    <3>1. j \in T /\ j \in Nat
      BY <1>2 DEF Saying
    <3>2. k <= j
      BY <2>2, <3>1
    <3> QED
      BY <2>3, <2>4, <3>1, <3>2
  <2> QED
    BY <2>3, <2>4 DEF Firsts
<1> QED
  BY <1>1, <1>2, <1>3

LEMMA Whole ==
  ASSUME NEW n \in Nat, NEW S, NEW s \in Seq(S), Len(Upto(s, n)) < n
  PROVE  Upto(s, n) = s
<1>1. Len(s) \in Nat /\ s = [i \in 1..Len(s) |-> s[i]]
  BY LenProperties
<1>2. SubSeq(s, 1, Len(s)) = s
  BY SubSeqFull
<1>3. CASE n < Len(s)
  <2>1. Upto(s, n) = SubSeq(s, 1, n)
    BY <1>3 DEF Upto
  <2>2. Len(SubSeq(s, 1, n)) = n
    BY <1>1, <1>3, SubSeqProperties
  <2> QED
    BY <2>1, <2>2
<1> QED
  BY <1>2, <1>3 DEF Upto

LEMMA PatternsAre ==
  ASSUME NEW logs \in Seq(Entry), Len(Patterns(logs)) < TopCount
  PROVE  LET p == Patterns(logs)   firsts == Firsts(logs, Errors(logs)) IN
         /\ Cardinality(firsts) < TopCount
         /\ \A i \in DOMAIN p : \E k \in firsts : p[i] = [message |-> logs[k].message, count |-> Times(logs, k)]
         /\ \A k \in firsts : \E i \in DOMAIN p : p[i] = [message |-> logs[k].message, count |-> Times(logs, k)]
<1> DEFINE firsts == Firsts(logs, Errors(logs))   n == Cardinality(firsts)   o == ByCount(logs)
           row(k) == [message |-> logs[k].message, count |-> Times(logs, k)]
           times == [k \in firsts |-> Times(logs, k)]
           less == {p \in firsts \X firsts :
                      Times(logs, p[1]) > Times(logs, p[2]) \/ (Times(logs, p[1]) = Times(logs, p[2]) /\ p[1] < p[2])}
           list == [i \in DOMAIN o |-> row(o[i])]
<1>1. /\ Errors(logs) \in SUBSET DOMAIN logs /\ firsts \in SUBSET Errors(logs)
      /\ IsFiniteSet(firsts) /\ firsts \subseteq Nat /\ n \in Nat
  <2>1. Errors(logs) \in SUBSET DOMAIN logs
    BY DEF Errors
  <2> QED
    BY <2>1, FirstsAre
<1>2. \A k \in firsts : times[k] \in Nat
  <2> SUFFICES ASSUME NEW k \in firsts PROVE Times(logs, k) \in Nat
    OBVIOUS
  <2>1. Saying(logs, Errors(logs), logs[k].message) \in SUBSET DOMAIN logs
    BY <1>1 DEF Saying
  <2> QED
    BY <2>1, PositionsFinite DEF Times
<1>3. /\ DOMAIN o = 1..n /\ \A i \in 1..n : o[i] \in firsts
      /\ \A k \in firsts : \E i \in 1..n : o[i] = k
  <2>1. \A x, y \in firsts : <<x, y>> \in less <=> times[x] > times[y] \/ (times[x] = times[y] /\ x < y)
    OBVIOUS
  <2>2. o = InOrder(firsts, less)
    BY Zenon DEF ByCount
  <2> HIDE DEF less, times, firsts, o
  <2>3. /\ \A x \in firsts : <<x, x>> \notin less
        /\ \A x, y, z \in firsts : <<x, y>> \in less /\ <<y, z>> \in less => <<x, z>> \in less
        /\ \A x, y \in firsts : x = y \/ <<x, y>> \in less \/ <<y, x>> \in less
    <3>1. ASSUME NEW x \in firsts PROVE <<x, x>> \notin less
      BY <1>1, <1>2, <2>1
    <3>2. ASSUME NEW x \in firsts, NEW y \in firsts, NEW z \in firsts, <<x, y>> \in less, <<y, z>> \in less
          PROVE  <<x, z>> \in less
      <4>1. /\ times[x] > times[y] \/ (times[x] = times[y] /\ x < y)
            /\ times[y] > times[z] \/ (times[y] = times[z] /\ y < z)
        BY <2>1, <3>2
      <4>2. /\ times[x] \in Nat /\ times[y] \in Nat /\ times[z] \in Nat
            /\ x \in Nat /\ y \in Nat /\ z \in Nat
        BY <1>1, <1>2
      <4>3. times[x] > times[z] \/ (times[x] = times[z] /\ x < z)
        BY <4>1, <4>2
      <4> QED
        BY <2>1, <4>3
    <3>3. ASSUME NEW x \in firsts, NEW y \in firsts PROVE x = y \/ <<x, y>> \in less \/ <<y, x>> \in less
      <4>1. times[x] \in Nat /\ times[y] \in Nat /\ x \in Nat /\ y \in Nat
        BY <1>1, <1>2
      <4>2. \/ x = y
            \/ times[x] > times[y] \/ (times[x] = times[y] /\ x < y)
            \/ times[y] > times[x] \/ (times[y] = times[x] /\ y < x)
        BY <4>1
      <4> QED
        BY <2>1, <4>2
    <3> QED
      BY <3>1, <3>2, <3>3
  <2> DEFINE q == InOrder(firsts, less)
  <2>4. /\ DOMAIN q = 1..Cardinality(firsts) /\ \A i \in 1..Cardinality(firsts) : q[i] \in firsts
        /\ \A k \in firsts : \E i \in 1..Cardinality(firsts) : q[i] = k
    BY <1>1, <2>3, InOrderIs
  <2> QED
    BY <2>2, <2>4
<1>4. Patterns(logs) = Upto(list, TopCount)
  BY Zenon DEF Patterns
<1>5. \A k \in firsts : row(k) \in [message : STRING, count : Nat]
  <2> SUFFICES ASSUME NEW k \in firsts PROVE logs[k].message \in STRING /\ times[k] \in Nat
    OBVIOUS
  <2>1. logs[k] \in Entry
    BY <1>1, PositionsFinite
  <2> QED
    BY <1>2, <2>1 DEF Entry
<1> HIDE DEF firsts, row, o, times, less
<1>6. list = [i \in 1..n |-> row(o[i])]
  BY <1>3
<1>7. list \in Seq([message : STRING, count : Nat]) /\ Len(list) = n
  <2> DEFINE R == [message : STRING, count : Nat]   v == [i \in 1..n |-> row(o[i])]
  <2>1. \A i \in 1..n : row(o[i]) \in R
    BY <1>3, <1>5
  <2> HIDE DEF R, list
  <2>2. v \in [1..n -> R] /\ n \in Nat
    BY <1>1, <2>1
  <2>3. v \in Seq(R) /\ Len(v) = n
    <3> HIDE DEF v, n
    <3> QED
      BY <2>2, SeqDef, LenProperties
  <2> QED
    BY <1>6, <2>3 DEF R
<1>8. Patterns(logs) = list /\ n < TopCount
  <2> HIDE DEF list, n
  <2>1. Len(Upto(list, TopCount)) < TopCount
    BY <1>4
  <2>2. TopCount \in Nat
    BY LogAssumption
  <2>3. Upto(list, TopCount) = list
    BY <1>7, <2>1, <2>2, Whole
  <2> QED
    BY <1>4, <1>7, <2>1, <2>3
<1>9. /\ \A i \in DOMAIN list : \E k \in firsts : list[i] = row(k)
      /\ \A k \in firsts : \E i \in DOMAIN list : list[i] = row(k)
  <2>1. ASSUME NEW i \in DOMAIN list PROVE \E k \in firsts : list[i] = row(k)
    BY <1>3, <1>6
  <2>2. ASSUME NEW k \in firsts PROVE \E i \in DOMAIN list : list[i] = row(k)
    <3>1. PICK i \in 1..n : o[i] = k
      BY <1>3
    <3> QED
      BY <1>6, <3>1
  <2> QED
    BY <2>1, <2>2
<1> HIDE DEF list, n
<1> QED
  BY <1>8, <1>9 DEF firsts, row, n

LEMMA EventsAre ==
  ASSUME NEW logs \in Seq(Entry), Cardinality(Firsts(logs, Errors(logs))) < TopCount
  PROVE  LET e == KeyEvents(logs)   firsts == Firsts(logs, Errors(logs)) IN
         /\ \A i \in DOMAIN e : \E k \in firsts : e[i] = logs[k]
         /\ \A k \in firsts : \E i \in DOMAIN e : e[i] = logs[k]
<1> DEFINE firsts == Firsts(logs, Errors(logs))   p == Picked(logs, firsts)   n == Cardinality(firsts)
<1>1. firsts \in SUBSET DOMAIN logs /\ IsFiniteSet(firsts) /\ firsts \subseteq Nat
  <2>1. Errors(logs) \in SUBSET DOMAIN logs
    BY DEF Errors
  <2> QED
    BY <2>1, FirstsAre
<1>e. KeyEvents(logs) = Upto(p, TopCount)
  BY Zenon DEF KeyEvents
<1>n. n < TopCount
  OBVIOUS
<1> HIDE DEF firsts
<1>2. /\ n \in Nat /\ DOMAIN p = 1..n
      /\ \A i \in 1..n : \E k \in firsts : p[i] = logs[k]
      /\ \A k \in firsts : \E i \in 1..n : p[i] = logs[k]
  BY <1>1, PickedIs
<1>3. p \in Seq(Entry)
  <2>1. \A i \in 1..n : p[i] \in Entry
    BY <1>1, <1>2, PositionsFinite
  <2>2. p = [i \in DOMAIN p |-> p[i]]
    BY Zenon DEF Picked
  <2> HIDE DEF p, n
  <2>3. p \in [1..n -> Entry]
    BY <1>2, <2>1, <2>2
  <2> QED
    BY <1>2, <2>3, SeqDef
<1>4. Len(p) = n
  <2> HIDE DEF p, n
  <2>1. DOMAIN p = 1..Len(p) /\ Len(p) \in Nat
    BY <1>3, LenProperties
  <2> QED
    BY <1>2, <2>1
<1>5. KeyEvents(logs) = p
  <2>1. TopCount \in Nat /\ SubSeq(p, 1, Len(p)) = p
    <3> HIDE DEF p
    <3> QED
      BY <1>3, SubSeqFull, LogAssumption
  <2> HIDE DEF p, n
  <2>2. ~(TopCount < Len(p))
    BY <1>2, <1>4, <1>n, <2>1
  <2> QED
    BY <1>e, <2>1, <2>2 DEF Upto
<1> HIDE DEF p, n
<1> QED
  BY <1>2, <1>5 DEF firsts

LEMMA SampleIs ==
  ASSUME NEW logs \in Seq(Entry), NEW m \in Messages(logs, DOMAIN logs)
  PROVE  Sample(logs, m).message = m
<1> DEFINE T == {k \in DOMAIN logs : logs[k].message = m}
           P(k) == logs[k].message = m /\ \A j \in 1 .. k - 1 : logs[j].message # m
<1>1. T # {} /\ T \subseteq Nat /\ DOMAIN logs = 1..Len(logs)
  BY PositionsFinite DEF Messages
<1>2. PICK k \in T : \A j \in T : k <= j
  <2> HIDE DEF T
  <2> QED
    BY <1>1, LeastNat
<1>3. k \in DOMAIN logs /\ k \in 1..Len(logs) /\ Len(logs) \in Nat
  BY <1>1, PositionsFinite
<1>4. \A j \in 1 .. k - 1 : logs[j].message # m
  <2> SUFFICES ASSUME NEW j \in 1 .. k - 1, logs[j].message = m PROVE FALSE
    OBVIOUS
  <2>1. j \in 1..Len(logs) /\ j < k
    BY <1>3
  <2>2. j \in T
    BY <1>1, <2>1
  <2> QED
    BY <1>2, <1>3, <2>1, <2>2
<1>5. \E i \in DOMAIN logs : P(i)
  BY <1>2, <1>3, <1>4
<1> DEFINE i == CHOOSE i \in DOMAIN logs : P(i)
<1>6. P(i)
  BY <1>5
<1>7. Sample(logs, m) = logs[i]
  BY Zenon DEF Sample
<1> HIDE DEF i
<1> QED
  BY <1>6, <1>7

(* The analyzer has done nothing yet, or what its batch makes of it.       *)
LogInv ==
  /\ batch \in Seq(Entry)
  /\ \/ summary.ended = FALSE
     \/ summary = [ended |-> TRUE, patterns |-> Patterns(batch), events |-> KeyEvents(batch), alarm |-> Alarm(batch)]
  /\ \/ detected.ended = FALSE
     \/ detected = [ended |-> TRUE, anomalies |-> Spikes(batch) \union NewErrors(batch) \union Escalations(batch)]
  /\ DOMAIN question = {"ended", "words", "query", "explained"}
  /\ question.ended => question.query = Suggested(question.words) /\ question.explained = Explained(question.words)

LEMMA LogInitInv == LogInit => LogInv
<1> SUFFICES ASSUME NEW logs \in Batches, NEW words \in Questions, LogStart(logs, words) PROVE LogInv
  BY DEF LogInit
<1>1. batch \in Seq(Entry)
  BY LogAssumption DEF LogStart
<1>2. summary.ended = FALSE /\ detected.ended = FALSE /\ question.ended = FALSE
      /\ DOMAIN question = {"ended", "words", "query", "explained"}
  BY DEF LogStart
<1> QED
  BY <1>1, <1>2 DEF LogInv

LEMMA LogStep == LogInv /\ [LogNext]_logVars => LogInv'
<1> SUFFICES ASSUME LogInv, [LogNext]_logVars PROVE LogInv'
  OBVIOUS
<1>1. CASE Summarize
  BY <1>1, Zenon DEF LogInv, Summarize
<1>2. CASE DetectAnomalies
  BY <1>2, Zenon DEF LogInv, DetectAnomalies
<1>3. CASE AskQuery
  <2>1. /\ DOMAIN question' = DOMAIN question /\ question'.words = question.words
        /\ question'.query = Suggested(question.words) /\ question'.explained = Explained(question.words)
    <3> DEFINE s == Suggested(question.words)   e == Explained(question.words)
    <3>1. question' = [question EXCEPT !.ended = TRUE, !.query = s, !.explained = e]
      BY <1>3, Zenon DEF AskQuery
    <3> HIDE DEF s, e
    <3>2. /\ DOMAIN question' = DOMAIN question /\ question'.words = question.words
          /\ question'.query = s /\ question'.explained = e
      BY <3>1 DEF LogInv
    <3> QED
      BY <3>2 DEF s, e
  <2> QED
    BY <1>3, <2>1, Zenon DEF LogInv, AskQuery
<1>4. CASE UNCHANGED logVars
  BY <1>4, Zenon DEF LogInv, logVars
<1> QED
  BY <1>1, <1>2, <1>3, <1>4 DEF LogNext

LEMMA SpikesAre ==
  ASSUME NEW logs
  PROVE  (\A a \in Spikes(logs) : a.type = "spike") /\ \A s \in Spiking(logs) : Spikes(logs) # {}
<1> DEFINE sev(s) == IF 10 * Cardinality(Failing(logs, s)) > 4 * Cardinality(EntriesOf(logs, s))
                     THEN "critical" ELSE "high"
           proof(s) == Picked(logs, {k \in Errors(logs) : logs[k].service = s})
           spike(s) == Anomaly("spike", sev(s), s, proof(s))
<1>1. Spikes(logs) = {spike(s) : s \in Spiking(logs)}
  BY Zenon DEF Spikes
<1> HIDE DEF sev, proof
<1>2. \A s : spike(s).type = "spike"
  BY DEF Anomaly
<1> HIDE DEF spike
<1> QED
  BY <1>1, <1>2

LEMMA LogInvSound == LogInv => LogsExact
<1> SUFFICES ASSUME LogInv PROVE LogsExact
  OBVIOUS
<1>0. batch \in Seq(Entry)
  BY DEF LogInv
<1>d. detected.ended => detected.anomalies = Spikes(batch) \union NewErrors(batch) \union Escalations(batch)
  BY DEF LogInv
<1>s. summary.ended => summary.patterns = Patterns(batch) /\ summary.events = KeyEvents(batch)
  BY DEF LogInv
<1>1. NoiseHasASource
  <2> SUFFICES ASSUME detected.ended, 100 * Cardinality(Errors(batch)) > 15 * Len(batch)
               PROVE  \E a \in detected.anomalies : a.type = "spike"
    BY DEF NoiseHasASource
  <2>1. Cardinality(Errors(batch)) \in Nat /\ Len(batch) \in Nat
    <3>1. Errors(batch) \in SUBSET DOMAIN batch
      BY DEF Errors
    <3> QED
      BY <1>0, <3>1, PositionsFinite
  <2>2. Spiking(batch) # {}
    <3> SUFFICES ASSUME Spiking(batch) = {} PROVE FALSE
      OBVIOUS
    <3>1. 100 * Cardinality(Errors(batch)) <= 15 * Len(batch)
      BY <1>0, SharesAdd
    <3> QED
      BY <2>1, <3>1
  <2>3. PICK s \in Spiking(batch) : TRUE
    BY <2>2
  <2>4. \E a \in Spikes(batch) : a.type = "spike"
    BY <2>3, SpikesAre
  <2> QED
    BY <1>d, <2>4
<1>2. NewMeansCountedOnce
  <2> SUFFICES ASSUME detected.ended, summary.ended, Len(summary.patterns) < TopCount,
                      NEW a \in detected.anomalies, a.type = "new_error"
               PROVE  \E k \in DOMAIN summary.patterns :
                        summary.patterns[k].count = 1 /\ summary.patterns[k].message = a.evidence[1].message
    BY DEF NewMeansCountedOnce
  <2>1. a \in NewErrors(batch)
    <3>1. \A b \in Spikes(batch) : b.type = "spike"
      BY SpikesAre
    <3>2. \A b \in Escalations(batch) : b.type = "frequency_change"
      BY DEF Escalations, Anomaly
    <3> QED
      BY <1>d, <3>1, <3>2
  <2>2. PICK m \in SeenOnce(batch) : a = NewError(batch, m)
    BY <2>1, Zenon DEF NewErrors
  <2>3. m \in Messages(batch, Errors(batch)) /\ Cardinality(Saying(batch, Errors(batch), m)) = 1
    BY Zenon DEF SeenOnce
  <2>4. Errors(batch) \in SUBSET DOMAIN batch /\ m \in Messages(batch, DOMAIN batch)
    BY <2>3 DEF Errors, Messages
  <2>5. a.evidence[1] = Sample(batch, m)
    <3> DEFINE x == Sample(batch, m)
    <3>1. a.evidence = Upto(<<x>>, 5)
      BY <2>2, Zenon DEF NewError, Anomaly
    <3> HIDE DEF x
    <3>2. Upto(<<x>>, 5)[1] = x
      BY DEF Upto
    <3> QED
      BY <3>1, <3>2 DEF x
  <2>6. a.evidence[1].message = m
    BY <1>0, <2>4, <2>5, SampleIs
  <2>7. PICK k \in Firsts(batch, Errors(batch)) : batch[k].message = m
    BY <1>0, <2>3, <2>4, FirstsAre
  <2>8. Times(batch, k) = 1
    BY <2>3, <2>7 DEF Times
  <2>9. summary.patterns = Patterns(batch)
    BY <1>s
  <2>10. PICK i \in DOMAIN Patterns(batch) :
           Patterns(batch)[i] = [message |-> batch[k].message, count |-> Times(batch, k)]
    BY <1>0, <2>9, PatternsAre
  <2> QED
    BY <2>6, <2>7, <2>8, <2>9, <2>10
<1>3. EventsCoverPatterns
  <2> SUFFICES ASSUME summary.ended, Len(summary.patterns) < TopCount
               PROVE  Messages(summary.events, DOMAIN summary.events)
                        = Messages(summary.patterns, DOMAIN summary.patterns)
    BY DEF EventsCoverPatterns
  <2> DEFINE firsts == Firsts(batch, Errors(batch))   p == Patterns(batch)   e == KeyEvents(batch)
             row(k) == [message |-> batch[k].message, count |-> Times(batch, k)]
  <2>1. summary.patterns = p /\ summary.events = e
    BY <1>s
  <2>2. /\ Cardinality(firsts) < TopCount
        /\ \A i \in DOMAIN p : \E k \in firsts : p[i] = row(k)
        /\ \A k \in firsts : \E i \in DOMAIN p : p[i] = row(k)
    BY <1>0, <2>1, PatternsAre
  <2>3. /\ \A i \in DOMAIN e : \E k \in firsts : e[i] = batch[k]
        /\ \A k \in firsts : \E i \in DOMAIN e : e[i] = batch[k]
    BY <1>0, <2>2, EventsAre
  <2>4. \A k : row(k).message = batch[k].message
    OBVIOUS
  <2> HIDE DEF firsts, p, e, row
  <2>5. Messages(e, DOMAIN e) = {batch[k].message : k \in firsts}
    BY <2>3 DEF Messages
  <2>6. Messages(p, DOMAIN p) = {batch[k].message : k \in firsts}
    <3>1. \A i \in DOMAIN p : \E k \in firsts : p[i].message = batch[k].message
      BY <2>2, <2>4
    <3>2. \A k \in firsts : \E i \in DOMAIN p : p[i].message = batch[k].message
      BY <2>2, <2>4
    <3> QED
      BY <3>1, <3>2 DEF Messages
  <2> QED
    BY <2>1, <2>5, <2>6
<1>4. ExplanationFits
  <2>1. Suggested(question.words) = Explained(question.words)
    BY Zenon DEF Suggested, Explained
  <2> QED
    BY <2>1 DEF LogInv, ExplanationFits
<1> QED
  BY <1>1, <1>2, <1>3, <1>4 DEF LogsExact

(* The summary, the anomalies and the explanation agree with each other    *)
(* and with the batch, for every batch and question: analyzer.py:162-447,  *)
(* logs.py:100-145.                                                        *)
LEMMA LogsExactHold == LogSpec => []LogsExact
<1>1. LogInit => LogInv
  BY LogInitInv
<1>2. LogInv /\ [LogNext]_logVars => LogInv'
  BY LogStep
<1>3. LogInv => LogsExact
  BY LogInvSound
<1> QED
  BY <1>1, <1>2, <1>3, PTL DEF LogSpec

(* What the cost tools and the log endpoints report agrees with what was   *)
(* collected, for any backends, lists, limits, batches and questions:      *)
(* anomaly_detect.py:82, top_spenders.py:96-140, analyzer.py:162-447.      *)
THEOREM FiguresExactThm == CostSpec /\ LogSpec => []FiguresExact
<1>1. CostsExact /\ LogsExact => FiguresExact
  BY DEF FiguresExact
<1> QED
  BY <1>1, CostsExactThm, LogsExactHold, PTL
-----------------------------------------------------------------------------
(* The bursts of a list of events, merged from its qualifying windows.     *)
Burst == [start : Int, end : Int, count : Int]
Span(r) == r.start..(r.end - 1)
InSpan(list, r) == {p \in DOMAIN list : Bucket(list, list[p]) \in Span(r)}
Marked(list) == Ascending(Qualifying(list))
Marks(list) == Cardinality(Qualifying(list))
WindowAt(list, k) ==
  [start |-> Marked(list)[k], end |-> Marked(list)[k] + 1, count |-> BucketCount(list)[Marked(list)[k]]]

LEMMA MarkedIs ==
  ASSUME NEW list \in Inputs
  PROVE  /\ Buckets(list) \subseteq Int /\ Qualifying(list) \subseteq Buckets(list)
         /\ Marks(list) \in Nat /\ DOMAIN Marked(list) = 1..Marks(list)
         /\ \A k \in 1..Marks(list) : Marked(list)[k] \in Qualifying(list)
         /\ \A b \in Qualifying(list) : \E k \in 1..Marks(list) : Marked(list)[k] = b
         /\ \A i, j \in 1..Marks(list) : i < j => Marked(list)[i] < Marked(list)[j]
         /\ \A k \in 1..Marks(list) : WindowAt(list, k) \in Burst
<1>1. list \in Seq(LogEvent) /\ DOMAIN list = 1..Len(list) /\ Len(list) \in Nat
      /\ \A p \in DOMAIN list : list[p] \in LogEvent
  BY AnalyzerAssumption, LenProperties, ElementOfSeq
<1>2. ASSUME DOMAIN list # {} PROVE Anchor(list) \in Int
  <2> DEFINE ats == {list[p].at : p \in DOMAIN list}   f == [p \in DOMAIN list |-> list[p].at]
  <2>0. IsFiniteSet(DOMAIN list)
    BY <1>1, FS_Interval
  <2>1. f \in Surjection(DOMAIN list, ats)
    BY Zenon DEF Surjection
  <2>2. IsFiniteSet(ats)
    BY <2>0, <2>1, FS_Surjection
  <2>3. ats # {} /\ \A a \in ats : a \in Int
    BY <1>1, <1>2 DEF LogEvent
  <2> HIDE DEF ats
  <2>4. Min(ats) \in Int
    BY <2>2, <2>3, MinIn
  <2> QED
    BY <2>4 DEF Anchor, ats
<1>3. ASSUME NEW p \in DOMAIN list PROVE Bucket(list, list[p]) \in Int
  <2>1. list[p].at \in Int /\ Anchor(list) \in Int /\ Window \in Nat \ {0}
    BY <1>1, <1>2, AnalyzerAssumption DEF LogEvent
  <2> QED
    BY <2>1 DEF Bucket
<1>4. Buckets(list) \subseteq Int
  BY <1>3 DEF Buckets
<1>5. Qualifying(list) \subseteq Buckets(list)
  BY DEF Qualifying
<1>6. IsFiniteSet(Qualifying(list)) /\ Qualifying(list) \subseteq Int
  BY <1>4, <1>5, BucketsAre, FS_Subset
<1>7. /\ Marks(list) \in Nat /\ DOMAIN Marked(list) = 1..Marks(list)
      /\ \A k \in 1..Marks(list) : Marked(list)[k] \in Qualifying(list)
      /\ \A b \in Qualifying(list) : \E k \in 1..Marks(list) : Marked(list)[k] = b
      /\ \A i, j \in 1..Marks(list) : i < j => Marked(list)[i] < Marked(list)[j]
  BY <1>6, AscendingIs DEF Marks, Marked
<1>8. ASSUME NEW k \in 1..Marks(list) PROVE WindowAt(list, k) \in Burst
  <2> DEFINE b == Marked(list)[k]   c == BucketCount(list)[b]
  <2>1. b \in Buckets(list) /\ b \in Int /\ b + 1 \in Int
    BY <1>4, <1>5, <1>7
  <2>2. c \in Int
    BY <2>1, BucketsAre
  <2>3. WindowAt(list, k) = [start |-> b, end |-> b + 1, count |-> c]
    BY DEF WindowAt
  <2> HIDE DEF b, c
  <2> QED
    BY <2>1, <2>2, <2>3 DEF Burst
<1> QED
  BY <1>4, <1>5, <1>7, <1>8

LEMMA MergeNextIn ==
  ASSUME NEW a \in Seq(Burst), NEW w \in Burst
  PROVE  MergeNext(a, w) \in Seq(Burst)
<1>1. CASE a # <<>> /\ Last(a).end = w.start
  <2> DEFINE r == [start |-> Last(a).start, end |-> w.end, count |-> Last(a).count + w.count]
  <2>1. Front(a) \in Seq(Burst) /\ Last(a) \in Burst
    BY <1>1, FrontLast
  <2>2. r \in Burst
    BY <2>1 DEF Burst
  <2> HIDE DEF r
  <2>3. Append(Front(a), r) \in Seq(Burst)
    BY <2>1, <2>2, AppendProperties
  <2> QED
    BY <1>1, <2>3 DEF MergeNext, r
<1> QED
  BY <1>1, AppendProperties DEF MergeNext

LEMMA BurstsSoFar ==
  ASSUME NEW list \in Inputs
  PROVE  \E acc : /\ acc[0] = <<>> /\ Bursts(list) = acc[Marks(list)]
                  /\ \A k \in 1..Marks(list) : acc[k] = MergeNext(acc[k - 1], WindowAt(list, k))
<1> DEFINE n == Marks(list)   A == Seq(Burst)   w == [k \in DOMAIN Marked(list) |-> WindowAt(list, k)]
           It(g) == g = [s \in SUBSET DOMAIN w |-> IF s = {} THEN <<>> ELSE MergeNext(g[s \ {Max(s)}], w[Max(s)])]
           h == CHOOSE g : It(g)
           step == [p \in A \X (1..n) |-> MergeNext(p[1], w[p[2]])]
<1>1. Bursts(list) = h[DOMAIN w]
  <2>1. Bursts(list) = FoldLeft(MergeNext, <<>>, w)
    BY Zenon DEF Bursts, WindowAt, Marked
  <2> HIDE DEF w
  <2> QED
    BY <2>1 DEF FoldLeft, MapThenFoldSet
<1>2. /\ n \in Nat /\ DOMAIN w = 1..n /\ \A k \in 1..n : w[k] = WindowAt(list, k)
      /\ \A k \in 1..n : w[k] \in Burst
  BY MarkedIs
<1>d. \A g : It(g) <=> g = [s \in SUBSET (1..n) |-> IF s = {} THEN <<>> ELSE MergeNext(g[s \ {Max(s)}], w[Max(s)])]
  BY <1>2
<1> HIDE DEF It, w, n
<1>3. \A a \in A, k \in 1..n : step[<<a, k>>] = MergeNext(a, w[k]) /\ step[<<a, k>>] \in A
  <2>1. \A a \in A, k \in 1..n : step[<<a, k>>] = MergeNext(a, w[k])
    OBVIOUS
  <2>2. \A a \in A, v \in Burst : MergeNext(a, v) \in A
    BY MergeNextIn
  <2> HIDE DEF A, step
  <2> QED
    BY <1>2, <2>1, <2>2
<1>4. <<>> \in A
  OBVIOUS
<1> HIDE DEF A, step
<1>5. PICK g : /\ g = [s \in SUBSET (1..n) |-> g[s]]
               /\ \A s \in SUBSET (1..n) :
                    /\ g[s] \in A
                    /\ g[s] = IF s = {} THEN <<>> ELSE step[<<g[s \ {Max(s)}], Max(s)>>]
               /\ \A s \in SUBSET (1..n) : s # {} => g[s \ {Max(s)}] \in A /\ Max(s) \in 1..n
  BY <1>2, <1>3, <1>4, FoldIn
<1>6. It(g)
  <2>1. \A s \in SUBSET (1..n) : g[s] = IF s = {} THEN <<>> ELSE MergeNext(g[s \ {Max(s)}], w[Max(s)])
    BY <1>3, <1>5
  <2>2. g = [s \in SUBSET (1..n) |-> IF s = {} THEN <<>> ELSE MergeNext(g[s \ {Max(s)}], w[Max(s)])]
    BY <1>5, <2>1
  <2> QED
    BY <1>d, <2>2
<1>7. It(h)
  BY <1>6
<1> HIDE DEF h
<1>8. \A s \in SUBSET (1..n) : h[s] = IF s = {} THEN <<>> ELSE MergeNext(h[s \ {Max(s)}], w[Max(s)])
  BY <1>7, <1>d
<1> DEFINE acc == [k \in 0..n |-> h[1..k]]
<1>9. acc[0] = <<>>
  <2>1. 1..0 = {} /\ {} \in SUBSET (1..n) /\ 0 \in 0..n
    BY <1>2
  <2> QED
    BY <1>8, <2>1
<1>10. ASSUME NEW k \in 1..n PROVE acc[k] = MergeNext(acc[k - 1], WindowAt(list, k))
  <2>1. 1..k \in SUBSET (1..n) /\ 1..k # {} /\ Max(1..k) = k /\ (1..k) \ {Max(1..k)} = 1..(k - 1)
    BY <1>2, LastOfUpTo
  <2>2. k \in 0..n /\ k - 1 \in 0..n
    BY <1>2
  <2>3. h[1..k] = MergeNext(h[1..(k - 1)], w[k])
    BY <1>8, <2>1
  <2> QED
    BY <1>2, <2>2, <2>3
<1>11. acc[n] = h[DOMAIN w]
  <2>1. n \in 0..n
    BY <1>2
  <2> QED
    BY <1>2, <2>1
<1> HIDE DEF acc
<1> QED
  BY <1>1, <1>9, <1>10, <1>11 DEF n

(* The runs of the first k qualifying windows.                             *)
Runs(list, a, k) ==
  /\ a \in Seq(Burst)
  /\ \A i \in 1..Len(a) :
       /\ a[i].start < a[i].end /\ Span(a[i]) \subseteq {Marked(list)[j] : j \in 1..k}
       /\ a[i].count = Cardinality(InSpan(list, a[i]))
  /\ \A j \in 1..k : \E i \in 1..Len(a) : Marked(list)[j] \in Span(a[i])
  /\ \A i \in 1..Len(a) : i > 1 => a[i - 1].end < a[i].start
  /\ k = 0 => a = <<>>
  /\ k > 0 => a # <<>> /\ Last(a).end = Marked(list)[k] + 1

LEMMA MergeRuns ==
  ASSUME NEW list \in Inputs, NEW k \in 1..Marks(list), NEW a, Runs(list, a, k - 1)
  PROVE  Runs(list, MergeNext(a, WindowAt(list, k)), k)
<1> DEFINE m == Marked(list)   w == WindowAt(list, k)   b == m[k]   c == BucketCount(list)[b]
           before == {m[j] : j \in 1..(k - 1)}   now == {m[j] : j \in 1..k}
<1>1. /\ k \in Nat /\ k > 0 /\ k \in 1..k /\ (k = 1 \/ k - 1 \in 1..Marks(list)) /\ 1..(k - 1) \subseteq 1..k
      /\ Marks(list) \in Nat
  BY MarkedIs
<1>2. /\ w = [start |-> b, end |-> b + 1, count |-> c] /\ w \in Burst /\ b \in Int /\ b \in Buckets(list)
  BY MarkedIs DEF WindowAt
<1>3. /\ a \in Seq(Burst) /\ Len(a) \in Nat
      /\ \A i \in 1..Len(a) : a[i] \in Burst
  BY LenProperties, ElementOfSeq DEF Runs
<1>4. w.start = b /\ w.end = b + 1 /\ w.count = c
  BY <1>2
<1>5. Span(w) = {b} /\ w.start < w.end /\ c = Cardinality(InSpan(list, w))
  <2>0. b < b + 1 /\ b..(b + 1 - 1) = {b}
    <3> HIDE DEF b
    <3> QED
      BY <1>2
  <2>1. Span(w) = {b}
    BY <1>4, <2>0 DEF Span
  <2>2. InSpan(list, w) = {p \in DOMAIN list : Bucket(list, list[p]) = b}
    BY <2>1 DEF InSpan
  <2>3. c = Cardinality({p \in DOMAIN list : Bucket(list, list[p]) = b})
    BY <1>2 DEF BucketCount, CountIn
  <2> QED
    BY <1>4, <2>0, <2>1, <2>2, <2>3
<1>6. now = before \union {b}
  BY <1>1
<1>7. a # <<>> => k > 1 /\ Last(a).end = m[k - 1] + 1 /\ m[k - 1] < b /\ m[k - 1] \in Int
  <2> SUFFICES ASSUME a # <<>> PROVE k > 1 /\ Last(a).end = m[k - 1] + 1 /\ m[k - 1] < b /\ m[k - 1] \in Int
    OBVIOUS
  <2>1. k - 1 # 0
    BY DEF Runs
  <2>2. k - 1 \in 1..Marks(list) /\ k - 1 > 0 /\ k - 1 < k
    BY <1>1, <2>1
  <2>3. m[k - 1] < b /\ m[k - 1] \in Int
    BY <2>2, MarkedIs
  <2> QED
    BY <1>1, <2>2, <2>3 DEF Runs
<1>8. \A i \in 1..Len(a) : /\ a[i].start < a[i].end /\ Span(a[i]) \subseteq before
                          /\ a[i].count = Cardinality(InSpan(list, a[i]))
                          /\ (i > 1 => a[i - 1].end < a[i].start)
  BY DEF Runs
<1>9. \A j \in 1..(k - 1) : \E i \in 1..Len(a) : m[j] \in Span(a[i])
  BY DEF Runs
<1> HIDE DEF m, w, b, c, before, now
<1>10. CASE a = <<>> \/ Last(a).end # w.start
  <2> DEFINE r == Append(a, w)
  <2>1. MergeNext(a, w) = r
    BY <1>10 DEF MergeNext
  <2>2. /\ r \in Seq(Burst) /\ r # <<>> /\ Len(r) = Len(a) + 1 /\ Last(r) = w
        /\ \A i \in 1..Len(a) : r[i] = a[i]
        /\ r[Len(a) + 1] = w
    BY <1>2, <1>3, AppendProperties DEF Last
  <2> HIDE DEF r
  <2>3. ASSUME a # <<>> PROVE Last(a).end < b
    <3>1. Last(a).end # b
      BY <1>4, <1>10, <2>3
    <3> QED
      BY <1>2, <1>7, <2>3, <3>1
  <2>4. \A i \in 1..Len(r) : i = Len(a) + 1 \/ i \in 1..Len(a)
    BY <1>3, <2>2
  <2>5. ASSUME NEW i \in 1..Len(r)
        PROVE  /\ r[i].start < r[i].end /\ Span(r[i]) \subseteq now
               /\ r[i].count = Cardinality(InSpan(list, r[i]))
               /\ (i > 1 => r[i - 1].end < r[i].start)
    <3>1. CASE i \in 1..Len(a)
      <4>1. r[i] = a[i] /\ (i > 1 => r[i - 1] = a[i - 1])
        BY <1>3, <2>2, <3>1
      <4> QED
        BY <1>6, <1>8, <3>1, <4>1
    <3>2. CASE i = Len(a) + 1
      <4>1. r[i] = w
        BY <2>2, <3>2
      <4>2. ASSUME i > 1 PROVE r[i - 1].end < w.start
        <5>1. Len(a) \in 1..Len(a) /\ i - 1 = Len(a) /\ a # <<>>
          BY <1>3, <3>2, <4>2, EmptySeq
        <5>2. r[i - 1] = Last(a)
          BY <2>2, <5>1 DEF Last
        <5> QED
          BY <1>4, <2>3, <5>1, <5>2
      <4> QED
        BY <1>4, <1>5, <1>6, <4>1, <4>2
    <3> QED
      BY <2>4, <3>1, <3>2
  <2>6. ASSUME NEW j \in 1..k PROVE \E i \in 1..Len(r) : m[j] \in Span(r[i])
    <3>1. CASE j = k
      <4>1. Len(a) + 1 \in 1..Len(r) /\ m[j] = b
        BY <1>3, <2>2, <3>1 DEF b
      <4> QED
        BY <1>5, <2>2, <4>1
    <3>2. CASE j # k
      <4>1. j \in 1..(k - 1)
        BY <1>1, <3>2
      <4>2. PICK i \in 1..Len(a) : m[j] \in Span(a[i])
        BY <1>9, <4>1
      <4>3. i \in 1..Len(r) /\ r[i] = a[i]
        BY <1>3, <2>2
      <4> QED
        BY <4>2, <4>3
    <3> QED
      BY <3>1, <3>2
  <2>7. Last(r).end = m[k] + 1
    BY <1>4, <2>2 DEF b
  <2>8. Runs(list, r, k)
    <3>1. now = {Marked(list)[j] : j \in 1..k} /\ m = Marked(list)
      BY DEF now, m
    <3>2. \A i \in 1..Len(r) : /\ r[i].start < r[i].end /\ Span(r[i]) \subseteq {Marked(list)[j] : j \in 1..k}
                              /\ r[i].count = Cardinality(InSpan(list, r[i]))
                              /\ (i > 1 => r[i - 1].end < r[i].start)
      BY <2>5, <3>1
    <3>3. \A j \in 1..k : \E i \in 1..Len(r) : Marked(list)[j] \in Span(r[i])
      BY <2>6, <3>1
    <3>4. Last(r).end = Marked(list)[k] + 1 /\ k # 0 /\ r \in Seq(Burst) /\ r # <<>>
      BY <1>1, <2>2, <2>7, <3>1
    <3> HIDE DEF r
    <3> QED
      BY <3>2, <3>3, <3>4 DEF Runs
  <2> QED
    BY <2>1, <2>8 DEF w
<1>11. CASE a # <<>> /\ Last(a).end = w.start
  <2> DEFINE f == Front(a)   l == Last(a)   u == [start |-> l.start, end |-> b + 1, count |-> l.count + c]
             r == Append(f, u)
  <2>1. MergeNext(a, w) = r
    BY <1>4, <1>11 DEF MergeNext
  <2>2. /\ f \in Seq(Burst) /\ l \in Burst /\ a = Append(f, l) /\ Len(a) \in Nat \ {0} /\ Len(f) = Len(a) - 1
    BY <1>3, <1>11, FrontLast
  <2>3. u \in Burst /\ u.start = l.start /\ u.end = b + 1 /\ u.count = l.count + c
    <3>1. l.start \in Int /\ l.count \in Int /\ c \in Int
      BY <1>2, <2>2 DEF Burst
    <3> QED
      BY <1>2, <3>1 DEF Burst
  <2>l. l = a[Len(a)]
    BY DEF Last
  <2> HIDE DEF f, l, u
  <2>4. Len(f) \in Nat /\ \A i \in 1..Len(f) : a[i] = f[i]
    <3>1. \A i \in 1..Len(f) : Append(f, l)[i] = f[i]
      BY <2>2, AppendProperties
    <3> QED
      BY <2>2, <3>1
  <2>5. /\ r \in Seq(Burst) /\ r # <<>> /\ Len(r) = Len(a) /\ Last(r) = u
        /\ \A i \in 1..Len(f) : r[i] = a[i]
        /\ r[Len(a)] = u
    <3>1. /\ r \in Seq(Burst) /\ r # <<>> /\ Len(r) = Len(f) + 1 /\ r[Len(f) + 1] = u
          /\ \A i \in 1..Len(f) : r[i] = f[i]
      BY <2>2, <2>3, AppendProperties
    <3>2. Len(f) + 1 = Len(a)
      BY <2>2
    <3> HIDE DEF r
    <3> QED
      BY <2>4, <3>1, <3>2 DEF Last
  <2> HIDE DEF r
  <2>6. Len(a) \in 1..Len(a) /\ l.start \in Int /\ l.end = b /\ l.start < b /\ Span(l) \subseteq before
        /\ l.count = Cardinality(InSpan(list, l))
    <3>1. Len(a) \in 1..Len(a)
      BY <2>2
    <3>2. l.end = b
      BY <1>4, <1>11 DEF l
    <3>3. l.start < l.end /\ Span(l) \subseteq before /\ l.count = Cardinality(InSpan(list, l))
      BY <1>8, <2>l, <3>1
    <3> QED
      BY <2>2, <3>1, <3>2, <3>3 DEF Burst
  <2>7. Span(u) = Span(l) \union {b} /\ b \notin Span(l)
    BY <1>2, <2>3, <2>6 DEF Span
  <2>8. l.count + c = Cardinality(InSpan(list, u))
    <3>1. /\ InSpan(list, u) = InSpan(list, l) \union InSpan(list, w)
          /\ InSpan(list, l) \intersect InSpan(list, w) = {}
      BY <1>5, <2>7 DEF InSpan
    <3>2. IsFiniteSet(InSpan(list, l)) /\ IsFiniteSet(InSpan(list, w))
      <4>1. DOMAIN list = 1..Len(list) /\ Len(list) \in Nat
        BY AnalyzerAssumption, LenProperties
      <4>2. IsFiniteSet(DOMAIN list)
        BY <4>1, FS_Interval
      <4> QED
        BY <4>2, FS_Subset DEF InSpan
    <3>3. Cardinality(InSpan(list, u)) = Cardinality(InSpan(list, l)) + Cardinality(InSpan(list, w))
      BY <3>1, <3>2, DisjointCount
    <3> QED
      BY <1>5, <2>6, <3>3
  <2>9. \A i \in 1..Len(r) : i = Len(a) \/ i \in 1..Len(f)
    BY <2>2, <2>5
  <2>10. ASSUME NEW i \in 1..Len(r)
         PROVE  /\ r[i].start < r[i].end /\ Span(r[i]) \subseteq now
                /\ r[i].count = Cardinality(InSpan(list, r[i]))
                /\ (i > 1 => r[i - 1].end < r[i].start)
    <3>1. CASE i \in 1..Len(f)
      <4>1. i \in 1..Len(a) /\ r[i] = a[i] /\ (i > 1 => r[i - 1] = a[i - 1])
        BY SMTT(20), <2>2, <2>4, <2>5, <3>1
      <4> QED
        BY <1>6, <1>8, <4>1
    <3>2. CASE i = Len(a)
      <4>1. r[i] = u /\ i \in 1..Len(a)
        BY <2>5, <2>6, <3>2
      <4>2. ASSUME i > 1 PROVE r[i - 1].end < l.start
        <5>1. i - 1 \in 1..Len(f) /\ r[i - 1] = a[i - 1]
          BY <2>2, <2>5, <3>2, <4>2
        <5> QED
          BY <1>8, <2>l, <3>2, <4>1, <4>2, <5>1
      <4>3. l.start < b + 1 /\ Span(u) \subseteq now
        BY <1>2, <1>6, <2>6, <2>7
      <4> QED
        BY <2>3, <2>8, <4>1, <4>2, <4>3
    <3> QED
      BY <2>9, <3>1, <3>2
  <2>11. ASSUME NEW j \in 1..k PROVE \E i \in 1..Len(r) : m[j] \in Span(r[i])
    <3>0. Len(a) \in 1..Len(r) /\ r[Len(a)] = u
      BY <2>5, <2>6
    <3>1. CASE j = k
      <4>1. m[j] \in Span(u)
        BY <2>7, <3>1 DEF b
      <4> QED
        BY <3>0, <4>1
    <3>2. CASE j # k
      <4>1. j \in 1..(k - 1)
        BY <1>1, <3>2
      <4>2. PICK i \in 1..Len(a) : m[j] \in Span(a[i])
        BY <1>9, <4>1
      <4>3. CASE i = Len(a)
        BY <2>7, <2>l, <3>0, <4>2, <4>3
      <4>4. CASE i # Len(a)
        <5>1. i \in 1..Len(f) /\ i \in 1..Len(r)
          BY <2>2, <2>5, <4>4
        <5> QED
          BY <2>5, <4>2, <5>1
      <4> QED
        BY <4>3, <4>4
    <3> QED
      BY <3>1, <3>2
  <2>12. Last(r).end = m[k] + 1
    BY <2>3, <2>5 DEF b
  <2>13. Runs(list, r, k)
    <3>1. now = {Marked(list)[j] : j \in 1..k} /\ m = Marked(list)
      BY DEF now, m
    <3>2. \A i \in 1..Len(r) : /\ r[i].start < r[i].end /\ Span(r[i]) \subseteq {Marked(list)[j] : j \in 1..k}
                              /\ r[i].count = Cardinality(InSpan(list, r[i]))
                              /\ (i > 1 => r[i - 1].end < r[i].start)
      BY <2>10, <3>1
    <3>3. \A j \in 1..k : \E i \in 1..Len(r) : Marked(list)[j] \in Span(r[i])
      BY <2>11, <3>1
    <3>4. Last(r).end = Marked(list)[k] + 1 /\ k # 0 /\ r \in Seq(Burst) /\ r # <<>>
      BY <1>1, <2>5, <2>12, <3>1
    <3> HIDE DEF r
    <3> QED
      BY <3>2, <3>3, <3>4 DEF Runs
  <2> QED
    BY <2>1, <2>13 DEF w
<1> QED
  BY <1>10, <1>11

LEMMA BurstsAre ==
  ASSUME NEW list \in Inputs
  PROVE  Runs(list, Bursts(list), Marks(list))
<1> DEFINE n == Marks(list)
<1>1. PICK acc : /\ acc[0] = <<>> /\ Bursts(list) = acc[n]
                 /\ \A k \in 1..n : acc[k] = MergeNext(acc[k - 1], WindowAt(list, k))
  BY BurstsSoFar
<1>2. n \in Nat
  BY MarkedIs
<1> DEFINE T == {k \in 0..n : Runs(list, acc[k], k)}
<1>3. 0 \in T
  <2>1. Len(<<>>) = 0 /\ <<>> \in Seq(Burst)
    OBVIOUS
  <2>2. Runs(list, <<>>, 0)
    BY <2>1 DEF Runs
  <2> QED
    BY <1>1, <1>2, <2>2
<1>4. ASSUME NEW k \in 0..n - 1, k \in T PROVE k + 1 \in T
  <2>1. k + 1 \in 1..n /\ (k + 1) - 1 = k /\ k + 1 \in 0..n
    BY <1>2
  <2>2. Runs(list, MergeNext(acc[(k + 1) - 1], WindowAt(list, k + 1)), k + 1)
    BY <1>4, <2>1, MergeRuns
  <2> QED
    BY <1>1, <2>1, <2>2
<1> HIDE DEF T
<1>5. 0..n \subseteq T
  BY <1>2, <1>3, <1>4, ByCounting
<1> QED
  BY <1>1, <1>2, <1>5 DEF T

LEMMA BurstsWhole ==
  ASSUME NEW list \in Inputs, NEW a, a = Bursts(list)
  PROVE  /\ a \in Seq(Burst) /\ UNION {Span(a[k]) : k \in DOMAIN a} = Qualifying(list)
         /\ \A k \in DOMAIN a :
              /\ a[k].start < a[k].end /\ a[k].count = Cardinality(InSpan(list, a[k]))
              /\ (k > 1 => a[k - 1].end < a[k].start)
         /\ (a # <<>> => Qualifying(list) # {})
<1>1. Runs(list, a, Marks(list))
  BY BurstsAre
<1>2. Qualifying(list) = {Marked(list)[j] : j \in 1..Marks(list)}
  BY MarkedIs
<1>3. a \in Seq(Burst) /\ DOMAIN a = 1..Len(a) /\ Marks(list) \in Nat
  BY <1>1, MarkedIs, LenProperties DEF Runs
<1>4. \A k \in DOMAIN a :
        /\ a[k].start < a[k].end /\ a[k].count = Cardinality(InSpan(list, a[k]))
        /\ Span(a[k]) \subseteq Qualifying(list)
        /\ (k > 1 => a[k - 1].end < a[k].start)
  BY <1>1, <1>2, <1>3 DEF Runs
<1>5. \A j \in 1..Marks(list) : \E i \in DOMAIN a : Marked(list)[j] \in Span(a[i])
  BY <1>1, <1>3 DEF Runs
<1>6. \A b \in Qualifying(list) : \E i \in DOMAIN a : b \in Span(a[i])
  BY <1>2, <1>5
<1>7. UNION {Span(a[k]) : k \in DOMAIN a} = Qualifying(list)
  BY <1>4, <1>6
<1>8. a # <<>> => Qualifying(list) # {}
  <2>1. a # <<>> => Marks(list) # 0
    BY <1>1 DEF Runs
  <2>2. Marks(list) # 0 => 1 \in 1..Marks(list)
    BY <1>3
  <2> QED
    BY <1>2, <2>1, <2>2
<1> QED
  BY <1>3, <1>4, <1>7, <1>8

(* The report, once there is one, is what the functions make of the list.  *)
Report(list) ==
  [bursts |-> Bursts(list), weeks |-> Anomalies(list), graph |-> Correlated(list),
   clusters |-> Clusters(list)]
Reported == events \in Inputs /\ (Analyzed => result = Report(events))

LEMMA AnalyzerInitInv == AnalyzerInit => Reported
BY DEF AnalyzerInit, Reported, Analyzed

LEMMA AnalyzeStep == Reported /\ [Analyze]_analyzerVars => Reported'
<1> SUFFICES ASSUME Reported, [Analyze]_analyzerVars PROVE Reported'
  OBVIOUS
<1>1. CASE Analyze
  BY <1>1 DEF Reported, Report, Analyze, Analyzed
<1>2. CASE UNCHANGED analyzerVars
  BY <1>2 DEF Reported, Analyzed, analyzerVars
<1> QED
  BY <1>1, <1>2

LEMMA BurstsMaximalHold == Reported => BurstsMaximal
<1> SUFFICES ASSUME Reported, Analyzed PROVE BurstsMaximal
  BY DEF BurstsMaximal
<1> DEFINE a == result.bursts
<1>1. events \in Inputs /\ a = Bursts(events)
  BY DEF Reported, Report
<1> HIDE DEF a
<1>2. /\ UNION {Span(a[k]) : k \in DOMAIN a} = Qualifying(events)
      /\ \A k \in DOMAIN a :
           /\ a[k].count = Cardinality(InSpan(events, a[k]))
           /\ (k > 1 => a[k - 1].end < a[k].start)
  BY <1>1, BurstsWhole
<1>3. \A k \in DOMAIN a :
        CountIn(events, LAMBDA e : Bucket(events, e) \in a[k].start..(a[k].end - 1))
          = Cardinality(InSpan(events, a[k]))
  BY DEF CountIn, InSpan, Span
<1>4. UNION {a[k].start..(a[k].end - 1) : k \in DOMAIN a} = Qualifying(events)
  BY <1>2 DEF Span
<1> QED
  BY <1>2, <1>3, <1>4 DEF BurstsMaximal, a

-----------------------------------------------------------------------------
(* Sums: one taken out, all the same, and the sizes of disjoint sets.      *)
LEMMA SumEmpty == ASSUME NEW f PROVE SumFunctionOnSet(f, {}) = 0
<1>1. IsFiniteSet({}) /\ \A r \in {} : f[r] \in Int
  BY FS_EmptySet
<1>2. PICK g : Sums(g, f, {}) /\ SumFunctionOnSet(f, {}) = g[{}]
  BY <1>1, SumIs
<1>3. {} \in SUBSET {}
  OBVIOUS
<1> QED
  BY <1>2, <1>3 DEF Sums

LEMMA SumTake ==
  ASSUME NEW R, IsFiniteSet(R), NEW f, \A r \in R : f[r] \in Int, NEW x \in R
  PROVE  /\ SumFunctionOnSet(f, R) \in Int /\ SumFunctionOnSet(f, R \ {x}) \in Int
         /\ SumFunctionOnSet(f, R) = f[x] + SumFunctionOnSet(f, R \ {x})
<1> DEFINE Q == R \ {x}
<1>1. IsFiniteSet(Q) /\ Q \in SUBSET R /\ R \in SUBSET R /\ Q \in SUBSET Q /\ \A r \in Q : f[r] \in Int
  BY FS_RemoveElement
<1>2. PICK g : Sums(g, f, R) /\ SumFunctionOnSet(f, R) = g[R]
  BY SumIs
<1> HIDE DEF Q
<1>3. PICK h : Sums(h, f, Q) /\ SumFunctionOnSet(f, Q) = h[Q]
  BY <1>1, SumIs
<1>4. g[Q] = h[Q]
  BY <1>1, <1>2, <1>3, SumsUnique
<1>5. g[R] = f[x] + g[Q]
  <2>1. Sums(g, f, R)
    BY <1>2
  <2> SUFFICES ASSUME NEW u \in SUBSET R, NEW r \in u PROVE g[u] = f[r] + g[u \ {r}]
    BY <1>1 DEF Q
  <2> QED
    BY <2>1, SumsRemove
<1>6. g[R] \in Int /\ g[Q] \in Int
  BY <1>1, <1>2 DEF Sums
<1> QED
  BY <1>2, <1>3, <1>4, <1>5, <1>6 DEF Q

LEMMA SumIn ==
  ASSUME NEW R, IsFiniteSet(R), NEW f, \A r \in R : f[r] \in Int
  PROVE  SumFunctionOnSet(f, R) \in Int
<1>1. CASE R = {}
  BY <1>1, SumEmpty
<1>2. CASE R # {}
  BY <1>2, SumTake
<1> QED
  BY <1>1, <1>2

LEMMA SumSame ==
  ASSUME NEW R, IsFiniteSet(R), NEW f, \A r \in R : f[r] \in Int, NEW h, \A r \in R : h[r] = f[r]
  PROVE  SumFunctionOnSet(h, R) = SumFunctionOnSet(f, R)
<1> DEFINE T == {s \in SUBSET R : SumFunctionOnSet(h, s) # SumFunctionOnSet(f, s)}
<1> SUFFICES ASSUME T # {} PROVE FALSE
  OBVIOUS
<1>0. T \subseteq SUBSET R
  OBVIOUS
<1> HIDE DEF T
<1>1. PICK s \in T : \A u \in T : u \subseteq s => u = s
  BY <1>0, LeastSubset
<1>2. s \in SUBSET R /\ SumFunctionOnSet(h, s) # SumFunctionOnSet(f, s)
  BY <1>1 DEF T
<1>3. s # {}
  BY <1>2, SumEmpty
<1>4. PICK x \in s : TRUE
  BY <1>3
<1>5. /\ IsFiniteSet(s) /\ \A r \in s : f[r] \in Int /\ h[r] \in Int /\ h[r] = f[r]
  BY <1>2, FS_Subset
<1>6. s \ {x} \notin T
  BY <1>1, <1>4
<1>7. SumFunctionOnSet(h, s \ {x}) = SumFunctionOnSet(f, s \ {x})
  BY <1>2, <1>6 DEF T
<1>8. SumFunctionOnSet(h, s) = h[x] + SumFunctionOnSet(h, s \ {x})
  BY <1>4, <1>5, SumTake
<1>9. SumFunctionOnSet(f, s) = f[x] + SumFunctionOnSet(f, s \ {x})
  BY <1>4, <1>5, SumTake
<1> QED
  BY <1>2, <1>4, <1>5, <1>7, <1>8, <1>9

(* The finite set All is the union of the disjoint sets F, of the sizes f. *)
Parts(R, F, f, All) ==
  /\ IsFiniteSet(R) /\ IsFiniteSet(All) /\ \A r \in R : F[r] \in SUBSET All
  /\ \A p \in All : \E r \in R : p \in F[r]
  /\ \A r, q \in R : r # q => F[r] \intersect F[q] = {}
  /\ \A r \in R : f[r] = Cardinality(F[r])

LEMMA SumOfParts ==
  ASSUME NEW R, NEW F, NEW f, NEW All, Parts(R, F, f, All)
  PROVE  SumFunctionOnSet(f, R) = Cardinality(All)
<1>p. /\ IsFiniteSet(R) /\ IsFiniteSet(All) /\ \A r \in R : F[r] \in SUBSET All
      /\ \A r, q \in R : r # q => F[r] \intersect F[q] = {}
      /\ \A r \in R : f[r] = Cardinality(F[r])
      /\ UNION {F[r] : r \in R} = All
  BY DEF Parts
<1> SUFFICES SumFunctionOnSet(f, R) = Cardinality(UNION {F[r] : r \in R})
  BY <1>p
<1> DEFINE U(s) == UNION {F[r] : r \in s}
           T == {s \in SUBSET R : SumFunctionOnSet(f, s) # Cardinality(U(s))}
<1> SUFFICES ASSUME T # {} PROVE FALSE
  OBVIOUS
<1>0. T \subseteq SUBSET R
  OBVIOUS
<1> HIDE DEF T
<1>1. PICK s \in T : \A u \in T : u \subseteq s => u = s
  BY <1>0, <1>p, LeastSubset
<1>2. s \in SUBSET R /\ SumFunctionOnSet(f, s) # Cardinality(U(s))
  BY <1>1 DEF T
<1>3. s # {}
  <2> SUFFICES ASSUME s = {} PROVE FALSE
    OBVIOUS
  <2>1. U({}) = {} /\ Cardinality({}) = 0
    BY FS_EmptySet
  <2> HIDE DEF U
  <2> QED
    BY <1>2, <2>1, SumEmpty
<1>4. PICK x \in s : TRUE
  BY <1>3
<1>5. \A r \in R : IsFiniteSet(F[r]) /\ f[r] \in Int
  BY <1>p, FS_Subset, FS_CardinalityType
<1>6. IsFiniteSet(s) /\ \A r \in s : f[r] \in Int
  BY <1>2, <1>5, <1>p, FS_Subset
<1>7. s \ {x} \in SUBSET R /\ s \ {x} \notin T
  BY <1>1, <1>2, <1>4
<1>8. SumFunctionOnSet(f, s \ {x}) = Cardinality(U(s \ {x}))
  BY <1>7 DEF T
<1>9. SumFunctionOnSet(f, s) = f[x] + SumFunctionOnSet(f, s \ {x})
  BY <1>4, <1>6, SumTake
<1>10. U(s) = U(s \ {x}) \union F[x] /\ U(s \ {x}) \in SUBSET All
  BY <1>2, <1>4, <1>p
<1>11. U(s \ {x}) \intersect F[x] = {}
  BY <1>2, <1>4, <1>p
<1> HIDE DEF U
<1> DEFINE A == U(s \ {x})   C == F[x]
<1>12. A \in SUBSET All /\ A \intersect C = {} /\ U(s) = A \union C /\ C \in SUBSET All /\ f[x] = Cardinality(C)
  BY <1>2, <1>4, <1>10, <1>11, <1>p
<1>13. SumFunctionOnSet(f, s) = Cardinality(C) + Cardinality(A) /\ SumFunctionOnSet(f, s) # Cardinality(A \union C)
  BY <1>2, <1>8, <1>9, <1>12
<1> HIDE DEF A, C
<1>14. IsFiniteSet(A) /\ IsFiniteSet(C)
  BY <1>12, <1>p, FS_Subset
<1>15. Cardinality(A \union C) = Cardinality(A) + Cardinality(C) /\ Cardinality(A) \in Nat /\ Cardinality(C) \in Nat
  BY <1>12, <1>14, DisjointCount, FS_CardinalityType
<1> QED
  BY <1>13, <1>15

-----------------------------------------------------------------------------
(* The verdicts on the weeks.  A list picked from another has as many of   *)
(* every week as the positions picked.                                     *)
LEMMA PickedCount ==
  ASSUME NEW s, NEW ks, IsFiniteSet(ks), ks \subseteq Nat,
         NEW Z, Z \subseteq ks,
         NEW D, D = {i \in DOMAIN Picked(s, ks) : Ascending(ks)[i] \in Z}
  PROVE  Cardinality(D) = Cardinality(Z)
<1> DEFINE n == Cardinality(ks)   o == Ascending(ks)
<1>1. ks \subseteq Int
  OBVIOUS
<1>2. /\ n \in Nat /\ DOMAIN o = 1..n /\ \A i \in 1..n : o[i] \in ks
      /\ \A k \in ks : \E i \in 1..n : o[i] = k
      /\ \A i, j \in 1..n : i < j => o[i] < o[j]
  BY <1>1, AscendingIs
<1>3. D = {i \in 1..n : o[i] \in Z}
  BY <1>2 DEF Picked
<1> HIDE DEF n, o
<1> DEFINE f == [i \in D |-> o[i]]
<1>4. f \in [D -> Z] /\ \A z \in Z : \E i \in D : f[i] = z
  BY <1>2, <1>3
<1>5. \A i, j \in D : f[i] = f[j] => i = j
  <2> SUFFICES ASSUME NEW i \in D, NEW j \in D, i # j PROVE f[i] # f[j]
    OBVIOUS
  <2>1. i \in 1..n /\ j \in 1..n /\ (i < j \/ j < i)
    BY <1>2, <1>3
  <2>2. o[i] \in Int /\ o[j] \in Int /\ (o[i] < o[j] \/ o[j] < o[i])
    BY <1>1, <1>2, <2>1
  <2> QED
    BY <2>2
<1> HIDE DEF f
<1>6. f \in Bijection(D, Z)
  BY <1>4, <1>5, Zenon DEF Bijection, Injection, Surjection, IsInjective
<1>7. IsFiniteSet(D) /\ ExistsBijection(D, Z)
  <2>1. D \in SUBSET (1..n) /\ IsFiniteSet(1..n)
    BY <1>2, <1>3, UpTo
  <2> QED
    BY <1>6, <2>1, FS_Subset, Zenon DEF ExistsBijection
<1> QED
  BY <1>7, FS_Bijection

(* Counts that agree on the weeks before one agree on its verdict.         *)
LEMMA SameSpread ==
  ASSUME NEW R, IsFiniteSet(R), NEW f, \A r \in R : f[r] \in Int, NEW h, \A r \in R : h[r] = f[r],
         NEW c
  PROVE  Spread(h, R) = Spread(f, R) /\ Excess(c, h, R) = Excess(c, f, R)
<1>1. Total(h, R) = Total(f, R)
  BY SumSame DEF Total
<1> DEFINE p == [b \in R |-> Square(f[b])]   q == [b \in R |-> Square(h[b])]
<1>2. \A r \in R : p[r] \in Int /\ q[r] = p[r]
  BY DEF Square
<1> HIDE DEF p, q
<1>3. Total(q, R) = Total(p, R)
  BY <1>2, SumSame DEF Total
<1>4. Squares(h, R) = Squares(f, R)
  BY <1>3 DEF Squares, p, q
<1> QED
  BY <1>1, <1>4 DEF Spread, Excess

WeekOf(list, v) == {k \in DOMAIN list : Week(list[k]) = v}

LEMMA WeeksAre ==
  ASSUME NEW list \in Inputs
  PROVE  /\ IsFiniteSet(DOMAIN list) /\ DOMAIN list \subseteq Nat
         /\ IsFiniteSet(Weeks(list)) /\ Weeks(list) \subseteq Int
         /\ \A v \in Weeks(list) : WeekCount(list)[v] = Cardinality(WeekOf(list, v)) /\ WeekCount(list)[v] \in Int
<1>1. list \in Seq(LogEvent) /\ DOMAIN list = 1..Len(list) /\ Len(list) \in Nat
      /\ \A p \in DOMAIN list : list[p] \in LogEvent
  BY AnalyzerAssumption, LenProperties, ElementOfSeq
<1>2. IsFiniteSet(DOMAIN list) /\ DOMAIN list \subseteq Nat
  BY <1>1, FS_Interval
<1>3. IsFiniteSet(Weeks(list))
  <2> DEFINE f == [k \in DOMAIN list |-> Week(list[k])]
  <2>1. f \in Surjection(DOMAIN list, Weeks(list))
    BY Zenon DEF Weeks, Surjection
  <2> QED
    BY <1>2, <2>1, FS_Surjection
<1>4. ASSUME NEW p \in DOMAIN list PROVE Week(list[p]) \in Int
  <2>0. DaySeconds \in Nat \ {0}
    BY AnalyzerAssumption
  <2>1. list[p].at \in Int /\ 7 * DaySeconds \in Nat \ {0}
    <3>1. list[p] \in LogEvent
      BY <1>1, <1>4
    <3>2. list[p].at \in Int
      BY <3>1 DEF LogEvent
    <3>3. 7 * DaySeconds \in Nat \ {0}
      BY <2>0
    <3> QED
      BY <3>2, <3>3
  <2> DEFINE d == 7 * DaySeconds
  <2> HIDE DEF d
  <2>2. list[p].at \div d \in Int
    BY <2>1 DEF d
  <2> QED
    BY <2>2 DEF Week, d
<1>5. Weeks(list) \subseteq Int
  BY <1>4 DEF Weeks
<1>6. \A v \in Weeks(list) : WeekCount(list)[v] = Cardinality(WeekOf(list, v))
  BY DEF WeekCount, CountIn, WeekOf
<1>7. \A v : Cardinality(WeekOf(list, v)) \in Int
  BY <1>2, FS_Subset, FS_CardinalityType DEF WeekOf
<1> QED
  BY <1>2, <1>3, <1>5, <1>6, <1>7

SoFar(list, w) == {k \in DOMAIN list : Week(list[k]) <= w}

LEMMA UntilIs ==
  ASSUME NEW list \in Inputs, NEW w \in Weeks(list), NEW ks, ks = SoFar(list, w)
  PROVE  /\ Weeks(Picked(list, ks)) = {v \in Weeks(list) : v <= w}
         /\ \A v \in Weeks(Picked(list, ks)) : WeekCount(Picked(list, ks))[v] = WeekCount(list)[v]
<1> DEFINE u == Picked(list, ks)   o == Ascending(ks)
<1>1. /\ IsFiniteSet(DOMAIN list) /\ DOMAIN list \subseteq Nat /\ Weeks(list) \subseteq Int
      /\ \A v \in Weeks(list) : WeekCount(list)[v] = Cardinality(WeekOf(list, v))
  BY WeeksAre
<1>2. ks \in SUBSET DOMAIN list /\ IsFiniteSet(ks) /\ ks \subseteq Nat /\ ks \subseteq Int
      /\ \A k \in DOMAIN list : k \in ks <=> Week(list[k]) <= w
  BY <1>1, FS_Subset DEF SoFar
<1>o. /\ DOMAIN o = 1..Cardinality(ks) /\ \A i \in DOMAIN o : o[i] \in ks
      /\ \A k \in ks : \E i \in DOMAIN o : o[i] = k
  BY <1>2, AscendingIs
<1>u. u = [i \in DOMAIN o |-> list[o[i]]]
  BY DEF Picked
<1> HIDE DEF u, o
<1>3. /\ DOMAIN u = DOMAIN o /\ \A i \in DOMAIN u : u[i] = list[o[i]] /\ o[i] \in ks
      /\ \A k \in ks : \E i \in DOMAIN u : o[i] = k
  BY <1>o, <1>u
<1>4. Weeks(u) = {v \in Weeks(list) : v <= w}
  <2>1. ASSUME NEW v \in Weeks(u) PROVE v \in Weeks(list) /\ v <= w
    <3>1. PICK i \in DOMAIN u : v = Week(u[i])
      BY DEF Weeks
    <3>2. o[i] \in ks /\ u[i] = list[o[i]]
      BY <1>3
    <3>3. v = Week(list[o[i]]) /\ o[i] \in DOMAIN list
      BY <1>2, <3>1, <3>2
    <3>4. v <= w
      BY <1>2, <3>2, <3>3
    <3> QED
      BY <3>3, <3>4 DEF Weeks
  <2>2. ASSUME NEW v \in Weeks(list), v <= w PROVE v \in Weeks(u)
    <3>1. PICK k \in DOMAIN list : v = Week(list[k])
      BY DEF Weeks
    <3>2. k \in ks
      BY <1>2, <2>2, <3>1
    <3>3. PICK i \in DOMAIN u : o[i] = k
      BY <1>3, <3>2
    <3> QED
      BY <1>3, <3>1, <3>3 DEF Weeks
  <2> QED
    BY <2>1, <2>2
<1>5. ASSUME NEW v \in Weeks(u) PROVE WeekCount(u)[v] = WeekCount(list)[v]
  <2> DEFINE D == {i \in DOMAIN u : o[i] \in WeekOf(list, v)}
  <2>1. WeekCount(u)[v] = Cardinality({i \in DOMAIN u : Week(u[i]) = v})
    BY DEF WeekCount, CountIn
  <2>2. v \in Weeks(list) /\ v <= w
    BY <1>4
  <2>3. WeekOf(list, v) \subseteq ks
    BY <1>2, <2>2 DEF WeekOf
  <2>4. {i \in DOMAIN u : Week(u[i]) = v} = D
    BY <1>2, <1>3 DEF WeekOf
  <2>5. Cardinality(D) = Cardinality(WeekOf(list, v))
    BY <1>2, <2>3, PickedCount DEF u, o
  <2> QED
    BY <1>1, <2>1, <2>2, <2>4, <2>5
<1> QED
  BY <1>4, <1>5 DEF u

LEMMA VerdictsRepeat ==
  ASSUME NEW list \in Inputs, NEW w \in Weeks(list),
         NEW until, until = Picked(list, SoFar(list, w))
  PROVE  Anomalies(until) = [v \in {u \in DOMAIN Anomalies(list) : u <= w} |-> Anomalies(list)[v]]
<1> DEFINE f == WeekCount(list)   h == WeekCount(until)
<1>1. /\ Weeks(until) = {v \in Weeks(list) : v <= w}
      /\ \A v \in Weeks(until) : h[v] = f[v]
  BY UntilIs
<1>2. IsFiniteSet(Weeks(list)) /\ Weeks(list) \subseteq Int /\ \A v \in Weeks(list) : f[v] \in Int
  BY WeeksAre
<1>3. ASSUME NEW v \in Weeks(until)
      PROVE  /\ v \in Weeks(list) /\ v <= w /\ Earlier(until, v) = Earlier(list, v)
             /\ (Anomalous(until, v) <=> Anomalous(list, v))
             /\ Excess(h[v], h, Earlier(until, v)) = Excess(f[v], f, Earlier(list, v))
  <2> DEFINE R == Earlier(list, v)
  <2>1. v \in Weeks(list) /\ v <= w
    BY <1>1
  <2>2. Earlier(until, v) = R
    BY <1>1, <1>2, <2>1 DEF Earlier
  <2>3. R \in SUBSET Weeks(list) /\ R \in SUBSET Weeks(until)
    BY <2>2 DEF Earlier
  <2>4. IsFiniteSet(R) /\ \A r \in R : f[r] \in Int /\ h[r] = f[r]
    BY <1>1, <1>2, <2>3, FS_Subset
  <2> HIDE DEF R, f, h
  <2>5. h[v] = f[v] /\ Spread(h, R) = Spread(f, R) /\ Excess(f[v], h, R) = Excess(f[v], f, R)
    BY <1>1, <2>4, SameSpread
  <2>6. Far(f[v], h, R, WowZ) <=> Far(f[v], f, R, WowZ)
    BY <2>5 DEF Far
  <2> QED
    BY <2>1, <2>2, <2>5, <2>6 DEF Anomalous, f, h, R
<1>4. \A v \in Weeks(list) : v <= w => v \in Weeks(until)
  BY <1>1
<1>5. DOMAIN Anomalies(until) = {u \in DOMAIN Anomalies(list) : u <= w}
  BY <1>1, <1>3 DEF Anomalies
<1>6. \A v \in {x \in Weeks(until) : Anomalous(until, x)} :
        /\ (IF Excess(h[v], h, Earlier(until, v)) > 0 THEN "spike" ELSE "drop") = Anomalies(list)[v]
        /\ v \in Weeks(list)
  BY <1>3 DEF Anomalies
<1>7. Anomalies(until) = [v \in {x \in Weeks(until) : Anomalous(until, x)} |->
                           IF Excess(h[v], h, Earlier(until, v)) > 0 THEN "spike" ELSE "drop"]
  BY Zenon DEF Anomalies
<1>8. {x \in Weeks(until) : Anomalous(until, x)} = {u \in DOMAIN Anomalies(list) : u <= w}
  BY <1>5, <1>7
<1> DEFINE V == {x \in Weeks(until) : Anomalous(until, x)}   A == Anomalies(list)
<1>9. \A v \in V : (IF Excess(h[v], h, Earlier(until, v)) > 0 THEN "spike" ELSE "drop") = A[v]
  BY <1>6
<1>10. Anomalies(until) = [v \in V |-> A[v]]
  BY <1>7, <1>9, Zenon
<1> QED
  BY <1>8, <1>10

LEMMA VerdictsStandHold == Reported => VerdictsStand
<1> SUFFICES ASSUME Reported, Analyzed, NEW w \in Weeks(events),
                    NEW until, until = Picked(events, SoFar(events, w))
             PROVE  Anomalies(until) = [v \in {u \in DOMAIN result.weeks : u <= w} |-> result.weeks[v]]
  BY Zenon DEF VerdictsStand, SoFar
<1>1. events \in Inputs /\ result.weeks = Anomalies(events)
  BY DEF Reported, Report
<1> QED
  BY <1>1, VerdictsRepeat

-----------------------------------------------------------------------------
(* The pairs of templates that meet: a fold over the events in order that  *)
(* keeps the window before the next one.  First the greatest of a set.     *)
LEMMA MaxOver ==
  ASSUME NEW R, IsFiniteSet(R), \A r \in R : r \in Nat, R # {}, NEW r \in R
  PROVE  Max(R) >= r
<1> DEFINE Top(s) == \E m \in s : \A k \in s : m >= k
           T == {s \in SUBSET R : s # {} /\ ~Top(s)}
<1>1. T = {}
  <2> SUFFICES ASSUME T # {} PROVE FALSE
    OBVIOUS
  <2>0. T \subseteq SUBSET R
    OBVIOUS
  <2> HIDE DEF T
  <2>1. PICK s \in T : \A u \in T : u \subseteq s => u = s
    BY <2>0, LeastSubset
  <2>2. s \in SUBSET R /\ s # {} /\ ~Top(s)
    BY <2>1 DEF T
  <2>3. PICK x \in s : TRUE
    BY <2>2
  <2>4. PICK y \in s : ~(x >= y)
    BY <2>2
  <2>5. s \ {x} \in SUBSET R /\ s \ {x} # s /\ s \ {x} # {} /\ x \in Nat /\ y \in Nat /\ y \in s \ {x}
    BY <2>2, <2>4
  <2>6. Top(s \ {x})
    BY <2>1, <2>5 DEF T
  <2>7. PICK m \in s \ {x} : \A k \in s \ {x} : m >= k
    BY <2>6
  <2>8. m >= x
    BY <2>2, <2>4, <2>5, <2>7
  <2>9. \A k \in s : m >= k
    BY <2>7, <2>8
  <2> QED
    BY <2>2, <2>7, <2>9
<1>2. Top(R)
  BY <1>1
<1> QED
  BY <1>2 DEF Max

(* With steps that lead from every earlier kind of state to the kind of    *)
(* the position taken.                                                     *)
Onward(n, As, step) == \A k \in 1..n, j \in 0..n : j < k => \A a \in As[j] : step[<<a, k>>] \in As[k]
Folded(g, n, base, step, As) ==
  /\ g = [s \in SUBSET (1..n) |-> g[s]]
  /\ \A s \in SUBSET (1..n) : g[s] = IF s = {} THEN base ELSE step[<<g[s \ {Max(s)}], Max(s)>>]
  /\ \A s \in SUBSET (1..n) : s # {} => Max(s) \in 1..n
  /\ \A s \in SUBSET (1..n) : s # {} => \E j \in 0..n : j < Max(s) /\ g[s \ {Max(s)}] \in As[j]

LEMMA FoldInto ==
  ASSUME NEW n \in Nat, NEW As, NEW base \in As[0], NEW step, Onward(n, As, step)
  PROVE  \E g : Folded(g, n, base, step, As)
<1> DEFINE R == 1..n   top(s) == IF s = {} THEN 0 ELSE Max(s)
<1>1. IsFiniteSet(R) /\ \A r \in R : r \in Nat
  BY FS_Interval
<1>r. \A r \in R : r \in 0..n
  OBVIOUS
<1> HIDE DEF R
<1>2. PICK g : Folds(g, base, step, R)
  BY <1>1, FoldsExist
<1>3. g = [s \in SUBSET R |-> g[s]] /\ \A s \in SUBSET R : g[s] = Folding(g, base, step, s)
  BY <1>2 DEF Folds
<1>4. \A s \in SUBSET R : s # {} => Max(s) \in R /\ s \ {Max(s)} \in SUBSET R
                                   /\ s \ {Max(s)} \subseteq s /\ s \ {Max(s)} # s
  BY <1>1, LastTaken
<1>5. ASSUME NEW s \in SUBSET R, s # {} PROVE top(s \ {Max(s)}) \in 0..n /\ top(s \ {Max(s)}) < Max(s)
  <2> DEFINE u == s \ {Max(s)}
  <2>1. Max(s) \in 1..n /\ u \in SUBSET R
    BY <1>4, <1>5 DEF R
  <2>2. ASSUME u # {} PROVE Max(u) \in 1..n /\ Max(u) < Max(s)
    <3>1. Max(u) \in u
      BY <1>1, <2>1, <2>2, LastTaken
    <3>2. Max(u) \in s /\ Max(u) # Max(s) /\ Max(u) \in R
      BY <2>1, <3>1
    <3>3. IsFiniteSet(s) /\ \A r \in s : r \in Nat
      BY <1>1, FS_Subset
    <3> HIDE DEF u
    <3>4. Max(s) >= Max(u)
      BY <3>2, <3>3, MaxOver
    <3>5. Max(u) \in 1..n
      BY <3>2 DEF R
    <3> QED
      BY <2>1, <3>2, <3>4, <3>5
  <2> HIDE DEF u
  <2>3. top(u) = IF u = {} THEN 0 ELSE Max(u)
    OBVIOUS
  <2>4. top(u) \in 0..n /\ top(u) < Max(s)
    <3> HIDE DEF top
    <3> QED
      BY <2>1, <2>2, <2>3
  <2> QED
    BY <2>4 DEF u
<1> HIDE DEF top
<1>t. top({}) = 0 /\ \A s : s # {} => top(s) = Max(s)
  BY DEF top
<1>6. \A s \in SUBSET R : g[s] \in As[top(s)]
  <2> DEFINE T == {s \in SUBSET R : g[s] \notin As[top(s)]}
  <2> SUFFICES ASSUME T # {} PROVE FALSE
    OBVIOUS
  <2>0. T \subseteq SUBSET R
    OBVIOUS
  <2> HIDE DEF T
  <2>1. PICK s \in T : \A u \in T : u \subseteq s => u = s
    BY <1>1, <2>0, LeastSubset
  <2>2. s \in SUBSET R /\ g[s] \notin As[top(s)]
    BY <2>1 DEF T
  <2>3. s # {}
    BY <1>3, <1>t, <2>2 DEF Folding
  <2>4. g[s \ {Max(s)}] \in As[top(s \ {Max(s)})] /\ Max(s) \in R
    BY <1>4, <2>1, <2>2, <2>3 DEF T
  <2>5. Max(s) \in 1..n
    BY <2>4 DEF R
  <2>6. step[<<g[s \ {Max(s)}], Max(s)>>] \in As[Max(s)]
    BY <1>5, <2>2, <2>3, <2>4, <2>5 DEF Onward
  <2> QED
    BY <1>3, <1>t, <2>2, <2>3, <2>6 DEF Folding
<1>7. \A s \in SUBSET R : s # {} => \E j \in 0..n : j < Max(s) /\ g[s \ {Max(s)}] \in As[j]
  BY <1>4, <1>5, <1>6
<1>8. \A s \in SUBSET R : g[s] = IF s = {} THEN base ELSE step[<<g[s \ {Max(s)}], Max(s)>>]
  BY <1>3 DEF Folding
<1>9. \A s \in SUBSET R : s # {} => Max(s) \in 1..n
  BY <1>4 DEF R
<1> QED
  BY <1>3, <1>7, <1>8, <1>9 DEF R, Folded

(* The events with a service, sorted by time.                              *)
LEMMA ByTimeIs ==
  ASSUME NEW list \in Inputs, NEW sorted, sorted = ByTime(list)
  PROVE  \E n \in Nat : /\ DOMAIN sorted = 1..n
                        /\ \A k \in 1..n : sorted[k].at \in Int /\ sorted[k].service \in Service
                        /\ \A j, k \in 1..n : j < k => sorted[j].at <= sorted[k].at
<1> DEFINE placed == {k \in DOMAIN list : list[k].service # NoService}
           before == {p \in placed \X placed :
                       \/ list[p[1]].at < list[p[2]].at
                       \/ list[p[1]].at = list[p[2]].at /\ p[1] < p[2]}
           order == InOrder(placed, before)   n == Cardinality(placed)
<1>1. list \in Seq(LogEvent) /\ DOMAIN list = 1..Len(list) /\ Len(list) \in Nat
      /\ \A p \in DOMAIN list : list[p] \in LogEvent
  BY AnalyzerAssumption, LenProperties, ElementOfSeq
<1>2. IsFiniteSet(placed)
  <2>1. IsFiniteSet(DOMAIN list) /\ placed \in SUBSET DOMAIN list
    BY <1>1, FS_Interval
  <2> HIDE DEF placed
  <2> QED
    BY <2>1, FS_Subset
<1>3. \A k \in placed : list[k].at \in Int /\ list[k].service \in Service /\ k \in Int
  BY <1>1 DEF LogEvent
<1>4. ByTime(list) = [k \in DOMAIN order |-> list[order[k]]]
  BY DEF ByTime
<1>5. \A x, y \in placed : <<x, y>> \in before <=> list[x].at < list[y].at \/ (list[x].at = list[y].at /\ x < y)
  OBVIOUS
<1> HIDE DEF placed, before, order
<1>6. \A x \in placed : <<x, x>> \notin before
  BY <1>3, <1>5
<1>7. \A x, y, z \in placed : <<x, y>> \in before /\ <<y, z>> \in before => <<x, z>> \in before
  <2> SUFFICES ASSUME NEW x \in placed, NEW y \in placed, NEW z \in placed,
                      <<x, y>> \in before, <<y, z>> \in before
               PROVE  <<x, z>> \in before
    OBVIOUS
  <2>1. /\ list[x].at < list[y].at \/ (list[x].at = list[y].at /\ x < y)
        /\ list[y].at < list[z].at \/ (list[y].at = list[z].at /\ y < z)
    BY <1>5
  <2>2. list[x].at < list[z].at \/ (list[x].at = list[z].at /\ x < z)
    BY <1>3, <2>1
  <2> QED
    BY <1>5, <2>2
<1>8. \A x, y \in placed : x = y \/ <<x, y>> \in before \/ <<y, x>> \in before
  <2> SUFFICES ASSUME NEW x \in placed, NEW y \in placed
               PROVE  x = y \/ <<x, y>> \in before \/ <<y, x>> \in before
    OBVIOUS
  <2>1. list[x].at \in Int /\ list[y].at \in Int /\ x \in Int /\ y \in Int
    BY <1>3
  <2>2. x = y \/ list[x].at < list[y].at \/ list[y].at < list[x].at
          \/ (list[x].at = list[y].at /\ x < y) \/ (list[x].at = list[y].at /\ y < x)
    BY <2>1
  <2> QED
    BY <1>5, <2>2
<1>9. /\ n \in Nat /\ DOMAIN order = 1..n /\ \A k \in 1..n : order[k] \in placed
      /\ \A j, k \in 1..n : j < k => <<order[j], order[k]>> \in before
  BY <1>2, <1>6, <1>7, <1>8, InOrderIs DEF order
<1> HIDE DEF n
<1>10. DOMAIN sorted = 1..n /\ \A k \in 1..n : sorted[k] = list[order[k]]
  BY <1>4, <1>9
<1>11. \A k \in 1..n : sorted[k].at \in Int /\ sorted[k].service \in Service
  BY <1>3, <1>9, <1>10
<1>12. \A j, k \in 1..n : j < k => sorted[j].at <= sorted[k].at
  <2> SUFFICES ASSUME NEW j \in 1..n, NEW k \in 1..n, j < k PROVE sorted[j].at <= sorted[k].at
    OBVIOUS
  <2>1. order[j] \in placed /\ order[k] \in placed /\ <<order[j], order[k]>> \in before
    BY <1>9
  <2>2. list[order[j]].at < list[order[k]].at \/ list[order[j]].at = list[order[k]].at
    BY <1>5, <2>1
  <2>3. list[order[j]].at \in Int /\ list[order[k]].at \in Int
    BY <1>3, <2>1
  <2> QED
    BY <1>10, <2>2, <2>3
<1> QED
  BY <1>9, <1>10, <1>11, <1>12

(* The sorted events up to n, all of them served.                          *)
Timed(sorted, n) ==
  /\ n \in Nat /\ DOMAIN sorted = 1..n
  /\ \A k \in 1..n : sorted[k].at \in Int /\ sorted[k].service \in Service
  /\ \A j, k \in 1..n : j < k => sorted[j].at <= sorted[k].at
Near(sorted, j, k) == sorted[k].at - sorted[j].at <= CorrWindow

LEMMA EvictedIs ==
  ASSUME NEW sorted, NEW n, Timed(sorted, n), NEW k \in 1..n, NEW left \in 1..k, NEW e,
         e = Evicted(sorted, left, k)
  PROVE  /\ e \in left..k /\ (e = k \/ Near(sorted, e, k))
         /\ \A j \in left..k : j < e => ~Near(sorted, j, k)
<1> DEFINE S == {j \in left..k : j = k \/ sorted[k].at - sorted[j].at <= CorrWindow}
<1>1. k \in Int /\ left \in Int /\ left <= k
  BY DEF Timed
<1>2. IsFiniteSet(left..k) /\ k \in left..k
  BY <1>1, FS_Interval
<1>3. S \in SUBSET (left..k) /\ k \in S /\ \A r \in S : r \in Int
  BY <1>1, <1>2
<1>4. e = Min(S)
  BY DEF Evicted
<1> HIDE DEF S
<1>5. IsFiniteSet(S) /\ S # {}
  BY <1>2, <1>3, FS_Subset
<1>6. e \in S /\ \A r \in S : e <= r
  <2>1. \A r \in S : r \in Int
    BY <1>3
  <2>2. Min(S) \in S /\ \A r \in S : Min(S) <= r
    BY <1>5, <2>1, MinIn
  <2> QED
    BY <1>4, <2>2
<1>7. e \in left..k /\ (e = k \/ Near(sorted, e, k))
  BY <1>6 DEF S, Near
<1>8. ASSUME NEW j \in left..k, j < e, Near(sorted, j, k) PROVE FALSE
  <2>1. j \in S
    BY <1>8 DEF S, Near
  <2>2. e <= j /\ j \in Int /\ e \in Int
    BY <1>1, <1>3, <1>6, <2>1
  <2> QED
    BY <1>8, <2>2
<1> QED
  BY <1>7, <1>8

MeetState == [left : Nat, firing : [Service -> Nat], co : [Service \X Service -> Nat]]
MeetStates == [k \in Nat |-> {a \in MeetState : a.left \in 1..k \/ a.left = 1}]
Company(sorted, left, k) == {sorted[j].service : j \in left..(k - 1)} \ {sorted[k].service}
One(sorted, left, k, x, y) ==
  IF x = sorted[k].service /\ y \in Company(sorted, left, k) THEN 1 ELSE 0

LEMMA MeetIs ==
  ASSUME NEW sorted, NEW n, Timed(sorted, n), NEW k \in 1..n, NEW a \in MeetState, a.left \in 1..k,
         NEW e, e = Evicted(sorted, a.left, k), NEW b, b = Meet(sorted, a, k)
  PROVE  /\ b \in MeetState /\ b.left = e /\ e \in 1..k
         /\ \A x, y \in Service :
              b.co[<<x, y>>] = a.co[<<x, y>>] + One(sorted, e, k, x, y) + One(sorted, e, k, y, x)
<1> DEFINE s == sorted[k].service   F == [a.firing EXCEPT ![s] = @ + 1]
           C == [p \in Service \X Service |->
                  a.co[p] + (IF p[1] = s /\ p[2] \in Company(sorted, e, k) THEN 1 ELSE 0)
                          + (IF p[2] = s /\ p[1] \in Company(sorted, e, k) THEN 1 ELSE 0)]
<1>1. s \in Service /\ a.firing \in [Service -> Nat] /\ a.co \in [Service \X Service -> Nat]
  BY DEF Timed, MeetState
<1>2. e \in a.left..k
  BY EvictedIs
<1>3. e \in 1..k /\ e \in Nat
  BY <1>2 DEF Timed
<1>4. b = [left |-> e, firing |-> F, co |-> C]
  BY Zenon DEF Meet, Company
<1> HIDE DEF s
<1>5. F \in [Service -> Nat]
  BY <1>1
<1>6. C \in [Service \X Service -> Nat]
  <2> SUFFICES ASSUME NEW p \in Service \X Service PROVE C[p] \in Nat
    OBVIOUS
  <2>1. a.co[p] \in Nat
    BY <1>1
  <2> QED
    BY <2>1
<1>7. ASSUME NEW x \in Service, NEW y \in Service
      PROVE  C[<<x, y>>] = a.co[<<x, y>>] + One(sorted, e, k, x, y) + One(sorted, e, k, y, x)
  BY DEF One, s
<1> HIDE DEF F, C
<1> QED
  BY <1>3, <1>4, <1>5, <1>6, <1>7 DEF MeetState

LEMMA MetSoFar ==
  ASSUME NEW list \in Inputs, NEW n, Timed(ByTime(list), n)
  PROVE  \E acc : /\ acc[0] = [left |-> 1, firing |-> [s \in Service |-> 0],
                               co |-> [p \in Service \X Service |-> 0]]
                  /\ Correlated(list) = acc[n]
                  /\ \A k \in 0..n : acc[k] \in MeetStates[k]
                  /\ \A k \in 1..n : acc[k] = Meet(ByTime(list), acc[k - 1], k)
<1> DEFINE sorted == ByTime(list)
           base == [left |-> 1, firing |-> [s \in Service |-> 0], co |-> [p \in Service \X Service |-> 0]]
           w == [k \in DOMAIN sorted |-> k]
           It(g) == g = [s \in SUBSET DOMAIN w |-> IF s = {} THEN base ELSE Meet(sorted, g[s \ {Max(s)}], w[Max(s)])]
           h == CHOOSE g : It(g)
           step == [p \in MeetState \X (1..n) |-> Meet(sorted, p[1], p[2])]
<1>1. Correlated(list) = h[DOMAIN w]
  <2>1. Correlated(list) = FoldLeft(LAMBDA state, k : Meet(sorted, state, k), base, w)
    BY Zenon DEF Correlated
  <2> HIDE DEF w, base, sorted
  <2> QED
    BY <2>1 DEF FoldLeft, MapThenFoldSet
<1>0. Timed(sorted, n)
  OBVIOUS
<1> HIDE DEF sorted
<1>2. n \in Nat /\ DOMAIN w = 1..n /\ \A k \in 1..n : w[k] = k
  BY <1>0 DEF Timed
<1>d. \A g : It(g) <=> g = [s \in SUBSET (1..n) |-> IF s = {} THEN base ELSE Meet(sorted, g[s \ {Max(s)}], w[Max(s)])]
  BY <1>2
<1>b. base \in MeetState /\ base.left = 1
  BY DEF MeetState
<1> HIDE DEF It, w, base
<1>s. \A a \in MeetState, k \in 1..n : step[<<a, k>>] = Meet(sorted, a, k)
  OBVIOUS
<1>m. \A j \in 0..n : MeetStates[j] = {a \in MeetState : a.left \in 1..j \/ a.left = 1}
  BY <1>2 DEF MeetStates
<1> HIDE DEF step
<1>3. \A k \in 1..n, j \in 0..n : j < k => \A a \in MeetStates[j] : step[<<a, k>>] \in MeetStates[k]
  <2> SUFFICES ASSUME NEW k \in 1..n, NEW j \in 0..n, j < k, NEW a \in MeetStates[j]
               PROVE  step[<<a, k>>] \in MeetStates[k]
    OBVIOUS
  <2>1. a \in MeetState /\ a.left \in 1..k /\ k \in 0..n
    BY <1>2, <1>m
  <2>2. Meet(sorted, a, k) \in MeetState /\ Meet(sorted, a, k).left \in 1..k
    BY <1>0, <2>1, MeetIs
  <2> QED
    BY <1>m, <1>s, <2>1, <2>2
<1>4. base \in MeetStates[0]
  BY <1>2, <1>b, <1>m
<1>o. Onward(n, MeetStates, step)
  BY <1>3 DEF Onward
<1>5. PICK g : Folded(g, n, base, step, MeetStates)
  BY <1>2, <1>4, <1>o, FoldInto
<1>6. It(g)
  <2>g. /\ g = [s \in SUBSET (1..n) |-> g[s]]
        /\ \A s \in SUBSET (1..n) : g[s] = IF s = {} THEN base ELSE step[<<g[s \ {Max(s)}], Max(s)>>]
        /\ \A s \in SUBSET (1..n) : s # {} => Max(s) \in 1..n
        /\ \A s \in SUBSET (1..n) : s # {} => \E j \in 0..n : j < Max(s) /\ g[s \ {Max(s)}] \in MeetStates[j]
    BY <1>5 DEF Folded
  <2>1. ASSUME NEW s \in SUBSET (1..n), s # {}
        PROVE  g[s \ {Max(s)}] \in MeetState /\ Max(s) \in 1..n /\ w[Max(s)] = Max(s)
    <3>1. Max(s) \in 1..n
      BY <2>g, <2>1
    <3>2. PICK j \in 0..n : g[s \ {Max(s)}] \in MeetStates[j]
      BY <2>g, <2>1
    <3> QED
      BY <1>2, <1>m, <3>1, <3>2
  <2>2. ASSUME NEW s \in SUBSET (1..n)
        PROVE  g[s] = IF s = {} THEN base ELSE Meet(sorted, g[s \ {Max(s)}], w[Max(s)])
    <3>1. CASE s = {}
      BY <2>g, <3>1
    <3>2. CASE s # {}
      <4>1. g[s] = step[<<g[s \ {Max(s)}], Max(s)>>]
        BY <2>g, <3>2
      <4>2. g[s \ {Max(s)}] \in MeetState /\ Max(s) \in 1..n /\ w[Max(s)] = Max(s)
        BY <2>1, <3>2
      <4> QED
        BY <1>s, <3>2, <4>1, <4>2
    <3> QED
      BY <3>1, <3>2
  <2>3. g = [s \in SUBSET (1..n) |-> IF s = {} THEN base ELSE Meet(sorted, g[s \ {Max(s)}], w[Max(s)])]
    BY <2>g, <2>2
  <2> QED
    BY <1>d, <2>3
<1>7. It(h)
  BY <1>6
<1> HIDE DEF h
<1>8. \A s \in SUBSET (1..n) : h[s] = IF s = {} THEN base ELSE Meet(sorted, h[s \ {Max(s)}], w[Max(s)])
  BY <1>7, <1>d
<1> DEFINE acc == [k \in 0..n |-> h[1..k]]
<1>9. acc[0] = base
  <2>1. 1..0 = {} /\ {} \in SUBSET (1..n) /\ 0 \in 0..n
    BY <1>2
  <2> QED
    BY <1>8, <2>1
<1>10. ASSUME NEW k \in 1..n PROVE acc[k] = Meet(sorted, acc[k - 1], k) /\ k - 1 \in 0..n /\ k - 1 < k
  <2>1. 1..k \in SUBSET (1..n) /\ 1..k # {} /\ Max(1..k) = k /\ (1..k) \ {Max(1..k)} = 1..(k - 1)
    BY <1>2, LastOfUpTo
  <2>2. k \in 0..n /\ k - 1 \in 0..n /\ k - 1 < k
    BY <1>2
  <2>3. h[1..k] = Meet(sorted, h[1..(k - 1)], w[k])
    BY <1>8, <2>1
  <2> QED
    BY <1>2, <2>2, <2>3
<1>11. acc[n] = h[DOMAIN w]
  <2>1. n \in 0..n
    BY <1>2
  <2> QED
    BY <1>2, <2>1
<1> HIDE DEF acc
<1>12. \A k \in 0..n : acc[k] \in MeetStates[k]
  <2> DEFINE T == {k \in 0..n : acc[k] \in MeetStates[k]}
  <2>1. 0 \in T
    BY <1>2, <1>4, <1>9
  <2>2. ASSUME NEW k \in 0..n - 1, k \in T PROVE k + 1 \in T
    <3>1. k + 1 \in 1..n /\ (k + 1) - 1 = k /\ k + 1 \in 0..n /\ k \in 0..n /\ k < k + 1
      BY <1>2
    <3>2. acc[k + 1] = Meet(sorted, acc[k], k + 1)
      BY <1>10, <3>1
    <3>3. acc[k] \in MeetStates[k]
      BY <2>2
    <3>4. step[<<acc[k], k + 1>>] \in MeetStates[k + 1] /\ acc[k] \in MeetState
      BY <1>3, <1>m, <3>1, <3>3
    <3> QED
      BY <1>s, <3>1, <3>2, <3>4
  <2> HIDE DEF T
  <2>3. 0..n \subseteq T
    BY <1>2, <2>1, <2>2, ByCounting
  <2> QED
    BY <2>3 DEF T
<1> QED
  BY <1>1, <1>9, <1>10, <1>11, <1>12 DEF base, sorted

(* The events of service x, up to k, that find one of y in the window      *)
(* before them.                                                            *)
PairMet(sorted, k, x, y) ==
  /\ sorted[k].service = x
  /\ \E j \in 1..(k - 1) : sorted[j].service = y /\ sorted[k].at - sorted[j].at <= CorrWindow
MetBy(sorted, k, x, y) == {i \in 1..k : PairMet(sorted, i, x, y)}
Tallied(sorted, a, k) ==
  /\ \A j \in 1..(a.left - 1) : ~Near(sorted, j, k)
  /\ \A x, y \in Service : x # y =>
       a.co[<<x, y>>] = Cardinality(MetBy(sorted, k, x, y)) + Cardinality(MetBy(sorted, k, y, x))

LEMMA OneMet ==
  ASSUME NEW sorted, NEW n, Timed(sorted, n), NEW k \in 1..n, NEW e \in 1..k,
         \A j \in 1..(k - 1) : j < e <=> ~Near(sorted, j, k),
         NEW x \in Service, NEW y \in Service, x # y
  PROVE  Cardinality(MetBy(sorted, k, x, y)) = Cardinality(MetBy(sorted, k - 1, x, y)) + One(sorted, e, k, x, y)
<1>1. n \in Nat /\ k \in Int /\ k \in 1..k /\ e \in Int /\ k - 1 \in Int
  BY DEF Timed
<1> DEFINE B == MetBy(sorted, k - 1, x, y)   A == MetBy(sorted, k, x, y)
<1>2. IsFiniteSet(B) /\ Cardinality(B) \in Nat
  <2>1. B \in SUBSET (1..(k - 1)) /\ IsFiniteSet(1..(k - 1))
    BY <1>1, FS_Interval DEF MetBy
  <2> HIDE DEF B
  <2> QED
    BY <2>1, FS_Subset, FS_CardinalityType
<1>3. k \notin B /\ A = IF PairMet(sorted, k, x, y) THEN B \union {k} ELSE B
  <2>1. 1..k = (1..(k - 1)) \union {k} /\ k \notin 1..(k - 1)
    BY <1>1
  <2> HIDE DEF PairMet
  <2> QED
    BY <2>1 DEF MetBy
<1>4. PairMet(sorted, k, x, y) <=> x = sorted[k].service /\ y \in Company(sorted, e, k)
  <2>1. \A j \in Int : j \in e..(k - 1) <=> j \in 1..(k - 1) /\ Near(sorted, j, k)
    <3> SUFFICES ASSUME NEW j \in Int PROVE j \in e..(k - 1) <=> j \in 1..(k - 1) /\ Near(sorted, j, k)
      OBVIOUS
    <3>1. j \in 1..(k - 1) => (j < e <=> ~Near(sorted, j, k))
      OBVIOUS
    <3> HIDE DEF Near
    <3> QED
      BY <1>1, <3>1
  <2>2. y \in Company(sorted, e, k) <=> y # sorted[k].service /\ \E j \in e..(k - 1) : sorted[j].service = y
    BY DEF Company
  <2>3. (\E j \in e..(k - 1) : sorted[j].service = y)
          <=> \E j \in 1..(k - 1) : sorted[j].service = y /\ Near(sorted, j, k)
    BY <1>1, <2>1
  <2> QED
    BY <2>2, <2>3 DEF PairMet, Near
<1> HIDE DEF A, B
<1>5. Cardinality(A) = Cardinality(B) + (IF PairMet(sorted, k, x, y) THEN 1 ELSE 0)
  BY <1>2, <1>3, FS_AddElement
<1> QED
  BY <1>4, <1>5 DEF A, B, One

LEMMA CountStep ==
  ASSUME NEW sorted, NEW n, Timed(sorted, n), NEW k \in 1..n, NEW a \in MeetState, a.left \in 1..k,
         k > 1 => Tallied(sorted, a, k - 1),
         k = 1 => \A x, y \in Service : a.co[<<x, y>>] = 0,
         NEW b, b = Meet(sorted, a, k)
  PROVE  Tallied(sorted, b, k)
<1> DEFINE e == Evicted(sorted, a.left, k)
<1>1. /\ b.left = e /\ e \in 1..k
      /\ \A x, y \in Service :
           b.co[<<x, y>>] = a.co[<<x, y>>] + One(sorted, e, k, x, y) + One(sorted, e, k, y, x)
  BY MeetIs
<1>2. /\ e \in a.left..k /\ (e = k \/ Near(sorted, e, k))
      /\ \A j \in a.left..k : j < e => ~Near(sorted, j, k)
  BY EvictedIs
<1> HIDE DEF e
<1>3. /\ n \in Nat /\ k \in Int /\ CorrWindow \in Int
      /\ \A j \in 1..n : sorted[j].at \in Int
      /\ \A j, i \in 1..n : j < i => sorted[j].at <= sorted[i].at
  BY AnalyzerAssumption DEF Timed
<1>4. ASSUME NEW j \in 1..(k - 1), j < a.left PROVE ~Near(sorted, j, k)
  <2>1. k > 1 /\ k - 1 \in 1..n /\ k - 1 < k /\ j \in 1..n /\ j \in 1..(a.left - 1)
    BY <1>3, <1>4
  <2>2. ~Near(sorted, j, k - 1)
    BY <2>1 DEF Tallied
  <2>3. sorted[k - 1].at <= sorted[k].at
    BY <1>3, <2>1
  <2>4. sorted[k - 1].at \in Int /\ sorted[k].at \in Int /\ sorted[j].at \in Int
    BY <1>3, <2>1
  <2> QED
    BY <1>3, <2>2, <2>3, <2>4 DEF Near
<1>5. ASSUME NEW j \in 1..(k - 1) PROVE j < e <=> ~Near(sorted, j, k)
  <2>0. j \in Int /\ j \in 1..n /\ e \in Int /\ j < k
    BY <1>1, <1>3
  <2>1. ASSUME j < e PROVE ~Near(sorted, j, k)
    <3>1. CASE j < a.left
      BY <1>4, <3>1
    <3>2. CASE ~(j < a.left)
      <4>1. j \in a.left..k
        BY <1>3, <2>0, <3>2
      <4> QED
        BY <1>2, <2>1, <4>1
    <3> QED
      BY <3>1, <3>2
  <2>2. ASSUME ~(j < e) PROVE Near(sorted, j, k)
    <3>1. e # k /\ e \in 1..n /\ (e < j \/ e = j)
      BY <1>1, <1>3, <2>0, <2>2
    <3>2. Near(sorted, e, k) /\ sorted[e].at <= sorted[j].at
      <4>1. sorted[e].at \in Int /\ sorted[j].at \in Int
        BY <1>3, <2>0, <3>1
      <4>2. sorted[e].at <= sorted[j].at
        BY <1>3, <2>0, <3>1, <4>1
      <4> QED
        BY <1>2, <3>1, <4>2
    <3>3. sorted[k].at \in Int /\ sorted[j].at \in Int /\ sorted[e].at \in Int
      BY <1>3, <2>0, <3>1
    <3> QED
      BY <1>3, <3>2, <3>3 DEF Near
  <2> QED
    BY <2>1, <2>2
<1>6. \A j \in 1..(e - 1) : ~Near(sorted, j, k)
  <2> SUFFICES ASSUME NEW j \in 1..(e - 1) PROVE ~Near(sorted, j, k)
    OBVIOUS
  <2>1. j \in 1..(k - 1) /\ j < e
    BY <1>1, <1>3
  <2> QED
    BY <1>5, <2>1
<1>7. ASSUME NEW x \in Service, NEW y \in Service, x # y
      PROVE  b.co[<<x, y>>] = Cardinality(MetBy(sorted, k, x, y)) + Cardinality(MetBy(sorted, k, y, x))
  <2>1. Cardinality(MetBy(sorted, k, x, y)) = Cardinality(MetBy(sorted, k - 1, x, y)) + One(sorted, e, k, x, y)
    BY <1>1, <1>5, <1>7, OneMet
  <2>2. Cardinality(MetBy(sorted, k, y, x)) = Cardinality(MetBy(sorted, k - 1, y, x)) + One(sorted, e, k, y, x)
    BY <1>1, <1>5, <1>7, OneMet
  <2>3. a.co[<<x, y>>] = Cardinality(MetBy(sorted, k - 1, x, y)) + Cardinality(MetBy(sorted, k - 1, y, x))
    <3>1. CASE k > 1
      BY <1>7, <3>1 DEF Tallied
    <3>2. CASE k = 1
      <4>1. \A u, v : MetBy(sorted, k - 1, u, v) = {}
        BY <3>2 DEF MetBy
      <4> QED
        BY <3>2, <4>1, FS_EmptySet
    <3> QED
      BY <1>3, <3>1, <3>2
  <2>4. \A u, v : Cardinality(MetBy(sorted, k - 1, u, v)) \in Int
    <3> SUFFICES ASSUME NEW u, NEW v PROVE Cardinality(MetBy(sorted, k - 1, u, v)) \in Int
      OBVIOUS
    <3>1. MetBy(sorted, k - 1, u, v) \in SUBSET (1..(k - 1)) /\ IsFiniteSet(1..(k - 1))
      BY <1>3, FS_Interval DEF MetBy
    <3> QED
      BY <3>1, FS_Subset, FS_CardinalityType
  <2>5. One(sorted, e, k, x, y) \in Int /\ One(sorted, e, k, y, x) \in Int
    BY DEF One
  <2>6. b.co[<<x, y>>] = a.co[<<x, y>>] + One(sorted, e, k, x, y) + One(sorted, e, k, y, x)
    BY <1>1
  <2> QED
    BY <2>1, <2>2, <2>3, <2>4, <2>5, <2>6
<1> QED
  BY <1>1, <1>6, <1>7 DEF Tallied

LEMMA CorrelatedIs ==
  ASSUME NEW list \in Inputs
  PROVE  /\ Correlated(list).firing \in [Service -> Nat]
         /\ \E n \in Nat : /\ DOMAIN ByTime(list) = 1..n
                           /\ \A x, y \in Service : x # y =>
                                Correlated(list).co[<<x, y>>]
                                  = Cardinality(MetBy(ByTime(list), n, x, y)) + Cardinality(MetBy(ByTime(list), n, y, x))
<1> DEFINE sorted == ByTime(list)   graph == Correlated(list)
<1>1. PICK n \in Nat : Timed(sorted, n)
  BY ByTimeIs DEF Timed
<1>2. PICK acc : /\ acc[0] = [left |-> 1, firing |-> [s \in Service |-> 0],
                              co |-> [p \in Service \X Service |-> 0]]
                 /\ graph = acc[n]
                 /\ \A k \in 0..n : acc[k] \in MeetStates[k]
                 /\ \A k \in 1..n : acc[k] = Meet(sorted, acc[k - 1], k)
  BY <1>1, MetSoFar
<1> HIDE DEF sorted, graph
<1>3. \A k \in 0..n : acc[k] \in MeetState /\ (acc[k].left \in 1..k \/ acc[k].left = 1)
  BY <1>2 DEF MeetStates
<1>4. \A x, y \in Service : acc[0].co[<<x, y>>] = 0
  BY <1>2
<1> DEFINE T == {k \in 0..n : k > 0 => Tallied(sorted, acc[k], k)}
<1>5. 0 \in T
  OBVIOUS
<1>6. ASSUME NEW k \in 0..n - 1, k \in T PROVE k + 1 \in T
  <2> DEFINE m == k + 1
  <2>1. m \in 1..n /\ m - 1 = k /\ m \in 0..n /\ k \in 0..n /\ (m > 1 => k > 0) /\ (m = 1 => k = 0)
        /\ 1..k \subseteq 1..m /\ 1 \in 1..m
    OBVIOUS
  <2> HIDE DEF m
  <2>2. acc[m] = Meet(sorted, acc[k], m)
    BY <1>2, <2>1
  <2>3. acc[k] \in MeetState /\ acc[k].left \in 1..m
    BY <1>3, <2>1
  <2>4. m > 1 => Tallied(sorted, acc[k], m - 1)
    BY <1>6, <2>1
  <2>5. m = 1 => \A x, y \in Service : acc[k].co[<<x, y>>] = 0
    BY <1>4, <2>1
  <2>6. Tallied(sorted, acc[m], m)
    BY <1>1, <2>1, <2>2, <2>3, <2>4, <2>5, CountStep
  <2>7. m \in T
    BY <2>1, <2>6
  <2> QED
    BY <2>7 DEF m
<1> HIDE DEF T
<1>7. 0..n \subseteq T
  BY <1>5, <1>6, ByCounting
<1>8. n > 0 => Tallied(sorted, graph, n)
  BY <1>2, <1>7 DEF T
<1>9. DOMAIN sorted = 1..n /\ graph \in MeetState
  BY <1>1, <1>2, <1>3 DEF Timed
<1>10. \A x, y \in Service : x # y =>
         graph.co[<<x, y>>] = Cardinality(MetBy(sorted, n, x, y)) + Cardinality(MetBy(sorted, n, y, x))
  <2>1. CASE n > 0
    BY <1>8, <2>1 DEF Tallied
  <2>2. CASE n = 0
    <3>1. \A u, v : MetBy(sorted, n, u, v) = {}
      BY <2>2 DEF MetBy
    <3>2. \A x, y \in Service : graph.co[<<x, y>>] = 0
      BY <1>2, <1>4, <2>2
    <3>3. \A u, v : Cardinality(MetBy(sorted, n, u, v)) = 0
      BY <3>1, FS_EmptySet
    <3> QED
      BY <3>2, <3>3
  <2> QED
    BY <2>1, <2>2
<1> QED
  BY <1>9, <1>10 DEF sorted, graph, MeetState

LEMMA CoExactHold == Reported => CoExact
<1> SUFFICES ASSUME Reported, Analyzed PROVE CoExact
  BY DEF CoExact
<1> DEFINE sorted == ByTime(events)   graph == result.graph
<1>1. events \in Inputs /\ graph = Correlated(events)
  BY DEF Reported, Report
<1> HIDE DEF sorted, graph
<1>2. PICK n \in Nat : /\ DOMAIN sorted = 1..n
                       /\ \A x, y \in Service : x # y =>
                            graph.co[<<x, y>>]
                              = Cardinality(MetBy(sorted, n, x, y)) + Cardinality(MetBy(sorted, n, y, x))
  BY <1>1, CorrelatedIs DEF sorted
<1>3. ASSUME NEW p \in Service \X Service, p[1] # p[2]
      PROVE  graph.co[p]
               = Cardinality({k \in DOMAIN sorted : PairMet(sorted, k, p[1], p[2])})
                   + Cardinality({k \in DOMAIN sorted : PairMet(sorted, k, p[2], p[1])})
  <2>1. p = <<p[1], p[2]>> /\ p[1] \in Service /\ p[2] \in Service
    OBVIOUS
  <2>2. \A x, y : MetBy(sorted, n, x, y) = {k \in DOMAIN sorted : PairMet(sorted, k, x, y)}
    BY <1>2 DEF MetBy
  <2>3. graph.co[<<p[1], p[2]>>]
          = Cardinality(MetBy(sorted, n, p[1], p[2])) + Cardinality(MetBy(sorted, n, p[2], p[1]))
    BY <1>2, <1>3, <2>1
  <2>4. MetBy(sorted, n, p[1], p[2]) = {k \in DOMAIN sorted : PairMet(sorted, k, p[1], p[2])}
    BY <2>2
  <2>5. MetBy(sorted, n, p[2], p[1]) = {k \in DOMAIN sorted : PairMet(sorted, k, p[2], p[1])}
    BY <2>2
  <2>6. graph.co[p] = graph.co[<<p[1], p[2]>>]
    BY <2>1
  <2> QED
    BY <2>3, <2>4, <2>5, <2>6, Zenon
<1> QED
  BY <1>3, Zenon DEF CoExact, PairMet, sorted, graph

-----------------------------------------------------------------------------
(* The clusters.  A forest p over G, the root r of every element of it,    *)
(* and the depth d that falls on the way there.                            *)
Tree(G, p, r, d) ==
  /\ p \in [G -> G] /\ r \in [G -> G] /\ d \in [G -> Nat]
  /\ \A x \in G : p[r[x]] = r[x]
  /\ \A x \in G : p[x] = x => r[x] = x
  /\ \A x \in G : p[x] # x => r[x] = r[p[x]] /\ d[p[x]] < d[x]

LEMMA FindIs ==
  ASSUME NEW G, NEW p, NEW r, NEW d, Tree(G, p, r, d), NEW t \in G
  PROVE  Find(p, t) = r[t]
<1> DEFINE It(f) == f = [x \in DOMAIN p |-> IF p[x] = x THEN x ELSE f[p[x]]]
           h == CHOOSE f : It(f)
<1>1. Find(p, t) = h[t]
  BY DEF Find
<1>2. /\ p \in [G -> G] /\ r \in [G -> G] /\ d \in [G -> Nat]
      /\ \A x \in G : p[x] = x => r[x] = x
      /\ \A x \in G : p[x] # x => r[x] = r[p[x]] /\ d[p[x]] < d[x]
  BY DEF Tree
<1>3. \A x \in G : r[x] = IF p[x] = x THEN x ELSE r[p[x]]
  BY <1>2
<1>4. r = [x \in G |-> IF p[x] = x THEN x ELSE r[p[x]]]
  BY <1>2, <1>3
<1>5. It(r)
  BY <1>2, <1>4
<1>6. It(h)
  BY <1>5
<1> HIDE DEF h
<1>7. \A x \in G : h[x] = IF p[x] = x THEN x ELSE h[p[x]]
  BY <1>2, <1>6
<1>8. \A x \in G : h[x] = r[x]
  <2> DEFINE S == {d[x] : x \in {y \in G : h[y] # r[y]}}
  <2> SUFFICES ASSUME S # {} PROVE FALSE
    OBVIOUS
  <2>1. S \subseteq Nat
    BY <1>2
  <2>2. PICK m \in S : \A j \in S : m <= j
    <3> HIDE DEF S
    <3> QED
      BY <2>1, LeastNat
  <2>3. PICK x \in G : h[x] # r[x] /\ d[x] = m
    BY <2>2
  <2>4. p[x] # x /\ p[x] \in G /\ d[p[x]] < d[x] /\ h[p[x]] # r[p[x]]
    BY <1>2, <1>7, <2>3
  <2>5. d[p[x]] \in S
    BY <2>4
  <2>6. m <= d[p[x]] /\ d[p[x]] \in Nat /\ d[x] \in Nat
    BY <1>2, <2>2, <2>3, <2>4, <2>5
  <2> QED
    BY <2>3, <2>4, <2>6
<1> QED
  BY <1>1, <1>8

(* The root b joins the tree of the root a.                                *)
Rooted(G, r, a, b) == [x \in G |-> IF r[x] = b THEN a ELSE r[x]]

LEMMA TreeJoined ==
  ASSUME NEW G, NEW p, NEW r, NEW d, Tree(G, p, r, d),
         NEW a \in G, NEW b \in G, r[a] = a, r[b] = b, a # b
  PROVE  \E e : Tree(G, [p EXCEPT ![b] = a], Rooted(G, r, a, b), e)
<1> DEFINE q == [p EXCEPT ![b] = a]   s == Rooted(G, r, a, b)
           e == [x \in G |-> IF r[x] = b THEN d[x] + d[a] + 1 ELSE d[x]]
<1>1. /\ p \in [G -> G] /\ r \in [G -> G] /\ d \in [G -> Nat]
      /\ \A x \in G : p[r[x]] = r[x]
      /\ \A x \in G : p[x] = x => r[x] = x
      /\ \A x \in G : p[x] # x => r[x] = r[p[x]] /\ d[p[x]] < d[x]
  BY DEF Tree
<1>2. q \in [G -> G] /\ q[b] = a /\ \A x \in G : x # b => q[x] = p[x]
  BY <1>1
<1>3. s \in [G -> G] /\ \A x \in G : s[x] = IF r[x] = b THEN a ELSE r[x]
  BY <1>1 DEF Rooted
<1>4. e \in [G -> Nat] /\ \A x \in G : e[x] = IF r[x] = b THEN d[x] + d[a] + 1 ELSE d[x]
  <2>1. \A x \in G : d[x] \in Nat /\ d[x] + d[a] + 1 \in Nat
    BY <1>1
  <2> QED
    BY <2>1
<1> HIDE DEF q, s, e
<1>5. p[a] = a /\ p[b] = b
  BY <1>1
<1>6. \A x \in G : q[s[x]] = s[x]
  BY <1>1, <1>2, <1>3, <1>5
<1>7. \A x \in G : q[x] = x => s[x] = x
  BY <1>1, <1>2, <1>3
<1>8. ASSUME NEW x \in G, q[x] # x PROVE s[x] = s[q[x]] /\ e[q[x]] < e[x]
  <2>1. CASE x = b
    <3>1. s[x] = a /\ q[x] = a /\ s[a] = a
      BY <1>2, <1>3, <2>1
    <3>2. e[x] = d[x] + d[a] + 1 /\ e[a] = d[a] /\ d[x] \in Nat /\ d[a] \in Nat
      BY <1>1, <1>4, <2>1
    <3> QED
      BY <3>1, <3>2
  <2>2. CASE x # b
    <3>1. q[x] = p[x] /\ p[x] # x /\ p[x] \in G /\ r[x] = r[p[x]] /\ d[p[x]] < d[x]
      BY <1>1, <1>2, <1>8, <2>2
    <3>2. d[p[x]] \in Nat /\ d[x] \in Nat /\ d[a] \in Nat
      BY <1>1, <3>1
    <3> QED
      BY <1>3, <1>4, <3>1, <3>2
  <2> QED
    BY <2>1, <2>2
<1>9. Tree(G, q, s, e)
  BY <1>2, <1>3, <1>4, <1>6, <1>7, <1>8 DEF Tree
<1> QED
  BY <1>9 DEF q, s

(* What union-find knows of the templates: similar ones have the same root *)
(* when their pair is in `done`, the same root only ones reached from each *)
(* other, and the root has the most events.                                *)
ClosedIn(G, S) == \A t \in S, u \in G : <<t, u>> \in Similar => u \in S
ReachedIn(G, t) == {u \in G : \A S \in SUBSET G : t \in S /\ ClosedIn(G, S) => u \in S}

LEMMA ReachedSteps ==
  ASSUME NEW G
  PROVE  /\ \A t \in G : t \in ReachedIn(G, t)
         /\ \A t, u, v \in G : u \in ReachedIn(G, t) /\ v \in ReachedIn(G, u) => v \in ReachedIn(G, t)
         /\ \A t, u \in G : <<t, u>> \in Similar => u \in ReachedIn(G, t)
<1>1. \A t \in G : t \in ReachedIn(G, t)
  BY DEF ReachedIn
<1>2. \A t, u, v \in G : u \in ReachedIn(G, t) /\ v \in ReachedIn(G, u) => v \in ReachedIn(G, t)
  BY DEF ReachedIn
<1>3. \A t, u \in G : <<t, u>> \in Similar => u \in ReachedIn(G, t)
  BY DEF ReachedIn, ClosedIn
<1> QED
  BY <1>1, <1>2, <1>3

Grouped(G, C, r, done) ==
  /\ \A q \in done : q \in Similar => r[q[1]] = r[q[2]]
  /\ \A x, y \in G : r[x] = r[y] => y \in ReachedIn(G, x)
  /\ \A x \in G : C[x] <= C[r[x]]

LEMMA RootedGroups ==
  ASSUME NEW G, NEW C \in [G -> Nat], NEW p, NEW r, NEW d, Tree(G, p, r, d),
         NEW done, done \subseteq G \X G, Grouped(G, C, r, done),
         NEW x \in G, NEW y \in G, <<x, y>> \in Similar, <<y, x>> \in Similar,
         NEW a, NEW b, {a, b} = {r[x], r[y]}, a # b, C[a] >= C[b],
         NEW s, s = Rooted(G, r, a, b)
  PROVE  Grouped(G, C, s, done) /\ s[x] = s[y]
<1>1. r \in [G -> G] /\ \A z \in G : r[r[z]] = r[z]
  BY DEF Tree
<1>2. /\ s \in [G -> G] /\ \A z \in G : s[z] = IF r[z] = b THEN a ELSE r[z]
      /\ a \in G /\ b \in G /\ r[a] = a /\ r[b] = b
  BY <1>1 DEF Rooted
<1>3. \A u, v \in G : r[u] = r[v] => s[u] = s[v]
  BY <1>2
<1>4. s[x] = s[y]
  BY <1>2
<1>5. ASSUME NEW q \in done, q \in Similar PROVE s[q[1]] = s[q[2]]
  <2>1. q[1] \in G /\ q[2] \in G /\ r[q[1]] = r[q[2]]
    BY <1>5 DEF Grouped
  <2> QED
    BY <1>3, <2>1
<1>6. ASSUME NEW u \in G, NEW v \in G, s[u] = s[v] PROVE v \in ReachedIn(G, u)
  <2>0. \A m, n \in G : r[m] = r[n] => n \in ReachedIn(G, m)
    BY DEF Grouped
  <2>1. CASE r[u] = r[v]
    BY <2>0, <2>1
  <2>2. CASE r[u] # r[v]
    <3>1. (r[u] = a /\ r[v] = b) \/ (r[u] = b /\ r[v] = a)
      BY <1>1, <1>2, <1>6, <2>2
    <3>2. (r[u] = r[x] /\ r[v] = r[y]) \/ (r[u] = r[y] /\ r[v] = r[x])
      BY <3>1
    <3>3. y \in ReachedIn(G, x) /\ x \in ReachedIn(G, y)
      BY ReachedSteps
    <3>4. CASE r[u] = r[x] /\ r[v] = r[y]
      <4>1. x \in ReachedIn(G, u) /\ v \in ReachedIn(G, y)
        BY <2>0, <3>4
      <4> QED
        BY <3>3, <4>1, ReachedSteps
    <3>5. CASE r[u] = r[y] /\ r[v] = r[x]
      <4>1. y \in ReachedIn(G, u) /\ v \in ReachedIn(G, x)
        BY <2>0, <3>5
      <4> QED
        BY <3>3, <4>1, ReachedSteps
    <3> QED
      BY <3>2, <3>4, <3>5
  <2> QED
    BY <2>1, <2>2
<1>7. ASSUME NEW z \in G PROVE C[z] <= C[s[z]]
  <2>1. C[z] <= C[r[z]] /\ C[z] \in Nat /\ C[r[z]] \in Nat /\ C[a] \in Nat /\ C[b] \in Nat
    BY <1>1, <1>2 DEF Grouped
  <2> QED
    BY <1>2, <2>1
<1> QED
  BY <1>4, <1>5, <1>6, <1>7 DEF Grouped

LEMMA JoinIs ==
  ASSUME NEW G, NEW C \in [G -> Nat], NEW p, NEW r, NEW d, Tree(G, p, r, d),
         NEW done, done \subseteq G \X G, Grouped(G, C, r, done), NEW pair \in G \X G,
         pair \in Similar => <<pair[2], pair[1]>> \in Similar
  PROVE  \E s, e : Tree(G, Join(p, C, pair), s, e) /\ Grouped(G, C, s, done \union {pair})
<1> DEFINE x == pair[1]   y == pair[2]
<1>1. x \in G /\ y \in G /\ pair = <<x, y>>
  OBVIOUS
<1>2. Find(p, x) = r[x] /\ Find(p, y) = r[y]
  BY <1>1, FindIs
<1>3. r \in [G -> G] /\ \A z \in G : r[r[z]] = r[z]
  BY DEF Tree
<1> HIDE DEF x, y
<1>4. CASE pair \notin Similar \/ r[x] = r[y]
  <2>1. Join(p, C, pair) = p
    BY <1>2, <1>4 DEF Join, Union, x, y
  <2>2. Grouped(G, C, r, done \union {pair})
    BY <1>4 DEF Grouped, x, y
  <2> QED
    BY <2>1, <2>2
<1>5. CASE pair \in Similar /\ r[x] # r[y]
  <2>0. <<x, y>> \in Similar /\ <<y, x>> \in Similar /\ r[x] \in G /\ r[y] \in G
        /\ C[r[x]] \in Nat /\ C[r[y]] \in Nat
    BY <1>1, <1>3, <1>5 DEF x, y
  <2>1. ASSUME NEW a, NEW b, {a, b} = {r[x], r[y]}, a # b, C[a] >= C[b],
               Join(p, C, pair) = [p EXCEPT ![b] = a]
        PROVE  \E s, e : Tree(G, Join(p, C, pair), s, e) /\ Grouped(G, C, s, done \union {pair})
    <3> DEFINE s == Rooted(G, r, a, b)
    <3>1. a \in G /\ b \in G /\ r[a] = a /\ r[b] = b
      BY <1>1, <1>3, <2>0, <2>1
    <3>2. PICK e : Tree(G, [p EXCEPT ![b] = a], s, e)
      BY <2>1, <3>1, TreeJoined
    <3> HIDE DEF s
    <3>3. Grouped(G, C, s, done) /\ s[x] = s[y]
      BY <1>1, <2>0, <2>1, RootedGroups DEF s
    <3>4. Grouped(G, C, s, done \union {pair})
      BY <3>3 DEF Grouped, x, y
    <3> QED
      BY <2>1, <3>2, <3>4
  <2>2. CASE C[r[x]] >= C[r[y]]
    <3>1. Join(p, C, pair) = [p EXCEPT ![r[y]] = r[x]]
      BY <1>2, <1>5, <2>2 DEF Join, Union, x, y
    <3> QED
      BY <1>5, <2>1, <2>2, <3>1
  <2>3. CASE ~(C[r[x]] >= C[r[y]])
    <3>1. Join(p, C, pair) = [p EXCEPT ![r[x]] = r[y]]
      BY <1>2, <1>5, <2>3 DEF Join, Union, x, y
    <3>2. C[r[y]] >= C[r[x]] /\ {r[y], r[x]} = {r[x], r[y]}
      BY <2>0, <2>3
    <3> QED
      BY <1>5, <2>1, <3>1, <3>2
  <2> QED
    BY <2>2, <2>3
<1> QED
  BY <1>4, <1>5

(* The templates of a list, and its positions with some of them.           *)
TellingOf(list, sel, S) == {k \in sel : list[k].template \in S}

LEMMA GroupsAre ==
  ASSUME NEW list \in Inputs
  PROVE  /\ DOMAIN list = 1..Len(list) /\ Len(list) \in Nat
         /\ IsFiniteSet(DOMAIN list) /\ Cardinality(DOMAIN list) = Len(list)
         /\ IsFiniteSet(Groups(list)) /\ Groups(list) \subseteq Template
         /\ \A k \in DOMAIN list : list[k].template \in Groups(list)
         /\ GroupCount(list) \in [Groups(list) -> Nat]
         /\ \A t \in Groups(list) : GroupCount(list)[t] = Cardinality(TellingOf(list, DOMAIN list, {t}))
<1>1. list \in Seq(LogEvent) /\ DOMAIN list = 1..Len(list) /\ Len(list) \in Nat
      /\ \A p \in DOMAIN list : list[p] \in LogEvent
  BY AnalyzerAssumption, LenProperties, ElementOfSeq
<1>2. IsFiniteSet(DOMAIN list) /\ Cardinality(DOMAIN list) = Len(list)
  BY <1>1, UpTo
<1>3. IsFiniteSet(Groups(list))
  <2> DEFINE f == [k \in DOMAIN list |-> list[k].template]
  <2>1. f \in Surjection(DOMAIN list, Groups(list))
    BY Zenon DEF Groups, Surjection
  <2> QED
    BY <1>2, <2>1, FS_Surjection
<1>4. Groups(list) \subseteq Template /\ \A k \in DOMAIN list : list[k].template \in Groups(list)
  BY <1>1 DEF Groups, LogEvent
<1>5. ASSUME NEW t \in Groups(list)
      PROVE  GroupCount(list)[t] = Cardinality(TellingOf(list, DOMAIN list, {t})) /\ GroupCount(list)[t] \in Nat
  <2>1. GroupCount(list)[t] = Cardinality({k \in DOMAIN list : list[k].template = t})
    BY DEF GroupCount, CountIn
  <2>2. {k \in DOMAIN list : list[k].template = t} = TellingOf(list, DOMAIN list, {t})
    BY DEF TellingOf
  <2>3. IsFiniteSet(TellingOf(list, DOMAIN list, {t}))
    BY <1>2, FS_Subset DEF TellingOf
  <2> QED
    BY <2>1, <2>2, <2>3, FS_CardinalityType
<1>6. GroupCount(list) \in [Groups(list) -> Nat]
  <2>1. GroupCount(list) = [t \in Groups(list) |-> GroupCount(list)[t]]
    BY DEF GroupCount
  <2> QED
    BY <1>5, <2>1
<1> QED
  BY <1>1, <1>2, <1>3, <1>4, <1>5, <1>6

LEMMA RankIs ==
  /\ \A t \in Template : Rank(t) \in Int /\ Order[Rank(t)] = t
  /\ \A t, u \in Template : t # u => Rank(t) < Rank(u) \/ Rank(u) < Rank(t)
<1>1. DOMAIN Order = 1..Len(Order) /\ Len(Order) \in Nat
  BY AnalyzerAssumption, LenProperties
<1>2. ASSUME NEW t \in Template PROVE Rank(t) \in Int /\ Order[Rank(t)] = t
  <2>1. \E k \in DOMAIN Order : Order[k] = t
    BY AnalyzerAssumption
  <2>2. Rank(t) \in DOMAIN Order /\ Order[Rank(t)] = t
    BY <2>1 DEF Rank
  <2> QED
    BY <1>1, <2>2
<1>3. ASSUME NEW t \in Template, NEW u \in Template, t # u PROVE Rank(t) < Rank(u) \/ Rank(u) < Rank(t)
  <2>1. Rank(t) # Rank(u)
    BY <1>2, <1>3
  <2> QED
    BY <1>2, <2>1
<1> QED
  BY <1>2, <1>3

Paired(G, o, n) ==
  /\ n \in Nat /\ DOMAIN o = 1..n /\ \A k \in 1..n : o[k] \in G \X G
  /\ \A t, u \in G : t # u => \E k \in 1..n : o[k] = <<t, u>> \/ o[k] = <<u, t>>

LEMMA PairsAre ==
  ASSUME NEW G, IsFiniteSet(G), G \subseteq Template
  PROVE  \E n \in Nat : Paired(G, PairsInOrder(G), n)
<1> DEFINE pairs == {p \in G \X G : Rank(p[1]) < Rank(p[2])}
           before == {q \in pairs \X pairs :
                        \/ Rank(q[1][1]) < Rank(q[2][1])
                        \/ Rank(q[1][1]) = Rank(q[2][1]) /\ Rank(q[1][2]) < Rank(q[2][2])}
           n == Cardinality(pairs)   o == PairsInOrder(G)
<1>1. o = InOrder(pairs, before)
  BY DEF PairsInOrder
<1>2. IsFiniteSet(pairs)
  <2>1. IsFiniteSet(G \X G) /\ pairs \in SUBSET (G \X G)
    BY FS_Product
  <2> HIDE DEF pairs
  <2> QED
    BY <2>1, FS_Subset
<1>3. \A x \in pairs : x = <<x[1], x[2]>> /\ x[1] \in Template /\ x[2] \in Template /\ x \in G \X G
  OBVIOUS
<1>4. \A t, u \in G : Rank(t) < Rank(u) => <<t, u>> \in pairs
  OBVIOUS
<1>5. \A x, y \in pairs : <<x, y>> \in before
                            <=> Rank(x[1]) < Rank(y[1]) \/ (Rank(x[1]) = Rank(y[1]) /\ Rank(x[2]) < Rank(y[2]))
  OBVIOUS
<1> HIDE DEF pairs, before, o
<1>6. \A x \in pairs : Rank(x[1]) \in Int /\ Rank(x[2]) \in Int
  BY <1>3, RankIs
<1>7. \A x \in pairs : <<x, x>> \notin before
  BY <1>5, <1>6
<1>8. \A x, y, z \in pairs : <<x, y>> \in before /\ <<y, z>> \in before => <<x, z>> \in before
  <2> SUFFICES ASSUME NEW x \in pairs, NEW y \in pairs, NEW z \in pairs,
                      <<x, y>> \in before, <<y, z>> \in before
               PROVE  <<x, z>> \in before
    OBVIOUS
  <2>1. /\ Rank(x[1]) < Rank(y[1]) \/ (Rank(x[1]) = Rank(y[1]) /\ Rank(x[2]) < Rank(y[2]))
        /\ Rank(y[1]) < Rank(z[1]) \/ (Rank(y[1]) = Rank(z[1]) /\ Rank(y[2]) < Rank(z[2]))
    BY <1>5
  <2>2. Rank(x[1]) < Rank(z[1]) \/ (Rank(x[1]) = Rank(z[1]) /\ Rank(x[2]) < Rank(z[2]))
    BY <1>6, <2>1
  <2> QED
    BY <1>5, <2>2
<1>9. \A x, y \in pairs : x = y \/ <<x, y>> \in before \/ <<y, x>> \in before
  <2> SUFFICES ASSUME NEW x \in pairs, NEW y \in pairs, x # y PROVE <<x, y>> \in before \/ <<y, x>> \in before
    OBVIOUS
  <2>1. x[1] # y[1] \/ x[2] # y[2]
    BY <1>3
  <2>2. Rank(x[1]) # Rank(y[1]) \/ Rank(x[2]) # Rank(y[2])
    BY <1>3, <1>6, <2>1, RankIs
  <2> QED
    BY <1>5, <1>6, <2>2
<1>10. /\ n \in Nat /\ DOMAIN o = 1..n /\ \A k \in 1..n : o[k] \in pairs
       /\ \A x \in pairs : \E k \in 1..n : o[k] = x
  BY <1>1, <1>2, <1>7, <1>8, <1>9, InOrderIs
<1> HIDE DEF n
<1>11. ASSUME NEW t \in G, NEW u \in G, t # u PROVE \E k \in 1..n : o[k] = <<t, u>> \/ o[k] = <<u, t>>
  <2>1. Rank(t) < Rank(u) \/ Rank(u) < Rank(t)
    BY <1>11, RankIs
  <2>2. <<t, u>> \in pairs \/ <<u, t>> \in pairs
    BY <1>4, <2>1
  <2> QED
    BY <1>10, <2>2
<1> QED
  BY <1>3, <1>10, <1>11 DEF Paired, o

(* The forests over G, with some roots and depths.                         *)
Forests(G) == {p \in [G -> G] : \E r, d : Tree(G, p, r, d)}

LEMMA JoinForest ==
  ASSUME NEW G, NEW C \in [G -> Nat], NEW p \in Forests(G), NEW pair \in G \X G
  PROVE  Join(p, C, pair) \in Forests(G)
<1> DEFINE x == pair[1]   y == pair[2]
<1>1. x \in G /\ y \in G
  OBVIOUS
<1>2. PICK r, d : Tree(G, p, r, d)
  BY DEF Forests
<1>3. Find(p, x) = r[x] /\ Find(p, y) = r[y]
  BY <1>1, <1>2, FindIs
<1>4. r \in [G -> G] /\ \A z \in G : r[r[z]] = r[z]
  BY <1>2 DEF Tree
<1> HIDE DEF x, y
<1>5. ASSUME NEW a \in {r[x], r[y]}, NEW b \in {r[x], r[y]}, a # b
      PROVE  [p EXCEPT ![b] = a] \in Forests(G)
  <2>1. a \in G /\ b \in G /\ r[a] = a /\ r[b] = b
    BY <1>1, <1>4
  <2>2. \E s, e : Tree(G, [p EXCEPT ![b] = a], s, e)
    BY <1>2, <1>5, <2>1, TreeJoined
  <2> QED
    BY <2>2 DEF Forests, Tree
<1>6. Join(p, C, pair) \in {p, [p EXCEPT ![r[y]] = r[x]], [p EXCEPT ![r[x]] = r[y]]}
      /\ (r[x] = r[y] => Join(p, C, pair) = p)
  BY <1>3 DEF Join, Union, x, y
<1> QED
  BY <1>5, <1>6

JoinedUp(list, acc, n) ==
  /\ acc[0] = [t \in Groups(list) |-> t] /\ Parents(list) = acc[n]
  /\ \A k \in 1..n : acc[k] = Join(acc[k - 1], GroupCount(list), PairsInOrder(Groups(list))[k])

LEMMA JoinedSoFar ==
  ASSUME NEW list \in Inputs, NEW n \in Nat, Paired(Groups(list), PairsInOrder(Groups(list)), n)
  PROVE  \E acc : JoinedUp(list, acc, n)
<1> DEFINE G == Groups(list)   C == GroupCount(list)   o == PairsInOrder(G)   base == [t \in G |-> t]
           A == Forests(G)
           It(g) == g = [s \in SUBSET DOMAIN o |-> IF s = {} THEN base ELSE Join(g[s \ {Max(s)}], C, o[Max(s)])]
           h == CHOOSE g : It(g)
           step == [p \in A \X (1..n) |-> Join(p[1], C, o[p[2]])]
<1>1. Parents(list) = h[DOMAIN o]
  <2>1. Parents(list) = FoldLeft(LAMBDA parent, p : Join(parent, C, p), base, o)
    BY Zenon DEF Parents
  <2> HIDE DEF o, base, C
  <2> QED
    BY <2>1 DEF FoldLeft, MapThenFoldSet
<1>2. n \in Nat /\ DOMAIN o = 1..n /\ \A k \in 1..n : o[k] \in G \X G
  BY DEF Paired
<1>c. C \in [G -> Nat]
  BY GroupsAre
<1>4. base \in A
  <2>1. Tree(G, base, base, [t \in G |-> 0])
    BY DEF Tree
  <2> HIDE DEF base
  <2>2. base \in [G -> G]
    BY <2>1 DEF Tree
  <2> QED
    BY <2>1, <2>2 DEF Forests
<1>d. \A g : It(g) <=> g = [s \in SUBSET (1..n) |-> IF s = {} THEN base ELSE Join(g[s \ {Max(s)}], C, o[Max(s)])]
  BY <1>2
<1> HIDE DEF It, o, base, C, G
<1>3. \A a \in A, k \in 1..n : step[<<a, k>>] = Join(a, C, o[k]) /\ step[<<a, k>>] \in A
  <2>1. \A a \in A, k \in 1..n : step[<<a, k>>] = Join(a, C, o[k])
    OBVIOUS
  <2>2. \A a \in A, q \in G \X G : Join(a, C, q) \in A
    BY <1>c, JoinForest
  <2> HIDE DEF A, step
  <2> QED
    BY <1>2, <2>1, <2>2
<1> HIDE DEF A, step
<1>5. PICK g : /\ g = [s \in SUBSET (1..n) |-> g[s]]
               /\ \A s \in SUBSET (1..n) :
                    /\ g[s] \in A
                    /\ g[s] = IF s = {} THEN base ELSE step[<<g[s \ {Max(s)}], Max(s)>>]
               /\ \A s \in SUBSET (1..n) : s # {} => g[s \ {Max(s)}] \in A /\ Max(s) \in 1..n
  BY <1>2, <1>3, <1>4, FoldIn
<1>6. It(g)
  <2>1. \A s \in SUBSET (1..n) : g[s] = IF s = {} THEN base ELSE Join(g[s \ {Max(s)}], C, o[Max(s)])
    BY <1>3, <1>5
  <2>2. g = [s \in SUBSET (1..n) |-> IF s = {} THEN base ELSE Join(g[s \ {Max(s)}], C, o[Max(s)])]
    BY <1>5, <2>1
  <2> QED
    BY <1>d, <2>2
<1>7. It(h)
  BY <1>6
<1> HIDE DEF h
<1>8. \A s \in SUBSET (1..n) : h[s] = IF s = {} THEN base ELSE Join(h[s \ {Max(s)}], C, o[Max(s)])
  BY <1>7, <1>d
<1> DEFINE acc == [k \in 0..n |-> h[1..k]]
<1>9. acc[0] = base
  <2>1. 1..0 = {} /\ {} \in SUBSET (1..n) /\ 0 \in 0..n
    BY <1>2
  <2> QED
    BY <1>8, <2>1
<1>10. ASSUME NEW k \in 1..n PROVE acc[k] = Join(acc[k - 1], C, o[k])
  <2>1. 1..k \in SUBSET (1..n) /\ 1..k # {} /\ Max(1..k) = k /\ (1..k) \ {Max(1..k)} = 1..(k - 1)
    BY <1>2, LastOfUpTo
  <2>2. k \in 0..n /\ k - 1 \in 0..n
    BY <1>2
  <2>3. h[1..k] = Join(h[1..(k - 1)], C, o[k])
    BY <1>8, <2>1
  <2> QED
    BY <2>2, <2>3
<1>11. acc[n] = h[DOMAIN o]
  <2>1. n \in 0..n
    BY <1>2
  <2> QED
    BY <1>2, <2>1
<1> HIDE DEF acc
<1> QED
  BY <1>1, <1>9, <1>10, <1>11 DEF base, C, o, G, JoinedUp

LEMMA ParentsAre ==
  ASSUME NEW list \in Inputs, NEW G, G = Groups(list)
  PROVE  \E r, d : /\ Tree(G, Parents(list), r, d) /\ Grouped(G, GroupCount(list), r, {})
                   /\ \A t, u \in G : <<t, u>> \in Similar => r[t] = r[u]
<1> DEFINE C == GroupCount(list)   o == PairsInOrder(G)
<1>1. IsFiniteSet(G) /\ G \subseteq Template /\ C \in [G -> Nat]
  BY GroupsAre
<1>p. PICK n \in Nat : Paired(G, o, n)
  BY <1>1, PairsAre
<1>2. /\ n \in Nat /\ DOMAIN o = 1..n /\ \A k \in 1..n : o[k] \in G \X G
      /\ \A t, u \in G : t # u => \E k \in 1..n : o[k] = <<t, u>> \/ o[k] = <<u, t>>
  BY <1>p DEF Paired
<1>3. PICK acc : /\ acc[0] = [t \in G |-> t] /\ Parents(list) = acc[n]
                 /\ \A k \in 1..n : acc[k] = Join(acc[k - 1], C, o[k])
  <2>1. PICK acc : JoinedUp(list, acc, n)
    BY <1>p, JoinedSoFar DEF o
  <2> QED
    BY <2>1 DEF JoinedUp
<1> HIDE DEF C, o
<1> DEFINE done(k) == {o[i] : i \in 1..k}
           Fine(k) == \E r, d : Tree(G, acc[k], r, d) /\ Grouped(G, C, r, done(k))
           T == {k \in 0..n : Fine(k)}
<1>4. 0 \in T
  <2> DEFINE id == [t \in G |-> t]
  <2>1. Tree(G, id, id, [t \in G |-> 0])
    BY DEF Tree
  <2>2. done(0) = {}
    OBVIOUS
  <2>3. \A t \in G : id[t] = t /\ C[t] \in Nat
    BY <1>1
  <2> HIDE DEF id, done
  <2>4. Grouped(G, C, id, done(0))
    BY <2>2, <2>3, ReachedSteps DEF Grouped
  <2>5. acc[0] = id
    BY <1>3 DEF id
  <2> QED
    BY <2>1, <2>4, <2>5
<1>5. ASSUME NEW k \in 0..n - 1, k \in T PROVE k + 1 \in T
  <2> DEFINE m == k + 1
  <2>1. m \in 1..n /\ m - 1 = k /\ m \in 0..n /\ 1..m = (1..k) \union {m} /\ 1..k \subseteq 1..n
    OBVIOUS
  <2>2. PICK r, d : Tree(G, acc[k], r, d) /\ Grouped(G, C, r, done(k))
    BY <1>5
  <2> HIDE DEF m
  <2>3. done(m) = done(k) \union {o[m]} /\ done(k) \subseteq G \X G /\ o[m] \in G \X G
    BY <1>2, <2>1
  <2>4. o[m] \in Similar => <<o[m][2], o[m][1]>> \in Similar
    BY AnalyzerAssumption
  <2>5. acc[m] = Join(acc[k], C, o[m])
    BY <1>3, <2>1
  <2> HIDE DEF done
  <2>6. \E s, e : Tree(G, Join(acc[k], C, o[m]), s, e) /\ Grouped(G, C, s, done(k) \union {o[m]})
    BY <1>1, <2>2, <2>3, <2>4, JoinIs
  <2>7. Fine(m)
    BY <2>3, <2>5, <2>6
  <2>8. m \in T
    BY <2>1, <2>7
  <2> QED
    BY <2>8 DEF m
<1> HIDE DEF T
<1>6. 0..n \subseteq T
  BY <1>4, <1>5, ByCounting
<1>7. Fine(n)
  <2>1. n \in T
    BY <1>6
  <2> HIDE DEF Fine
  <2> QED
    BY <2>1 DEF T
<1>8. PICK r, d : Tree(G, acc[n], r, d) /\ Grouped(G, C, r, done(n))
  BY <1>7
<1>9. Tree(G, Parents(list), r, d)
  BY <1>3, <1>8
<1>10. Grouped(G, C, r, {})
  BY <1>8 DEF Grouped
<1>11. ASSUME NEW t \in G, NEW u \in G, <<t, u>> \in Similar PROVE r[t] = r[u]
  <2>1. CASE t = u
    BY <2>1
  <2>2. CASE t # u
    <3>1. PICK k \in 1..n : o[k] = <<t, u>> \/ o[k] = <<u, t>>
      BY <1>2, <2>2
    <3>2. o[k] \in done(n) /\ <<u, t>> \in Similar
      BY <1>11, AnalyzerAssumption
    <3>3. \A q \in done(n) : q \in Similar => r[q[1]] = r[q[2]]
      BY <1>8 DEF Grouped
    <3> QED
      BY <1>11, <3>1, <3>2, <3>3
  <2> QED
    BY <2>1, <2>2
<1> QED
  BY <1>9, <1>10, <1>11 DEF C

(* A cluster is what its root reaches.                                     *)
LEMMA ClustersReach ==
  ASSUME NEW list \in Inputs, NEW G, G = Groups(list)
  PROVE  /\ Roots(list) \subseteq G
         /\ \A root \in Roots(list) :
              /\ root \in Cluster(list, root) /\ Cluster(list, root) = ReachedIn(G, root)
              /\ \A t \in Cluster(list, root) : GroupCount(list)[t] <= GroupCount(list)[root]
         /\ \A a, b \in Roots(list) : a # b => Cluster(list, a) \intersect Cluster(list, b) = {}
         /\ UNION {Cluster(list, root) : root \in Roots(list)} = G
<1>1. PICK r, d : /\ Tree(G, Parents(list), r, d) /\ Grouped(G, GroupCount(list), r, {})
                  /\ \A t, u \in G : <<t, u>> \in Similar => r[t] = r[u]
  BY ParentsAre
<1>2. \A t \in G : Find(Parents(list), t) = r[t]
  BY <1>1, FindIs
<1>3. /\ r \in [G -> G] /\ \A x \in G : r[r[x]] = r[x]
      /\ \A x, y \in G : r[x] = r[y] => y \in ReachedIn(G, x)
      /\ \A x \in G : GroupCount(list)[x] <= GroupCount(list)[r[x]]
  BY <1>1 DEF Tree, Grouped
<1>4. Roots(list) = {r[t] : t \in G} /\ \A root : Cluster(list, root) = {t \in G : r[t] = root}
  BY <1>2 DEF Roots, Cluster
<1>5. ASSUME NEW root \in Roots(list)
      PROVE  /\ root \in G /\ r[root] = root
             /\ root \in Cluster(list, root) /\ Cluster(list, root) = ReachedIn(G, root)
             /\ \A t \in Cluster(list, root) : GroupCount(list)[t] <= GroupCount(list)[root]
  <2> DEFINE K == Cluster(list, root)
  <2>1. root \in G /\ r[root] = root
    BY <1>3, <1>4
  <2>2. K = {t \in G : r[t] = root}
    BY <1>4
  <2> HIDE DEF K
  <2>3. root \in K /\ \A t \in K : GroupCount(list)[t] <= GroupCount(list)[root]
    BY <1>3, <2>1, <2>2
  <2>4. K \subseteq ReachedIn(G, root)
    BY <1>3, <2>1, <2>2
  <2>5. ClosedIn(G, K) /\ K \in SUBSET G
    BY <1>1, <2>2 DEF ClosedIn
  <2>6. ReachedIn(G, root) \subseteq K
    BY <2>3, <2>5 DEF ReachedIn
  <2> QED
    BY <2>1, <2>3, <2>4, <2>6 DEF K
<1>6. \A a, b \in Roots(list) : a # b => Cluster(list, a) \intersect Cluster(list, b) = {}
  BY <1>4
<1>7. UNION {Cluster(list, root) : root \in Roots(list)} = G
  BY <1>4
<1> QED
  BY <1>5, <1>6, <1>7

-----------------------------------------------------------------------------
(* What the clusters count: every event is in one of them.                 *)
LEMMA TellingIs ==
  ASSUME NEW list \in Inputs, NEW sel \in SUBSET DOMAIN list
  PROVE  IsFiniteSet(sel) /\ \A S : /\ TellingOf(list, sel, S) \in SUBSET sel
                                    /\ IsFiniteSet(TellingOf(list, sel, S))
                                    /\ Cardinality(TellingOf(list, sel, S)) \in Nat
<1>1. IsFiniteSet(sel)
  BY GroupsAre, FS_Subset
<1>2. \A S : TellingOf(list, sel, S) \in SUBSET sel
  BY DEF TellingOf
<1> QED
  BY <1>1, <1>2, FS_Subset, FS_CardinalityType

OfSeverity(list, s) == {k \in DOMAIN list : list[k].severity = s}

LEMMA SizedIs ==
  ASSUME NEW list \in Inputs, NEW root \in Roots(list)
  PROVE  /\ Sized(list, root).count = Cardinality(TellingOf(list, DOMAIN list, Cluster(list, root)))
         /\ \A s \in Severity :
              Sized(list, root).severity[s] = Cardinality(TellingOf(list, OfSeverity(list, s), Cluster(list, root)))
<1> DEFINE K == Cluster(list, root)   C == GroupCount(list)   D == DOMAIN list
           F == [t \in K |-> TellingOf(list, D, {t})]
<1>1. /\ IsFiniteSet(Groups(list)) /\ IsFiniteSet(D) /\ C \in [Groups(list) -> Nat]
      /\ \A t \in Groups(list) : C[t] = Cardinality(TellingOf(list, D, {t}))
  BY GroupsAre
<1>2. K \in SUBSET Groups(list)
  BY DEF Cluster
<1>3. Sized(list, root) = [root |-> root, templates |-> K, count |-> Total(C, K), severity |-> SeverityOf(list, K)]
  BY DEF Sized
<1> HIDE DEF K, C
<1>4. IsFiniteSet(K)
  BY <1>1, <1>2, FS_Subset
<1>5. \A t \in K : F[t] \in SUBSET D /\ C[t] = Cardinality(F[t])
  BY <1>1, <1>2 DEF TellingOf
<1>6. \A t, u \in K : t # u => F[t] \intersect F[u] = {}
  BY DEF TellingOf
<1> DEFINE U == TellingOf(list, D, K)
<1>7. IsFiniteSet(U) /\ \A t \in K : F[t] \in SUBSET U
  BY TellingIs DEF TellingOf
<1>u. \A k \in U : \E t \in K : k \in F[t]
  BY DEF TellingOf
<1> HIDE DEF F, U
<1>8. SumFunctionOnSet(C, K) = Cardinality(U)
  BY <1>4, <1>5, <1>6, <1>7, <1>u, SumOfParts DEF Parts
<1>9. ASSUME NEW s \in Severity
      PROVE  SeverityOf(list, K)[s] = Cardinality(TellingOf(list, OfSeverity(list, s), K))
  <2>1. SeverityOf(list, K)[s] = Cardinality({k \in D : list[k].template \in K /\ list[k].severity = s})
    BY DEF SeverityOf, CountIn
  <2>2. {k \in D : list[k].template \in K /\ list[k].severity = s} = TellingOf(list, OfSeverity(list, s), K)
    BY DEF TellingOf, OfSeverity
  <2> QED
    BY <2>1, <2>2
<1> QED
  BY <1>3, <1>8, <1>9 DEF Total, K, U

(* The roots in the order of their clusters' sizes.                        *)
Placed(list, order, m) ==
  /\ m \in Nat /\ DOMAIN order = 1..m /\ \A k \in 1..m : order[k] \in Roots(list)
  /\ \A root \in Roots(list) : \E k \in 1..m : order[k] = root
  /\ \A j, k \in 1..m : j # k => order[j] # order[k]

LEMMA RankedIs ==
  ASSUME NEW list \in Inputs
  PROVE  \E m \in Nat : \E order : /\ Placed(list, order, m)
                                   /\ Ranked(list) = [k \in 1..m |-> Sized(list, order[k])]
<1> DEFINE R == Roots(list)   size(x) == Sized(list, x).count
           before == {p \in R \X R :
                 \/ Sized(list, p[1]).count > Sized(list, p[2]).count
                 \/ Sized(list, p[1]).count = Sized(list, p[2]).count /\ Rank(p[1]) < Rank(p[2])}
           order == InOrder(R, before)   n == Cardinality(R)
<1>1. Ranked(list) = [k \in DOMAIN order |-> Sized(list, order[k])]
  BY DEF Ranked
<1>2. /\ IsFiniteSet(Groups(list)) /\ Groups(list) \subseteq Template /\ R \subseteq Groups(list)
  BY GroupsAre, ClustersReach
<1>3. IsFiniteSet(R) /\ R \subseteq Template
  BY <1>2, FS_Subset
<1>4. \A x \in R : size(x) \in Int /\ Rank(x) \in Int
  <2> SUFFICES ASSUME NEW x \in R PROVE size(x) \in Int /\ Rank(x) \in Int
    OBVIOUS
  <2>1. size(x) = Cardinality(TellingOf(list, DOMAIN list, Cluster(list, x)))
    BY SizedIs
  <2>2. Cardinality(TellingOf(list, DOMAIN list, Cluster(list, x))) \in Nat
    BY TellingIs
  <2>3. Rank(x) \in Int
    BY <1>3, RankIs
  <2> QED
    BY <2>1, <2>2, <2>3
<1>5. \A x, y \in R : <<x, y>> \in before <=> size(x) > size(y) \/ (size(x) = size(y) /\ Rank(x) < Rank(y))
  OBVIOUS
<1>r. \A x, y \in R : x = y \/ Rank(x) < Rank(y) \/ Rank(y) < Rank(x)
  BY <1>3, RankIs
<1> HIDE DEF before, R, size
<1>6. \A x \in R : <<x, x>> \notin before
  BY <1>4, <1>5
<1>7. \A x, y, z \in R : <<x, y>> \in before /\ <<y, z>> \in before => <<x, z>> \in before
  <2> SUFFICES ASSUME NEW x \in R, NEW y \in R, NEW z \in R, <<x, y>> \in before, <<y, z>> \in before
               PROVE  <<x, z>> \in before
    OBVIOUS
  <2>1. /\ size(x) > size(y) \/ (size(x) = size(y) /\ Rank(x) < Rank(y))
        /\ size(y) > size(z) \/ (size(y) = size(z) /\ Rank(y) < Rank(z))
    BY <1>5
  <2>2. size(x) > size(z) \/ (size(x) = size(z) /\ Rank(x) < Rank(z))
    BY <1>4, <2>1
  <2> QED
    BY <1>5, <2>2
<1>8. \A x, y \in R : x = y \/ <<x, y>> \in before \/ <<y, x>> \in before
  <2> SUFFICES ASSUME NEW x \in R, NEW y \in R, x # y PROVE <<x, y>> \in before \/ <<y, x>> \in before
    OBVIOUS
  <2>1. size(x) > size(y) \/ size(y) > size(x) \/ size(x) = size(y)
    BY <1>4
  <2> QED
    BY <1>5, <1>r, <2>1
<1>9. /\ n \in Nat /\ DOMAIN order = 1..n /\ \A k \in 1..n : order[k] \in R
      /\ \A x \in R : \E k \in 1..n : order[k] = x
      /\ \A j, k \in 1..n : j < k => <<order[j], order[k]>> \in before
  BY <1>3, <1>6, <1>7, <1>8, InOrderIs
<1> HIDE DEF order, n
<1>10. \A j, k \in 1..n : j # k => order[j] # order[k]
  <2> SUFFICES ASSUME NEW j \in 1..n, NEW k \in 1..n, j # k PROVE order[j] # order[k]
    OBVIOUS
  <2>1. j < k \/ k < j
    BY <1>9
  <2>2. <<order[j], order[k]>> \in before \/ <<order[k], order[j]>> \in before
    BY <1>9, <2>1
  <2> QED
    BY <1>6, <1>9, <2>2
<1>11. Placed(list, order, n)
  BY <1>9, <1>10 DEF Placed, R
<1>12. Ranked(list) = [k \in 1..n |-> Sized(list, order[k])]
  BY <1>1, <1>9
<1> QED
  BY <1>9, <1>11, <1>12

(* A figure of the clusters adds up to that of the list, and still does    *)
(* when what does not fit is one cluster.                                  *)
LEMMA FiguresAdd ==
  ASSUME NEW list \in Inputs, NEW sel \in SUBSET DOMAIN list, NEW m \in Nat, NEW order, Placed(list, order, m),
         NEW f, \A k \in 1..m : f[k] = Cardinality(TellingOf(list, sel, Cluster(list, order[k])))
  PROVE  /\ SumFunctionOnSet(f, 1..m) = Cardinality(sel)
         /\ \A last \in 1..m : \A h :
              (/\ \A k \in 1..(last - 1) : h[k] = f[k]
               /\ h[last] = SumFunctionOnSet(f, last..m))
              => SumFunctionOnSet(h, 1..last) = Cardinality(sel)
<1> DEFINE F == [k \in 1..m |-> TellingOf(list, sel, Cluster(list, order[k]))]
<1>1. /\ \A a, b \in Roots(list) : a # b => Cluster(list, a) \intersect Cluster(list, b) = {}
      /\ UNION {Cluster(list, root) : root \in Roots(list)} = Groups(list)
  BY ClustersReach
<1>2. IsFiniteSet(sel) /\ \A k \in 1..m : F[k] \in SUBSET sel /\ f[k] = Cardinality(F[k])
  BY TellingIs DEF TellingOf
<1>3. ASSUME NEW j \in 1..m, NEW k \in 1..m, j # k PROVE F[j] \intersect F[k] = {}
  <2>1. Cluster(list, order[j]) \intersect Cluster(list, order[k]) = {}
    BY <1>1, <1>3 DEF Placed
  <2> QED
    BY <2>1 DEF TellingOf
<1>4. \A p \in sel : \E k \in 1..m : p \in F[k]
  <2> SUFFICES ASSUME NEW p \in sel PROVE \E k \in 1..m : p \in F[k]
    OBVIOUS
  <2>1. list[p].template \in Groups(list)
    BY GroupsAre
  <2>2. PICK root \in Roots(list) : list[p].template \in Cluster(list, root)
    BY <1>1, <2>1
  <2>3. PICK k \in 1..m : order[k] = root
    BY DEF Placed
  <2> QED
    BY <2>2, <2>3 DEF TellingOf
<1> HIDE DEF F
<1>6. IsFiniteSet(1..m)
  BY UpTo
<1>7. SumFunctionOnSet(f, 1..m) = Cardinality(sel)
  <2>1. Parts(1..m, F, f, sel)
    BY <1>2, <1>3, <1>4, <1>6 DEF Parts
  <2> QED
    BY <2>1, SumOfParts
<1>8. ASSUME NEW last \in 1..m, NEW h, \A k \in 1..(last - 1) : h[k] = f[k],
             h[last] = SumFunctionOnSet(f, last..m)
      PROVE  SumFunctionOnSet(h, 1..last) = Cardinality(sel)
  <2> DEFINE tail == UNION {F[k] : k \in last..m}
             E == [k \in 1..last |-> IF k = last THEN tail ELSE F[k]]
  <2>1. IsFiniteSet(last..m) /\ IsFiniteSet(1..last) /\ last..m \subseteq 1..m /\ 1..last \subseteq 1..m
        /\ last \in 1..last /\ \A k \in 1..last : k # last => k \in 1..(last - 1) /\ k \notin last..m
    BY FS_Interval
  <2>2. SumFunctionOnSet(f, last..m) = Cardinality(tail)
    <3>1. \A k \in last..m : F[k] \in SUBSET tail /\ k \in 1..m
      BY <2>1
    <3>2. \A p \in tail : \E k \in last..m : p \in F[k]
      OBVIOUS
    <3>3. tail \in SUBSET sel
      BY <1>2, <3>1, <3>2
    <3> HIDE DEF tail
    <3>4. IsFiniteSet(tail)
      BY <1>2, <3>3, FS_Subset
    <3>5. \A k \in last..m : f[k] = Cardinality(F[k])
      BY <1>2, <3>1
    <3>6. \A j, k \in last..m : j # k => F[j] \intersect F[k] = {}
      BY <1>3, <3>1
    <3>7. Parts(last..m, F, f, tail)
      BY <2>1, <3>1, <3>2, <3>4, <3>5, <3>6 DEF Parts
    <3> QED
      BY <3>7, SumOfParts
  <2>3. tail \in SUBSET sel
    BY <1>2, <2>1
  <2>4. \A k \in 1..last : k # last => F[k] \intersect tail = {}
    BY <1>3, <2>1
  <2>5. \A k \in 1..last : E[k] \in SUBSET sel /\ h[k] = Cardinality(E[k])
    BY <1>2, <1>8, <2>1, <2>2, <2>3
  <2>6. \A j, k \in 1..last : j # k => E[j] \intersect E[k] = {}
    BY <1>3, <2>1, <2>4
  <2>7. ASSUME NEW p \in sel PROVE \E k \in 1..last : p \in E[k]
    <3>1. PICK k \in 1..m : p \in F[k]
      BY <1>4
    <3>2. CASE k \in last..m
      BY <2>1, <3>1, <3>2
    <3>3. CASE k \notin last..m
      <4>1. k \in 1..last /\ k # last
        BY <3>3
      <4> QED
        BY <3>1, <4>1
    <3> QED
      BY <3>2, <3>3
  <2> HIDE DEF E, tail
  <2> QED
    <3>1. Parts(1..last, E, h, sel)
      BY <1>2, <2>1, <2>5, <2>6, <2>7 DEF Parts
    <3> QED
      BY <3>1, SumOfParts
<1> QED
  BY <1>7, <1>8

(* The clusters reported are the first of all in order, and what does not  *)
(* fit as one.                                                             *)
Shortened(list, clusters, order, m, last) ==
  /\ Placed(list, order, m) /\ DOMAIN clusters = 1..last /\ Len(clusters) = last /\ last <= MaxClusters
  /\ \/ last = m /\ \A k \in 1..m : clusters[k] = Sized(list, order[k])
     \/ /\ last \in 1..m /\ \A k \in 1..(last - 1) : clusters[k] = Sized(list, order[k])
        /\ clusters[last].root = "<other>"
        /\ clusters[last].count = SumFunctionOnSet([k \in last..m |-> Sized(list, order[k]).count], last..m)
        /\ \A s \in Severity : clusters[last].severity[s]
             = SumFunctionOnSet([k \in last..m |-> Sized(list, order[k]).severity[s]], last..m)

LEMMA ClustersAre ==
  ASSUME NEW list \in Inputs
  PROVE  \E order : \E m, last \in Nat : Shortened(list, Clusters(list), order, m, last)
<1> DEFINE all == Ranked(list)   c == Clusters(list)
<1>1. PICK m \in Nat : \E order : /\ Placed(list, order, m)
                                  /\ all = [k \in 1..m |-> Sized(list, order[k])]
  BY RankedIs
<1>2. PICK order : /\ Placed(list, order, m)
                   /\ all = [k \in 1..m |-> Sized(list, order[k])]
  BY <1>1
<1> DEFINE S == {Sized(list, order[k]) : k \in 1..m}
<1>3. c = IF Len(all) <= MaxClusters THEN all
          ELSE Append(SubSeq(all, 1, MaxClusters - 1), Rest(all, MaxClusters..Len(all)))
  BY DEF Clusters
<1> HIDE DEF all, c
<1>4. all \in Seq(S) /\ Len(all) = m /\ DOMAIN all = 1..m /\ \A k \in 1..m : all[k] = Sized(list, order[k])
  BY <1>2
<1>5. MaxClusters \in Nat \ {0}
  BY AnalyzerAssumption
<1>6. CASE m <= MaxClusters
  <2>1. c = all
    BY <1>3, <1>4, <1>6
  <2>2. Shortened(list, c, order, m, m)
    BY <1>2, <1>4, <1>6, <2>1 DEF Shortened
  <2> QED
    BY <2>2 DEF c
<1>7. CASE ~(m <= MaxClusters)
  <2> DEFINE M == MaxClusters   front == SubSeq(all, 1, M - 1)   rest == Rest(all, M..m)
  <2>1. c = Append(front, rest)
    BY <1>3, <1>4, <1>7
  <2>2. M \in 1..m /\ M \in Nat /\ M - 1 \in 0..Len(all) /\ M..m \subseteq 1..m /\ 1..(M - 1) \subseteq 1..m
    BY <1>4, <1>5, <1>7
  <2>3. front \in Seq(S) /\ Len(front) = M - 1 /\ \A k \in 1..(M - 1) : front[k] = all[k]
    BY <1>4, <2>2, SubSeqProperties
  <2>4. /\ rest.root = "<other>" /\ rest.count = Total([k \in M..m |-> all[k].count], M..m)
        /\ \A s \in Severity : rest.severity[s] = Total([k \in M..m |-> all[k].severity[s]], M..m)
    BY DEF Rest
  <2>5. /\ [k \in M..m |-> all[k].count] = [k \in M..m |-> Sized(list, order[k]).count]
        /\ \A s \in Severity : [k \in M..m |-> all[k].severity[s]] = [k \in M..m |-> Sized(list, order[k]).severity[s]]
    BY <1>4, <2>2
  <2> HIDE DEF front, rest
  <2>6. /\ Len(c) = M /\ DOMAIN c = 1..M /\ c[M] = rest
        /\ \A k \in 1..(M - 1) : c[k] = Sized(list, order[k])
    <3> DEFINE S2 == S \union {rest}
    <3>1. front \in Seq(S2) /\ rest \in S2
      BY <2>3
    <3> HIDE DEF S2, S
    <3>2. /\ c \in Seq(S2) /\ Len(c) = Len(front) + 1 /\ c[Len(front) + 1] = rest
          /\ \A k \in 1..Len(front) : c[k] = front[k]
      BY <2>1, <3>1, AppendProperties
    <3>3. DOMAIN c = 1..Len(c)
      BY <3>2, LenProperties
    <3> QED
      BY <1>4, <2>2, <2>3, <3>2, <3>3
  <2>7. Shortened(list, c, order, m, M)
    BY SMTT(20), <1>2, <2>2, <2>4, <2>5, <2>6 DEF Shortened, Total
  <2> QED
    BY <2>2, <2>7 DEF c
<1> QED
  BY <1>6, <1>7

-----------------------------------------------------------------------------
(* A figure f of all the clusters, and h as it is reported.                *)
Figured(list, sel, order, m, last, f, h) ==
  /\ sel \in SUBSET DOMAIN list /\ m \in Nat /\ last \in Nat /\ Placed(list, order, m)
  /\ \A k \in 1..m : f[k] = Cardinality(TellingOf(list, sel, Cluster(list, order[k])))
  /\ \/ last = m /\ \A k \in 1..m : h[k] = f[k]
     \/ /\ last \in 1..m /\ \A k \in 1..(last - 1) : h[k] = f[k]
        /\ h[last] = SumFunctionOnSet(f, last..m)

LEMMA ShortenedAdds ==
  ASSUME NEW list \in Inputs, NEW sel, NEW order, NEW m, NEW last, NEW f, NEW h,
         Figured(list, sel, order, m, last, f, h)
  PROVE  SumFunctionOnSet(h, 1..last) = Cardinality(sel)
<1>0. /\ sel \in SUBSET DOMAIN list /\ m \in Nat /\ last \in Nat /\ Placed(list, order, m)
      /\ \A k \in 1..m : f[k] = Cardinality(TellingOf(list, sel, Cluster(list, order[k])))
      /\ \/ last = m /\ \A k \in 1..m : h[k] = f[k]
         \/ /\ last \in 1..m /\ \A k \in 1..(last - 1) : h[k] = f[k]
            /\ h[last] = SumFunctionOnSet(f, last..m)
  BY DEF Figured
<1>1. SumFunctionOnSet(f, 1..m) = Cardinality(sel)
  BY <1>0, FiguresAdd
<1>2. CASE last = m /\ \A k \in 1..m : h[k] = f[k]
  <2>1. IsFiniteSet(1..m)
    BY <1>0, UpTo
  <2>2. \A k \in 1..m : f[k] \in Int
    <3>1. \A S : Cardinality(TellingOf(list, sel, S)) \in Nat
      BY <1>0, TellingIs
    <3> QED
      BY <1>0, <3>1
  <2>3. SumFunctionOnSet(h, 1..m) = SumFunctionOnSet(f, 1..m)
    BY <1>2, <2>1, <2>2, SumSame
  <2> QED
    BY <1>1, <1>2, <2>3
<1>3. CASE /\ last \in 1..m /\ \A k \in 1..(last - 1) : h[k] = f[k]
           /\ h[last] = SumFunctionOnSet(f, last..m)
  <2>1. \A l \in 1..m : \A g :
          (/\ \A k \in 1..(l - 1) : g[k] = f[k]
           /\ g[l] = SumFunctionOnSet(f, l..m))
          => SumFunctionOnSet(g, 1..l) = Cardinality(sel)
    BY <1>0, FiguresAdd
  <2> QED
    BY <1>3, <2>1
<1> QED
  BY <1>0, <1>2, <1>3

(* What a figure of the tail sums, told without the tail's own function.   *)
LEMMA TailSame ==
  ASSUME NEW m \in Nat, NEW last \in 1..m, NEW f, \A k \in 1..m : f[k] \in Int,
         NEW g, \A k \in last..m : g[k] = f[k]
  PROVE  SumFunctionOnSet(g, last..m) = SumFunctionOnSet(f, last..m)
<1>1. IsFiniteSet(last..m) /\ \A k \in last..m : f[k] \in Int
  BY FS_Interval
<1> QED
  BY <1>1, SumSame

LEMMA ShortenedWhole ==
  ASSUME NEW list \in Inputs, NEW c, NEW order, NEW m \in Nat, NEW last \in Nat,
         Shortened(list, c, order, m, last)
  PROVE  /\ Total([k \in DOMAIN c |-> c[k].count], DOMAIN c) = Len(list)
         /\ \A s \in Severity :
              Total([k \in DOMAIN c |-> c[k].severity[s]], DOMAIN c) = Cardinality(OfSeverity(list, s))
<1>1. /\ Placed(list, order, m) /\ DOMAIN c = 1..last
      /\ \A k \in 1..m : order[k] \in Roots(list)
  BY DEF Shortened, Placed
<1>2. DOMAIN list \in SUBSET DOMAIN list /\ Cardinality(DOMAIN list) = Len(list)
      /\ \A s : OfSeverity(list, s) \in SUBSET DOMAIN list
  BY GroupsAre DEF OfSeverity
<1>3. Total([k \in DOMAIN c |-> c[k].count], DOMAIN c) = Len(list)
  <2> DEFINE D == DOMAIN list
             f == [k \in 1..m |-> Sized(list, order[k]).count]   h == [k \in DOMAIN c |-> c[k].count]
             g == [k \in last..m |-> Sized(list, order[k]).count]
  <2>1. \A k \in 1..m : f[k] = Cardinality(TellingOf(list, D, Cluster(list, order[k])))
    BY <1>1, SizedIs
  <2>2. \A k \in 1..m : f[k] \in Int
    <3>1. \A S : Cardinality(TellingOf(list, D, S)) \in Nat
      BY <1>2, TellingIs
    <3> HIDE DEF f
    <3> QED
      BY <2>1, <3>1
  <2>3. \/ last = m /\ \A k \in 1..m : h[k] = f[k]
        \/ /\ last \in 1..m /\ \A k \in 1..(last - 1) : h[k] = f[k]
           /\ h[last] = SumFunctionOnSet(g, last..m)
    <3>1. CASE last = m /\ \A k \in 1..m : c[k] = Sized(list, order[k])
      BY <1>1, <3>1
    <3>2. CASE /\ last \in 1..m /\ \A k \in 1..(last - 1) : c[k] = Sized(list, order[k])
               /\ c[last].count = SumFunctionOnSet(g, last..m)
      <4>1. \A k \in 1..(last - 1) : k \in 1..m /\ k \in 1..last
        BY <3>2
      <4>2. last \in 1..last
        BY <3>2
      <4>3. h[last] = SumFunctionOnSet(g, last..m)
        <5> HIDE DEF g
        <5> QED
          BY <1>1, <3>2, <4>2
      <4>4. \A k \in 1..(last - 1) : h[k] = f[k]
        BY <1>1, <3>2, <4>1
      <4> QED
        BY <3>2, <4>3, <4>4
    <3> QED
      BY <3>1, <3>2 DEF Shortened
  <2>4. ASSUME last \in 1..m PROVE SumFunctionOnSet(g, last..m) = SumFunctionOnSet(f, last..m)
    <3>1. \A k \in last..m : g[k] = f[k]
      BY <2>4
    <3> HIDE DEF f, g
    <3> QED
      BY <2>2, <2>4, <3>1, TailSame
  <2> HIDE DEF f, g, h
  <2>5. SumFunctionOnSet(h, 1..last) = Cardinality(D)
    <3>1. Figured(list, D, order, m, last, f, h)
      BY <1>1, <1>2, <2>1, <2>3, <2>4 DEF Figured
    <3> QED
      BY <3>1, ShortenedAdds
  <2> QED
    BY <1>1, <1>2, <2>5 DEF Total, h
<1>4. ASSUME NEW s \in Severity
      PROVE  Total([k \in DOMAIN c |-> c[k].severity[s]], DOMAIN c) = Cardinality(OfSeverity(list, s))
  <2> DEFINE D == OfSeverity(list, s)
             f == [k \in 1..m |-> Sized(list, order[k]).severity[s]]   h == [k \in DOMAIN c |-> c[k].severity[s]]
             g == [k \in last..m |-> Sized(list, order[k]).severity[s]]
  <2>1. \A k \in 1..m : f[k] = Cardinality(TellingOf(list, D, Cluster(list, order[k])))
    BY <1>1, SizedIs
  <2>2. \A k \in 1..m : f[k] \in Int
    <3>1. \A S : Cardinality(TellingOf(list, D, S)) \in Nat
      BY <1>2, TellingIs
    <3> HIDE DEF f
    <3> QED
      BY <2>1, <3>1
  <2>3. \/ last = m /\ \A k \in 1..m : h[k] = f[k]
        \/ /\ last \in 1..m /\ \A k \in 1..(last - 1) : h[k] = f[k]
           /\ h[last] = SumFunctionOnSet(g, last..m)
    <3>1. CASE last = m /\ \A k \in 1..m : c[k] = Sized(list, order[k])
      BY <1>1, <3>1
    <3>2. CASE /\ last \in 1..m /\ \A k \in 1..(last - 1) : c[k] = Sized(list, order[k])
               /\ c[last].severity[s] = SumFunctionOnSet(g, last..m)
      <4>1. \A k \in 1..(last - 1) : k \in 1..m /\ k \in 1..last
        BY <3>2
      <4>2. last \in 1..last
        BY <3>2
      <4>3. h[last] = SumFunctionOnSet(g, last..m)
        <5> HIDE DEF g
        <5> QED
          BY <1>1, <3>2, <4>2
      <4>4. \A k \in 1..(last - 1) : h[k] = f[k]
        BY <1>1, <3>2, <4>1
      <4> QED
        BY <3>2, <4>3, <4>4
    <3> QED
      BY <3>1, <3>2 DEF Shortened
  <2>4. ASSUME last \in 1..m PROVE SumFunctionOnSet(g, last..m) = SumFunctionOnSet(f, last..m)
    <3>1. \A k \in last..m : g[k] = f[k]
      BY <2>4
    <3> HIDE DEF f, g
    <3> QED
      BY <2>2, <2>4, <3>1, TailSame
  <2> HIDE DEF f, g, h
  <2>5. D \in SUBSET DOMAIN list
    BY <1>2
  <2>6. SumFunctionOnSet(h, 1..last) = Cardinality(D)
    <3> HIDE DEF D
    <3>1. Figured(list, D, order, m, last, f, h)
      BY <1>1, <2>1, <2>3, <2>4, <2>5 DEF Figured
    <3> QED
      BY <3>1, ShortenedAdds
  <2> QED
    BY <1>1, <2>6 DEF Total, h
<1> QED
  BY <1>3, <1>4

LEMMA ClustersHold == Reported => ClustersAreComponents
<1> SUFFICES ASSUME Reported, Analyzed PROVE ClustersAreComponents
  BY DEF ClustersAreComponents
<1> DEFINE c == result.clusters
<1>1. events \in Inputs /\ c = Clusters(events)
  BY DEF Reported, Report
<1> HIDE DEF c
<1>2. PICK order : \E m, last \in Nat : Shortened(events, c, order, m, last)
  BY <1>1, ClustersAre
<1>3. PICK m \in Nat, last \in Nat : Shortened(events, c, order, m, last)
  BY <1>2
<1>4. /\ Total([k \in DOMAIN c |-> c[k].count], DOMAIN c) = Len(events)
      /\ \A s \in Severity :
           Total([k \in DOMAIN c |-> c[k].severity[s]], DOMAIN c) = Cardinality(OfSeverity(events, s))
  BY <1>1, <1>3, ShortenedWhole
<1>5. \A s \in Severity : CountIn(events, LAMBDA e : e.severity = s) = Cardinality(OfSeverity(events, s))
  BY DEF CountIn, OfSeverity
<1>6. ASSUME NEW k \in DOMAIN c, c[k].root # "<other>"
      PROVE  /\ c[k].templates = Reached(c[k].root)
             /\ \A t \in c[k].templates : GroupCount(events)[t] <= GroupCount(events)[c[k].root]
  <2>1. k \in 1..m /\ c[k] = Sized(events, order[k])
    BY <1>3, <1>6 DEF Shortened
  <2>2. order[k] \in Roots(events)
    BY <1>3, <2>1 DEF Shortened, Placed
  <2>3. c[k].root = order[k] /\ c[k].templates = Cluster(events, order[k])
    BY <2>1 DEF Sized
  <2>4. /\ Cluster(events, order[k]) = ReachedIn(Groups(events), order[k])
        /\ \A t \in Cluster(events, order[k]) : GroupCount(events)[t] <= GroupCount(events)[order[k]]
    BY <1>1, <2>2, ClustersReach
  <2>5. ReachedIn(Groups(events), order[k]) = Reached(order[k])
    BY DEF ReachedIn, Reached, ClosedIn, Closed
  <2> QED
    BY <2>3, <2>4, <2>5
<1> QED
  BY <1>4, <1>5, <1>6 DEF ClustersAreComponents, c

LEMMA AnalyzerTypes == Reported => AnalyzerTypeOK
<1> SUFFICES ASSUME Reported, Analyzed
             PROVE  /\ \A k \in DOMAIN result.bursts : result.bursts[k].start < result.bursts[k].end
                    /\ result.weeks \in [DOMAIN result.weeks -> {"spike", "drop"}]
                    /\ result.graph.firing \in [Service -> Nat]
                    /\ Len(result.clusters) <= MaxClusters
  BY DEF AnalyzerTypeOK, Reported
<1>1. /\ events \in Inputs /\ result.bursts = Bursts(events) /\ result.weeks = Anomalies(events)
      /\ result.graph = Correlated(events) /\ result.clusters = Clusters(events)
  BY DEF Reported, Report
<1>2. \A k \in DOMAIN result.bursts : result.bursts[k].start < result.bursts[k].end
  BY <1>1, BurstsWhole
<1>3. Anomalies(events) \in [DOMAIN Anomalies(events) -> {"spike", "drop"}]
  BY DEF Anomalies
<1>4. Correlated(events).firing \in [Service -> Nat]
  BY <1>1, CorrelatedIs
<1>5. Len(Clusters(events)) <= MaxClusters
  <2>1. PICK order : \E m, last \in Nat : Shortened(events, Clusters(events), order, m, last)
    BY <1>1, ClustersAre
  <2> QED
    BY <2>1 DEF Shortened
<1> QED
  BY <1>1, <1>2, <1>3, <1>4, <1>5

LEMMA Companied ==
  ASSUME NEW list \in Inputs, Bursts(list) # <<>>
  PROVE  Cardinality(Buckets(list)) > BurstZ * BurstZ
<1> DEFINE R == Buckets(list)   f == BucketCount(list)   n == Cardinality(R)
           q == [b \in R |-> Square(f[b])]
           s == SumFunctionOnSet(f, R)   k == SumFunctionOnSet(q, R)
<1>1. PICK b \in Qualifying(list) : TRUE
  BY BurstsWhole
<1>2. /\ b \in R /\ ~(n < 2) /\ Spread(f, R) # 0 /\ Above(f[b], f, R, BurstZ)
  BY <1>1 DEF Qualifying
<1>3. IsFiniteSet(R) /\ f \in [R -> Nat]
  BY BucketsAre
<1>4. Spread(f, R) = n * k - s * s /\ Excess(f[b], f, R) = n * f[b] - s
  BY DEF Spread, Excess, Squares, Total
<1> HIDE DEF R, f
<1>5. \A r \in R : f[r] \in Int /\ q[r] = f[r] * f[r]
  BY <1>3 DEF Square
<1> HIDE DEF q, n, s, k
<1>6. /\ n \in Nat /\ s \in Int /\ k \in Nat
      /\ (n * f[b] - s) * (n * f[b] - s) <= (n - 1) * (n * k - s * s)
  BY ZenonT(40), <1>2, <1>3, <1>5, SpreadOfOne DEF n, s, k
<1> DEFINE e == n * f[b] - s   d == n * k - s * s
<1>7. e \in Int /\ d \in Int /\ d # 0 /\ e * e <= (n - 1) * d /\ e * e >= BurstZ * BurstZ * d
  BY <1>2, <1>3, <1>4, <1>6 DEF Above, Square
<1>8. n >= 2 /\ BurstZ \in Nat
  BY <1>2, <1>6, AnalyzerAssumption
<1> HIDE DEF e, d
<1>9. n > BurstZ * BurstZ
  BY <1>6, <1>7, <1>8, FarNeedsMany
<1> QED
  BY <1>9 DEF n, R

LEMMA CompaniedHold == Reported => BurstNeedsCompany
BY Companied DEF Reported, Report, BurstNeedsCompany

(* No burst is reported before more than z * z windows have events, for    *)
(* any list and any threshold: time_patterns.py:203-240.                   *)
THEOREM BurstNeedsCompanyThm == AnalyzerSpec => []BurstNeedsCompany
<1>1. AnalyzerInit => Reported
  BY AnalyzerInitInv
<1>2. Reported /\ [Analyze]_analyzerVars => Reported'
  BY AnalyzeStep
<1>3. Reported => BurstNeedsCompany
  BY CompaniedHold
<1> QED
  BY <1>1, <1>2, <1>3, PTL DEF AnalyzerSpec

(* The report agrees with the definition of each of its figures, for every *)
(* list of events and every relation of similarity: the bursts are the     *)
(* maximal runs of marked windows (time_patterns.py:190-260), a week's     *)
(* verdict rests on earlier weeks alone, the pair counts are the meetings  *)
(* in the window before an event, and the clusters are the components of   *)
(* similar templates, none of the events lost.                             *)
THEOREM PatternsExactThm == AnalyzerSpec => []PatternsExact
<1>1. AnalyzerInit => Reported
  BY AnalyzerInitInv
<1>2. Reported /\ [Analyze]_analyzerVars => Reported'
  BY AnalyzeStep
<1>3. Reported => PatternsExact
  BY AnalyzerTypes, BurstsMaximalHold, CompaniedHold, VerdictsStandHold, CoExactHold, ClustersHold
     DEF PatternsExact
<1> QED
  BY <1>1, <1>2, <1>3, PTL DEF AnalyzerSpec
=============================================================================
