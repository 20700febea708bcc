----------------------------- MODULE SumTheorems -----------------------------
(***************************************************************************)
(* Facts about SumFunctionOnSet, the sum by which the money modules total  *)
(* a table: the rows of a ledger, the holds of a connection, the entries   *)
(* of a wallet, the credits of a sweep.  Every meter of the code is kept   *)
(* up to date one row at a time, and these facts say what such an update   *)
(* does to the total.                                                      *)
(*                                                                         *)
(* The sum is the community fold: a recursive function on the subsets of   *)
(* the set, that is, a CHOOSE.  It is first shown to exist, by induction   *)
(* on the size of the subsets, then to be unique, and every other fact     *)
(* follows from its one step, SumSteps.  Induction is the well-founded     *)
(* order of the naturals, applied to the set of what is proved.            *)
(***************************************************************************)
EXTENDS Functions, Folds, Integers, FiniteSets, FiniteSetTheorems, WellFoundedInduction,
        TLAPS

(* Induction over the natural numbers, the hypothesis being a set.         *)
LEMMA NatSetInduction ==
  ASSUME NEW T, 0 \in T, \A n \in Nat : n \in T => n + 1 \in T
  PROVE  Nat \subseteq T
<1> SUFFICES ASSUME Nat \ T # {} PROVE FALSE
  OBVIOUS
<1> DEFINE R == OpToRel(<, Nat)
           U == Nat \ T
<1>a. IsWellFoundedOn(R, Nat)
  BY NatLessThanWellFounded
<1>b. \A m, n \in Nat : m < n => <<m, n>> \in R
  BY DEF OpToRel
<1>c. U \subseteq Nat /\ U # {}
  OBVIOUS
<1> HIDE DEF R, U
<1>1. PICK n \in U : \A m \in U : ~ (<<m, n>> \in R)
  BY <1>a, <1>c, WFMin
<1> USE DEF U
<1>2. \A m \in Nat \ T : ~ (m < n)
  BY <1>1, <1>b
<1>3. n # 0 /\ n - 1 \in Nat /\ n - 1 < n /\ n - 1 \notin T
  BY <1>1
<1> QED
  BY <1>2, <1>3

(* Induction over the subsets of a finite set: a set may count on all its  *)
(* proper subsets.                                                         *)
LEMMA SubsetInduction ==
  ASSUME NEW S, IsFiniteSet(S), NEW T,
         \A s \in SUBSET S : (\A r \in SUBSET s : r # s => r \in T) => s \in T
  PROVE  SUBSET S \subseteq T
<1> DEFINE N == {n \in Nat : \A s \in SUBSET S : Cardinality(s) <= n => s \in T}
<1>1. \A s \in SUBSET S : /\ IsFiniteSet(s) /\ Cardinality(s) \in Nat
                          /\ \A r \in SUBSET s :
                               r # s => /\ Cardinality(r) \in Nat
                                        /\ Cardinality(r) < Cardinality(s)
  BY FS_Subset, FS_CardinalityType
<1>2. 0 \in N
  BY <1>1
<1>3. ASSUME NEW n \in Nat, n \in N PROVE n + 1 \in N
  <2> SUFFICES ASSUME NEW s \in SUBSET S, Cardinality(s) <= n + 1 PROVE s \in T
    OBVIOUS
  <2>1. \A r \in SUBSET s : r # s => Cardinality(r) <= n /\ r \in SUBSET S
    BY <1>1
  <2> QED
    BY <1>3, <2>1
<1> HIDE DEF N
<1>4. Nat \subseteq N
  BY <1>2, <1>3, NatSetInduction
<1> QED
  BY <1>1, <1>4 DEF N

-----------------------------------------------------------------------------
(* How a sum is computed: a member at a time.                              *)
FirstOf(s) == CHOOSE x \in s : TRUE
Adding(f, g, s) == IF s = {} THEN 0 ELSE f[FirstOf(s)] + g[s \ {FirstOf(s)}]
AddsUp(f, S, g) == g = [s \in SUBSET S |-> Adding(f, g, s)]

(* The community operator is the one function that adds up.                *)
LEMMA SumUnfolds ==
  ASSUME NEW f, NEW S
  PROVE  SumFunctionOnSet(f, S) = (CHOOSE g : AddsUp(f, S, g))[S]
BY DEF SumFunctionOnSet, FoldFunctionOnSet, MapThenFoldSet, AddsUp, Adding, FirstOf

(* The member a fold takes first.                                          *)
LEMMA FirstIsMember ==
  ASSUME NEW S, NEW s \in SUBSET S, s # {}
  PROVE  FirstOf(s) \in s /\ s \ {FirstOf(s)} \in SUBSET s /\ s \ {FirstOf(s)} # s
BY DEF FirstOf

(* There is a function that adds up: one that does for the sets of at most *)
(* n members makes one for n + 1.                                          *)
LEMMA SumExists ==
  ASSUME NEW f, NEW S, IsFiniteSet(S)
  PROVE  \E g : AddsUp(f, S, g)
<1> DEFINE Upto(g, n) == \A s \in SUBSET S : Cardinality(s) <= n => g[s] = Adding(f, g, s)
           T == {n \in Nat : \E g : g = [s \in SUBSET S |-> g[s]] /\ Upto(g, n)}
<1>1. \A s \in SUBSET S :
        IsFiniteSet(s) /\ Cardinality(s) \in Nat /\ Cardinality(s) <= Cardinality(S)
  BY FS_Subset, FS_CardinalityType
<1>2. \A s \in SUBSET S : s # {} => Cardinality(s \ {FirstOf(s)}) = Cardinality(s) - 1
  BY <1>1, FirstIsMember, FS_RemoveElement
<1>3. \A s \in SUBSET S : Cardinality(s) <= 0 => s = {}
  BY <1>1, FS_EmptySet
<1>4. 0 \in T
  <2> DEFINE g == [s \in SUBSET S |-> 0]
  <2>1. \A s \in SUBSET S : Cardinality(s) <= 0 => g[s] = Adding(f, g, s)
    BY <1>3 DEF Adding
  <2> QED
    BY <2>1
<1>5. ASSUME NEW n \in Nat, n \in T PROVE n + 1 \in T
  <2>1. PICK g : Upto(g, n)
    BY <1>5
  <2> DEFINE h == [s \in SUBSET S |-> IF Cardinality(s) <= n THEN g[s] ELSE Adding(f, g, s)]
  <2>2. ASSUME NEW s \in SUBSET S, Cardinality(s) <= n + 1 PROVE h[s] = Adding(f, h, s)
    <3>1. h[s] = Adding(f, g, s)
      BY <2>1
    <3>2. s # {} => h[s \ {FirstOf(s)}] = g[s \ {FirstOf(s)}]
      BY <1>1, <1>2, <2>2
    <3> HIDE DEF h
    <3> QED
      BY <3>1, <3>2 DEF Adding
  <2>3. h = [s \in SUBSET S |-> h[s]]
    OBVIOUS
  <2> HIDE DEF h
  <2>4. Upto(h, n + 1)
    BY <2>2
  <2>5. \E k : k = [s \in SUBSET S |-> k[s]] /\ Upto(k, n + 1)
    BY <2>3, <2>4, Zenon
  <2> HIDE DEF Upto
  <2> QED
    BY <2>5
<1>6. Cardinality(S) \in T
  <2> HIDE DEF T
  <2> QED
    BY <1>1, <1>4, <1>5, NatSetInduction
<1>7. PICK g : g = [s \in SUBSET S |-> g[s]] /\ Upto(g, Cardinality(S))
  BY <1>6
<1>8. g = [s \in SUBSET S |-> Adding(f, g, s)]
  BY <1>1, <1>7
<1> QED
  BY <1>8 DEF AddsUp

(* It does not depend on anything but the members and their values.        *)
LEMMA SumUnique ==
  ASSUME NEW f, NEW h, NEW S, NEW U, NEW g, NEW k, AddsUp(f, S, g), AddsUp(h, U, k),
         NEW s \in SUBSET S, IsFiniteSet(s), s \subseteq U, \A x \in s : f[x] = h[x]
  PROVE  g[s] = k[s]
<1> DEFINE T == {r \in SUBSET s : g[r] = k[r]}
<1>1. \A r \in SUBSET s : g[r] = Adding(f, g, r) /\ k[r] = Adding(h, k, r)
  BY DEF AddsUp
<1>2. ASSUME NEW r \in SUBSET s, \A q \in SUBSET r : q # r => q \in T
      PROVE  r \in T
  <2>1. CASE r = {}
    BY <1>1, <2>1 DEF Adding
  <2>2. CASE r # {}
    <3>1. FirstOf(r) \in r /\ r \ {FirstOf(r)} \in T
      BY <1>2, <2>2, FirstIsMember
    <3>2. g[r \ {FirstOf(r)}] = k[r \ {FirstOf(r)}] /\ f[FirstOf(r)] = h[FirstOf(r)]
      BY <3>1
    <3> QED
      BY <1>1, <2>2, <3>2 DEF Adding
  <2> QED
    BY <2>1, <2>2
<1>3. SUBSET s \subseteq T
  <2> HIDE DEF T
  <2> QED
    BY <1>2, SubsetInduction
<1> QED
  BY <1>3

(* A sum depends on the values of its members only.                        *)
THEOREM SumSame ==
  ASSUME NEW f, NEW h, NEW S, IsFiniteSet(S), \A x \in S : f[x] = h[x]
  PROVE  SumFunctionOnSet(f, S) = SumFunctionOnSet(h, S)
<1>1. AddsUp(f, S, CHOOSE g : AddsUp(f, S, g)) /\ AddsUp(h, S, CHOOSE g : AddsUp(h, S, g))
  BY SumExists
<1> QED
  BY <1>1, SumUnfolds, SumUnique

(* One member after the other is added.                                    *)
LEMMA SumSteps ==
  ASSUME NEW f, NEW S, IsFiniteSet(S)
  PROVE  SumFunctionOnSet(f, S) =
           IF S = {} THEN 0 ELSE f[FirstOf(S)] + SumFunctionOnSet(f, S \ {FirstOf(S)})
<1> DEFINE g == CHOOSE g : AddsUp(f, S, g)
           R == S \ {FirstOf(S)}
           k == CHOOSE k : AddsUp(f, R, k)
<1>1. IsFiniteSet(R)
  BY FS_Subset
<1>2. /\ AddsUp(f, S, g) /\ AddsUp(f, R, k)
      /\ SumFunctionOnSet(f, S) = g[S] /\ SumFunctionOnSet(f, R) = k[R]
  BY <1>1, SumExists, SumUnfolds
<1> HIDE DEF g, k
<1>3. R \in SUBSET S
  OBVIOUS
<1>4. g[R] = k[R]
  BY <1>1, <1>2, <1>3, SumUnique
<1>5. g[S] = Adding(f, g, S)
  BY <1>2 DEF AddsUp
<1> QED
  BY <1>2, <1>4, <1>5 DEF Adding

(* An empty table totals nothing.                                          *)
THEOREM SumOfNone == \A f : SumFunctionOnSet(f, {}) = 0
BY FS_EmptySet, SumSteps

(* A sum of integers is one.                                               *)
THEOREM SumOfIntegers ==
  ASSUME NEW f, NEW S, IsFiniteSet(S), \A x \in S : f[x] \in Int
  PROVE  SumFunctionOnSet(f, S) \in Int
<1> DEFINE T == {s \in SUBSET S : SumFunctionOnSet(f, s) \in Int}
<1>1. ASSUME NEW s \in SUBSET S, \A r \in SUBSET s : r # s => r \in T
      PROVE  s \in T
  <2>1. IsFiniteSet(s)
    BY FS_Subset
  <2>2. CASE s = {}
    BY <2>2, SumOfNone
  <2>3. CASE s # {}
    <3>1. f[FirstOf(s)] \in Int /\ SumFunctionOnSet(f, s \ {FirstOf(s)}) \in Int
      BY <1>1, <2>3, FirstIsMember
    <3>2. SumFunctionOnSet(f, s) = f[FirstOf(s)] + SumFunctionOnSet(f, s \ {FirstOf(s)})
      BY <2>1, <2>3, SumSteps
    <3> QED
      BY <3>1, <3>2
  <2> QED
    BY <2>2, <2>3
<1>2. SUBSET S \subseteq T
  <2> HIDE DEF T
  <2> QED
    BY <1>1, SubsetInduction
<1> QED
  BY <1>2

(* Any member may be the last that is added, whatever the fold picks.      *)
THEOREM SumWithout ==
  ASSUME NEW f, NEW S, IsFiniteSet(S), \A x \in S : f[x] \in Int, NEW y \in S
  PROVE  SumFunctionOnSet(f, S) = SumFunctionOnSet(f, S \ {y}) + f[y]
<1> DEFINE T == {s \in SUBSET S :
                   \A z \in s : SumFunctionOnSet(f, s) = SumFunctionOnSet(f, s \ {z}) + f[z]}
<1>1. ASSUME NEW s \in SUBSET S, \A r \in SUBSET s : r # s => r \in T, NEW z \in s
      PROVE  SumFunctionOnSet(f, s) = SumFunctionOnSet(f, s \ {z}) + f[z]
  <2> DEFINE p == FirstOf(s)
  <2>1. p \in s /\ s \ {p} \in SUBSET s /\ s \ {p} # s
    BY FirstIsMember
  <2>2. \A r \in SUBSET s : IsFiniteSet(r) /\ SumFunctionOnSet(f, r) \in Int
    <3> SUFFICES ASSUME NEW r \in SUBSET s PROVE IsFiniteSet(r) /\ SumFunctionOnSet(f, r) \in Int
      OBVIOUS
    <3>1. IsFiniteSet(r)
      BY FS_Subset
    <3> QED
      BY <3>1, SumOfIntegers
  <2>3. SumFunctionOnSet(f, s) = f[p] + SumFunctionOnSet(f, s \ {p})
    BY <2>1, <2>2, SumSteps
  <2> HIDE DEF p
  <2>4. CASE z = p
    BY <2>1, <2>2, <2>3, <2>4
  <2>5. CASE z # p
    <3>1. SumFunctionOnSet(f, s \ {p}) = SumFunctionOnSet(f, (s \ {p}) \ {z}) + f[z]
      BY <1>1, <2>1, <2>5
    <3>2. s \ {z} \in T /\ p \in s \ {z}
      BY <1>1, <2>1, <2>5
    <3>3. SumFunctionOnSet(f, s \ {z}) = SumFunctionOnSet(f, (s \ {z}) \ {p}) + f[p]
      BY <3>2
    <3>4. (s \ {z}) \ {p} = (s \ {p}) \ {z}
      OBVIOUS
    <3>5. f[p] \in Int /\ f[z] \in Int /\ SumFunctionOnSet(f, (s \ {p}) \ {z}) \in Int
      BY <2>1, <2>2
    <3> DEFINE rest == SumFunctionOnSet(f, (s \ {p}) \ {z})
    <3>6. /\ SumFunctionOnSet(f, s) = f[p] + (rest + f[z])
          /\ SumFunctionOnSet(f, s \ {z}) = rest + f[p]
          /\ rest \in Int
      BY <2>3, <3>1, <3>3, <3>4, <3>5
    <3> HIDE DEF rest
    <3> QED
      BY <3>5, <3>6
  <2> QED
    BY <2>4, <2>5
<1>2. SUBSET S \subseteq T
  <2>1. \A s \in SUBSET S : (\A r \in SUBSET s : r # s => r \in T) => s \in T
    BY <1>1
  <2> HIDE DEF T
  <2> QED
    BY <2>1, SubsetInduction
<1> QED
  BY <1>2

(* A row is added to the table.                                            *)
THEOREM SumWith ==
  ASSUME NEW f, NEW S, IsFiniteSet(S), \A x \in S : f[x] \in Int,
         NEW y, y \notin S, f[y] \in Int
  PROVE  SumFunctionOnSet(f, S \cup {y}) = SumFunctionOnSet(f, S) + f[y]
<1> DEFINE U == S \cup {y}
<1>1. IsFiniteSet(U) /\ y \in U /\ U \ {y} = S /\ \A x \in U : f[x] \in Int
  BY FS_AddElement
<1> HIDE DEF U
<1>2. SumFunctionOnSet(f, U) = SumFunctionOnSet(f, U \ {y}) + f[y]
  BY <1>1, SumWithout
<1> QED
  BY <1>1, <1>2 DEF U

(* A change of one value changes the sum by as much.                       *)
THEOREM SumChanged ==
  ASSUME NEW f, NEW h, NEW S, IsFiniteSet(S), \A x \in S : f[x] \in Int /\ h[x] \in Int,
         NEW y \in S, \A x \in S \ {y} : h[x] = f[x]
  PROVE  SumFunctionOnSet(h, S) = SumFunctionOnSet(f, S) - f[y] + h[y]
<1> DEFINE R == S \ {y}
           r == SumFunctionOnSet(f, R)
<1>1. IsFiniteSet(R) /\ \A x \in R : f[x] \in Int
  BY FS_Subset
<1>2. r \in Int /\ SumFunctionOnSet(h, R) = r
  <2> HIDE DEF R
  <2> QED
    BY <1>1, SumOfIntegers, SumSame DEF R
<1>3. SumFunctionOnSet(f, S) = r + f[y] /\ SumFunctionOnSet(h, S) = SumFunctionOnSet(h, R) + h[y]
  BY SumWithout
<1> HIDE DEF R, r
<1> QED
  BY <1>2, <1>3

(* A sum of larger values is larger.                                       *)
THEOREM SumAtMost ==
  ASSUME NEW f, NEW h, NEW S, IsFiniteSet(S),
         \A x \in S : f[x] \in Int /\ h[x] \in Int /\ f[x] <= h[x]
  PROVE  SumFunctionOnSet(f, S) <= SumFunctionOnSet(h, S)
<1> DEFINE T == {s \in SUBSET S : SumFunctionOnSet(f, s) <= SumFunctionOnSet(h, s)}
<1>1. ASSUME NEW s \in SUBSET S, \A r \in SUBSET s : r # s => r \in T
      PROVE  s \in T
  <2>1. IsFiniteSet(s)
    BY FS_Subset
  <2>2. CASE s = {}
    BY <2>2, SumOfNone
  <2>3. CASE s # {}
    <3> DEFINE p == FirstOf(s)
               R == s \ {p}
    <3>1. p \in s /\ R \in SUBSET s /\ R # s
      BY <2>3, FirstIsMember
    <3>2. SumFunctionOnSet(f, R) <= SumFunctionOnSet(h, R) /\ IsFiniteSet(R)
      BY <1>1, <2>1, <3>1, FS_Subset
    <3>3. SumFunctionOnSet(f, R) \in Int /\ SumFunctionOnSet(h, R) \in Int
      BY <3>1, <3>2, SumOfIntegers
    <3>4. /\ SumFunctionOnSet(f, s) = f[p] + SumFunctionOnSet(f, R)
          /\ SumFunctionOnSet(h, s) = h[p] + SumFunctionOnSet(h, R)
      BY <2>1, <2>3, SumSteps
    <3>5. f[p] \in Int /\ h[p] \in Int /\ f[p] <= h[p]
      BY <3>1
    <3> HIDE DEF p, R
    <3> QED
      BY <3>2, <3>3, <3>4, <3>5
  <2> QED
    BY <2>2, <2>3
<1>2. SUBSET S \subseteq T
  <2> HIDE DEF T
  <2> QED
    BY <1>1, SubsetInduction
<1> QED
  BY <1>2

(* A table of zeros totals nothing.                                        *)
THEOREM SumOfZeros ==
  ASSUME NEW f, NEW S, IsFiniteSet(S), \A x \in S : f[x] = 0
  PROVE  SumFunctionOnSet(f, S) = 0
<1> DEFINE T == {s \in SUBSET S : SumFunctionOnSet(f, s) = 0}
<1>1. ASSUME NEW s \in SUBSET S, \A r \in SUBSET s : r # s => r \in T
      PROVE  s \in T
  <2>1. IsFiniteSet(s)
    BY FS_Subset
  <2>2. CASE s = {}
    BY <2>2, SumOfNone
  <2>3. CASE s # {}
    <3>1. f[FirstOf(s)] = 0 /\ SumFunctionOnSet(f, s \ {FirstOf(s)}) = 0
      BY <1>1, <2>3, FirstIsMember
    <3>2. SumFunctionOnSet(f, s) = f[FirstOf(s)] + SumFunctionOnSet(f, s \ {FirstOf(s)})
      BY <2>1, <2>3, SumSteps
    <3> QED
      BY <3>1, <3>2
  <2> QED
    BY <2>2, <2>3
<1>2. SUBSET S \subseteq T
  <2> HIDE DEF T
  <2> QED
    BY <1>1, SubsetInduction
<1> QED
  BY <1>2

(* A table of amounts totals an amount.                                    *)
THEOREM SumOfNats ==
  ASSUME NEW f, NEW S, IsFiniteSet(S), \A x \in S : f[x] \in Nat
  PROVE  SumFunctionOnSet(f, S) \in Nat
<1> DEFINE zero == [x \in S |-> 0]
<1>1. SumFunctionOnSet(zero, S) = 0
  BY SumOfZeros
<1>2. SumFunctionOnSet(zero, S) <= SumFunctionOnSet(f, S)
  BY SumAtMost
<1>3. SumFunctionOnSet(f, S) \in Int
  BY SumOfIntegers
<1> QED
  BY <1>1, <1>2, <1>3

(* Two tables over the same rows are totalled together or apart.           *)
THEOREM SumOfBoth ==
  ASSUME NEW f, NEW h, NEW g, NEW S, IsFiniteSet(S),
         \A x \in S : f[x] \in Int /\ h[x] \in Int /\ g[x] = f[x] + h[x]
  PROVE  SumFunctionOnSet(g, S) = SumFunctionOnSet(f, S) + SumFunctionOnSet(h, S)
<1> DEFINE T == {s \in SUBSET S :
                   SumFunctionOnSet(g, s) = SumFunctionOnSet(f, s) + SumFunctionOnSet(h, s)}
<1>1. ASSUME NEW s \in SUBSET S, \A r \in SUBSET s : r # s => r \in T
      PROVE  s \in T
  <2>1. IsFiniteSet(s)
    BY FS_Subset
  <2>2. CASE s = {}
    BY <2>2, SumOfNone
  <2>3. CASE s # {}
    <3> DEFINE p == FirstOf(s)
               R == s \ {p}
    <3>1. p \in s /\ R \in SUBSET s /\ R # s /\ IsFiniteSet(R)
      BY <2>1, <2>3, FirstIsMember, FS_Subset
    <3>2. SumFunctionOnSet(g, R) = SumFunctionOnSet(f, R) + SumFunctionOnSet(h, R)
      BY <1>1, <3>1
    <3>3. SumFunctionOnSet(f, R) \in Int /\ SumFunctionOnSet(h, R) \in Int
      BY <3>1, SumOfIntegers
    <3>4. /\ SumFunctionOnSet(f, s) = f[p] + SumFunctionOnSet(f, R)
          /\ SumFunctionOnSet(h, s) = h[p] + SumFunctionOnSet(h, R)
          /\ SumFunctionOnSet(g, s) = g[p] + SumFunctionOnSet(g, R)
      BY <2>1, <2>3, SumSteps
    <3>5. f[p] \in Int /\ h[p] \in Int /\ g[p] = f[p] + h[p]
      BY <3>1
    <3> HIDE DEF p, R
    <3> QED
      BY <3>2, <3>3, <3>4, <3>5
  <2> QED
    BY <2>2, <2>3
<1>2. SUBSET S \subseteq T
  <2> HIDE DEF T
  <2> QED
    BY <1>1, SubsetInduction
<1> QED
  BY <1>2

(* Rows that are zero may be left out.                                     *)
THEOREM SumOfPart ==
  ASSUME NEW f, NEW S, IsFiniteSet(S), \A x \in S : f[x] \in Int,
         NEW U \in SUBSET S, \A x \in S \ U : f[x] = 0
  PROVE  SumFunctionOnSet(f, S) = SumFunctionOnSet(f, U)
<1> DEFINE V == S \ U
           T == {s \in SUBSET V : SumFunctionOnSet(f, U \cup s) = SumFunctionOnSet(f, U)}
<1>1. ASSUME NEW s \in SUBSET V, \A r \in SUBSET s : r # s => r \in T
      PROVE  s \in T
  <2>1. CASE s = {}
    BY <2>1
  <2>2. CASE s # {}
    <3> DEFINE p == FirstOf(s)
               R == U \cup (s \ {p})
    <3>1. p \in s /\ s \ {p} \in SUBSET s /\ s \ {p} # s
      BY <2>2, FirstIsMember
    <3>2. SumFunctionOnSet(f, R) = SumFunctionOnSet(f, U)
      BY <1>1, <3>1
    <3>3. R \in SUBSET S /\ p \notin R /\ f[p] = 0 /\ U \cup s = R \cup {p}
      BY <3>1
    <3> HIDE DEF p, R
    <3>4. IsFiniteSet(R) /\ \A x \in R : f[x] \in Int
      BY <3>3, FS_Subset
    <3>5. SumFunctionOnSet(f, R \cup {p}) = SumFunctionOnSet(f, R) + f[p]
      BY <3>3, <3>4, SumWith
    <3>6. SumFunctionOnSet(f, R) \in Int
      BY <3>4, SumOfIntegers
    <3>7. SumFunctionOnSet(f, U \cup s) = SumFunctionOnSet(f, R) + f[p]
      BY <3>3, <3>5
    <3>8. SumFunctionOnSet(f, U \cup s) = SumFunctionOnSet(f, U)
      BY <3>2, <3>3, <3>6, <3>7
    <3> QED
      BY <3>8
  <2> QED
    BY <2>1, <2>2
<1>2. IsFiniteSet(V) /\ U \cup V = S /\ V \in SUBSET V
  BY FS_Subset
<1>3. SUBSET V \subseteq T
  <2> HIDE DEF T, V
  <2> QED
    BY <1>1, <1>2, SubsetInduction
<1> HIDE DEF V
<1> QED
  BY <1>2, <1>3

LEMMA OneMoreTimes ==
  ASSUME NEW n \in Nat, NEW a \in Nat
  PROVE  (n + 1) * a = n * a + a /\ n * a \in Nat
OBVIOUS

(* Rows of at most a each total at most a for each of them.                *)
THEOREM SumOfSmall ==
  ASSUME NEW f, NEW S, IsFiniteSet(S), NEW a \in Nat, \A x \in S : f[x] \in Int /\ f[x] <= a
  PROVE  SumFunctionOnSet(f, S) <= Cardinality(S) * a
<1> DEFINE T == {s \in SUBSET S : SumFunctionOnSet(f, s) <= Cardinality(s) * a}
<1>1. ASSUME NEW s \in SUBSET S, \A r \in SUBSET s : r # s => r \in T
      PROVE  s \in T
  <2>1. IsFiniteSet(s)
    BY FS_Subset
  <2>2. CASE s = {}
    <3>1. SumFunctionOnSet(f, s) = 0 /\ Cardinality(s) = 0
      BY <2>2, SumOfNone, FS_EmptySet
    <3> QED
      BY <3>1
  <2>3. CASE s # {}
    <3> DEFINE p == FirstOf(s)
               R == s \ {p}
               n == Cardinality(R)
               was == SumFunctionOnSet(f, R)
               now == SumFunctionOnSet(f, s)
    <3>1. p \in s /\ R \in SUBSET s /\ R # s /\ IsFiniteSet(R)
      BY <2>1, <2>3, FirstIsMember, FS_Subset
    <3>2. was <= n * a
      BY <1>1, <3>1
    <3>3. was \in Int
      BY <3>1, SumOfIntegers
    <3>4. now = f[p] + was
      BY <2>1, <2>3, SumSteps
    <3>5. f[p] \in Int /\ f[p] <= a
      BY <3>1
    <3>6. n \in Nat /\ Cardinality(s) = n + 1
      BY <2>1, <3>1, FS_RemoveElement, FS_CardinalityType
    <3> HIDE DEF p, n, was, now
    <3>7. Cardinality(s) * a = n * a + a /\ n * a \in Nat
      BY <3>6, OneMoreTimes
    <3>8. now <= Cardinality(s) * a
      BY <3>2, <3>3, <3>4, <3>5, <3>7
    <3> QED
      BY <3>8 DEF now
  <2> QED
    BY <2>2, <2>3
<1>2. SUBSET S \subseteq T
  <2> HIDE DEF T
  <2> QED
    BY <1>1, SubsetInduction
<1> QED
  BY <1>2

(* Two sums that have no member in common are one.                         *)
THEOREM SumOfUnion ==
  ASSUME NEW f, NEW A, NEW B, IsFiniteSet(A), IsFiniteSet(B), A \cap B = {},
         \A x \in A \cup B : f[x] \in Int
  PROVE  SumFunctionOnSet(f, A \cup B) = SumFunctionOnSet(f, A) + SumFunctionOnSet(f, B)
<1> DEFINE U == A \cup B
           g == [x \in U |-> IF x \in A THEN f[x] ELSE 0]
           h == [x \in U |-> IF x \in B THEN f[x] ELSE 0]
<1>1. IsFiniteSet(U) /\ A \in SUBSET U /\ B \in SUBSET U
  BY FS_Union
<1>2. /\ \A x \in U : g[x] \in Int /\ h[x] \in Int /\ f[x] = g[x] + h[x]
      /\ \A x \in U \ A : g[x] = 0
      /\ \A x \in U \ B : h[x] = 0
      /\ \A x \in A : g[x] = f[x]
      /\ \A x \in B : h[x] = f[x]
  OBVIOUS
<1> HIDE DEF g, h
<1>3. SumFunctionOnSet(f, U) = SumFunctionOnSet(g, U) + SumFunctionOnSet(h, U)
  <2> HIDE DEF U
  <2> QED
    BY <1>1, <1>2, SumOfBoth
<1>4. SumFunctionOnSet(g, U) = SumFunctionOnSet(g, A)
  <2> HIDE DEF U
  <2> QED
    BY <1>1, <1>2, SumOfPart
<1>5. SumFunctionOnSet(h, U) = SumFunctionOnSet(h, B)
  <2> HIDE DEF U
  <2> QED
    BY <1>1, <1>2, SumOfPart
<1>6. /\ SumFunctionOnSet(g, A) = SumFunctionOnSet(f, A)
      /\ SumFunctionOnSet(h, B) = SumFunctionOnSet(f, B)
  BY <1>2, SumSame
<1> QED
  BY <1>3, <1>4, <1>5, <1>6

(* A sum may be taken group by group.                                      *)
THEOREM SumByGroup ==
  ASSUME NEW f, NEW S, IsFiniteSet(S), \A x \in S : f[x] \in Int,
         NEW G, IsFiniteSet(G), NEW g, \A x \in S : g[x] \in G,
         NEW h, h = [y \in G |-> SumFunctionOnSet(f, {x \in S : g[x] = y})]
  PROVE  SumFunctionOnSet(h, G) = SumFunctionOnSet(f, S)
<1> DEFINE In(s, y) == {x \in s : g[x] = y}
           Grouped(s) == [y \in G |-> SumFunctionOnSet(f, In(s, y))]
           T == {s \in SUBSET S : SumFunctionOnSet(Grouped(s), G) = SumFunctionOnSet(f, s)}
<1>1. ASSUME NEW s \in SUBSET S, \A r \in SUBSET s : r # s => r \in T
      PROVE  s \in T
  <2>1. CASE s = {}
    <3>1. \A y \in G : Grouped(s)[y] = 0
      <4>1. \A y \in G : In(s, y) = {}
        BY <2>1
      <4> QED
        BY <4>1, SumOfNone
    <3>2. SumFunctionOnSet(Grouped(s), G) = 0
      <4> HIDE DEF Grouped
      <4> QED
        BY <3>1, SumOfZeros
    <3>3. SumFunctionOnSet(f, s) = 0
      BY <2>1, SumOfNone
    <3> QED
      BY <3>2, <3>3
  <2>2. CASE s # {}
    <3> DEFINE p == FirstOf(s)
               r == s \ {p}
    <3>1. p \in s /\ p \in S /\ r \in SUBSET s /\ r # s /\ p \notin r
      BY <2>2, FirstIsMember
    <3>2. g[p] \in G /\ f[p] \in Int
      BY <3>1
    <3>3. IsFiniteSet(s) /\ \A y : IsFiniteSet(In(r, y)) /\ IsFiniteSet(In(s, y))
      BY FS_Subset
    <3> HIDE DEF p
    <3>4. \A y \in G \ {g[p]} : In(s, y) = In(r, y)
      OBVIOUS
    <3>5. In(s, g[p]) = In(r, g[p]) \cup {p} /\ p \notin In(r, g[p])
      BY <3>1
    <3>6. \A y \in G : /\ Grouped(s)[y] \in Int /\ Grouped(r)[y] \in Int
                       /\ y # g[p] => Grouped(s)[y] = Grouped(r)[y]
      <4> SUFFICES ASSUME NEW y \in G
                   PROVE  /\ Grouped(s)[y] \in Int /\ Grouped(r)[y] \in Int
                          /\ y # g[p] => Grouped(s)[y] = Grouped(r)[y]
        OBVIOUS
      <4>1. (\A x \in In(s, y) : f[x] \in Int) /\ (\A x \in In(r, y) : f[x] \in Int)
        OBVIOUS
      <4>2. SumFunctionOnSet(f, In(s, y)) \in Int /\ SumFunctionOnSet(f, In(r, y)) \in Int
        <5> HIDE DEF In
        <5> QED
          BY <3>3, <4>1, SumOfIntegers
      <4> QED
        BY <3>4, <4>2
    <3>7. Grouped(s)[g[p]] = Grouped(r)[g[p]] + f[p]
      <4>1. \A x \in In(r, g[p]) : f[x] \in Int
        OBVIOUS
      <4>2. SumFunctionOnSet(f, In(r, g[p]) \cup {p}) = SumFunctionOnSet(f, In(r, g[p])) + f[p]
        <5> HIDE DEF In
        <5> QED
          BY <3>2, <3>3, <3>5, <4>1, SumWith
      <4> QED
        BY <3>2, <3>5, <4>2
    <3>8. SumFunctionOnSet(Grouped(r), G) = SumFunctionOnSet(f, r)
      BY <1>1, <3>1
    <3>9. SumFunctionOnSet(f, s) = SumFunctionOnSet(f, r) + f[p]
      <4>1. \A x \in s : f[x] \in Int
        OBVIOUS
      <4> QED
        BY <3>1, <3>3, <4>1, SumWithout
    <3>10. /\ SumFunctionOnSet(Grouped(s), G)
                = SumFunctionOnSet(Grouped(r), G) - Grouped(r)[g[p]] + Grouped(s)[g[p]]
           /\ SumFunctionOnSet(Grouped(r), G) \in Int
      <4> HIDE DEF Grouped, r
      <4> QED
        BY <3>2, <3>6, SumChanged, SumOfIntegers
    <3>11. Grouped(r)[g[p]] \in Int
      BY <3>2, <3>6
    <3> HIDE DEF Grouped, r
    <3>12. SumFunctionOnSet(Grouped(s), G) = SumFunctionOnSet(f, s)
      BY <3>2, <3>7, <3>8, <3>9, <3>10, <3>11
    <3> QED
      BY <3>12
  <2> QED
    BY <2>1, <2>2
<1> HIDE DEF T
<1>2. SUBSET S \subseteq T
  BY <1>1, SubsetInduction
<1> QED
  BY <1>2 DEF T

=============================================================================
