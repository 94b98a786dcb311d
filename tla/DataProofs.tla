----------------------------- MODULE DataProofs -----------------------------
(***************************************************************************)
(* Proofs about the three components that are data more than control: the  *)
(* names of files (FileNames), the walk through the pages of the voucher   *)
(* list (VoucherPages) and the merges of updates (Merge).                  *)
(*                                                                         *)
(* The first two compute with folds: a name is filtered unit by unit,      *)
(* amounts are added row by row.  The first part proves what may be said   *)
(* of a fold: the subsets of a finite set are well-founded, so the         *)
(* function a fold recurs by exists, and its equation gives what the fold  *)
(* computes.  The part on merges does the same for their recursion over    *)
(* nested objects, which are well-founded by their depth.                  *)
(***************************************************************************)
EXTENDS VoucherPages, FileNames, Merge, SequenceTheorems, FiniteSetTheorems,
        WellFoundedInduction, TLAPS

(* Induction, over the naturals and over the subsets of a finite set. *)

\* A nonempty set of naturals has a least element.
LEMMA NatMin ==
    ASSUME NEW T \in SUBSET Nat, T # {}
    PROVE  \E m \in T : \A k \in T : m <= k
<1> DEFINE Upto == {0..m : m \in T}
<1>1. Upto \subseteq FiniteSubsetsOf(Nat) /\ Upto # {}
  <2>1. \A m \in T : IsFiniteSet(0..m) /\ 0..m \in SUBSET Nat
    BY FS_Interval
  <2> QED BY <2>1 DEF FiniteSubsetsOf
<1>2. PICK x \in Upto : \A y \in Upto : ~(<<y, x>> \in StrictSubsetOrdering(Nat))
  BY <1>1, FS_StrictSubsetOrderingWellFounded, WFMin
<1>3. PICK m \in T : x = 0..m
  OBVIOUS
<1>4. ASSUME NEW k \in T, k < m
      PROVE  FALSE
  <2>1. 0..k \in Upto /\ 0..k \subseteq 0..m /\ m \in 0..m /\ m \notin 0..k
    BY <1>4
  <2>2. <<0..k, 0..m>> \in (SUBSET Nat) \X (SUBSET Nat) /\ 0..k # 0..m
    BY <2>1
  <2>3. <<0..k, 0..m>> \in StrictSubsetOrdering(Nat)
    BY <2>1, <2>2 DEF StrictSubsetOrdering
  <2> QED BY <1>2, <1>3, <2>1, <2>3
<1> QED BY <1>4

\* A nonempty set of parts of a finite set has a minimal one.
LEMMA SubsetMin ==
    ASSUME NEW S, IsFiniteSet(S), NEW TT \in SUBSET SUBSET S, TT # {}
    PROVE  \E m \in TT : \A k \in TT : k \subseteq m => k = m
<1>1. IsWellFoundedOn(StrictSubsetOrdering(S), FiniteSubsetsOf(S))
  BY FS_StrictSubsetOrderingWellFounded
<1>2. FiniteSubsetsOf(S) = SUBSET S
  BY FS_FiniteSubsetsOfFinite
<1>3. \E x \in TT : \A y \in TT : ~(<<y, x>> \in StrictSubsetOrdering(S))
  BY <1>1, <1>2, WFMin
<1> QED BY <1>3 DEF StrictSubsetOrdering

\* Induction over the naturals, for a set instead of a predicate.
LEMMA NatInd ==
    ASSUME NEW P, 0 \in P, \A n \in Nat : n \in P => n + 1 \in P
    PROVE  Nat \subseteq P
<1> SUFFICES ASSUME Nat \ P # {} PROVE FALSE
  OBVIOUS
<1>1. PICK m \in Nat \ P : \A k \in Nat \ P : m <= k
  BY NatMin
<1>2. m # 0 /\ m - 1 \in Nat
  BY <1>1
<1>3. m - 1 \in P
  BY <1>1, <1>2
<1> QED BY <1>1, <1>2, <1>3

\* Induction over the subsets of a finite set, one element at a time.
LEMMA SubsetInd ==
    ASSUME NEW S, IsFiniteSet(S), NEW P, {} \in P,
           \A s \in SUBSET S : \A x \in s : s \ {x} \in P => s \in P
    PROVE  SUBSET S \subseteq P
<1> DEFINE Bad == (SUBSET S) \ P
<1> SUFFICES ASSUME Bad # {} PROVE FALSE
  OBVIOUS
<1>1. Bad \in SUBSET SUBSET S
  OBVIOUS
<1>2. PICK m \in Bad : \A k \in Bad : k \subseteq m => k = m
  <2> HIDE DEF Bad
  <2> QED BY <1>1, SubsetMin
<1>3. PICK x \in m : TRUE
  OBVIOUS
<1>4. m \ {x} \in P
  BY <1>2, <1>3
<1> QED BY <1>4

\* The largest of a nonempty set of naturals up to n.
LEMMA MaxUpTo ==
    ASSUME NEW n \in Nat, NEW s \in SUBSET (0..n), s # {}
    PROVE  Max(s) \in s /\ \A x \in s : x <= Max(s)
<1> DEFINE T == {u \in Nat : \A x \in s : x <= u}
<1>1. PICK m \in T : \A u \in T : m <= u
  <2>1. n \in T /\ T \in SUBSET Nat
    OBVIOUS
  <2> HIDE DEF T
  <2> QED BY <2>1, NatMin
<1>2. m \in s
  <2> SUFFICES ASSUME m \notin s PROVE FALSE
    OBVIOUS
  <2>1. m - 1 \in T
    <3>1. \A x \in s : x \in Nat /\ x <= m /\ x # m /\ x >= 0
      BY <1>1
    <3>2. m \in Nat /\ m - 1 \in Nat
      <4>1. PICK x \in s : TRUE
        OBVIOUS
      <4>2. m \in Nat /\ m > 0
        BY <1>1, <3>1, <4>1
      <4> QED BY <4>2
    <3> QED BY <3>1, <3>2
  <2>2. m \in Nat
    BY <1>1
  <2> HIDE DEF T
  <2> QED BY <1>1, <2>1, <2>2
<1>3. \A x \in s : m >= x
  BY <1>1
<1>4. \E y \in s : \A x \in s : y >= x
  BY <1>2, <1>3
<1>5. Max(s) \in s /\ \A x \in s : Max(s) >= x
  BY <1>4 DEF Max
<1> QED BY <1>5

\* The same for a set of numbers from 1 to n.
LEMMA MaxIn ==
    ASSUME NEW n \in Nat, NEW s \in SUBSET (1..n), s # {}
    PROVE  Max(s) \in s /\ \A x \in s : x <= Max(s)
<1>1. s \in SUBSET (0..n)
  OBVIOUS
<1> QED BY <1>1, MaxUpTo

\* The numbers from 1 to i, without the last.
LEMMA MaxOfRange ==
    ASSUME NEW i \in Nat, i > 0
    PROVE  Max(1..i) = i /\ (1..i) \ {i} = 1..(i - 1)
<1>1. /\ (1..i) \in SUBSET (1..i) /\ (1..i) # {} /\ i \in 1..i
      /\ (1..i) \ {i} = 1..(i - 1)
  OBVIOUS
<1>2. Max(1..i) \in 1..i /\ i <= Max(1..i)
  BY <1>1, MaxIn
<1> QED BY <1>1, <1>2

\* Min is the least element of a nonempty set of naturals.
LEMMA MinOf ==
    ASSUME NEW s \in SUBSET Nat, s # {}
    PROVE  Min(s) \in s /\ \A x \in s : Min(s) <= x
<1>1. \E y \in s : \A x \in s : y <= x
  BY NatMin
<1> QED BY <1>1 DEF Min

\* The least element of a set is its Min.
LEMMA MinIs ==
    ASSUME NEW s \in SUBSET Nat, NEW x \in s, \A y \in s : x <= y
    PROVE  Min(s) = x
<1>1. Min(s) \in s /\ \A y \in s : Min(s) <= y
  BY MinOf
<1>2. Min(s) <= x /\ x <= Min(s) /\ x \in Nat /\ Min(s) \in Nat
  BY <1>1
<1> QED BY <1>2

-----------------------------------------------------------------------------

(* Recursion: a function on the subsets of a finite set may be defined by taking *)
(* one element at a time, as the folds of the community modules do.          *)

\* c picks an element of every nonempty part of S, step stays in V, and g
\* computes by step, from base, taking out the element picked.
Picks(S, c) == \A s \in SUBSET S : s # {} => c[s] \in s
StaysIn(S, V, step) == \A s \in SUBSET S, v \in V : s # {} => step[<<s, v>>] \in V
Computes(g, S, base, step, c) ==
    \A s \in SUBSET S : g[s] = IF s = {} THEN base ELSE step[<<s, g[s \ {c[s]}]>>]

\* There is a function that computes by step.
LEMMA Recursion ==
    ASSUME NEW S, IsFiniteSet(S), NEW V, NEW base \in V, NEW step, NEW c,
           Picks(S, c), StaysIn(S, V, step)
    PROVE  \E g \in [SUBSET S -> V] : Computes(g, S, base, step, c)
<1> USE DEF Picks, StaysIn, Computes
<1> DEFINE Small(n) == {s \in SUBSET S : Cardinality(s) <= n}
           Rec(g, s) == IF s = {} THEN base ELSE step[<<s, g[s \ {c[s]}]>>]
           P == {n \in Nat : \E g \in [Small(n) -> V] : \A s \in Small(n) : g[s] = Rec(g, s)}
<1>0. \A s \in SUBSET S : IsFiniteSet(s) /\ Cardinality(s) \in Nat /\ (Cardinality(s) = 0 <=> s = {})
  BY FS_Subset, FS_CardinalityType, FS_EmptySet
<1>1. 0 \in P
  <2> DEFINE g == [s \in Small(0) |-> base]
  <2>1. g \in [Small(0) -> V]
    OBVIOUS
  <2>2. \A s \in Small(0) : g[s] = Rec(g, s)
    BY <1>0
  <2> QED BY <2>1, <2>2
<1>2. ASSUME NEW n \in Nat, n \in P
      PROVE  n + 1 \in P
  <2>1. PICK h \in [Small(n) -> V] : \A s \in Small(n) : h[s] = Rec(h, s)
    BY <1>2
  <2>2. \A s \in Small(n + 1) : s # {} => s \ {c[s]} \in Small(n)
    BY <1>0, FS_RemoveElement
  <2>3. Small(n) \subseteq Small(n + 1)
    BY <1>0
  <2> HIDE DEF Small
  <2> DEFINE g == [s \in Small(n + 1) |-> Rec(h, s)]
  <2>4. \A s \in Small(n) : g[s] = h[s]
    BY <2>1, <2>3
  <2>5. g \in [Small(n + 1) -> V]
    <3>1. \A s \in Small(n + 1) : s \in SUBSET S
      BY DEF Small
    <3> QED BY <2>2, <3>1
  <2>6. \A s \in Small(n + 1) : g[s] = Rec(g, s)
    BY <2>2, <2>4
  <2> HIDE DEF g
  <2> QED BY <2>5, <2>6
<1> HIDE DEF P
<1>3. Cardinality(S) \in P
  BY <1>0, <1>1, <1>2, NatInd
<1>4. Small(Cardinality(S)) = SUBSET S
  BY FS_Subset, FS_CardinalityType
<1> QED BY <1>3, <1>4 DEF P

-----------------------------------------------------------------------------

(* Sums of integers over finite sets. *)

\* it is the function that a sum of f over S is computed by.
Sums(f, S, it) ==
    it = [s \in SUBSET S |-> IF s = {} THEN 0
                             ELSE f[CHOOSE x \in s : TRUE] + it[s \ {CHOOSE x \in s : TRUE}]]

\* There is one.
LEMMA SumsExist ==
    ASSUME NEW S, IsFiniteSet(S), NEW f, \A x \in S : f[x] \in Int
    PROVE  \E it : Sums(f, S, it)
<1> DEFINE c == [s \in SUBSET S |-> CHOOSE x \in s : TRUE]
           step == [p \in (SUBSET S) \X Int |-> f[c[p[1]]] + p[2]]
<1>1. \A s \in SUBSET S : c[s] = (CHOOSE x \in s : TRUE) /\ (s # {} => c[s] \in s)
  OBVIOUS
<1>2. ASSUME NEW s \in SUBSET S, NEW v \in Int, s # {}
      PROVE  step[<<s, v>>] = f[c[s]] + v /\ step[<<s, v>>] \in Int
  <2>1. <<s, v>> \in (SUBSET S) \X Int /\ <<s, v>>[1] = s /\ <<s, v>>[2] = v
    OBVIOUS
  <2>2. step[<<s, v>>] = f[c[s]] + v
    BY <2>1
  <2>3. f[c[s]] \in Int
    BY <1>1, <1>2
  <2> QED BY <2>2, <2>3
<1> HIDE DEF c, step
<1>3. PICK g \in [SUBSET S -> Int] : Computes(g, S, 0, step, c)
  <2>1. Picks(S, c) /\ StaysIn(S, Int, step) /\ 0 \in Int
    BY <1>1, <1>2 DEF Picks, StaysIn
  <2> QED BY <2>1, Recursion
<1>4. ASSUME NEW s \in SUBSET S, s # {}
      PROVE  g[s] = f[CHOOSE x \in s : TRUE] + g[s \ {CHOOSE x \in s : TRUE}]
  <2>1. s \ {c[s]} \in SUBSET S /\ g[s \ {c[s]}] \in Int
    OBVIOUS
  <2>2. g[s] = f[c[s]] + g[s \ {c[s]}]
    BY <1>2, <1>3, <1>4, <2>1 DEF Computes
  <2> QED BY <2>2, <1>1
<1>5. g[{}] = 0 /\ {} \in SUBSET S
  BY <1>3 DEF Computes
<1>6. g = [s \in SUBSET S |-> IF s = {} THEN 0
                             ELSE f[CHOOSE x \in s : TRUE] + g[s \ {CHOOSE x \in s : TRUE}]]
  BY <1>4, <1>5
<1> QED BY <1>6 DEF Sums

\* It is the same function on any part of S.
LEMMA SumsAgree ==
    ASSUME NEW S, IsFiniteSet(S), NEW f, NEW T \in SUBSET S, NEW h, NEW k,
           Sums(f, S, h), Sums(f, T, k)
    PROVE  \A s \in SUBSET T : h[s] = k[s]
<1> DEFINE Bad == {s \in SUBSET T : h[s] # k[s]}
<1> SUFFICES ASSUME Bad # {} PROVE FALSE
  OBVIOUS
<1>1. PICK m \in Bad : \A s \in Bad : s \subseteq m => s = m
  <2>1. IsFiniteSet(T) /\ Bad \in SUBSET SUBSET T
    BY FS_Subset
  <2> HIDE DEF Bad
  <2> QED BY <2>1, SubsetMin
<1>2. m \in SUBSET S /\ m \in SUBSET T
  OBVIOUS
<1>3. CASE m = {}
  BY <1>1, <1>2, <1>3 DEF Sums
<1>4. CASE m # {}
  <2> DEFINE y == CHOOSE x \in m : TRUE
  <2>1. y \in m
    BY <1>4
  <2> HIDE DEF y
  <2>2. m \ {y} \in SUBSET T /\ m \ {y} \notin Bad
    BY <1>1, <2>1
  <2>3. h[m] = f[y] + h[m \ {y}] /\ k[m] = f[y] + k[m \ {y}]
    BY <1>2, <1>4 DEF Sums, y
  <2> QED BY <1>1, <2>2, <2>3
<1> QED BY <1>3, <1>4

\* A sum of integers is one, and any element can be taken out of it.
LEMMA SumParts ==
    ASSUME NEW S, IsFiniteSet(S), NEW f, \A x \in S : f[x] \in Int
    PROVE  /\ SumFunctionOnSet(f, S) \in Int
           /\ S = {} => SumFunctionOnSet(f, S) = 0
           /\ \A x \in S : SumFunctionOnSet(f, S) = f[x] + SumFunctionOnSet(f, S \ {x})
<1> DEFINE the(s) == CHOOSE h : Sums(f, s, h)
           it == the(S)
           Good == {s \in SUBSET S : /\ it[s] \in Int
                                     /\ \A x \in s : it[s] = f[x] + it[s \ {x}]}
<1>1. \A s \in SUBSET S : Sums(f, s, the(s)) /\ SumFunctionOnSet(f, s) = the(s)[s]
  <2> TAKE s \in SUBSET S
  <2>1. \E h : Sums(f, s, h)
    BY SumsExist, FS_Subset
  <2>2. Sums(f, s, the(s))
    BY <2>1
  <2>3. SumFunctionOnSet(f, s) = the(s)[s]
    BY DEF SumFunctionOnSet, FoldFunctionOnSet, MapThenFoldSet, Sums
  <2> QED BY <2>2, <2>3
<1> HIDE DEF the
<1>2. /\ it[{}] = 0
      /\ \A s \in SUBSET S : s # {} => \E y \in s : it[s] = f[y] + it[s \ {y}]
  <2>1. Sums(f, S, it)
    BY <1>1
  <2> QED BY <2>1 DEF Sums
<1>3. SUBSET S \subseteq Good
  <2> SUFFICES ASSUME (SUBSET S) \ Good # {} PROVE FALSE
    OBVIOUS
  <2> HIDE DEF Good
  <2>1. PICK m \in (SUBSET S) \ Good : \A k \in (SUBSET S) \ Good : k \subseteq m => k = m
    <3> DEFINE Bad == (SUBSET S) \ Good
    <3>1. Bad \in SUBSET SUBSET S /\ Bad # {}
      OBVIOUS
    <3> HIDE DEF Bad
    <3>2. \E m \in Bad : \A k \in Bad : k \subseteq m => k = m
      BY <3>1, SubsetMin
    <3> QED BY <3>2 DEF Bad
  <2>2. \A x \in m : m \ {x} \in Good
    BY <2>1
  <2>3. CASE m = {}
    BY <1>2, <2>1, <2>3 DEF Good
  <2>4. CASE m # {}
    <3>1. PICK y \in m : it[m] = f[y] + it[m \ {y}]
      BY <1>2, <2>4
    <3>2. it[m \ {y}] \in Int /\ f[y] \in Int
      BY <2>2 DEF Good
    <3>3. ASSUME NEW x \in m
          PROVE  it[m] = f[x] + it[m \ {x}]
      <4>1. CASE x = y
        BY <3>1, <4>1
      <4>2. CASE x # y
        <5>1. x \in m \ {y} /\ y \in m \ {x} /\ (m \ {x}) \ {y} = (m \ {y}) \ {x}
          BY <4>2
        <5>2. it[m \ {y}] = f[x] + it[(m \ {y}) \ {x}]
          BY <2>2, <5>1 DEF Good
        <5>3. it[m \ {x}] = f[y] + it[(m \ {x}) \ {y}]
          BY <2>2, <5>1 DEF Good
        <5>4. (m \ {y}) \ {x} \in Good /\ f[x] \in Int /\ f[y] \in Int
          <6>1. (m \ {y}) \ {x} \subseteq m /\ (m \ {y}) \ {x} # m
            BY <3>1
          <6> QED BY <2>1, <6>1
        <5>5. it[(m \ {y}) \ {x}] \in Int
          BY <5>4 DEF Good
        <5>6. it[(m \ {x}) \ {y}] = it[(m \ {y}) \ {x}]
          BY <5>1
        <5> HIDE DEF it
        <5> QED BY <3>1, <5>2, <5>3, <5>4, <5>5, <5>6
      <4> QED BY <4>1, <4>2
    <3>4. it[m] \in Int
      BY <3>1, <3>2
    <3> QED BY <2>1, <3>3, <3>4 DEF Good
  <2> QED BY <2>3, <2>4
<1>4. ASSUME NEW x \in S
      PROVE  it[S \ {x}] = SumFunctionOnSet(f, S \ {x})
  <2>1. S \ {x} \in SUBSET S /\ S \in SUBSET S
    OBVIOUS
  <2>2. Sums(f, S, it) /\ Sums(f, S \ {x}, the(S \ {x}))
    BY <1>1, <2>1
  <2>3. it[S \ {x}] = the(S \ {x})[S \ {x}]
    BY <2>1, <2>2, SumsAgree
  <2> QED BY <1>1, <2>1, <2>3
<1>5. it[S] = SumFunctionOnSet(f, S) /\ S \in Good
  BY <1>1, <1>3
<1> QED BY <1>2, <1>4, <1>5

\* A sum of naturals is one.
LEMMA SumNat ==
    ASSUME NEW S, IsFiniteSet(S), NEW f, \A x \in S : f[x] \in Nat
    PROVE  SumFunctionOnSet(f, S) \in Nat
<1> DEFINE P == {s \in SUBSET S : SumFunctionOnSet(f, s) \in Nat}
<1>1. {} \in P
  <2>1. SumFunctionOnSet(f, {}) = 0
    BY SumParts, FS_EmptySet
  <2> QED BY <2>1
<1>2. ASSUME NEW s \in SUBSET S, NEW x \in s, s \ {x} \in P
      PROVE  s \in P
  <2>1. IsFiniteSet(s) /\ \A y \in s : f[y] \in Int
    BY FS_Subset
  <2>2. SumFunctionOnSet(f, s) = f[x] + SumFunctionOnSet(f, s \ {x})
    BY <2>1, SumParts
  <2>3. f[x] \in Nat
    OBVIOUS
  <2> QED BY <1>2, <2>2, <2>3
<1> HIDE DEF P
<1>3. SUBSET S \subseteq P
  BY <1>1, <1>2, SubsetInd
<1> QED BY <1>3 DEF P

\* A sum looks at its function on its set only.
LEMMA SumsEqual ==
    ASSUME NEW S, IsFiniteSet(S), NEW f, NEW h,
           \A x \in S : f[x] \in Int /\ h[x] = f[x]
    PROVE  SumFunctionOnSet(h, S) = SumFunctionOnSet(f, S)
<1> DEFINE P == {s \in SUBSET S : SumFunctionOnSet(h, s) = SumFunctionOnSet(f, s)}
<1>1. {} \in P
  BY SumParts, FS_EmptySet
<1>2. ASSUME NEW s \in SUBSET S, NEW x \in s, s \ {x} \in P
      PROVE  s \in P
  <2>1. IsFiniteSet(s) /\ \A y \in s : f[y] \in Int /\ h[y] \in Int
    BY FS_Subset
  <2>2. SumFunctionOnSet(h, s) = h[x] + SumFunctionOnSet(h, s \ {x})
    BY <2>1, SumParts
  <2>3. SumFunctionOnSet(f, s) = f[x] + SumFunctionOnSet(f, s \ {x})
    BY <2>1, SumParts
  <2> QED BY <1>2, <2>2, <2>3
<1> HIDE DEF P
<1>3. SUBSET S \subseteq P
  BY <1>1, <1>2, SubsetInd
<1> QED BY <1>3 DEF P

\* The sum of a sum of two functions.
LEMMA SumsAdd ==
    ASSUME NEW S, IsFiniteSet(S), NEW f, NEW d, NEW h,
           \A x \in S : f[x] \in Int /\ d[x] \in Int /\ h[x] = f[x] + d[x]
    PROVE  SumFunctionOnSet(h, S) = SumFunctionOnSet(f, S) + SumFunctionOnSet(d, S)
<1> DEFINE P == {s \in SUBSET S : SumFunctionOnSet(h, s)
                                    = SumFunctionOnSet(f, s) + SumFunctionOnSet(d, s)}
<1>1. {} \in P
  BY SumParts, FS_EmptySet
<1>2. ASSUME NEW s \in SUBSET S, NEW x \in s, s \ {x} \in P
      PROVE  s \in P
  <2>1. /\ IsFiniteSet(s) /\ IsFiniteSet(s \ {x})
        /\ \A y \in s : f[y] \in Int /\ d[y] \in Int /\ h[y] \in Int /\ h[y] = f[y] + d[y]
    BY FS_Subset
  <2>2. SumFunctionOnSet(h, s) = h[x] + SumFunctionOnSet(h, s \ {x})
    BY <2>1, SumParts
  <2>3. SumFunctionOnSet(f, s) = f[x] + SumFunctionOnSet(f, s \ {x})
    BY <2>1, SumParts
  <2>4. SumFunctionOnSet(d, s) = d[x] + SumFunctionOnSet(d, s \ {x})
    BY <2>1, SumParts
  <2>5. /\ SumFunctionOnSet(f, s \ {x}) \in Int /\ SumFunctionOnSet(d, s \ {x}) \in Int
    BY <2>1, SumParts
  <2> QED BY <1>2, <2>1, <2>2, <2>3, <2>4, <2>5
<1> HIDE DEF P
<1>3. SUBSET S \subseteq P
  BY <1>1, <1>2, SubsetInd
<1> QED BY <1>3 DEF P

\* Counting: the sum of 1 over the elements of A.
LEMMA SumCounts ==
    ASSUME NEW S, IsFiniteSet(S), NEW A, NEW d,
           \A x \in S : d[x] = IF x \in A THEN 1 ELSE 0
    PROVE  SumFunctionOnSet(d, S) = Cardinality(S \cap A)
<1> DEFINE P == {s \in SUBSET S : SumFunctionOnSet(d, s) = Cardinality(s \cap A)}
<1>1. {} \in P
  <2>1. {} \cap A = {}
    OBVIOUS
  <2>2. Cardinality({} \cap A) = 0
    BY <2>1, FS_EmptySet
  <2>3. SumFunctionOnSet(d, {}) = 0
    BY SumParts, FS_EmptySet
  <2> QED BY <2>2, <2>3
<1>2. ASSUME NEW s \in SUBSET S, NEW x \in s, s \ {x} \in P
      PROVE  s \in P
  <2>1. IsFiniteSet(s) /\ IsFiniteSet(s \cap A) /\ \A y \in s : d[y] \in Int
    BY FS_Subset
  <2>2. SumFunctionOnSet(d, s) = d[x] + SumFunctionOnSet(d, s \ {x})
    BY <2>1, SumParts
  <2>3. Cardinality(s \cap A) \in Int
    BY <2>1, FS_CardinalityType
  <2>4. CASE x \in A
    <3>1. (s \ {x}) \cap A = (s \cap A) \ {x} /\ x \in s \cap A
      BY <2>4
    <3>2. Cardinality((s \cap A) \ {x}) = Cardinality(s \cap A) - 1
      BY <2>1, <3>1, FS_RemoveElement
    <3>3. d[x] = 1 /\ SumFunctionOnSet(d, s \ {x}) = Cardinality(s \cap A) - 1
      BY <1>2, <2>4, <3>1, <3>2
    <3>4. SumFunctionOnSet(d, s) = 1 + (Cardinality(s \cap A) - 1)
      BY <2>2, <3>3
    <3> QED BY <2>3, <3>4
  <2>5. CASE x \notin A
    <3>1. (s \ {x}) \cap A = s \cap A
      BY <2>5
    <3>2. d[x] = 0 /\ SumFunctionOnSet(d, s \ {x}) = Cardinality(s \cap A)
      BY <1>2, <2>5, <3>1
    <3>3. SumFunctionOnSet(d, s) = 0 + Cardinality(s \cap A)
      BY <2>2, <3>2
    <3> QED BY <2>3, <3>3
  <2> QED BY <2>4, <2>5
<1> HIDE DEF P
<1>3. SUBSET S \subseteq P
  BY <1>1, <1>2, SubsetInd
<1> QED BY <1>3 DEF P

\* Changing the function in one place.
Bumped(h, f, S, x, v) == \A y \in S : f[y] \in Int /\ h[y] = IF y = x THEN f[y] + v ELSE f[y]

\* One number of a sum is larger by v: so is the sum.
LEMMA SumBump ==
    ASSUME NEW S, IsFiniteSet(S), NEW f, NEW h, NEW x, NEW v \in Int, Bumped(h, f, S, x, v)
    PROVE  SumFunctionOnSet(h, S) = SumFunctionOnSet(f, S) + (IF x \in S THEN v ELSE 0)
<1> USE DEF Bumped
<1>0. IsFiniteSet(S \ {x}) /\ SumFunctionOnSet(f, S) \in Int
  BY FS_Subset, SumParts
<1>1. SumFunctionOnSet(h, S \ {x}) = SumFunctionOnSet(f, S \ {x})
  BY <1>0, SumsEqual
<1>2. CASE x \in S
  <2>1. SumFunctionOnSet(f, S) = f[x] + SumFunctionOnSet(f, S \ {x})
    BY <1>2, SumParts
  <2>2. SumFunctionOnSet(h, S) = h[x] + SumFunctionOnSet(h, S \ {x})
    <3>1. \A y \in S : h[y] \in Int
      OBVIOUS
    <3> QED BY <1>2, <3>1, SumParts
  <2>3. SumFunctionOnSet(f, S \ {x}) \in Int /\ f[x] \in Int /\ h[x] = f[x] + v
    BY <1>0, <1>2, SumParts
  <2> QED BY <1>1, <1>2, <2>1, <2>2, <2>3
<1>3. CASE x \notin S
  <2>1. S \ {x} = S
    BY <1>3
  <2> QED BY <1>0, <1>1, <1>3, <2>1
<1> QED BY <1>2, <1>3

-----------------------------------------------------------------------------

(* Names: Without, unit by unit. *)

\* It is the function that Without(name, kinds) is computed by.
Keeps(it, name, kinds) ==
    it = [s \in SUBSET DOMAIN name |->
             IF s = {} THEN <<>>
             ELSE IF name[Max(s)] \in kinds THEN it[s \ {Max(s)}]
                  ELSE Append(it[s \ {Max(s)}], name[Max(s)])]

\* There is one.
LEMMA KeepsExist ==
    ASSUME NEW name \in Seq(Kinds), NEW kinds
    PROVE  \E it : Keeps(it, name, kinds)
<1> DEFINE S == DOMAIN name
           V == Seq(Kinds)
           one(v, u) == IF u \in kinds THEN v ELSE Append(v, u)
           c == [s \in SUBSET S |-> Max(s)]
           step == [p \in (SUBSET S) \X V |-> one(p[2], name[c[p[1]]])]
<1>1. S = 1..Len(name) /\ Len(name) \in Nat /\ IsFiniteSet(S) /\ \A i \in S : name[i] \in Kinds
  BY FS_Interval
<1> HIDE DEF S
<1>2. ASSUME NEW s \in SUBSET S, s # {}
      PROVE  c[s] = Max(s) /\ Max(s) \in s /\ name[Max(s)] \in Kinds
  <2>1. Max(s) \in s
    BY <1>1, <1>2, MaxIn
  <2> QED BY <1>1, <2>1
<1> HIDE DEF c
<1>3. ASSUME NEW s \in SUBSET S, NEW v \in V, s # {}
      PROVE  step[<<s, v>>] = one(v, name[Max(s)]) /\ step[<<s, v>>] \in V
  <2>1. <<s, v>> \in (SUBSET S) \X V /\ <<s, v>>[1] = s /\ <<s, v>>[2] = v
    OBVIOUS
  <2>2. step[<<s, v>>] = one(v, name[c[s]])
    BY <2>1
  <2>3. one(v, name[Max(s)]) \in V
    BY <1>2, <1>3
  <2> HIDE DEF step, one
  <2> QED BY <1>2, <1>3, <2>2, <2>3
<1> HIDE DEF step, V
<1>4. PICK it \in [SUBSET S -> V] : Computes(it, S, <<>>, step, c)
  <2>1. Picks(S, c) /\ StaysIn(S, V, step) /\ <<>> \in V
    BY <1>2, <1>3 DEF Picks, StaysIn, V
  <2> QED BY <1>1, <2>1, Recursion
<1>5. ASSUME NEW s \in SUBSET S, s # {}
      PROVE  it[s] = one(it[s \ {Max(s)}], name[Max(s)])
  <2>1. s \ {Max(s)} \in SUBSET S /\ it[s \ {Max(s)}] \in V
    OBVIOUS
  <2>2. it[s] = step[<<s, it[s \ {Max(s)}]>>]
    BY <1>2, <1>4, <1>5 DEF Computes
  <2> HIDE DEF one
  <2> QED BY <1>3, <1>5, <2>1, <2>2
<1>6. it[{}] = <<>>
  BY <1>4 DEF Computes
<1>7. it = [s \in SUBSET S |-> IF s = {} THEN <<>> ELSE one(it[s \ {Max(s)}], name[Max(s)])]
  <2> HIDE DEF one
  <2> QED BY <1>5, <1>6
<1>8. Keeps(it, name, kinds)
  BY <1>7 DEF Keeps, S
<1> QED BY <1>8

\* Without, unit by unit: h[i] is what is left of the first i.
Filters(h, name, kinds) ==
    /\ h[0] = <<>>
    /\ \A i \in 1..Len(name) :
          h[i] = IF name[i] \in kinds THEN h[i - 1] ELSE Append(h[i - 1], name[i])

\* It gives what Without(name, kinds) is.
LEMMA WithoutRuns ==
    ASSUME NEW name \in Seq(Kinds), NEW kinds
    PROVE  \E h : Filters(h, name, kinds) /\ h[Len(name)] = Without(name, kinds)
<1> DEFINE n == Len(name)
           it == CHOOSE f : Keeps(f, name, kinds)
           h == [i \in 0..n |-> it[1..i]]
<1>1. n \in Nat /\ DOMAIN name = 1..n
  OBVIOUS
<1>2. Keeps(it, name, kinds)
  BY KeepsExist
<1>3. Without(name, kinds) = it[DOMAIN name]
  BY DEF Without, FoldLeft, MapThenFoldSet, Keeps
<1> HIDE DEF it, n
<1>4. h[0] = <<>>
  <2>1. 1..0 = {} /\ 0 \in 0..n
    BY <1>1
  <2> QED BY <1>2, <2>1 DEF Keeps
<1>5. ASSUME NEW i \in 1..n
      PROVE  h[i] = IF name[i] \in kinds THEN h[i - 1] ELSE Append(h[i - 1], name[i])
  <2>1. i \in 0..n /\ i - 1 \in 0..n /\ 1..i \in SUBSET (1..n) /\ i \in 1..i /\ i > 0 /\ i \in Nat
    BY <1>1
  <2>2. Max(1..i) = i /\ (1..i) \ {i} = 1..(i - 1)
    BY <2>1, MaxOfRange
  <2>3. it[1..i] = IF name[i] \in kinds THEN it[1..(i - 1)] ELSE Append(it[1..(i - 1)], name[i])
    <3>1. 1..i \in SUBSET DOMAIN name /\ 1..i # {}
      BY <1>1, <2>1
    <3> QED BY <1>2, <2>2, <3>1 DEF Keeps
  <2> QED BY <2>1, <2>3
<1>6. h[n] = Without(name, kinds)
  BY <1>1, <1>3
<1> HIDE DEF h
<1> QED BY <1>4, <1>5, <1>6 DEF n, Filters

\* One unit more is one unit more of what is left, unless it is of those kinds.
LEMMA WithoutAppend ==
    ASSUME NEW name \in Seq(Kinds), NEW u \in Kinds, NEW kinds
    PROVE  Without(Append(name, u), kinds)
             = IF u \in kinds THEN Without(name, kinds) ELSE Append(Without(name, kinds), u)
<1> DEFINE n == Len(name)
           more == Append(name, u)
<1>1. /\ n \in Nat /\ more \in Seq(Kinds) /\ Len(more) = n + 1 /\ more[n + 1] = u
      /\ \A i \in 1..n : more[i] = name[i]
  OBVIOUS
<1>2. PICK h : Filters(h, name, kinds) /\ h[n] = Without(name, kinds)
  BY WithoutRuns
<1>3. PICK k : Filters(k, more, kinds) /\ k[n + 1] = Without(more, kinds)
  BY <1>1, WithoutRuns
<1>a. /\ h[0] = <<>>
      /\ \A i \in 1..n : h[i] = IF name[i] \in kinds THEN h[i - 1] ELSE Append(h[i - 1], name[i])
      /\ k[0] = <<>>
      /\ \A i \in 1..(n + 1) : k[i] = IF more[i] \in kinds THEN k[i - 1] ELSE Append(k[i - 1], more[i])
  BY <1>1, <1>2, <1>3 DEF Filters
<1> HIDE DEF n, more
<1> DEFINE P == {i \in Nat : i <= n => h[i] = k[i]}
<1>4. 0 \in P
  BY <1>a
<1>5. ASSUME NEW i \in Nat, i \in P
      PROVE  i + 1 \in P
  <2> SUFFICES ASSUME i + 1 <= n PROVE h[i + 1] = k[i + 1]
    OBVIOUS
  <2>1. i + 1 \in 1..n /\ i + 1 \in 1..(n + 1) /\ (i + 1) - 1 = i /\ h[i] = k[i]
    BY <1>1, <1>5
  <2>2. h[i + 1] = IF name[i + 1] \in kinds THEN h[i] ELSE Append(h[i], name[i + 1])
    BY <1>a, <2>1
  <2>3. k[i + 1] = IF more[i + 1] \in kinds THEN k[i] ELSE Append(k[i], more[i + 1])
    BY <1>a, <2>1
  <2>4. more[i + 1] = name[i + 1]
    BY <1>1, <2>1
  <2> QED BY <2>1, <2>2, <2>3, <2>4
<1> HIDE DEF P
<1>6. Nat \subseteq P
  BY <1>4, <1>5, NatInd
<1>7. h[n] = k[n]
  BY <1>1, <1>6 DEF P
<1>8. n + 1 \in 1..(n + 1) /\ (n + 1) - 1 = n
  BY <1>1
<1>9. k[n + 1] = IF u \in kinds THEN k[n] ELSE Append(k[n], u)
  BY <1>1, <1>8, <1>a
<1> QED BY <1>2, <1>3, <1>7, <1>9 DEF more

\* Nothing is left of nothing.
LEMMA WithoutNothing == \A kinds : Without(<<>>, kinds) = <<>>
<1> TAKE kinds
<1>1. <<>> \in Seq(Kinds) /\ Len(<<>>) = 0
  OBVIOUS
<1>2. PICK h : Filters(h, <<>>, kinds) /\ h[Len(<<>>)] = Without(<<>>, kinds)
  BY <1>1, WithoutRuns
<1> QED BY <1>1, <1>2 DEF Filters

\* Induction over the beginnings of a name.
Begin(name, i) == SubSeq(name, 1, i)

\* A name begins with nothing and grows by a unit at a time.
LEMMA Begins ==
    ASSUME NEW name \in Seq(Kinds)
    PROVE  /\ Begin(name, 0) = <<>> /\ Begin(name, Len(name)) = name
           /\ \A i \in 0..Len(name) : Begin(name, i) \in Seq(Kinds) /\ Len(Begin(name, i)) = i
           /\ \A i \in 0..(Len(name) - 1) : Begin(name, i + 1) = Append(Begin(name, i), name[i + 1])
<1>1. Begin(name, 0) = <<>> /\ Begin(name, Len(name)) = name
  BY DEF Begin
<1>2. \A i \in 0..Len(name) : Begin(name, i) \in Seq(Kinds) /\ Len(Begin(name, i)) = i
  BY DEF Begin
<1>3. ASSUME NEW i \in 0..(Len(name) - 1)
      PROVE  Begin(name, i + 1) = Append(Begin(name, i), name[i + 1])
  <2>1. i + 1 \in 1..Len(name) /\ Len(name) \in Nat
    OBVIOUS
  <2> DEFINE a == Begin(name, i + 1)
             b == Append(Begin(name, i), name[i + 1])
  <2>2. a \in Seq(Kinds) /\ b \in Seq(Kinds) /\ Len(a) = i + 1 /\ Len(b) = i + 1
    <3>1. a \in Seq(Kinds) /\ Len(a) = i + 1
      <4>1. i + 1 \in 0..Len(name)
        BY <2>1
      <4> QED BY <1>2, <4>1
    <3>2. Begin(name, i) \in Seq(Kinds) /\ Len(Begin(name, i)) = i /\ name[i + 1] \in Kinds
      <4>1. i \in 0..Len(name)
        BY <2>1
      <4> QED BY <1>2, <2>1, <4>1
    <3> QED BY <3>1, <3>2
  <2>3. ASSUME NEW j \in 1..(i + 1)
        PROVE  a[j] = b[j]
    <3>1. CASE j = i + 1
      BY <2>1, <3>1 DEF Begin
    <3>2. CASE j # i + 1
      BY <2>1, <3>2 DEF Begin
    <3> QED BY <3>1, <3>2
  <2> QED BY <2>2, <2>3
<1> QED BY <1>1, <1>2, <1>3

\* Induction over the beginnings of a name.
LEMMA NameInd ==
    ASSUME NEW name \in Seq(Kinds), NEW P, <<>> \in P,
           \A i \in 0..(Len(name) - 1) :
              Begin(name, i) \in P => Append(Begin(name, i), name[i + 1]) \in P
    PROVE  name \in P
<1> DEFINE Q == {i \in Nat : i <= Len(name) => Begin(name, i) \in P}
<1>1. 0 \in Q
  BY Begins
<1>2. ASSUME NEW i \in Nat, i \in Q
      PROVE  i + 1 \in Q
  <2> SUFFICES ASSUME i + 1 <= Len(name) PROVE Begin(name, i + 1) \in P
    OBVIOUS
  <2>1. i \in 0..(Len(name) - 1) /\ Begin(name, i) \in P
    BY <1>2
  <2> QED BY <2>1, Begins
<1> HIDE DEF Q
<1>3. Nat \subseteq Q
  BY <1>1, <1>2, NatInd
<1>4. Len(name) \in Nat /\ Begin(name, Len(name)) = name
  BY Begins
<1> QED BY <1>3, <1>4 DEF Q

\* What v is when it is name without its units of some kinds.
Part(v, name, kinds) ==
    /\ v \in Seq(Kinds) /\ Len(v) <= Len(name)
    /\ \A i \in DOMAIN v : v[i] \notin kinds /\ \E j \in DOMAIN name : v[i] = name[j]

\* A part of a name stays one as both grow.
LEMMA PartGrows ==
    ASSUME NEW s \in Seq(Kinds), NEW a, NEW u \in Kinds, NEW kinds, Part(a, s, kinds)
    PROVE  Part(IF u \in kinds THEN a ELSE Append(a, u), Append(s, u), kinds)
<1> DEFINE more == Append(s, u)
           b == IF u \in kinds THEN a ELSE Append(a, u)
<1>1. /\ a \in Seq(Kinds) /\ Len(a) <= Len(s)
      /\ \A i \in DOMAIN a : a[i] \notin kinds /\ \E j \in DOMAIN s : a[i] = s[j]
  BY DEF Part
<1>2. b = IF u \in kinds THEN a ELSE Append(a, u)
  OBVIOUS
<1>3. /\ more \in Seq(Kinds) /\ Len(more) = Len(s) + 1 /\ Len(s) \in Nat /\ more[Len(s) + 1] = u
      /\ \A j \in DOMAIN s : j \in DOMAIN more /\ more[j] = s[j]
      /\ Len(s) + 1 \in DOMAIN more
  OBVIOUS
<1> HIDE DEF more, b
<1>4. b \in Seq(Kinds) /\ Len(b) <= Len(more)
  BY <1>1, <1>2, <1>3
<1>5. ASSUME NEW i \in DOMAIN b
      PROVE  b[i] \notin kinds /\ \E j \in DOMAIN more : b[i] = more[j]
  <2>1. CASE i \in DOMAIN a
    <3>1. b[i] = a[i]
      BY <1>1, <1>2, <2>1
    <3> QED BY <1>1, <1>3, <2>1, <3>1
  <2>2. CASE i \notin DOMAIN a
    <3>1. u \notin kinds /\ b[i] = u
      BY <1>1, <1>2, <2>2
    <3> QED BY <1>3, <3>1
  <2> QED BY <2>1, <2>2
<1> QED BY <1>4, <1>5 DEF Part, more, b

\* What is left of a name is made of its units of other kinds.
LEMMA WithoutType ==
    ASSUME NEW name \in Seq(Kinds), NEW kinds
    PROVE  Part(Without(name, kinds), name, kinds)
<1> DEFINE P == {s \in Seq(Kinds) : Part(Without(s, kinds), s, kinds)}
<1>1. <<>> \in P
  <2>1. Without(<<>>, kinds) = <<>>
    BY WithoutNothing
  <2>2. Part(<<>>, <<>>, kinds)
    BY DEF Part
  <2> QED BY <2>1, <2>2
<1>2. ASSUME NEW s \in P, NEW u \in Kinds
      PROVE  Append(s, u) \in P
  <2>1. s \in Seq(Kinds) /\ Part(Without(s, kinds), s, kinds) /\ Append(s, u) \in Seq(Kinds)
    OBVIOUS
  <2>2. Part(IF u \in kinds THEN Without(s, kinds) ELSE Append(Without(s, kinds), u), Append(s, u), kinds)
    BY <2>1, PartGrows
  <2>3. Without(Append(s, u), kinds)
          = IF u \in kinds THEN Without(s, kinds) ELSE Append(Without(s, kinds), u)
    BY <2>1, WithoutAppend
  <2> QED BY <2>1, <2>2, <2>3
<1> HIDE DEF P
<1>3. \A i \in 0..(Len(name) - 1) : Begin(name, i) \in P => Append(Begin(name, i), name[i + 1]) \in P
  BY <1>2
<1>4. name \in P
  BY <1>1, <1>3, NameInd
<1> QED BY <1>4 DEF P

\* A part of a name, and the name in two parts.
LEMMA PartOf ==
    ASSUME NEW name \in Seq(Kinds), NEW m \in 0..Len(name), NEW k \in 0..Len(name), k <= m
    PROVE  /\ SubSeq(name, k + 1, m) \in Seq(Kinds)
           /\ Len(SubSeq(name, k + 1, m)) = m - k
           /\ \A i \in 1..(m - k) : SubSeq(name, k + 1, m)[i] = name[k + i]
<1> DEFINE part == SubSeq(name, k + 1, m)
<1>1. k + 1 \in Int /\ m \in Int /\ \A i \in (k + 1)..m : name[i] \in Kinds
  BY LenProperties
<1>2. part \in Seq(Kinds)
  BY <1>1, SubSeqProperties
<1>3. Len(part) = IF k + 1 <= m THEN m - (k + 1) + 1 ELSE 0
  BY <1>1, SubSeqProperties
<1>4. \A i \in 1..(m - (k + 1) + 1) : part[i] = name[(k + 1) + i - 1]
  BY <1>1, SubSeqProperties
<1> HIDE DEF part
<1>5. m \in Nat /\ k \in Nat
  BY LenProperties
<1>6. Len(part) = m - k
  BY <1>3, <1>5
<1>7. ASSUME NEW i \in 1..(m - k)
      PROVE  part[i] = name[k + i]
  <2>1. i \in 1..(m - (k + 1) + 1) /\ (k + 1) + i - 1 = k + i
    BY <1>5
  <2> QED BY <1>4, <2>1
<1> QED BY <1>2, <1>6, <1>7 DEF part

\* A name is its first m units and the rest.
LEMMA TwoParts ==
    ASSUME NEW name \in Seq(Kinds), NEW m \in 0..Len(name)
    PROVE  name = SubSeq(name, 1, m) \o SubSeq(name, m + 1, Len(name))
<1>1. Len(name) \in Nat /\ 1 \in 1..(Len(name) + 1) /\ m \in (1 - 1)..Len(name) /\ Len(name) \in m..Len(name)
  BY LenProperties
<1>2. SubSeq(name, 1, m) \o SubSeq(name, m + 1, Len(name)) = SubSeq(name, 1, Len(name))
  BY <1>1, ConcatAdjacentSubSeq
<1> QED BY <1>2, SubSeqFull

\* A unit at the end of the second part is one at the end of both.
LEMMA ConcatAppend ==
    ASSUME NEW a \in Seq(Kinds), NEW b \in Seq(Kinds), NEW u \in Kinds
    PROVE  a \o Append(b, u) = Append(a \o b, u)
<1> DEFINE left == a \o Append(b, u)
           right == Append(a \o b, u)
<1>1. /\ Append(b, u) \in Seq(Kinds) /\ Len(Append(b, u)) = Len(b) + 1
      /\ \A i \in 1..(Len(b) + 1) : Append(b, u)[i] = IF i <= Len(b) THEN b[i] ELSE u
  OBVIOUS
<1>2. /\ a \o b \in Seq(Kinds) /\ Len(a \o b) = Len(a) + Len(b)
      /\ \A i \in 1..(Len(a) + Len(b)) : (a \o b)[i] = IF i <= Len(a) THEN a[i] ELSE b[i - Len(a)]
  BY ConcatProperties
<1>3. /\ left \in Seq(Kinds) /\ Len(left) = Len(a) + Len(Append(b, u))
      /\ \A i \in 1..(Len(a) + Len(Append(b, u))) :
            left[i] = IF i <= Len(a) THEN a[i] ELSE Append(b, u)[i - Len(a)]
  BY <1>1, ConcatProperties
<1>4. /\ right \in Seq(Kinds) /\ Len(right) = Len(a \o b) + 1
      /\ \A i \in 1..(Len(a \o b) + 1) : right[i] = IF i <= Len(a \o b) THEN (a \o b)[i] ELSE u
  BY <1>2
<1>5. Len(a) \in Nat /\ Len(b) \in Nat
  OBVIOUS
<1> HIDE DEF left, right
<1>6. ASSUME NEW i \in 1..Len(left)
      PROVE  left[i] = right[i]
  <2>1. i \in 1..(Len(a) + Len(b) + 1)
    BY <1>1, <1>3, <1>5
  <2>2. CASE i <= Len(a)
    <3>1. i \in 1..(Len(a) + Len(b)) /\ i \in 1..(Len(a) + Len(Append(b, u)))
          /\ i \in 1..(Len(a \o b) + 1)
      BY <1>1, <1>2, <1>5, <2>1, <2>2
    <3>2. left[i] = a[i]
      BY <1>3, <2>2, <3>1
    <3>3. right[i] = (a \o b)[i]
      BY <1>2, <1>4, <1>5, <2>2, <3>1
    <3> QED BY <1>2, <2>2, <3>1, <3>2, <3>3
  <2>3. CASE i > Len(a) /\ i <= Len(a) + Len(b)
    <3>1. i \in 1..(Len(a) + Len(b)) /\ i \in 1..(Len(a) + Len(Append(b, u)))
          /\ i \in 1..(Len(a \o b) + 1) /\ i - Len(a) \in 1..(Len(b) + 1)
          /\ i - Len(a) <= Len(b) /\ ~(i <= Len(a))
      BY <1>1, <1>2, <1>5, <2>1, <2>3
    <3>2. left[i] = b[i - Len(a)]
      BY <1>1, <1>3, <3>1
    <3>3. right[i] = (a \o b)[i]
      BY <1>2, <1>4, <1>5, <2>3, <3>1
    <3> QED BY <1>2, <3>1, <3>2, <3>3
  <2>4. CASE i = Len(a) + Len(b) + 1
    <3>1. /\ i \in 1..(Len(a) + Len(Append(b, u))) /\ ~(i <= Len(a)) /\ ~(i <= Len(a \o b))
          /\ i \in 1..(Len(a \o b) + 1) /\ i - Len(a) \in 1..(Len(b) + 1)
          /\ ~(i - Len(a) <= Len(b))
      BY <1>1, <1>2, <1>5, <2>1, <2>4
    <3>2. left[i] = u
      BY <1>1, <1>3, <3>1
    <3>3. right[i] = u
      BY <1>4, <3>1
    <3> QED BY <3>2, <3>3
  <2> QED BY <1>5, <2>1, <2>2, <2>3, <2>4
<1>7. Len(left) = Len(right)
  BY <1>1, <1>2, <1>3, <1>4, <1>5
<1>8. left = right
  BY <1>3, <1>4, <1>6, <1>7, SeqEqual
<1> QED BY <1>8 DEF left, right

\* What is left of two parts is what is left of each.
LEMMA WithoutConcat ==
    ASSUME NEW a \in Seq(Kinds), NEW b \in Seq(Kinds), NEW kinds
    PROVE  Without(a \o b, kinds) = Without(a, kinds) \o Without(b, kinds)
<1> DEFINE P == {t \in Seq(Kinds) : Without(a \o t, kinds) = Without(a, kinds) \o Without(t, kinds)}
<1>t. ASSUME NEW t \in Seq(Kinds)
      PROVE  Without(t, kinds) \in Seq(Kinds)
  BY WithoutType DEF Part
<1>1. <<>> \in P
  <2>1. Without(<<>>, kinds) = <<>> /\ <<>> \in Seq(Kinds)
    BY WithoutNothing
  <2>2. a \o <<>> = a
    BY ConcatEmptySeq
  <2>3. Without(a, kinds) \o <<>> = Without(a, kinds)
    BY <1>t, ConcatEmptySeq
  <2> QED BY <2>1, <2>2, <2>3
<1>2. ASSUME NEW t \in P, NEW u \in Kinds
      PROVE  Append(t, u) \in P
  <2>1. /\ t \in Seq(Kinds) /\ Append(t, u) \in Seq(Kinds) /\ a \o t \in Seq(Kinds)
        /\ Without(a \o t, kinds) = Without(a, kinds) \o Without(t, kinds)
    BY ConcatProperties
  <2>2. a \o Append(t, u) = Append(a \o t, u)
    BY <2>1, ConcatAppend
  <2>3. Without(Append(a \o t, u), kinds)
          = IF u \in kinds THEN Without(a \o t, kinds) ELSE Append(Without(a \o t, kinds), u)
    BY <2>1, WithoutAppend
  <2>4. Without(Append(t, u), kinds)
          = IF u \in kinds THEN Without(t, kinds) ELSE Append(Without(t, kinds), u)
    BY <2>1, WithoutAppend
  <2>5. Without(a, kinds) \o Append(Without(t, kinds), u)
          = Append(Without(a, kinds) \o Without(t, kinds), u)
    BY <1>t, <2>1, ConcatAppend
  <2> QED BY <2>1, <2>2, <2>3, <2>4, <2>5
<1> HIDE DEF P
<1>3. \A i \in 0..(Len(b) - 1) : Begin(b, i) \in P => Append(Begin(b, i), b[i + 1]) \in P
  BY <1>2
<1>4. b \in P
  BY <1>1, <1>3, NameInd
<1> QED BY <1>4 DEF P

\* Nothing is left of a name that is made of those kinds,
LEMMA WithoutAll ==
    ASSUME NEW name \in Seq(Kinds), NEW kinds, \A i \in DOMAIN name : name[i] \in kinds
    PROVE  Without(name, kinds) = <<>>
<1> DEFINE v == Without(name, kinds)
<1>1. /\ v \in Seq(Kinds)
      /\ \A i \in DOMAIN v : v[i] \notin kinds /\ \E j \in DOMAIN name : v[i] = name[j]
  BY WithoutType DEF Part
<1> HIDE DEF v
<1>2. DOMAIN v = {}
  BY <1>1
<1>3. v = <<>>
  BY <1>1, <1>2, EmptySeq, LenProperties
<1> QED BY <1>3 DEF v

\* all of it is left of one that has none of them,
LEMMA WithoutNone ==
    ASSUME NEW name \in Seq(Kinds), NEW kinds, \A i \in DOMAIN name : name[i] \notin kinds
    PROVE  Without(name, kinds) = name
<1> DEFINE P == {t \in Seq(Kinds) : Without(t, kinds) = t}
<1>1. <<>> \in P
  BY WithoutNothing
<1>2. ASSUME NEW i \in 0..(Len(name) - 1), Begin(name, i) \in P
      PROVE  Append(Begin(name, i), name[i + 1]) \in P
  <2>1. name[i + 1] \in Kinds /\ name[i + 1] \notin kinds
    BY LenProperties
  <2>2. Begin(name, i) \in Seq(Kinds) /\ Without(Begin(name, i), kinds) = Begin(name, i)
    BY <1>2
  <2>3. Without(Append(Begin(name, i), name[i + 1]), kinds) = Append(Begin(name, i), name[i + 1])
    BY <2>1, <2>2, WithoutAppend
  <2>4. Append(Begin(name, i), name[i + 1]) \in Seq(Kinds)
    BY <2>1, <2>2
  <2> QED BY <2>3, <2>4
<1> HIDE DEF P
<1>4. name \in P
  BY <1>1, <1>2, NameInd
<1> QED BY <1>4 DEF P

\* units that are taken out later anyway may be taken out before,
LEMMA WithoutTwice ==
    ASSUME NEW name \in Seq(Kinds), NEW less, NEW kinds, less \subseteq kinds
    PROVE  Without(Without(name, less), kinds) = Without(name, kinds)
<1> DEFINE P == {t \in Seq(Kinds) : Without(Without(t, less), kinds) = Without(t, kinds)}
<1>1. <<>> \in P
  <2>1. Without(<<>>, less) = <<>> /\ Without(<<>>, kinds) = <<>> /\ <<>> \in Seq(Kinds)
    BY WithoutNothing
  <2> QED BY <2>1
<1>2. ASSUME NEW t \in P, NEW u \in Kinds
      PROVE  Append(t, u) \in P
  <2> DEFINE v == Without(t, less)
  <2>1. t \in Seq(Kinds) /\ Append(t, u) \in Seq(Kinds) /\ Without(v, kinds) = Without(t, kinds)
    OBVIOUS
  <2>2. v \in Seq(Kinds)
    BY <2>1, WithoutType DEF Part
  <2> HIDE DEF v
  <2>3. Without(Append(t, u), less) = IF u \in less THEN v ELSE Append(v, u)
    BY <2>1, WithoutAppend DEF v
  <2>4. Without(Append(t, u), kinds)
          = IF u \in kinds THEN Without(t, kinds) ELSE Append(Without(t, kinds), u)
    BY <2>1, WithoutAppend
  <2>5. Without(Append(v, u), kinds)
          = IF u \in kinds THEN Without(v, kinds) ELSE Append(Without(v, kinds), u)
    BY <2>2, WithoutAppend
  <2> QED BY <2>1, <2>3, <2>4, <2>5
<1> HIDE DEF P
<1>3. \A i \in 0..(Len(name) - 1) : Begin(name, i) \in P => Append(Begin(name, i), name[i + 1]) \in P
  BY <1>2
<1>4. name \in P
  BY <1>1, <1>3, NameInd
<1> QED BY <1>4 DEF P

\* and something is left if there is a unit of another kind.
LEMMA WithoutSome ==
    ASSUME NEW name \in Seq(Kinds), NEW kinds, NEW j \in DOMAIN name, name[j] \notin kinds
    PROVE  Without(name, kinds) # <<>>
<1> DEFINE a == SubSeq(name, 1, j)
           b == SubSeq(name, j + 1, Len(name))
           s == Begin(name, j - 1)
<1>1. /\ j \in 1..Len(name) /\ Len(name) \in Nat /\ j - 1 \in 0..(Len(name) - 1) /\ (j - 1) + 1 = j
      /\ j \in 0..Len(name) /\ name[j] \in Kinds /\ j - 1 \in 0..Len(name)
  BY LenProperties
<1>2. name = a \o b
  BY <1>1, TwoParts
<1>3. a \in Seq(Kinds)
  <2>1. 0 \in 0..Len(name) /\ 0 <= j /\ 0 + 1 = 1
    BY <1>1
  <2>2. SubSeq(name, 0 + 1, j) \in Seq(Kinds)
    BY <1>1, <2>1, PartOf
  <2> QED BY <2>1, <2>2
<1>4. b \in Seq(Kinds)
  <2>1. Len(name) \in 0..Len(name) /\ j <= Len(name)
    BY <1>1
  <2> QED BY <1>1, <2>1, PartOf
<1>5. a = Append(s, name[j])
  BY <1>1, Begins DEF Begin
<1>6. s \in Seq(Kinds)
  BY <1>1, Begins
<1> HIDE DEF a, b, s
<1>7. Without(a, kinds) = Append(Without(s, kinds), name[j])
  BY <1>1, <1>5, <1>6, WithoutAppend
<1>8. /\ Without(s, kinds) \in Seq(Kinds) /\ Without(a, kinds) \in Seq(Kinds)
      /\ Without(b, kinds) \in Seq(Kinds)
  BY <1>3, <1>4, <1>6, WithoutType DEF Part
<1>9. Without(a, kinds) # <<>>
  BY <1>1, <1>7, <1>8
<1>10. Without(a \o b, kinds) = Without(a, kinds) \o Without(b, kinds)
  BY <1>3, <1>4, WithoutConcat
<1> QED BY <1>2, <1>8, <1>9, <1>10, ConcatEqualIffEmpty

-----------------------------------------------------------------------------

(* What sanitizeFilename() makes of a name. *)

\* t is name from unit k + 1 to unit m, with white space only before and after.
Trimmed(t, name, k, m) ==
    /\ k \in 0..Len(name) /\ m \in 0..Len(name) /\ k <= m
    /\ t = SubSeq(name, k + 1, m)
    /\ \A i \in 1..k : name[i] = "space"
    /\ \A i \in (m + 1)..Len(name) : name[i] = "space"
    /\ k < m => name[m] # "space"

\* TrimEnd() leaves the white space at the end away, and no more.
LEMMA TrimEndIs ==
    ASSUME NEW name \in Seq(Kinds)
    PROVE  \E m : Trimmed(TrimEnd(name), name, 0, m)
<1> DEFINE s == {0} \cup Solid(name)
           m == Max(s)
<1>1. Len(name) \in Nat /\ DOMAIN name = 1..Len(name)
  BY LenProperties
<1>2. s \in SUBSET (0..Len(name)) /\ s # {}
  BY <1>1 DEF Solid
<1>3. m \in s /\ \A x \in s : x <= m
  BY <1>1, <1>2, MaxUpTo
<1>7. TrimEnd(name) = SubSeq(name, 1, m)
  BY DEF TrimEnd
<1>6. 0 < m => name[m] # "space"
  BY <1>3 DEF Solid
<1> HIDE DEF s, m
<1>4. m \in 0..Len(name) /\ 0 \in 0..Len(name) /\ 0 <= m /\ 0 + 1 = 1
  BY <1>1, <1>2, <1>3
<1>5. ASSUME NEW i \in (m + 1)..Len(name)
      PROVE  name[i] = "space"
  <2>1. i \in DOMAIN name /\ ~(i <= m)
    BY <1>1, <1>4
  <2>2. i \notin s
    BY <1>3, <2>1
  <2> QED BY <2>1, <2>2 DEF s, Solid
<1>8. \A i \in 1..0 : name[i] = "space"
  OBVIOUS
<1> QED BY <1>4, <1>5, <1>6, <1>7, <1>8 DEF Trimmed

\* Trim() leaves the white space on both sides away, and no more.
LEMMA TrimIs ==
    ASSUME NEW name \in Seq(Kinds)
    PROVE  \E k, m : Trimmed(Trim(name), name, k, m) /\ (k < m => name[k + 1] # "space")
<1> DEFINE s == Solid(name)
           n == Len(name)
<1>1. n \in Nat /\ DOMAIN name = 1..n
  BY LenProperties
<1>2. s \in SUBSET (0..n) /\ s \in SUBSET (1..n) /\ s \in SUBSET Nat
      /\ \A i \in 1..n : i \in s <=> name[i] # "space"
  BY <1>1 DEF Solid
<1>3. CASE s = {}
  <2>1. Trim(name) = <<>> /\ SubSeq(name, n + 1, n) = <<>>
    <3>1. n + 1 \in Int /\ n \in Int /\ n < n + 1
      BY <1>1
    <3> QED BY <1>3, <3>1, SubSeqEmpty DEF Trim, Absent
  <2>2. Trimmed(Trim(name), name, n, n)
    <3>1. n \in 0..n /\ ~(n < n) /\ n <= n /\ (n + 1)..n = {}
      BY <1>1
    <3>2. \A i \in 1..n : name[i] = "space"
      BY <1>2, <1>3
    <3> HIDE DEF s
    <3> QED BY <2>1, <3>1, <3>2 DEF Trimmed
  <2> QED BY <1>1, <2>2
<1>4. CASE s # {}
  <2> DEFINE low == Min(s)
             m == Max(s)
             k == low - 1
  <2>1. low \in s /\ \A x \in s : low <= x
    BY <1>2, <1>4, MinOf
  <2>2. m \in s /\ \A x \in s : x <= m
    BY <1>1, <1>2, <1>4, MaxUpTo
  <2>3. Trim(name) = SubSeq(name, low, m)
    BY <1>4 DEF Trim
  <2> HIDE DEF s, low, m
  <2>4. k \in 0..n /\ m \in 0..n /\ k <= m /\ k + 1 = low /\ m \in 1..n
    BY <1>1, <1>2, <2>1, <2>2
  <2>5. ASSUME NEW i \in 1..k
        PROVE  name[i] = "space"
    <3>1. i \in 1..n /\ ~(low <= i)
      BY <1>1, <2>4
    <3> QED BY <1>2, <2>1, <3>1
  <2>6. ASSUME NEW i \in (m + 1)..n
        PROVE  name[i] = "space"
    <3>1. i \in 1..n /\ ~(i <= m)
      BY <1>1, <2>4
    <3> QED BY <1>2, <2>2, <3>1
  <2>7. name[m] # "space"
    BY <1>2, <2>2, <2>4
  <2> HIDE DEF k
  <2>8. Trimmed(Trim(name), name, k, m)
    BY <2>3, <2>4, <2>5, <2>6, <2>7 DEF Trimmed
  <2>9. name[k + 1] # "space"
    <3>1. low \in 1..n
      BY <1>2, <2>1 DEF s
    <3> QED BY <1>2, <2>1, <2>4, <3>1
  <2> QED BY <2>8, <2>9
<1> QED BY <1>3, <1>4

\* White space around a name cannot be seen.
LEMMA TrimmedSame ==
    ASSUME NEW name \in Seq(Kinds), NEW t, NEW k, NEW m, Trimmed(t, name, k, m),
           NEW kinds, "space" \in kinds
    PROVE  t \in Seq(Kinds) /\ Without(t, kinds) = Without(name, kinds)
<1> DEFINE n == Len(name)
           a == SubSeq(name, 1, k)
           b == SubSeq(name, k + 1, n)
           c == SubSeq(name, m + 1, n)
<1>1. /\ k \in 0..n /\ m \in 0..n /\ k <= m /\ t = SubSeq(name, k + 1, m) /\ n \in Nat
      /\ \A i \in 1..k : name[i] = "space"
      /\ \A i \in (m + 1)..n : name[i] = "space"
  BY LenProperties DEF Trimmed
<1>2. t \in Seq(Kinds)
  BY <1>1, PartOf
<1>3. a \in Seq(Kinds) /\ \A i \in DOMAIN a : a[i] \in kinds
  <2>1. 0 \in 0..n /\ 0 <= k /\ 0 + 1 = 1 /\ k - 0 = k
    BY <1>1
  <2>2. /\ SubSeq(name, 0 + 1, k) \in Seq(Kinds) /\ Len(SubSeq(name, 0 + 1, k)) = k - 0
        /\ \A i \in 1..(k - 0) : SubSeq(name, 0 + 1, k)[i] = name[0 + i]
    BY <1>1, <2>1, PartOf
  <2>3. a \in Seq(Kinds) /\ Len(a) = k /\ \A i \in 1..k : a[i] = name[0 + i]
    BY <2>1, <2>2
  <2>4. DOMAIN a = 1..k /\ \A i \in 1..k : 0 + i = i
    BY <1>1, <2>3, LenProperties
  <2> HIDE DEF a
  <2> QED BY <1>1, <2>3, <2>4
<1>4. b \in Seq(Kinds)
  <2>1. n \in 0..n /\ k <= n
    BY <1>1
  <2> QED BY <1>1, <2>1, PartOf
<1>5. c \in Seq(Kinds) /\ \A i \in DOMAIN c : c[i] \in kinds
  <2>1. n \in 0..n /\ m <= n
    BY <1>1
  <2>2. c \in Seq(Kinds) /\ Len(c) = n - m /\ \A i \in 1..(n - m) : c[i] = name[m + i]
    BY <1>1, <2>1, PartOf
  <2>3. DOMAIN c = 1..(n - m) /\ \A i \in 1..(n - m) : m + i \in (m + 1)..n
    BY <1>1, <2>2, LenProperties
  <2> HIDE DEF c
  <2> QED BY <1>1, <2>2, <2>3
<1>6. name = a \o b
  BY <1>1, TwoParts
<1>7. b = t \o c
  <2>1. k + 1 \in 1..(n + 1) /\ m \in ((k + 1) - 1)..n /\ n \in m..n
    BY <1>1
  <2>2. SubSeq(name, k + 1, m) \o SubSeq(name, m + 1, n) = SubSeq(name, k + 1, n)
    BY <2>1, ConcatAdjacentSubSeq
  <2> QED BY <1>1, <2>2
<1> HIDE DEF a, b, c
<1>8. Without(a, kinds) = <<>> /\ Without(c, kinds) = <<>>
  BY <1>3, <1>5, WithoutAll
<1>9. Without(name, kinds) = Without(a, kinds) \o Without(b, kinds)
  BY <1>3, <1>4, <1>6, WithoutConcat
<1>10. Without(b, kinds) = Without(t, kinds) \o Without(c, kinds)
  BY <1>2, <1>5, <1>7, WithoutConcat
<1>11. Without(t, kinds) \in Seq(Kinds)
  BY <1>2, WithoutType DEF Part
<1> QED BY <1>2, <1>8, <1>9, <1>10, <1>11, ConcatEmptySeq

\* What is left of the beginning of a name begins what is left of it.
LEMMA WithoutPrefix ==
    ASSUME NEW name \in Seq(Kinds), NEW m \in 0..Len(name), NEW kinds
    PROVE  IsPrefix(Without(SubSeq(name, 1, m), kinds), Without(name, kinds))
<1> DEFINE a == SubSeq(name, 1, m)
           b == SubSeq(name, m + 1, Len(name))
           v == Without(a, kinds)
           w == Without(b, kinds)
<1>1. Len(name) \in Nat /\ 0 \in 0..Len(name) /\ Len(name) \in 0..Len(name)
      /\ 0 <= m /\ m <= Len(name) /\ 0 + 1 = 1
  BY LenProperties
<1>2. a \in Seq(Kinds)
  <2>1. SubSeq(name, 0 + 1, m) \in Seq(Kinds)
    BY <1>1, PartOf
  <2> QED BY <1>1, <2>1
<1>3. b \in Seq(Kinds)
  BY <1>1, PartOf
<1>4. name = a \o b
  BY TwoParts
<1> HIDE DEF a, b
<1>5. v \in Seq(Kinds) /\ w \in Seq(Kinds)
  BY <1>2, <1>3, WithoutType DEF Part
<1>6. Without(name, kinds) = v \o w
  BY <1>2, <1>3, <1>4, WithoutConcat
<1> HIDE DEF v, w
<1>7. IsPrefix(v, v \o w)
  <2>1. /\ v \o w \in Seq(Kinds) /\ Len(v \o w) = Len(v) + Len(w)
        /\ \A i \in 1..(Len(v) + Len(w)) : (v \o w)[i] = IF i <= Len(v) THEN v[i] ELSE w[i - Len(v)]
        /\ Len(v) \in Nat /\ Len(w) \in Nat
    BY <1>5, ConcatProperties, LenProperties
  <2>2. Len(v) <= Len(v \o w) /\ SubSeq(v, 1, Len(v)) = v
    BY <1>5, <2>1, SubSeqFull
  <2>3. SubSeq(v \o w, 1, Len(v)) = v
    <3> DEFINE z == v \o w
               y == SubSeq(z, 1, Len(v))
    <3>1. /\ 0 \in 0..Len(z) /\ Len(v) \in 0..Len(z) /\ 0 <= Len(v) /\ 0 + 1 = 1 /\ Len(v) - 0 = Len(v)
          /\ z \in Seq(Kinds) /\ \A i \in 1..Len(v) : z[i] = v[i]
      BY <2>1
    <3> HIDE DEF z
    <3>2. /\ SubSeq(z, 0 + 1, Len(v)) \in Seq(Kinds) /\ Len(SubSeq(z, 0 + 1, Len(v))) = Len(v) - 0
          /\ \A i \in 1..(Len(v) - 0) : SubSeq(z, 0 + 1, Len(v))[i] = z[0 + i]
      BY <3>1, PartOf
    <3>3. y \in Seq(Kinds) /\ Len(y) = Len(v) /\ \A i \in 1..Len(v) : y[i] = z[0 + i]
      BY <3>1, <3>2
    <3>4. \A i \in 1..Len(v) : 0 + i = i
      OBVIOUS
    <3> HIDE DEF y
    <3>5. \A i \in 1..Len(y) : y[i] = v[i]
      BY <3>1, <3>3, <3>4
    <3>6. y = v
      BY <1>5, <3>3, <3>5, SeqEqual
    <3> QED BY <3>6 DEF y, z
  <2> QED BY <2>2, <2>3 DEF IsPrefix
<1> QED BY <1>6, <1>7 DEF v, a

\* Basename() is what follows the last separator.
LEMMA BasenameIs ==
    ASSUME NEW name \in Seq(Kinds)
    PROVE  \E b \in 0..Len(name) :
              /\ Basename(name) = SubSeq(name, b + 1, Len(name))
              /\ \A i \in (b + 1)..Len(name) : name[i] # "sep"
              /\ b = 0 \/ name[b] = "sep"
<1> DEFINE s == {0} \cup {i \in DOMAIN name : name[i] = "sep"}
           b == Max(s)
<1>1. Len(name) \in Nat /\ DOMAIN name = 1..Len(name)
  BY LenProperties
<1>2. s \in SUBSET (0..Len(name)) /\ s # {}
  BY <1>1
<1>3. b \in s /\ \A x \in s : x <= b
  BY <1>1, <1>2, MaxUpTo
<1>4. Basename(name) = SubSeq(name, b + 1, Len(name))
  BY DEF Basename
<1>5. \A i \in 1..Len(name) : name[i] = "sep" => i \in s
  BY <1>1
<1>6. b = 0 \/ name[b] = "sep"
  BY <1>3
<1> HIDE DEF s, b
<1>7. b \in 0..Len(name)
  BY <1>2, <1>3
<1>8. ASSUME NEW i \in (b + 1)..Len(name)
      PROVE  name[i] # "sep"
  <2>1. i \in 1..Len(name) /\ ~(i <= b)
    BY <1>1, <1>7
  <2> QED BY <1>3, <1>5, <2>1
<1> QED BY <1>4, <1>6, <1>7, <1>8

\* A part of a name that starts where the name starts.
LEMMA FirstUnits ==
    ASSUME NEW name \in Seq(Kinds), NEW m \in 0..Len(name)
    PROVE  /\ SubSeq(name, 1, m) \in Seq(Kinds) /\ Len(SubSeq(name, 1, m)) = m
           /\ \A i \in 1..m : SubSeq(name, 1, m)[i] = name[i]
<1>1. 0 \in 0..Len(name) /\ 0 <= m /\ 0 + 1 = 1 /\ m - 0 = m /\ \A i \in 1..m : 0 + i = i
  BY LenProperties
<1>2. /\ SubSeq(name, 0 + 1, m) \in Seq(Kinds) /\ Len(SubSeq(name, 0 + 1, m)) = m - 0
      /\ \A i \in 1..(m - 0) : SubSeq(name, 0 + 1, m)[i] = name[0 + i]
  BY <1>1, PartOf
<1> DEFINE t == SubSeq(name, 1, m)
<1>3. t \in Seq(Kinds) /\ Len(t) = m /\ \A i \in 1..m : t[i] = name[0 + i]
  BY <1>1, <1>2
<1> HIDE DEF t
<1>4. \A i \in 1..m : t[i] = name[i]
  BY <1>1, <1>3
<1> QED BY <1>3, <1>4 DEF t

\* What sanitizeFilename() makes of a name, its length left aside.
Plain(t) ==
    /\ t \in Seq(Kinds)
    /\ \A i \in 1..Len(t) : t[i] \notin {"sep", "ctl"}
    /\ t # <<>> => t[1] # "space" /\ t[Len(t)] # "space"

\* The units that cannot be seen, or that are not in a basename.
Unseen == {"sep", "ctl", "space"}

\* Cleaned() makes a name plain and loses nothing that can be seen.
LEMMA CleanedIs ==
    ASSUME NEW name \in Seq(Kinds)
    PROVE  /\ Plain(Cleaned(name)) /\ Len(Cleaned(name)) <= Len(name)
           /\ Without(Cleaned(name), Unseen) = Visible(name)
<1> DEFINE base == Basename(name)
           p == Printable(base)
           t == Trim(p)
<1>1. PICK b \in 0..Len(name) : /\ base = SubSeq(name, b + 1, Len(name))
                                /\ \A i \in (b + 1)..Len(name) : name[i] # "sep"
  BY BasenameIs
<1>2. Len(name) \in Nat /\ Len(name) \in 0..Len(name) /\ b <= Len(name)
  BY LenProperties
<1>3. /\ base \in Seq(Kinds) /\ Len(base) = Len(name) - b
      /\ \A i \in 1..(Len(name) - b) : base[i] = name[b + i]
  BY <1>1, <1>2, PartOf
<1>4. \A i \in 1..Len(base) : base[i] # "sep"
  <2> TAKE i \in 1..Len(base)
  <2>1. i \in 1..(Len(name) - b) /\ b + i \in (b + 1)..Len(name)
    BY <1>2, <1>3
  <2> QED BY <1>1, <1>3, <2>1
<1>5. Without(base, Unseen) = Visible(name)
  BY DEF Visible, Unseen
<1>6. /\ p \in Seq(Kinds) /\ Len(p) <= Len(base)
      /\ \A i \in DOMAIN p : p[i] \notin {"ctl"} /\ \E j \in DOMAIN base : p[i] = base[j]
  BY <1>3, WithoutType DEF Printable, Part
<1>7. Without(p, Unseen) = Without(base, Unseen)
  BY <1>3, WithoutTwice DEF Printable, Unseen
<1> HIDE DEF base
<1>8. \A i \in 1..Len(p) : p[i] \notin {"sep", "ctl"}
  BY <1>3, <1>4, <1>6, LenProperties
<1> HIDE DEF p
<1>9. PICK k, m : Trimmed(t, p, k, m) /\ (k < m => p[k + 1] # "space")
  BY <1>6, TrimIs
<1>10. /\ k \in 0..Len(p) /\ m \in 0..Len(p) /\ k <= m /\ t = SubSeq(p, k + 1, m)
       /\ k < m => p[m] # "space" /\ p[k + 1] # "space"
       /\ Len(p) \in Nat
  BY <1>6, <1>9, LenProperties DEF Trimmed
<1>11. /\ t \in Seq(Kinds) /\ Len(t) = m - k
       /\ \A i \in 1..(m - k) : t[i] = p[k + i]
  BY <1>6, <1>10, PartOf
<1>12. Without(t, Unseen) = Without(p, Unseen)
  BY <1>6, <1>9, TrimmedSame DEF Unseen
<1>13. t = Cleaned(name)
  BY DEF Cleaned, p, base
<1> HIDE DEF t
<1>14. \A i \in 1..Len(t) : t[i] \notin {"sep", "ctl"}
  <2> TAKE i \in 1..Len(t)
  <2>1. i \in 1..(m - k) /\ k + i \in 1..Len(p)
    BY <1>10, <1>11
  <2> QED BY <1>8, <1>11, <2>1
<1>15. ASSUME t # <<>>
       PROVE  t[1] # "space" /\ t[Len(t)] # "space"
  <2>1. Len(t) \in Nat \ {0}
    BY <1>11, <1>15, EmptySeq
  <2>2. k < m /\ 1 \in 1..(m - k) /\ Len(t) \in 1..(m - k) /\ k + Len(t) = m
    BY <1>10, <1>11, <2>1
  <2> QED BY <1>10, <1>11, <2>2
<1>16. Len(t) <= Len(name)
  BY <1>2, <1>3, <1>6, <1>10, <1>11
<1> QED BY <1>5, <1>7, <1>11, <1>12, <1>13, <1>14, <1>15, <1>16 DEF Plain

\* c is cut after unit q, and then down to unit m.
CutAt(c, q, m) ==
    /\ q \in 1..MaxLength /\ q < Len(c) /\ m \in 0..q
    /\ Cut(c) = SubSeq(c, 1, m)
    /\ \A i \in (m + 1)..q : c[i] = "space"
    /\ m > 0 => c[m] # "space"
    /\ \/ q = MaxLength /\ c[q] # "hi"
       \/ q + 1 = MaxLength /\ c[q + 1] = "hi"

\* A name that is too long is cut at the limit, or before the pair across it.
LEMMA CutIs ==
    ASSUME NEW c \in Seq(Kinds), Len(c) > MaxLength
    PROVE  \E q, m : CutAt(c, q, m)
<1> DEFINE cut == SubSeq(c, 1, MaxLength)
           q == IF cut[MaxLength] = "hi" THEN MaxLength - 1 ELSE MaxLength
           d == SubSeq(c, 1, q)
<1>1. /\ MaxLength \in Nat /\ MaxLength > 1 /\ MaxLength \in 0..Len(c) /\ Len(c) \in Nat
      /\ MaxLength \in 1..MaxLength /\ MaxLength - 1 \in 0..MaxLength
  BY LengthAssumption, LenProperties
<1>2. cut \in Seq(Kinds) /\ Len(cut) = MaxLength /\ \A i \in 1..MaxLength : cut[i] = c[i]
  BY <1>1, FirstUnits
<1>3. /\ q \in 1..MaxLength /\ q < Len(c) /\ q \in 0..Len(c)
      /\ \/ q = MaxLength /\ c[q] # "hi"
         \/ q + 1 = MaxLength /\ c[q + 1] = "hi"
  <2>1. cut[MaxLength] = c[MaxLength]
    BY <1>1, <1>2
  <2> HIDE DEF cut
  <2> QED BY <1>1, <2>1
<1>4. Cut(c) = TrimEnd(d)
  <2>1. CASE cut[MaxLength] = "hi"
    <3>1. Cut(c) = TrimEnd(SubSeq(cut, 1, MaxLength - 1))
      BY <2>1 DEF Cut
    <3>2. SubSeq(cut, 1, MaxLength - 1) = SubSeq(c, 1, MaxLength - 1)
      <4> DEFINE x == SubSeq(cut, 1, MaxLength - 1)
                 y == SubSeq(c, 1, MaxLength - 1)
                 e == MaxLength - 1
      <4>1. e \in 0..Len(cut) /\ e \in 0..Len(c) /\ \A i \in 1..e : i \in 1..MaxLength
        BY <1>1, <1>2
      <4> HIDE DEF cut
      <4>2. x \in Seq(Kinds) /\ Len(x) = e /\ \A i \in 1..e : x[i] = cut[i]
        BY <1>2, <4>1, FirstUnits
      <4>3. y \in Seq(Kinds) /\ Len(y) = e /\ \A i \in 1..e : y[i] = c[i]
        BY <4>1, FirstUnits
      <4> HIDE DEF x, y, e
      <4>4. \A i \in 1..Len(x) : x[i] = y[i]
        BY <1>2, <4>1, <4>2, <4>3
      <4>5. x = y
        BY <4>2, <4>3, <4>4, SeqEqual
      <4> QED BY <4>5 DEF x, y
    <3>3. q = MaxLength - 1
      BY <2>1
    <3> QED BY <3>1, <3>2, <3>3
  <2>2. CASE cut[MaxLength] # "hi"
    BY <2>2 DEF Cut
  <2> QED BY <2>1, <2>2
<1> HIDE DEF cut, q
<1>5. d \in Seq(Kinds) /\ Len(d) = q /\ \A i \in 1..q : d[i] = c[i]
  BY <1>3, FirstUnits
<1>6. PICK m : Trimmed(TrimEnd(d), d, 0, m)
  BY <1>5, TrimEndIs
<1>7. /\ m \in 0..q /\ Cut(c) = SubSeq(d, 0 + 1, m)
      /\ \A i \in (m + 1)..q : d[i] = "space"
      /\ 0 < m => d[m] # "space"
  BY <1>4, <1>5, <1>6 DEF Trimmed
<1>8. SubSeq(d, 0 + 1, m) = SubSeq(c, 1, m)
  <2> DEFINE x == SubSeq(d, 1, m)
             y == SubSeq(c, 1, m)
  <2>1. m \in 0..Len(d) /\ m \in 0..Len(c) /\ \A i \in 1..m : i \in 1..q
    BY <1>1, <1>3, <1>5, <1>7
  <2> HIDE DEF d
  <2>2. x \in Seq(Kinds) /\ Len(x) = m /\ \A i \in 1..m : x[i] = d[i]
    BY <1>5, <2>1, FirstUnits
  <2>3. y \in Seq(Kinds) /\ Len(y) = m /\ \A i \in 1..m : y[i] = c[i]
    BY <2>1, FirstUnits
  <2>4. \A i \in 1..Len(x) : x[i] = y[i]
    <3> HIDE DEF x, y
    <3> QED BY <1>5, <2>1, <2>2, <2>3
  <2>5. x = y
    <3> HIDE DEF x, y
    <3> QED BY <2>2, <2>3, <2>4, SeqEqual
  <2>6. SubSeq(d, 0 + 1, m) = x
    OBVIOUS
  <2> QED BY <2>5, <2>6
<1> HIDE DEF d
<1>9. \A i \in (m + 1)..q : c[i] = "space"
  <2> TAKE i \in (m + 1)..q
  <2>1. i \in 1..q
    BY <1>3, <1>7
  <2> QED BY <1>5, <1>7, <2>1
<1>10. m > 0 => c[m] # "space"
  <2> SUFFICES ASSUME m > 0 PROVE c[m] # "space"
    OBVIOUS
  <2>1. m \in 1..q /\ 0 < m
    BY <1>3, <1>7
  <2> QED BY <1>5, <1>7, <2>1
<1> QED BY <1>3, <1>7, <1>8, <1>9, <1>10 DEF CutAt

\* What a plain name that is too long is cut down to.
LEMMA CutPlain ==
    ASSUME NEW c, Plain(c), Len(c) > MaxLength
    PROVE  /\ Plain(Cut(c)) /\ Len(Cut(c)) \in 1..MaxLength
           /\ IsPrefix(Without(Cut(c), Unseen), Without(c, Unseen))
<1>1. /\ c \in Seq(Kinds)
      /\ \A i \in 1..Len(c) : c[i] \notin {"sep", "ctl"}
      /\ c # <<>> => c[1] # "space"
      /\ Len(c) \in Nat /\ MaxLength \in Nat /\ Len(c) # 0
  BY LengthAssumption, LenProperties DEF Plain
<1>2. c[1] # "space"
  BY <1>1, EmptySeq
<1>3. PICK q, m : CutAt(c, q, m)
  BY <1>1, CutIs
<1>4. /\ q \in 1..MaxLength /\ q < Len(c) /\ m \in 0..q
      /\ Cut(c) = SubSeq(c, 1, m)
      /\ \A i \in (m + 1)..q : c[i] = "space"
      /\ m > 0 => c[m] # "space"
  BY <1>3 DEF CutAt
<1>5. m \in 1..MaxLength /\ m \in 0..Len(c) /\ c[m] # "space"
  <2>1. m # 0
    <3> SUFFICES ASSUME m = 0 PROVE FALSE
      OBVIOUS
    <3>1. 1 \in (m + 1)..q
      BY <1>1, <1>4
    <3> QED BY <1>2, <1>4, <3>1
  <2> QED BY <1>1, <1>4, <2>1
<1> DEFINE t == SubSeq(c, 1, m)
<1>6. t \in Seq(Kinds) /\ Len(t) = m /\ \A i \in 1..m : t[i] = c[i]
  BY <1>1, <1>5, FirstUnits
<1>7. IsPrefix(Without(t, Unseen), Without(c, Unseen))
  BY <1>1, <1>5, WithoutPrefix
<1> HIDE DEF t
<1>8. \A i \in 1..Len(t) : t[i] \notin {"sep", "ctl"}
  BY <1>1, <1>5, <1>6
<1>9. t[1] # "space" /\ t[Len(t)] # "space"
  <2>1. 1 \in 1..m /\ m \in 1..m
    BY <1>5
  <2> QED BY <1>2, <1>5, <1>6, <2>1
<1>10. t = Cut(c)
  BY <1>4 DEF t
<1> QED BY <1>5, <1>6, <1>7, <1>8, <1>9, <1>10 DEF Plain

\* sanitizeFilename() gives a plain name that is short enough, or none.
Fit(t) == Plain(t) /\ Len(t) <= MaxLength

\* What can be seen of t is the beginning of what could be seen of name, and
\* all of it unless name was too long.
SeenOf(t, name) ==
    /\ IsPrefix(Without(t, Unseen), Visible(name))
    /\ Without(t, Unseen) = Visible(name) \/ Len(name) > MaxLength

\* sanitizeFilename() gives a safe name, or none if nothing could be seen.
LEMMA SanitizedFits ==
    ASSUME NEW name \in Seq(Kinds)
    PROVE  /\ Fit(SanitizeFilename(name)) /\ SeenOf(SanitizeFilename(name), name)
           /\ SanitizeFilename(name) = Absent <=> Visible(name) = <<>>
<1> DEFINE c == Cleaned(name)
           t == SanitizeFilename(name)
<1>1. Plain(c) /\ Len(c) <= Len(name) /\ Without(c, Unseen) = Visible(name)
  BY CleanedIs
<1>2. c \in Seq(Kinds) /\ Len(c) \in Nat /\ Len(name) \in Nat /\ MaxLength \in Nat
  BY <1>1, LengthAssumption, LenProperties DEF Plain
<1>3. t = IF Len(c) <= MaxLength THEN c ELSE Cut(c)
  BY DEF SanitizeFilename
<1>4. c = <<>> <=> Visible(name) = <<>>
  <2>1. CASE c = <<>>
    BY <1>1, <2>1, WithoutNothing
  <2>2. CASE c # <<>>
    <3>1. Len(c) \in Nat \ {0}
      BY <1>2, <2>2, EmptySeq
    <3>2. 1 \in DOMAIN c /\ 1 \in 1..Len(c)
      BY <1>2, <3>1, LenProperties
    <3>3. c[1] \notin Unseen
      BY <1>1, <2>2, <3>2 DEF Plain, Unseen
    <3>4. Without(c, Unseen) # <<>>
      BY <1>2, <3>2, <3>3, WithoutSome
    <3> QED BY <1>1, <2>2, <3>4
  <2> QED BY <2>1, <2>2
<1> HIDE DEF c, t
<1>5. CASE Len(c) <= MaxLength
  <2>1. t = c
    BY <1>3, <1>5
  <2>2. IsPrefix(Without(c, Unseen), Without(c, Unseen))
    <3>1. Without(c, Unseen) \in Seq(Kinds)
      BY <1>2, WithoutType DEF Part
    <3>2. Len(Without(c, Unseen)) \in Nat
      BY <3>1, LenProperties
    <3> QED BY <3>2 DEF IsPrefix
  <2> QED BY <1>1, <1>4, <1>5, <2>1, <2>2 DEF Fit, SeenOf, Absent, t
<1>6. CASE ~(Len(c) <= MaxLength)
  <2>1. t = Cut(c) /\ Len(c) > MaxLength
    BY <1>2, <1>3, <1>6
  <2>2. Plain(t) /\ Len(t) \in 1..MaxLength /\ IsPrefix(Without(t, Unseen), Without(c, Unseen))
    BY <1>1, <2>1, CutPlain
  <2>3. Len(t) <= MaxLength /\ Len(t) # 0
    BY <1>2, <2>2
  <2>4. t # <<>> /\ c # <<>>
    BY <1>2, <2>1, <2>3, EmptySeq
  <2>5. Len(name) > MaxLength
    BY <1>1, <1>2, <2>1
  <2> QED BY <1>1, <1>4, <2>2, <2>3, <2>4, <2>5 DEF Fit, SeenOf, Absent, t
<1> QED BY <1>5, <1>6

\* A safe name stays as it is, so sanitizeFilename() may be applied again.
LEMMA FitStays ==
    ASSUME NEW t, Fit(t)
    PROVE  SanitizeFilename(t) = t /\ Basename(t) = t
<1>1. /\ t \in Seq(Kinds) /\ \A i \in 1..Len(t) : t[i] \notin {"sep", "ctl"}
      /\ t # <<>> => t[1] # "space" /\ t[Len(t)] # "space"
      /\ Len(t) <= MaxLength /\ Len(t) \in Nat
  BY LenProperties DEF Fit, Plain
<1>2. Basename(t) = t
  <2>1. PICK b \in 0..Len(t) : Basename(t) = SubSeq(t, b + 1, Len(t)) /\ (b = 0 \/ t[b] = "sep")
    BY <1>1, BasenameIs
  <2>2. b = 0
    BY <1>1, <2>1
  <2>3. Basename(t) = SubSeq(t, 1, Len(t))
    BY <2>1, <2>2
  <2> QED BY <1>1, <2>3, SubSeqFull
<1>3. Printable(t) = t
  <2>1. \A i \in DOMAIN t : t[i] \notin {"ctl"}
    BY <1>1, LenProperties
  <2> QED BY <1>1, <2>1, WithoutNone DEF Printable
<1>4. Trim(t) = t
  <2>1. PICK k, m : Trimmed(Trim(t), t, k, m)
    BY <1>1, TrimIs
  <2>2. /\ k \in 0..Len(t) /\ m \in 0..Len(t) /\ k <= m
        /\ Trim(t) = SubSeq(t, k + 1, m)
        /\ \A i \in 1..k : t[i] = "space"
        /\ \A i \in (m + 1)..Len(t) : t[i] = "space"
    BY <2>1 DEF Trimmed
  <2>3. k = 0 /\ m = Len(t)
    <3>1. CASE t = <<>>
      <4>1. Len(t) = 0
        BY <3>1
      <4> QED BY <2>2, <4>1
    <3>2. CASE t # <<>>
      <4>1. k # 0 => 1 \in 1..k
        BY <2>2
      <4>2. m # Len(t) => Len(t) \in (m + 1)..Len(t)
        BY <1>1, <2>2
      <4> QED BY <1>1, <2>2, <3>2, <4>1, <4>2
    <3> QED BY <3>1, <3>2
  <2>4. Trim(t) = SubSeq(t, 1, Len(t))
    BY <2>2, <2>3
  <2> QED BY <1>1, <2>4, SubSeqFull
<1>5. Cleaned(t) = t
  BY <1>2, <1>3, <1>4 DEF Cleaned
<1> QED BY <1>1, <1>2, <1>5 DEF SanitizeFilename

-----------------------------------------------------------------------------
(* Surrogate pairs *)

\* Units k + 1 to m of a whole name are whole, when no pair is cut in two.
LEMMA WholePart ==
    ASSUME NEW name \in Seq(Kinds), Whole(name),
           NEW m \in 0..Len(name), NEW k \in 0..Len(name), k <= m,
           k = 0 \/ name[k] # "hi",
           m = Len(name) \/ name[m + 1] # "lo"
    PROVE  Whole(SubSeq(name, k + 1, m))
<1> DEFINE t == SubSeq(name, k + 1, m)
<1>1. t \in Seq(Kinds) /\ Len(t) = m - k /\ \A i \in 1..(m - k) : t[i] = name[k + i]
  BY PartOf
<1>2. /\ Len(name) \in Nat /\ m \in Nat /\ k \in Nat /\ m <= Len(name) /\ Len(t) \in Nat
  BY <1>1, LenProperties
<1>3. /\ \A i \in 1..Len(name) : name[i] = "hi" => i < Len(name) /\ name[i + 1] = "lo"
      /\ \A i \in 1..Len(name) : name[i] = "lo" => i > 1 /\ name[i - 1] = "hi"
  BY LenProperties DEF Whole
<1> HIDE DEF t
<1>4. ASSUME NEW i \in 1..Len(t), t[i] = "hi"
      PROVE  i < Len(t) /\ t[i + 1] = "lo"
  <2>1. i \in 1..(m - k) /\ k + i \in 1..Len(name) /\ name[k + i] = "hi"
    BY <1>1, <1>2, <1>4
  <2>2. k + i < Len(name) /\ name[(k + i) + 1] = "lo"
    BY <1>3, <2>1
  <2>3. k + i # m
    BY <1>2, <2>2
  <2>4. i + 1 \in 1..(m - k) /\ k + (i + 1) = (k + i) + 1
    BY <1>2, <2>1, <2>3
  <2> QED BY <1>1, <1>2, <2>2, <2>4
<1>5. ASSUME NEW i \in 1..Len(t), t[i] = "lo"
      PROVE  i > 1 /\ t[i - 1] = "hi"
  <2>1. i \in 1..(m - k) /\ k + i \in 1..Len(name) /\ name[k + i] = "lo"
    BY <1>1, <1>2, <1>5
  <2>2. k + i > 1 /\ name[(k + i) - 1] = "hi"
    BY <1>3, <2>1
  <2>3. i # 1
    <3> SUFFICES ASSUME i = 1 PROVE FALSE
      OBVIOUS
    <3>1. (k + i) - 1 = k /\ k # 0
      BY <1>2, <2>2
    <3> QED BY <2>2, <3>1
  <2>4. i - 1 \in 1..(m - k) /\ k + (i - 1) = (k + i) - 1 /\ i > 1
    BY <1>2, <2>1, <2>3
  <2> QED BY <1>1, <2>2, <2>4
<1>6. Whole(t)
  BY <1>1, <1>4, <1>5, LenProperties DEF Whole
<1> QED BY <1>6 DEF t

\* v is what is left of the first units of a name, whose last pair may have
\* its second half to come.
Pairs(v, t) ==
    /\ v \in Seq(Kinds)
    /\ \A i \in 1..Len(v) : v[i] = "hi" => i = Len(v) \/ v[i + 1] = "lo"
    /\ \A i \in 1..Len(v) : v[i] = "lo" => i > 1 /\ v[i - 1] = "hi"
    /\ Len(v) > 0 /\ v[Len(v)] = "hi" <=> Len(t) > 0 /\ t[Len(t)] = "hi"

\* They grow unit by unit: the second half of a pair follows the first.
LEMMA PairsGrow ==
    ASSUME NEW t \in Seq(Kinds), NEW v, NEW u \in Kinds, Pairs(v, t),
           u = "lo" <=> Len(t) > 0 /\ t[Len(t)] = "hi"
    PROVE  Pairs(IF u \in {"ctl"} THEN v ELSE Append(v, u), Append(t, u))
<1> DEFINE n == Len(v)
           more == Append(t, u)
           w == Append(v, u)
           last == Len(t) > 0 /\ t[Len(t)] = "hi"
<1>1. /\ v \in Seq(Kinds) /\ n \in Nat
      /\ \A i \in 1..n : v[i] = "hi" => i = n \/ v[i + 1] = "lo"
      /\ \A i \in 1..n : v[i] = "lo" => i > 1 /\ v[i - 1] = "hi"
      /\ n > 0 /\ v[n] = "hi" <=> last
  BY LenProperties DEF Pairs
<1>2. Len(more) > 0 /\ more[Len(more)] = u
  OBVIOUS
<1>3. w \in Seq(Kinds) /\ Len(w) = n + 1 /\ w[n + 1] = u /\ \A i \in 1..n : w[i] = v[i]
  BY <1>1
<1>4. u = "lo" <=> last
  OBVIOUS
<1> HIDE DEF last, more, w, n
<1>5. CASE u = "ctl"
  <2>1. ~last
    BY <1>4, <1>5
  <2>2. ~(Len(more) > 0 /\ more[Len(more)] = "hi")
    BY <1>2, <1>5
  <2>3. Pairs(v, more)
    BY <1>1, <2>1, <2>2 DEF Pairs, n
  <2> QED BY <1>5, <2>3 DEF more
<1>6. CASE u # "ctl"
  <2>1. ASSUME NEW i \in 1..(n + 1), w[i] = "hi"
        PROVE  i = n + 1 \/ w[i + 1] = "lo"
    <3> SUFFICES ASSUME i # n + 1 PROVE w[i + 1] = "lo"
      OBVIOUS
    <3>1. i \in 1..n /\ v[i] = "hi"
      BY <1>1, <1>3, <2>1
    <3>2. CASE i = n
      <4>1. last
        BY <1>1, <3>1, <3>2
      <4> QED BY <1>3, <1>4, <3>2, <4>1
    <3>3. CASE i # n
      <4>1. i + 1 \in 1..n /\ v[i + 1] = "lo"
        BY <1>1, <3>1, <3>3
      <4> QED BY <1>3, <4>1
    <3> QED BY <3>2, <3>3
  <2>2. ASSUME NEW i \in 1..(n + 1), w[i] = "lo"
        PROVE  i > 1 /\ w[i - 1] = "hi"
    <3>1. CASE i = n + 1
      <4>1. n > 0 /\ v[n] = "hi"
        BY <1>1, <1>3, <1>4, <2>2, <3>1
      <4>2. n \in 1..n /\ i - 1 = n /\ i > 1
        BY <1>1, <3>1, <4>1
      <4> QED BY <1>3, <4>1, <4>2
    <3>2. CASE i # n + 1
      <4>1. i \in 1..n /\ v[i] = "lo"
        BY <1>1, <1>3, <2>2, <3>2
      <4>2. i > 1 /\ v[i - 1] = "hi"
        BY <1>1, <4>1
      <4>3. i - 1 \in 1..n
        BY <1>1, <4>1, <4>2
      <4> QED BY <1>3, <4>2, <4>3
    <3> QED BY <3>1, <3>2
  <2>3. Len(w) > 0
    BY <1>1, <1>3
  <2>4. Pairs(w, more)
    BY <1>2, <1>3, <2>1, <2>2, <2>3 DEF Pairs
  <2> QED BY <1>6, <2>4 DEF more, w
<1> QED BY <1>5, <1>6

\* Control characters are not between the halves of a pair.
LEMMA WholePrintable ==
    ASSUME NEW name \in Seq(Kinds), Whole(name)
    PROVE  Whole(Printable(name))
<1> DEFINE P == {t \in Seq(Kinds) : Pairs(Printable(t), t)}
           n == Len(name)
<1>1. n \in Nat /\ DOMAIN name = 1..n /\ \A i \in 1..n : name[i] \in Kinds
  BY LenProperties
<1>2. /\ \A i \in 1..n : name[i] = "hi" => i < n /\ name[i + 1] = "lo"
      /\ \A i \in 1..n : name[i] = "lo" => i > 1 /\ name[i - 1] = "hi"
  BY <1>1 DEF Whole
<1> HIDE DEF n
<1>3. <<>> \in P
  <2>1. Printable(<<>>) = <<>>
    BY WithoutNothing DEF Printable
  <2>2. Pairs(<<>>, <<>>)
    BY DEF Pairs
  <2> QED BY <2>1, <2>2
<1>4. ASSUME NEW i \in 0..(n - 1), Begin(name, i) \in P
      PROVE  Append(Begin(name, i), name[i + 1]) \in P
  <2> DEFINE t == Begin(name, i)
             u == name[i + 1]
  <2>1. t \in Seq(Kinds) /\ Pairs(Printable(t), t)
    BY <1>4
  <2>2. /\ i \in 0..n /\ i + 1 \in 1..n /\ u \in Kinds /\ i \in Nat
        /\ i > 0 => i \in 1..n /\ i < n
    BY <1>1
  <2>3. Len(t) = i
    BY <2>2, Begins DEF n
  <2>4. i > 0 => t[i] = name[i]
    <3> SUFFICES ASSUME i > 0 PROVE t[i] = name[i]
      OBVIOUS
    <3>1. i \in 0..Len(name) /\ i \in 1..i
      BY <2>2 DEF n
    <3> QED BY <3>1, FirstUnits DEF Begin
  <2> HIDE DEF t
  <2>5. u = "lo" <=> Len(t) > 0 /\ t[Len(t)] = "hi"
    <3>1. CASE i = 0
      <4>1. u # "lo"
        BY <1>2, <2>2, <3>1
      <4> QED BY <2>3, <3>1, <4>1
    <3>2. CASE i > 0
      <4>1. name[i] = "hi" => u = "lo"
        BY <1>2, <2>2, <3>2
      <4>2. u = "lo" => name[(i + 1) - 1] = "hi"
        BY <1>2, <2>2
      <4>3. (i + 1) - 1 = i
        BY <2>2
      <4> QED BY <2>3, <2>4, <3>2, <4>1, <4>2, <4>3
    <3> QED BY <2>2, <3>1, <3>2
  <2> HIDE DEF u
  <2>6. Pairs(IF u \in {"ctl"} THEN Printable(t) ELSE Append(Printable(t), u), Append(t, u))
    BY <2>1, <2>2, <2>5, PairsGrow
  <2>7. Printable(Append(t, u)) = IF u \in {"ctl"} THEN Printable(t) ELSE Append(Printable(t), u)
    BY <2>1, <2>2, WithoutAppend DEF Printable
  <2>8. Append(t, u) \in Seq(Kinds)
    BY <2>1, <2>2
  <2> QED BY <2>6, <2>7, <2>8 DEF t, u
<1> HIDE DEF P
<1>5. name \in P
  BY <1>3, <1>4, NameInd DEF n
<1> DEFINE v == Printable(name)
<1>6. /\ v \in Seq(Kinds)
      /\ \A i \in 1..Len(v) : v[i] = "hi" => i = Len(v) \/ v[i + 1] = "lo"
      /\ \A i \in 1..Len(v) : v[i] = "lo" => i > 1 /\ v[i - 1] = "hi"
      /\ Len(v) > 0 /\ v[Len(v)] = "hi" <=> n > 0 /\ name[n] = "hi"
  BY <1>5 DEF P, Pairs, n
<1>7. Len(v) \in Nat
  BY <1>6, LenProperties
<1> HIDE DEF v
<1>8. ~(n > 0 /\ name[n] = "hi")
  <2> SUFFICES ASSUME n > 0, name[n] = "hi" PROVE FALSE
    OBVIOUS
  <2>1. n \in 1..n
    BY <1>1
  <2> QED BY <1>1, <1>2, <2>1
<1>9. \A i \in 1..Len(v) : v[i] = "hi" => i < Len(v) /\ v[i + 1] = "lo"
  <2> SUFFICES ASSUME NEW i \in 1..Len(v), v[i] = "hi" PROVE i < Len(v) /\ v[i + 1] = "lo"
    OBVIOUS
  <2>1. i # Len(v)
    <3> SUFFICES ASSUME i = Len(v) PROVE FALSE
      OBVIOUS
    <3>1. Len(v) > 0 /\ v[Len(v)] = "hi"
      BY <1>7
    <3> QED BY <1>6, <1>8, <3>1
  <2>2. i = Len(v) \/ v[i + 1] = "lo"
    BY <1>6
  <2> QED BY <1>7, <2>1, <2>2
<1>10. Whole(v)
  BY <1>6, <1>9, LenProperties DEF Whole
<1> QED BY <1>10 DEF v

\* sanitizeFilename() leaves pairs whole if they were.
LEMMA SanitizedWhole ==
    ASSUME NEW name \in Seq(Kinds), Whole(name)
    PROVE  Whole(SanitizeFilename(name))
<1> DEFINE base == Basename(name)
           p == Printable(base)
           c == Trim(p)
<1>1. Len(name) \in Nat /\ Len(name) \in 0..Len(name)
  BY LenProperties
<1>2. PICK b \in 0..Len(name) : base = SubSeq(name, b + 1, Len(name)) /\ (b = 0 \/ name[b] = "sep")
  BY BasenameIs
<1>3. b <= Len(name) /\ (b = 0 \/ name[b] # "hi")
  BY <1>1, <1>2
<1>4. base \in Seq(Kinds) /\ Whole(base)
  BY <1>1, <1>2, <1>3, PartOf, WholePart
<1>5. c = Cleaned(name)
  BY DEF Cleaned
<1> HIDE DEF base
<1>6. p \in Seq(Kinds) /\ Whole(p)
  BY <1>4, WithoutType, WholePrintable DEF Part, Printable
<1> HIDE DEF p
<1>7. PICK k, e : Trimmed(c, p, k, e)
  BY <1>6, TrimIs
<1>8. /\ k \in 0..Len(p) /\ e \in 0..Len(p) /\ k <= e /\ c = SubSeq(p, k + 1, e)
      /\ \A i \in 1..k : p[i] = "space"
      /\ \A i \in (e + 1)..Len(p) : p[i] = "space"
      /\ Len(p) \in Nat
  BY <1>6, <1>7, LenProperties DEF Trimmed
<1>9. c \in Seq(Kinds) /\ Whole(c)
  <2>1. k = 0 \/ p[k] # "hi"
    <3>1. k # 0 => k \in 1..k
      BY <1>8
    <3> QED BY <1>8, <3>1
  <2>2. e = Len(p) \/ p[e + 1] # "lo"
    <3>1. e # Len(p) => e + 1 \in (e + 1)..Len(p)
      BY <1>8
    <3> QED BY <1>8, <3>1
  <2> QED BY <1>6, <1>8, <2>1, <2>2, PartOf, WholePart
<1>10. SanitizeFilename(name) = IF Len(c) <= MaxLength THEN c ELSE Cut(c)
  BY <1>5 DEF SanitizeFilename
<1> HIDE DEF c
<1>11. CASE Len(c) <= MaxLength
  BY <1>9, <1>10, <1>11
<1>12. CASE ~(Len(c) <= MaxLength)
  <2>1. Len(c) \in Nat /\ MaxLength \in Nat
    BY <1>9, LenProperties, LengthAssumption
  <2>2. PICK q, m : CutAt(c, q, m)
    BY <1>9, <1>12, <2>1, CutIs
  <2>3. /\ q \in 1..MaxLength /\ q < Len(c) /\ m \in 0..q /\ Cut(c) = SubSeq(c, 1, m)
        /\ \A i \in (m + 1)..q : c[i] = "space"
        /\ \/ q = MaxLength /\ c[q] # "hi"
           \/ q + 1 = MaxLength /\ c[q + 1] = "hi"
    BY <2>2 DEF CutAt
  <2>4. m \in 0..Len(c) /\ 0 \in 0..Len(c) /\ 0 <= m /\ 0 + 1 = 1 /\ q + 1 \in 1..Len(c) /\ q \in 1..Len(c)
    BY <2>1, <2>3
  <2>5. c[m + 1] # "lo"
    <3>1. CASE m = q
      <4> SUFFICES ASSUME c[q + 1] = "lo" PROVE FALSE
        BY <3>1
      <4>1. q + 1 \in DOMAIN c
        BY <1>9, <2>4, LenProperties
      <4>2. c[(q + 1) - 1] = "hi"
        BY <1>9, <4>1 DEF Whole
      <4>3. (q + 1) - 1 = q
        BY <2>1, <2>3
      <4> QED BY <2>3, <4>2, <4>3
    <3>2. CASE m # q
      <4>1. m + 1 \in (m + 1)..q
        BY <2>1, <2>3, <3>2
      <4> QED BY <2>3, <4>1
    <3> QED BY <3>1, <3>2
  <2>6. Whole(SubSeq(c, 0 + 1, m))
    BY <1>9, <2>4, <2>5, WholePart
  <2> QED BY <1>10, <1>12, <2>3, <2>4, <2>6
<1> QED BY <1>11, <1>12

-----------------------------------------------------------------------------
(* The candidates *)

\* The candidates of which anything can be seen.
Good(o) == {i \in DOMAIN o : Visible(o[i]) # <<>>}

\* t is the first good candidate, made safe, or the name of last resort.
Chosen(t, o) == t = IF Good(o) = {} THEN Default ELSE SanitizeFilename(o[Min(Good(o))])

\* The first of the sanitized candidates is the first good one.
LEMMA FirstChosen ==
    ASSUME NEW o \in Seq(Seq(Kinds)), NEW names, DOMAIN names = DOMAIN o,
           \A i \in DOMAIN o : names[i] = SanitizeFilename(o[i])
    PROVE  Chosen(FirstOf(names), o)
<1> DEFINE usable == {i \in DOMAIN names : names[i] # Absent}
<1>1. \A i \in DOMAIN o : o[i] \in Seq(Kinds) /\ i \in Nat
  BY LenProperties
<1>2. usable = Good(o)
  <2>1. \A i \in DOMAIN o : names[i] # Absent <=> Visible(o[i]) # <<>>
    BY <1>1, SanitizedFits
  <2> QED BY <2>1 DEF Good
<1>3. FirstOf(names) = IF usable = {} THEN Default ELSE names[Min(usable)]
  BY DEF FirstOf
<1> HIDE DEF usable
<1>4. CASE Good(o) = {}
  BY <1>2, <1>3, <1>4 DEF Chosen
<1>5. CASE Good(o) # {}
  <2>1. Good(o) \in SUBSET Nat
    BY <1>1 DEF Good
  <2>2. Min(Good(o)) \in Good(o)
    BY <1>5, <2>1, MinOf
  <2>3. Min(Good(o)) \in DOMAIN o
    BY <2>2 DEF Good
  <2> QED BY <1>2, <1>3, <1>5, <2>3 DEF Chosen
<1> QED BY <1>4, <1>5

\* resolveFilename() of uploads/routes.ts chooses the first good candidate.
LEMMA ResolvedFilename ==
    ASSUME NEW b64 \in Seq(Kinds), NEW header \in Seq(Kinds), NEW ticket \in Seq(Kinds)
    PROVE  /\ <<DecodeFilenameB64(b64), header, ticket>> \in Seq(Seq(Kinds))
           /\ Chosen(ResolveFilename(b64, header, ticket),
                     <<DecodeFilenameB64(b64), header, ticket>>)
<1> DEFINE d == DecodeFilenameB64(b64)
           o == <<d, header, ticket>>
           names == <<SanitizeFilename(d), SanitizeFilename(header), SanitizeFilename(ticket)>>
<1>1. d \in Seq(Kinds)
  BY DEF DecodeFilenameB64, Absent
<1>2. FirstOf(names) = ResolveFilename(b64, header, ticket)
  BY DEF ResolveFilename
<1> HIDE DEF d
<1>3. o \in Seq(Seq(Kinds))
  BY <1>1
<1>4. DOMAIN names = DOMAIN o /\ \A i \in DOMAIN o : names[i] = SanitizeFilename(o[i])
  OBVIOUS
<1> HIDE DEF o, names
<1>5. Chosen(FirstOf(names), o)
  BY <1>3, <1>4, FirstChosen
<1> QED BY <1>2, <1>3, <1>5 DEF o, d

\* So does resolveDownloadName() of tools/url-upload.ts, though two of the four
\* candidates are one to it.
LEMMA ResolvedDownload ==
    ASSUME NEW override \in Seq(Kinds), NEW extended \in Seq(Kinds), NEW plain \in Seq(Kinds),
           NEW last \in Seq(Kinds)
    PROVE  Chosen(ResolveDownloadName(override, extended, plain, last),
                  <<override, extended, plain, last>>)
<1> DEFINE o == <<override, extended, plain, last>>
           three == <<SanitizeFilename(override), FilenameFromDisposition(extended, plain),
                      SanitizeFilename(last)>>
           usable == {i \in DOMAIN three : three[i] # Absent}
           t == ResolveDownloadName(override, extended, plain, last)
<1>1. /\ SanitizeFilename(override) # Absent <=> Visible(override) # <<>>
      /\ SanitizeFilename(extended) # Absent <=> Visible(extended) # <<>>
      /\ SanitizeFilename(plain) # Absent <=> Visible(plain) # <<>>
      /\ SanitizeFilename(last) # Absent <=> Visible(last) # <<>>
  BY SanitizedFits
<1>2. t = IF usable = {} THEN Default ELSE three[Min(usable)]
  BY DEF ResolveDownloadName, FirstOf
<1>3. usable = {i \in 1..3 : three[i] # Absent} /\ Good(o) = {i \in 1..4 : Visible(o[i]) # <<>>}
  BY DEF Good
<1>4. FilenameFromDisposition(extended, plain)
        = IF SanitizeFilename(extended) # Absent THEN SanitizeFilename(extended)
          ELSE SanitizeFilename(plain)
  BY DEF FilenameFromDisposition
<1>5. /\ 1 \in usable <=> SanitizeFilename(override) # Absent
      /\ 2 \in usable <=> SanitizeFilename(extended) # Absent \/ SanitizeFilename(plain) # Absent
      /\ 3 \in usable <=> SanitizeFilename(last) # Absent
      /\ usable \in SUBSET (1..3)
  BY <1>3, <1>4
<1>6. /\ 1 \in Good(o) <=> SanitizeFilename(override) # Absent
      /\ 2 \in Good(o) <=> SanitizeFilename(extended) # Absent
      /\ 3 \in Good(o) <=> SanitizeFilename(plain) # Absent
      /\ 4 \in Good(o) <=> SanitizeFilename(last) # Absent
      /\ Good(o) \in SUBSET (1..4)
  <2>1. o[1] = override /\ o[2] = extended /\ o[3] = plain /\ o[4] = last
    OBVIOUS
  <2>2. Good(o) = {i \in 1..4 : Visible(o[i]) # <<>>}
    BY <1>3
  <2>3. 1 \in 1..4 /\ 2 \in 1..4 /\ 3 \in 1..4 /\ 4 \in 1..4
    OBVIOUS
  <2> HIDE DEF o
  <2>4. 1 \in Good(o) <=> Visible(override) # <<>>
    BY <2>1, <2>2, <2>3
  <2>5. 2 \in Good(o) <=> Visible(extended) # <<>>
    BY <2>1, <2>2, <2>3
  <2>6. 3 \in Good(o) <=> Visible(plain) # <<>>
    BY <2>1, <2>2, <2>3
  <2>7. 4 \in Good(o) <=> Visible(last) # <<>>
    BY <2>1, <2>2, <2>3
  <2>8. Good(o) \in SUBSET (1..4)
    BY <2>2
  <2> QED BY <1>1, <2>4, <2>5, <2>6, <2>7, <2>8
<1>7. /\ three[1] = SanitizeFilename(override)
      /\ three[2] = FilenameFromDisposition(extended, plain)
      /\ three[3] = SanitizeFilename(last)
      /\ o[1] = override /\ o[2] = extended /\ o[3] = plain /\ o[4] = last
  OBVIOUS
<1> HIDE DEF o, three, usable, t
<1>8. usable \in SUBSET Nat /\ Good(o) \in SUBSET Nat
  BY <1>5, <1>6
<1>9. CASE SanitizeFilename(override) # Absent
  <2>a. 1 \in usable /\ 1 \in Good(o)
    BY <1>5, <1>6, <1>9
  <2>b. \A y \in usable : 1 <= y
    BY <1>5
  <2>c. \A y \in Good(o) : 1 <= y
    BY <1>6
  <2>1. 1 \in usable /\ 1 \in Good(o) /\ (\A y \in usable : 1 <= y) /\ (\A y \in Good(o) : 1 <= y)
    BY <2>a, <2>b, <2>c
  <2>2. Min(usable) = 1 /\ Min(Good(o)) = 1
    BY <1>8, <2>1, MinIs
  <2> QED BY <1>2, <1>7, <2>1, <2>2 DEF Chosen, o, t
<1>10. CASE SanitizeFilename(override) = Absent /\ SanitizeFilename(extended) # Absent
  <2>1. /\ 2 \in usable /\ 2 \in Good(o) /\ 1 \notin usable /\ 1 \notin Good(o)
    BY <1>5, <1>6, <1>10
  <2>2. (\A y \in usable : 2 <= y) /\ (\A y \in Good(o) : 2 <= y)
    BY <1>5, <1>6, <2>1
  <2>3. Min(usable) = 2 /\ Min(Good(o)) = 2
    BY <1>8, <2>1, <2>2, MinIs
  <2> QED BY <1>2, <1>4, <1>7, <1>10, <2>1, <2>3 DEF Chosen, o, t
<1>11. CASE /\ SanitizeFilename(override) = Absent /\ SanitizeFilename(extended) = Absent
            /\ SanitizeFilename(plain) # Absent
  <2>1. /\ 2 \in usable /\ 3 \in Good(o) /\ 1 \notin usable /\ 1 \notin Good(o) /\ 2 \notin Good(o)
    BY <1>5, <1>6, <1>11
  <2>2. (\A y \in usable : 2 <= y) /\ (\A y \in Good(o) : 3 <= y)
    BY <1>5, <1>6, <2>1
  <2>3. Min(usable) = 2 /\ Min(Good(o)) = 3
    BY <1>8, <2>1, <2>2, MinIs
  <2> QED BY <1>2, <1>4, <1>7, <1>11, <2>1, <2>3 DEF Chosen, o, t
<1>12. CASE /\ SanitizeFilename(override) = Absent /\ SanitizeFilename(extended) = Absent
            /\ SanitizeFilename(plain) = Absent /\ SanitizeFilename(last) # Absent
  <2>1. /\ 3 \in usable /\ 4 \in Good(o) /\ 1 \notin usable /\ 2 \notin usable
        /\ 1 \notin Good(o) /\ 2 \notin Good(o) /\ 3 \notin Good(o)
    BY <1>5, <1>6, <1>12
  <2>2. (\A y \in usable : 3 <= y) /\ (\A y \in Good(o) : 4 <= y)
    <3>1. \A y \in usable : 3 <= y
      BY <1>5, <2>1
    <3>2. \A y \in Good(o) : 4 <= y
      BY <1>6, <2>1
    <3> QED BY <3>1, <3>2
  <2>3. Min(usable) = 3 /\ Min(Good(o)) = 4
    BY <1>8, <2>1, <2>2, MinIs
  <2> QED BY <1>2, <1>7, <1>12, <2>1, <2>3 DEF Chosen, o, t
<1>13. CASE /\ SanitizeFilename(override) = Absent /\ SanitizeFilename(extended) = Absent
            /\ SanitizeFilename(plain) = Absent /\ SanitizeFilename(last) = Absent
  <2>1. \A i \in 1..3 : i \notin usable
    BY <1>5, <1>13
  <2>2. \A i \in 1..4 : i \notin Good(o)
    BY <1>6, <1>13
  <2>3. usable = {} /\ Good(o) = {}
    BY <1>5, <1>6, <2>1, <2>2
  <2> QED BY <1>2, <2>3 DEF Chosen, o, t
<1> QED BY <1>9, <1>10, <1>11, <1>12, <1>13

-----------------------------------------------------------------------------
(* What NamesSafe and NamedAsOffered say of the name t of the candidates o *)

\* NamesSafe and NamedAsOffered, of any name and candidates.
SafeName(t, o) == t # Absent =>
    /\ Len(t) \in 1 .. MaxLength
    /\ \A i \in DOMAIN t : t[i] \notin {"sep", "ctl"}
    /\ t[1] # "space" /\ t[Len(t)] # "space"
    /\ (\A i \in DOMAIN o : Whole(o[i])) => Whole(t)
    /\ SanitizeFilename(t) = t

BestName(t, o) == o # <<>> =>
    IF Good(o) = {} THEN t = Default
    ELSE /\ Visible(t) # <<>> /\ IsPrefix(Visible(t), Visible(o[Min(Good(o))]))
         /\ Visible(t) = Visible(o[Min(Good(o))]) \/ Len(o[Min(Good(o))]) > MaxLength

\* The name that is chosen is safe, and it is the best.
LEMMA ChosenSafe ==
    ASSUME NEW o \in Seq(Seq(Kinds)), NEW t, Chosen(t, o)
    PROVE  SafeName(t, o) /\ BestName(t, o)
<1>1. MaxLength \in Nat /\ MaxLength > 1
  BY LengthAssumption
<1>2. ASSUME Fit(t), (\A i \in DOMAIN o : Whole(o[i])) => Whole(t)
      PROVE  SafeName(t, o)
  <2> SUFFICES ASSUME t # Absent PROVE SafeName(t, o)
    BY DEF SafeName
  <2>1. /\ t \in Seq(Kinds) /\ \A i \in 1..Len(t) : t[i] \notin {"sep", "ctl"}
        /\ t[1] # "space" /\ t[Len(t)] # "space" /\ Len(t) <= MaxLength
    BY <1>2 DEF Fit, Plain, Absent
  <2>2. Len(t) \in Nat \ {0}
    BY <2>1, EmptySeq DEF Absent
  <2>3. Len(t) \in 1..MaxLength
    BY <1>1, <2>1, <2>2
  <2>4. \A i \in DOMAIN t : t[i] \notin {"sep", "ctl"}
    BY <2>1, LenProperties
  <2>5. SanitizeFilename(t) = t
    BY <1>2, FitStays
  <2> QED BY <1>2, <2>1, <2>3, <2>4, <2>5 DEF SafeName
<1>3. CASE Good(o) = {}
  <2>1. t = <<"fixed">> /\ t = Default
    BY <1>3 DEF Chosen, Default
  <2>2. /\ t \in Seq(Kinds) /\ Len(t) = 1 /\ \A i \in 1..1 : t[i] = "fixed"
        /\ DOMAIN t = 1..1 /\ 1 \in 1..1
    BY <2>1 DEF Kinds
  <2>3. Fit(t)
    BY <1>1, <2>2 DEF Fit, Plain
  <2>4. Whole(t)
    BY <2>2 DEF Whole
  <2> QED BY <1>2, <1>3, <2>1, <2>3, <2>4 DEF BestName
<1>4. CASE Good(o) # {}
  <2> DEFINE j == Min(Good(o))
             best == o[j]
  <2>1. Good(o) \in SUBSET Nat
    BY LenProperties DEF Good
  <2>2. j \in Good(o)
    BY <1>4, <2>1, MinOf
  <2>3. j \in DOMAIN o /\ Visible(best) # <<>>
    BY <2>2 DEF Good
  <2>4. best \in Seq(Kinds)
    BY <2>3, LenProperties
  <2>5. t = SanitizeFilename(best)
    BY <1>4 DEF Chosen
  <2> HIDE DEF j
  <2>6. Fit(t) /\ SeenOf(t, best) /\ t # Absent
    BY <2>3, <2>4, <2>5, SanitizedFits
  <2>7. Whole(best) => Whole(t)
    BY <2>4, <2>5, SanitizedWhole
  <2>8. SafeName(t, o)
    BY <1>2, <2>3, <2>6, <2>7
  <2>9. Visible(t) = Without(t, Unseen)
    BY <2>6, FitStays DEF Visible, Unseen
  <2>10. Visible(t) # <<>>
    <3>1. t \in Seq(Kinds) /\ SanitizeFilename(t) = t
      BY <2>6, FitStays DEF Fit, Plain
    <3> QED BY <2>6, <3>1, SanitizedFits
  <2> HIDE DEF best
  <2>11. IsPrefix(Visible(t), Visible(best)) /\ (Visible(t) = Visible(best) \/ Len(best) > MaxLength)
    BY <2>6, <2>9 DEF SeenOf
  <2>12. BestName(t, o)
    BY <1>4, <2>10, <2>11 DEF BestName, best, j
  <2> QED BY <2>8, <2>12
<1> QED BY <1>3, <1>4

-----------------------------------------------------------------------------
\* These are the properties, of the name stored and the candidates offered.
LEMMA NamesSafeIs ==
    /\ NamesSafe <=> SafeName(stored, offered)
    /\ NamedAsOffered <=> BestName(stored, offered)
<1>1. NamesSafe <=> SafeName(stored, offered)
  BY DEF NamesSafe, SafeName
<1>2. NamedAsOffered <=> BestName(stored, offered)
  BY DEF NamedAsOffered, BestName, Good
<1> QED BY <1>1, <1>2

\* Every action establishes both, whatever the state before.
NamesInv == NamesSafe /\ NamedAsOffered

\* Nothing is stored at first.
LEMMA NamesInitially == NameInit => NamesInv
BY DEF NameInit, NamesInv, NamesSafe, NamedAsOffered, Absent

\* Either upload stores a name that is safe and the best.
LEMMA TicketNamed ==
    ASSUME NEW b64 \in Seq(Kinds), NEW header \in Seq(Kinds), NEW ticket \in Seq(Kinds),
           UploadByTicket(b64, header, ticket)
    PROVE  NamesInv'
<1>1. offered' \in Seq(Seq(Kinds)) /\ Chosen(stored', offered')
  BY ResolvedFilename DEF UploadByTicket
<1>2. SafeName(stored', offered') /\ BestName(stored', offered')
  BY <1>1, ChosenSafe
<1> QED BY <1>2 DEF NamesInv, NamesSafe, NamedAsOffered, SafeName, BestName, Good

\* So does a download.
LEMMA DownloadNamed ==
    ASSUME NEW override \in Seq(Kinds), NEW extended \in Seq(Kinds), NEW plain \in Seq(Kinds),
           NEW last \in Seq(Kinds), UploadFromUrl(override, extended, plain, last)
    PROVE  NamesInv'
<1>1. offered' = <<override, extended, plain, last>>
      /\ stored' = ResolveDownloadName(override, extended, plain, last)
  BY DEF UploadFromUrl
<1>2. offered' \in Seq(Seq(Kinds))
  BY <1>1
<1>3. Chosen(stored', offered')
  BY <1>1, ResolvedDownload
<1>4. SafeName(stored', offered') /\ BestName(stored', offered')
  BY <1>2, <1>3, ChosenSafe
<1> QED BY <1>4 DEF NamesInv, NamesSafe, NamedAsOffered, SafeName, BestName, Good

\* Every step keeps both.
LEMMA NamesStep == NamesInv /\ [NameNext]_nameVars => NamesInv'
<1> SUFFICES ASSUME NamesInv, [NameNext]_nameVars PROVE NamesInv'
  OBVIOUS
<1>1. Absent \in Seq(Kinds) /\ \A name \in Arriving \cup Others : name \in Seq(Kinds)
  BY NamesAssumption DEF Absent
<1>2. CASE NameNext
  <2>1. PICK name \in Arriving, a \in Others, b \in Others :
          \/ UploadByTicket(name, a, b) \/ UploadByTicket(a, name, b) \/ UploadByTicket(a, b, name)
          \/ UploadFromUrl(name, Absent, a, b) \/ UploadFromUrl(Absent, name, a, b)
          \/ UploadFromUrl(a, Absent, name, b) \/ UploadFromUrl(Absent, a, b, name)
    BY <1>2 DEF NameNext
  <2>2. name \in Seq(Kinds) /\ a \in Seq(Kinds) /\ b \in Seq(Kinds) /\ Absent \in Seq(Kinds)
    BY <1>1
  <2> QED BY <2>1, <2>2, TicketNamed, DownloadNamed
<1>3. CASE UNCHANGED nameVars
  BY <1>3 DEF nameVars, NamesInv, NamesSafe, NamedAsOffered
<1> QED BY <1>2, <1>3

\* A stored name is fit for a multipart field and for a line of a log, for any
\* names that arrive, of any length, and any limit of two units or more.
THEOREM NamesAreSafe == NameSpec => []NamesSafe
<1>1. NamesInv => NamesSafe
  BY DEF NamesInv
<1> QED BY <1>1, NamesInitially, NamesStep, PTL DEF NameSpec

\* The first candidate of which anything can be seen names the file
\* (uploads/routes.ts, tools/url-upload.ts): none that is good is lost.
THEOREM NamesAreKept == NameSpec => []NamedAsOffered
<1>1. NamesInv => NamedAsOffered
  BY DEF NamesInv
<1> QED BY <1>1, NamesInitially, NamesStep, PTL DEF NameSpec

-----------------------------------------------------------------------------

(* What the recursive functions of Merge compute, level by level. *)

\* What a property of an object may hold that has at most n inside it.
ValuesTo(n) == [leaf : Scalar] \cup {Undefined} \cup (IF n = 0 THEN {} ELSE ObjectsTo[n - 1])

\* Objects are built level by level.
LEMMA ObjectsLevels ==
    \A n \in Nat : ObjectsTo[n] = [object : [Property -> ValuesTo(n)]]
<1> DEFINE Flat == [leaf : Scalar] \cup {Undefined}
           Lev(g, n) == [object : [Property -> Flat \cup (IF n = 0 THEN {} ELSE g[n - 1])]]
           Upto(g, n) == g = [i \in 0..n |-> Lev(g, i)]
           P == {n \in Nat : \E g : Upto(g, n)}
<1>1. 0 \in P
  <2> DEFINE g == [i \in 0..0 |-> Lev(<<>>, 0)]
  <2>0. \A i \in 0..0 : i = 0
    OBVIOUS
  <2>1. Lev(g, 0) = Lev(<<>>, 0)
    OBVIOUS
  <2>2. Upto(g, 0)
    <3> HIDE DEF Lev
    <3> QED BY <2>0, <2>1
  <2> QED BY <2>2
<1>2. ASSUME NEW n \in Nat, NEW g, Upto(g, n)
      PROVE  /\ \A i \in 0..n : g[i] = Lev(g, i)
             /\ \A i \in 0..(n + 1) : \A h : (i # 0 => h[i - 1] = g[i - 1]) => Lev(h, i) = Lev(g, i)
  <2>1. \A i \in 0..(n + 1) : \A h : (i # 0 => h[i - 1] = g[i - 1]) => Lev(h, i) = Lev(g, i)
    OBVIOUS
  <2> HIDE DEF Lev
  <2> QED BY <1>2, <2>1
<1>3. ASSUME NEW n \in Nat, n \in P
      PROVE  n + 1 \in P
  <2>1. PICK g : Upto(g, n)
    BY <1>3
  <2> DEFINE h == [i \in 0..(n + 1) |-> Lev(g, i)]
  <2>2. \A i \in 0..n : g[i] = h[i]
    <3> HIDE DEF Lev
    <3> QED BY <1>2, <2>1
  <2>3. \A i \in 0..(n + 1) : i # 0 => i - 1 \in 0..n
    OBVIOUS
  <2>4. \A i \in 0..(n + 1) : Lev(h, i) = Lev(g, i)
    <3> HIDE DEF h, Lev
    <3> QED BY <1>2, <2>1, <2>2, <2>3
  <2>5. Upto(h, n + 1)
    <3> HIDE DEF Lev
    <3> QED BY <2>4
  <2> HIDE DEF Upto
  <2> QED BY <2>5
<1> DEFINE the(n) == CHOOSE g : Upto(g, n)
           all == [n \in Nat |-> the(n)[n]]
<1>4. \A n \in Nat : Upto(the(n), n)
  <2> HIDE DEF Upto
  <2>1. Nat \subseteq P
    <3> HIDE DEF P
    <3> QED BY <1>1, <1>3, NatInd
  <2> QED BY <2>1
<1> HIDE DEF the, Upto, P, Lev
<1>5. ASSUME NEW m \in Nat, NEW n \in 0..m
      PROVE  the(n)[n] = the(m)[n]
  <2> DEFINE Q == {i \in Nat : i <= n => the(n)[i] = the(m)[i]}
  <2>0. n \in Nat /\ Upto(the(n), n) /\ Upto(the(m), m)
    BY <1>4
  <2>1. 0 \in Q
    <3>1. the(n)[0] = Lev(the(n), 0) /\ the(m)[0] = Lev(the(m), 0)
      BY <1>2, <2>0
    <3>2. Lev(the(m), 0) = Lev(the(n), 0)
      BY <1>2, <2>0
    <3> QED BY <3>1, <3>2
  <2>2. ASSUME NEW i \in Nat, i \in Q
        PROVE  i + 1 \in Q
    <3> SUFFICES ASSUME i + 1 <= n
                 PROVE  the(n)[i + 1] = the(m)[i + 1]
      OBVIOUS
    <3>1. i + 1 \in 0..n /\ i + 1 \in 0..m /\ i + 1 \in 0..(n + 1) /\ (i + 1) - 1 = i /\ i <= n
      BY <2>0
    <3>2. the(n)[i] = the(m)[i]
      BY <2>2, <3>1
    <3>3. the(n)[i + 1] = Lev(the(n), i + 1) /\ the(m)[i + 1] = Lev(the(m), i + 1)
      BY <1>2, <2>0, <3>1
    <3>4. Lev(the(m), i + 1) = Lev(the(n), i + 1)
      BY <1>2, <2>0, <3>1, <3>2
    <3> QED BY <3>3, <3>4
  <2>3. n \in Q
    <3> HIDE DEF Q
    <3> QED BY <2>0, <2>1, <2>2, NatInd
  <2> QED BY <2>0, <2>3
<1>6. \A n \in Nat : all[n] = Lev(all, n)
  <2> TAKE n \in Nat
  <2>1. all[n] = Lev(the(n), n)
    <3>1. n \in 0..n
      OBVIOUS
    <3> QED BY <1>2, <1>4, <3>1
  <2>2. n # 0 => all[n - 1] = the(n)[n - 1]
    <3>1. n # 0 => n - 1 \in Nat /\ n - 1 \in 0..n
      OBVIOUS
    <3> QED BY <1>5, <3>1
  <2>3. n \in 0..(n + 1)
    OBVIOUS
  <2>4. Lev(all, n) = Lev(the(n), n)
    <3> HIDE DEF all
    <3> QED BY <1>2, <1>4, <2>2, <2>3
  <2> QED BY <2>1, <2>4
<1>7. all = [n \in Nat |-> Lev(all, n)]
  BY <1>6
<1>8. ObjectsTo = [n \in Nat |-> Lev(ObjectsTo, n)]
  <2> HIDE DEF all
  <2>1. ObjectsTo = CHOOSE g : g = [n \in Nat |-> Lev(g, n)]
    BY DEF ObjectsTo, Lev
  <2> QED BY <1>7, <2>1
<1>9. \A n \in Nat : Lev(ObjectsTo, n) = [object : [Property -> ValuesTo(n)]]
  BY DEF Lev, ValuesTo
<1> QED BY <1>8, <1>9

-----------------------------------------------------------------------------

\* An object, its properties, and how it is put together.
LEMMA ObjectIs ==
    ASSUME NEW n \in Nat, NEW v \in ObjectsTo[n]
    PROVE  /\ IsPlainObject(v) /\ v = Object(v.object)
           /\ v.object = [k \in Property |-> v.object[k]]
           /\ \A k \in Property : v.object[k] \in ValuesTo(n)
<1> DEFINE F == [Property -> ValuesTo(n)]
<1>1. v \in [object : F]
  BY ObjectsLevels
<1> HIDE DEF F
<1>2. PICK f \in F : v = [object |-> f]
  BY <1>1
<1>3. IsPlainObject(v) /\ v.object = f
  BY <1>2 DEF IsPlainObject
<1>4. v = Object(v.object)
  BY <1>2, <1>3 DEF Object
<1>5. f = [k \in Property |-> f[k]] /\ \A k \in Property : f[k] \in ValuesTo(n)
  BY DEF F
<1> QED BY <1>3, <1>4, <1>5

\* From functions.
LEMMA ObjectOf ==
    ASSUME NEW n \in Nat, NEW f \in [Property -> ValuesTo(n)]
    PROVE  Object(f) \in ObjectsTo[n] /\ Object(f).object = f
BY ObjectsLevels DEF Object

\* An object is none of the other values; one inside another is less deep.
LEMMA ValueIs ==
    ASSUME NEW n \in Nat, NEW w \in ValuesTo(n)
    PROVE  /\ IsPlainObject(w) => n > 0 /\ n - 1 \in Nat /\ w \in ObjectsTo[n - 1] /\ w # Undefined
           /\ ~IsPlainObject(w) => w = Undefined \/ \E s \in Scalar : w = Leaf(s)
<1>1. CASE w \in [leaf : Scalar]
  <2>1. PICK s \in Scalar : w = [leaf |-> s]
    BY <1>1
  <2>2. ~IsPlainObject(w)
    BY <2>1 DEF IsPlainObject
  <2> QED BY <2>1, <2>2 DEF Leaf
<1>2. CASE w = Undefined
  BY <1>2 DEF Undefined, IsPlainObject
<1>3. CASE n # 0 /\ w \in ObjectsTo[n - 1]
  <2>1. IsPlainObject(w)
    <3>1. n - 1 \in Nat
      BY <1>3
    <3> QED BY <1>3, <3>1, ObjectIs
  <2>2. ~IsPlainObject(Undefined)
    BY DEF Undefined, IsPlainObject
  <2> QED BY <1>3, <2>1, <2>2
<1> QED BY <1>1, <1>2, <1>3 DEF ValuesTo

\* What is not too deep for n is not too deep for n + 1.
LEMMA ObjectsGrow ==
    \A n \in Nat : ObjectsTo[n] \subseteq ObjectsTo[n + 1] /\ ValuesTo(n) \subseteq ValuesTo(n + 1)
<1> DEFINE P == {n \in Nat : ValuesTo(n) \subseteq ValuesTo(n + 1)}
<1>1. ASSUME NEW n \in Nat, ValuesTo(n) \subseteq ValuesTo(n + 1)
      PROVE  ObjectsTo[n] \subseteq ObjectsTo[n + 1]
  <2>1. [Property -> ValuesTo(n)] \subseteq [Property -> ValuesTo(n + 1)]
    BY <1>1
  <2>2. ObjectsTo[n] = [object : [Property -> ValuesTo(n)]]
          /\ ObjectsTo[n + 1] = [object : [Property -> ValuesTo(n + 1)]]
    <3>1. n + 1 \in Nat
      OBVIOUS
    <3> QED BY <3>1, ObjectsLevels
  <2> QED BY <2>1, <2>2
<1>2. 0 \in P
  BY DEF ValuesTo
<1>3. ASSUME NEW n \in Nat, n \in P
      PROVE  n + 1 \in P
  <2>1. ObjectsTo[n] \subseteq ObjectsTo[n + 1]
    BY <1>1, <1>3
  <2>2. n + 1 # 0 /\ (n + 1) - 1 = n /\ (n + 1) + 1 # 0 /\ ((n + 1) + 1) - 1 = n + 1
    OBVIOUS
  <2> QED BY <2>1, <2>2 DEF ValuesTo
<1>4. Nat \subseteq P
  <2> HIDE DEF P
  <2> QED BY <1>2, <1>3, NatInd
<1> QED BY <1>1, <1>4

\* A property that holds an object holds one that is less deep.
LEMMA PropertyIs ==
    ASSUME NEW n \in Nat, NEW v \in ObjectsTo[n], NEW k \in Property
    PROVE  /\ IsPlainObject(v.object[k]) => n > 0 /\ n - 1 \in Nat /\ v.object[k] \in ObjectsTo[n - 1]
           /\ IsPlainObject(v.object[k]) => k \in Defined(v)
           /\ ~IsPlainObject(v.object[k]) /\ k \in Defined(v) => \E s \in Scalar : v.object[k] = Leaf(s)
           /\ IsPlainObject(v.object[k]) => v.object[k] \in ObjectsTo[n]
<1>1. v.object[k] \in ValuesTo(n)
  BY ObjectIs
<1>2. n > 0 => ObjectsTo[n - 1] \subseteq ObjectsTo[n]
  <2>1. n > 0 => n - 1 \in Nat /\ (n - 1) + 1 = n
    OBVIOUS
  <2> QED BY <2>1, ObjectsGrow
<1> QED BY <1>1, <1>2, ValueIs DEF Defined

\* The objects of the model are those of some level.
LEMMA ObjectsLevel == Depth \in Nat /\ Objects = ObjectsTo[Depth]
BY ContactsAssumption DEF Objects

-----------------------------------------------------------------------------

\* One call of deepMergePatch, with g in place of the calls inside.
MergeStep(g, base, patch) ==
    Object([k \in Property |->
        IF k \in Defined(patch)
        THEN IF IsPlainObject(patch.object[k]) /\ IsPlainObject(base.object[k])
             THEN g[base.object[k]][patch.object[k]] ELSE patch.object[k]
        ELSE base.object[k]])

\* It depends only on calls for objects inside.
LEMMA MergeCalls ==
    ASSUME NEW n \in Nat, NEW b \in ObjectsTo[n], NEW q \in ObjectsTo[n], NEW g, NEW h,
           n > 0 => \A x, y \in ObjectsTo[n - 1] : g[x][y] = h[x][y]
    PROVE  MergeStep(g, b, q) = MergeStep(h, b, q)
<1>1. ASSUME NEW k \in Property, IsPlainObject(q.object[k]), IsPlainObject(b.object[k])
      PROVE  g[b.object[k]][q.object[k]] = h[b.object[k]][q.object[k]]
  BY <1>1, PropertyIs
<1> DEFINE fun(f) == [k \in Property |->
                IF k \in Defined(q)
                THEN IF IsPlainObject(q.object[k]) /\ IsPlainObject(b.object[k])
                     THEN f[b.object[k]][q.object[k]] ELSE q.object[k]
                ELSE b.object[k]]
<1>2. fun(g) = fun(h)
  BY <1>1
<1>3. MergeStep(g, b, q) = Object(fun(g)) /\ MergeStep(h, b, q) = Object(fun(h))
  BY DEF MergeStep
<1> HIDE DEF fun
<1> QED BY <1>2, <1>3

\* The recursion of deepMergePatch is well-founded: its function exists.
LEMMA MergingIs ==
    Merging = [base \in Objects |-> [patch \in Objects |-> MergeStep(Merging, base, patch)]]
<1> DEFINE On(g, n) == g = [b \in ObjectsTo[n] |-> [q \in ObjectsTo[n] |-> MergeStep(g, b, q)]]
           P == {n \in Nat : \E g : On(g, n)}
<1>1. 0 \in P
  <2> DEFINE g == [b \in ObjectsTo[0] |-> [q \in ObjectsTo[0] |-> MergeStep(<<>>, b, q)]]
  <2>1. \A b, q \in ObjectsTo[0] : MergeStep(g, b, q) = MergeStep(<<>>, b, q)
    <3> HIDE DEF g
    <3>1. ~(0 > 0) /\ 0 \in Nat
      OBVIOUS
    <3> TAKE b, q \in ObjectsTo[0]
    <3> QED BY <3>1, MergeCalls
  <2>2. On(g, 0)
    BY <2>1
  <2> HIDE DEF On
  <2> QED BY <2>2
<1>2. ASSUME NEW n \in Nat, n \in P
      PROVE  n + 1 \in P
  <2>1. PICK g : On(g, n)
    BY <1>2
  <2> DEFINE h == [b \in ObjectsTo[n + 1] |-> [q \in ObjectsTo[n + 1] |-> MergeStep(g, b, q)]]
  <2>2. \A b, q \in ObjectsTo[n] : h[b][q] = MergeStep(g, b, q) /\ g[b][q] = MergeStep(g, b, q)
    BY <2>1, ObjectsGrow
  <2>3. n + 1 > 0 /\ (n + 1) - 1 = n /\ n + 1 \in Nat
    OBVIOUS
  <2>4. \A b, q \in ObjectsTo[n + 1] : MergeStep(h, b, q) = MergeStep(g, b, q)
    <3> HIDE DEF h
    <3> TAKE b, q \in ObjectsTo[n + 1]
    <3>1. \A x, y \in ObjectsTo[(n + 1) - 1] : g[x][y] = h[x][y]
      BY <2>2, <2>3
    <3>2. MergeStep(g, b, q) = MergeStep(h, b, q)
      BY <2>3, <3>1, MergeCalls
    <3> QED BY <3>2
  <2>5. On(h, n + 1)
    BY <2>4
  <2> HIDE DEF On, h
  <2> QED BY <2>5, <2>3
<1>3. PICK g : On(g, Depth)
  <2> HIDE DEF P
  <2>1. Depth \in P
    BY <1>1, <1>2, NatInd, ObjectsLevel
  <2> QED BY <2>1 DEF P
<1>4. Merging = CHOOSE f : f = [base \in Objects |-> [patch \in Objects |-> MergeStep(f, base, patch)]]
  BY DEF Merging, MergeStep
<1> DEFINE Is(f) == f = [base \in Objects |-> [patch \in Objects |-> MergeStep(f, base, patch)]]
<1>5. Is(g)
  BY <1>3, ObjectsLevel
<1>6. Merging = CHOOSE f : Is(f)
  BY <1>4
<1>7. Is(Merging)
  <2> HIDE DEF Is
  <2> QED BY <1>5, <1>6
<1> QED BY <1>7

\* One call of it.
LEMMA MergeIs ==
    ASSUME NEW b \in Objects, NEW q \in Objects
    PROVE  DeepMergePatch(b, q) = MergeStep(Merging, b, q)
BY MergingIs DEF DeepMergePatch

-----------------------------------------------------------------------------

\* Induction over objects: what holds if it holds for all objects inside.
LEMMA ObjectInd ==
    ASSUME NEW P,
           \A v \in Objects : (\A k \in Property : IsPlainObject(v.object[k]) => v.object[k] \in P)
                                 => v \in P
    PROVE  Objects \subseteq P
<1> DEFINE Q == {n \in Nat : ObjectsTo[n] \cap Objects \subseteq P}
<1>1. ASSUME NEW n \in Nat, n > 0 => n - 1 \in Q
      PROVE  n \in Q
  <2> SUFFICES ASSUME NEW v \in ObjectsTo[n] \cap Objects
               PROVE  v \in P
    OBVIOUS
  <2>1. ASSUME NEW k \in Property, IsPlainObject(v.object[k])
        PROVE  v.object[k] \in P
    <3>1. n > 0 /\ v.object[k] \in ObjectsTo[n - 1]
      BY <2>1, PropertyIs
    <3>2. v.object[k] \in Objects
      BY <2>1, PropertyIs, ObjectsLevel
    <3> QED BY <1>1, <3>1, <3>2
  <2> QED BY <2>1
<1>2. 0 \in Q
  <2>1. ~(0 > 0) /\ 0 \in Nat
    OBVIOUS
  <2> HIDE DEF Q
  <2> QED BY <1>1, <2>1
<1>3. \A n \in Nat : n \in Q => n + 1 \in Q
  <2> TAKE n \in Nat
  <2>1. (n + 1) - 1 = n /\ n + 1 \in Nat
    OBVIOUS
  <2> HIDE DEF Q
  <2> QED BY <1>1, <2>1
<1>4. Nat \subseteq Q
  <2> HIDE DEF Q
  <2> QED BY <1>2, <1>3, NatInd
<1> QED BY <1>4, ObjectsLevel

\* A merge is an object that is no deeper than the two.
LEMMA MergeType ==
    \A b, q \in Objects : DeepMergePatch(b, q) \in Objects
<1> DEFINE P == {n \in Nat : \A b, q \in ObjectsTo[n] \cap Objects :
                                DeepMergePatch(b, q) \in ObjectsTo[n]}
<1>1. ASSUME NEW n \in Nat, n > 0 => n - 1 \in P,
             NEW b \in ObjectsTo[n] \cap Objects, NEW q \in ObjectsTo[n] \cap Objects
      PROVE  DeepMergePatch(b, q) \in ObjectsTo[n]
  <2> DEFINE at(k) == IF k \in Defined(q)
                      THEN IF IsPlainObject(q.object[k]) /\ IsPlainObject(b.object[k])
                           THEN Merging[b.object[k]][q.object[k]] ELSE q.object[k]
                      ELSE b.object[k]
  <2>1. ASSUME NEW k \in Property
        PROVE  at(k) \in ValuesTo(n)
    <3>1. q.object[k] \in ValuesTo(n) /\ b.object[k] \in ValuesTo(n)
      BY ObjectIs
    <3>2. ASSUME IsPlainObject(q.object[k]), IsPlainObject(b.object[k])
          PROVE  Merging[b.object[k]][q.object[k]] \in ValuesTo(n)
      <4>1. /\ n > 0 /\ n - 1 \in Nat
            /\ b.object[k] \in ObjectsTo[n - 1] /\ q.object[k] \in ObjectsTo[n - 1]
        BY <3>2, PropertyIs
      <4>2. b.object[k] \in Objects /\ q.object[k] \in Objects
        BY <3>2, PropertyIs, ObjectsLevel
      <4>3. Merging[b.object[k]][q.object[k]] \in ObjectsTo[n - 1]
        BY <1>1, <4>1, <4>2 DEF DeepMergePatch
      <4> QED BY <4>1, <4>3 DEF ValuesTo
    <3> QED BY <3>1, <3>2
  <2>2. DeepMergePatch(b, q) = Object([k \in Property |-> at(k)])
    BY MergeIs DEF MergeStep
  <2> HIDE DEF at
  <2> QED BY <2>1, <2>2, ObjectOf
<1>2. 0 \in P
  <2>1. ~(0 > 0) /\ 0 \in Nat
    OBVIOUS
  <2> QED BY <1>1, <2>1
<1>3. \A n \in Nat : n \in P => n + 1 \in P
  <2> SUFFICES ASSUME NEW n \in Nat, n \in P PROVE n + 1 \in P
    OBVIOUS
  <2>1. (n + 1) - 1 = n /\ n + 1 \in Nat
    OBVIOUS
  <2>2. n + 1 > 0 => (n + 1) - 1 \in P
    BY <2>1
  <2>3. \A b, q \in ObjectsTo[n + 1] \cap Objects : DeepMergePatch(b, q) \in ObjectsTo[n + 1]
    <3> HIDE DEF P
    <3> QED BY <1>1, <2>1, <2>2
  <2> QED BY <2>1, <2>3
<1>4. Nat \subseteq P
  <2> HIDE DEF P
  <2> QED BY <1>2, <1>3, NatInd
<1> QED BY <1>4, ObjectsLevel

-----------------------------------------------------------------------------

\* The leaves of an object, with g for those of the objects inside.
LeafStep(g, v) ==
    IF Defined(v) = {} THEN {<<<<>>, Nothing>>}
    ELSE UNION {Below(<<k>>, IF IsPlainObject(v.object[k]) THEN g[v.object[k]]
                             ELSE {<<<<>>, v.object[k]>>}) : k \in Defined(v)}

\* They depend only on those of the objects inside.
LEMMA LeafCalls ==
    ASSUME NEW n \in Nat, NEW v \in ObjectsTo[n], NEW g, NEW h,
           n > 0 => \A x \in ObjectsTo[n - 1] : g[x] = h[x]
    PROVE  LeafStep(g, v) = LeafStep(h, v)
<1> DEFINE at(f, k) == Below(<<k>>, IF IsPlainObject(v.object[k]) THEN f[v.object[k]]
                                    ELSE {<<<<>>, v.object[k]>>})
<1>1. ASSUME NEW k \in Property, IsPlainObject(v.object[k])
      PROVE  g[v.object[k]] = h[v.object[k]]
  BY <1>1, PropertyIs
<1>2. \A k \in Defined(v) : at(g, k) = at(h, k)
  BY <1>1 DEF Defined
<1>3. LeafStep(g, v) = IF Defined(v) = {} THEN {<<<<>>, Nothing>>}
                       ELSE UNION {at(g, k) : k \in Defined(v)}
  BY DEF LeafStep
<1>4. LeafStep(h, v) = IF Defined(v) = {} THEN {<<<<>>, Nothing>>}
                       ELSE UNION {at(h, k) : k \in Defined(v)}
  BY DEF LeafStep
<1> HIDE DEF at
<1> QED BY <1>2, <1>3, <1>4

\* The function that collects leaves exists, too.
LEMMA LeavesIs ==
    LeavesOf = [v \in Objects |-> LeafStep(LeavesOf, v)]
<1> DEFINE On(g, n) == g = [v \in ObjectsTo[n] |-> LeafStep(g, v)]
           P == {n \in Nat : \E g : On(g, n)}
<1>1. 0 \in P
  <2> DEFINE g == [v \in ObjectsTo[0] |-> LeafStep(<<>>, v)]
  <2>1. \A v \in ObjectsTo[0] : LeafStep(g, v) = LeafStep(<<>>, v)
    <3> HIDE DEF g
    <3>1. ~(0 > 0) /\ 0 \in Nat
      OBVIOUS
    <3> TAKE v \in ObjectsTo[0]
    <3> QED BY <3>1, LeafCalls
  <2>2. On(g, 0)
    BY <2>1
  <2> HIDE DEF On
  <2> QED BY <2>2
<1>2. ASSUME NEW n \in Nat, n \in P
      PROVE  n + 1 \in P
  <2>1. PICK g : On(g, n)
    BY <1>2
  <2> DEFINE h == [v \in ObjectsTo[n + 1] |-> LeafStep(g, v)]
  <2>2. \A v \in ObjectsTo[n] : h[v] = LeafStep(g, v) /\ g[v] = LeafStep(g, v)
    BY <2>1, ObjectsGrow
  <2>3. n + 1 > 0 /\ (n + 1) - 1 = n /\ n + 1 \in Nat
    OBVIOUS
  <2>4. \A v \in ObjectsTo[n + 1] : LeafStep(h, v) = LeafStep(g, v)
    <3> HIDE DEF h
    <3> TAKE v \in ObjectsTo[n + 1]
    <3>1. \A x \in ObjectsTo[(n + 1) - 1] : g[x] = h[x]
      BY <2>2, <2>3
    <3>2. LeafStep(g, v) = LeafStep(h, v)
      BY <2>3, <3>1, LeafCalls
    <3> QED BY <3>2
  <2>5. On(h, n + 1)
    BY <2>4
  <2> HIDE DEF On, h
  <2> QED BY <2>5, <2>3
<1>3. PICK g : On(g, Depth)
  <2> HIDE DEF P
  <2>1. Depth \in P
    BY <1>1, <1>2, NatInd, ObjectsLevel
  <2> QED BY <2>1 DEF P
<1> DEFINE Is(f) == f = [v \in Objects |-> LeafStep(f, v)]
<1>5. Is(g)
  BY <1>3, ObjectsLevel
<1>6. LeavesOf = CHOOSE f : Is(f)
  BY DEF LeavesOf, LeafStep
<1>7. Is(LeavesOf)
  <2> HIDE DEF Is
  <2> QED BY <1>5, <1>6
<1> QED BY <1>7

\* The leaves of what a property holds: none of an undefined one.
LeavesIn(w) == IF w = Undefined THEN {}
               ELSE IF IsPlainObject(w) THEN LeavesOf[w] ELSE {<<<<>>, w>>}

\* The leaves of an object, property by property.
LEMMA LeavesAre ==
    ASSUME NEW v \in Objects
    PROVE  LeavesOf[v] = IF Defined(v) = {} THEN {<<<<>>, Nothing>>}
                         ELSE UNION {Below(<<k>>, LeavesIn(v.object[k])) : k \in Property}
<1>1. LeavesOf[v] = LeafStep(LeavesOf, v)
  BY LeavesIs
<1>2. \A k \in Defined(v) :
        LeavesIn(v.object[k]) = IF IsPlainObject(v.object[k]) THEN LeavesOf[v.object[k]]
                                ELSE {<<<<>>, v.object[k]>>}
  BY DEF LeavesIn, Defined
<1>3. \A k \in Property \ Defined(v) : LeavesIn(v.object[k]) = {}
  BY DEF LeavesIn, Defined
<1>4. Defined(v) \subseteq Property
  BY DEF Defined
<1> HIDE DEF LeavesIn
<1> DEFINE at(k) == Below(<<k>>, IF IsPlainObject(v.object[k]) THEN LeavesOf[v.object[k]]
                                 ELSE {<<<<>>, v.object[k]>>})
           bt(k) == Below(<<k>>, LeavesIn(v.object[k]))
<1>5. \A k \in Property \ Defined(v) : bt(k) = {}
  BY <1>3 DEF Below
<1>6. \A k \in Defined(v) : at(k) = bt(k)
  BY <1>2
<1>7. LeafStep(LeavesOf, v) = IF Defined(v) = {} THEN {<<<<>>, Nothing>>}
                              ELSE UNION {at(k) : k \in Defined(v)}
  BY DEF LeafStep
<1> HIDE DEF at, bt
<1>8. UNION {bt(k) : k \in Property} = UNION {bt(k) : k \in Defined(v)}
  BY <1>4, <1>5
<1>9. UNION {at(k) : k \in Defined(v)} = UNION {bt(k) : k \in Defined(v)}
  BY <1>6
<1>10. LeavesOf[v] = IF Defined(v) = {} THEN {<<<<>>, Nothing>>} ELSE UNION {bt(k) : k \in Property}
  BY <1>1, <1>7, <1>8, <1>9
<1> QED BY <1>10 DEF bt

-----------------------------------------------------------------------------

(* Overlays, head by head. *)

\* Leaves with paths over X.
AreLeaves(S, X) == \A l \in S : l = <<l[1], l[2]>> /\ l[1] \in Seq(X)

\* A prefix agrees with what it is a prefix of, element by element.
LEMMA PrefixIs ==
    ASSUME NEW X, NEW s \in Seq(X), NEW t \in Seq(X)
    PROVE  IsPrefix(s, t) <=> Len(s) <= Len(t) /\ \A i \in 1..Len(s) : s[i] = t[i]
<1>0. Len(s) \in Nat /\ Len(t) \in Nat
  OBVIOUS
<1> SUFFICES ASSUME Len(s) <= Len(t)
             PROVE  SubSeq(s, 1, Len(s)) = SubSeq(t, 1, Len(s))
                      <=> \A i \in 1..Len(s) : s[i] = t[i]
  BY DEF IsPrefix
<1>1. /\ SubSeq(s, 1, Len(s)) = [i \in 1..Len(s) |-> s[i]]
      /\ SubSeq(t, 1, Len(s)) = [i \in 1..Len(s) |-> t[i]]
  BY <1>0
<1> QED BY <1>1

SameHead(g, h, x, y) == /\ IsPrefix(g \o x, h \o y) <=> g = h /\ IsPrefix(x, y)
                        /\ g \o x = h \o y <=> g = h /\ x = y

\* Behind heads of one length, a path begins with another only if their heads
\* are the same and what follows does.
LEMMA HeadPrefix ==
    ASSUME NEW X, NEW g \in Seq(X), NEW h \in Seq(X), Len(g) = Len(h),
           NEW x \in Seq(X), NEW y \in Seq(X)
    PROVE  SameHead(g, h, x, y)
<1> DEFINE m == Len(g)
           s == g \o x
           t == h \o y
<1>1. /\ m \in Nat /\ Len(x) \in Nat /\ Len(y) \in Nat
      /\ s \in Seq(X) /\ t \in Seq(X) /\ Len(s) = m + Len(x) /\ Len(t) = m + Len(y)
  OBVIOUS
<1>2. \A i \in 1..m : s[i] = g[i] /\ t[i] = h[i]
  OBVIOUS
<1>3. /\ \A i \in 1..Len(x) : s[m + i] = x[i]
      /\ \A i \in 1..Len(y) : t[m + i] = y[i]
  OBVIOUS
<1>4. g = h <=> \A i \in 1..m : g[i] = h[i]
  BY SeqEqual
<1>5. /\ IsPrefix(s, t) <=> Len(s) <= Len(t) /\ \A i \in 1..Len(s) : s[i] = t[i]
      /\ IsPrefix(t, s) <=> Len(t) <= Len(s) /\ \A i \in 1..Len(t) : t[i] = s[i]
      /\ IsPrefix(x, y) <=> Len(x) <= Len(y) /\ \A i \in 1..Len(x) : x[i] = y[i]
  <2>1. s \in Seq(X) /\ t \in Seq(X)
    OBVIOUS
  <2> HIDE DEF s, t
  <2> QED BY <2>1, PrefixIs
<1> HIDE DEF m, s, t
<1>6. ASSUME IsPrefix(s, t)
      PROVE  g = h /\ IsPrefix(x, y)
  <2>1. Len(s) <= Len(t) /\ \A i \in 1..Len(s) : s[i] = t[i]
    BY <1>5, <1>6
  <2>2. \A i \in 1..m : i \in 1..Len(s)
    BY <1>1
  <2>3. Len(x) <= Len(y)
    BY <1>1, <2>1
  <2>4. \A i \in 1..Len(x) : m + i \in 1..Len(s) /\ i \in 1..Len(y)
    BY <1>1, <2>3
  <2>5. g = h
    BY <1>2, <1>4, <2>1, <2>2
  <2>6. \A i \in 1..Len(x) : x[i] = y[i]
    BY <1>3, <2>1, <2>4
  <2> QED BY <1>5, <2>3, <2>5, <2>6
<1>7. ASSUME g = h, IsPrefix(x, y)
      PROVE  IsPrefix(s, t)
  <2>1. Len(x) <= Len(y) /\ \A i \in 1..Len(x) : x[i] = y[i]
    BY <1>5, <1>7
  <2>2. Len(s) <= Len(t)
    BY <1>1, <2>1
  <2>3. ASSUME NEW i \in 1..Len(s)
        PROVE  s[i] = t[i]
    <3>1. CASE i <= m
      <4>1. i \in 1..m
        BY <1>1, <3>1
      <4> QED BY <1>2, <1>7, <4>1
    <3>2. CASE i > m
      <4>1. i - m \in 1..Len(x) /\ i - m \in 1..Len(y) /\ m + (i - m) = i
        BY <1>1, <2>1, <3>2
      <4> QED BY <1>3, <2>1, <4>1
    <3> QED BY <1>1, <3>1, <3>2
  <2> QED BY <1>5, <2>2, <2>3
<1>8. ASSUME s = t
      PROVE  g = h /\ x = y
  <2>1. IsPrefix(s, t)
    BY <1>1, <1>5, <1>8
  <2>2. g = h /\ IsPrefix(x, y)
    BY <1>6, <2>1
  <2>3. Len(x) = Len(y)
    BY <1>1, <1>8
  <2>4. \A i \in 1..Len(x) : x[i] = y[i]
    BY <1>5, <2>2
  <2> QED BY <2>2, <2>3, <2>4, SeqEqual
<1>9. g = h /\ x = y => s = t
  BY DEF s, t
<1>10. (IsPrefix(s, t) <=> g = h /\ IsPrefix(x, y)) /\ (s = t <=> g = h /\ x = y)
  BY <1>6, <1>7, <1>8, <1>9
<1> QED BY <1>10 DEF s, t, SameHead

\* What lies below several heads.
Together(H, S) == UNION {Below(h, S[h]) : h \in H}

\* An overlay of that is made head by head.
LEMMA OverlayByHead ==
    ASSUME NEW X, NEW H \in SUBSET Seq(X), \A g, h \in H : Len(g) = Len(h),
           NEW B, NEW A, \A h \in H : AreLeaves(B[h], X) /\ AreLeaves(A[h], X),
           NEW M, \A h \in H : M[h] = Overlay(B[h], A[h])
    PROVE  Together(H, M) = Overlay(Together(H, B), Together(H, A))
<1> DEFINE put(h, l) == <<h \o l[1], l[2]>>
           BB == UNION {Below(h, B[h]) : h \in H}
           AA == UNION {Below(h, A[h]) : h \in H}
           RR == UNION {Below(h, Overlay(B[h], A[h])) : h \in H}
           fits(l, m) == IsPrefix(l[1], m[1])
<1>1. /\ \A z : z \in BB <=> \E h \in H : \E l \in B[h] : z = put(h, l)
      /\ \A z : z \in AA <=> \E h \in H : \E l \in A[h] : z = put(h, l)
      /\ \A z : z \in RR <=> \E h \in H : \E l \in Overlay(B[h], A[h]) : z = put(h, l)
  <2>1. \A h, S : Below(h, S) = {put(h, l) : l \in S}
    BY DEF Below
  <2> HIDE DEF put
  <2>2. \A z : z \in BB <=> \E h \in H : \E l \in B[h] : z = put(h, l)
    BY <2>1
  <2>3. \A z : z \in AA <=> \E h \in H : \E l \in A[h] : z = put(h, l)
    BY <2>1
  <2>4. \A z : z \in RR <=> \E h \in H : \E l \in Overlay(B[h], A[h]) : z = put(h, l)
    BY <2>1
  <2> QED BY <2>2, <2>3, <2>4
<1>2. \A h, l : put(h, l)[1] = h \o l[1] /\ put(h, l)[2] = l[2]
  OBVIOUS
<1>3. ASSUME NEW g \in H, NEW h \in H, NEW l \in B[g] \cup A[g], NEW m \in B[h] \cup A[h]
      PROVE  /\ fits(put(g, l), put(h, m)) <=> g = h /\ fits(l, m)
             /\ put(g, l)[1] = put(h, m)[1] <=> g = h /\ l[1] = m[1]
  <2>1. l[1] \in Seq(X) /\ m[1] \in Seq(X) /\ g \in Seq(X) /\ h \in Seq(X) /\ Len(g) = Len(h)
    BY DEF AreLeaves
  <2>2. /\ IsPrefix(g \o l[1], h \o m[1]) <=> g = h /\ IsPrefix(l[1], m[1])
        /\ g \o l[1] = h \o m[1] <=> g = h /\ l[1] = m[1]
    <3> DEFINE x == l[1]
               y == m[1]
    <3>1. x \in Seq(X) /\ y \in Seq(X)
      BY <2>1
    <3> HIDE DEF x, y
    <3>2. SameHead(g, h, x, y)
      BY <2>1, <3>1, HeadPrefix
    <3> QED BY <3>2 DEF x, y, SameHead
  <2> QED BY <1>2, <2>2
<1> HIDE DEF put, BB, AA, RR, fits
<1>4. ASSUME NEW h \in H, NEW l \in A[h]
      PROVE  Moot(put(h, l), BB) <=> Moot(l, B[h])
  <2>1. \A S, k : Moot(k, S) <=> k[2] = Nothing /\ \E b \in S : /\ fits(k, b)
                                                               /\ (k[1] # b[1] \/ b[2] = Nothing)
    BY DEF Moot, fits
  <2> QED BY <1>1, <1>2, <1>3, <2>1
<1> DEFINE top(S, T) == {l \in T : ~Moot(l, S)}
           free(S, T) == {b \in S : \A l \in top(S, T) : ~fits(l, b) /\ ~fits(b, l)}
<1>5. \A S, T : Overlay(S, T) = top(S, T) \cup free(S, T)
  BY DEF Overlay, fits
<1>6. ASSUME NEW h \in H, NEW l \in B[h]
      PROVE  put(h, l) \in free(BB, AA) <=> l \in free(B[h], A[h])
  <2>1. put(h, l) \in BB
    BY <1>1
  <2>2. ASSUME NEW m \in top(B[h], A[h]), fits(m, l) \/ fits(l, m)
        PROVE  \E z \in top(BB, AA) : fits(z, put(h, l)) \/ fits(put(h, l), z)
    <3>1. put(h, m) \in top(BB, AA)
      BY <1>1, <1>4
    <3> QED BY <1>3, <2>2, <3>1
  <2>3. ASSUME NEW z \in top(BB, AA), fits(z, put(h, l)) \/ fits(put(h, l), z)
        PROVE  \E m \in top(B[h], A[h]) : fits(m, l) \/ fits(l, m)
    <3>1. PICK g \in H : \E m \in A[g] : z = put(g, m)
      BY <1>1
    <3>2. PICK m \in A[g] : z = put(g, m)
      BY <3>1
    <3>3. g = h /\ (fits(m, l) \/ fits(l, m))
      BY <1>3, <2>3, <3>2
    <3>4. m \in top(B[h], A[h])
      BY <1>4, <3>2, <3>3
    <3> QED BY <3>3, <3>4
  <2> HIDE DEF top
  <2> QED BY <2>1, <2>2, <2>3
<1>7. ASSUME NEW z
      PROVE  z \in Overlay(BB, AA) <=> z \in RR
  <2>1. z \in top(BB, AA) <=> \E h \in H : \E l \in top(B[h], A[h]) : z = put(h, l)
    BY <1>1, <1>4
  <2>2. z \in free(BB, AA) <=> \E h \in H : \E l \in free(B[h], A[h]) : z = put(h, l)
    <3>1. z \in free(BB, AA) => z \in BB
      OBVIOUS
    <3>2. \A h \in H : free(B[h], A[h]) \subseteq B[h]
      OBVIOUS
    <3> HIDE DEF free
    <3> QED BY <1>1, <1>6, <3>1, <3>2
  <2> HIDE DEF top, free
  <2>3. z \in RR <=> \E h \in H : \E l \in top(B[h], A[h]) \cup free(B[h], A[h]) : z = put(h, l)
    BY <1>1, <1>5
  <2> QED BY <1>5, <2>1, <2>2, <2>3
<1>8. Overlay(BB, AA) = RR
  BY <1>7
<1> DEFINE x(h) == Below(h, Overlay(B[h], A[h]))
           y(h) == Below(h, M[h])
<1>9. \A h \in H : x(h) = y(h)
  OBVIOUS
<1>10. RR = UNION {x(h) : h \in H} /\ Together(H, M) = UNION {y(h) : h \in H}
  BY DEF RR, Together
<1>11. BB = Together(H, B) /\ AA = Together(H, A)
  BY DEF BB, AA, Together
<1> HIDE DEF x, y
<1> QED BY <1>8, <1>9, <1>10, <1>11

-----------------------------------------------------------------------------

(* Merges are overlays. *)

\* A leaf by itself.
LEMMA OneLeaf == \A w, X : AreLeaves({<<<<>>, w>>}, X)
<1> TAKE w, X
<1>1. <<>> \in Seq(X)
  OBVIOUS
<1>2. \A l \in {<<<<>>, w>>} : l = <<<<>>, w>> /\ l[1] = <<>> /\ l[2] = w
  OBVIOUS
<1> QED BY <1>1, <1>2 DEF AreLeaves

\* Every object has leaves; their paths are properties.
LEMMA LeafSets ==
    \A v \in Objects : LeavesOf[v] # {} /\ AreLeaves(LeavesOf[v], Property)
<1> DEFINE P == {v \in Objects : LeavesOf[v] # {} /\ AreLeaves(LeavesOf[v], Property)}
<1>1. ASSUME NEW v \in Objects,
             \A k \in Property : IsPlainObject(v.object[k]) => v.object[k] \in P
      PROVE  v \in P
  <2>1. ASSUME NEW k \in Property
        PROVE  /\ k \in Defined(v) => LeavesIn(v.object[k]) # {}
               /\ AreLeaves(LeavesIn(v.object[k]), Property)
    <3>1. CASE v.object[k] = Undefined
      BY <3>1 DEF LeavesIn, AreLeaves, Defined
    <3>2. CASE v.object[k] # Undefined /\ IsPlainObject(v.object[k])
      BY <1>1, <3>2 DEF LeavesIn
    <3>3. CASE v.object[k] # Undefined /\ ~IsPlainObject(v.object[k])
      <4>1. LeavesIn(v.object[k]) = {<<<<>>, v.object[k]>>}
        BY <3>3 DEF LeavesIn
      <4>2. <<>> \in Seq(Property)
        OBVIOUS
      <4> QED BY <4>1, <4>2 DEF AreLeaves
    <3> QED BY <3>1, <3>2, <3>3
  <2>2. CASE Defined(v) = {}
    <3>1. LeavesOf[v] = {<<<<>>, Nothing>>}
      BY <2>2, LeavesAre
    <3> QED BY <3>1, OneLeaf
  <2>3. CASE Defined(v) # {}
    <3> DEFINE in(k) == LeavesIn(v.object[k])
    <3>1. LeavesOf[v] = UNION {Below(<<k>>, in(k)) : k \in Property}
      BY <2>3, LeavesAre
    <3>2. \A k \in Property : (k \in Defined(v) => in(k) # {}) /\ AreLeaves(in(k), Property)
      BY <2>1
    <3> HIDE DEF in
    <3>3. \A k \in Property : Below(<<k>>, in(k)) = {<<<<k>> \o l[1], l[2]>> : l \in in(k)}
      BY DEF Below
    <3>4. PICK k \in Property : in(k) # {}
      BY <2>3, <3>2 DEF Defined
    <3>5. LeavesOf[v] # {}
      <4>1. PICK l \in in(k) : TRUE
        BY <3>4
      <4>2. <<<<k>> \o l[1], l[2]>> \in Below(<<k>>, in(k))
        BY <3>3, <4>1
      <4> QED BY <3>1, <4>2
    <3>6. ASSUME NEW z \in LeavesOf[v]
          PROVE  z = <<z[1], z[2]>> /\ z[1] \in Seq(Property)
      <4>1. PICK j \in Property : z \in Below(<<j>>, in(j))
        BY <3>1
      <4>2. PICK l \in in(j) : z = <<<<j>> \o l[1], l[2]>>
        BY <3>3, <4>1
      <4>3. l[1] \in Seq(Property) /\ <<j>> \in Seq(Property)
        BY <3>2 DEF AreLeaves
      <4>4. <<j>> \o l[1] \in Seq(Property)
        BY <4>3
      <4>5. z[1] = <<j>> \o l[1] /\ z[2] = l[2]
        BY <4>2
      <4> QED BY <4>2, <4>4, <4>5
    <3> QED BY <3>5, <3>6 DEF AreLeaves
  <2> QED BY <2>2, <2>3
<1>2. Objects \subseteq P
  <2> HIDE DEF P
  <2> QED BY <1>1, ObjectInd
<1> QED BY <1>2

\* So do the values in it that are not undefined.
LEMMA LeavesInType ==
    ASSUME NEW v \in Objects, NEW k \in Property
    PROVE  /\ AreLeaves(LeavesIn(v.object[k]), Property)
           /\ k \in Defined(v) <=> LeavesIn(v.object[k]) # {}
<1>1. CASE v.object[k] = Undefined
  BY <1>1 DEF LeavesIn, AreLeaves, Defined
<1>2. CASE v.object[k] # Undefined /\ IsPlainObject(v.object[k])
  <2>1. v.object[k] \in Objects
    BY <1>2, PropertyIs, ObjectsLevel
  <2> QED BY <1>2, <2>1, LeafSets DEF LeavesIn, Defined
<1>3. CASE v.object[k] # Undefined /\ ~IsPlainObject(v.object[k])
  <2>1. LeavesIn(v.object[k]) = {<<<<>>, v.object[k]>>}
    BY <1>3 DEF LeavesIn
  <2>2. <<>> \in Seq(Property)
    OBVIOUS
  <2> QED BY <1>3, <2>1, <2>2 DEF AreLeaves, Defined
<1> QED BY <1>1, <1>2, <1>3

\* Nothing over something, and something over nothing.
LEMMA OverlayNone ==
    \A S : Overlay(S, {}) = S /\ Overlay({}, S) = S
BY DEF Overlay, Moot

\* <<>> begins every path.
LEMMA EmptyBegins ==
    \A X : \A p \in Seq(X) : IsPrefix(<<>>, p)
BY DEF IsPrefix

\* A leaf that is no empty object takes the place of everything.
LEMMA OverlayLeaf ==
    ASSUME NEW S, AreLeaves(S, Property), NEW w, w # Nothing
    PROVE  Overlay(S, {<<<<>>, w>>}) = {<<<<>>, w>>}
<1> DEFINE l == <<<<>>, w>>
<1>1. l[1] = <<>> /\ l[2] = w
  OBVIOUS
<1>2. ~Moot(l, S)
  BY <1>1 DEF Moot
<1>3. \A b \in S : IsPrefix(l[1], b[1])
  BY <1>1, EmptyBegins DEF AreLeaves
<1> HIDE DEF l
<1>4. Overlay(S, {l}) = {l}
  BY <1>2, <1>3 DEF Overlay
<1> QED BY <1>4 DEF l

\* Such a leaf gives way to whatever there is.
LEMMA OverlayOnLeaf ==
    ASSUME NEW T, T # {}, AreLeaves(T, Property), NEW w, w # Nothing
    PROVE  Overlay({<<<<>>, w>>}, T) = T
<1> DEFINE b == <<<<>>, w>>
<1>1. b[1] = <<>> /\ b[2] = w
  OBVIOUS
<1>2. \A l \in T : IsPrefix(b[1], l[1])
  BY <1>1, EmptyBegins DEF AreLeaves
<1>3. \A l \in T : IsPrefix(l[1], <<>>) => l[1] = <<>>
  <2> TAKE l \in T
  <2>1. l[1] \in Seq(Property)
    BY DEF AreLeaves
  <2> DEFINE p == l[1]
  <2>2. p \in Seq(Property)
    BY <2>1
  <2> HIDE DEF p
  <2>3. IsPrefix(p, <<>>) => p = <<>>
    BY <2>2 DEF IsPrefix
  <2> QED BY <2>3 DEF p
<1> HIDE DEF b
<1>4. \A l \in T : ~Moot(l, {b})
  BY <1>1, <1>3 DEF Moot
<1>5. Overlay({b}, T) = T
  BY <1>2, <1>4 DEF Overlay
<1> QED BY <1>5 DEF b

\* An empty object displaces no object.
LEMMA OverlayNothing ==
    ASSUME NEW v \in Objects
    PROVE  Overlay(LeavesOf[v], {<<<<>>, Nothing>>}) = LeavesOf[v]
<1> DEFINE l == <<<<>>, Nothing>>
           S == LeavesOf[v]
<1>1. l[1] = <<>> /\ l[2] = Nothing
  OBVIOUS
<1>2. S # {} /\ AreLeaves(S, Property)
  BY LeafSets
<1>3. \A b \in S : IsPrefix(l[1], b[1])
  BY <1>1, <1>2, EmptyBegins DEF AreLeaves
<1>4. \E b \in S : l[1] # b[1] \/ b[2] = Nothing
  <2>1. CASE Defined(v) = {}
    <3>1. S = {l}
      BY <2>1, LeavesAre
    <3> QED BY <1>1, <3>1
  <2>2. CASE Defined(v) # {}
    <3>1. PICK b \in S : TRUE
      BY <1>2
    <3>2. S = UNION {Below(<<k>>, LeavesIn(v.object[k])) : k \in Property}
      BY <2>2, LeavesAre
    <3>3. PICK k \in Property : b \in Below(<<k>>, LeavesIn(v.object[k]))
      BY <3>1, <3>2
    <3>4. PICK m \in LeavesIn(v.object[k]) : b = <<<<k>> \o m[1], m[2]>>
      BY <3>3 DEF Below
    <3>5. m[1] \in Seq(Property)
      BY LeavesInType DEF AreLeaves
    <3> DEFINE p == m[1]
    <3>6. p \in Seq(Property)
      BY <3>5
    <3> HIDE DEF p
    <3>7. <<k>> \o p # <<>>
      BY <3>6
    <3>8. b[1] = <<k>> \o p
      BY <3>4 DEF p
    <3> QED BY <1>1, <3>7, <3>8
  <2> QED BY <2>1, <2>2
<1> HIDE DEF l, S
<1>5. Moot(l, S)
  BY <1>1, <1>3, <1>4 DEF Moot
<1>6. Overlay(S, {l}) = S
  BY <1>5 DEF Overlay
<1> QED BY <1>6 DEF l, S

\* A scalar is no object.
LEMMA LeafIs == \A s : Leaf(s) # Nothing /\ Leaf(s) # Undefined /\ ~IsPlainObject(Leaf(s))
<1> TAKE s
<1>1. DOMAIN Leaf(s) = {"leaf"} /\ DOMAIN Nothing = {"object"} /\ DOMAIN Undefined = {"undefined"}
  BY DEF Leaf, Nothing, Object, Undefined
<1>2. "leaf" # "object" /\ "leaf" # "undefined"
  OBVIOUS
<1> QED BY <1>1, <1>2 DEF IsPlainObject

\* The merge of one property, and that of all.
LEMMA MergedProperty ==
    ASSUME NEW b \in Objects, NEW q \in Objects, NEW k \in Property,
           IsPlainObject(b.object[k]) /\ IsPlainObject(q.object[k]) =>
              LeavesOf[DeepMergePatch(b.object[k], q.object[k])]
                = Overlay(LeavesOf[b.object[k]], LeavesOf[q.object[k]])
    PROVE  LeavesIn(DeepMergePatch(b, q).object[k])
             = Overlay(LeavesIn(b.object[k]), LeavesIn(q.object[k]))
<1> DEFINE x == b.object[k]
           y == q.object[k]
           z == DeepMergePatch(b, q).object[k]
<1>1. z = IF k \in Defined(q)
          THEN IF IsPlainObject(y) /\ IsPlainObject(x) THEN DeepMergePatch(x, y) ELSE y
          ELSE x
  <2>1. DeepMergePatch(b, q) = MergeStep(Merging, b, q)
    BY MergeIs
  <2> QED BY <2>1 DEF MergeStep, Object, DeepMergePatch
<1>2. /\ k \in Defined(q) <=> y # Undefined
      /\ k \in Defined(b) <=> x # Undefined
  BY DEF Defined
<1>3. /\ IsPlainObject(x) => x \in Objects /\ x # Undefined
      /\ IsPlainObject(y) => y \in Objects /\ y # Undefined
      /\ ~IsPlainObject(x) /\ x # Undefined => x # Nothing
      /\ ~IsPlainObject(y) /\ y # Undefined => y # Nothing
  BY <1>2, PropertyIs, ObjectsLevel, LeafIs
<1>4. /\ AreLeaves(LeavesIn(x), Property) /\ (x # Undefined <=> LeavesIn(x) # {})
      /\ AreLeaves(LeavesIn(y), Property) /\ (y # Undefined <=> LeavesIn(y) # {})
  BY <1>2, LeavesInType
<1>5. IsPlainObject(x) /\ IsPlainObject(y) =>
        LeavesOf[DeepMergePatch(x, y)] = Overlay(LeavesOf[x], LeavesOf[y])
  OBVIOUS
<1> SUFFICES LeavesIn(z) = Overlay(LeavesIn(x), LeavesIn(y))
  OBVIOUS
<1> HIDE DEF x, y, z
<1>6. CASE y = Undefined
  BY <1>1, <1>2, <1>4, <1>6, OverlayNone
<1>7. CASE y # Undefined /\ x = Undefined
  <2>1. ~IsPlainObject(x)
    BY <1>3, <1>7
  <2>2. z = y /\ LeavesIn(x) = {}
    BY <1>1, <1>2, <1>4, <1>7, <2>1
  <2> QED BY <2>2, OverlayNone
<1>8. CASE IsPlainObject(x) /\ IsPlainObject(y)
  <2>1. DeepMergePatch(x, y) \in Objects
    BY <1>3, <1>8, MergeType
  <2>2. z = DeepMergePatch(x, y)
    BY <1>1, <1>2, <1>3, <1>8
  <2>3. IsPlainObject(z) /\ z # Undefined
    <3>1. IsPlainObject(z)
      BY <2>1, <2>2, ObjectIs, ObjectsLevel
    <3>2. ~IsPlainObject(Undefined)
      BY DEF IsPlainObject, Undefined
    <3> QED BY <3>1, <3>2
  <2> QED BY <1>3, <1>5, <1>8, <2>2, <2>3 DEF LeavesIn
<1>9. CASE y # Undefined /\ ~IsPlainObject(y)
  <2>1. z = y /\ LeavesIn(y) = {<<<<>>, y>>}
    BY <1>1, <1>2, <1>9 DEF LeavesIn
  <2> QED BY <1>3, <1>4, <1>9, <2>1, OverlayLeaf
<1>10. CASE y # Undefined /\ x # Undefined /\ ~IsPlainObject(x)
  <2>1. z = y /\ LeavesIn(x) = {<<<<>>, x>>}
    BY <1>1, <1>2, <1>10 DEF LeavesIn
  <2> QED BY <1>3, <1>4, <1>10, <2>1, OverlayOnLeaf
<1> QED BY <1>6, <1>7, <1>8, <1>9, <1>10

-----------------------------------------------------------------------------

\* The values of an object whose properties are all undefined, and of another.
LEMMA DefinedIs ==
    ASSUME NEW v \in Objects
    PROVE  /\ Defined(v) = {} => v = Nothing
           /\ Defined(v) = {k \in Property : LeavesIn(v.object[k]) # {}}
<1>1. ASSUME Defined(v) = {}
      PROVE  v = Nothing
  <2>1. \A k \in Property : v.object[k] = Undefined
    BY <1>1 DEF Defined
  <2>2. v = Object(v.object) /\ v.object = [k \in Property |-> v.object[k]]
    BY ObjectIs, ObjectsLevel
  <2>3. v.object = [k \in Property |-> Undefined]
    BY <2>1, <2>2
  <2> QED BY <2>2, <2>3 DEF Nothing
<1>2. Defined(v) \subseteq Property
  BY DEF Defined
<1> QED BY <1>1, <1>2, LeavesInType

\* The overlay of two objects, from that of each property.
LEMMA OverlayOfObjects ==
    ASSUME NEW b \in Objects, NEW q \in Objects, NEW m \in Objects,
           \A k \in Property : LeavesIn(m.object[k])
                                 = Overlay(LeavesIn(b.object[k]), LeavesIn(q.object[k]))
    PROVE  LeavesOf[m] = Overlay(LeavesOf[b], LeavesOf[q])
<1> DEFINE H == {<<k>> : k \in Property}
           B == [h \in H |-> LeavesIn(b.object[h[1]])]
           A == [h \in H |-> LeavesIn(q.object[h[1]])]
           M == [h \in H |-> LeavesIn(m.object[h[1]])]
           all(S) == Together(H, S)
<1>1. \A k \in Property : <<k>> \in H /\ <<k>>[1] = k /\ Len(<<k>>) = 1 /\ <<k>> \in Seq(Property)
  OBVIOUS
<1>2. \A k \in Property : /\ B[<<k>>] = LeavesIn(b.object[k])
                          /\ A[<<k>>] = LeavesIn(q.object[k])
                          /\ M[<<k>>] = LeavesIn(m.object[k])
  BY <1>1
<1>3. \A h \in H : \E k \in Property : h = <<k>>
  OBVIOUS
<1> HIDE DEF H, B, A, M
<1>4. \A h \in H : AreLeaves(B[h], Property) /\ AreLeaves(A[h], Property)
  <2>1. \A k \in Property : AreLeaves(B[<<k>>], Property) /\ AreLeaves(A[<<k>>], Property)
    BY <1>2, LeavesInType
  <2> QED BY <1>3, <2>1
<1>5. H \in SUBSET Seq(Property) /\ \A g, h \in H : Len(g) = Len(h)
  BY <1>1, <1>3
<1>7. \A h \in H : M[h] = Overlay(B[h], A[h])
  <2>1. \A k \in Property : M[<<k>>] = Overlay(B[<<k>>], A[<<k>>])
    BY <1>2
  <2> QED BY <1>3, <2>1
<1>8. all(M) = Overlay(all(B), all(A))
  BY <1>4, <1>5, <1>7, OverlayByHead
<1>9. /\ all(B) = UNION {Below(<<k>>, LeavesIn(b.object[k])) : k \in Property}
      /\ all(A) = UNION {Below(<<k>>, LeavesIn(q.object[k])) : k \in Property}
      /\ all(M) = UNION {Below(<<k>>, LeavesIn(m.object[k])) : k \in Property}
  <2>1. \A S : all(S) = UNION {Below(<<k>>, S[<<k>>]) : k \in Property}
    BY <1>1, <1>3 DEF Together
  <2> DEFINE holds(S, v) == \A k \in Property : S[<<k>>] = LeavesIn(v.object[k])
             leaves(v) == UNION {Below(<<k>>, LeavesIn(v.object[k])) : k \in Property}
  <2>2. ASSUME NEW S, NEW v, holds(S, v)
        PROVE  all(S) = leaves(v)
    <3> DEFINE x(k) == Below(<<k>>, S[<<k>>])
               y(k) == Below(<<k>>, LeavesIn(v.object[k]))
    <3>1. \A k \in Property : x(k) = y(k)
      BY <2>2
    <3>2. all(S) = UNION {x(k) : k \in Property}
      BY <2>1
    <3> HIDE DEF x, y, all
    <3>3. all(S) = UNION {y(k) : k \in Property}
      BY <3>1, <3>2
    <3> QED BY <3>3 DEF y
  <2>3. holds(B, b) /\ holds(A, q) /\ holds(M, m)
    BY <1>2
  <2> HIDE DEF all, holds, leaves
  <2>4. all(B) = leaves(b) /\ all(A) = leaves(q) /\ all(M) = leaves(m)
    BY <2>2, <2>3
  <2> QED BY <2>4 DEF leaves
<1> HIDE DEF all
<1>10. /\ Defined(b) # {} => LeavesOf[b] = all(B)
       /\ Defined(q) # {} => LeavesOf[q] = all(A)
       /\ Defined(m) # {} => LeavesOf[m] = all(M)
  BY <1>9, LeavesAre
<1>11. \A k \in Property :
         /\ LeavesIn(q.object[k]) # {} => LeavesIn(m.object[k]) # {}
         /\ LeavesIn(b.object[k]) # {} => LeavesIn(m.object[k]) # {}
         /\ LeavesIn(b.object[k]) = {} => LeavesIn(m.object[k]) = LeavesIn(q.object[k])
         /\ LeavesIn(q.object[k]) = {} => LeavesIn(m.object[k]) = LeavesIn(b.object[k])
  <2> TAKE k \in Property
  <2>1. \A S, T : /\ S = {} => Overlay(S, T) = T
                  /\ T = {} => Overlay(S, T) = S
    BY OverlayNone
  <2>2. LeavesIn(q.object[k]) # {} /\ LeavesIn(b.object[k]) # {} => LeavesIn(m.object[k]) # {}
    <3> SUFFICES ASSUME LeavesIn(q.object[k]) # {}, LeavesIn(b.object[k]) # {},
                        LeavesIn(m.object[k]) = {}
                 PROVE  FALSE
      OBVIOUS
    <3> DEFINE S == LeavesIn(b.object[k])
               T == LeavesIn(q.object[k])
    <3>1. Overlay(S, T) = {} /\ S # {} /\ T # {}
      OBVIOUS
    <3> HIDE DEF S, T
    <3>2. \A l \in T : Moot(l, S)
      BY <3>1 DEF Overlay
    <3>3. S \subseteq Overlay(S, T)
      BY <3>2 DEF Overlay
    <3> QED BY <3>1, <3>3
  <2> QED BY <2>1, <2>2
<1>12. CASE Defined(q) = {}
  <2>1. LeavesOf[q] = {<<<<>>, Nothing>>}
    BY <1>12, LeavesAre
  <2>2. \A k \in Property : LeavesIn(m.object[k]) = LeavesIn(b.object[k])
    BY <1>11, <1>12, DefinedIs
  <2>3. Defined(m) = Defined(b)
    BY <2>2, DefinedIs
  <2>4. LeavesOf[m] = LeavesOf[b]
    <3>1. \A k \in Property : M[<<k>>] = B[<<k>>]
      BY <1>2, <2>2
    <3>2. \A h \in H : M[h] = B[h]
      BY <1>3, <3>1
    <3>3. all(M) = all(B)
      BY <3>2 DEF all, Together
    <3> QED BY <1>10, <2>3, <3>3, LeavesAre
  <2> QED BY <2>1, <2>4, OverlayNothing
<1>13. CASE Defined(q) # {} /\ Defined(b) = {}
  <2>1. LeavesOf[b] = {<<<<>>, Nothing>>}
    BY <1>13, LeavesAre
  <2>2. \A k \in Property : LeavesIn(m.object[k]) = LeavesIn(q.object[k])
    BY <1>11, <1>13, DefinedIs
  <2>3. Defined(m) = Defined(q)
    BY <2>2, DefinedIs
  <2>4. LeavesOf[m] = LeavesOf[q]
    <3>1. \A k \in Property : M[<<k>>] = A[<<k>>]
      BY <1>2, <2>2
    <3>2. \A h \in H : M[h] = A[h]
      BY <1>3, <3>1
    <3>3. all(M) = all(A)
      BY <3>2 DEF all, Together
    <3> QED BY <1>10, <1>13, <2>3, <3>3
  <2>5. Overlay(LeavesOf[b], LeavesOf[q]) = LeavesOf[q]
    <3> DEFINE e == <<<<>>, Nothing>>
               T == LeavesOf[q]
    <3>1. e[1] = <<>> /\ e[2] = Nothing
      OBVIOUS
    <3>2. T # {} /\ AreLeaves(T, Property)
      BY LeafSets
    <3>3. \A l \in T : l[1] # <<>>
      <4> TAKE l \in T
      <4>0. T = UNION {Below(<<k>>, LeavesIn(q.object[k])) : k \in Property}
        BY <1>13, LeavesAre
      <4>1. PICK k \in Property : l \in Below(<<k>>, LeavesIn(q.object[k]))
        BY <4>0
      <4>2. PICK j \in LeavesIn(q.object[k]) : l = <<<<k>> \o j[1], j[2]>>
        BY <4>1 DEF Below
      <4> DEFINE p == j[1]
      <4>3. p \in Seq(Property)
        BY LeavesInType DEF AreLeaves
      <4>4. l[1] = <<k>> \o p
        BY <4>2
      <4> HIDE DEF p
      <4>5. <<k>> \o p # <<>>
        BY <4>3
      <4> QED BY <4>4, <4>5
    <3>4. \A l \in T : IsPrefix(e[1], l[1])
      BY <3>1, <3>2, EmptyBegins DEF AreLeaves
    <3>5. \A l \in T : ~IsPrefix(l[1], e[1])
      <4> TAKE l \in T
      <4> DEFINE p == l[1]
      <4>1. p \in Seq(Property) /\ p # <<>>
        BY <3>2, <3>3 DEF AreLeaves
      <4> HIDE DEF p
      <4>2. ~IsPrefix(p, <<>>)
        BY <4>1 DEF IsPrefix
      <4> QED BY <3>1, <4>2 DEF p
    <3> HIDE DEF e, T
    <3>6. \A l \in T : ~Moot(l, {e})
      BY <3>5 DEF Moot
    <3>7. Overlay({e}, T) = T
      BY <3>2, <3>4, <3>6 DEF Overlay
    <3> QED BY <2>1, <3>7 DEF e, T
  <2> QED BY <2>4, <2>5
<1>14. CASE Defined(q) # {} /\ Defined(b) # {}
  <2>1. Defined(m) # {}
    BY <1>11, <1>14, DefinedIs
  <2> QED BY <1>8, <1>10, <1>14, <2>1
<1> QED BY <1>12, <1>13, <1>14

\* A merge is an overlay of leaves, however deep it goes.
LEMMA MergeOverlays ==
    \A b, q \in Objects :
        LeavesOf[DeepMergePatch(b, q)] = Overlay(LeavesOf[b], LeavesOf[q])
<1> DEFINE P == {b \in Objects : \A q \in Objects :
                   LeavesOf[DeepMergePatch(b, q)] = Overlay(LeavesOf[b], LeavesOf[q])}
<1>1. ASSUME NEW b \in Objects,
             \A k \in Property : IsPlainObject(b.object[k]) => b.object[k] \in P
      PROVE  b \in P
  <2> SUFFICES ASSUME NEW q \in Objects
               PROVE  LeavesOf[DeepMergePatch(b, q)] = Overlay(LeavesOf[b], LeavesOf[q])
    OBVIOUS
  <2>1. ASSUME NEW k \in Property
        PROVE  LeavesIn(DeepMergePatch(b, q).object[k])
                 = Overlay(LeavesIn(b.object[k]), LeavesIn(q.object[k]))
    <3>1. IsPlainObject(b.object[k]) /\ IsPlainObject(q.object[k]) =>
              LeavesOf[DeepMergePatch(b.object[k], q.object[k])]
                = Overlay(LeavesOf[b.object[k]], LeavesOf[q.object[k]])
      BY <1>1, PropertyIs, ObjectsLevel
    <3> QED BY <3>1, MergedProperty
  <2>2. DeepMergePatch(b, q) \in Objects
    BY MergeType
  <2> QED BY <2>1, <2>2, OverlayOfObjects
<1>2. Objects \subseteq P
  <2> HIDE DEF P
  <2> QED BY <1>1, ObjectInd
<1> QED BY <1>2

-----------------------------------------------------------------------------

(* Addresses, and the updates of a contact. *)

\* The leaves of one entry of an address collection, if it is there.
EntryLeaves(a, k, i) == IF k \in DOMAIN a /\ i \in DOMAIN a[k] THEN LeavesOf[a[k][i]] ELSE {}

\* A collection holds lists of objects.
LEMMA AddressesAre ==
    ASSUME NEW a, AreAddresses(a)
    PROVE  /\ \A k \in DOMAIN a : /\ a[k] \in Seq(Objects) /\ Len(a[k]) \in Nat
                                  /\ DOMAIN a[k] = 1..Len(a[k])
                                  /\ \A i \in DOMAIN a[k] : a[k][i] \in Objects
           /\ \A k \in DOMAIN a : \A i : i \in DOMAIN a[k] => i \in Nat
<1>1. ASSUME NEW k \in DOMAIN a
      PROVE  /\ a[k] \in Seq(Objects) /\ Len(a[k]) \in Nat
             /\ DOMAIN a[k] = 1..Len(a[k])
             /\ \A i \in DOMAIN a[k] : a[k][i] \in Objects
  <2>1. a[k] \in Seq(Objects)
    BY DEF AreAddresses
  <2> QED BY <2>1
<1> QED BY <1>1

\* What a merge of two lists is, entry by entry.
IsMergeOf(l, base, patch) ==
    /\ l \in Seq(Objects)
    /\ DOMAIN l = DOMAIN base \cup DOMAIN patch
    /\ \A i \in DOMAIN base \cup DOMAIN patch :
          l[i] = IF i \notin DOMAIN patch THEN base[i]
                 ELSE IF i \in DOMAIN base THEN DeepMergePatch(base[i], patch[i])
                 ELSE patch[i]

\* mergeAddresses merges two lists so.
LEMMA ListMerged ==
    ASSUME NEW base \in Seq(Objects), NEW patch \in Seq(Objects)
    PROVE  IsMergeOf(MergeList(base, patch), base, patch)
<1> DEFINE n == Len(base)
           m == Len(patch)
           one == [i \in DOMAIN patch |-> IF i \in DOMAIN base THEN DeepMergePatch(base[i], patch[i])
                                          ELSE patch[i]]
           rest == SubSeq(base, m + 1, n)
           all == MergeList(base, patch)
<1>1. n \in Nat /\ m \in Nat /\ DOMAIN base = 1..n /\ DOMAIN patch = 1..m
  OBVIOUS
<1>2. /\ \A i \in 1..n : base[i] \in Objects
      /\ \A i \in 1..m : patch[i] \in Objects
  BY <1>1
<1>3. all = one \o rest
  BY DEF MergeList
<1>4. /\ one = [i \in 1..m |-> one[i]]
      /\ \A i \in 1..m : one[i] = IF i \in 1..n THEN DeepMergePatch(base[i], patch[i]) ELSE patch[i]
  BY <1>1
<1> HIDE DEF one
<1>5. one \in Seq(Objects) /\ Len(one) = m
  <2>1. \A i \in 1..m : one[i] \in Objects
    BY <1>2, <1>4, MergeType
  <2>2. one \in [1..m -> Objects]
    BY <1>4, <2>1
  <2> HIDE DEF m
  <2> QED BY <1>1, <2>2
<1>6. /\ rest \in Seq(Objects)
      /\ Len(rest) = IF m < n THEN n - m ELSE 0
      /\ \A i \in 1..(n - m) : rest[i] = base[m + i]
  <2>1. \A i \in (m + 1)..n : base[i] \in Objects
    BY <1>1, <1>2
  <2> HIDE DEF m, n
  <2> QED BY <1>1, <2>1, SubSeqProperties
<1> HIDE DEF rest, all, m, n
<1>7. all \in Seq(Objects) /\ Len(all) = IF m < n THEN n ELSE m
  <2>1. all \in Seq(Objects) /\ Len(all) = Len(one) + Len(rest)
    BY <1>3, <1>5, <1>6, ConcatProperties
  <2> QED BY <1>1, <1>5, <1>6, <2>1
<1>8. DOMAIN all = (1..n) \cup (1..m)
  <2>1. DOMAIN all = 1..Len(all)
    BY <1>7
  <2>2. CASE m < n
    BY <1>1, <1>7, <2>1, <2>2
  <2>3. CASE ~(m < n)
    BY <1>1, <1>7, <2>1, <2>3
  <2> QED BY <2>2, <2>3
<1>9. ASSUME NEW i \in (1..n) \cup (1..m)
      PROVE  all[i] = IF i \notin 1..m THEN base[i] ELSE one[i]
  <2>1. CASE i \in 1..m
    BY <1>1, <1>3, <1>5, <1>6, <2>1, ConcatProperties
  <2>2. CASE i \notin 1..m
    <3>1. i \in (m + 1)..n /\ i - m \in 1..(n - m) /\ m + (i - m) = i /\ m < n
      BY <1>1, <2>2
    <3>2. all[i] = rest[i - m]
      BY <1>1, <1>3, <1>5, <1>6, <3>1, ConcatProperties
    <3> QED BY <1>6, <2>2, <3>1, <3>2
  <2> QED BY <2>1, <2>2
<1>10. IsMergeOf(all, base, patch)
  BY <1>1, <1>4, <1>7, <1>8, <1>9 DEF IsMergeOf
<1> QED BY <1>10 DEF all

\* A merge of collections, entry by entry.
LEMMA EntryMerged ==
    ASSUME NEW a, NEW p, AreAddresses(a), AreAddresses(p)
    PROVE  /\ AreAddresses(MergeAddresses(a, p))
           /\ \A k, i : EntryLeaves(MergeAddresses(a, p), k, i)
                          = Overlay(EntryLeaves(a, k, i), EntryLeaves(p, k, i))
<1> DEFINE m == MergeAddresses(a, p)
           old(k) == IF k \in DOMAIN a THEN a[k] ELSE <<>>
<1>1. /\ m = [k \in DOMAIN m |-> m[k]]
      /\ DOMAIN m = DOMAIN a \cup DOMAIN p
      /\ \A k \in DOMAIN m : m[k] = IF k \notin DOMAIN p THEN a[k] ELSE MergeList(old(k), p[k])
  BY DEF MergeAddresses
<1>2. \A k : old(k) \in Seq(Objects) /\ (k \in DOMAIN a => old(k) = a[k])
             /\ (k \notin DOMAIN a => DOMAIN old(k) = {})
  <2> TAKE k
  <2>1. CASE k \in DOMAIN a
    BY <2>1, AddressesAre
  <2>2. CASE k \notin DOMAIN a
    <3>1. old(k) = <<>>
      BY <2>2
    <3> QED BY <2>2, <3>1
  <2> QED BY <2>1, <2>2
<1> HIDE DEF m, old
<1>3. ASSUME NEW k \in DOMAIN p
      PROVE  /\ m[k] \in Seq(Objects)
             /\ DOMAIN m[k] = DOMAIN old(k) \cup DOMAIN p[k]
             /\ \A i \in DOMAIN old(k) \cup DOMAIN p[k] :
                  m[k][i] = IF i \notin DOMAIN p[k] THEN old(k)[i]
                            ELSE IF i \in DOMAIN old(k) THEN DeepMergePatch(old(k)[i], p[k][i])
                            ELSE p[k][i]
  <2>1. m[k] = MergeList(old(k), p[k]) /\ p[k] \in Seq(Objects) /\ old(k) \in Seq(Objects)
    BY <1>1, <1>2, AddressesAre
  <2>2. IsMergeOf(m[k], old(k), p[k])
    BY <2>1, ListMerged
  <2> QED BY <2>2 DEF IsMergeOf
<1>4. AreAddresses(m)
  <2>1. \A k \in DOMAIN m : m[k] \in Seq(Objects)
    BY <1>1, <1>3, AddressesAre
  <2> QED BY <1>1, <2>1 DEF AreAddresses
<1>5. ASSUME NEW k, NEW i
      PROVE  EntryLeaves(m, k, i) = Overlay(EntryLeaves(a, k, i), EntryLeaves(p, k, i))
  <2>0. \A S : Overlay(S, {}) = S /\ Overlay({}, S) = S
    BY OverlayNone
  <2>1. CASE k \notin DOMAIN p
    <3>1. EntryLeaves(p, k, i) = {} /\ EntryLeaves(m, k, i) = EntryLeaves(a, k, i)
      BY <1>1, <2>1 DEF EntryLeaves
    <3> QED BY <2>0, <3>1
  <2>2. CASE k \in DOMAIN p /\ i \notin DOMAIN p[k]
    <3>1. EntryLeaves(p, k, i) = {}
      BY <2>2 DEF EntryLeaves
    <3>2. EntryLeaves(m, k, i) = EntryLeaves(a, k, i)
      BY <1>1, <1>2, <1>3, <2>2 DEF EntryLeaves
    <3> QED BY <2>0, <3>1, <3>2
  <2>3. CASE k \in DOMAIN p /\ i \in DOMAIN p[k] /\ ~(k \in DOMAIN a /\ i \in DOMAIN a[k])
    <3>1. EntryLeaves(a, k, i) = {} /\ i \notin DOMAIN old(k)
      BY <1>2, <2>3 DEF EntryLeaves
    <3>2. EntryLeaves(m, k, i) = EntryLeaves(p, k, i)
      BY <1>1, <1>3, <2>3, <3>1 DEF EntryLeaves
    <3> QED BY <2>0, <3>1, <3>2
  <2>4. CASE k \in DOMAIN p /\ i \in DOMAIN p[k] /\ k \in DOMAIN a /\ i \in DOMAIN a[k]
    <3>1. m[k][i] = DeepMergePatch(a[k][i], p[k][i]) /\ k \in DOMAIN m /\ i \in DOMAIN m[k]
      BY <1>1, <1>2, <1>3, <2>4
    <3>2. a[k][i] \in Objects /\ p[k][i] \in Objects
      BY <2>4, AddressesAre
    <3>3. LeavesOf[m[k][i]] = Overlay(LeavesOf[a[k][i]], LeavesOf[p[k][i]])
      BY <3>1, <3>2, MergeOverlays
    <3> QED BY <2>4, <3>1, <3>3 DEF EntryLeaves
  <2> QED BY <2>1, <2>2, <2>3, <2>4
<1> QED BY <1>4, <1>5 DEF m

\* The leaves of a collection are those of its entries.
LEMMA AddressLeavesAre ==
    ASSUME NEW a, AreAddresses(a), NEW K, DOMAIN a \subseteq K
    PROVE  AddressLeaves(a) = UNION {Below(<<kk[1], kk[2]>>, EntryLeaves(a, kk[1], kk[2])) : kk \in K \X Nat}
<1> DEFINE at(k, i) == Below(<<k, i>>, LeavesOf[a[k][i]])
           bt(k, i) == Below(<<k, i>>, EntryLeaves(a, k, i))
           ct(kk) == bt(kk[1], kk[2])
<1>1. \A k \in DOMAIN a : \A i \in DOMAIN a[k] : bt(k, i) = at(k, i) /\ i \in Nat
  BY AddressesAre DEF EntryLeaves
<1>2. \A k, i : ~(k \in DOMAIN a /\ i \in DOMAIN a[k]) => bt(k, i) = {}
  BY DEF EntryLeaves, Below
<1>3. AddressLeaves(a) = UNION {UNION {at(k, i) : i \in DOMAIN a[k]} : k \in DOMAIN a}
  BY DEF AddressLeaves
<1> HIDE DEF at, bt
<1>4. ASSUME NEW z \in AddressLeaves(a)
      PROVE  z \in UNION {ct(kk) : kk \in K \X Nat}
  <2>1. PICK k \in DOMAIN a : z \in UNION {at(k, i) : i \in DOMAIN a[k]}
    BY <1>3
  <2>2. PICK i \in DOMAIN a[k] : z \in at(k, i)
    BY <2>1
  <2>3. <<k, i>> \in K \X Nat /\ z \in ct(<<k, i>>)
    BY <1>1, <2>2
  <2> QED BY <2>3
<1>5. ASSUME NEW z \in UNION {ct(kk) : kk \in K \X Nat}
      PROVE  z \in AddressLeaves(a)
  <2>1. PICK k \in K, i \in Nat : z \in bt(k, i)
    OBVIOUS
  <2>2. k \in DOMAIN a /\ i \in DOMAIN a[k] /\ z \in at(k, i)
    BY <1>1, <1>2, <2>1
  <2> QED BY <1>3, <2>2
<1>6. AddressLeaves(a) = UNION {ct(kk) : kk \in K \X Nat}
  BY <1>4, <1>5
<1> QED BY <1>6 DEF bt

\* A merge of address collections is an overlay, with kind and index as the
\* first steps of a path.
LEMMA AddressesOverlay ==
    ASSUME NEW a, NEW p, AreAddresses(a), AreAddresses(p)
    PROVE  AddressLeaves(MergeAddresses(a, p)) = Overlay(AddressLeaves(a), AddressLeaves(p))
<1> DEFINE m == MergeAddresses(a, p)
           K == DOMAIN a \cup DOMAIN p
           PP == K \cup Nat \cup Property
           H == K \X Nat
           head(h) == <<h[1], h[2]>>
           B == [h \in H |-> EntryLeaves(a, h[1], h[2])]
           A == [h \in H |-> EntryLeaves(p, h[1], h[2])]
           M == [h \in H |-> EntryLeaves(m, h[1], h[2])]
           all(S) == Together(H, S)
<1>1. \A h \in H : h = head(h) /\ h \in Seq(PP) /\ Len(h) = 2
  <2> TAKE h \in H
  <2>1. PICK k \in K, i \in Nat : h = <<k, i>>
    OBVIOUS
  <2>2. k \in PP /\ i \in PP
    OBVIOUS
  <2> HIDE DEF PP
  <2> QED BY <2>1, <2>2
<1>2. AreAddresses(m) /\ DOMAIN m = K
  BY EntryMerged DEF MergeAddresses
<1>3. \A b : AreAddresses(b) /\ DOMAIN b \subseteq K =>
         AddressLeaves(b) = UNION {Below(head(h), EntryLeaves(b, h[1], h[2])) : h \in H}
  BY AddressLeavesAre
<1>4. ASSUME NEW b, AreAddresses(b), DOMAIN b \subseteq K
      PROVE  AddressLeaves(b) = all([h \in H |-> EntryLeaves(b, h[1], h[2])])
  <2> DEFINE x(h) == Below(head(h), EntryLeaves(b, h[1], h[2]))
             y(h) == Below(h, [j \in H |-> EntryLeaves(b, j[1], j[2])][h])
  <2>1. \A h \in H : x(h) = y(h)
    <3> TAKE h \in H
    <3>1. h = head(h) /\ [j \in H |-> EntryLeaves(b, j[1], j[2])][h] = EntryLeaves(b, h[1], h[2])
      BY <1>1
    <3> HIDE DEF head, H
    <3> QED BY <3>1
  <2>2. AddressLeaves(b) = UNION {x(h) : h \in H}
    BY <1>3, <1>4
  <2> HIDE DEF x, y
  <2>3. AddressLeaves(b) = UNION {y(h) : h \in H}
    BY <2>1, <2>2
  <2> QED BY <2>3 DEF y, Together
<1>5. AddressLeaves(a) = all(B) /\ AddressLeaves(p) = all(A) /\ AddressLeaves(m) = all(M)
  BY <1>2, <1>4
<1>6. \A h \in H : AreLeaves(B[h], PP) /\ AreLeaves(A[h], PP)
  <2>1. ASSUME NEW b, AreAddresses(b), NEW k, NEW i
        PROVE  AreLeaves(EntryLeaves(b, k, i), PP)
    <3>1. CASE k \in DOMAIN b /\ i \in DOMAIN b[k]
      <4>1. b[k][i] \in Objects
        BY <2>1, <3>1, AddressesAre
      <4>2. AreLeaves(LeavesOf[b[k][i]], Property)
        BY <4>1, LeafSets
      <4>3. Seq(Property) \subseteq Seq(PP)
        BY SeqMonotonic
      <4> QED BY <3>1, <4>2, <4>3 DEF AreLeaves, EntryLeaves
    <3>2. CASE ~(k \in DOMAIN b /\ i \in DOMAIN b[k])
      BY <3>2 DEF AreLeaves, EntryLeaves
    <3> QED BY <3>1, <3>2
  <2> QED BY <2>1
<1>7. \A h \in H : M[h] = Overlay(B[h], A[h])
  <2>1. \A k, i : EntryLeaves(m, k, i) = Overlay(EntryLeaves(a, k, i), EntryLeaves(p, k, i))
    BY EntryMerged
  <2> QED BY <2>1
<1>8. H \in SUBSET Seq(PP) /\ \A g, h \in H : Len(g) = Len(h)
  BY <1>1
<1> HIDE DEF H, B, A, M, PP
<1>9. all(M) = Overlay(all(B), all(A))
  BY <1>6, <1>7, <1>8, OverlayByHead
<1> QED BY <1>5, <1>9

\* The inductive invariant: fields and addresses are objects.
ContactInv == record \in Objects /\ AreAddresses(addresses)

\* An object without properties is one.
LEMMA NothingIs == Nothing \in Objects
<1> DEFINE f == [k \in Property |-> Undefined]
<1>1. f \in [Property -> ValuesTo(Depth)]
  BY DEF ValuesTo
<1> HIDE DEF f
<1>2. Object(f) \in Objects
  BY <1>1, ObjectOf, ObjectsLevel
<1> QED BY <1>2 DEF f, Nothing

\* A contact that is updated stays one.
LEMMA ContactKept == ContactInv /\ [MergeNext]_contact => ContactInv'
<1> SUFFICES ASSUME ContactInv, [MergeNext]_contact
             PROVE  ContactInv'
  OBVIOUS
<1>1. CASE UNCHANGED contact
  BY <1>1 DEF ContactInv, contact
<1>2. CASE \E p \in Asked : UpdateFields(p)
  BY <1>2, ContactsAssumption, MergeType DEF ContactInv, UpdateFields
<1>3. CASE \E a \in Addressed : UpdateAddresses(Nothing, a)
  <2>1. PICK a \in Addressed : UpdateAddresses(Nothing, a)
    BY <1>3
  <2>2. record' \in Objects
    BY <2>1, NothingIs, MergeType DEF ContactInv, UpdateAddresses
  <2>3. AreAddresses(MergeAddresses(addresses, a))
    BY ContactsAssumption, EntryMerged DEF ContactInv
  <2> QED BY <2>1, <2>2, <2>3 DEF ContactInv, UpdateAddresses
<1> QED BY <1>1, <1>2, <1>3 DEF MergeNext

\* A contact stays well-formed through any sequence of updates.
THEOREM ContactStaysOne == MergeSpec => []ContactInv
<1>1. MergeInit => ContactInv
  BY ContactsAssumption DEF MergeInit, ContactInv
<1> QED BY <1>1, ContactKept, PTL DEF MergeSpec

\* deepMergePatch and mergeAddresses overlay the leaves of a patch, at any
\* depth and after any sequence of updates.
THEOREM MergesAreOverlays == MergeSpec => []MergesOverlay
<1>1. ContactInv => MergesOverlay
  BY ContactsAssumption, MergeOverlays, AddressesOverlay DEF ContactInv, MergesOverlay
<1> QED BY <1>1, ContactStaysOne, PTL

-----------------------------------------------------------------------------

(* The list that summarize-vouchers walks, and what others do to it. *)

\* However others change the list, it is one, and holds what stayed in it.
StaysAList == list \in Seq(Row) /\ IsInjective(list) /\ stayed \subseteq Elements(list)

\* The rows beyond a line drawn in the list, and those to come after a page.
Beyond(rows, n) == {rows[i] : i \in (n + 1)..Len(rows)}
ToCome(n) == Beyond(list, n)

\* t is s with r put in at i.
IsInsertion(t, s, i, r) ==
    /\ Len(t) = Len(s) + 1
    /\ \A j \in 1..(i - 1) : t[j] = s[j]
    /\ t[i] = r
    /\ \A j \in (i + 1)..(Len(s) + 1) : t[j] = s[j - 1]

\* InsertAt() of the community modules, index by index.
LEMMA Inserted ==
    ASSUME NEW S, NEW s \in Seq(S), NEW i \in 1..(Len(s) + 1), NEW r \in S,
           NEW t, t = InsertAt(s, i, r)
    PROVE  t \in Seq(S) /\ IsInsertion(t, s, i, r)
<1> DEFINE a == SubSeq(s, 1, i - 1)
           b == SubSeq(s, i, Len(s))
<1>1. /\ Len(s) \in Nat /\ i \in Nat
      /\ a \in Seq(S) /\ b \in Seq(S) /\ Len(a) = i - 1 /\ Len(b) = Len(s) - i + 1
      /\ \A j \in 1..(i - 1) : a[j] = s[j]
      /\ \A j \in 1..(Len(s) - i + 1) : b[j] = s[i - 1 + j]
  OBVIOUS
<1>2. t = a \o <<r>> \o b
  BY DEF InsertAt
<1> HIDE DEF a, b
<1> DEFINE c == a \o <<r>>
<1>3. c \in Seq(S) /\ Len(c) = i /\ c[i] = r /\ \A j \in 1..(i - 1) : c[j] = s[j]
  <2>1. a \in Seq(S) /\ Len(a) = i - 1 /\ i \in Nat /\ i > 0
    BY <1>1
  <2>2. c \in Seq(S) /\ Len(c) = i /\ c[i] = r
    BY <2>1
  <2>3. \A j \in 1..(i - 1) : c[j] = a[j]
    BY <2>1
  <2> QED BY <1>1, <2>2, <2>3
<1>4. t = c \o b
  BY <1>2
<1> HIDE DEF c
<1>5. t \in Seq(S) /\ Len(t) = Len(s) + 1
  BY <1>1, <1>3, <1>4
<1>6. t[i] = r /\ \A j \in 1..(i - 1) : t[j] = s[j]
  BY <1>1, <1>3, <1>4
<1>7. ASSUME NEW j \in (i + 1)..(Len(s) + 1)
      PROVE  t[j] = s[j - 1]
  <2>1. t[j] = b[j - i]
    BY <1>1, <1>3, <1>4
  <2>2. j - i \in 1..(Len(s) - i + 1) /\ i - 1 + (j - i) = j - 1
    BY <1>1
  <2>3. b[j - i] = s[i - 1 + (j - i)]
    BY <1>1, <2>2
  <2> QED BY <2>1, <2>2, <2>3
<1> QED BY <1>5, <1>6, <1>7 DEF IsInsertion

\* RemoveAt(), index by index.
LEMMA Removed ==
    ASSUME NEW S, NEW s \in Seq(S), NEW i \in 1..Len(s), NEW t, t = RemoveAt(s, i)
    PROVE  /\ t \in Seq(S) /\ Len(t) = Len(s) - 1
           /\ \A j \in 1..(i - 1) : t[j] = s[j]
           /\ \A j \in i..(Len(s) - 1) : t[j] = s[j + 1]
<1> DEFINE a == SubSeq(s, 1, i - 1)
           b == SubSeq(s, i + 1, Len(s))
<1>1. /\ Len(s) \in Nat /\ i \in Nat
      /\ a \in Seq(S) /\ b \in Seq(S) /\ Len(a) = i - 1 /\ Len(b) = Len(s) - i
      /\ \A j \in 1..(i - 1) : a[j] = s[j]
      /\ \A j \in 1..(Len(s) - i) : b[j] = s[i + j]
  OBVIOUS
<1>2. t = a \o b
  BY DEF RemoveAt
<1> HIDE DEF a, b
<1>5. t \in Seq(S) /\ Len(t) = Len(s) - 1
  BY <1>1, <1>2
<1>6. \A j \in 1..(i - 1) : t[j] = s[j]
  BY <1>1, <1>2
<1>7. ASSUME NEW j \in i..(Len(s) - 1)
      PROVE  t[j] = s[j + 1]
  <2>1. t[j] = b[j - (i - 1)]
    BY <1>1, <1>2
  <2>2. j - (i - 1) \in 1..(Len(s) - i) /\ i + (j - (i - 1)) = j + 1
    BY <1>1
  <2>3. b[j - (i - 1)] = s[i + (j - (i - 1))]
    BY <1>1, <2>2
  <2> QED BY <2>1, <2>2, <2>3
<1> QED BY <1>5, <1>6, <1>7

\* t is s with one row more, or without its row at i; n is a line drawn in both.
OneBeyond(s, t, n) ==
    /\ t \in Seq(Row) /\ IsInjective(t) /\ Elements(s) \subseteq Elements(t)
    /\ Beyond(s, n) \subseteq Beyond(t, n)
    /\ \E x : Beyond(t, n) \subseteq Beyond(s, n) \union {x}
OneBack(s, i, t, n) ==
    /\ t \in Seq(Row) /\ IsInjective(t) /\ Elements(s) \ {s[i]} \subseteq Elements(t)
    /\ Beyond(t, n) \subseteq Beyond(s, n)
    /\ \E x : Beyond(s, n) \subseteq Beyond(t, n) \union {s[i], x}

\* A row put into the list pushes at most one beyond a line drawn in it.
LEMMA BookingPushesOne ==
    ASSUME NEW s \in Seq(Row), NEW i \in 1..(Len(s) + 1), NEW r \in Row \ Elements(s),
           NEW n \in Nat, IsInjective(s)
    PROVE  OneBeyond(s, InsertAt(s, i, r), n)
<1> DEFINE t == InsertAt(s, i, r)
<1>0. t = InsertAt(s, i, r)
  OBVIOUS
<1> HIDE DEF t
<1> SUFFICES
           /\ t \in Seq(Row) /\ IsInjective(t) /\ Elements(s) \subseteq Elements(t)
           /\ Beyond(s, n) \subseteq Beyond(t, n)
           /\ \E x : Beyond(t, n) \subseteq Beyond(s, n) \union {x}
  BY DEF OneBeyond, t
<1>1. /\ t \in Seq(Row) /\ Len(t) = Len(s) + 1 /\ Len(s) \in Nat /\ i \in Nat
      /\ \A j \in 1..(i - 1) : t[j] = s[j]
      /\ t[i] = r
      /\ \A j \in (i + 1)..(Len(s) + 1) : t[j] = s[j - 1]
  <2>1. Len(s) \in Nat /\ i \in Nat /\ r \in Row
    OBVIOUS
  <2>2. t \in Seq(Row) /\ IsInsertion(t, s, i, r)
    BY <1>0, <2>1, Inserted
  <2> QED BY <2>1, <2>2 DEF IsInsertion
<1>2. DOMAIN s = 1..Len(s) /\ DOMAIN t = 1..(Len(s) + 1)
  BY <1>1
<1>3. \A j \in 1..Len(s) : s[j] # r
  BY <1>2 DEF Elements
<1>4. \A j \in 1..Len(s) : s[j] = t[IF j < i THEN j ELSE j + 1]
  <2> TAKE j \in 1..Len(s)
  <2>1. CASE j < i
    <3>1. j \in 1..(i - 1)
      BY <1>1, <2>1
    <3> QED BY <1>1, <2>1, <3>1
  <2>2. CASE ~(j < i)
    <3>1. j + 1 \in (i + 1)..(Len(s) + 1) /\ (j + 1) - 1 = j
      BY <1>1, <2>2
    <3> QED BY <1>1, <2>2, <3>1
  <2> QED BY <2>1, <2>2
<1>5. IsInjective(t)
  <2> SUFFICES ASSUME NEW a \in 1..(Len(s) + 1), NEW b \in 1..(Len(s) + 1), t[a] = t[b], a < b
               PROVE  FALSE
    BY <1>1, <1>2 DEF IsInjective
  <2> DEFINE pa == IF a < i THEN a ELSE a - 1
             pb == IF b < i THEN b ELSE b - 1
  <2>1. CASE a = i
    <3>1. b \in (i + 1)..(Len(s) + 1) /\ b - 1 \in 1..Len(s)
      BY <1>1, <2>1
    <3>2. t[b] = s[b - 1]
      BY <1>1, <3>1
    <3> QED BY <1>1, <1>3, <2>1, <3>1, <3>2
  <2>3. CASE b = i
    <3>1. t[a] = s[a] /\ a \in 1..Len(s)
      BY <1>1, <2>3
    <3> QED BY <1>1, <1>3, <2>3, <3>1
  <2>2. CASE a # i /\ b # i
    <3>1. pa \in 1..Len(s) /\ pb \in 1..Len(s) /\ t[a] = s[pa] /\ t[b] = s[pb] /\ pa # pb
      BY <1>1, <2>2
    <3> QED BY <1>2, <3>1 DEF IsInjective
  <2> QED BY <2>1, <2>2, <2>3
<1>6. Elements(s) \subseteq Elements(t)
  BY <1>1, <1>2, <1>4 DEF Elements
<1>7. Beyond(s, n) \subseteq Beyond(t, n)
  <2> SUFFICES ASSUME NEW j \in 1..Len(s), j > n PROVE s[j] \in Beyond(t, n)
    BY <1>2 DEF Beyond
  <2>1. (IF j < i THEN j ELSE j + 1) \in 1..(Len(s) + 1) /\ (IF j < i THEN j ELSE j + 1) > n
    BY <1>1
  <2> QED BY <1>2, <1>4, <2>1 DEF Beyond
<1>8. Beyond(t, n) \subseteq Beyond(s, n) \union {IF i > n THEN r ELSE s[n]}
  <2> SUFFICES ASSUME NEW j \in 1..(Len(s) + 1), j > n,
                      t[j] # IF i > n THEN r ELSE s[n]
               PROVE  t[j] \in Beyond(s, n)
    BY <1>2 DEF Beyond
  <2> DEFINE p == IF j < i THEN j ELSE j - 1
  <2>1. j # i
    BY <1>1
  <2>2. p \in 1..Len(s) /\ t[j] = s[p]
    BY <1>1, <2>1
  <2>3. p > n
    BY <1>1, <2>1, <2>2
  <2> HIDE DEF p
  <2> QED BY <1>2, <2>2, <2>3 DEF Beyond
<1> QED BY <1>1, <1>5, <1>6, <1>7, <1>8

\* A row taken out of it pulls at most one back.
LEMMA DeletionPullsOne ==
    ASSUME NEW s \in Seq(Row), NEW i \in 1..Len(s), NEW n \in Nat, IsInjective(s)
    PROVE  OneBack(s, i, RemoveAt(s, i), n)
<1> DEFINE t == RemoveAt(s, i)
<1>0. t = RemoveAt(s, i)
  OBVIOUS
<1> HIDE DEF t
<1> SUFFICES
           /\ t \in Seq(Row) /\ IsInjective(t) /\ Elements(s) \ {s[i]} \subseteq Elements(t)
           /\ Beyond(t, n) \subseteq Beyond(s, n)
           /\ \E x : Beyond(s, n) \subseteq Beyond(t, n) \union {s[i], x}
  BY DEF OneBack, t
<1>1. /\ t \in Seq(Row) /\ Len(t) = Len(s) - 1 /\ Len(s) \in Nat /\ i \in Nat /\ i <= Len(s)
      /\ \A j \in 1..(i - 1) : t[j] = s[j]
      /\ \A j \in i..(Len(s) - 1) : t[j] = s[j + 1]
  <2>1. Len(s) \in Nat /\ i \in Nat /\ i <= Len(s)
    OBVIOUS
  <2>2. /\ t \in Seq(Row) /\ Len(t) = Len(s) - 1
        /\ \A j \in 1..(i - 1) : t[j] = s[j]
        /\ \A j \in i..(Len(s) - 1) : t[j] = s[j + 1]
    BY <1>0, Removed
  <2> QED BY <2>1, <2>2
<1>2. DOMAIN s = 1..Len(s) /\ DOMAIN t = 1..(Len(s) - 1)
  BY <1>1
<1>4. ASSUME NEW j \in 1..Len(s), j # i
      PROVE  /\ (IF j < i THEN j ELSE j - 1) \in 1..(Len(s) - 1)
             /\ s[j] = t[IF j < i THEN j ELSE j - 1]
  <2>1. CASE j < i
    BY <1>1, <2>1
  <2>2. CASE j > i
    <3>1. j - 1 \in i..(Len(s) - 1) /\ (j - 1) + 1 = j /\ ~(j < i) /\ j - 1 \in 1..(Len(s) - 1)
      BY <1>1, <2>2
    <3>2. t[j - 1] = s[(j - 1) + 1]
      BY <1>1, <3>1
    <3> QED BY <3>1, <3>2
  <2> QED BY <1>1, <1>4, <2>1, <2>2
<1>5. IsInjective(t)
  <2> SUFFICES ASSUME NEW a \in 1..(Len(s) - 1), NEW b \in 1..(Len(s) - 1), t[a] = t[b], a < b
               PROVE  FALSE
    BY <1>1, <1>2 DEF IsInjective
  <2> DEFINE pa == IF a < i THEN a ELSE a + 1
             pb == IF b < i THEN b ELSE b + 1
  <2>1. pa \in 1..Len(s) /\ pb \in 1..Len(s) /\ pa # pb
    BY <1>1
  <2>2. t[a] = s[pa]
    <3>1. a < i => a \in 1..(i - 1)
      BY <1>1
    <3>2. ~(a < i) => a \in i..(Len(s) - 1)
      BY <1>1
    <3> QED BY <1>1, <3>1, <3>2
  <2>3. t[b] = s[pb]
    <3>1. b < i => b \in 1..(i - 1)
      BY <1>1
    <3>2. ~(b < i) => b \in i..(Len(s) - 1)
      BY <1>1
    <3> QED BY <1>1, <3>1, <3>2
  <2> HIDE DEF pa, pb
  <2> QED BY <1>2, <2>1, <2>2, <2>3 DEF IsInjective
<1>6. Elements(s) \ {s[i]} \subseteq Elements(t)
  <2> SUFFICES ASSUME NEW j \in 1..Len(s), j # i PROVE s[j] \in Elements(t)
    BY <1>2 DEF Elements
  <2> DEFINE p == IF j < i THEN j ELSE j - 1
  <2>1. p \in 1..(Len(s) - 1) /\ s[j] = t[p]
    BY <1>4
  <2> HIDE DEF p
  <2> QED BY <1>2, <2>1 DEF Elements
<1>7. Beyond(t, n) \subseteq Beyond(s, n)
  <2> SUFFICES ASSUME NEW j \in 1..(Len(s) - 1), j > n PROVE t[j] \in Beyond(s, n)
    BY <1>2 DEF Beyond
  <2> DEFINE p == IF j < i THEN j ELSE j + 1
  <2>1. p \in 1..Len(s) /\ p > n /\ t[j] = s[p]
    BY <1>1
  <2> HIDE DEF p
  <2> QED BY <1>2, <2>1 DEF Beyond
<1>8. Beyond(s, n) \subseteq Beyond(t, n) \union {s[i], s[n + 1]}
  <2> SUFFICES ASSUME NEW j \in 1..Len(s), j > n, j # i, j # n + 1
               PROVE  s[j] \in Beyond(t, n)
    BY <1>2 DEF Beyond
  <2> DEFINE p == IF j < i THEN j ELSE j - 1
  <2>2. p \in 1..(Len(s) - 1) /\ s[j] = t[p]
    BY <1>4
  <2>3. p > n
    BY <1>1
  <2> HIDE DEF p
  <2> QED BY <1>2, <2>2, <2>3 DEF Beyond
<1> QED BY <1>1, <1>5, <1>6, <1>7, <1>8

USE PagesAssumption

\* A page begins where the one before it ended.
LEMMA PageEnds ==
    ASSUME NEW p \in Nat
    PROVE  /\ p * SIZE \in Nat /\ (p + 1) * SIZE \in Nat
           /\ (p + 1) * SIZE = p * SIZE + SIZE
OBVIOUS

\* The end of the page that is read.
PageEnd == IF IsLast(page) THEN Len(list) ELSE (page + 1) * SIZE

\* A page holds the rows of the list from the end of the one before to its own.
LEMMA ContentRows ==
    ASSUME list \in Seq(Row), IsInjective(list), page \in Nat
    PROVE  /\ PageEnd \in Nat /\ PageEnd <= Len(list)
           /\ Content(page) \in Seq(Row) /\ IsInjective(Content(page))
           /\ Len(Content(page)) = IF page * SIZE <= PageEnd THEN PageEnd - page * SIZE ELSE 0
           /\ Elements(Content(page)) = {list[i] : i \in (page * SIZE + 1)..PageEnd}
<1> DEFINE k == page * SIZE
           m == PageEnd
           rows == Content(page)
<1>1. k \in Nat /\ m \in Nat /\ m <= Len(list) /\ Len(list) \in Nat
  <2>1. k \in Nat /\ (page + 1) * SIZE \in Nat /\ Len(list) \in Nat
    BY PageEnds
  <2> QED BY <2>1 DEF PageEnd, IsLast
<1>2. rows = SubSeq(list, k + 1, m)
  BY DEF Content, PageEnd
<1> HIDE DEF k, m, rows
<1>3. /\ rows \in Seq(Row)
      /\ Len(rows) = IF k <= m THEN m - k ELSE 0
      /\ DOMAIN rows = 1..(m - k)
      /\ \A j \in 1..(m - k) : rows[j] = list[k + j]
  BY <1>1, <1>2
<1>4. \A i \in (k + 1)..m : i - k \in 1..(m - k) /\ rows[i - k] = list[i]
  <2> TAKE i \in (k + 1)..m
  <2>1. i - k \in 1..(m - k) /\ k + (i - k) = i
    BY <1>1
  <2> QED BY <2>1, <1>3
<1>5. \A j \in 1..(m - k) : k + j \in (k + 1)..m /\ k + j \in DOMAIN list
  BY <1>1
<1>6. Elements(rows) = {list[i] : i \in (k + 1)..m}
  <2>1. Elements(rows) = {rows[j] : j \in 1..(m - k)}
    BY <1>3 DEF Elements
  <2>2. \A j \in 1..(m - k) : rows[j] \in {list[i] : i \in (k + 1)..m}
    BY <1>3, <1>5
  <2>3. \A i \in (k + 1)..m : list[i] \in {rows[j] : j \in 1..(m - k)}
    BY <1>4
  <2> QED BY <2>1, <2>2, <2>3
<1>7. IsInjective(rows)
  <2> SUFFICES ASSUME NEW i \in 1..(m - k), NEW j \in 1..(m - k), rows[i] = rows[j]
               PROVE  i = j
    BY <1>3 DEF IsInjective
  <2>1. k + i = k + j
    BY <1>3, <1>5 DEF IsInjective
  <2> QED BY <1>1, <2>1
<1> QED BY <1>1, <1>3, <1>6, <1>7 DEF k, m, rows

-----------------------------------------------------------------------------

(* A list that nobody changes. *)

\* The cap in rows is not below the end of any page within it.
LEMMA CapEnds ==
    ASSUME NEW p \in 0..(maxPages - 1)
    PROVE  /\ (p + 1) * SIZE <= maxPages * SIZE
           /\ maxPages * SIZE \in Nat
           /\ p + 1 >= maxPages => (p + 1) * SIZE = maxPages * SIZE
<1>1. PICK d \in Nat : maxPages = p + 1 + d
  <2> maxPages - (p + 1) \in Nat
    OBVIOUS
  <2> QED OBVIOUS
<1>2. maxPages * SIZE = (p + 1) * SIZE + d * SIZE
  BY <1>1
<1>3. d * SIZE \in Nat /\ (p + 1) * SIZE \in Nat
  OBVIOUS
<1>4. p + 1 >= maxPages => maxPages = p + 1
  OBVIOUS
<1> QED BY <1>2, <1>3, <1>4

\* The inductive invariant holds at first,
LEMMA Initial == Init => IInv
<1> SUFFICES ASSUME Init PROVE IInv
  OBVIOUS
<1>1. list \in Seq(Row) /\ IsInjective(list)
  BY DEF Init, SeqOf
<1>2. Underway
  <2>1. page = 0 /\ page * SIZE = 0
    BY DEF Init, FirstPage
  <2>2. seen = [r \in Row |-> IF \E i \in 1..0 : list[i] = r THEN 1 ELSE 0]
    BY DEF Init
  <2> QED BY <2>1, <2>2 DEF Init, Underway, CountedUpTo
<1> QED BY <1>1, <1>2 DEF Init, IInv, Undisturbed, ExactIfUnchanged, Done

\* Reading a page counts the rows up to its end.
LEMMA PageCounted ==
    ASSUME list \in Seq(Row), IsInjective(list), Underway, ReadPage
    PROVE  /\ scanned' = PageEnd
           /\ seen' = [r \in Row |-> IF \E i \in 1..PageEnd : list[i] = r THEN 1 ELSE 0]
<1> DEFINE k == page * SIZE
           m == PageEnd
<1>1. k \in Nat /\ m \in Nat /\ k <= m /\ m <= Len(list) /\ page \in Nat
  <2>1. page \in Nat /\ Len(list) \in Nat
    BY DEF Underway
  <2>2. k \in Nat /\ (page + 1) * SIZE \in Nat /\ (page + 1) * SIZE = k + SIZE
    BY <2>1, PageEnds
  <2>3. k = 0 \/ k < Len(list)
    BY DEF Underway
  <2> HIDE DEF k
  <2> QED BY <2>1, <2>2, <2>3 DEF PageEnd, IsLast
<1>2. /\ Len(Content(page)) = m - k
      /\ Elements(Content(page)) = {list[i] : i \in (k + 1)..m}
  BY <1>1, ContentRows
<1> HIDE DEF k, m
<1>3. scanned' = m
  <2>1. scanned = k
    BY DEF Underway, CountedUpTo, k
  <2> QED BY <2>1, <1>1, <1>2 DEF ReadPage
<1>4. seen' = [r \in Row |-> IF \E i \in 1..m : list[i] = r THEN 1 ELSE 0]
  <2>1. ASSUME NEW r \in Row
        PROVE  seen[r] + (IF r \in Elements(Content(page)) THEN 1 ELSE 0)
                 = IF \E i \in 1..m : list[i] = r THEN 1 ELSE 0
    <3>1. seen[r] = IF \E i \in 1..k : list[i] = r THEN 1 ELSE 0
      BY DEF Underway, CountedUpTo, k
    <3>2. (\E i \in 1..m : list[i] = r)
            <=> (\E i \in 1..k : list[i] = r) \/ (\E i \in (k + 1)..m : list[i] = r)
      BY <1>1
    <3>3. ~((\E i \in 1..k : list[i] = r) /\ (\E i \in (k + 1)..m : list[i] = r))
      <4> SUFFICES ASSUME NEW i \in 1..k, NEW j \in (k + 1)..m, list[i] = r, list[j] = r
                   PROVE  FALSE
        OBVIOUS
      <4>1. i \in DOMAIN list /\ j \in DOMAIN list /\ i # j
        BY <1>1
      <4> QED BY <4>1 DEF IsInjective
    <3> QED BY <3>1, <3>2, <3>3, <1>2
  <2> QED BY <2>1 DEF ReadPage
<1> QED BY <1>3, <1>4 DEF m

\* after a page is read,
LEMMA PageRead ==
    ASSUME IInv, ReadPage
    PROVE  IInv'
<1> USE DEF ReadPage, world
<1>1. {added, removed}' \subseteq Nat /\ status' \in {"walking", "done", "failed"}
  BY DEF IInv
<1>2. SUFFICES ASSUME added = 0, removed = 0
               PROVE  Undisturbed' /\ ExactIfUnchanged'
  BY <1>1 DEF IInv, Undisturbed, ExactIfUnchanged
<1>3. list \in Seq(Row) /\ IsInjective(list) /\ Underway /\ UNCHANGED list
  BY <1>2 DEF IInv, Undisturbed
<1>4. /\ scanned' = PageEnd
      /\ seen' = [r \in Row |-> IF \E i \in 1..PageEnd : list[i] = r THEN 1 ELSE 0]
  BY <1>3, PageCounted
<1>5. /\ page \in 0..(maxPages - 1) /\ page \in Nat /\ page + 1 \in Nat
      /\ Len(list) \in Nat
      /\ (page + 1) * SIZE \in Nat
      /\ (page + 1) * SIZE <= maxPages * SIZE /\ maxPages * SIZE \in Nat
      /\ page + 1 >= maxPages => (page + 1) * SIZE = maxPages * SIZE
  BY <1>3, CapEnds, PageEnds DEF Underway
<1>6. CASE IsLast(page)
  <2>1. PageEnd = Len(list) /\ status' = "done" /\ ~truncated' /\ totalElements' = Len(list)
    BY <1>6 DEF PageEnd, CutOff
  <2>2. ~(Len(list) > maxPages * SIZE)
    BY <1>5, <1>6 DEF IsLast
  <2>3. \A r \in Row : seen'[r] = IF r \in Elements(list) THEN 1 ELSE 0
    <3>1. DOMAIN list = 1..PageEnd
      BY <1>3, <2>1
    <3>2. Elements(list) = {list[i] : i \in 1..PageEnd}
      BY <3>1 DEF Elements
    <3> QED BY <1>4, <3>2
  <2>4. scanned' = totalElements'
    BY <1>4, <2>1
  <2>5. (Elements(list))' = Elements(list)
    BY <1>3 DEF Elements
  <2> QED BY <1>3, <2>1, <2>2, <2>3, <2>4, <2>5 DEF Undisturbed, ExactIfUnchanged
<1>7. CASE ~IsLast(page) /\ Capped(page)
  <2>1. status' = "done" /\ truncated'
    BY <1>7 DEF CutOff
  <2>2. Len(list) > maxPages * SIZE
    BY <1>5, <1>7 DEF IsLast, Capped
  <2> QED BY <1>3, <2>1, <2>2 DEF Undisturbed, ExactIfUnchanged
<1>8. CASE ~IsLast(page) /\ ~Capped(page)
  <2>1. status' = "walking" /\ page' = page + 1 /\ PageEnd = (page + 1) * SIZE
    BY <1>8 DEF NextPage, PageEnd
  <2>2. page' \in 0..(maxPages - 1) /\ page' * SIZE < Len(list)
    <3>1. page + 1 \in 0..(maxPages - 1)
      BY <1>5, <1>8 DEF Capped
    <3>2. (page + 1) * SIZE < Len(list)
      BY <1>5, <1>8 DEF IsLast
    <3> QED BY <2>1, <3>1, <3>2
  <2>3. CountedUpTo(page * SIZE)'
    BY <1>3, <1>4, <2>1 DEF CountedUpTo
  <2> QED BY <1>3, <2>1, <2>2, <2>3 DEF Undisturbed, Underway, ExactIfUnchanged, Done
<1> QED BY <1>6, <1>7, <1>8

\* and after every step.
LEMMA Preserved == IInv /\ [Next]_vars => IInv'
<1> SUFFICES ASSUME IInv, [Next]_vars PROVE IInv'
  OBVIOUS
<1>1. CASE ReadPage
  BY <1>1, PageRead
<1>2. CASE PageFails
  BY <1>2 DEF PageFails, world, IInv, Undisturbed, ExactIfUnchanged, Done
<1>3. CASE status = "walking" /\ (Book \/ Delete)
  <2>1. {added, removed}' \subseteq Nat /\ ~(added' = 0 /\ removed' = 0) /\ UNCHANGED walk
    BY <1>3 DEF Book, Delete, IInv
  <2> QED BY <2>1 DEF walk, IInv, Undisturbed, ExactIfUnchanged
<1>4. CASE UNCHANGED vars
  BY <1>4 DEF vars, walk, world, IInv, Undisturbed, Underway, CountedUpTo, ExactIfUnchanged, Done
<1> QED BY <1>1, <1>2, <1>3, <1>4 DEF Next

\* The inductive invariant: in a list that nobody changes, the rows before the
\* page read next have been counted, once each.
THEOREM PagesInductive == Spec => []IInv
BY Initial, Preserved, PTL DEF Spec

\* The totals of a list that nobody changed are exact, and flagged as truncated
\* if and only if the cap left rows out (documents.ts:225), for any list, page
\* size and cap.
THEOREM UnchangedIsExact == Spec => []ExactIfUnchanged
<1>1. IInv => ExactIfUnchanged
  BY DEF IInv
<1> QED BY <1>1, PagesInductive, PTL

-----------------------------------------------------------------------------

(* A list that others change. *)

(* Each of the others moves at most one row across the line between the      *)
(* pages read and the pages to come: a booking pushes one that was counted   *)
(* to the pages to come, a deletion pulls one that was not back.             *)
CountedToCome(n) == {r \in ToCome(n) : seen[r] > 0}
MissedSoFar(n) == {r \in stayed \ ToCome(n) : seen[r] = 0}

\* The inductive invariant: the rows counted twice, and those that were counted
\* and are still to come, are no more than the bookings; the rows that the
\* pages to come no longer hold and nobody counted, no more than the deletions.
OffInv ==
  /\ StaysAList
  /\ page \in Nat /\ added \in Nat /\ removed \in Nat /\ seen \in [Row -> Nat]
  /\ status = "walking" =>
       /\ Again + Cardinality(CountedToCome(page * SIZE)) <= added
       /\ Cardinality(MissedSoFar(page * SIZE)) <= removed
  /\ OffByChanges

\* Rows counted again, as a function.
Repeats == [r \in Row |-> IF seen[r] > 1 THEN seen[r] - 1 ELSE 0]

\* They are what OffByChanges counts.
LEMMA AgainIs == Again = SumFunctionOnSet(Repeats, Row)
BY DEF Again, SumFunction, Repeats

\* The numbers OffInv compares are naturals.
LEMMA OffTypes ==
    ASSUME seen \in [Row -> Nat], NEW n \in Nat, stayed \subseteq Row, list \in Seq(Row)
    PROVE  /\ Again \in Nat
           /\ CountedToCome(n) \subseteq Row /\ MissedSoFar(n) \subseteq Row
           /\ IsFiniteSet(CountedToCome(n)) /\ Cardinality(CountedToCome(n)) \in Nat
           /\ IsFiniteSet(MissedSoFar(n)) /\ Cardinality(MissedSoFar(n)) \in Nat
<1>1. Again \in Nat
  <2>1. \A r \in Row : Repeats[r] \in Nat
    BY DEF Repeats
  <2> QED BY <2>1, AgainIs, SumNat
<1>2. CountedToCome(n) \subseteq Row /\ MissedSoFar(n) \subseteq Row
  BY DEF CountedToCome, MissedSoFar, ToCome, Beyond
<1> QED BY <1>1, <1>2, FS_Subset, FS_CardinalityType

\* A set that gains at most one element is larger by at most one.
LEMMA OneMore ==
    ASSUME NEW A, IsFiniteSet(A), NEW x, NEW B, B \subseteq A \union {x}
    PROVE  /\ IsFiniteSet(B) /\ Cardinality(A) \in Nat /\ Cardinality(B) \in Nat
           /\ Cardinality(B) <= Cardinality(A) + 1
<1>1. IsFiniteSet(A \union {x}) /\ Cardinality(A \union {x}) <= Cardinality(A) + 1
  <2>1. /\ IsFiniteSet(A \union {x})
        /\ Cardinality(A \union {x}) = Cardinality(A) + 1 \/ A \union {x} = A
    <3>1. x \in A => A \union {x} = A
      OBVIOUS
    <3> QED BY <3>1, FS_AddElement
  <2>2. Cardinality(A) \in Nat
    BY FS_CardinalityType
  <2>3. CASE A \union {x} = A
    <3>1. Cardinality(A) <= Cardinality(A) + 1
      BY <2>2
    <3> QED BY <2>1, <2>3, <3>1
  <2>4. CASE Cardinality(A \union {x}) = Cardinality(A) + 1
    <3>1. Cardinality(A) + 1 <= Cardinality(A) + 1
      BY <2>2
    <3> QED BY <2>1, <2>4, <3>1
  <2> QED BY <2>1, <2>3, <2>4
<1>2. /\ IsFiniteSet(B) /\ Cardinality(B) <= Cardinality(A \union {x})
  BY <1>1, FS_Subset
<1>3. Cardinality(A) \in Nat /\ Cardinality(B) \in Nat /\ Cardinality(A \union {x}) \in Nat
  BY <1>1, <1>2, FS_CardinalityType
<1> QED BY <1>1, <1>2, <1>3

\* Nothing is counted at first.
LEMMA OffInitially == Init => OffInv
<1> SUFFICES ASSUME Init PROVE OffInv
  OBVIOUS
<1>1. StaysAList /\ stayed = Elements(list) /\ list \in Seq(Row)
  BY DEF Init, SeqOf, StaysAList
<1>2. /\ page = 0 /\ page * SIZE = 0 /\ status = "walking" /\ added = 0 /\ removed = 0
      /\ seen \in [Row -> Nat] /\ \A r \in Row : seen[r] = 0
  BY DEF Init, FirstPage
<1>3. Again = 0
  <2>1. \A r \in Row : Repeats[r] = IF r \in {} THEN 1 ELSE 0
    BY <1>2 DEF Repeats
  <2>2. Row \cap {} = {}
    OBVIOUS
  <2>3. Again = Cardinality(Row \cap {})
    BY <2>1, AgainIs, SumCounts
  <2> QED BY <2>2, <2>3, FS_EmptySet
<1>4. CountedToCome(0) = {}
  BY <1>1, <1>2 DEF CountedToCome, ToCome, Beyond
<1>5. MissedSoFar(0) = {}
  BY <1>1 DEF MissedSoFar, ToCome, Beyond, Elements
<1>6. Cardinality({}) = 0
  BY FS_EmptySet
<1>7. Again + Cardinality(CountedToCome(page * SIZE)) <= added /\ Again <= added
  <2>1. Cardinality(CountedToCome(page * SIZE)) = 0
    BY <1>2, <1>4, <1>6
  <2> QED BY <1>2, <1>3, <2>1
<1>8. Cardinality(MissedSoFar(page * SIZE)) <= removed
  BY <1>2, <1>5, <1>6
<1> QED BY <1>1, <1>2, <1>7, <1>8 DEF OffInv, OffByChanges, Done

\* A booking pushes at most one counted row back to the pages to come.
LEMMA BookingOff ==
    ASSUME OffInv, status = "walking", Book
    PROVE  OffInv'
<1> DEFINE n == page * SIZE
<1>1. /\ list \in Seq(Row) /\ IsInjective(list) /\ stayed \subseteq Elements(list)
      /\ page \in Nat /\ added \in Nat /\ removed \in Nat /\ seen \in [Row -> Nat]
      /\ Again + Cardinality(CountedToCome(n)) <= added
      /\ Cardinality(MissedSoFar(n)) <= removed
      /\ Again <= added
  BY DEF OffInv, StaysAList, OffByChanges
<1>2. stayed \subseteq Row
  BY <1>1 DEF Elements
<1>3. /\ UNCHANGED <<page, status, seen, stayed, removed, truncated>> /\ added' = added + 1
      /\ status # "done"
  BY DEF Book, walk
<1>4. PICK r \in Row \ Elements(list), i \in 1..(Len(list) + 1) : list' = InsertAt(list, i, r)
  BY DEF Book
<1>5. n \in Nat /\ n' = n
  BY <1>1, <1>3, PageEnds
<1> HIDE DEF n
<1>6. PICK x : /\ list' \in Seq(Row) /\ IsInjective(list') /\ Elements(list) \subseteq Elements(list')
               /\ ToCome(n) \subseteq Beyond(list', n)
               /\ Beyond(list', n) \subseteq ToCome(n) \union {x}
  <2>1. OneBeyond(list, list', n)
    BY <1>1, <1>4, <1>5, BookingPushesOne
  <2> QED BY <2>1 DEF OneBeyond, ToCome
<1>7. Again' = Again
  BY <1>3 DEF Again
<1>8. /\ Again \in Nat
      /\ IsFiniteSet(CountedToCome(n)) /\ Cardinality(CountedToCome(n)) \in Nat
      /\ IsFiniteSet(MissedSoFar(n)) /\ Cardinality(MissedSoFar(n)) \in Nat
  BY <1>1, <1>2, <1>5, OffTypes
<1>9. (CountedToCome(n))' \subseteq CountedToCome(n) \union {x}
  BY <1>3, <1>5, <1>6 DEF CountedToCome, ToCome
<1>10. Cardinality((CountedToCome(n))') <= Cardinality(CountedToCome(n)) + 1
       /\ Cardinality((CountedToCome(n))') \in Nat
  BY <1>8, <1>9, OneMore
<1>11. (MissedSoFar(n))' \subseteq MissedSoFar(n)
  BY <1>3, <1>5, <1>6 DEF MissedSoFar, ToCome
<1>12. Cardinality((MissedSoFar(n))') <= Cardinality(MissedSoFar(n))
       /\ Cardinality((MissedSoFar(n))') \in Nat
  BY <1>8, <1>11, FS_Subset, FS_CardinalityType
<1>13. /\ Again' + Cardinality((CountedToCome(n))') <= added' /\ Again' <= added'
       /\ Cardinality((MissedSoFar(n))') <= removed'
  BY <1>1, <1>3, <1>7, <1>8, <1>10, <1>12
<1>14. StaysAList'
  BY <1>1, <1>3, <1>6 DEF StaysAList, Elements
<1>15. OffByChanges'
  BY <1>3, <1>13 DEF OffByChanges, Done
<1>16. added' \in Nat /\ removed' \in Nat
  BY <1>1, <1>3
<1> QED BY <1>1, <1>3, <1>5, <1>13, <1>14, <1>15, <1>16 DEF OffInv, n

\* A deletion pulls at most one row that was not counted off them.
LEMMA DeletionOff ==
    ASSUME OffInv, status = "walking", Delete
    PROVE  OffInv'
<1> DEFINE n == page * SIZE
<1>1. /\ list \in Seq(Row) /\ IsInjective(list) /\ stayed \subseteq Elements(list)
      /\ page \in Nat /\ added \in Nat /\ removed \in Nat /\ seen \in [Row -> Nat]
      /\ Again + Cardinality(CountedToCome(n)) <= added
      /\ Cardinality(MissedSoFar(n)) <= removed
      /\ Again <= added
  BY DEF OffInv, StaysAList, OffByChanges
<1>2. stayed \subseteq Row
  BY <1>1 DEF Elements
<1>3. /\ UNCHANGED <<page, status, seen, added, truncated>> /\ removed' = removed + 1
      /\ status # "done"
  BY DEF Delete, walk
<1>4. PICK i \in 1..Len(list) : list' = RemoveAt(list, i) /\ stayed' = stayed \ {list[i]}
  <2>1. DOMAIN list = 1..Len(list)
    BY <1>1
  <2> QED BY <2>1 DEF Delete
<1>5. n \in Nat /\ n' = n
  BY <1>1, <1>3, PageEnds
<1> HIDE DEF n
<1>6. PICK x : /\ list' \in Seq(Row) /\ IsInjective(list')
               /\ Elements(list) \ {list[i]} \subseteq Elements(list')
               /\ Beyond(list', n) \subseteq ToCome(n)
               /\ ToCome(n) \subseteq Beyond(list', n) \union {list[i], x}
  <2>1. OneBack(list, i, list', n)
    BY <1>1, <1>4, <1>5, DeletionPullsOne
  <2> QED BY <2>1 DEF OneBack, ToCome
<1>7. Again' = Again
  BY <1>3 DEF Again
<1>8. /\ Again \in Nat
      /\ IsFiniteSet(CountedToCome(n)) /\ Cardinality(CountedToCome(n)) \in Nat
      /\ IsFiniteSet(MissedSoFar(n)) /\ Cardinality(MissedSoFar(n)) \in Nat
  BY <1>1, <1>2, <1>5, OffTypes
<1>9. (CountedToCome(n))' \subseteq CountedToCome(n)
  BY <1>3, <1>5, <1>6 DEF CountedToCome, ToCome
<1>10. Cardinality((CountedToCome(n))') <= Cardinality(CountedToCome(n))
       /\ Cardinality((CountedToCome(n))') \in Nat
  BY <1>8, <1>9, FS_Subset, FS_CardinalityType
<1>11. (MissedSoFar(n))' \subseteq MissedSoFar(n) \union {x}
  BY <1>3, <1>4, <1>5, <1>6 DEF MissedSoFar, ToCome
<1>12. Cardinality((MissedSoFar(n))') <= Cardinality(MissedSoFar(n)) + 1
       /\ Cardinality((MissedSoFar(n))') \in Nat
  BY <1>8, <1>11, OneMore
<1>13. /\ Again' + Cardinality((CountedToCome(n))') <= added' /\ Again' <= added'
       /\ Cardinality((MissedSoFar(n))') <= removed'
  BY <1>1, <1>3, <1>7, <1>8, <1>10, <1>12
<1>14. StaysAList'
  BY <1>1, <1>4, <1>6 DEF StaysAList, Elements
<1>15. OffByChanges'
  BY <1>3, <1>13 DEF OffByChanges, Done
<1>16. added' \in Nat /\ removed' \in Nat
  BY <1>1, <1>3
<1> QED BY <1>1, <1>3, <1>5, <1>13, <1>14, <1>15, <1>16 DEF OffInv, n

\* The rows between two lines.
Between(rows, n, m) == {rows[i] : i \in (n + 1)..m}
SplitAt(rows, n, m) ==
    /\ Between(rows, n, m) \subseteq Row /\ Beyond(rows, m) \subseteq Row
    /\ Beyond(rows, n) = Between(rows, n, m) \union Beyond(rows, m)
    /\ Between(rows, n, m) \cap Beyond(rows, m) = {}

\* The rows to come at one line are those up to a later one and those beyond it.
LEMMA RowsBetween ==
    ASSUME NEW s \in Seq(Row), IsInjective(s), NEW n \in Nat, NEW m \in Nat,
           m <= Len(s), n > m => m = Len(s)
    PROVE  SplitAt(s, n, m)
<1>1. Len(s) \in Nat /\ DOMAIN s = 1..Len(s) /\ \A i \in 1..Len(s) : s[i] \in Row
  OBVIOUS
<1>2. /\ (n + 1)..m \subseteq 1..Len(s) /\ (m + 1)..Len(s) \subseteq 1..Len(s)
      /\ (n + 1)..Len(s) = ((n + 1)..m) \union ((m + 1)..Len(s))
      /\ ((n + 1)..m) \cap ((m + 1)..Len(s)) = {}
  <2> DEFINE L == Len(s)
  <2>1. L \in Nat /\ m <= L /\ (n > m => m = L)
    BY <1>1
  <2> HIDE DEF L
  <2>2. /\ (n + 1)..m \subseteq 1..L /\ (m + 1)..L \subseteq 1..L
        /\ ((n + 1)..m) \cap ((m + 1)..L) = {}
    BY <2>1
  <2>3. (n + 1)..L = ((n + 1)..m) \union ((m + 1)..L)
    BY <2>1
  <2> QED BY <2>2, <2>3 DEF L
<1> DEFINE C == Between(s, n, m)
           I == (n + 1)..m
           J == (m + 1)..Len(s)
           K == (n + 1)..Len(s)
<1>3. Beyond(s, n) = {s[i] : i \in K} /\ Beyond(s, m) = {s[i] : i \in J} /\ C = {s[i] : i \in I}
  BY DEF Beyond, Between
<1>4. I \subseteq DOMAIN s /\ J \subseteq DOMAIN s /\ K = I \union J /\ I \cap J = {}
      /\ \A i \in DOMAIN s : s[i] \in Row
  BY <1>1, <1>2
<1> HIDE DEF I, J, K
<1> HIDE DEF C
<1>5. C \subseteq Row /\ Beyond(s, m) \subseteq Row /\ Beyond(s, n) = C \union Beyond(s, m)
  BY <1>3, <1>4
<1>6. ASSUME NEW i \in I, NEW j \in J
      PROVE  s[i] # s[j]
  BY <1>4 DEF IsInjective
<1>7. C \cap Beyond(s, m) = {}
  BY <1>3, <1>6
<1> QED BY <1>5, <1>7 DEF C, SplitAt

\* Reading a page moves the line to its end: what was counted before and is
\* on the page is counted again, and nothing on it is missed any more.
LEMMA PageOff ==
    ASSUME OffInv, status = "walking", ReadPage
    PROVE  OffInv'
<1> DEFINE n == page * SIZE
           m == PageEnd
           C == Elements(Content(page))
           B == {r \in C : seen[r] > 0}
           D == CountedToCome(m)
           M == {r \in stayed \ ToCome(m) : seen'[r] = 0}
<1>1. /\ list \in Seq(Row) /\ IsInjective(list) /\ stayed \subseteq Elements(list)
      /\ page \in Nat /\ added \in Nat /\ removed \in Nat /\ seen \in [Row -> Nat]
      /\ Again + Cardinality(CountedToCome(n)) <= added
      /\ Cardinality(MissedSoFar(n)) <= removed
  BY DEF OffInv, StaysAList
<1>2. /\ stayed \subseteq Row /\ n \in Nat
      /\ m \in Nat /\ m <= Len(list) /\ (n > m => m = Len(list))
      /\ C = Between(list, n, m)
      /\ ~IsLast(page) => m = (page + 1) * SIZE
      /\ IsLast(page) => m = Len(list)
  <2>1. n \in Nat /\ (page + 1) * SIZE = n + SIZE /\ (page + 1) * SIZE \in Nat
    BY <1>1, PageEnds
  <2>2. /\ m \in Nat /\ m <= Len(list)
        /\ C = Between(list, n, m)
    BY <1>1, ContentRows DEF Between
  <2> HIDE DEF n, C
  <2>4. /\ IsLast(page) => m = Len(list)
        /\ ~IsLast(page) => m = n + SIZE
    BY <2>1 DEF PageEnd
  <2> HIDE DEF m
  <2>3. stayed \subseteq Row
    BY <1>1 DEF Elements
  <2> QED BY <2>1, <2>2, <2>3, <2>4
<1>3. /\ UNCHANGED <<list, stayed, added, removed>> /\ page' \in Nat
      /\ seen' = [r \in Row |-> seen[r] + (IF r \in C THEN 1 ELSE 0)]
      /\ seen' \in [Row -> Nat]
  <2>1. UNCHANGED <<list, stayed, added, removed>> /\ page' \in Nat
    BY <1>1 DEF ReadPage, world, NextPage
  <2>2. seen' = [r \in Row |-> seen[r] + (IF r \in C THEN 1 ELSE 0)]
    BY DEF ReadPage
  <2> QED BY <1>1, <2>1, <2>2
<1> HIDE DEF n, m, C
<1>4. DOMAIN list = 1..Len(list) /\ Len(list) \in Nat
  BY <1>1
<1>5. /\ C \subseteq Row
      /\ ToCome(m) \subseteq Row
      /\ ToCome(n) = C \union ToCome(m) /\ C \cap ToCome(m) = {}
  <2>1. /\ list \in Seq(Row) /\ IsInjective(list) /\ n \in Nat /\ m \in Nat
        /\ m <= Len(list) /\ (n > m => m = Len(list)) /\ C = Between(list, n, m)
    BY <1>1, <1>2
  <2>2. SplitAt(list, n, m)
    BY <2>1, RowsBetween
  <2> QED BY <2>1, <2>2 DEF ToCome, SplitAt
<1>6. Cardinality(CountedToCome(n)) = Cardinality(B) + Cardinality(D)
      /\ IsFiniteSet(B) /\ Cardinality(B) \in Nat /\ Cardinality(D) \in Nat
  <2>1. CountedToCome(n) = B \union D /\ B \cap D = {} /\ B \subseteq Row
    BY <1>5 DEF CountedToCome
  <2>2. IsFiniteSet(B) /\ IsFiniteSet(D) /\ Cardinality(B) \in Nat /\ Cardinality(D) \in Nat
    BY <1>1, <1>2, <2>1, OffTypes, FS_Subset, FS_CardinalityType
  <2>3. Cardinality(B \union D) = Cardinality(B) + Cardinality(D) - Cardinality({})
    BY <2>1, <2>2, FS_Union
  <2> QED BY <2>1, <2>2, <2>3, FS_EmptySet
<1>7. Again' = Again + Cardinality(B) /\ Again \in Nat
  <2> DEFINE d == [r \in Row |-> IF r \in B THEN 1 ELSE 0]
  <2>1. ASSUME NEW r \in Row
        PROVE  Repeats[r] \in Nat /\ d[r] \in Nat /\ Repeats'[r] = Repeats[r] + d[r]
    <3>1. seen[r] \in Nat /\ seen'[r] = seen[r] + (IF r \in C THEN 1 ELSE 0)
      BY <1>1, <1>3
    <3> QED BY <3>1 DEF Repeats
  <2>2. \A r \in Row : d[r] = IF r \in B THEN 1 ELSE 0
    OBVIOUS
  <2> HIDE DEF d, B
  <2>3. Again' = SumFunctionOnSet(Repeats', Row)
    BY DEF Again, SumFunction, Repeats
  <2>4. SumFunctionOnSet(Repeats', Row) = SumFunctionOnSet(Repeats, Row) + SumFunctionOnSet(d, Row)
    <3> DEFINE f == Repeats
               h == Repeats'
    <3>1. \A x \in Row : f[x] \in Int /\ d[x] \in Int /\ h[x] = f[x] + d[x]
      BY <2>1
    <3> HIDE DEF f, h
    <3>2. SumFunctionOnSet(h, Row) = SumFunctionOnSet(f, Row) + SumFunctionOnSet(d, Row)
      BY <3>1, SumsAdd
    <3> QED BY <3>2 DEF f, h
  <2>5. SumFunctionOnSet(d, Row) = Cardinality(Row \cap B)
    BY <2>2, SumCounts
  <2>6. Row \cap B = B
    BY <1>5 DEF B
  <2> QED BY <1>1, <1>2, <2>3, <2>4, <2>5, <2>6, AgainIs, OffTypes
<1>8. (CountedToCome(m))' = {r \in ToCome(m) : seen'[r] > 0} \/ m' # m
  BY <1>3 DEF CountedToCome, ToCome
<1>9. {r \in ToCome(m) : seen'[r] > 0} = D
  <2>1. \A r \in ToCome(m) : seen'[r] = seen[r]
    BY <1>1, <1>3, <1>5
  <2> QED BY <2>1 DEF CountedToCome
<1>10. M \subseteq MissedSoFar(n) /\ Cardinality(M) <= removed
  <2>1. ASSUME NEW r \in M
        PROVE  r \in MissedSoFar(n)
    <3>1. r \in Row /\ r \in stayed /\ seen'[r] = 0 /\ r \notin ToCome(m)
      BY <1>2
    <3>2. seen[r] = 0 /\ r \notin C
      BY <1>1, <1>3, <3>1
    <3> QED BY <1>5, <3>1, <3>2 DEF MissedSoFar
  <2>2. IsFiniteSet(MissedSoFar(n)) /\ Cardinality(MissedSoFar(n)) \in Nat
    BY <1>1, <1>2, OffTypes
  <2>3. Cardinality(M) <= Cardinality(MissedSoFar(n)) /\ Cardinality(M) \in Nat
    BY <2>1, <2>2, FS_Subset, FS_CardinalityType
  <2> QED BY <1>1, <2>1, <2>2, <2>3
<1>11. Again' + Cardinality(D) <= added' /\ Again' <= added'
  BY <1>1, <1>3, <1>6, <1>7
<1>12. CASE IsLast(page)
  <2>1. status' = "done" /\ ToCome(m) = {}
    BY <1>2, <1>4, <1>12 DEF ReadPage, ToCome, Beyond
  <2>2. {r \in stayed : seen[r] = 0}' = M
    BY <1>3, <2>1
  <2>3. OffByChanges'
    BY <1>3, <1>10, <1>11, <2>2 DEF OffByChanges
  <2> QED BY <1>1, <1>3, <2>1, <2>3 DEF OffInv, StaysAList, Elements
<1>13. CASE ~IsLast(page)
  <2>1. page' = page + 1 /\ page' * SIZE = m /\ (truncated' \/ status' # "done")
    BY <1>2, <1>13 DEF ReadPage, NextPage, CutOff
  <2>2. CountedToCome(page * SIZE)' = D
    BY <1>3, <1>9, <2>1 DEF CountedToCome, ToCome
  <2>3. MissedSoFar(page * SIZE)' = M
    BY <1>3, <2>1 DEF MissedSoFar, ToCome
  <2>4. OffByChanges'
    BY <1>11, <2>1 DEF OffByChanges, Done
  <2>5. /\ (Again + Cardinality(CountedToCome(page * SIZE)) <= added)'
        /\ (Cardinality(MissedSoFar(page * SIZE)) <= removed)'
    BY <1>3, <1>10, <1>11, <2>2, <2>3
  <2> QED BY <1>1, <1>3, <2>4, <2>5 DEF OffInv, StaysAList, Elements
<1> QED BY <1>12, <1>13

\* Every step keeps the inductive invariant.
LEMMA OffKept == OffInv /\ [Next]_vars => OffInv'
<1> SUFFICES ASSUME OffInv, [Next]_vars PROVE OffInv'
  OBVIOUS
<1>1. CASE ReadPage
  BY <1>1, PageOff DEF ReadPage
<1>2. CASE PageFails
  <2>1. /\ UNCHANGED <<page, seen, list, stayed, added, removed, truncated>>
        /\ status' = "failed"
    BY <1>2 DEF PageFails, world
  <2>2. OffByChanges'
    BY <2>1 DEF OffInv, OffByChanges, Done, Again
  <2> QED BY <2>1, <2>2 DEF OffInv, StaysAList, Elements
<1>3. CASE status = "walking" /\ (Book \/ Delete)
  BY <1>3, BookingOff, DeletionOff
<1>4. CASE UNCHANGED vars
  <2>1. UNCHANGED <<page, seen, list, stayed, added, removed, truncated, status>>
    BY <1>4 DEF vars, walk, world
  <2> QED BY <2>1 DEF OffInv, OffByChanges, Done, Again, StaysAList, Elements,
                           CountedToCome, MissedSoFar, ToCome
<1> QED BY <1>1, <1>2, <1>3, <1>4 DEF Next

\* The inductive invariant: what may be counted again or missed is on the
\* right side of the page read next, and no more than others brought there.
THEOREM OffInductive == Spec => []OffInv
BY OffInitially, OffKept, PTL DEF Spec

\* However others change the list during the walk, the totals are off by at
\* most their changes (documents.ts, summarize-vouchers): rows counted twice are
\* no more than the bookings, rows missed no more than the deletions.
THEOREM TotalsOff == Spec => []OffByChanges
<1>1. OffInv => OffByChanges
  BY DEF OffInv
<1> QED BY <1>1, OffInductive, PTL

-----------------------------------------------------------------------------

(* The totals. *)

\* The groups, of any rows and the number of times each was counted.
Currencies == {currencyOf[r] : r \in Row} \ {NoCurrency}
Group == [count : Nat, sum : Int, currencies : SUBSET Currencies]

GroupsOf(g, times) ==
  /\ g \in [DOMAIN g -> Group]
  /\ DOMAIN g = {groupOf[r] : r \in {x \in Row : times[x] > 0}}
  /\ \A k \in DOMAIN g :
       g[k].count = SumFunctionOnSet(times, {r \in Row : groupOf[r] = k})
  /\ SumFunction([k \in DOMAIN g |-> g[k].sum])
       = SumFunction([r \in Row |-> times[r] * amountOf[r]])
  /\ \A r \in Row : times[r] > 0 => CurrencySet(r) \subseteq g[groupOf[r]].currencies

\* The inductive invariant: the groups are those of the rows as often as each
\* was counted, after every page.
TotalsInv ==
  /\ StaysAList /\ page \in Nat /\ seen \in [Row -> Nat]
  /\ scanned = Times(Row)
  /\ GroupsOf(groups, seen)

\* All there can be of groups.
AllGroups == UNION {[K -> Group] : K \in SUBSET {groupOf[r] : r \in Row}}

\* A row goes to its group and leaves the others alone.
LEMMA RowAdded ==
    ASSUME NEW g \in AllGroups, NEW r \in Row
    PROVE  LET key == groupOf[r]
               old == GroupOf(g, key)
               new == AddRow(g, r)
           IN /\ new \in AllGroups
              /\ old \in Group
              /\ DOMAIN new = DOMAIN g \union {key}
              /\ new[key].count = old.count + 1
              /\ new[key].sum = old.sum + amountOf[r]
              /\ new[key].currencies = old.currencies \union CurrencySet(r)
              /\ \A k \in DOMAIN g \ {key} : new[k] = g[k]
<1> DEFINE Keys == {groupOf[x] : x \in Row}
           key == groupOf[r]
           old == GroupOf(g, key)
           new == AddRow(g, r)
           rec == [count |-> old.count + 1, sum |-> old.sum + amountOf[r],
                   currencies |-> AddCurrency(old.currencies, r)]
<1>1. DOMAIN g \subseteq Keys /\ g \in [DOMAIN g -> Group] /\ key \in Keys
  BY DEF AllGroups
<1>2. old \in Group
  <2>1. NewGroup \in Group
    BY DEF NewGroup, Group
  <2> QED BY <1>1, <2>1 DEF GroupOf
<1>3. rec \in Group
  <2>1. old.count \in Nat /\ old.sum \in Int /\ old.currencies \subseteq Currencies
    BY <1>2 DEF Group
  <2>2. amountOf[r] \in Int /\ CurrencySet(r) \subseteq Currencies
    BY DEF CurrencySet, Currencies
  <2> QED BY <2>1, <2>2 DEF Group, AddCurrency
<1>4. new = [k \in DOMAIN g \union {key} |-> IF k = key THEN rec ELSE g[k]]
  BY DEF AddRow
<1> HIDE DEF new, rec, old
<1>5. new \in [DOMAIN g \union {key} -> Group] /\ DOMAIN g \union {key} \in SUBSET Keys
  BY <1>1, <1>3, <1>4
<1>6. new \in AllGroups
  BY <1>5 DEF AllGroups
<1>7. new[key] = rec
  BY <1>4
<1>8. /\ rec.count = old.count + 1 /\ rec.sum = old.sum + amountOf[r]
      /\ rec.currencies = old.currencies \union CurrencySet(r)
  BY DEF rec, AddCurrency
<1> QED BY <1>2, <1>4, <1>6, <1>7, <1>8 DEF new, old

\* It is the function that AddRows(g, rows) is computed by.
Adds(it, g, rows) ==
    it = [s \in SUBSET DOMAIN rows |->
             IF s = {} THEN g ELSE AddRow(it[s \ {Max(s)}], rows[Max(s)])]

\* There is one.
LEMMA AddsExist ==
    ASSUME NEW rows \in Seq(Row), NEW g \in AllGroups
    PROVE  \E it \in [SUBSET DOMAIN rows -> AllGroups] : Adds(it, g, rows)
<1> DEFINE S == DOMAIN rows
           c == [s \in SUBSET S |-> Max(s)]
           step == [p \in (SUBSET S) \X AllGroups |-> AddRow(p[2], rows[c[p[1]]])]
<1>1. S = 1..Len(rows) /\ Len(rows) \in Nat /\ IsFiniteSet(S)
  BY FS_Interval
<1> HIDE DEF S
<1>2. ASSUME NEW s \in SUBSET S, s # {}
      PROVE  c[s] = Max(s) /\ Max(s) \in s /\ rows[Max(s)] \in Row
  <2>1. Max(s) \in s
    BY <1>1, <1>2, MaxIn
  <2> QED BY <2>1 DEF S
<1> HIDE DEF c
<1>3. ASSUME NEW s \in SUBSET S, NEW v \in AllGroups, s # {}
      PROVE  step[<<s, v>>] = AddRow(v, rows[Max(s)]) /\ step[<<s, v>>] \in AllGroups
  <2>1. <<s, v>> \in (SUBSET S) \X AllGroups /\ <<s, v>>[1] = s /\ <<s, v>>[2] = v
    OBVIOUS
  <2>2. step[<<s, v>>] = AddRow(v, rows[Max(s)])
    BY <1>2, <1>3, <2>1
  <2>3. AddRow(v, rows[Max(s)]) \in AllGroups
    BY <1>2, <1>3, RowAdded
  <2> QED BY <2>2, <2>3
<1> HIDE DEF step
<1>4. PICK it \in [SUBSET S -> AllGroups] : Computes(it, S, g, step, c)
  <2>1. Picks(S, c) /\ StaysIn(S, AllGroups, step)
    BY <1>2, <1>3 DEF Picks, StaysIn
  <2> QED BY <1>1, <2>1, Recursion
<1>5. ASSUME NEW s \in SUBSET S, s # {}
      PROVE  it[s] = AddRow(it[s \ {Max(s)}], rows[Max(s)])
  <2>1. s \ {Max(s)} \in SUBSET S /\ it[s \ {Max(s)}] \in AllGroups
    OBVIOUS
  <2>2. it[s] = step[<<s, it[s \ {Max(s)}]>>]
    BY <1>2, <1>4, <1>5 DEF Computes
  <2> QED BY <1>3, <1>5, <2>1, <2>2
<1>6. it[{}] = g
  BY <1>4 DEF Computes
<1>7. it = [s \in SUBSET S |-> IF s = {} THEN g ELSE AddRow(it[s \ {Max(s)}], rows[Max(s)])]
  BY <1>5, <1>6
<1> QED BY <1>4, <1>7 DEF Adds, S

\* AddRows adds the rows one after the other: h[i] is what the first i make.
LEMMA RowsAdded ==
    ASSUME NEW rows \in Seq(Row), NEW g \in AllGroups
    PROVE  \E h \in [0..Len(rows) -> AllGroups] :
              /\ h[0] = g /\ h[Len(rows)] = AddRows(g, rows)
              /\ \A i \in 1..Len(rows) : h[i] = AddRow(h[i - 1], rows[i])
<1> DEFINE n == Len(rows)
           it == CHOOSE f : Adds(f, g, rows)
           h == [i \in 0..n |-> it[1..i]]
<1>1. n \in Nat /\ DOMAIN rows = 1..n /\ \A i \in 1..n : rows[i] \in Row
  OBVIOUS
<1>2. Adds(it, g, rows)
  BY AddsExist
<1>3. AddRows(g, rows) = it[DOMAIN rows]
  BY DEF AddRows, FoldLeft, MapThenFoldSet, Adds
<1> HIDE DEF it, n
<1>4. h[0] = g
  <2>1. 1..0 = {} /\ 0 \in 0..n
    BY <1>1
  <2> QED BY <1>2, <2>1 DEF Adds
<1>5. ASSUME NEW i \in 1..n
      PROVE  h[i] = AddRow(h[i - 1], rows[i])
  <2>1. i \in 0..n /\ i - 1 \in 0..n /\ 1..i \in SUBSET (1..n) /\ i \in 1..i /\ i > 0 /\ i \in Nat
    BY <1>1
  <2>2. Max(1..i) = i /\ (1..i) \ {i} = 1..(i - 1)
    BY <2>1, MaxOfRange
  <2>3. it[1..i] = AddRow(it[1..(i - 1)], rows[i])
    <3>1. 1..i \in SUBSET DOMAIN rows /\ 1..i # {}
      BY <1>1, <2>1
    <3> QED BY <1>2, <2>2, <3>1 DEF Adds
  <2> QED BY <2>1, <2>3
<1>6. h[n] = AddRows(g, rows)
  BY <1>1, <1>3
<1>7. DOMAIN h = 0..n /\ h = [i \in DOMAIN h |-> h[i]]
  OBVIOUS
<1> HIDE DEF h
<1>8. h \in [0..n -> AllGroups]
  <2> DEFINE P == {i \in Nat : i <= n => h[i] \in AllGroups}
  <2>1. 0 \in P
    BY <1>4
  <2>2. ASSUME NEW i \in Nat, i \in P
        PROVE  i + 1 \in P
    <3>1. CASE i + 1 <= n
      <4>1. i + 1 \in 1..n /\ (i + 1) - 1 = i /\ h[i] \in AllGroups
        BY <1>1, <2>2, <3>1
      <4>2. h[i + 1] = AddRow(h[i], rows[i + 1])
        BY <1>5, <4>1
      <4>3. AddRow(h[i], rows[i + 1]) \in AllGroups
        BY <1>1, <4>1, RowAdded
      <4> QED BY <4>2, <4>3
    <3>2. CASE ~(i + 1 <= n)
      BY <3>2
    <3> QED BY <3>1, <3>2
  <2> HIDE DEF P
  <2>3. Nat \subseteq P
    BY <2>1, <2>2, NatInd
  <2>4. \A i \in 0..n : h[i] \in AllGroups
    BY <1>1, <2>3 DEF P
  <2> QED BY <1>7, <2>4
<1> QED BY <1>4, <1>5, <1>6, <1>8 DEF n

\* The rows of a group, the sums of the groups, the amounts counted.
Keyed(k) == {r \in Row : groupOf[r] = k}
SumsOf(g) == [k \in DOMAIN g |-> g[k].sum]
Amounts(times) == [r \in Row |-> times[r] * amountOf[r]]

\* then counts r once more than times, and every other row as often.
OnceMore(then, times, r) ==
    \A x \in Row : then[x] = IF x = r THEN times[x] + 1 ELSE times[x]

\* Counting a row once more keeps the groups in step with the counts.
LEMMA GroupsKept ==
    ASSUME NEW g, NEW times \in [Row -> Nat], GroupsOf(g, times), NEW r \in Row,
           NEW then \in [Row -> Nat], OnceMore(then, times, r)
    PROVE  /\ g \in AllGroups
           /\ GroupsOf(AddRow(g, r), then)
           /\ SumFunctionOnSet(then, Row) = SumFunctionOnSet(times, Row) + 1
<1> DEFINE key == groupOf[r]
           old == GroupOf(g, key)
           new == AddRow(g, r)
           Keys == {groupOf[x] : x \in Row}
<1> USE DEF OnceMore
<1>1. /\ g \in [DOMAIN g -> Group]
      /\ DOMAIN g = {groupOf[x] : x \in {y \in Row : times[y] > 0}}
      /\ \A k \in DOMAIN g : g[k].count = SumFunctionOnSet(times, Keyed(k))
      /\ SumFunction(SumsOf(g)) = SumFunction(Amounts(times))
      /\ \A x \in Row : times[x] > 0 => CurrencySet(x) \subseteq g[groupOf[x]].currencies
  BY DEF GroupsOf, Keyed, SumsOf, Amounts
<1>2. DOMAIN g \in SUBSET Keys
  BY <1>1
<1>3. g \in AllGroups
  BY <1>1, <1>2 DEF AllGroups
<1>4. /\ new \in AllGroups /\ old \in Group
      /\ DOMAIN new = DOMAIN g \union {key}
      /\ new[key].count = old.count + 1
      /\ new[key].sum = old.sum + amountOf[r]
      /\ new[key].currencies = old.currencies \union CurrencySet(r)
      /\ \A k \in DOMAIN g \ {key} : new[k] = g[k]
  BY <1>3, RowAdded
<1>5. key \in DOMAIN g => old = g[key]
  BY DEF GroupOf
<1>6. key \notin DOMAIN g => old.count = 0 /\ old.sum = 0 /\ old.currencies = {}
  BY DEF GroupOf, NewGroup
<1>7. key \notin DOMAIN g => \A x \in Keyed(key) : times[x] = 0
  BY <1>1 DEF Keyed
<1> HIDE DEF old, new
<1>8. old.count = SumFunctionOnSet(times, Keyed(key))
  <2>1. CASE key \in DOMAIN g
    BY <1>1, <1>5, <2>1
  <2>2. CASE key \notin DOMAIN g
    <3>1. IsFiniteSet(Keyed(key))
      BY FS_Subset DEF Keyed
    <3>2. \A x \in Keyed(key) : times[x] = IF x \in {} THEN 1 ELSE 0
      BY <1>7, <2>2
    <3>3. Keyed(key) \cap {} = {}
      OBVIOUS
    <3>4. SumFunctionOnSet(times, Keyed(key)) = Cardinality(Keyed(key) \cap {})
      BY <3>1, <3>2, SumCounts
    <3> QED BY <1>6, <2>2, <3>3, <3>4, FS_EmptySet
  <2> QED BY <2>1, <2>2
<1>9. \A S \in SUBSET Row :
         SumFunctionOnSet(then, S) = SumFunctionOnSet(times, S) + (IF r \in S THEN 1 ELSE 0)
  <2> TAKE S \in SUBSET Row
  <2>1. IsFiniteSet(S) /\ 1 \in Int
    BY FS_Subset
  <2>2. Bumped(then, times, S, r, 1)
    BY DEF Bumped
  <2> QED BY <2>1, <2>2, SumBump
<1>10. new \in [DOMAIN new -> Group]
  BY <1>4 DEF AllGroups
<1>11. DOMAIN new = {groupOf[x] : x \in {y \in Row : then[y] > 0}}
  <2>1. {y \in Row : then[y] > 0} = {y \in Row : times[y] > 0} \union {r}
    OBVIOUS
  <2> QED BY <1>1, <1>4, <2>1
<1>12. \A k \in DOMAIN new : new[k].count = SumFunctionOnSet(then, Keyed(k))
  <2> TAKE k \in DOMAIN new
  <2>1. Keyed(k) \in SUBSET Row
    BY DEF Keyed
  <2>2. CASE k = key
    <3>1. r \in Keyed(k)
      BY <2>2 DEF Keyed
    <3> QED BY <1>4, <1>8, <1>9, <2>1, <2>2, <3>1
  <2>3. CASE k # key
    <3>1. r \notin Keyed(k) /\ k \in DOMAIN g \ {key}
      BY <1>4, <2>3 DEF Keyed
    <3>2. SumFunctionOnSet(times, Keyed(k)) \in Int
      <4>1. IsFiniteSet(Keyed(k)) /\ \A x \in Keyed(k) : times[x] \in Int
        BY <2>1, FS_Subset
      <4> QED BY <4>1, SumParts
    <3> QED BY <1>1, <1>4, <1>9, <2>1, <3>1, <3>2
  <2> QED BY <2>2, <2>3
<1>13. SumFunction(SumsOf(new)) = SumFunction(Amounts(then))
  <2> DEFINE D == DOMAIN g
             a == SumsOf(g)
             b == SumsOf(new)
  <2>1. IsFiniteSet(D) /\ IsFiniteSet(D \union {key})
    <3>1. IsFiniteSet(Keys)
      <4>1. [x \in Row |-> groupOf[x]] \in Surjection(Row, Keys)
        BY DEF Surjection
      <4> QED BY <4>1, FS_Surjection
    <3> QED BY <1>2, <3>1, FS_Subset, FS_AddElement
  <2>2. /\ \A k \in D : a[k] \in Int
        /\ \A k \in D \union {key} : b[k] \in Int
        /\ \A k \in D \ {key} : b[k] = a[k]
        /\ b[key] = old.sum + amountOf[r] /\ old.sum \in Int /\ amountOf[r] \in Int
        /\ key \in D => a[key] = old.sum
        /\ key \notin D => old.sum = 0
    BY <1>1, <1>4, <1>5, <1>6, <1>10 DEF SumsOf, Group
  <2>3. SumFunction(a) = SumFunctionOnSet(a, D) /\ SumFunction(b) = SumFunctionOnSet(b, D \union {key})
    BY <1>4 DEF SumFunction, SumsOf
  <2> HIDE DEF D, a, b, key
  <2>4. SumFunctionOnSet(b, D \ {key}) = SumFunctionOnSet(a, D \ {key})
        /\ SumFunctionOnSet(a, D \ {key}) \in Int
    <3>1. IsFiniteSet(D \ {key}) /\ \A k \in D \ {key} : a[k] \in Int /\ b[k] = a[k]
      BY <2>1, <2>2, FS_Subset
    <3> QED BY <3>1, SumsEqual, SumParts
  <2>5. SumFunctionOnSet(b, D \union {key}) = b[key] + SumFunctionOnSet(b, D \ {key})
    <3>1. (D \union {key}) \ {key} = D \ {key} /\ key \in D \union {key}
      OBVIOUS
    <3>2. \A x \in D \union {key} : b[x] \in Int
      BY <2>2
    <3>3. SumFunctionOnSet(b, D \union {key})
            = b[key] + SumFunctionOnSet(b, (D \union {key}) \ {key})
      BY <2>1, <3>1, <3>2, SumParts
    <3> QED BY <3>1, <3>3
  <2>6. SumFunctionOnSet(a, D) = old.sum + SumFunctionOnSet(a, D \ {key})
    <3>1. CASE key \in D
      <4>1. SumFunctionOnSet(a, D) = a[key] + SumFunctionOnSet(a, D \ {key})
        BY <2>1, <2>2, <3>1, SumParts
      <4> QED BY <2>2, <3>1, <4>1
    <3>2. CASE key \notin D
      <4>1. D \ {key} = D /\ old.sum = 0
        BY <2>2, <3>2
      <4> QED BY <2>4, <4>1
    <3> QED BY <3>1, <3>2
  <2>7. SumFunction(Amounts(then)) = SumFunction(Amounts(times)) + amountOf[r]
    <3> DEFINE f == Amounts(times)
               h == Amounts(then)
    <3>1. \A x \in Row : f[x] \in Int /\ h[x] = IF x = r THEN f[x] + amountOf[r] ELSE f[x]
      <4> TAKE x \in Row
      <4>1. f[x] = times[x] * amountOf[x] /\ h[x] = then[x] * amountOf[x]
            /\ times[x] \in Nat /\ amountOf[x] \in Int
        BY DEF Amounts
      <4>2. f[x] \in Int
        BY <4>1
      <4>3. x = r => (times[x] + 1) * amountOf[x] = times[x] * amountOf[x] + amountOf[x]
        BY <4>1
      <4> QED BY <4>1, <4>2, <4>3
    <3>2. SumFunction(f) = SumFunctionOnSet(f, Row) /\ SumFunction(h) = SumFunctionOnSet(h, Row)
      BY DEF SumFunction, Amounts
    <3> HIDE DEF f, h
    <3>3. IsFiniteSet(Row) /\ amountOf[r] \in Int
      BY <2>2
    <3>4. \A x \in Row : f[x] \in Int /\ h[x] = IF x = r THEN f[x] + amountOf[r] ELSE f[x]
      BY <3>1
    <3>5. Bumped(h, f, Row, r, amountOf[r])
      BY <3>4 DEF Bumped
    <3>6. SumFunctionOnSet(h, Row) = SumFunctionOnSet(f, Row) + (IF r \in Row THEN amountOf[r] ELSE 0)
      BY <3>3, <3>5, SumBump
    <3> QED BY <3>2, <3>6 DEF f, h
  <2>8. SumFunction(a) = SumFunction(Amounts(times))
    BY <1>1 DEF a
  <2> QED BY <2>2, <2>3, <2>4, <2>5, <2>6, <2>7, <2>8 DEF b
<1>14. \A x \in Row : then[x] > 0 => CurrencySet(x) \subseteq new[groupOf[x]].currencies
  <2> TAKE x \in Row
  <2>1. CASE groupOf[x] = key
    <3>1. times[x] > 0 => CurrencySet(x) \subseteq old.currencies
      BY <1>1, <1>5, <2>1
    <3>2. then[x] > 0 => x = r \/ times[x] > 0
      OBVIOUS
    <3> QED BY <1>4, <2>1, <3>1, <3>2
  <2>2. CASE groupOf[x] # key
    <3>1. then[x] > 0 => times[x] > 0
      BY <2>2
    <3> QED BY <1>1, <1>4, <2>2, <3>1
  <2> QED BY <2>1, <2>2
<1>15. GroupsOf(new, then)
  BY <1>10, <1>11, <1>12, <1>13, <1>14 DEF GroupsOf, Keyed, SumsOf, Amounts
<1>16. SumFunctionOnSet(then, Row) = SumFunctionOnSet(times, Row) + 1
  BY <1>9
<1> QED BY <1>3, <1>15, <1>16 DEF new

\* How often each row was counted when the first i of a page are.
TimesWith(rows, i) ==
    [r \in Row |-> seen[r] + (IF \E j \in 1..i : rows[j] = r THEN 1 ELSE 0)]

\* A page is counted row by row, and no row of it twice.
LEMMA PageTotals ==
    ASSUME TotalsInv, ReadPage
    PROVE  TotalsInv'
<1> DEFINE rows == Content(page)
           n == Len(rows)
           times(i) == TimesWith(rows, i)
<1>1. /\ list \in Seq(Row) /\ IsInjective(list) /\ stayed \subseteq Elements(list)
      /\ page \in Nat /\ seen \in [Row -> Nat]
      /\ scanned = SumFunctionOnSet(seen, Row) /\ GroupsOf(groups, seen)
  BY DEF TotalsInv, StaysAList, Times
<1>2. /\ rows \in Seq(Row) /\ IsInjective(rows) /\ n \in Nat /\ DOMAIN rows = 1..n
      /\ \A i \in 1..n : rows[i] \in Row
  <2>1. rows \in Seq(Row) /\ IsInjective(rows)
    BY <1>1, ContentRows
  <2> HIDE DEF rows
  <2> QED BY <2>1
<1>3. /\ scanned' = scanned + n /\ groups' = AddRows(groups, rows)
      /\ seen' = [r \in Row |-> seen[r] + (IF r \in Elements(rows) THEN 1 ELSE 0)]
      /\ UNCHANGED <<list, stayed>> /\ page' \in Nat
  BY <1>1 DEF ReadPage, NextPage, world
<1> HIDE DEF rows
<1>4. \A i : times(i) \in [Row -> Nat]
  BY <1>1 DEF TimesWith
<1>5. groups \in AllGroups
  <2>1. groups \in [DOMAIN groups -> Group] /\ DOMAIN groups \in SUBSET {groupOf[r] : r \in Row}
    BY <1>1 DEF GroupsOf
  <2> QED BY <2>1 DEF AllGroups
<1>6. PICK h \in [0..n -> AllGroups] :
         /\ h[0] = groups /\ h[n] = AddRows(groups, rows)
         /\ \A i \in 1..n : h[i] = AddRow(h[i - 1], rows[i])
  BY <1>2, <1>5, RowsAdded
<1> HIDE DEF n
<1> DEFINE P == {i \in Nat : i <= n => /\ GroupsOf(h[i], times(i))
                                      /\ SumFunctionOnSet(times(i), Row) = scanned + i}
<1>7. 0 \in P
  <2>1. times(0) = [r \in Row |-> seen[r]]
    BY <1>1 DEF TimesWith
  <2>2. times(0) = seen
    BY <1>1, <2>1
  <2>3. scanned \in Int
    BY <1>1, SumParts
  <2> HIDE DEF times
  <2> QED BY <1>1, <1>6, <2>2, <2>3
<1>8. ASSUME NEW i \in Nat, i \in P
      PROVE  i + 1 \in P
  <2> SUFFICES ASSUME i + 1 <= n
               PROVE  /\ GroupsOf(h[i + 1], times(i + 1))
                      /\ SumFunctionOnSet(times(i + 1), Row) = scanned + (i + 1)
    OBVIOUS
  <2> DEFINE r == rows[i + 1]
  <2>1. i + 1 \in 1..n /\ (i + 1) - 1 = i /\ i <= n /\ r \in Row
    BY <1>2
  <2>2. GroupsOf(h[i], times(i)) /\ SumFunctionOnSet(times(i), Row) = scanned + i
    BY <1>8, <2>1
  <2>3. h[i + 1] = AddRow(h[i], r)
    BY <1>6, <2>1
  <2>4. OnceMore(times(i + 1), times(i), r)
    <3>1. \A j \in 1..i : rows[j] # r
      BY <1>2, <2>1 DEF IsInjective
    <3>2. 1..(i + 1) = (1..i) \union {i + 1}
      OBVIOUS
    <3>3. ASSUME NEW x \in Row
          PROVE  (\E j \in 1..(i + 1) : rows[j] = x) <=> (\E j \in 1..i : rows[j] = x) \/ x = r
      BY <3>2
    <3> HIDE DEF r
    <3>4. ASSUME NEW x \in Row
          PROVE  times(i + 1)[x] = IF x = r THEN times(i)[x] + 1 ELSE times(i)[x]
      <4>1. \A k : times(k)[x] = seen[x] + (IF \E j \in 1..k : rows[j] = x THEN 1 ELSE 0)
        BY DEF TimesWith
      <4>2. seen[x] \in Nat
        BY <1>1
      <4> HIDE DEF times
      <4>3. CASE x = r
        <5>1. times(i)[x] = seen[x] + 0 /\ times(i + 1)[x] = seen[x] + 1
          BY <3>1, <3>3, <4>1, <4>3
        <5> QED BY <4>2, <4>3, <5>1
      <4>4. CASE x # r
        BY <3>3, <4>1, <4>4
      <4> QED BY <4>3, <4>4
    <3> QED BY <3>4 DEF OnceMore
  <2>5. times(i) \in [Row -> Nat] /\ times(i + 1) \in [Row -> Nat]
    BY <1>4
  <2> HIDE DEF times, r
  <2>6. /\ GroupsOf(AddRow(h[i], r), times(i + 1))
        /\ SumFunctionOnSet(times(i + 1), Row) = SumFunctionOnSet(times(i), Row) + 1
    BY <2>1, <2>2, <2>4, <2>5, GroupsKept
  <2>7. scanned \in Int
    BY <1>1, SumParts
  <2> QED BY <2>2, <2>3, <2>6, <2>7
<1> HIDE DEF P
<1>9. Nat \subseteq P
  BY <1>7, <1>8, NatInd
<1>10. GroupsOf(h[n], times(n)) /\ SumFunctionOnSet(times(n), Row) = scanned + n
  BY <1>2, <1>9 DEF P
<1>11. seen' = times(n)
  <2>1. \A r : r \in Elements(rows) <=> \E j \in 1..n : rows[j] = r
    BY <1>2 DEF Elements
  <2> QED BY <1>3, <2>1 DEF TimesWith
<1>12. GroupsOf(groups, seen)' /\ scanned' = Times(Row)'
  <2>1. GroupsOf(groups, seen)' <=> GroupsOf(groups', seen')
    OBVIOUS
  <2>2. Times(Row)' = SumFunctionOnSet(seen', Row)
    BY DEF Times
  <2> QED BY <1>3, <1>6, <1>10, <1>11, <2>1, <2>2
<1>13. StaysAList' /\ seen' \in [Row -> Nat]
  BY <1>1, <1>3, <1>4, <1>11 DEF StaysAList, Elements
<1> QED BY <1>3, <1>12, <1>13 DEF TotalsInv

\* No row is counted, and there is no group.
LEMMA TotalsInitially == Init => TotalsInv
<1> SUFFICES ASSUME Init PROVE TotalsInv
  OBVIOUS
<1>1. StaysAList
  BY DEF Init, SeqOf, StaysAList
<1>2. /\ page = 0 /\ seen \in [Row -> Nat] /\ \A r \in Row : seen[r] = 0
      /\ groups = <<>> /\ scanned = 0
  BY DEF Init, FirstPage
<1>3. DOMAIN groups = {} /\ groups \in [DOMAIN groups -> Group]
  BY <1>2
<1>4. Row \cap {} = {} /\ Cardinality({}) = 0
  BY FS_EmptySet
<1>5. Times(Row) = 0
  <2>1. \A r \in Row : seen[r] = IF r \in {} THEN 1 ELSE 0
    BY <1>2
  <2>2. SumFunctionOnSet(seen, Row) = Cardinality(Row \cap {})
    BY <2>1, SumCounts
  <2> QED BY <1>4, <2>2 DEF Times
<1>6. SumFunction([r \in Row |-> seen[r] * amountOf[r]]) = 0
  <2> DEFINE f == [r \in Row |-> seen[r] * amountOf[r]]
  <2>1. \A r \in Row : f[r] = IF r \in {} THEN 1 ELSE 0
    BY <1>2
  <2>2. DOMAIN f = Row
    OBVIOUS
  <2> HIDE DEF f
  <2>3. SumFunctionOnSet(f, Row) = Cardinality(Row \cap {})
    BY <2>1, SumCounts
  <2>4. SumFunction(f) = 0
    BY <1>4, <2>2, <2>3 DEF SumFunction
  <2> QED BY <2>4 DEF f
<1>7. SumFunction([k \in DOMAIN groups |-> groups[k].sum]) = 0
  <2> DEFINE f == [k \in DOMAIN groups |-> groups[k].sum]
  <2>1. DOMAIN f = {} /\ \A k \in {} : f[k] \in Int
    BY <1>3
  <2> HIDE DEF f
  <2>2. SumFunctionOnSet(f, {}) = 0
    BY <2>1, SumParts, FS_EmptySet
  <2>3. SumFunction(f) = 0
    BY <2>1, <2>2 DEF SumFunction
  <2> QED BY <2>3 DEF f
<1>8. GroupsOf(groups, seen)
  BY <1>2, <1>3, <1>6, <1>7 DEF GroupsOf
<1> QED BY <1>1, <1>2, <1>5, <1>8 DEF TotalsInv

\* What the groups hold is what the answer says.
LEMMA TotalsAnswer == TotalsInv => TotalsAddUp
<1> SUFFICES ASSUME TotalsInv PROVE TotalsAddUp
  OBVIOUS
<1>1. GroupsOf(groups, seen) /\ scanned = Times(Row)
  BY DEF TotalsInv
<1>2. currency \notin {"none", "mixed"} =>
         \A r \in Row : seen[r] > 0 => currencyOf[r] \in {currency, NoCurrency}
  <2> SUFFICES ASSUME currency \notin {"none", "mixed"}, NEW r \in Row, seen[r] > 0,
                      currencyOf[r] # NoCurrency
               PROVE  currencyOf[r] = currency
    OBVIOUS
  <2>1. Cardinality(allCurrencies) = 1 /\ currency = CHOOSE c \in allCurrencies : TRUE
    BY DEF currency
  <2>2. IsFiniteSet(allCurrencies)
    <3>1. groups \in [DOMAIN groups -> Group]
      BY <1>1 DEF GroupsOf
    <3>2. allCurrencies \subseteq Currencies
      BY <3>1 DEF allCurrencies, Group
    <3>3. [x \in Row |-> currencyOf[x]] \in Surjection(Row, {currencyOf[x] : x \in Row})
      BY DEF Surjection
    <3>4. IsFiniteSet({currencyOf[x] : x \in Row})
      BY <3>3, FS_Surjection
    <3> QED BY <3>2, <3>4, FS_Subset DEF Currencies
  <2>3. PICK c : allCurrencies = {c}
    BY <2>1, <2>2, FS_Singleton
  <2>4. currencyOf[r] \in allCurrencies
    <3>1. groupOf[r] \in DOMAIN groups /\ CurrencySet(r) \subseteq groups[groupOf[r]].currencies
      BY <1>1 DEF GroupsOf
    <3> QED BY <3>1 DEF CurrencySet, allCurrencies
  <2> QED BY <2>1, <2>3, <2>4
<1> QED BY <1>1, <1>2 DEF TotalsAddUp, GroupsOf, grandTotal, Times

\* Every step keeps the groups in step with the counts.
LEMMA TotalsKept == TotalsInv /\ [Next]_vars => TotalsInv'
<1> SUFFICES ASSUME TotalsInv, [Next]_vars PROVE TotalsInv'
  OBVIOUS
<1>1. CASE ReadPage
  BY <1>1, PageTotals
<1>2. CASE PageFails \/ UNCHANGED vars
  <2>1. UNCHANGED <<page, seen, list, stayed, scanned, groups>>
    BY <1>2 DEF PageFails, vars, walk, world
  <2> QED BY <2>1 DEF TotalsInv, StaysAList, Elements, Times, GroupsOf
<1>3. CASE Book
  <2>1. UNCHANGED <<page, seen, stayed, scanned, groups>>
    BY <1>3 DEF Book, walk
  <2>2. list \in Seq(Row) /\ IsInjective(list) /\ stayed \subseteq Elements(list) /\ 0 \in Nat
    BY DEF TotalsInv, StaysAList
  <2>3. PICK r \in Row \ Elements(list), i \in 1..(Len(list) + 1) : list' = InsertAt(list, i, r)
    BY <1>3 DEF Book
  <2>4. OneBeyond(list, list', 0)
    BY <2>2, <2>3, BookingPushesOne
  <2>5. StaysAList'
    BY <2>1, <2>2, <2>4 DEF StaysAList, OneBeyond, Elements
  <2> QED BY <2>1, <2>5 DEF TotalsInv, Times, GroupsOf
<1>4. CASE Delete
  <2>1. UNCHANGED <<page, seen, scanned, groups>>
    BY <1>4 DEF Delete, walk
  <2>2. list \in Seq(Row) /\ IsInjective(list) /\ stayed \subseteq Elements(list) /\ 0 \in Nat
    BY DEF TotalsInv, StaysAList
  <2>3. DOMAIN list = 1..Len(list)
    BY <2>2
  <2>4. PICK i \in 1..Len(list) : list' = RemoveAt(list, i) /\ stayed' = stayed \ {list[i]}
    BY <1>4, <2>3 DEF Delete
  <2>5. OneBack(list, i, list', 0)
    BY <2>2, <2>4, DeletionPullsOne
  <2>6. StaysAList'
    BY <2>2, <2>4, <2>5 DEF StaysAList, OneBack, Elements
  <2> QED BY <2>1, <2>6 DEF TotalsInv, Times, GroupsOf
<1> QED BY <1>1, <1>2, <1>3, <1>4 DEF Next

\* The inductive invariant: after every page the groups are those of the rows,
\* as often as each was counted.
THEOREM TotalsInductive == Spec => []TotalsInv
BY TotalsInitially, TotalsKept, PTL DEF Spec

\* The totals of an answer are those of the rows that were counted, group by
\* group, and a currency is named only if no row has another.
THEOREM TotalsTrue == Spec => []TotalsAddUp
BY TotalsInductive, TotalsAnswer, PTL
=============================================================================
