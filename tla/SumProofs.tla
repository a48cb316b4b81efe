------------------------------ MODULE SumProofs ------------------------------
(***************************************************************************)
(* Facts about the sum of a function over a finite set, for any function   *)
(* and any set: the load of a shard (Scheduler) and the totals of a merged *)
(* profile (Cover) are such sums.  The sum is a fold that takes the        *)
(* elements in some order that CHOOSE fixes; what the proofs need is that  *)
(* the order does not matter (SumRemove).  Induction is by the smallest    *)
(* counterexample: a set of finite sets has a minimal element.             *)
(***************************************************************************)
EXTENDS Functions, FiniteSetTheorems, TLAPS

\* A set of natural numbers that is not empty has a least element.
LEMMA LeastNat ==
  ASSUME NEW B \in SUBSET Nat, B # {}
  PROVE  \E n \in B : \A m \in B : n <= m
  <1>1. PICK n \in B : \A m \in B : ~(<<m, n>> \in OpToRel(<, Nat))
    BY WFMin, NatLessThanWellFounded, Zenon
  <1>2. ASSUME NEW m \in B PROVE n <= m
    <2>1. ~(m < n)
      BY <1>1 DEF OpToRel
    <2> QED
      BY <2>1
  <1> QED
    BY <1>2

\* A set of subsets of a finite set that is not empty has a minimal element:
\* no element can be taken away from it.
LEMMA MinimalSubset ==
  ASSUME NEW S, IsFiniteSet(S), NEW B \in SUBSET SUBSET S, B # {}
  PROVE  \E s \in B : \A x \in s : s \ {x} \notin B
  <1> DEFINE C == {Cardinality(s) : s \in B}
  <1>1. \A s \in B : IsFiniteSet(s) /\ Cardinality(s) \in Nat
    BY FS_Subset, FS_CardinalityType
  <1>2. C \in SUBSET Nat /\ C # {}
    BY <1>1
  <1>3. PICK n \in C : \A m \in C : n <= m
    <2> HIDE DEF C
    <2> QED
      BY <1>2, LeastNat
  <1>4. PICK s \in B : n = Cardinality(s)
    BY <1>3
  <1>5. ASSUME NEW x \in s, s \ {x} \in B PROVE FALSE
    <2>1. Cardinality(s \ {x}) = Cardinality(s) - 1
      BY <1>1, FS_RemoveElement
    <2>2. Cardinality(s) <= Cardinality(s \ {x})
      BY <1>3, <1>4, <1>5
    <2> QED
      BY <1>1, <2>1, <2>2
  <1> QED
    BY <1>5

-------------------------------------------------------------------------------
(***************************************************************************)
(* The recursive function behind the fold exists and is unique.            *)
(***************************************************************************)
Pick(s) == CHOOSE x \in s : TRUE

\* g gives the sum of f for every member of D, a set of sets.
IsTable(g, f, D) ==
  g = [s \in D |-> IF s = {} THEN 0 ELSE f[Pick(s)] + g[s \ {Pick(s)}]]

\* g gives the sum of f for every subset of S.
IsSumTable(g, f, S) == IsTable(g, f, SUBSET S)

\* The subsets of S with at most k elements.
Small(S, k) == {s \in SUBSET S : Cardinality(s) <= k}

\* There is a table for the subsets of every size.
LEMMA TableUpTo ==
  ASSUME NEW S, IsFiniteSet(S), NEW f, NEW k \in Nat
  PROVE  \E g : IsTable(g, f, Small(S, k))
  <1> DEFINE B == {n \in Nat : ~\E g : IsTable(g, f, Small(S, n))}
  <1>1. SUFFICES ASSUME B # {} PROVE FALSE
    OBVIOUS
  <1>2. PICK n \in B : \A m \in B : n <= m
    <2>1. B \in SUBSET Nat
      OBVIOUS
    <2> HIDE DEF B
    <2> QED
      BY <1>1, <2>1, LeastNat
  <1>3. \A s \in SUBSET S : IsFiniteSet(s) /\ Cardinality(s) \in Nat
    BY FS_Subset, FS_CardinalityType
  <1>4. \A s \in SUBSET S : s # {} =>
           Pick(s) \in s /\ s \ {Pick(s)} \in SUBSET S
           /\ Cardinality(s \ {Pick(s)}) = Cardinality(s) - 1
    BY <1>3, FS_RemoveElement DEF Pick
  <1>5. CASE n = 0
    <2> DEFINE g == [s \in Small(S, 0) |-> 0]
    <2>1. \A s \in Small(S, 0) : s = {}
      BY <1>3, FS_EmptySet DEF Small
    <2>2. IsTable(g, f, Small(S, 0))
      BY <2>1 DEF IsTable
    <2> QED
      BY <1>5, <2>2
  <1>6. CASE n # 0
    <2>1. n - 1 \in Nat /\ n - 1 \notin B
      BY <1>2, <1>6
    <2>2. PICK g : IsTable(g, f, Small(S, n - 1))
      BY <2>1
    <2> DEFINE D == Small(S, n)
               h == [s \in D |-> IF s \in Small(S, n - 1) THEN g[s]
                                 ELSE f[Pick(s)] + g[s \ {Pick(s)}]]
    <2>3. ASSUME NEW s \in D, s # {} PROVE s \ {Pick(s)} \in Small(S, n - 1)
      BY <1>3, <1>4, <2>1, <2>3 DEF Small
    <2>4. Small(S, n - 1) \subseteq D
      BY <1>3, <2>1 DEF Small
    <2>5. \A s \in Small(S, n - 1) : h[s] = g[s]
      BY <2>4
    <2>6. \A s \in Small(S, n - 1) :
             g[s] = IF s = {} THEN 0 ELSE f[Pick(s)] + g[s \ {Pick(s)}]
      BY <2>2, Zenon DEF IsTable
    <2>7. {} \in Small(S, n - 1)
      BY <2>1, FS_EmptySet DEF Small
    <2>8. ASSUME NEW s \in D
          PROVE  h[s] = IF s = {} THEN 0 ELSE f[Pick(s)] + h[s \ {Pick(s)}]
      <3>1. CASE s = {}
        BY <2>5, <2>6, <2>7, <3>1
      <3>2. CASE s # {}
        <4>1. h[s \ {Pick(s)}] = g[s \ {Pick(s)}]
          BY <2>3, <2>5, <3>2
        <4>2. h[s] = f[Pick(s)] + g[s \ {Pick(s)}]
          BY <2>6, <3>2
        <4> QED
          BY <3>2, <4>1, <4>2
      <3> QED
        BY <3>1, <3>2
    <2>9. h = [s \in D |-> IF s = {} THEN 0 ELSE f[Pick(s)] + h[s \ {Pick(s)}]]
      BY <2>8
    <2>10. IsTable(h, f, D)
      BY <2>9 DEF IsTable
    <2> QED
      BY <2>10
  <1> QED
    BY <1>5, <1>6

\* Two tables agree where both are defined.
LEMMA TablesAgree ==
  ASSUME NEW S, IsFiniteSet(S), NEW T, T \subseteq S, NEW f, NEW g, NEW h,
         IsSumTable(g, f, S), IsSumTable(h, f, T), NEW t, t \subseteq T
  PROVE  g[t] = h[t]
  <1> DEFINE B == {s \in SUBSET T : g[s] # h[s]}
  <1>1. SUFFICES ASSUME B # {} PROVE FALSE
    OBVIOUS
  <1>2. PICK s \in B : \A x \in s : s \ {x} \notin B
    <2>1. B \in SUBSET SUBSET S
      OBVIOUS
    <2> HIDE DEF B
    <2> QED
      BY <1>1, <2>1, MinimalSubset
  <1>3. s \in SUBSET S /\ s \in SUBSET T
    OBVIOUS
  <1>4. g[s] = IF s = {} THEN 0 ELSE f[Pick(s)] + g[s \ {Pick(s)}]
    BY <1>3, Zenon DEF IsSumTable, IsTable
  <1>5. h[s] = IF s = {} THEN 0 ELSE f[Pick(s)] + h[s \ {Pick(s)}]
    BY <1>3, Zenon DEF IsSumTable, IsTable
  <1>6. CASE s = {}
    BY <1>4, <1>5, <1>6
  <1>7. CASE s # {}
    <2>1. Pick(s) \in s
      BY <1>7 DEF Pick
    <2>2. g[s \ {Pick(s)}] = h[s \ {Pick(s)}]
      BY <1>2, <2>1
    <2> QED
      BY <1>4, <1>5, <1>7, <2>2
  <1> QED
    BY <1>6, <1>7

\* There is a table for all the subsets of a finite set.
LEMMA TableExists ==
  ASSUME NEW S, IsFiniteSet(S), NEW f
  PROVE  \E g : IsSumTable(g, f, S)
  <1>1. Cardinality(S) \in Nat
    BY FS_CardinalityType
  <1>2. Small(S, Cardinality(S)) = SUBSET S
    BY FS_Subset DEF Small
  <1>3. \E g : IsTable(g, f, Small(S, Cardinality(S)))
    BY <1>1, TableUpTo
  <1> QED
    BY <1>2, <1>3 DEF IsSumTable

\* The sum is the table's value.
LEMMA SumOfTable ==
  ASSUME NEW S, IsFiniteSet(S), NEW f, NEW g, IsSumTable(g, f, S)
  PROVE  SumFunctionOnSet(f, S) = g[S]
  <1>1. ASSUME NEW h, IsSumTable(h, f, S) PROVE h = g
    <2>1. \A s \in SUBSET S : g[s] = h[s]
      <3>1. S \subseteq S /\ \A s \in SUBSET S : s \subseteq S
        OBVIOUS
      <3> QED
        BY <1>1, <3>1, TablesAgree
    <2>2. DOMAIN g = SUBSET S /\ DOMAIN h = SUBSET S
      BY <1>1 DEF IsSumTable, IsTable
    <2>3. g = [s \in SUBSET S |-> g[s]] /\ h = [s \in SUBSET S |-> h[s]]
      BY <1>1, <2>2 DEF IsSumTable, IsTable
    <2> QED
      BY <2>1, <2>3
  <1>2. g = [s \in SUBSET S |->
               IF s = {} THEN 0
               ELSE f[CHOOSE x \in s : TRUE] + g[s \ {CHOOSE x \in s : TRUE}]]
    BY DEF IsSumTable, IsTable, Pick
  <1>3. \A h : h = [s \in SUBSET S |->
                      IF s = {} THEN 0
                      ELSE f[CHOOSE x \in s : TRUE] + h[s \ {CHOOSE x \in s : TRUE}]]
                 => h = g
    BY <1>1 DEF IsSumTable, IsTable, Pick
  <1> QED
    BY <1>2, <1>3 DEF SumFunctionOnSet, FoldFunctionOnSet, MapThenFoldSet

-------------------------------------------------------------------------------
\* Nothing sums up to nothing.
LEMMA SumEmpty ==
  ASSUME NEW f
  PROVE  SumFunctionOnSet(f, {}) = 0
  BY DEF SumFunctionOnSet, FoldFunctionOnSet, MapThenFoldSet

\* The first step of the fold.
LEMMA SumPick ==
  ASSUME NEW S, IsFiniteSet(S), S # {}, NEW f
  PROVE  SumFunctionOnSet(f, S) = f[Pick(S)] + SumFunctionOnSet(f, S \ {Pick(S)})
  <1>1. PICK T : T = S \ {Pick(S)} /\ T \subseteq S /\ IsFiniteSet(T)
    BY FS_RemoveElement
  <1>2. PICK g : IsSumTable(g, f, S)
    BY TableExists
  <1>3. PICK h : IsSumTable(h, f, T)
    BY <1>1, TableExists
  <1>4. SumFunctionOnSet(f, S) = g[S] /\ SumFunctionOnSet(f, T) = h[T]
    BY <1>1, <1>2, <1>3, SumOfTable
  <1>5. g[T] = h[T]
    <2>1. T \subseteq S
      BY <1>1
    <2>2. T \subseteq T
      OBVIOUS
    <2> QED
      BY <1>2, <1>3, <2>1, <2>2, TablesAgree
  <1>6. g[S] = IF S = {} THEN 0 ELSE f[Pick(S)] + g[S \ {Pick(S)}]
    <2>1. S \in SUBSET S
      OBVIOUS
    <2> QED
      BY <1>2, <2>1, Zenon DEF IsSumTable, IsTable
  <1> QED
    BY <1>1, <1>4, <1>5, <1>6

\* The sum of natural numbers is one.
LEMMA SumNat ==
  ASSUME NEW S, IsFiniteSet(S), NEW f, \A x \in S : f[x] \in Nat
  PROVE  SumFunctionOnSet(f, S) \in Nat
  <1> DEFINE B == {s \in SUBSET S : SumFunctionOnSet(f, s) \notin Nat}
  <1>1. SUFFICES ASSUME B # {} PROVE FALSE
    OBVIOUS
  <1>2. PICK s \in B : \A x \in s : s \ {x} \notin B
    <2>1. B \in SUBSET SUBSET S
      OBVIOUS
    <2> HIDE DEF B
    <2> QED
      BY <1>1, <2>1, MinimalSubset
  <1>3. s # {}
    BY SumEmpty
  <1>4. IsFiniteSet(s) /\ Pick(s) \in s
    BY <1>3, FS_Subset DEF Pick
  <1>5. SumFunctionOnSet(f, s \ {Pick(s)}) \in Nat
    BY <1>2, <1>4
  <1>6. SumFunctionOnSet(f, s) = f[Pick(s)] + SumFunctionOnSet(f, s \ {Pick(s)})
    BY <1>3, <1>4, SumPick
  <1> QED
    BY <1>4, <1>5, <1>6

\* The order does not matter: any element may be taken away first.
LEMMA SumRemove ==
  ASSUME NEW S, IsFiniteSet(S), NEW f, \A x \in S : f[x] \in Nat, NEW x \in S
  PROVE  SumFunctionOnSet(f, S) = f[x] + SumFunctionOnSet(f, S \ {x})
  <1> DEFINE Good(s) == \A y \in s : SumFunctionOnSet(f, s) = f[y] + SumFunctionOnSet(f, s \ {y})
             B == {s \in SUBSET S : ~Good(s)}
  <1>1. SUFFICES ASSUME B # {} PROVE FALSE
    OBVIOUS
  <1>2. PICK s \in B : \A y \in s : s \ {y} \notin B
    <2>1. B \in SUBSET SUBSET S
      OBVIOUS
    <2> HIDE DEF B
    <2> QED
      BY <1>1, <2>1, MinimalSubset
  <1>3. PICK y \in s : SumFunctionOnSet(f, s) # f[y] + SumFunctionOnSet(f, s \ {y})
    OBVIOUS
  <1> DEFINE p == Pick(s)
  <1>4. IsFiniteSet(s) /\ p \in s
    BY <1>3, FS_Subset DEF Pick
  <1>5. SumFunctionOnSet(f, s) = f[p] + SumFunctionOnSet(f, s \ {p})
    BY <1>3, <1>4, SumPick
  <1>6. p # y
    BY <1>3, <1>5
  <1>7. Good(s \ {p}) /\ Good(s \ {y})
    BY <1>2, <1>4
  <1> HIDE DEF p, B
  <1>8. SumFunctionOnSet(f, s \ {p}) = f[y] + SumFunctionOnSet(f, (s \ {p}) \ {y})
    BY <1>6, <1>7
  <1>9. SumFunctionOnSet(f, s \ {y}) = f[p] + SumFunctionOnSet(f, (s \ {y}) \ {p})
    BY <1>4, <1>6, <1>7
  <1>10. (s \ {y}) \ {p} = (s \ {p}) \ {y}
    OBVIOUS
  <1>11. /\ f[p] \in Nat /\ f[y] \in Nat
         /\ SumFunctionOnSet(f, (s \ {p}) \ {y}) \in Nat
    <2>1. (s \ {p}) \ {y} \in SUBSET S /\ p \in S /\ y \in S
      BY <1>2, <1>4 DEF B
    <2>2. IsFiniteSet((s \ {p}) \ {y})
      BY <2>1, FS_Subset
    <2> QED
      BY <2>1, <2>2, SumNat
  <1> QED
    BY <1>3, <1>5, <1>8, <1>9, <1>10, <1>11

\* Adding an element adds its value.
LEMMA SumAdd ==
  ASSUME NEW S, IsFiniteSet(S), NEW x, x \notin S, NEW f, \A y \in S \cup {x} : f[y] \in Nat
  PROVE  /\ SumFunctionOnSet(f, S \cup {x}) = f[x] + SumFunctionOnSet(f, S)
         /\ SumFunctionOnSet(f, S) \in Nat /\ f[x] \in Nat
  <1>1. IsFiniteSet(S \cup {x})
    BY FS_AddElement
  <1>2. (S \cup {x}) \ {x} = S
    OBVIOUS
  <1>3. SumFunctionOnSet(f, S \cup {x}) = f[x] + SumFunctionOnSet(f, (S \cup {x}) \ {x})
    BY <1>1, SumRemove
  <1> QED
    BY <1>2, <1>3, SumNat

\* Functions that agree on a set have the same sum over it.
LEMMA SumSame ==
  ASSUME NEW S, IsFiniteSet(S), NEW f, NEW g, \A x \in S : f[x] = g[x]
  PROVE  SumFunctionOnSet(f, S) = SumFunctionOnSet(g, S)
  <1> DEFINE B == {s \in SUBSET S : SumFunctionOnSet(f, s) # SumFunctionOnSet(g, s)}
  <1>1. SUFFICES ASSUME B # {} PROVE FALSE
    OBVIOUS
  <1>2. PICK s \in B : \A x \in s : s \ {x} \notin B
    <2>1. B \in SUBSET SUBSET S
      OBVIOUS
    <2> HIDE DEF B
    <2> QED
      BY <1>1, <2>1, MinimalSubset
  <1>3. s # {}
    BY SumEmpty
  <1>4. IsFiniteSet(s) /\ Pick(s) \in s
    BY <1>3, FS_Subset DEF Pick
  <1>5. SumFunctionOnSet(f, s \ {Pick(s)}) = SumFunctionOnSet(g, s \ {Pick(s)})
    BY <1>2, <1>4
  <1>6. /\ SumFunctionOnSet(f, s) = f[Pick(s)] + SumFunctionOnSet(f, s \ {Pick(s)})
        /\ SumFunctionOnSet(g, s) = g[Pick(s)] + SumFunctionOnSet(g, s \ {Pick(s)})
    BY <1>3, <1>4, SumPick
  <1>7. f[Pick(s)] = g[Pick(s)]
    BY <1>4
  <1> QED
    BY <1>5, <1>6, <1>7

\* The sum over one element is its value.
LEMMA SumSingle ==
  ASSUME NEW x, NEW f, f[x] \in Nat
  PROVE  SumFunctionOnSet(f, {x}) = f[x]
  <1>1. IsFiniteSet({}) /\ x \notin {} /\ {} \cup {x} = {x}
    BY FS_EmptySet
  <1>2. SumFunctionOnSet(f, {} \cup {x}) = f[x] + SumFunctionOnSet(f, {})
    BY <1>1, SumAdd
  <1> QED
    BY <1>1, <1>2, SumEmpty

\* Zeros sum up to zero.
LEMMA SumZero ==
  ASSUME NEW S, IsFiniteSet(S), NEW f, \A x \in S : f[x] = 0
  PROVE  SumFunctionOnSet(f, S) = 0
  <1> DEFINE B == {s \in SUBSET S : SumFunctionOnSet(f, s) # 0}
  <1>1. SUFFICES ASSUME B # {} PROVE FALSE
    OBVIOUS
  <1>2. PICK s \in B : \A x \in s : s \ {x} \notin B
    <2>1. B \in SUBSET SUBSET S
      OBVIOUS
    <2> HIDE DEF B
    <2> QED
      BY <1>1, <2>1, MinimalSubset
  <1>3. s # {}
    BY SumEmpty
  <1>4. IsFiniteSet(s) /\ Pick(s) \in s
    BY <1>3, FS_Subset DEF Pick
  <1>5. SumFunctionOnSet(f, s \ {Pick(s)}) = 0
    BY <1>2, <1>4
  <1>6. SumFunctionOnSet(f, s) = f[Pick(s)] + SumFunctionOnSet(f, s \ {Pick(s)})
    BY <1>3, <1>4, SumPick
  <1> QED
    BY <1>4, <1>5, <1>6
==============================================================================
