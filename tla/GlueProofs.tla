----------------------------- MODULE GlueProofs -----------------------------
(***************************************************************************)
(* The proofs about the Glue jobs and about the two engines' transforms.   *)
(***************************************************************************)
EXTENDS GlueJobs, TransformsAgree, FiniteSetTheorems, WellFoundedInduction, TLAPS

-----------------------------------------------------------------------------
(* Sums over finite sets: what a fold computes, by least counterexamples.  *)

LEMMA LeastOf ==
  ASSUME NEW nums, nums \subseteq Nat, nums # {}
  PROVE  \E x \in nums : \A y \in nums : x <= y
<1> DEFINE R == OpToRel(<, Nat)
<1>1. IsWellFoundedOn(R, Nat)
  BY NatLessThanWellFounded
<1>2. PICK x \in nums : \A y \in nums : <<y, x>> \notin R
  <2> HIDE DEF R
  <2>1. QED
    BY <1>1, WFMin
<1>3. \A y \in nums : ~(y < x)
  BY <1>2 DEF OpToRel
<1>4. QED
  BY <1>3

\* The sum of f over a set, and the function that the fold is the value of.
Sum(f, set) == MapThenSumSet(LAMBDA x : f[x], set)

Some(t) == CHOOSE x \in t : TRUE

Step(f, top, it) ==
    [t \in SUBSET top |-> IF t = {} THEN 0 ELSE f[Some(t)] + it[t \ {Some(t)}]]

Folded(f, top) == CHOOSE it : it = Step(f, top, it)

LEMMA SumIsFolded ==
  ASSUME NEW f, NEW set
  PROVE  Sum(f, set) = Folded(f, set)[set]
BY DEF Sum, MapThenSumSet, MapThenFoldSet, Folded, Step, Some

LEMMA SomeIn ==
  ASSUME NEW t, t # {}
  PROVE  Some(t) \in t
BY DEF Some

LEMMA OneLess ==
  ASSUME NEW t, IsFiniteSet(t), NEW x \in t
  PROVE  /\ IsFiniteSet(t \ {x}) /\ Cardinality(t) \in Nat /\ Cardinality(t \ {x}) \in Nat
         /\ Cardinality(t \ {x}) = Cardinality(t) - 1
BY FS_RemoveElement, FS_CardinalityType

\* Of the parts of a finite set that are bad, one of the smallest.
LEMMA LeastSet ==
  ASSUME NEW set, IsFiniteSet(set), NEW bad, bad \subseteq SUBSET set, bad # {}
  PROVE  \E u \in bad : IsFiniteSet(u) /\ \A x \in u : u \ {x} \notin bad
<1> DEFINE sizes == {Cardinality(u) : u \in bad}
<1>1. \A u \in bad : IsFiniteSet(u) /\ Cardinality(u) \in Nat
  BY FS_Subset, FS_CardinalityType
<1>2. sizes \subseteq Nat /\ sizes # {}
  BY <1>1
<1>3. PICK n \in sizes : \A m \in sizes : n <= m
  <2> HIDE DEF sizes
  <2>1. QED
    BY <1>2, LeastOf
<1>4. PICK u \in bad : n = Cardinality(u)
  BY <1>3
<1>5. ASSUME NEW x \in u, u \ {x} \in bad
      PROVE  FALSE
  <2>1. Cardinality(u \ {x}) < n
    BY <1>1, <1>4, OneLess
  <2>2. Cardinality(u \ {x}) \in sizes
    BY <1>5
  <2> HIDE DEF sizes
  <2>3. n <= Cardinality(u \ {x}) /\ n \in Nat /\ Cardinality(u \ {x}) \in Nat
    BY <1>2, <1>3, <2>2
  <2>4. QED
    BY <2>1, <2>3
<1>6. QED
  BY <1>1, <1>4, <1>5

\* The fold's function exists: it is built up by the size of the sets.
LEMMA FoldExists ==
  ASSUME NEW set, IsFiniteSet(set), NEW f, \A x \in set : f[x] \in Int
  PROVE  \E it \in [SUBSET set -> Int] : it = Step(f, set, it)
<1> DEFINE UpTo(n, it) ==
             \A t \in SUBSET set : Cardinality(t) <= n => it[t] = Step(f, set, it)[t]
           bad == {n \in Nat : ~\E it \in [SUBSET set -> Int] : UpTo(n, it)}
<1>1. \A t \in SUBSET set : IsFiniteSet(t) /\ Cardinality(t) \in Nat
                            /\ Cardinality(t) <= Cardinality(set)
  BY FS_Subset, FS_CardinalityType
<1>2. ASSUME NEW it \in [SUBSET set -> Int]
      PROVE  Step(f, set, it) \in [SUBSET set -> Int]
  <2>1. ASSUME NEW t \in SUBSET set, t # {}
        PROVE  f[Some(t)] + it[t \ {Some(t)}] \in Int
    <3>1. Some(t) \in set /\ t \ {Some(t)} \in SUBSET set
      BY <2>1, SomeIn
    <3>2. QED
      BY <3>1
  <2>2. QED
    BY <2>1 DEF Step
<1>3. UpTo(0, [t \in SUBSET set |-> 0])
  <2>1. ASSUME NEW t \in SUBSET set, Cardinality(t) <= 0
        PROVE  t = {}
    BY <1>1, <2>1, FS_EmptySet
  <2>2. QED
    BY <2>1 DEF Step
<1>4. ASSUME NEW n \in Nat, NEW it \in [SUBSET set -> Int], UpTo(n, it)
      PROVE  UpTo(n + 1, Step(f, set, it))
  <2>1. SUFFICES ASSUME NEW t \in SUBSET set, Cardinality(t) <= n + 1
                 PROVE  Step(f, set, it)[t] = Step(f, set, Step(f, set, it))[t]
    BY DEF UpTo
  <2>2. CASE t = {}
    BY <2>2 DEF Step
  <2>3. CASE t # {}
    <3> DEFINE u == t \ {Some(t)}
    <3>1. Some(t) \in t /\ u \in SUBSET set
      BY <2>3, SomeIn
    <3>2. Cardinality(u) <= n
      BY <1>1, <2>1, <3>1, OneLess
    <3>3. it[u] = Step(f, set, it)[u]
      BY <1>4, <3>1, <3>2
    <3>4. Step(f, set, it)[t] = f[Some(t)] + it[u]
      BY <2>3 DEF Step
    <3>5. Step(f, set, Step(f, set, it))[t] = f[Some(t)] + Step(f, set, it)[u]
      BY <2>3 DEF Step
    <3>6. QED
      BY <3>3, <3>4, <3>5
  <2>4. QED
    BY <2>2, <2>3
<1>5. bad = {}
  <2>1. SUFFICES ASSUME bad # {} PROVE FALSE
    OBVIOUS
  <2>2. bad \subseteq Nat
    OBVIOUS
  <2>3. PICK n \in bad : \A m \in bad : n <= m
    <3> HIDE DEF bad
    <3>1. QED
      BY <2>1, <2>2, LeastOf
  <2>4. n # 0
    <3>1. [t \in SUBSET set |-> 0] \in [SUBSET set -> Int]
      OBVIOUS
    <3>2. QED
      BY <1>3, <2>3, <3>1
  <2>5. n - 1 \in Nat /\ n - 1 \notin bad
    <3> HIDE DEF bad
    <3>1. n \in Nat
      BY <2>2, <2>3
    <3>2. n - 1 \in Nat /\ ~(n <= n - 1)
      BY <2>4, <3>1
    <3>3. QED
      BY <2>3, <3>2
  <2>6. PICK it \in [SUBSET set -> Int] : UpTo(n - 1, it)
    BY <2>5
  <2>7. UpTo(n, Step(f, set, it))
    <3>1. UpTo((n - 1) + 1, Step(f, set, it))
      <4> HIDE DEF UpTo
      <4>1. QED
        BY <1>4, <2>5, <2>6
    <3>2. (n - 1) + 1 = n
      BY <2>2, <2>3
    <3>3. QED
      BY <3>1, <3>2
  <2>8. QED
    <3> HIDE DEF UpTo
    <3>1. QED
      BY <1>2, <2>3, <2>7
<1>6. Cardinality(set) \in Nat
  BY <1>1
<1>7. PICK it \in [SUBSET set -> Int] : UpTo(Cardinality(set), it)
  BY <1>5, <1>6
<1>8. \A t \in SUBSET set : it[t] = Step(f, set, it)[t]
  BY <1>1, <1>7
<1>9. it = Step(f, set, it)
  <2>1. it = [t \in SUBSET set |-> it[t]]
    OBVIOUS
  <2>2. Step(f, set, it) = [t \in SUBSET set |-> Step(f, set, it)[t]]
    BY DEF Step
  <2> HIDE DEF UpTo
  <2>3. QED
    BY <1>8, <2>1, <2>2, Zenon
<1>10. QED
  BY <1>9

\* And it is the only one.
LEMMA FoldUnique ==
  ASSUME NEW set, IsFiniteSet(set), NEW f,
         NEW g, g = Step(f, set, g), NEW h, h = Step(f, set, h),
         NEW t \in SUBSET set
  PROVE  g[t] = h[t]
<1> DEFINE differ == {u \in SUBSET set : g[u] # h[u]}
<1>1. SUFFICES ASSUME differ # {} PROVE FALSE
  OBVIOUS
<1>2. PICK u \in differ : \A x \in u : u \ {x} \notin differ
  <2>1. differ \subseteq SUBSET set
    OBVIOUS
  <2> HIDE DEF differ
  <2>2. QED
    BY <1>1, <2>1, LeastSet
<1>3. u \in SUBSET set /\ g[u] # h[u]
  OBVIOUS
<1>4. CASE u = {}
  <2>1. Step(f, set, g)[u] = 0 /\ Step(f, set, h)[u] = 0
    BY <1>3, <1>4 DEF Step
  <2>2. QED
    BY <1>3, <2>1
<1>5. CASE u # {}
  <2> DEFINE v == u \ {Some(u)}
  <2>1. Some(u) \in u /\ v \in SUBSET set
    BY <1>3, <1>5, SomeIn
  <2>2. g[v] = h[v]
    BY <1>2, <2>1
  <2>3. Step(f, set, g)[u] = f[Some(u)] + g[v] /\ Step(f, set, h)[u] = f[Some(u)] + h[v]
    BY <1>3, <1>5 DEF Step
  <2>4. QED
    BY <1>3, <2>2, <2>3
<1>6. QED
  BY <1>4, <1>5

LEMMA FoldedIs ==
  ASSUME NEW set, IsFiniteSet(set), NEW f, \A x \in set : f[x] \in Int
  PROVE  /\ Folded(f, set) \in [SUBSET set -> Int]
         /\ Folded(f, set) = Step(f, set, Folded(f, set))
<1>1. PICK it \in [SUBSET set -> Int] : it = Step(f, set, it)
  BY FoldExists
<1>2. Folded(f, set) = Step(f, set, Folded(f, set))
  BY <1>1 DEF Folded
<1>3. \A t \in SUBSET set : Folded(f, set)[t] = it[t]
  BY <1>1, <1>2, FoldUnique
<1>4. Folded(f, set) = [t \in SUBSET set |-> Folded(f, set)[t]]
  <2>1. Step(f, set, Folded(f, set)) = [t \in SUBSET set |-> Step(f, set, Folded(f, set))[t]]
    BY DEF Step
  <2>2. QED
    BY <1>2, <2>1
<1>5. QED
  BY <1>1, <1>2, <1>3, <1>4

\* The fold over a part of a set is that of the whole set, there.
LEMMA FoldOfPart ==
  ASSUME NEW set, IsFiniteSet(set), NEW f, \A x \in set : f[x] \in Int,
         NEW part \in SUBSET set
  PROVE  Sum(f, part) = Folded(f, set)[part]
<1> DEFINE g == Folded(f, set)
           h == [t \in SUBSET part |-> g[t]]
<1>1. g = Step(f, set, g)
  BY FoldedIs
<1>2. IsFiniteSet(part) /\ \A x \in part : f[x] \in Int
  BY FS_Subset
<1>3. h = Step(f, part, h)
  <2>1. ASSUME NEW t \in SUBSET part
        PROVE  g[t] = Step(f, part, h)[t]
    <3>1. g[t] = Step(f, set, g)[t]
      BY <1>1
    <3>2. CASE t = {}
      BY <3>1, <3>2 DEF Step
    <3>3. CASE t # {}
      <4> HIDE DEF g
      <4>1. g[t] = f[Some(t)] + g[t \ {Some(t)}]
        BY <3>1, <3>3 DEF Step
      <4>2. Step(f, part, h)[t] = f[Some(t)] + h[t \ {Some(t)}]
        BY <3>3 DEF Step
      <4>3. h[t \ {Some(t)}] = g[t \ {Some(t)}]
        OBVIOUS
      <4>4. QED
        BY <4>1, <4>2, <4>3
    <3>4. QED
      BY <3>2, <3>3
  <2>2. Step(f, part, h) = [t \in SUBSET part |-> Step(f, part, h)[t]]
    BY DEF Step
  <2> HIDE DEF g
  <2>3. QED
    BY <2>1, <2>2
<1>4. Folded(f, part) = Step(f, part, Folded(f, part))
  BY <1>2, FoldedIs
<1>5. Folded(f, part)[part] = h[part]
  <2> HIDE DEF h
  <2>1. QED
    BY <1>2, <1>3, <1>4, FoldUnique
<1>6. QED
  BY <1>5, SumIsFolded

LEMMA SumOfNone ==
  ASSUME NEW f
  PROVE  Sum(f, {}) = 0
<1>1. IsFiniteSet({}) /\ \A x \in {} : f[x] \in Int
  BY FS_EmptySet
<1>2. Folded(f, {}) = Step(f, {}, Folded(f, {}))
  BY <1>1, FoldedIs
<1>3. Step(f, {}, Folded(f, {}))[{}] = 0
  BY DEF Step
<1>4. QED
  BY <1>2, <1>3, SumIsFolded

LEMMA SumType ==
  ASSUME NEW set, IsFiniteSet(set), NEW f, \A x \in set : f[x] \in Int
  PROVE  Sum(f, set) \in Int
BY FoldedIs, SumIsFolded

\* In whatever order: any element may come first.
LEMMA SumSplits ==
  ASSUME NEW set, IsFiniteSet(set), NEW f, \A x \in set : f[x] \in Int, NEW x \in set
  PROVE  Sum(f, set) = f[x] + Sum(f, set \ {x})
<1> DEFINE differ == {u \in SUBSET set : \E y \in u : Sum(f, u) # f[y] + Sum(f, u \ {y})}
<1>1. \A u \in SUBSET set : IsFiniteSet(u)
  BY FS_Subset
<1>2. SUFFICES ASSUME differ # {} PROVE FALSE
  OBVIOUS
<1>3. differ \subseteq SUBSET set
  OBVIOUS
<1>4. PICK u \in differ : \A z \in u : u \ {z} \notin differ
  <2> HIDE DEF differ
  <2>1. QED
    BY <1>2, <1>3, LeastSet
<1>5. u \in SUBSET set
  BY <1>4
<1>6. PICK y \in u : Sum(f, u) # f[y] + Sum(f, u \ {y})
  BY <1>5
<1>7. u \in SUBSET set /\ IsFiniteSet(u) /\ u # {}
  BY <1>1, <1>5, <1>6
<1> DEFINE c == Some(u)
<1>8. c \in u /\ c \in set /\ y \in set
  BY <1>6, <1>7, SomeIn
<1>9. Sum(f, u) = f[c] + Sum(f, u \ {c})
  <2>1. Folded(f, set) = Step(f, set, Folded(f, set))
    BY FoldedIs
  <2>2. Folded(f, set)[u] = f[c] + Folded(f, set)[u \ {c}]
    <3>1. Step(f, set, Folded(f, set))[u] = f[c] + Folded(f, set)[u \ {c}]
      BY <1>7 DEF Step
    <3>2. QED
      BY <2>1, <3>1
  <2>3. Sum(f, u) = Folded(f, set)[u] /\ Sum(f, u \ {c}) = Folded(f, set)[u \ {c}]
    <3>1. u \ {c} \in SUBSET set
      BY <1>7
    <3>2. QED
      BY <1>7, <3>1, FoldOfPart
  <2>4. QED
    BY <2>2, <2>3
<1>10. c # y
  BY <1>6, <1>9
<1>11. ASSUME NEW z \in u
       PROVE  \A w \in u \ {z} : Sum(f, u \ {z}) = f[w] + Sum(f, (u \ {z}) \ {w})
  <2>1. u \ {z} \in SUBSET set /\ u \ {z} \notin differ
    BY <1>4, <1>7
  <2>2. QED
    BY <2>1
<1>12. /\ Sum(f, u \ {c}) = f[y] + Sum(f, (u \ {c}) \ {y})
       /\ Sum(f, u \ {y}) = f[c] + Sum(f, (u \ {y}) \ {c})
  BY <1>6, <1>8, <1>10, <1>11
<1>13. Sum(f, (u \ {c}) \ {y}) = Sum(f, (u \ {y}) \ {c})
  <2>1. (u \ {c}) \ {y} = (u \ {y}) \ {c}
    OBVIOUS
  <2>2. QED
    BY <2>1
<1>14. Sum(f, (u \ {y}) \ {c}) \in Int /\ f[y] \in Int /\ f[c] \in Int
  <2>1. (u \ {y}) \ {c} \in SUBSET set
    BY <1>7
  <2>2. IsFiniteSet((u \ {y}) \ {c}) /\ \A z \in (u \ {y}) \ {c} : f[z] \in Int
    BY <1>1, <2>1
  <2>3. QED
    BY <1>8, <2>2, SumType
<1>15. Sum(f, u) = f[c] + (f[y] + Sum(f, (u \ {y}) \ {c}))
  BY <1>9, <1>12, <1>13
<1>16. f[y] + Sum(f, u \ {y}) = f[y] + (f[c] + Sum(f, (u \ {y}) \ {c}))
  BY <1>12
<1> DEFINE rest == Sum(f, (u \ {y}) \ {c})
<1>17. f[c] + (f[y] + rest) = f[y] + (f[c] + rest)
  <2>1. rest \in Int /\ f[y] \in Int /\ f[c] \in Int
    BY <1>14
  <2> HIDE DEF rest, c
  <2>2. QED
    BY <2>1
<1>18. QED
  BY <1>6, <1>15, <1>16, <1>17

LEMMA SumAgrees ==
  ASSUME NEW set, NEW f, NEW g, \A x \in set : f[x] = g[x]
  PROVE  Sum(f, set) = Sum(g, set)
<1>1. ASSUME NEW it, NEW t \in SUBSET set
      PROVE  Step(f, set, it)[t] = Step(g, set, it)[t]
  <2>1. CASE t = {}
    BY <2>1 DEF Step
  <2>2. CASE t # {}
    <3>1. Some(t) \in set
      BY <2>2, SomeIn
    <3>2. QED
      BY <2>2, <3>1 DEF Step
  <2>3. QED
    BY <2>1, <2>2
<1>2. ASSUME NEW it
      PROVE  Step(f, set, it) = Step(g, set, it)
  <2>1. /\ Step(f, set, it) = [t \in SUBSET set |-> Step(f, set, it)[t]]
        /\ Step(g, set, it) = [t \in SUBSET set |-> Step(g, set, it)[t]]
    BY DEF Step
  <2>2. QED
    BY <1>1, <2>1
<1>3. Folded(f, set) = Folded(g, set)
  BY <1>2 DEF Folded
<1>4. QED
  BY <1>3, SumIsFolded

LEMMA SumOfZeros ==
  ASSUME NEW set, IsFiniteSet(set), NEW f, \A x \in set : f[x] = 0
  PROVE  Sum(f, set) = 0
<1> DEFINE bad == {u \in SUBSET set : Sum(f, u) # 0}
<1>1. SUFFICES ASSUME bad # {} PROVE FALSE
  OBVIOUS
<1>2. PICK u \in bad : IsFiniteSet(u) /\ \A x \in u : u \ {x} \notin bad
  <2>1. bad \subseteq SUBSET set
    OBVIOUS
  <2> HIDE DEF bad
  <2>2. QED
    BY <1>1, <2>1, LeastSet
<1>3. u # {}
  BY SumOfNone
<1>4. PICK x \in u : TRUE
  BY <1>3
<1>5. Sum(f, u \ {x}) = 0 /\ f[x] = 0 /\ \A y \in u : f[y] \in Int
  BY <1>2, <1>4
<1>6. Sum(f, u) = f[x] + Sum(f, u \ {x})
  BY <1>2, <1>5, SumSplits
<1>7. QED
  BY <1>5, <1>6

\* Counting is adding ones.
LEMMA CountIsSum ==
  ASSUME NEW set, IsFiniteSet(set), NEW f, \A x \in set : f[x] = 1
  PROVE  Sum(f, set) = Cardinality(set)
<1> DEFINE bad == {u \in SUBSET set : Sum(f, u) # Cardinality(u)}
<1>1. SUFFICES ASSUME bad # {} PROVE FALSE
  OBVIOUS
<1>2. PICK u \in bad : IsFiniteSet(u) /\ \A x \in u : u \ {x} \notin bad
  <2>1. bad \subseteq SUBSET set
    OBVIOUS
  <2> HIDE DEF bad
  <2>2. QED
    BY <1>1, <2>1, LeastSet
<1>3. u # {}
  BY SumOfNone, FS_EmptySet
<1>4. PICK x \in u : TRUE
  BY <1>3
<1>5. Sum(f, u \ {x}) = Cardinality(u \ {x}) /\ f[x] = 1 /\ \A y \in u : f[y] \in Int
  BY <1>2, <1>4
<1>6. Sum(f, u) = f[x] + Sum(f, u \ {x})
  BY <1>2, <1>5, SumSplits
<1>7. Cardinality(u \ {x}) = Cardinality(u) - 1 /\ Cardinality(u) \in Nat
  BY <1>2, OneLess
<1>8. QED
  BY <1>5, <1>6, <1>7

\* A sum changes by as much as one of its terms does.
LEMMA SumChanges ==
  ASSUME NEW set, IsFiniteSet(set), NEW f, \A x \in set : f[x] \in Int,
         NEW g, NEW x \in set, NEW d \in Int, g[x] = f[x] + d,
         \A y \in set : y # x => g[y] = f[y]
  PROVE  Sum(g, set) = Sum(f, set) + d
<1>1. \A y \in set : g[y] \in Int
  OBVIOUS
<1>2. Sum(f, set) = f[x] + Sum(f, set \ {x}) /\ Sum(g, set) = g[x] + Sum(g, set \ {x})
  BY <1>1, SumSplits
<1>3. Sum(f, set \ {x}) = Sum(g, set \ {x})
  <2>1. \A y \in set \ {x} : f[y] = g[y]
    OBVIOUS
  <2>2. QED
    BY <2>1, SumAgrees
<1>4. Sum(f, set \ {x}) \in Int
  <2>1. IsFiniteSet(set \ {x}) /\ \A y \in set \ {x} : f[y] \in Int
    BY OneLess
  <2>2. QED
    BY <2>1, SumType
<1>5. QED
  BY <1>2, <1>3, <1>4

\* The sum over the groups of the groups' sums is that of all.
LEMMA SumByGroups ==
  ASSUME NEW rows, IsFiniteSet(rows), NEW w, \A r \in rows : w[r] \in Int,
         NEW keys, IsFiniteSet(keys), NEW K, \A r \in rows : K[r] \in keys
  PROVE  Sum([k \in keys |-> Sum(w, {r \in rows : K[r] = k})], keys) = Sum(w, rows)
<1> DEFINE Group(u, k) == {r \in u : K[r] = k}
           groups(u) == [k \in keys |-> Sum(w, Group(u, k))]
           bad == {u \in SUBSET rows : Sum(groups(u), keys) # Sum(w, u)}
<1>1. SUFFICES ASSUME bad # {} PROVE FALSE
  OBVIOUS
<1>2. PICK u \in bad : IsFiniteSet(u) /\ \A x \in u : u \ {x} \notin bad
  <2>1. bad \subseteq SUBSET rows
    OBVIOUS
  <2> HIDE DEF bad
  <2>2. QED
    BY <1>1, <2>1, LeastSet
<1>3. u \in SUBSET rows /\ Sum(groups(u), keys) # Sum(w, u)
  BY <1>2
<1>4. ASSUME NEW v \in SUBSET rows, NEW k \in keys
      PROVE  /\ IsFiniteSet(Group(v, k)) /\ \A r \in Group(v, k) : w[r] \in Int
             /\ groups(v)[k] = Sum(w, Group(v, k)) /\ groups(v)[k] \in Int
  <2>1. Group(v, k) \in SUBSET rows
    OBVIOUS
  <2>2. groups(v)[k] = Sum(w, Group(v, k))
    OBVIOUS
  <2> HIDE DEF Group, groups
  <2>3. IsFiniteSet(Group(v, k)) /\ \A r \in Group(v, k) : w[r] \in Int
    BY <2>1, FS_Subset
  <2>4. QED
    BY <2>2, <2>3, SumType
<1> HIDE DEF groups, bad
<1>5. CASE u = {}
  <2>1. ASSUME NEW k \in keys
        PROVE  groups(u)[k] = 0
    <3>1. Group(u, k) = {}
      BY <1>5
    <3> HIDE DEF Group
    <3>2. QED
      BY <1>3, <1>4, <3>1, SumOfNone
  <2>2. Sum(groups(u), keys) = 0
    BY <2>1, SumOfZeros
  <2>3. QED
    BY <1>3, <1>5, <2>2, SumOfNone
<1>6. CASE u # {}
  <2>1. PICK x \in u : TRUE
    BY <1>6
  <2> DEFINE v == u \ {x}
  <2>2. v \in SUBSET rows /\ x \in rows /\ K[x] \in keys /\ w[x] \in Int
    BY <1>3
  <2>3. Sum(groups(v), keys) = Sum(w, v)
    BY <1>2, <2>2 DEF bad
  <2>4. ASSUME NEW k \in keys, k # K[x]
        PROVE  groups(u)[k] = groups(v)[k]
    <3>1. Group(u, k) = Group(v, k)
      BY <2>4
    <3> HIDE DEF Group, v
    <3>2. QED
      BY <1>3, <1>4, <2>2, <3>1
  <2>5. groups(u)[K[x]] = groups(v)[K[x]] + w[x]
    <3>1. x \in Group(u, K[x]) /\ Group(u, K[x]) \ {x} = Group(v, K[x])
      OBVIOUS
    <3> HIDE DEF Group, v
    <3>2. Sum(w, Group(u, K[x])) = w[x] + Sum(w, Group(v, K[x]))
      <4>1. IsFiniteSet(Group(u, K[x])) /\ \A r \in Group(u, K[x]) : w[r] \in Int
        BY <1>3, <1>4, <2>2
      <4>2. QED
        BY <3>1, <4>1, SumSplits
    <3>3. /\ groups(u)[K[x]] = Sum(w, Group(u, K[x]))
          /\ groups(v)[K[x]] = Sum(w, Group(v, K[x])) /\ groups(v)[K[x]] \in Int
      BY <1>3, <1>4, <2>2
    <3>4. QED
      BY <2>2, <3>2, <3>3
  <2>6. Sum(groups(u), keys) = Sum(groups(v), keys) + w[x]
    <3>1. \A k \in keys : groups(v)[k] \in Int
      BY <1>4, <2>2
    <3> HIDE DEF v
    <3>2. QED
      BY <2>2, <2>4, <2>5, <3>1, SumChanges
  <2>7. Sum(w, u) = w[x] + Sum(w, v)
    <3>1. \A r \in u : w[r] \in Int
      BY <1>3
    <3>2. QED
      BY <1>2, <3>1, SumSplits
  <2>8. Sum(w, v) \in Int
    <3>1. \A r \in v : w[r] \in Int
      BY <1>3
    <3>2. IsFiniteSet(v)
      BY <1>2, OneLess
    <3>3. QED
      BY <3>1, <3>2, SumType
  <2>9. QED
    BY <1>3, <2>2, <2>3, <2>6, <2>7, <2>8
<1>7. QED
  BY <1>5, <1>6

-----------------------------------------------------------------------------
(* The invariant of the two jobs.                                          *)

TypedRow(r) == RawRow(r) /\ r.amount # Bad /\ r.ts # Bad

\* What silver may have: rows with an amount, one for each transaction.
OneOfEach(rows) ==
    /\ IsFiniteSet(rows) /\ \A r \in rows : r.amount \in Int
    /\ \A r, s \in rows : r.id = s.id => r = s

NotOlderIn(rows, r) ==
    \E s \in rows : s.id = r.id /\ NullsFirst(r.updated) <= NullsFirst(s.updated)

\* The first job works on typed rows; while it writes, no input is accounted for yet, and
\* before it quarantines, silver has a newest version of each valid row.
SilverInv ==
    /\ bronze \subseteq RawRows /\ IsFiniteSet(bronze)
    /\ at \in {"clearSilver", "writeSilver", "quarantine"} =>
          IsFiniteSet(txn) /\ \A r \in txn : TypedRow(r)
    /\ at \in {"writeSilver", "quarantine"} => input = {}
    /\ at = "quarantine" => \A r \in FilterValidTransactions(txn) : NotOlderIn(silver, r)
    /\ OneOfEach(silver)

Names(dims) == {a.account : a \in dims}
KeysIn(facts, names) == \A f \in facts : f.account_sk # Null => f.account_sk \in names

Facts(rows, dims) ==
    {[txn |-> p[1], account_sk |-> IF p[2] = Null THEN Null ELSE p[2].account] :
        p \in Join(rows, dims, "left")}

TxnsOf(facts) == {f.txn : f \in facts}

InGold == at \in {"clearGold", "writeGold"}

\* The accounts only grow, so that the facts of an earlier run, on the accounts of then,
\* agree with the dimension of a later one; within a run the tables written so far are
\* of the rows that the job has read.
GoldInv ==
    /\ accounts \subseteq Accounts
    /\ gold = [d \in {"dim_account", "fact_transaction", "daily_transaction_summary"}
                  |-> gold[d]]
    /\ InGold => table \in 1..3 /\ OneOfEach(txn) /\ accs \subseteq accounts
    /\ gold.fact_transaction # Null =>
          /\ KeysIn(gold.fact_transaction, Names(accounts))
          /\ InGold => KeysIn(gold.fact_transaction, Names(accs))
          /\ gold.dim_account # Null => KeysIn(gold.fact_transaction, gold.dim_account)
    /\ (at = "writeGold" \/ (InGold /\ table > 1)) => whole = FALSE
    /\ InGold /\ table > 1 => gold.dim_account = Names(accs)
    /\ InGold /\ table > 2 => gold.fact_transaction = Facts(txn, accs)
    /\ whole =>
          /\ \A f, g \in gold.fact_transaction : f.txn.id = g.txn.id => f = g
          /\ OneOfEach(TxnsOf(gold.fact_transaction))
          /\ gold.daily_transaction_summary = AggregateDaily(TxnsOf(gold.fact_transaction))

GlueInv == SilverInv /\ BronzeAccountedFor /\ GoldInv

-----------------------------------------------------------------------------
(* The transforms that the jobs use.                                       *)

\* What an engine sorts by, of a typed row, is a number.
LEMMA StampIsNat ==
  ASSUME NEW r, RawRow(r)
  PROVE  NullsFirst(r.updated) \in 0..EndOfTime /\ EndOfTime \in Nat
BY FrameAssumption DEF RawRow, NullsFirst

Cast(r) == [r EXCEPT !.amount = Coerced(@), !.ts = Coerced(@)]

\* The cast of a row nulls what the columns do not take, and leaves the rest.
LEMMA CastOf ==
  ASSUME NEW r, RawRow(r)
  PROVE  /\ TypedRow(Cast(r))
         /\ Cast(r).amount = Coerced(r.amount) /\ Cast(r).ts = Coerced(r.ts)
         /\ \A c \in Columns \ {"amount", "ts"} : Cast(r)[c] = r[c]
         /\ r.amount # Bad /\ r.ts # Bad => Cast(r) = r
<1>1. {"amount", "ts", "at", "updated"} \subseteq Columns
  BY DEF Columns
<1>2. DOMAIN r = Columns /\ r = [c \in Columns |-> r[c]]
  BY DEF RawRow
<1>3. Cast(r) = [c \in Columns |->
                   IF c = "ts" THEN Coerced(r.ts)
                   ELSE IF c = "amount" THEN Coerced(r.amount) ELSE r[c]]
  BY <1>2 DEF Cast
<1>4. /\ Cast(r) = [c \in Columns |-> Cast(r)[c]]
      /\ Cast(r).amount = Coerced(r.amount) /\ Cast(r).ts = Coerced(r.ts)
      /\ \A c \in Columns \ {"amount", "ts"} : Cast(r)[c] = r[c]
  BY <1>1, <1>3
<1>5. /\ Coerced(r.amount) \in Int \cup {Null} /\ Coerced(r.amount) # Bad
      /\ Coerced(r.ts) \in (0..EndOfTime) \cup {Null} /\ Coerced(r.ts) # Bad
  BY FrameAssumption DEF RawRow, Coerced
<1>6. Cast(r).at = r.at /\ Cast(r).updated = r.updated
  BY <1>1, <1>4
<1>7. TypedRow(Cast(r))
  BY <1>4, <1>5, <1>6 DEF TypedRow, RawRow
<1>8. ASSUME r.amount # Bad, r.ts # Bad
      PROVE  Cast(r) = r
  BY <1>1, <1>2, <1>3, <1>8 DEF Coerced
<1>9. QED
  BY <1>4, <1>7, <1>8

LEMMA CastIsTyped ==
  ASSUME NEW df, IsFiniteSet(df), \A r \in df : RawRow(r)
  PROVE  /\ IsFiniteSet(CastTypes(df))
         /\ \A r \in CastTypes(df) : TypedRow(r)
<1>1. CastTypes(df) = {Cast(r) : r \in df}
  BY DEF CastTypes, Cast
<1>2. \A r \in df : TypedRow(Cast(r))
  BY CastOf
<1>3. IsFiniteSet({Cast(r) : r \in df})
  <2> DEFINE f == [r \in df |-> Cast(r)]
  <2>1. f \in Surjection(df, {Cast(r) : r \in df})
    BY DEF Surjection
  <2>2. QED
    BY <2>1, FS_Surjection
<1>4. QED
  BY <1>1, <1>2, <1>3

\* Of some rows of a key, one is the newest.
LEMMA NewestOf ==
  ASSUME NEW rows, \A r \in rows : RawRow(r), NEW r \in rows
  PROVE  \E s \in rows :
            /\ s.id = r.id
            /\ \A t \in rows : t.id = s.id => NullsFirst(t.updated) <= NullsFirst(s.updated)
<1> DEFINE Age(s) == EndOfTime - NullsFirst(s.updated)
           same == {s \in rows : s.id = r.id}
           ages == {Age(s) : s \in same}
<1>1. \A s \in rows : NullsFirst(s.updated) \in 0..EndOfTime /\ EndOfTime \in Nat
  BY StampIsNat
<1>2. \A s \in rows : Age(s) \in Nat
  BY <1>1
<1>3. ages \subseteq Nat /\ ages # {}
  BY <1>2
<1>4. PICK a \in ages : \A b \in ages : a <= b
  <2> HIDE DEF ages
  <2>1. QED
    BY <1>3, LeastOf
<1>5. PICK s \in same : a = Age(s)
  BY <1>4
<1>6. ASSUME NEW t \in rows, t.id = s.id
      PROVE  NullsFirst(t.updated) <= NullsFirst(s.updated)
  <2>1. t \in same
    BY <1>5, <1>6
  <2>2. Age(s) <= Age(t)
    BY <1>4, <1>5, <2>1
  <2>3. s \in rows
    BY <1>5
  <2>4. QED
    BY <1>1, <2>2, <2>3
<1>7. QED
  BY <1>5, <1>6

\* The deduplication keeps one row of each key, and one that is not older than any.
LEMMA DeduplicateKeepsNewest ==
  ASSUME NEW rows, IsFiniteSet(rows), \A r \in rows : RawRow(r),
         NEW out \in Deduplicate(rows)
  PROVE  /\ out \subseteq rows /\ IsFiniteSet(out)
         /\ \A r, s \in out : r.id = s.id => r = s
         /\ \A r \in rows : NotOlderIn(out, r)
<1> DEFINE newest == {r \in rows : \A s \in rows :
                        s.id = r.id => NullsFirst(s.updated) <= NullsFirst(r.updated)}
<1>1. out \in OnePerKey(newest)
  BY DEF Deduplicate
<1>2. /\ out \subseteq newest
      /\ \A r \in newest : Cardinality({s \in out : s.id = r.id}) = 1
  BY <1>1 DEF OnePerKey
<1>3. out \subseteq rows /\ IsFiniteSet(out)
  BY <1>2, FS_Subset
<1>4. ASSUME NEW r \in out, NEW s \in out, r.id = s.id
      PROVE  r = s
  <2> DEFINE same == {t \in out : t.id = r.id}
  <2>1. Cardinality(same) = 1 /\ r \in same /\ s \in same
    BY <1>2, <1>4
  <2>2. IsFiniteSet(same)
    <3>1. same \in SUBSET out
      OBVIOUS
    <3> HIDE DEF same
    <3>2. QED
      BY <1>3, <3>1, FS_Subset
  <2> HIDE DEF same
  <2>3. \E x : same = {x}
    BY <2>1, <2>2, FS_Singleton
  <2>4. QED
    BY <2>1, <2>3
<1>5. ASSUME NEW r \in rows
      PROVE  NotOlderIn(out, r)
  <2>1. PICK n \in newest : n.id = r.id
    BY NewestOf
  <2> DEFINE same == {t \in out : t.id = n.id}
  <2>2. same # {}
    <3>1. Cardinality(same) = 1
      BY <1>2
    <3> HIDE DEF same
    <3>2. QED
      BY <3>1, FS_EmptySet
  <2>3. PICK t \in out : t.id = n.id
    BY <2>2
  <2>4. t \in newest
    BY <1>2, <2>3
  <2>5. NullsFirst(r.updated) <= NullsFirst(t.updated)
    BY <2>1, <2>3, <2>4
  <2>6. QED
    BY <2>1, <2>3, <2>5 DEF NotOlderIn
<1>6. QED
  BY <1>3, <1>4, <1>5

\* A row that fails no rule is valid, but for those that only the filter leaves out.
LEMMA FilterOrRules ==
  ASSUME NEW rows, NEW r \in rows, TypedRow(r)
  PROVE  \/ r \in Failing(rows)
         \/ r \in FilterValidTransactions(rows)
         \/ r.amount = Null \/ r.status \in {Null, "REVERSED"}
<1>1. r.amount \in Int \cup {Null}
  BY DEF TypedRow, RawRow
<1>2. QED
  BY <1>1 DEF Failing, FilterValidTransactions

-----------------------------------------------------------------------------
(* The facts.                                                              *)

LEMMA JoinIs ==
  ASSUME NEW rows, NEW dims, NEW p
  PROVE  p \in Join(rows, dims, "left") <=>
            \E r \in rows :
               \/ \E a \in dims : r.account # Null /\ r.account = a.account /\ p = <<r, a>>
               \/ /\ ~\E a \in dims : r.account # Null /\ r.account = a.account
                  /\ p = <<r, Null>>
<1> DEFINE Matches(r) == {a \in dims : r.account # Null /\ r.account = a.account}
           matched == {r \in rows : Matches(r) # {}}
           left == (UNION {{<<r, a>> : a \in Matches(r)} : r \in matched})
                     \cup {<<r, Null>> : r \in rows \ matched}
<1>1. Join(rows, dims, "left") = left
  BY DEF Join
<1>2. \A r \in rows : r \in matched <=> \E a \in dims : r.account # Null /\ r.account = a.account
  OBVIOUS
<1>3. p \in left <=> \/ \E r \in matched : \E a \in Matches(r) : p = <<r, a>>
                     \/ \E r \in rows \ matched : p = <<r, Null>>
  <2> HIDE DEF Matches, matched
  <2>1. p \in {<<r, Null>> : r \in rows \ matched} <=> \E r \in rows \ matched : p = <<r, Null>>
    OBVIOUS
  <2>2. p \in UNION {{<<r, a>> : a \in Matches(r)} : r \in matched}
           <=> \E r \in matched : p \in {<<r, a>> : a \in Matches(r)}
    OBVIOUS
  <2>3. \A r : p \in {<<r, a>> : a \in Matches(r)} <=> \E a \in Matches(r) : p = <<r, a>>
    OBVIOUS
  <2>4. p \in left <=> \/ p \in UNION {{<<r, a>> : a \in Matches(r)} : r \in matched}
                       \/ p \in {<<r, Null>> : r \in rows \ matched}
    OBVIOUS
  <2> HIDE DEF left
  <2>5. QED
    BY <2>1, <2>2, <2>3, <2>4, Zenon
<1>4. ASSUME NEW r \in rows
      PROVE  (r \in matched /\ \E a \in Matches(r) : p = <<r, a>>)
                <=> \E a \in dims : r.account # Null /\ r.account = a.account /\ p = <<r, a>>
  OBVIOUS
<1>5. matched \subseteq rows
  OBVIOUS
<1>6. QED
  <2> HIDE DEF left, matched, Matches
  <2>1. QED
    BY <1>1, <1>2, <1>3, <1>4, <1>5, Zenon

\* A fact for each row, with the account of the row if the dimension has it.
LEMMA FactsAre ==
  ASSUME NEW rows, NEW dims, Null \notin dims
  PROVE  /\ TxnsOf(Facts(rows, dims)) = rows
         /\ KeysIn(Facts(rows, dims), Names(dims))
         /\ \A f, g \in Facts(rows, dims) : f.txn = g.txn => f = g
<1> DEFINE Known(r) == \E a \in dims : r.account # Null /\ r.account = a.account
           Fact(r) == [txn |-> r, account_sk |-> IF Known(r) THEN r.account ELSE Null]
           Of(p) == [txn |-> p[1], account_sk |-> IF p[2] = Null THEN Null ELSE p[2].account]
<1>1. Facts(rows, dims) = {Of(p) : p \in Join(rows, dims, "left")}
  BY DEF Facts
<1>2. ASSUME NEW p \in Join(rows, dims, "left")
      PROVE  \E r \in rows : Of(p) = Fact(r)
  <2>1. PICK r \in rows :
               \/ \E a \in dims : r.account # Null /\ r.account = a.account /\ p = <<r, a>>
               \/ ~Known(r) /\ p = <<r, Null>>
    BY <1>2, JoinIs
  <2>2. CASE \E a \in dims : r.account # Null /\ r.account = a.account /\ p = <<r, a>>
    <3>1. PICK a \in dims : r.account # Null /\ r.account = a.account /\ p = <<r, a>>
      BY <2>2
    <3>2. Known(r) /\ p[1] = r /\ p[2] = a /\ a # Null
      BY <3>1
    <3> HIDE DEF Known
    <3>3. QED
      BY <3>1, <3>2
  <2>3. CASE ~Known(r) /\ p = <<r, Null>>
    <3> HIDE DEF Known
    <3>1. QED
      BY <2>3
  <2>4. QED
    BY <2>1, <2>2, <2>3
<1>3. ASSUME NEW r \in rows
      PROVE  \E p \in Join(rows, dims, "left") : p[1] = r
  <2>1. CASE Known(r)
    <3>1. PICK a \in dims : r.account # Null /\ r.account = a.account
      BY <2>1
    <3>2. <<r, a>> \in Join(rows, dims, "left")
      BY <3>1, JoinIs
    <3>3. QED
      BY <3>2
  <2>2. CASE ~Known(r)
    <3>1. <<r, Null>> \in Join(rows, dims, "left")
      BY <2>2, JoinIs
    <3>2. QED
      BY <3>1
  <2>3. QED
    BY <2>1, <2>2
<1>4. ASSUME NEW r \in rows, Known(r)
      PROVE  r.account \in Names(dims)
  BY <1>4 DEF Names
<1> HIDE DEF Known
<1>5. \A f \in Facts(rows, dims) : \E r \in rows : f = Fact(r)
  BY <1>1, <1>2
<1>6. TxnsOf(Facts(rows, dims)) = rows
  <2>1. TxnsOf(Facts(rows, dims)) \subseteq rows
    BY <1>5 DEF TxnsOf
  <2>2. rows \subseteq TxnsOf(Facts(rows, dims))
    <3>1. ASSUME NEW r \in rows
          PROVE  r \in TxnsOf(Facts(rows, dims))
      <4>1. PICK p \in Join(rows, dims, "left") : p[1] = r
        BY <1>3
      <4>2. Of(p) \in Facts(rows, dims) /\ Of(p).txn = r
        BY <1>1, <4>1
      <4> HIDE DEF Of
      <4>3. QED
        BY <4>2 DEF TxnsOf
    <3>2. QED
      BY <3>1
  <2>3. QED
    BY <2>1, <2>2
<1>7. KeysIn(Facts(rows, dims), Names(dims))
  BY <1>4, <1>5 DEF KeysIn
<1>8. \A f, g \in Facts(rows, dims) : f.txn = g.txn => f = g
  BY <1>5
<1>9. QED
  BY <1>6, <1>7, <1>8

-----------------------------------------------------------------------------
(* The daily summary.                                                      *)

\* The sums of the code's frames are sums of functions.
LEMMA TotalIsSum ==
  ASSUME NEW rows, NEW w, \A r \in Priced(rows) : w[r] = r.amount
  PROVE  Total(rows) = Sum(w, Priced(rows))
<1> DEFINE top == Priced(rows)
           StepOf(it) == [t \in SUBSET top |->
                            IF t = {} THEN 0 ELSE Some(t).amount + it[t \ {Some(t)}]]
<1>1. Total(rows) = (CHOOSE it : it = StepOf(it))[top]
  BY DEF Total, MapThenSumSet, MapThenFoldSet, Some
<1> HIDE DEF top
<1>2. ASSUME NEW it
      PROVE  StepOf(it) = Step(w, top, it)
  <2>1. ASSUME NEW t \in SUBSET top, t # {}
        PROVE  w[Some(t)] = Some(t).amount
    BY <2>1, SomeIn DEF top
  <2>2. QED
    BY <2>1 DEF Step
<1>3. (CHOOSE it : it = StepOf(it)) = Folded(w, top)
  <2> HIDE DEF StepOf
  <2>1. QED
    BY <1>2 DEF Folded
<1>4. QED
  BY <1>1, <1>3, SumIsFolded DEF top

CountOf(daily)  == MapThenSumSet(LAMBDA k : daily[k].txn_count, DOMAIN daily)
AmountOf(daily) == MapThenSumSet(LAMBDA k : daily[k].total_amount, DOMAIN daily)

LEMMA CountsAreSum ==
  ASSUME NEW daily, NEW w, \A k \in DOMAIN daily : w[k] = daily[k].txn_count
  PROVE  CountOf(daily) = Sum(w, DOMAIN daily)
<1> DEFINE keys == DOMAIN daily
           StepOf(it) == [t \in SUBSET keys |->
                  IF t = {} THEN 0 ELSE daily[Some(t)].txn_count + it[t \ {Some(t)}]]
<1>1. CountOf(daily) = (CHOOSE it : it = StepOf(it))[keys]
  BY DEF CountOf, MapThenSumSet, MapThenFoldSet, Some
<1>2. ASSUME NEW it
      PROVE  StepOf(it) = Step(w, keys, it)
  <2>1. ASSUME NEW t \in SUBSET keys, t # {}
        PROVE  w[Some(t)] = daily[Some(t)].txn_count
    BY <2>1, SomeIn
  <2>2. QED
    BY <2>1 DEF Step
<1>3. (CHOOSE it : it = StepOf(it)) = Folded(w, keys)
  <2> HIDE DEF StepOf
  <2>1. QED
    BY <1>2 DEF Folded
<1>4. QED
  BY <1>1, <1>3, SumIsFolded

LEMMA TotalsAreSum ==
  ASSUME NEW daily, NEW w, \A k \in DOMAIN daily : w[k] = daily[k].total_amount
  PROVE  AmountOf(daily) = Sum(w, DOMAIN daily)
<1> DEFINE keys == DOMAIN daily
           StepOf(it) == [t \in SUBSET keys |->
                  IF t = {} THEN 0 ELSE daily[Some(t)].total_amount + it[t \ {Some(t)}]]
<1>1. AmountOf(daily) = (CHOOSE it : it = StepOf(it))[keys]
  BY DEF AmountOf, MapThenSumSet, MapThenFoldSet, Some
<1>2. ASSUME NEW it
      PROVE  StepOf(it) = Step(w, keys, it)
  <2>1. ASSUME NEW t \in SUBSET keys, t # {}
        PROVE  w[Some(t)] = daily[Some(t)].total_amount
    BY <2>1, SomeIn
  <2>2. QED
    BY <2>1 DEF Step
<1>3. (CHOOSE it : it = StepOf(it)) = Folded(w, keys)
  <2> HIDE DEF StepOf
  <2>1. QED
    BY <1>2 DEF Folded
<1>4. QED
  BY <1>1, <1>3, SumIsFolded

\* The daily summary counts the rows, and adds up their amounts.
LEMMA DailyReconciles ==
  ASSUME NEW rows, IsFiniteSet(rows), \A r \in rows : r.amount \in Int,
         NEW daily, daily = AggregateDaily(rows)
  PROVE  CountOf(daily) = Cardinality(rows) /\ AmountOf(daily) = Total(rows)
<1> DEFINE Key(r) == <<DateOf(r), r.currency>>
           keys == {Key(r) : r \in rows}
           K == [r \in rows |-> Key(r)]
           Group(k) == {r \in rows : K[r] = k}
           ones == [r \in rows |-> 1]
           amounts == [r \in rows |-> r.amount]
           counts == [k \in keys |-> Sum(ones, Group(k))]
           totals == [k \in keys |-> Sum(amounts, Group(k))]
<1>1. ASSUME NEW part \in SUBSET rows
      PROVE  /\ IsFiniteSet(part) /\ Priced(part) = part
             /\ Total(part) = Sum(amounts, part) /\ Cardinality(part) = Sum(ones, part)
  <2>1. IsFiniteSet(part)
    BY FS_Subset
  <2>2. Priced(part) = part
    BY FrameAssumption DEF Priced
  <2>3. \A r \in part : amounts[r] = r.amount /\ ones[r] = 1
    OBVIOUS
  <2> HIDE DEF amounts, ones
  <2>4. Total(part) = Sum(amounts, part)
    BY <2>2, <2>3, TotalIsSum
  <2>5. Cardinality(part) = Sum(ones, part)
    BY <2>1, <2>3, CountIsSum
  <2>6. QED
    BY <2>1, <2>2, <2>4, <2>5
<1>2. DOMAIN daily = keys
  BY DEF AggregateDaily
<1>3. ASSUME NEW k \in keys
      PROVE  daily[k].txn_count = counts[k] /\ daily[k].total_amount = totals[k]
  <2>1. Group(k) = {r \in rows : Key(r) = k} /\ Group(k) # {} /\ Group(k) \in SUBSET rows
    OBVIOUS
  <2>2. daily[k] = IF Priced(Group(k)) = {}
                     THEN [Measures(Group(k)) EXCEPT !.total_amount = Null]
                     ELSE Measures(Group(k))
    BY <2>1 DEF AggregateDaily
  <2>3. counts[k] = Sum(ones, Group(k)) /\ totals[k] = Sum(amounts, Group(k))
    OBVIOUS
  <2> HIDE DEF Group, counts, totals, ones, amounts
  <2>4. daily[k] = Measures(Group(k))
    BY <1>1, <2>1, <2>2
  <2>5. daily[k].txn_count = Cardinality(Group(k)) /\ daily[k].total_amount = Total(Group(k))
    BY <2>4 DEF Measures
  <2>6. QED
    BY <1>1, <2>1, <2>3, <2>5
<1>4. IsFiniteSet(keys)
  <2>1. K \in Surjection(rows, keys)
    BY DEF Surjection
  <2>2. QED
    BY <2>1, FS_Surjection
<1>5. /\ \A r \in rows : K[r] \in keys
      /\ \A r \in rows : ones[r] \in Int /\ amounts[r] \in Int
  OBVIOUS
<1>6. Sum(counts, keys) = Sum(ones, rows) /\ Sum(totals, keys) = Sum(amounts, rows)
  <2> HIDE DEF K, keys, ones, amounts
  <2>1. QED
    BY <1>4, <1>5, SumByGroups
<1>7. rows \in SUBSET rows
  OBVIOUS
<1> HIDE DEF counts, totals, keys, ones, amounts
<1>8. CountOf(daily) = Sum(counts, keys) /\ AmountOf(daily) = Sum(totals, keys)
  BY <1>2, <1>3, CountsAreSum, TotalsAreSum
<1>9. QED
  BY <1>1, <1>2, <1>6, <1>7, <1>8

-----------------------------------------------------------------------------
(* Each step keeps the invariant.                                          *)

\* Where the first job writes.
InSilver == at \in {"clearSilver", "writeSilver", "quarantine"}

LEMMA SilverUntouched ==
  ASSUME SilverInv, BronzeAccountedFor, UNCHANGED <<silver, quarantine, input, bronze>>,
         ~InSilver' \/ UNCHANGED <<at, txn>>
  PROVE  SilverInv' /\ BronzeAccountedFor'
<1>1. BronzeAccountedFor'
  BY DEF BronzeAccountedFor
<1>2. SilverInv'
  <2>1. CASE ~InSilver'
    BY <2>1 DEF SilverInv, InSilver
  <2>2. CASE UNCHANGED <<at, txn>>
    BY <2>2 DEF SilverInv
  <2>3. QED
    BY <2>1, <2>2
<1>3. QED
  BY <1>1, <1>2

LEMMA GoldUntouched ==
  ASSUME GoldInv, UNCHANGED <<gold, whole>>, accounts \subseteq accounts',
         accounts' \subseteq Accounts, ~InGold' \/ UNCHANGED <<at, table, txn, accs>>
  PROVE  GoldInv'
<1>1. /\ Names(accounts) \subseteq Names(accounts')
      /\ gold.fact_transaction # Null => KeysIn(gold.fact_transaction, Names(accounts'))
  BY DEF Names, KeysIn, GoldInv
<1>2. CASE ~InGold'
  BY <1>1, <1>2 DEF GoldInv, InGold
<1>3. CASE UNCHANGED <<at, table, txn, accs>>
  <2>1. InGold' <=> InGold
    BY <1>3 DEF InGold
  <2>2. InGold => accs \subseteq accounts'
    BY DEF GoldInv
  <2>3. QED
    BY <1>1, <1>3, <2>1, <2>2 DEF GoldInv
<1>4. QED
  BY <1>2, <1>3

LEMMA BesideStep ==
  ASSUME GlueInv,
         \/ \E r \in RawRows \ bronze : Land(r)
         \/ \E a \in Accounts \ accounts : WriteAccount(a)
         \/ TimePasses
  PROVE  GlueInv'
<1>1. SilverInv /\ BronzeAccountedFor /\ GoldInv /\ accounts \subseteq Accounts
  BY DEF GlueInv, GoldInv
<1>2. CASE \E r \in RawRows \ bronze : Land(r)
  <2>1. PICK r \in RawRows \ bronze : Land(r)
    BY <1>2
  <2>2. /\ bronze' = bronze \cup {r}
        /\ UNCHANGED <<accounts, silver, quarantine, gold, input, whole, at, table, txn, accs>>
    BY <2>1 DEF Land, zones, job
  <2>3. bronze' \subseteq RawRows /\ IsFiniteSet(bronze')
    BY <1>1, <2>2, FS_AddElement DEF SilverInv
  <2>4. SilverInv'
    BY <1>1, <2>2, <2>3 DEF SilverInv
  <2>5. BronzeAccountedFor'
    BY <1>1, <2>2 DEF BronzeAccountedFor
  <2>6. GoldInv'
    BY <1>1, <2>2, GoldUntouched
  <2>7. QED
    BY <2>4, <2>5, <2>6 DEF GlueInv
<1>3. CASE \E a \in Accounts \ accounts : WriteAccount(a)
  <2>1. PICK a \in Accounts \ accounts : WriteAccount(a)
    BY <1>3
  <2>2. /\ accounts' = accounts \cup {a}
        /\ UNCHANGED <<bronze, silver, quarantine, gold, input, whole, at, table, txn, accs>>
    BY <2>1 DEF WriteAccount, zones, job
  <2>3. SilverInv' /\ BronzeAccountedFor'
    BY <1>1, <2>2, SilverUntouched
  <2>4. GoldInv'
    BY <1>1, <2>2, GoldUntouched
  <2>5. QED
    BY <2>3, <2>4 DEF GlueInv
<1>4. CASE TimePasses
  <2>1. UNCHANGED <<bronze, accounts, silver, quarantine, gold, input, whole, at, table, txn,
                    accs>>
    BY <1>4 DEF TimePasses, zones, job
  <2>2. SilverInv' /\ BronzeAccountedFor' /\ GoldInv'
    BY <1>1, <2>1, SilverUntouched, GoldUntouched
  <2>3. QED
    BY <2>2 DEF GlueInv
<1>5. QED
  BY <1>2, <1>3, <1>4

LEMMA StartStep ==
  ASSUME GlueInv, Start
  PROVE  GlueInv'
<1>1. SilverInv /\ BronzeAccountedFor /\ GoldInv /\ accounts \subseteq Accounts
  BY DEF GlueInv, GoldInv
<1>2. /\ at' = "clearSilver" /\ txn' = CastTypes(bronze)
      /\ UNCHANGED <<bronze, accounts, silver, quarantine, gold, input, whole>>
  BY DEF Start, Goto, Read, zones
<1>3. IsFiniteSet(CastTypes(bronze)) /\ \A r \in CastTypes(bronze) : TypedRow(r)
  <2>1. IsFiniteSet(bronze) /\ \A r \in bronze : RawRow(r)
    BY <1>1, GlueAssumption DEF SilverInv
  <2>2. QED
    BY <2>1, CastIsTyped
<1>4. SilverInv'
  BY <1>1, <1>2, <1>3 DEF SilverInv
<1>5. BronzeAccountedFor'
  BY <1>1, <1>2 DEF BronzeAccountedFor
<1>6. GoldInv'
  <2>1. ~InGold'
    BY <1>2 DEF InGold
  <2>2. QED
    BY <1>1, <1>2, <2>1, GoldUntouched
<1>7. QED
  BY <1>4, <1>5, <1>6 DEF GlueInv

LEMMA NothingIsOneOfEach == OneOfEach({})
BY FS_EmptySet DEF OneOfEach

LEMMA ClearSilverStep ==
  ASSUME GlueInv, ClearSilver
  PROVE  GlueInv'
<1>1. SilverInv /\ BronzeAccountedFor /\ GoldInv /\ accounts \subseteq Accounts
  BY DEF GlueInv, GoldInv
<1>2. /\ at = "clearSilver" /\ at' = "writeSilver" /\ silver' = {} /\ input' = {}
      /\ UNCHANGED <<bronze, accounts, quarantine, gold, whole, table, txn, accs>>
  BY DEF ClearSilver, Goto
<1>3. SilverInv'
  BY <1>1, <1>2, NothingIsOneOfEach DEF SilverInv
<1>4. BronzeAccountedFor'
  BY <1>2 DEF BronzeAccountedFor
<1>5. GoldInv'
  <2>1. ~InGold'
    BY <1>2 DEF InGold
  <2>2. QED
    BY <1>1, <1>2, <2>1, GoldUntouched
<1>6. QED
  BY <1>3, <1>4, <1>5 DEF GlueInv

LEMMA WriteSilverStep ==
  ASSUME GlueInv, WriteSilver
  PROVE  GlueInv'
<1>1. SilverInv /\ BronzeAccountedFor /\ GoldInv /\ accounts \subseteq Accounts
  BY DEF GlueInv, GoldInv
<1>2. /\ at = "writeSilver" /\ at' = "quarantine"
      /\ silver' \in Deduplicate(FilterValidTransactions(txn))
      /\ UNCHANGED <<bronze, accounts, quarantine, gold, input, whole, table, txn, accs>>
  BY DEF WriteSilver, Goto
<1>3. IsFiniteSet(txn) /\ (\A r \in txn : TypedRow(r)) /\ input = {}
  BY <1>1, <1>2 DEF SilverInv
<1> DEFINE valid == FilterValidTransactions(txn)
<1>4. /\ valid \in SUBSET txn
      /\ \A r \in valid : r.amount # Null /\ TypedRow(r)
  BY <1>3 DEF FilterValidTransactions
<1>5. \A r \in valid : RawRow(r) /\ r.amount \in Int
  BY <1>4 DEF TypedRow, RawRow
<1> HIDE DEF valid
<1>6. IsFiniteSet(valid)
  BY <1>3, <1>4, FS_Subset
<1>7. /\ silver' \subseteq valid /\ IsFiniteSet(silver')
      /\ \A r, s \in silver' : r.id = s.id => r = s
      /\ \A r \in valid : NotOlderIn(silver', r)
  BY <1>2, <1>5, <1>6, DeduplicateKeepsNewest DEF valid
<1>8. OneOfEach(silver')
  BY <1>5, <1>7 DEF OneOfEach
<1>9. SilverInv'
  BY <1>1, <1>2, <1>3, <1>7, <1>8 DEF SilverInv, valid
<1>10. BronzeAccountedFor'
  BY <1>2, <1>3 DEF BronzeAccountedFor
<1>11. GoldInv'
  <2>1. ~InGold'
    BY <1>2 DEF InGold
  <2>2. QED
    BY <1>1, <1>2, <2>1, GoldUntouched
<1>12. QED
  BY <1>9, <1>10, <1>11 DEF GlueInv

LEMMA WriteQuarantineStep ==
  ASSUME GlueInv, WriteQuarantine
  PROVE  GlueInv'
<1>1. SilverInv /\ BronzeAccountedFor /\ GoldInv /\ accounts \subseteq Accounts
  BY DEF GlueInv, GoldInv
<1>2. /\ at = "quarantine" /\ at' = "readSilver"
      /\ quarantine' = quarantine \cup Failing(txn) /\ input' = txn
      /\ UNCHANGED <<bronze, accounts, silver, gold, whole>>
  BY DEF WriteQuarantine, Goto
<1>3. /\ \A r \in txn : TypedRow(r)
      /\ \A r \in FilterValidTransactions(txn) : NotOlderIn(silver, r)
  BY <1>1, <1>2 DEF SilverInv
<1>4. SilverInv'
  BY <1>1, <1>2 DEF SilverInv
<1>5. BronzeAccountedFor'
  <2>1. ASSUME NEW r \in txn
        PROVE  \/ r \in quarantine'
               \/ NotOlderIn(silver, r)
               \/ r.amount = Null \/ r.status \in {Null, "REVERSED"}
    <3>1. \/ r \in Failing(txn)
          \/ r \in FilterValidTransactions(txn)
          \/ r.amount = Null \/ r.status \in {Null, "REVERSED"}
      BY <1>3, FilterOrRules
    <3>2. QED
      BY <1>2, <1>3, <3>1
  <2>2. QED
    BY <1>2, <2>1 DEF BronzeAccountedFor, NotOlderIn
<1>6. GoldInv'
  <2>1. ~InGold'
    BY <1>2 DEF InGold
  <2>2. QED
    BY <1>1, <1>2, <2>1, GoldUntouched
<1>7. QED
  BY <1>4, <1>5, <1>6 DEF GlueInv

LEMMA JobEndsStep ==
  ASSUME GlueInv, JobEnds \/ (ReadSilver /\ silver = {})
  PROVE  GlueInv'
<1>1. SilverInv /\ BronzeAccountedFor /\ GoldInv /\ accounts \subseteq Accounts
  BY DEF GlueInv, GoldInv
<1>2. at' = "idle" /\ UNCHANGED <<bronze, accounts, silver, quarantine, gold, input, whole>>
  BY DEF JobEnds, ReadSilver, EndJob, Goto, zones
<1>3. ~InSilver' /\ ~InGold'
  BY <1>2 DEF InSilver, InGold
<1>4. SilverInv' /\ BronzeAccountedFor' /\ GoldInv'
  BY <1>1, <1>2, <1>3, SilverUntouched, GoldUntouched
<1>5. QED
  BY <1>4 DEF GlueInv

LEMMA ReadSilverStep ==
  ASSUME GlueInv, ReadSilver, silver # {}
  PROVE  GlueInv'
<1>1. SilverInv /\ BronzeAccountedFor /\ GoldInv /\ accounts \subseteq Accounts
  BY DEF GlueInv, GoldInv
<1>2. /\ at' = "clearGold" /\ txn' = silver /\ accs' = accounts /\ table' = 1
      /\ UNCHANGED <<bronze, accounts, silver, quarantine, gold, input, whole>>
  BY DEF ReadSilver, Goto, Read, zones
<1>3. ~InSilver'
  BY <1>2 DEF InSilver
<1>4. SilverInv' /\ BronzeAccountedFor'
  BY <1>1, <1>2, <1>3, SilverUntouched
<1>5. OneOfEach(silver)
  BY <1>1 DEF SilverInv
<1>6. GoldInv'
  BY <1>1, <1>2, <1>5 DEF GoldInv
<1>7. QED
  BY <1>4, <1>6 DEF GlueInv

LEMMA OrderOfGold ==
  /\ GoldOrder[1] = "dim_account" /\ GoldOrder[2] = "fact_transaction"
  /\ GoldOrder[3] = "daily_transaction_summary" /\ Len(GoldOrder) = 3
  /\ DOMAIN GoldOrder = 1..3
BY DEF GoldOrder

LEMMA ClearGoldStep ==
  ASSUME GlueInv, ClearGold
  PROVE  GlueInv'
<1>1. SilverInv /\ BronzeAccountedFor /\ GoldInv
  BY DEF GlueInv
<1>2. /\ at = "clearGold" /\ at' = "writeGold" /\ whole' = FALSE
      /\ gold' = [gold EXCEPT ![GoldOrder[table]] = Null]
      /\ UNCHANGED <<bronze, accounts, silver, quarantine, input, table, txn, accs>>
  BY DEF ClearGold, Goto
<1>3. InGold /\ InGold' /\ ~InSilver'
  BY <1>2 DEF InGold, InSilver
<1>4. SilverInv' /\ BronzeAccountedFor'
  BY <1>1, <1>2, <1>3, SilverUntouched
<1>5. /\ table \in 1..3 /\ OneOfEach(txn) /\ accs \subseteq accounts
      /\ accounts \subseteq Accounts
      /\ gold = [d \in {"dim_account", "fact_transaction", "daily_transaction_summary"}
                    |-> gold[d]]
  BY <1>1, <1>3 DEF GoldInv
<1>6. CASE table = 1
  <2>1. /\ gold' = [gold EXCEPT !["dim_account"] = Null]
        /\ gold'.dim_account = Null /\ gold'.fact_transaction = gold.fact_transaction
        /\ gold' = [d \in {"dim_account", "fact_transaction", "daily_transaction_summary"}
                       |-> gold'[d]]
    BY <1>2, <1>5, <1>6, OrderOfGold
  <2>2. QED
    BY <1>1, <1>2, <1>3, <1>4, <1>5, <1>6, <2>1 DEF GoldInv, GlueInv
<1>7. CASE table = 2
  <2>1. /\ gold' = [gold EXCEPT !["fact_transaction"] = Null]
        /\ gold'.dim_account = gold.dim_account /\ gold'.fact_transaction = Null
        /\ gold' = [d \in {"dim_account", "fact_transaction", "daily_transaction_summary"}
                       |-> gold'[d]]
    BY <1>2, <1>5, <1>7, OrderOfGold
  <2>2. QED
    BY <1>1, <1>2, <1>3, <1>4, <1>5, <1>7, <2>1 DEF GoldInv, GlueInv
<1>8. CASE table = 3
  <2>1. /\ gold' = [gold EXCEPT !["daily_transaction_summary"] = Null]
        /\ gold'.dim_account = gold.dim_account
        /\ gold'.fact_transaction = gold.fact_transaction
        /\ gold' = [d \in {"dim_account", "fact_transaction", "daily_transaction_summary"}
                       |-> gold'[d]]
    BY <1>2, <1>5, <1>8, OrderOfGold
  <2>2. QED
    BY <1>1, <1>2, <1>3, <1>4, <1>5, <1>8, <2>1 DEF GoldInv, GlueInv
<1>9. QED
  BY <1>5, <1>6, <1>7, <1>8

LEMMA WriteGoldStep ==
  ASSUME GlueInv, WriteGold
  PROVE  GlueInv'
<1>1. SilverInv /\ BronzeAccountedFor /\ GoldInv
  BY DEF GlueInv
<1>2. /\ at = "writeGold" /\ gold' = [gold EXCEPT ![GoldOrder[table]] = GoldFrame]
      /\ UNCHANGED <<bronze, accounts, silver, quarantine, input>>
      /\ IF table < 3
           THEN at' = "clearGold" /\ table' = table + 1 /\ UNCHANGED <<whole, txn, accs>>
           ELSE at' = "idle" /\ whole' = TRUE
  BY OrderOfGold DEF WriteGold, Goto, EndJob
<1>3. InGold /\ ~InSilver'
  BY <1>2 DEF InGold, InSilver
<1>4. SilverInv' /\ BronzeAccountedFor'
  BY <1>1, <1>2, <1>3, SilverUntouched
<1>5. /\ table \in 1..3 /\ OneOfEach(txn) /\ accs \subseteq accounts
      /\ accounts \subseteq Accounts
      /\ gold = [d \in {"dim_account", "fact_transaction", "daily_transaction_summary"}
                    |-> gold[d]]
  BY <1>1, <1>3 DEF GoldInv
<1>6. /\ TxnsOf(Facts(txn, accs)) = txn
      /\ KeysIn(Facts(txn, accs), Names(accs))
      /\ \A f, g \in Facts(txn, accs) : f.txn = g.txn => f = g
  BY <1>5, FactsAre, GlueAssumption
<1>7. Names(accs) \subseteq Names(accounts)
  BY <1>5 DEF Names
<1>8. CASE table = 1
  <2>1. GoldFrame = Names(accs)
    BY <1>8, OrderOfGold DEF GoldFrame, Names
  <2>2. /\ gold' = [gold EXCEPT !["dim_account"] = Names(accs)]
        /\ gold'.dim_account = Names(accs) /\ gold'.fact_transaction = gold.fact_transaction
        /\ gold'.daily_transaction_summary = gold.daily_transaction_summary
        /\ gold' = [d \in {"dim_account", "fact_transaction", "daily_transaction_summary"}
                       |-> gold'[d]]
    BY <1>2, <1>5, <1>8, <2>1, OrderOfGold
  <2>3. InGold' /\ table' = 2 /\ UNCHANGED <<whole, txn, accs>>
    BY <1>2, <1>8 DEF InGold
  <2>4. QED
    BY <1>1, <1>2, <1>3, <1>4, <1>5, <2>2, <2>3 DEF GoldInv, GlueInv
<1>9. CASE table = 2
  <2>1. GoldFrame = Facts(txn, accs)
    BY <1>9, OrderOfGold DEF GoldFrame, Facts
  <2>2. /\ gold' = [gold EXCEPT !["fact_transaction"] = Facts(txn, accs)]
        /\ gold'.dim_account = gold.dim_account
        /\ gold'.fact_transaction = Facts(txn, accs)
        /\ gold'.daily_transaction_summary = gold.daily_transaction_summary
        /\ gold' = [d \in {"dim_account", "fact_transaction", "daily_transaction_summary"}
                       |-> gold'[d]]
    BY <1>2, <1>5, <1>9, <2>1, OrderOfGold
  <2>3. InGold' /\ table' = 3 /\ UNCHANGED <<whole, txn, accs>>
    BY <1>2, <1>9 DEF InGold
  <2>4. gold.dim_account = Names(accs)
    BY <1>1, <1>3, <1>9 DEF GoldInv
  <2>5. KeysIn(Facts(txn, accs), Names(accounts))
    BY <1>6, <1>7 DEF KeysIn
  <2>6. whole = FALSE
    BY <1>1, <1>2 DEF GoldInv
  <2>7. QED
    BY <1>1, <1>2, <1>3, <1>4, <1>5, <1>6, <2>2, <2>3, <2>4, <2>5, <2>6 DEF GoldInv, GlueInv
<1>10. CASE table = 3
  <2>1. GoldFrame = AggregateDaily(txn)
    BY <1>10, OrderOfGold DEF GoldFrame
  <2>2. /\ gold' = [gold EXCEPT !["daily_transaction_summary"] = AggregateDaily(txn)]
        /\ gold'.dim_account = gold.dim_account
        /\ gold'.fact_transaction = gold.fact_transaction
        /\ gold'.daily_transaction_summary = AggregateDaily(txn)
        /\ gold' = [d \in {"dim_account", "fact_transaction", "daily_transaction_summary"}
                       |-> gold'[d]]
    BY <1>2, <1>5, <1>10, <2>1, OrderOfGold
  <2>3. ~InGold' /\ whole' = TRUE
    BY <1>2, <1>10 DEF InGold
  <2>4. gold.fact_transaction = Facts(txn, accs)
    BY <1>1, <1>3, <1>10 DEF GoldInv
  <2>5. \A f, g \in Facts(txn, accs) : f.txn.id = g.txn.id => f = g
    <3>1. SUFFICES ASSUME NEW f \in Facts(txn, accs), NEW g \in Facts(txn, accs),
                          f.txn.id = g.txn.id
                   PROVE  f = g
      OBVIOUS
    <3>2. f.txn \in txn /\ g.txn \in txn
      BY <1>6 DEF TxnsOf
    <3>3. f.txn = g.txn
      BY <1>5, <3>1, <3>2 DEF OneOfEach
    <3>4. QED
      BY <1>6, <3>3
  <2>6. QED
    BY <1>1, <1>2, <1>4, <1>5, <1>6, <2>2, <2>3, <2>4, <2>5 DEF GoldInv, GlueInv
<1>11. QED
  BY <1>5, <1>8, <1>9, <1>10

-----------------------------------------------------------------------------
(* The theorems about the jobs.                                            *)

\* Whatever lands, and wherever the jobs end early: silver and quarantine stand for the
\* rows that the first job has read, and the gold tables for those that the second has.
THEOREM GlueInvariant == GlueSpec => []GlueInv
<1>1. GlueInit => GlueInv
  <2>1. SUFFICES ASSUME GlueInit PROVE GlueInv
    OBVIOUS
  <2>2. /\ bronze = {} /\ silver = {} /\ at = "idle" /\ input = {} /\ whole = FALSE
        /\ accounts \subseteq Accounts
        /\ gold = [d \in {GoldOrder[i] : i \in DOMAIN GoldOrder} |-> Null]
    BY <2>1 DEF GlueInit
  <2>3. {GoldOrder[i] : i \in DOMAIN GoldOrder}
           = {"dim_account", "fact_transaction", "daily_transaction_summary"}
    <3>1. \A i \in 1..3 : i = 1 \/ i = 2 \/ i = 3
      OBVIOUS
    <3>2. 1 \in 1..3 /\ 2 \in 1..3 /\ 3 \in 1..3
      OBVIOUS
    <3>3. QED
      BY <3>1, <3>2, OrderOfGold
  <2>4. SilverInv
    BY <2>2, FS_EmptySet, NothingIsOneOfEach DEF SilverInv
  <2>5. BronzeAccountedFor
    BY <2>2 DEF BronzeAccountedFor
  <2>6. GoldInv
    BY <2>2, <2>3 DEF GoldInv, InGold
  <2>7. QED
    BY <2>4, <2>5, <2>6 DEF GlueInv
<1>2. GlueInv /\ [GlueNext]_glueVars => GlueInv'
  <2>1. SUFFICES ASSUME GlueInv, [GlueNext]_glueVars PROVE GlueInv'
    OBVIOUS
  <2>2. CASE \/ \E r \in RawRows \ bronze : Land(r)
             \/ \E a \in Accounts \ accounts : WriteAccount(a)
             \/ TimePasses
    BY <2>1, <2>2, BesideStep
  <2>3. CASE WorkflowStep \/ JobEnds
    BY <2>1, <2>3, StartStep, ClearSilverStep, WriteSilverStep, WriteQuarantineStep,
       ReadSilverStep, JobEndsStep, ClearGoldStep, WriteGoldStep DEF WorkflowStep
  <2>4. CASE UNCHANGED glueVars
    <3>1. UNCHANGED <<bronze, accounts, silver, quarantine, gold, input, whole, at, table,
                      txn, accs>>
      BY <2>4 DEF glueVars, zones, job
    <3>2. SilverInv /\ BronzeAccountedFor /\ GoldInv /\ accounts \subseteq Accounts
      BY <2>1 DEF GlueInv, GoldInv
    <3>3. SilverInv' /\ BronzeAccountedFor' /\ GoldInv'
      BY <3>1, <3>2, SilverUntouched, GoldUntouched
    <3>4. QED
      BY <3>3 DEF GlueInv
  <2>5. QED
    BY <2>1, <2>2, <2>3, <2>4 DEF GlueNext
<1>3. QED
  BY <1>1, <1>2, PTL DEF GlueSpec

\* Once both tables are written, each row of bronze is in quarantine, or silver has it or
\* a version that is not older, but for the rows that the two tests leave out.
THEOREM BronzeIsAccountedFor == GlueSpec => []BronzeAccountedFor
<1>1. GlueInv => BronzeAccountedFor
  BY DEF GlueInv
<1>2. QED
  BY <1>1, GlueInvariant, PTL

\* The star schema holds together after every step, and after a whole run the summary
\* counts the facts and adds up their amounts, whatever the rows.
THEOREM GoldIsReconciled == GlueSpec => []GoldReconciles
<1>1. GlueInv => GoldReconciles
  <2>1. SUFFICES ASSUME GlueInv PROVE GoldReconciles
    OBVIOUS
  <2> DEFINE facts == gold.fact_transaction
             daily == gold.daily_transaction_summary
  <2>2. (facts # Null /\ gold.dim_account # Null) =>
           \A f \in facts : f.account_sk # Null => f.account_sk \in gold.dim_account
    BY <2>1 DEF GlueInv, GoldInv, KeysIn
  <2>3. ASSUME whole
        PROVE  /\ \A f, g \in facts : f.txn.id = g.txn.id => f = g
               /\ CountOf(daily) = Cardinality(facts)
               /\ AmountOf(daily) = Total({f.txn : f \in facts})
    <3>1. /\ \A f, g \in facts : f.txn.id = g.txn.id => f = g
          /\ OneOfEach(TxnsOf(facts)) /\ daily = AggregateDaily(TxnsOf(facts))
      BY <2>1, <2>3 DEF GlueInv, GoldInv
    <3>2. CountOf(daily) = Cardinality(TxnsOf(facts)) /\ AmountOf(daily) = Total(TxnsOf(facts))
      <4>1. IsFiniteSet(TxnsOf(facts)) /\ \A r \in TxnsOf(facts) : r.amount \in Int
        BY <3>1 DEF OneOfEach
      <4> HIDE DEF facts, daily
      <4>2. QED
        BY <3>1, <4>1, DailyReconciles
    <3>3. Cardinality(TxnsOf(facts)) = Cardinality(facts)
      <4> DEFINE h == [f \in facts |-> f.txn]
      <4>1. IsFiniteSet(TxnsOf(facts))
        BY <3>1 DEF OneOfEach
      <4>2. h \in [facts -> TxnsOf(facts)] /\ \A f, g \in facts : h[f] = h[g] => f = g
        BY <3>1 DEF TxnsOf
      <4>3. \A r \in TxnsOf(facts) : \E f \in facts : h[f] = r
        BY DEF TxnsOf
      <4> HIDE DEF h, facts
      <4>4. h \in Injection(facts, TxnsOf(facts)) /\ h \in Surjection(facts, TxnsOf(facts))
        BY <4>2, <4>3 DEF Injection, IsInjective, Surjection
      <4>5. QED
        BY <4>1, <4>4, FS_Injection
    <3>4. QED
      BY <3>1, <3>2, <3>3 DEF TxnsOf
  <2>4. QED
    BY <2>2, <2>3 DEF GoldReconciles, CountOf, AmountOf
<1>2. QED
  BY <1>1, GlueInvariant, PTL

-----------------------------------------------------------------------------
(* The two engines.                                                        *)

\* A frame is a finite set of rows as they land, each in a place of its own.
FrameInv ==
    /\ frame \subseteq FrameRows /\ IsFiniteSet(frame)
    /\ \A r, s \in frame : r.at = s.at => r = s

LEMMA TypedFrame ==
  ASSUME FrameInv
  PROVE  /\ typed = CastTypes(frame) /\ typed = S!CastTypes(frame)
         /\ IsFiniteSet(typed) /\ \A r \in typed : TypedRow(r)
<1>1. typed = CastTypes(frame) /\ typed = S!CastTypes(frame)
  BY DEF typed, P!CastTypes, S!CastTypes, CastTypes, P!Coerced, S!Coerced, Coerced
<1>2. IsFiniteSet(frame) /\ \A r \in frame : RawRow(r)
  BY AgreeAssumption DEF FrameInv
<1>3. QED
  BY <1>1, <1>2, CastIsTyped

\* An instance brings copies of the library's operators: they are the same ones.
LEMMA CopiesOfCardinality ==
  ASSUME NEW x
  PROVE  /\ S!Cardinality(x) = Cardinality(x)
         /\ W!Cardinality(x) = Cardinality(x)
         /\ P!Cardinality(x) = Cardinality(x)
         /\ Q!Cardinality(x) = Cardinality(x)
BY DEF S!Cardinality, W!Cardinality, P!Cardinality, Q!Cardinality, Cardinality

LEMMA CopiesOfOnePerKey ==
  ASSUME NEW df
  PROVE  /\ S!OnePerKey(df) = OnePerKey(df)
         /\ W!OnePerKey(df) = OnePerKey(df)
         /\ P!OnePerKey(df) = OnePerKey(df)
BY CopiesOfCardinality DEF S!OnePerKey, W!OnePerKey, P!OnePerKey, OnePerKey

LEMMA CopiesOfTotal ==
  ASSUME NEW rows
  PROVE  /\ S!Priced(rows) = Priced(rows) /\ S!Total(rows) = Total(rows)
         /\ W!Priced(rows) = Priced(rows) /\ W!Total(rows) = Total(rows)
         /\ P!Priced(rows) = Priced(rows) /\ P!Total(rows) = Total(rows)
BY DEF S!Total, W!Total, P!Total, Total, S!MapThenSumSet, W!MapThenSumSet, P!MapThenSumSet,
       MapThenSumSet, S!MapThenFoldSet, W!MapThenFoldSet, P!MapThenFoldSet, MapThenFoldSet,
       S!Priced, W!Priced, P!Priced, Priced

LEMMA CopiesOfEnds ==
  ASSUME NEW set
  PROVE  S!Min(set) = Min(set) /\ S!Max(set) = Max(set)
         /\ P!Min(set) = Min(set) /\ P!Max(set) = Max(set)
BY DEF S!Min, P!Min, Min, S!Max, P!Max, Max

LEMMA CopiesOfMeasures ==
  ASSUME NEW rows
  PROVE  S!Measures(rows) = Measures(rows) /\ P!Measures(rows) = Measures(rows)
BY CopiesOfCardinality, CopiesOfTotal, CopiesOfEnds DEF S!Measures, P!Measures, Measures

LEMMA FiltersAgree ==
  ASSUME NEW df
  PROVE  S!FilterValidTransactions(df) =
            {r \in P!FilterValidTransactions(df) : r.status # Null}
BY DEF S!FilterValidTransactions, P!FilterValidTransactions

LEMMA DeduplicationsAgree ==
  ASSUME NEW df
  PROVE  /\ (\A r \in df : r.updated # Null) => S!Deduplicate(df) = P!Deduplicate(df)
         /\ S!Deduplicate(df) = W!LatestCustomerRecord(df)
<1>1. S!Deduplicate(df) = W!LatestCustomerRecord(df)
  BY CopiesOfOnePerKey DEF S!Deduplicate, W!LatestCustomerRecord, S!NullsFirst, W!NullsFirst
<1>2. ASSUME \A r \in df : r.updated # Null
      PROVE  S!Deduplicate(df) = P!Deduplicate(df)
  <2> DEFINE last  == {r \in df : \A s \in df :
                         s.id = r.id => P!NullsLast(s.updated) <= P!NullsLast(r.updated)}
             first == {r \in df : \A s \in df :
                         s.id = r.id => S!NullsFirst(s.updated) <= S!NullsFirst(r.updated)}
  <2>1. \A r \in df : P!NullsLast(r.updated) = S!NullsFirst(r.updated)
    BY <1>2 DEF P!NullsLast, S!NullsFirst
  <2>2. last = first
    BY <2>1
  <2>3. S!Deduplicate(df) = S!OnePerKey(first) /\ P!Deduplicate(df) = P!OnePerKey(last)
    BY DEF S!Deduplicate, P!Deduplicate
  <2> HIDE DEF last, first
  <2>4. QED
    BY <2>2, <2>3, CopiesOfOnePerKey
<1>3. QED
  BY <1>1, <1>2

LEMMA SemiJoinsAgree ==
  ASSUME NEW df
  PROVE  /\ S!Join(df, AccountRows, "left_semi") = P!SemiJoin(df, AccountRows)
         /\ S!Join(df, AccountRows, "left_anti") = P!AntiJoin(df, AccountRows)
<1> DEFINE matched == {l \in df :
                         {r \in AccountRows : l.account # Null /\ l.account = r.account} # {}}
<1>1. S!Join(df, AccountRows, "left_semi") = matched
  BY DEF S!Join
<1>2. S!Join(df, AccountRows, "left_anti") = df \ matched
  BY DEF S!Join
<1>3. \A l \in df : l \in matched <=> \E r \in AccountRows : r.account = l.account
  BY AgreeAssumption
<1>4. matched \subseteq df
  OBVIOUS
<1> HIDE DEF matched
<1>5. matched = P!SemiJoin(df, AccountRows)
  BY <1>3, <1>4 DEF P!SemiJoin
<1>6. df \ matched = P!AntiJoin(df, AccountRows)
  BY <1>3, <1>4 DEF P!AntiJoin
<1>7. QED
  BY <1>1, <1>2, <1>5, <1>6

LEMMA AccountsAgree ==
  ASSUME NEW df, NEW r, r.account # Null
  PROVE  S!Account(df, r) = W!Account(df, r)
BY DEF S!Account, W!Account

LEMMA RanksAgree ==
  ASSUME NEW df, NEW r \in df, r.account # Null, r.amount # Null
  PROVE  S!RankTransactions(df)[r] = W!RankTransactions(df)[r]
<1> DEFINE SAbove == {s \in S!Priced(S!Account(df, r)) :
                        r.amount = Null \/ s.amount > r.amount}
           WAbove == {s \in W!Priced(W!Account(df, r)) : s.amount > r.amount}
<1>1. SAbove = WAbove
  BY AccountsAgree DEF S!Priced, W!Priced
<1>2. S!RankTransactions(df)[r] =
         [amount_rank |-> 1 + Cardinality(SAbove),
          amount_dense_rank |-> 1 + Cardinality({s.amount : s \in SAbove})]
  BY CopiesOfCardinality DEF S!RankTransactions
<1>3. W!RankTransactions(df)[r] =
         [amount_rank |-> 1 + Cardinality(WAbove),
          amount_dense_rank |-> 1 + Cardinality({s.amount : s \in WAbove})]
  BY CopiesOfCardinality DEF W!RankTransactions
<1> HIDE DEF SAbove, WAbove
<1>4. QED
  BY <1>1, <1>2, <1>3

\* Where the rows of an account have a time, both sort them in one way.
LEMMA OrdersAgree ==
  ASSUME NEW r, NEW s, r.ts # Null, s.ts # Null
  PROVE  S!Before(r, s) <=> W!Before(r, s)
BY DEF S!Before, W!Before, S!NullsFirst, W!NullsLast

LEMMA LagsAgree ==
  ASSUME NEW df, NEW r \in df, r.account # Null, \A s \in S!Account(df, r) : s.ts # Null
  PROVE  /\ S!LagLead(df)[r].prev_amount = W!PreviousTransaction(df)[r]
         /\ S!LagLead(df)[r].next_amount = W!NextTransaction(df)[r]
<1> DEFINE rows == S!Account(df, r)
           earlier == {s \in rows : S!Before(s, r)}
           later   == {s \in rows : S!Before(r, s)}
<1>1. rows = W!Account(df, r) /\ r \in rows
  BY AccountsAgree DEF S!Account
<1>2. \A s, t \in rows : S!Before(s, t) <=> W!Before(s, t)
  BY OrdersAgree
<1> HIDE DEF rows
<1>3. /\ earlier = {s \in rows : W!Before(s, r)}
      /\ later = {s \in rows : W!Before(r, s)}
  BY <1>1, <1>2
<1>4. earlier \subseteq rows /\ later \subseteq rows
  OBVIOUS
<1>5. /\ S!LagLead(df)[r].prev_amount =
            (IF earlier = {} THEN Null
             ELSE (CHOOSE q \in earlier : \A s \in earlier : s = q \/ S!Before(s, q)).amount)
      /\ S!LagLead(df)[r].next_amount =
            (IF later = {} THEN Null
             ELSE (CHOOSE q \in later : \A s \in later : s = q \/ S!Before(q, s)).amount)
  BY DEF S!LagLead, S!LastOf, S!FirstOf, rows
<1>6. /\ W!PreviousTransaction(df)[r] =
            (IF earlier = {} THEN Null
             ELSE (CHOOSE q \in earlier : \A s \in earlier : s = q \/ W!Before(s, q)).amount)
      /\ W!NextTransaction(df)[r] =
            (IF later = {} THEN Null
             ELSE (CHOOSE q \in later : \A s \in later : s = q \/ W!Before(q, s)).amount)
  <2> HIDE DEF earlier, later
  <2>1. QED
    BY <1>1, <1>3 DEF W!PreviousTransaction, W!NextTransaction, W!LastOf, W!FirstOf
<1> HIDE DEF earlier, later
<1>7. (CHOOSE q \in earlier : \A s \in earlier : s = q \/ S!Before(s, q))
        = (CHOOSE q \in earlier : \A s \in earlier : s = q \/ W!Before(s, q))
  BY <1>2, <1>4
<1>8. (CHOOSE q \in later : \A s \in later : s = q \/ S!Before(q, s))
        = (CHOOSE q \in later : \A s \in later : s = q \/ W!Before(q, s))
  BY <1>2, <1>4
<1>9. QED
  BY <1>5, <1>6, <1>7, <1>8

LEMMA BalancesAgree ==
  ASSUME NEW df, NEW r \in df, r.account # Null, \A s \in S!Account(df, r) : s.ts # Null,
         r.amount # Null
  PROVE  S!RunningBalance(df)[r] = W!RunningBalance(df)[r]
<1> DEFINE rows == {s \in S!Account(df, r) : s = r \/ S!Before(s, r)}
<1>1. S!Account(df, r) = W!Account(df, r) /\ r \in S!Account(df, r)
  BY AccountsAgree DEF S!Account
<1>2. rows = {s \in W!Account(df, r) : s = r \/ W!Before(s, r)}
  BY <1>1, OrdersAgree
<1>3. r \in Priced(rows)
  BY <1>1 DEF Priced
<1>4. S!RunningBalance(df)[r] = (IF S!Priced(rows) = {} THEN Null ELSE S!Total(rows))
  BY DEF S!RunningBalance
<1> HIDE DEF rows
<1>5. W!RunningBalance(df)[r] = W!Total(rows)
  BY <1>2 DEF W!RunningBalance
<1>6. QED
  BY <1>3, <1>4, <1>5, CopiesOfTotal

\* The sum of the amounts of typed rows is a number, and 0 where there are none.
LEMMA TotalType ==
  ASSUME NEW rows, IsFiniteSet(rows), \A r \in rows : TypedRow(r)
  PROVE  /\ Total(rows) \in Int
         /\ Priced(rows) = {} => Total(rows) = 0
<1> DEFINE w == [r \in rows |-> r.amount]
<1>1. Priced(rows) \subseteq rows /\ \A r \in Priced(rows) : w[r] = r.amount /\ w[r] \in Int
  BY DEF Priced, TypedRow, RawRow
<1>2. IsFiniteSet(Priced(rows))
  BY <1>1, FS_Subset
<1> HIDE DEF w
<1>3. Total(rows) = Sum(w, Priced(rows))
  BY <1>1, TotalIsSum
<1>4. QED
  BY <1>1, <1>2, <1>3, SumType, SumOfNone

LEMMA SummariesAgree ==
  ASSUME NEW df, IsFiniteSet(df), \A r \in df : TypedRow(r),
         NEW s, s = S!AggregateDaily(df), NEW p, p = P!AggregateDailyTransactions(df)
  PROVE  /\ DOMAIN p = {k \in DOMAIN s : k[1] # Null /\ k[2] # Null}
         /\ \A k \in DOMAIN p :
               p[k] = [s[k] EXCEPT !.total_amount = IF @ = Null THEN 0 ELSE @]
<1> DEFINE dated == {r \in df : r.ts # Null /\ r.currency # Null}
           Key(r) == <<DateOf(r), r.currency>>
           Of(k) == {r \in df : Key(r) = k}
<1>1. /\ DOMAIN s = {Key(r) : r \in df}
      /\ \A k \in DOMAIN s :
            s[k] = (IF Priced(Of(k)) = {} THEN [Measures(Of(k)) EXCEPT !.total_amount = Null]
                    ELSE Measures(Of(k)))
  BY CopiesOfMeasures, CopiesOfTotal DEF S!AggregateDaily, S!DateOf, DateOf
<1>2. /\ DOMAIN p = {Key(r) : r \in dated}
      /\ \A k \in DOMAIN p : p[k] = Measures({r \in dated : Key(r) = k})
  BY CopiesOfMeasures DEF P!AggregateDailyTransactions, P!DateOf, DateOf
<1>3. \A r \in df : r \in dated <=> Key(r)[1] # Null /\ Key(r)[2] # Null
  <2>1. ASSUME NEW r \in df
        PROVE  DateOf(r) # Null <=> r.ts # Null
    BY FrameAssumption DEF DateOf, TypedRow, RawRow
  <2>2. QED
    BY <2>1
<1> HIDE DEF Key
<1>4. DOMAIN p = {k \in DOMAIN s : k[1] # Null /\ k[2] # Null}
  BY <1>1, <1>2, <1>3
<1>5. ASSUME NEW k \in DOMAIN p
      PROVE  p[k] = [s[k] EXCEPT !.total_amount = IF @ = Null THEN 0 ELSE @]
  <2>1. {r \in dated : Key(r) = k} = Of(k)
    BY <1>3, <1>4
  <2>2. IsFiniteSet(Of(k)) /\ \A r \in Of(k) : TypedRow(r)
    <3>1. Of(k) \subseteq df
      OBVIOUS
    <3>2. QED
      BY <3>1, FS_Subset
  <2> HIDE DEF Of
  <2>3. Total(Of(k)) \in Int /\ (Priced(Of(k)) = {} => Total(Of(k)) = 0)
    BY <2>2, TotalType
  <2> DEFINE m == Measures(Of(k))
  <2>4. /\ DOMAIN m = {"txn_count", "distinct_accounts", "total_amount", "min_amount",
                        "max_amount", "fraud_count"}
        /\ m = [x \in DOMAIN m |-> m[x]] /\ m.total_amount = Total(Of(k))
    BY DEF Measures
  <2> HIDE DEF m
  <2>5. p[k] = m /\ s[k] = (IF Priced(Of(k)) = {} THEN [m EXCEPT !.total_amount = Null] ELSE m)
    BY <1>1, <1>2, <1>4, <2>1 DEF m
  <2>6. CASE Priced(Of(k)) = {}
    <3>1. s[k] = [m EXCEPT !.total_amount = Null] /\ m.total_amount = 0
      BY <2>3, <2>4, <2>5, <2>6
    <3>2. DOMAIN s[k] = DOMAIN m /\ s[k].total_amount = Null
          /\ \A x \in DOMAIN m : x # "total_amount" => s[k][x] = m[x]
      BY <2>4, <3>1
    <3>3. QED
      BY <2>4, <2>5, <3>1, <3>2
  <2>7. CASE Priced(Of(k)) # {}
    <3>1. s[k] = m /\ m.total_amount # Null
      BY <2>3, <2>4, <2>5, <2>7, FrameAssumption
    <3>2. QED
      BY <2>4, <2>5, <3>1
  <2>8. QED
    BY <2>6, <2>7
<1>6. QED
  BY <1>4, <1>5

LEMMA EnginesLemma == FrameInv => EnginesAgree
<1> SUFFICES ASSUME FrameInv
             PROVE  EnginesAgree
  OBVIOUS
<1>1. /\ typed = CastTypes(frame) /\ typed = S!CastTypes(frame)
      /\ IsFiniteSet(typed) /\ \A r \in typed : TypedRow(r)
  BY TypedFrame
<1> DEFINE s == S!AggregateDaily(typed)
           p == P!AggregateDailyTransactions(typed)
<1>2. S!FilterValidTransactions(typed) =
         {r \in P!FilterValidTransactions(typed) : r.status # Null}
  BY FiltersAgree
<1>3. /\ (\A r \in typed : r.updated # Null) => S!Deduplicate(typed) = P!Deduplicate(typed)
      /\ S!Deduplicate(typed) = W!LatestCustomerRecord(typed)
  BY DeduplicationsAgree
<1>4. /\ S!Join(typed, AccountRows, "left_semi") = P!SemiJoin(typed, AccountRows)
      /\ S!Join(typed, AccountRows, "left_anti") = P!AntiJoin(typed, AccountRows)
  BY SemiJoinsAgree
<1>5. \A r \in typed : r.account # Null /\ r.amount # Null =>
         S!RankTransactions(typed)[r] = W!RankTransactions(typed)[r]
  BY RanksAgree
<1>6. ASSUME NEW r \in typed, Ordered(r)
      PROVE  /\ S!LagLead(typed)[r].prev_amount = W!PreviousTransaction(typed)[r]
             /\ S!LagLead(typed)[r].next_amount = W!NextTransaction(typed)[r]
             /\ r.amount # Null => S!RunningBalance(typed)[r] = W!RunningBalance(typed)[r]
  <2>1. r.account # Null /\ \A q \in S!Account(typed, r) : q.ts # Null
    BY <1>6 DEF Ordered
  <2>2. QED
    BY <2>1, LagsAgree, BalancesAgree
<1>7. /\ DOMAIN p = {k \in DOMAIN s : k[1] # Null /\ k[2] # Null}
      /\ \A k \in DOMAIN p :
            p[k] = [s[k] EXCEPT !.total_amount = IF @ = Null THEN 0 ELSE @]
  BY <1>1, SummariesAgree
<1>8. QED
  BY <1>1, <1>2, <1>3, <1>4, <1>5, <1>6, <1>7 DEF EnginesAgree

\* A frame that grows row by row stays finite, and its rows are rows that land.
THEOREM FrameInvariant == FrameSpec => []FrameInv
<1>1. FrameInit => FrameInv
  BY FS_EmptySet DEF FrameInit, FrameInv
<1>2. FrameInv /\ [AddRow]_frame => FrameInv'
  BY FS_AddElement DEF FrameInv, AddRow
<1>3. QED
  BY <1>1, <1>2, PTL DEF FrameSpec

\* The two engines say the same of every frame, as far as the code goes without nulls
\* and ties.
THEOREM EnginesDoAgree == FrameSpec => []EnginesAgree
BY FrameInvariant, EnginesLemma, PTL

-----------------------------------------------------------------------------
(* The rules beside the filter.                                            *)

\* A row that passes every rule, and one that passes those that are critical.
Sound(r, now_) ==
    /\ r.account # Null
    /\ r.amount \notin {Null, Bad} /\ r.amount >= 0
    /\ r.currency \in ValidCurrencies
    /\ Coerced(r.ts) # Null /\ r.ts <= now_
Clean(r, now_) == Sound(r, now_) /\ r.status \in ValidStatus

Rules == {"account_id_not_null", "amount_non_negative", "currency_valid",
          "timestamp_not_future", "status_valid"}

\* What each rule says of a row.
Passes(name, r, now_) ==
    \/ name = "account_id_not_null" /\ r.account # Null
    \/ name = "amount_non_negative" /\ r.amount \notin {Null, Bad} /\ r.amount >= 0
    \/ name = "currency_valid" /\ r.currency \in ValidCurrencies
    \/ name = "timestamp_not_future" /\ Coerced(r.ts) # Null /\ r.ts <= now_
    \/ name = "status_valid" /\ r.status \in ValidStatus

LEMMA CheckOfRule ==
  ASSUME NEW df, NEW now_
  PROVE  /\ DOMAIN Q!RowChecks(df, now_) = Rules
         /\ \A name \in Rules :
               Q!RowChecks(df, now_)[name] = {r \in df : Passes(name, r, now_)}
BY DEF Q!RowChecks, Q!Coerced, Coerced, Rules, Passes

LEMMA CleanIsAllRules ==
  ASSUME NEW r, NEW now_
  PROVE  /\ Clean(r, now_) <=> \A name \in Rules : Passes(name, r, now_)
         /\ Sound(r, now_) <=> \A name \in Rules \ {"status_valid"} : Passes(name, r, now_)
BY DEF Clean, Sound, Rules, Passes

LEMMA MaskIs ==
  ASSUME NEW df, NEW now_
  PROVE  Q!RowFailureMask(df, Q!RowChecks(df, now_)) = {r \in df : ~Clean(r, now_)}
<1> DEFINE checks == Q!RowChecks(df, now_)
           mask == Q!RowFailureMask(df, checks)
<1>1. /\ DOMAIN checks = Rules
      /\ \A name \in Rules : checks[name] = {r \in df : Passes(name, r, now_)}
  BY CheckOfRule
<1> HIDE DEF checks
<1>2. mask = UNION {df \ checks[name] : name \in Rules}
  BY <1>1 DEF Q!RowFailureMask
<1>3. \A r : r \in mask <=> \E name \in Rules : r \in df \ checks[name]
  BY <1>2
<1> HIDE DEF mask
<1>4. \A r : r \in mask <=> r \in df /\ ~Clean(r, now_)
  BY <1>1, <1>3, CleanIsAllRules
<1>5. QED
  BY <1>4 DEF mask, checks

LEMMA ReasonsAre ==
  ASSUME NEW df, NEW now_, NEW r \in df
  PROVE  Q!ReasonForRows(df, Q!RowChecks(df, now_))[r]
            = {name \in Rules : ~Passes(name, r, now_)}
BY CheckOfRule DEF Q!ReasonForRows

\* The suite passes where the critical rules do, and no two rows have one key.
LEMMA PassedIs ==
  ASSUME NEW df, IsFiniteSet(df), NEW now_
  PROVE  Q!Passed(Q!RunExpectations(df, Q!RowChecks(df, now_), Q!TableChecks(df)))
            <=> /\ \A r \in df : Sound(r, now_)
                /\ \A r, s \in df : r.id = s.id => r = s
<1> DEFINE checks == Q!RowChecks(df, now_)
           unique == Q!TableChecks(df)
           failed == Q!RunExpectations(df, checks, unique)
<1>1. /\ DOMAIN checks = Rules
      /\ \A name \in Rules : checks[name] = {r \in df : Passes(name, r, now_)}
  BY CheckOfRule
<1>2. /\ DOMAIN unique = {"transaction_id_unique"}
      /\ unique["transaction_id_unique"] <=> \A r, s \in df : r.id = s.id => r = s
  BY DEF Q!TableChecks
<1> HIDE DEF checks, unique
<1>3. /\ DOMAIN failed = Rules \cup {"transaction_id_unique"}
      /\ \A name \in Rules : failed[name] = Cardinality(df \ checks[name])
      /\ failed["transaction_id_unique"]
            = (IF unique["transaction_id_unique"] THEN 0 ELSE Cardinality(df))
  BY <1>1, <1>2, CopiesOfCardinality DEF Q!RunExpectations, Rules
<1> HIDE DEF failed
<1>4. \A name \in Rules : failed[name] = 0 <=> \A r \in df : Passes(name, r, now_)
  <2>1. ASSUME NEW name \in Rules
        PROVE  failed[name] = 0 <=> \A r \in df : Passes(name, r, now_)
    <3>1. IsFiniteSet(df \ checks[name])
      BY FS_Subset
    <3>2. failed[name] = 0 <=> df \ checks[name] = {}
      BY <1>3, <3>1, FS_EmptySet
    <3>3. QED
      BY <1>1, <3>2
  <2>2. QED
    BY <2>1
<1>5. failed["transaction_id_unique"] = 0 <=> unique["transaction_id_unique"]
  <2>1. df = {} => unique["transaction_id_unique"]
    BY <1>2
  <2>2. Cardinality(df) = 0 <=> df = {}
    BY FS_EmptySet
  <2>3. QED
    BY <1>3, <2>1, <2>2
<1>6. Q!Passed(failed) <=>
        /\ \A name \in Rules \ {"status_valid"} : failed[name] = 0
        /\ failed["transaction_id_unique"] = 0
  BY <1>3 DEF Q!Passed, Q!Severity, Rules
<1>7. QED
  BY <1>2, <1>4, <1>5, <1>6, CleanIsAllRules DEF checks, unique, failed

\* A row is rejected before the cast or after it alike.
LEMMA CleanOfCast ==
  ASSUME NEW r, RawRow(r), NEW now_ \in Int
  PROVE  Clean(Cast(r), now_) <=> Clean(r, now_)
<1>1. {"account", "currency", "status"} \subseteq Columns \ {"amount", "ts"}
  BY DEF Columns
<1>2. /\ Cast(r).account = r.account /\ Cast(r).currency = r.currency
      /\ Cast(r).status = r.status
      /\ Cast(r).amount = Coerced(r.amount) /\ Cast(r).ts = Coerced(r.ts)
  BY <1>1, CastOf
<1>3. /\ Cast(r).amount \notin {Null, Bad} /\ Cast(r).amount >= 0
            <=> r.amount \notin {Null, Bad} /\ r.amount >= 0
      /\ Coerced(Cast(r).ts) # Null /\ Cast(r).ts <= now_
            <=> Coerced(r.ts) # Null /\ r.ts <= now_
  BY <1>2, FrameAssumption DEF Coerced
<1>4. QED
  BY <1>2, <1>3 DEF Clean, Sound

LEMMA CastsAre ==
  ASSUME NEW df
  PROVE  P!CastTypes(df) = {Cast(r) : r \in df}
BY DEF P!CastTypes, P!Coerced, Coerced, Cast

\* The clean rows of the frame, cast, are the clean rows of the cast frame.
LEMMA GoodIs ==
  ASSUME FrameInv, NEW now_ \in Int,
         NEW bad, bad = {r \in frame : ~Clean(r, now_)}
  PROVE  /\ P!CastTypes(frame \ bad) = {t \in typed : Clean(t, now_)}
         /\ P!CastTypes(bad) = {t \in typed : ~Clean(t, now_)}
<1>1. typed = {Cast(r) : r \in frame}
  BY CastsAre DEF typed
<1>2. \A r \in frame : Clean(Cast(r), now_) <=> Clean(r, now_)
  BY CleanOfCast, AgreeAssumption DEF FrameInv
<1>3. {Cast(r) : r \in frame \ bad} = {t \in typed : Clean(t, now_)}
  BY <1>1, <1>2
<1>4. {Cast(r) : r \in bad} = {t \in typed : ~Clean(t, now_)}
  BY <1>1, <1>2
<1>5. QED
  BY <1>3, <1>4, CastsAre

\* What is clean and what is valid, and the rows by which they differ.
LEMMA CleanOrValid ==
  ASSUME NEW r, TypedRow(r), NEW now_ \in Int
  PROVE  (Clean(r, now_) /\ ~(r.amount = 0 \/ r.status = "REVERSED"))
           <=> /\ /\ r.account # Null /\ r.amount # Null /\ r.amount > 0
                  /\ r.status # Null /\ r.status # "REVERSED"
               /\ ~(\/ r.ts = Null \/ r.ts > now_
                    \/ r.currency \notin ValidCurrencies \/ r.status \notin ValidStatus)
<1>1. r.amount \in Int \cup {Null} /\ r.amount # Bad /\ r.ts # Bad
      /\ r.ts \in Int \cup {Null}
  BY FrameAssumption DEF TypedRow, RawRow
<1>2. r.status \in ValidStatus => r.status # Null
  BY AgreeAssumption
<1>3. (r.amount \notin {Null, Bad} /\ r.amount >= 0) /\ r.amount # 0
         <=> r.amount # Null /\ r.amount > 0
  BY <1>1, FrameAssumption
<1>4. (Coerced(r.ts) # Null /\ r.ts <= now_) <=> ~(r.ts = Null \/ r.ts > now_)
  BY <1>1, FrameAssumption DEF Coerced
<1>5. QED
  BY <1>2, <1>3, <1>4 DEF Clean, Sound

\* With one row of each key the deduplication has one outcome, which is the frame.
LEMMA NothingToDeduplicate ==
  ASSUME NEW df, \A r \in df : TypedRow(r),
         \A r, s \in df : r.id = s.id => r = s
  PROVE  P!Deduplicate(df) = {df}
<1> DEFINE last == {r \in df : \A s \in df :
                      s.id = r.id => P!NullsLast(s.updated) <= P!NullsLast(r.updated)}
<1>1. P!Deduplicate(df) = OnePerKey(last)
  BY CopiesOfOnePerKey DEF P!Deduplicate
<1>2. last = df
  <2>1. ASSUME NEW r \in df
        PROVE  P!NullsLast(r.updated) \in Int
    BY FrameAssumption DEF P!NullsLast, TypedRow, RawRow
  <2>2. QED
    BY <2>1
<1> HIDE DEF last
<1>3. ASSUME NEW out \in SUBSET df, NEW r \in df
      PROVE  Cardinality({s \in out : s.id = r.id}) = 1 <=> r \in out
  <2>1. CASE r \in out
    <3>1. {s \in out : s.id = r.id} = {r}
      BY <2>1
    <3>2. QED
      BY <2>1, <3>1, FS_Singleton
  <2>2. CASE r \notin out
    <3>1. {s \in out : s.id = r.id} = {}
      BY <2>2
    <3>2. QED
      BY <2>2, <3>1, FS_EmptySet
  <2>3. QED
    BY <2>1, <2>2
<1>4. ASSUME NEW out
      PROVE  out \in OnePerKey(df) <=> out = df
  <2>1. out \in OnePerKey(df) <=> out \in SUBSET df /\ \A r \in df : r \in out
    BY <1>3 DEF OnePerKey
  <2>2. QED
    BY <2>1
<1>5. QED
  BY <1>1, <1>2, <1>4

\* With two rows of one key the frame itself is no outcome of its deduplication.
LEMMA SomethingToDeduplicate ==
  ASSUME NEW df, IsFiniteSet(df), NEW r \in df, NEW s \in df, r.id = s.id, r # s
  PROVE  df \notin P!Deduplicate(df)
<1> DEFINE last == {q \in df : \A p \in df :
                      p.id = q.id => P!NullsLast(p.updated) <= P!NullsLast(q.updated)}
<1>1. P!Deduplicate(df) = OnePerKey(last)
  BY CopiesOfOnePerKey DEF P!Deduplicate
<1>2. last \subseteq df
  OBVIOUS
<1> HIDE DEF last
<1>3. SUFFICES ASSUME df \in OnePerKey(last)
               PROVE  FALSE
  BY <1>1
<1>4. df = last /\ Cardinality({q \in df : q.id = r.id}) = 1
  BY <1>2, <1>3 DEF OnePerKey
<1>5. IsFiniteSet({q \in df : q.id = r.id})
  BY FS_Subset
<1>6. PICK x : {q \in df : q.id = r.id} = {x}
  BY <1>4, <1>5, FS_Singleton
<1>7. r \in {q \in df : q.id = r.id} /\ s \in {q \in df : q.id = r.id}
  OBVIOUS
<1>8. QED
  BY <1>6, <1>7

LEMMA RulesLemma == FrameInv => RulesAgree
<1> SUFFICES ASSUME FrameInv
             PROVE  RulesAgree
  OBVIOUS
<1> DEFINE valid == S!FilterValidTransactions(typed)
<1>1. /\ typed = {Cast(r) : r \in frame} /\ IsFiniteSet(typed) /\ \A t \in typed : TypedRow(t)
      /\ IsFiniteSet(frame) /\ \A r \in frame : RawRow(r)
  BY TypedFrame, CastsAre, AgreeAssumption DEF typed, FrameInv
<1>2. SUFFICES ASSUME NEW now_ \in Instants
               PROVE  LET checks  == Q!RowChecks(frame, now_)
            bad     == Q!RowFailureMask(frame, checks)
            good    == P!CastTypes(frame \ bad)
            reasons == Q!ReasonForRows(frame, checks)
            passed  == Q!Passed(Q!RunExpectations(frame, checks, Q!TableChecks(frame)))
            onlyValid == {r \in typed : r.amount = 0 \/ r.status = "REVERSED"}
            onlyGood  == {r \in typed : \/ r.ts = Null \/ r.ts > now_
                                       \/ r.currency \notin ValidCurrencies
                                       \/ r.status \notin ValidStatus}
        IN  /\ good \ onlyValid = valid \ onlyGood
            /\ (onlyValid \cup onlyGood = {} /\ \A r \in typed : r.updated # Null)
                  => P!Deduplicate(good) = S!Deduplicate(valid)
            /\ P!CastTypes(bad) = Q!RowFailureMask(typed, Q!RowChecks(typed, now_))
            /\ bad = {r \in frame : reasons[r] # {}}
            /\ passed => /\ \A r \in bad : reasons[r] = {"status_valid"}
                         /\ P!Deduplicate(typed) = {typed}
            /\ ~passed => bad # {} \/ typed \notin P!Deduplicate(typed)
  BY DEF RulesAgree
<1> DEFINE checks  == Q!RowChecks(frame, now_)
           bad     == Q!RowFailureMask(frame, checks)
           good    == P!CastTypes(frame \ bad)
           reasons == Q!ReasonForRows(frame, checks)
           passed  == Q!Passed(Q!RunExpectations(frame, checks, Q!TableChecks(frame)))
           onlyValid == {r \in typed : r.amount = 0 \/ r.status = "REVERSED"}
           onlyGood  == {r \in typed : \/ r.ts = Null \/ r.ts > now_
                                      \/ r.currency \notin ValidCurrencies
                                      \/ r.status \notin ValidStatus}
<1>3. now_ \in Int
  BY <1>2, FrameAssumption
<1>4. /\ bad = {r \in frame : ~Clean(r, now_)}
      /\ Q!RowFailureMask(typed, Q!RowChecks(typed, now_)) = {t \in typed : ~Clean(t, now_)}
  BY MaskIs
<1>5. \A r \in frame : reasons[r] = {name \in Rules : ~Passes(name, r, now_)}
  BY ReasonsAre
<1>6. passed <=> /\ \A r \in frame : Sound(r, now_)
                 /\ \A r, s \in frame : r.id = s.id => r = s
  BY <1>1, PassedIs
<1>7. valid = {r \in typed : r.account # Null /\ r.amount # Null /\ r.amount > 0
                              /\ r.status # Null /\ r.status # "REVERSED"}
  BY DEF S!FilterValidTransactions
<1> HIDE DEF checks, bad, reasons, passed, valid
<1>8. good = {t \in typed : Clean(t, now_)} /\ P!CastTypes(bad) = {t \in typed : ~Clean(t, now_)}
  BY <1>3, <1>4, GoodIs
<1> HIDE DEF good
<1>9. good \ onlyValid = valid \ onlyGood
  BY <1>1, <1>3, <1>7, <1>8, CleanOrValid
<1>10. ASSUME onlyValid \cup onlyGood = {}, \A r \in typed : r.updated # Null
       PROVE  P!Deduplicate(good) = S!Deduplicate(valid)
  <2>1. onlyValid = {} /\ onlyGood = {}
    BY <1>10
  <2> HIDE DEF onlyValid, onlyGood
  <2>2. good = valid
    BY <1>9, <2>1
  <2>3. \A r \in valid : r.updated # Null
    BY <1>7, <1>10
  <2>4. QED
    BY <2>2, <2>3, DeduplicationsAgree
<1>11. P!CastTypes(bad) = Q!RowFailureMask(typed, Q!RowChecks(typed, now_))
  BY <1>4, <1>8
<1>12. bad = {r \in frame : reasons[r] # {}}
  BY <1>4, <1>5, CleanIsAllRules
<1> HIDE DEF onlyValid, onlyGood
<1>13. \A r, s \in frame : Cast(r).id = r.id
  <2>1. "id" \in Columns \ {"amount", "ts"}
    BY DEF Columns
  <2>2. QED
    BY <1>1, <2>1, CastOf
<1>14. ASSUME passed
       PROVE  /\ \A r \in bad : reasons[r] = {"status_valid"}
              /\ P!Deduplicate(typed) = {typed}
  <2>1. \A r \in bad : reasons[r] = {"status_valid"}
    BY <1>4, <1>5, <1>6, <1>14, CleanIsAllRules DEF Rules
  <2>2. \A r, s \in typed : r.id = s.id => r = s
    BY <1>1, <1>6, <1>13, <1>14
  <2>3. QED
    BY <1>1, <2>1, <2>2, NothingToDeduplicate
<1>15. ASSUME ~passed, bad = {}
       PROVE  typed \notin P!Deduplicate(typed)
  <2>1. \A r \in frame : Clean(r, now_) /\ Sound(r, now_)
    BY <1>4, <1>15 DEF Clean
  <2>2. PICK r \in frame, s \in frame : r.id = s.id /\ r # s
    BY <1>6, <1>15, <2>1
  <2>3. \A q \in frame : Cast(q) = q
    <3>1. ASSUME NEW q \in frame
          PROVE  q.amount # Bad /\ q.ts # Bad
      BY <2>1 DEF Sound, Coerced
    <3>2. QED
      BY <1>1, <3>1, CastOf
  <2>4. r \in typed /\ s \in typed
    BY <1>1, <2>2, <2>3
  <2>5. QED
    BY <1>1, <2>2, <2>4, SomethingToDeduplicate
<1>16. QED
  BY <1>9, <1>10, <1>11, <1>12, <1>14, <1>15
     DEF checks, bad, good, reasons, passed, valid, onlyValid, onlyGood

\* The quality rules and the Spark filter differ by the rows that RulesAgree names, of
\* every frame and at any time.
THEOREM RulesDoAgree == FrameSpec => []RulesAgree
BY FrameInvariant, RulesLemma, PTL

-----------------------------------------------------------------------------
(***************************************************************************)
(* The joins, the windows and the star of a frame.                         *)
(***************************************************************************)
\* The rows of the frame as the transforms get them.
LEMMA RowsOfFrame ==
  ASSUME FrameInv
  PROVE  /\ IsFiniteSet(typed) /\ \A r \in typed : TypedRow(r)
         /\ \A r, s \in typed : r.at = s.at => r = s
         /\ Null \notin typed
         /\ Null \notin (typed \cup {Null}) \X (AccountRows \cup {Null})
<1>1. IsFiniteSet(typed) /\ \A r \in typed : TypedRow(r)
  BY TypedFrame
<1>2. /\ typed = {Cast(r) : r \in frame}
      /\ P!CastTypes(FrameRows) = {Cast(r) : r \in FrameRows}
  BY DEF typed, P!CastTypes, Cast, P!Coerced, Coerced
<1>3. typed \subseteq P!CastTypes(FrameRows)
  BY <1>2 DEF FrameInv
<1>4. \A r \in frame : Cast(r).at = r.at
  <2>1. \A r \in frame : RawRow(r)
    BY AgreeAssumption DEF FrameInv
  <2>2. QED
    BY <2>1, CastOf DEF Columns
<1>5. \A r, s \in typed : r.at = s.at => r = s
  BY <1>2, <1>4 DEF FrameInv
<1>6. QED
  BY <1>1, <1>3, <1>5, NullAssumption

-----------------------------------------------------------------------------
(* The joins.                                                              *)

\* What the first of the two joins gives.
TxnAccounts(df, how) ==
         {p \in df \X AccountRows : p[1].account = p[2].account}
    \cup {<<t, Null>> : t \in {t \in df : /\ how \in {"left", "outer"}
                                  /\ ~\E a \in AccountRows : t.account = a.account}}
    \cup {<<Null, a>> : a \in {a \in AccountRows : /\ how \in {"right", "outer"}
                                  /\ ~\E t \in df : t.account = a.account}}

Fits(q, c) == q[2] # Null /\ q[2].customer = c.customer

\* And the second.
JoinedRows(df, how) ==
    LET left == TxnAccounts(df, how) IN
         {p \in left \X CustomerRows : Fits(p[1], p[2])}
    \cup {<<q, Null>> : q \in {q \in left : /\ how \in {"left", "outer"}
                                            /\ ~\E c \in CustomerRows : Fits(q, c)}}
    \cup {<<Null, c>> : c \in {c \in CustomerRows : /\ how \in {"right", "outer"}
                                            /\ ~\E q \in left : Fits(q, c)}}

LEMMA JoinedRowsAre ==
  ASSUME NEW df, NEW how
  PROVE  P!JoinTransactionsCustomers(df, AccountRows, CustomerRows, how) = JoinedRows(df, how)
BY DEF P!JoinTransactionsCustomers, P!Merge, JoinedRows, TxnAccounts, Fits
LEMMA JoinsLemma ==
  ASSUME FrameInv
  PROVE  JoinsReconcile
<1> DEFINE known == {a \in AccountRows : \E c \in CustomerRows : a.customer = c.customer}
           Txns(how) == {p[1][1] : p \in {q \in JoinedRows(typed, how) : q[1] # Null}} \ {Null}
           Hows == {"inner", "left", "right", "outer"}
<1>1. /\ IsFiniteSet(typed) /\ Null \notin typed
      /\ Null \notin (typed \cup {Null}) \X (AccountRows \cup {Null})
      /\ Null \notin CustomerRows /\ Null \notin AccountRows
  BY RowsOfFrame, NullAssumption
<1>2. ASSUME NEW how, NEW q \in TxnAccounts(typed, how)
      PROVE  /\ q \in (typed \cup {Null}) \X (AccountRows \cup {Null})
             /\ q = <<q[1], q[2]>> /\ q # Null
             /\ q[1] = Null => q[2] \in AccountRows /\ how \in {"right", "outer"}
             /\ q[1] # Null /\ q[2] # Null => q[1] \in typed /\ q[2] \in AccountRows
                                              /\ q[1].account = q[2].account
             /\ q[2] = Null => /\ \A a \in AccountRows : q[1].account # a.account
                               /\ how \in {"left", "outer"}
  <2>1. q \in (typed \cup {Null}) \X (AccountRows \cup {Null})
    BY DEF TxnAccounts
  <2>2. q # Null /\ q = <<q[1], q[2]>>
    BY <1>1, <2>1
  <2>3. CASE q \in {p \in typed \X AccountRows : p[1].account = p[2].account}
    BY <1>1, <2>1, <2>2, <2>3
  <2>4. CASE \E t \in typed : q = <<t, Null>> /\ how \in {"left", "outer"}
                              /\ ~\E a \in AccountRows : t.account = a.account
    BY <1>1, <2>1, <2>2, <2>4
  <2>5. CASE \E a \in AccountRows : q = <<Null, a>> /\ how \in {"right", "outer"}
    BY <1>1, <2>1, <2>2, <2>5
  <2>6. QED
    BY <2>3, <2>4, <2>5 DEF TxnAccounts
<1>3. ASSUME NEW how \in {"left", "outer"}, NEW t \in typed
      PROVE  \E q \in TxnAccounts(typed, how) : q[1] = t
  <2>1. CASE \E a \in AccountRows : t.account = a.account
    <3>1. PICK a \in AccountRows : t.account = a.account
      BY <2>1
    <3>2. <<t, a>> \in TxnAccounts(typed, how)
      BY <3>1 DEF TxnAccounts
    <3>3. QED
      BY <3>2
  <2>2. CASE ~\E a \in AccountRows : t.account = a.account
    <3>1. <<t, Null>> \in TxnAccounts(typed, how)
      BY <2>2 DEF TxnAccounts
    <3>2. QED
      BY <3>1
  <2>3. QED
    BY <2>1, <2>2
<1>4. ASSUME NEW how \in {"left", "outer"}, NEW q \in TxnAccounts(typed, how)
      PROVE  \E p \in JoinedRows(typed, how) : p[1] = q
  <2>1. CASE \E c \in CustomerRows : Fits(q, c)
    <3>1. PICK c \in CustomerRows : Fits(q, c)
      BY <2>1
    <3>2. <<q, c>> \in JoinedRows(typed, how)
      BY <3>1 DEF JoinedRows
    <3>3. QED
      BY <3>2
  <2>2. CASE ~\E c \in CustomerRows : Fits(q, c)
    <3>1. <<q, Null>> \in JoinedRows(typed, how)
      BY <2>2 DEF JoinedRows
    <3>2. QED
      BY <3>1
  <2>3. QED
    BY <2>1, <2>2
<1>5. ASSUME NEW how, NEW p \in JoinedRows(typed, how)
      PROVE  /\ p = <<p[1], p[2]>>
             /\ p[1] # Null => p[1] \in TxnAccounts(typed, how)
             /\ p[1] = Null => how \in {"right", "outer"}
             /\ p[2] # Null => p[2] \in CustomerRows
             /\ p[1] # Null /\ p[2] # Null => Fits(p[1], p[2])
             /\ p[2] = Null => p[1] # Null /\ \A c \in CustomerRows : ~Fits(p[1], c)
  <2>1. CASE p \in {x \in TxnAccounts(typed, how) \X CustomerRows : Fits(x[1], x[2])}
    BY <1>1, <1>2, <2>1
  <2>2. CASE \E q \in TxnAccounts(typed, how) :
                p = <<q, Null>> /\ ~\E c \in CustomerRows : Fits(q, c)
    BY <1>1, <1>2, <2>2
  <2>3. CASE \E c \in CustomerRows : p = <<Null, c>> /\ how \in {"right", "outer"}
    BY <1>1, <2>3
  <2>4. QED
    BY <2>1, <2>2, <2>3 DEF JoinedRows
<1>6. Txns("inner") = P!SemiJoin(typed, known)
  <2>1. ASSUME NEW t \in Txns("inner")
        PROVE  t \in P!SemiJoin(typed, known)
    <3>1. PICK p \in JoinedRows(typed, "inner") : p[1] # Null /\ p[1][1] = t /\ t # Null
      BY <2>1
    <3>2. p[1] \in TxnAccounts(typed, "inner") /\ p[1][2] # Null
      BY <1>2, <1>5, <3>1
    <3>3. t \in typed /\ p[1][2] \in AccountRows /\ t.account = p[1][2].account
      BY <1>2, <3>1, <3>2
    <3>4. p[2] # Null
      <4>1. SUFFICES ASSUME p[2] = Null PROVE FALSE
        OBVIOUS
      <4>2. p \notin {x \in TxnAccounts(typed, "inner") \X CustomerRows : Fits(x[1], x[2])}
        BY <1>1, <4>1
      <4>3. QED
        BY <3>1, <4>2 DEF JoinedRows
    <3>5. p[2] \in CustomerRows /\ p[1][2].customer = p[2].customer
      BY <1>5, <3>1, <3>4 DEF Fits
    <3>6. QED
      BY <3>3, <3>5 DEF P!SemiJoin
  <2>2. ASSUME NEW t \in P!SemiJoin(typed, known)
        PROVE  t \in Txns("inner")
    <3>1. PICK a \in known : t \in typed /\ t.account = a.account
      BY DEF P!SemiJoin
    <3>2. PICK c \in CustomerRows : a.customer = c.customer /\ a \in AccountRows
      BY <3>1
    <3>3. <<t, a>> \in TxnAccounts(typed, "inner")
      BY <3>1, <3>2 DEF TxnAccounts
    <3>4. Fits(<<t, a>>, c)
      BY <1>1, <3>2 DEF Fits
    <3>5. <<<<t, a>>, c>> \in JoinedRows(typed, "inner")
      BY <3>2, <3>3, <3>4 DEF JoinedRows
    <3>6. <<<<t, a>>, c>>[1] # Null /\ <<<<t, a>>, c>>[1][1] = t /\ t # Null
      BY <1>1, <1>2, <3>1, <3>3
    <3>7. QED
      BY <3>5, <3>6
  <2>3. QED
    BY <2>1, <2>2
<1>7. ASSUME NEW how \in {"left", "outer"}
      PROVE  Txns(how) = typed
  <2>1. ASSUME NEW t \in Txns(how)
        PROVE  t \in typed
    <3>1. PICK p \in JoinedRows(typed, how) : p[1] # Null /\ p[1][1] = t /\ t # Null
      BY <2>1
    <3>2. p[1] \in TxnAccounts(typed, how)
      BY <1>5, <3>1
    <3>3. QED
      BY <1>2, <3>1, <3>2
  <2>2. ASSUME NEW t \in typed
        PROVE  t \in Txns(how)
    <3>1. PICK q \in TxnAccounts(typed, how) : q[1] = t
      BY <1>3
    <3>2. PICK p \in JoinedRows(typed, how) : p[1] = q
      BY <1>4
    <3>3. p[1] # Null /\ p[1][1] = t /\ t # Null
      BY <1>1, <1>2, <3>1, <3>2
    <3>4. QED
      BY <3>3
  <2>3. QED
    BY <2>1, <2>2
<1>8. Cardinality(JoinedRows(typed, "left")) = Cardinality(typed)
  <2> DEFINE rows == JoinedRows(typed, "left")
             h == [p \in rows |-> p[1][1]]
  <2>1. ASSUME NEW p \in rows
        PROVE  /\ p = <<p[1], p[2]>> /\ p[1] # Null /\ p[1] \in TxnAccounts(typed, "left")
               /\ p[1] = <<p[1][1], p[1][2]>> /\ p[1][1] \in typed
               /\ p[1][2] # Null => p[1][2] \in AccountRows /\ p[1][1].account = p[1][2].account
               /\ p[1][2] = Null => \A a \in AccountRows : p[1][1].account # a.account
               /\ p[2] # Null => p[2] \in CustomerRows /\ Fits(p[1], p[2])
               /\ p[2] = Null => \A c \in CustomerRows : ~Fits(p[1], c)
    <3>1. /\ p = <<p[1], p[2]>> /\ p[1] # Null /\ p[1] \in TxnAccounts(typed, "left")
          /\ p[2] # Null => p[2] \in CustomerRows /\ Fits(p[1], p[2])
          /\ p[2] = Null => \A c \in CustomerRows : ~Fits(p[1], c)
      BY <1>5
    <3>2. QED
      BY <1>2, <3>1
  <2>2. ASSUME NEW p \in rows, NEW x \in rows, p[1][1] = x[1][1]
        PROVE  p = x
    <3>1. p[1][2] = x[1][2]
      BY <2>1, <2>2, KeyAssumption
    <3>2. p[1] = x[1]
      BY <2>1, <2>2, <3>1
    <3>3. p[2] = x[2]
      BY <2>1, <3>2, KeyAssumption DEF Fits
    <3>4. QED
      BY <2>1, <3>2, <3>3
  <2>3. ASSUME NEW t \in typed
        PROVE  \E p \in rows : p[1][1] = t
    BY <1>3, <1>4
  <2>4. /\ h \in [rows -> typed] /\ \A p, x \in rows : h[p] = h[x] => p = x
        /\ \A t \in typed : \E p \in rows : h[p] = t
    <3> HIDE DEF rows
    <3>1. QED
      BY <2>1, <2>2, <2>3
  <2> HIDE DEF h, rows
  <2>5. h \in Injection(rows, typed) /\ h \in Surjection(rows, typed)
    BY <2>4 DEF Injection, IsInjective, Surjection
  <2>6. QED
    BY <1>1, <2>5, FS_Injection DEF rows
<1>9. ASSUME NEW how \in {"right", "outer"}
      PROVE  {p[2] : p \in JoinedRows(typed, how)} \ {Null} = CustomerRows
  <2>1. ASSUME NEW c \in CustomerRows
        PROVE  \E p \in JoinedRows(typed, how) : p[2] = c /\ c # Null
    <3>1. CASE \E q \in TxnAccounts(typed, how) : Fits(q, c)
      <4>1. PICK q \in TxnAccounts(typed, how) : Fits(q, c)
        BY <3>1
      <4>2. <<q, c>> \in JoinedRows(typed, how)
        BY <4>1 DEF JoinedRows
      <4>3. QED
        BY <1>1, <4>2
    <3>2. CASE ~\E q \in TxnAccounts(typed, how) : Fits(q, c)
      <4>1. <<Null, c>> \in JoinedRows(typed, how)
        BY <3>2 DEF JoinedRows
      <4>2. QED
        BY <1>1, <4>1
    <3>3. QED
      BY <3>1, <3>2
  <2>2. QED
    BY <1>5, <2>1
<1>10. P!SemiJoin(typed, AccountRows) \cup P!AntiJoin(typed, AccountRows) = typed
  BY DEF P!SemiJoin, P!AntiJoin
<1>11. QED
  BY <1>6, <1>7, <1>8, <1>9, <1>10, JoinedRowsAre DEF JoinsReconcile

-----------------------------------------------------------------------------
(* More of sums: over two parts, of two terms, of what a condition counts.  *)

LEMMA SumOfParts ==
  ASSUME NEW a, NEW b, IsFiniteSet(a), IsFiniteSet(b), a \cap b = {},
         NEW f, \A x \in a \cup b : f[x] \in Int
  PROVE  Sum(f, a \cup b) = Sum(f, a) + Sum(f, b)
<1> DEFINE bad == {u \in SUBSET a : Sum(f, u \cup b) # Sum(f, u) + Sum(f, b)}
<1>1. SUFFICES ASSUME bad # {} PROVE FALSE
  OBVIOUS
<1>2. PICK u \in bad : IsFiniteSet(u) /\ \A x \in u : u \ {x} \notin bad
  <2>1. bad \subseteq SUBSET a
    OBVIOUS
  <2> HIDE DEF bad
  <2>2. QED
    BY <1>1, <2>1, LeastSet
<1>3. u \in SUBSET a /\ Sum(f, u \cup b) # Sum(f, u) + Sum(f, b)
  BY <1>2
<1>4. Sum(f, b) \in Int
  BY SumType
<1>5. u # {}
  <2>1. SUFFICES ASSUME u = {} PROVE FALSE
    OBVIOUS
  <2>2. Sum(f, u) = 0 /\ u \cup b = b
    BY <2>1, SumOfNone
  <2>3. Sum(f, u \cup b) = Sum(f, b)
    BY <2>2
  <2>4. QED
    BY <1>3, <1>4, <2>2, <2>3
<1>6. PICK x \in u : TRUE
  BY <1>5
<1>7. Sum(f, (u \ {x}) \cup b) = Sum(f, u \ {x}) + Sum(f, b)
  BY <1>2, <1>3
<1>8. /\ IsFiniteSet(u \cup b) /\ \A y \in u \cup b : f[y] \in Int
      /\ x \in u \cup b /\ (u \cup b) \ {x} = (u \ {x}) \cup b
  BY <1>2, <1>3, FS_Union
<1>9. Sum(f, u \cup b) = f[x] + Sum(f, (u \ {x}) \cup b)
  BY <1>8, SumSplits
<1>10. Sum(f, u) = f[x] + Sum(f, u \ {x})
  BY <1>2, <1>3, SumSplits
<1>11. Sum(f, u \ {x}) \in Int /\ f[x] \in Int
  <2>1. IsFiniteSet(u \ {x}) /\ \A y \in u \ {x} : f[y] \in Int
    BY <1>2, <1>3, OneLess
  <2>2. QED
    BY <1>3, <2>1, SumType
<1>12. QED
  BY <1>3, <1>4, <1>7, <1>9, <1>10, <1>11

LEMMA SumOfTwo ==
  ASSUME NEW set, IsFiniteSet(set), NEW f, NEW g, NEW h,
         \A x \in set : f[x] \in Int /\ g[x] \in Int /\ h[x] = f[x] + g[x]
  PROVE  Sum(h, set) = Sum(f, set) + Sum(g, set)
<1> DEFINE bad == {u \in SUBSET set : Sum(h, u) # Sum(f, u) + Sum(g, u)}
<1>1. SUFFICES ASSUME bad # {} PROVE FALSE
  OBVIOUS
<1>2. PICK u \in bad : IsFiniteSet(u) /\ \A x \in u : u \ {x} \notin bad
  <2>1. bad \subseteq SUBSET set
    OBVIOUS
  <2> HIDE DEF bad
  <2>2. QED
    BY <1>1, <2>1, LeastSet
<1>3. u \in SUBSET set /\ Sum(h, u) # Sum(f, u) + Sum(g, u)
  BY <1>2
<1>4. u # {}
  <2>1. SUFFICES ASSUME u = {} PROVE FALSE
    OBVIOUS
  <2>2. Sum(f, u) = 0 /\ Sum(g, u) = 0 /\ Sum(h, u) = 0
    BY <2>1, SumOfNone
  <2>3. QED
    BY <1>3, <2>2
<1>5. PICK x \in u : TRUE
  BY <1>4
<1>6. Sum(h, u \ {x}) = Sum(f, u \ {x}) + Sum(g, u \ {x})
  BY <1>2, <1>3
<1>7. \A y \in u : f[y] \in Int /\ g[y] \in Int /\ h[y] \in Int
  BY <1>3
<1>8. /\ Sum(h, u) = h[x] + Sum(h, u \ {x}) /\ Sum(f, u) = f[x] + Sum(f, u \ {x})
      /\ Sum(g, u) = g[x] + Sum(g, u \ {x})
  BY <1>2, <1>7, SumSplits
<1>9. Sum(f, u \ {x}) \in Int /\ Sum(g, u \ {x}) \in Int
  <2>1. IsFiniteSet(u \ {x})
    BY <1>2, OneLess
  <2>2. QED
    BY <1>7, <2>1, SumType
<1>10. h[x] = f[x] + g[x] /\ f[x] \in Int /\ g[x] \in Int
  BY <1>3
<1>11. QED
  BY <1>3, <1>6, <1>8, <1>9, <1>10

\* Adding one for each element of a part counts the part.
LEMMA SumOfPart ==
  ASSUME NEW set, IsFiniteSet(set), NEW part \in SUBSET set,
         NEW f, \A x \in set : f[x] = IF x \in part THEN 1 ELSE 0
  PROVE  Sum(f, set) = Cardinality(part)
<1>1. IsFiniteSet(part) /\ IsFiniteSet(set \ part)
  BY FS_Subset
<1>2. Sum(f, part \cup (set \ part)) = Sum(f, part) + Sum(f, set \ part)
  BY <1>1, SumOfParts
<1>3. Sum(f, part) = Cardinality(part)
  BY <1>1, CountIsSum
<1>4. Sum(f, set \ part) = 0
  BY <1>1, SumOfZeros
<1>5. Sum(f, part \cup (set \ part)) = Sum(f, set) /\ Cardinality(part) \in Nat
  <2>1. part \cup (set \ part) = set
    OBVIOUS
  <2>2. QED
    BY <1>1, <2>1, FS_CardinalityType
<1>6. QED
  BY <1>2, <1>3, <1>4, <1>5

\* Of the numbers that a finite set has, those of v that are below, the same as and above
\* n; and with one more element.
Below(v, s, n) == {b \in v : s[b] < n}
Same(v, s, n)  == {b \in v : s[b] = n}
Above(v, s, n) == {b \in v : n < s[b]}

LEMMA CountOfParts ==
  ASSUME NEW a, NEW b, IsFiniteSet(a), IsFiniteSet(b), a \cap b = {}
  PROVE  /\ IsFiniteSet(a \cup b)
         /\ Cardinality(a \cup b) = Cardinality(a) + Cardinality(b)
<1>1. IsFiniteSet(a \cup b)
      /\ Cardinality(a \cup b) = Cardinality(a) + Cardinality(b) - Cardinality(a \cap b)
  BY FS_Union
<1>2. Cardinality(a) \in Nat /\ Cardinality(b) \in Nat /\ Cardinality(a \cap b) = 0
  BY FS_CardinalityType, FS_EmptySet
<1>3. QED
  BY <1>1, <1>2

LEMMA Trichotomy ==
  ASSUME NEW v, IsFiniteSet(v), NEW s, \A b \in v : s[b] \in Int, NEW n \in Int
  PROVE  /\ Cardinality(Below(v, s, n)) \in Nat
         /\ Cardinality(Same(v, s, n)) \in Nat
         /\ Cardinality(Above(v, s, n)) \in Nat
         /\ Cardinality(v) = Cardinality(Below(v, s, n)) + Cardinality(Same(v, s, n))
                               + Cardinality(Above(v, s, n))
<1> DEFINE rest == Same(v, s, n) \cup Above(v, s, n)
<1>1. /\ IsFiniteSet(Below(v, s, n)) /\ IsFiniteSet(Same(v, s, n))
      /\ IsFiniteSet(Above(v, s, n))
  BY FS_Subset DEF Below, Same, Above
<1>2. Same(v, s, n) \cap Above(v, s, n) = {}
  BY DEF Same, Above
<1>3. IsFiniteSet(rest) /\ Cardinality(rest) =
         Cardinality(Same(v, s, n)) + Cardinality(Above(v, s, n))
  BY <1>1, <1>2, CountOfParts
<1>4. Below(v, s, n) \cap rest = {} /\ v = Below(v, s, n) \cup rest
  BY DEF Below, Same, Above
<1>5. Cardinality(v) = Cardinality(Below(v, s, n)) + Cardinality(rest)
  BY <1>1, <1>3, <1>4, CountOfParts
<1>6. QED
  BY <1>1, <1>3, <1>5, FS_CardinalityType

LEMMA OneMore ==
  ASSUME NEW v, IsFiniteSet(v), NEW x, x \notin v, NEW u, u = v \cup {x},
         NEW s, NEW n, \A b \in u : s[b] \in Int, n \in Int
  PROVE  /\ Cardinality(Below(u, s, n)) =
              Cardinality(Below(v, s, n)) + (IF s[x] < n THEN 1 ELSE 0)
         /\ Cardinality(Same(u, s, n)) =
              Cardinality(Same(v, s, n)) + (IF s[x] = n THEN 1 ELSE 0)
<1>1. IsFiniteSet(Below(v, s, n)) /\ IsFiniteSet(Same(v, s, n))
  BY FS_Subset DEF Below, Same
<1>2. Cardinality(Below(v, s, n)) \in Nat /\ Cardinality(Same(v, s, n)) \in Nat
  BY <1>1, FS_CardinalityType
<1>3. Below(u, s, n) = IF s[x] < n THEN Below(v, s, n) \cup {x} ELSE Below(v, s, n)
  BY DEF Below
<1>4. Same(u, s, n) = IF s[x] = n THEN Same(v, s, n) \cup {x} ELSE Same(v, s, n)
  BY DEF Same
<1>5. x \notin Below(v, s, n) /\ x \notin Same(v, s, n)
  BY DEF Below, Same
<1>6. /\ Cardinality(Below(v, s, n) \cup {x}) = Cardinality(Below(v, s, n)) + 1
      /\ Cardinality(Same(v, s, n) \cup {x}) = Cardinality(Same(v, s, n)) + 1
  BY <1>1, <1>5, FS_AddElement
<1>7. QED
  BY <1>2, <1>3, <1>4, <1>6

\* Places that those who tie share are shared out without rest: twice the place of a is
\* 2 for each below it and 1 for each that ties, and one more.
Places(v, s) ==
    [a \in v |-> 2 * Cardinality(Below(v, s, s[a])) + Cardinality(Same(v, s, s[a])) + 1]

LEMMA PlacesOfOneMore ==
  ASSUME NEW v, IsFiniteSet(v), NEW x, x \notin v, NEW u, u = v \cup {x},
         NEW s, \A b \in u : s[b] \in Int
  PROVE  /\ Sum(Places(u, s), u) = Sum(Places(v, s), v) + (2 * Cardinality(v) + 2)
         /\ Sum(Places(v, s), v) \in Int
<1> DEFINE n == Cardinality(v)
           below == Cardinality(Below(v, s, s[x]))
           same  == Cardinality(Same(v, s, s[x]))
           above == Cardinality(Above(v, s, s[x]))
           isAbove == [a \in v |-> IF a \in Above(v, s, s[x]) THEN 1 ELSE 0]
           isSame  == [a \in v |-> IF a \in Same(v, s, s[x]) THEN 1 ELSE 0]
           both    == [a \in v |-> isAbove[a] + isSame[a]]
           gain    == [a \in v |-> isAbove[a] + both[a]]
<1>1. IsFiniteSet(u) /\ Cardinality(u) = n + 1 /\ n \in Nat
  BY FS_AddElement, FS_CardinalityType
<1>2. below \in Nat /\ same \in Nat /\ above \in Nat /\ n = below + same + above
  BY Trichotomy
<1>3. Below(v, s, s[x]) \in SUBSET v /\ Same(v, s, s[x]) \in SUBSET v
      /\ Above(v, s, s[x]) \in SUBSET v
  BY DEF Below, Same, Above
<1>4. ASSUME NEW a \in v
      PROVE  Places(u, s)[a] = Places(v, s)[a] + gain[a] /\ Places(v, s)[a] \in Int
             /\ gain[a] \in Int /\ Places(u, s)[a] \in Int
  <2>1. a \in Above(v, s, s[x]) <=> s[x] < s[a]
    BY DEF Above
  <2>2. a \in Same(v, s, s[x]) <=> s[x] = s[a]
    BY DEF Same
  <2>3. gain[a] = 2 * (IF s[x] < s[a] THEN 1 ELSE 0) + (IF s[x] = s[a] THEN 1 ELSE 0)
    BY <2>1, <2>2
  <2>4. Cardinality(Below(v, s, s[a])) \in Nat /\ Cardinality(Same(v, s, s[a])) \in Nat
    BY Trichotomy
  <2>5. /\ Cardinality(Below(u, s, s[a])) =
              Cardinality(Below(v, s, s[a])) + (IF s[x] < s[a] THEN 1 ELSE 0)
        /\ Cardinality(Same(u, s, s[a])) =
              Cardinality(Same(v, s, s[a])) + (IF s[x] = s[a] THEN 1 ELSE 0)
    <3>1. s[a] \in Int
      OBVIOUS
    <3> HIDE DEF gain
    <3>2. QED
      BY <3>1, OneMore
  <2> HIDE DEF gain
  <2>6. /\ Places(v, s)[a] =
              2 * Cardinality(Below(v, s, s[a])) + Cardinality(Same(v, s, s[a])) + 1
        /\ Places(u, s)[a] =
              2 * Cardinality(Below(u, s, s[a])) + Cardinality(Same(u, s, s[a])) + 1
    BY DEF Places
  <2>7. QED
    BY <2>3, <2>4, <2>5, <2>6
<1>5. Places(u, s)[x] = 2 * below + same + 2
  <2>1. /\ Cardinality(Below(u, s, s[x])) = below + (IF s[x] < s[x] THEN 1 ELSE 0)
        /\ Cardinality(Same(u, s, s[x])) = same + (IF s[x] = s[x] THEN 1 ELSE 0)
    <3>1. s[x] \in Int
      OBVIOUS
    <3> HIDE DEF gain
    <3>2. QED
      BY <3>1, OneMore
  <2>2. Places(u, s)[x] =
          2 * Cardinality(Below(u, s, s[x])) + Cardinality(Same(u, s, s[x])) + 1
    BY DEF Places
  <2> HIDE DEF below, same
  <2>3. QED
    BY <1>2, <2>1, <2>2
<1>6. Sum(gain, v) = 2 * above + same
  <2>1. Sum(isAbove, v) = above /\ Sum(isSame, v) = same
    <3>1. /\ \A a \in v : isAbove[a] = IF a \in Above(v, s, s[x]) THEN 1 ELSE 0
          /\ \A a \in v : isSame[a] = IF a \in Same(v, s, s[x]) THEN 1 ELSE 0
      OBVIOUS
    <3> HIDE DEF isAbove, isSame
    <3>2. QED
      BY <1>3, <3>1, SumOfPart
  <2>2. \A a \in v : /\ isAbove[a] \in Int /\ isSame[a] \in Int
                     /\ both[a] = isAbove[a] + isSame[a] /\ both[a] \in Int
                     /\ gain[a] = isAbove[a] + both[a]
    OBVIOUS
  <2> HIDE DEF isAbove, isSame, both, gain
  <2>3. Sum(both, v) = Sum(isAbove, v) + Sum(isSame, v)
    BY <2>2, SumOfTwo
  <2>4. Sum(gain, v) = Sum(isAbove, v) + Sum(both, v)
    BY <2>2, SumOfTwo
  <2> HIDE DEF above, same
  <2>5. QED
    BY <1>2, <2>1, <2>3, <2>4
<1> HIDE DEF gain, below, same, above
<1>7. Sum(Places(u, s), v) = Sum(Places(v, s), v) + Sum(gain, v)
  BY <1>4, SumOfTwo
<1>8. Sum(Places(u, s), u) = Places(u, s)[x] + Sum(Places(u, s), v)
  <2>1. u \ {x} = v /\ x \in u
    OBVIOUS
  <2>2. \A a \in u : Places(u, s)[a] \in Int
    <3>1. Places(u, s)[x] \in Int
      BY <1>2, <1>5
    <3>2. \A a \in v : Places(u, s)[a] \in Int
      BY <1>4
    <3>3. QED
      BY <3>1, <3>2
  <2>3. QED
    BY <1>1, <2>1, <2>2, SumSplits
<1>9. Sum(Places(v, s), v) \in Int
  BY <1>4, SumType
<1>10. QED
  BY <1>1, <1>2, <1>5, <1>6, <1>7, <1>8, <1>9

LEMMA PlacesAreShared ==
  ASSUME NEW set, IsFiniteSet(set), NEW s, \A b \in set : s[b] \in Int
  PROVE  Sum(Places(set, s), set) = Cardinality(set) * (Cardinality(set) + 1)
<1> DEFINE bad == {u \in SUBSET set :
                     Sum(Places(u, s), u) # Cardinality(u) * (Cardinality(u) + 1)}
<1>1. SUFFICES ASSUME bad # {} PROVE FALSE
  OBVIOUS
<1>2. PICK u \in bad : IsFiniteSet(u) /\ \A x \in u : u \ {x} \notin bad
  <2>1. bad \subseteq SUBSET set
    OBVIOUS
  <2> HIDE DEF bad
  <2>2. QED
    BY <1>1, <2>1, LeastSet
<1>3. u \in SUBSET set /\ Sum(Places(u, s), u) # Cardinality(u) * (Cardinality(u) + 1)
  BY <1>2
<1>4. u # {}
  <2>1. Sum(Places({}, s), {}) = 0 /\ Cardinality({}) = 0
    BY SumOfNone, FS_EmptySet
  <2>2. QED
    BY <1>3, <2>1
<1>5. PICK x \in u : TRUE
  BY <1>4
<1> DEFINE v == u \ {x}
<1> DEFINE n == Cardinality(v)
<1>6. /\ IsFiniteSet(v) /\ x \notin v /\ u = v \cup {x} /\ \A b \in u : s[b] \in Int
      /\ Cardinality(u) = n + 1 /\ n \in Nat
  <2>1. IsFiniteSet(v) /\ n \in Nat /\ Cardinality(u) \in Nat /\ n = Cardinality(u) - 1
    BY <1>2, <1>5, OneLess
  <2>2. x \notin v /\ u = v \cup {x} /\ \A b \in u : s[b] \in Int
    BY <1>3, <1>5
  <2> HIDE DEF n
  <2>3. QED
    BY <2>1, <2>2
<1>7. Sum(Places(v, s), v) = n * (n + 1)
  BY <1>2, <1>3, <1>5
<1> HIDE DEF v, bad
<1>8. Sum(Places(u, s), u) = Sum(Places(v, s), v) + (2 * n + 2)
  BY <1>6, PlacesOfOneMore
<1> HIDE DEF n
<1>9. n * (n + 1) + (2 * n + 2) = (n + 1) * ((n + 1) + 1)
  BY <1>6
<1>10. QED
  BY <1>3, <1>6, <1>7, <1>8, <1>9

-----------------------------------------------------------------------------
(* The windows.                                                            *)

\* Rows with a place each, as those of a frame are.
Placed(rows) ==
    /\ IsFiniteSet(rows) /\ \A r \in rows : TypedRow(r)
    /\ \A r, s \in rows : r.at = s.at => r = s

LEMMA TimeIsNat ==
  ASSUME NEW r, TypedRow(r)
  PROVE  /\ W!NullsLast(r.ts) \in Nat /\ r.at \in Nat
         /\ r.ts # Null => r.ts \in 0..EndOfTime /\ W!NullsLast(r.ts) = r.ts
         /\ r.ts = Null => W!NullsLast(r.ts) = EndOfTime + 1
         /\ r.amount # Null => r.amount \in Int
BY FrameAssumption DEF TypedRow, RawRow, W!NullsLast

\* Before puts such rows in one order.
LEMMA BeforeIsOrder ==
  ASSUME NEW rows, Placed(rows), NEW r \in rows, NEW s \in rows
  PROVE  /\ ~W!Before(r, r)
         /\ r = s \/ W!Before(r, s) \/ W!Before(s, r)
         /\ W!Before(r, s) => ~W!Before(s, r) /\ r # s
         /\ \A t \in rows : W!Before(r, s) /\ W!Before(s, t) => W!Before(r, t)
<1>1. \A t \in rows : W!NullsLast(t.ts) \in Nat /\ t.at \in Nat
  BY TimeIsNat DEF Placed
<1>2. r = s \/ W!Before(r, s) \/ W!Before(s, r)
  <2>1. r.at = s.at => r = s
    BY DEF Placed
  <2>2. QED
    BY <1>1, <2>1 DEF W!Before
<1>3. ~W!Before(r, r) /\ (W!Before(r, s) => ~W!Before(s, r))
  BY <1>1 DEF W!Before
<1>4. \A t \in rows : W!Before(r, s) /\ W!Before(s, t) => W!Before(r, t)
  BY <1>1 DEF W!Before
<1>5. QED
  BY <1>2, <1>3, <1>4

LEMMA LastExists ==
  ASSUME NEW rows, Placed(rows), NEW set \in SUBSET rows, set # {}
  PROVE  \E l \in set : \A s \in set : s = l \/ W!Before(s, l)
<1> DEFINE HasLast(u) == \E l \in u : \A s \in u : s = l \/ W!Before(s, l)
           bad == {u \in SUBSET set : u # {} /\ ~HasLast(u)}
<1>1. SUFFICES ASSUME bad # {} PROVE FALSE
  OBVIOUS
<1>2. IsFiniteSet(set)
  BY FS_Subset DEF Placed
<1>3. PICK u \in bad : \A x \in u : u \ {x} \notin bad
  <2>1. bad \subseteq SUBSET set
    OBVIOUS
  <2> HIDE DEF bad
  <2>2. QED
    BY <1>1, <1>2, <2>1, LeastSet
<1>4. u \in SUBSET set /\ u # {} /\ ~HasLast(u)
  BY <1>3
<1>5. PICK x \in u : TRUE
  BY <1>4
<1>6. HasLast(u \ {x})
  <2>1. u \ {x} # {}
    <3>1. SUFFICES ASSUME u \ {x} = {} PROVE FALSE
      OBVIOUS
    <3>2. \A s \in u : s = x
      BY <3>1
    <3>3. QED
      BY <1>4, <1>5, <3>2
  <2>2. QED
    BY <1>3, <1>4, <1>5, <2>1
<1>7. PICK l \in u \ {x} : \A s \in u \ {x} : s = l \/ W!Before(s, l)
  BY <1>6
<1>8. x \in rows /\ l \in rows /\ u \subseteq rows
  BY <1>4, <1>5, <1>7
<1>9. CASE W!Before(x, l)
  BY <1>4, <1>7, <1>9
<1>10. CASE ~W!Before(x, l)
  <2>1. W!Before(l, x)
    BY <1>7, <1>8, <1>10, BeforeIsOrder
  <2>2. \A s \in u : s = x \/ W!Before(s, x)
    BY <1>7, <1>8, <2>1, BeforeIsOrder
  <2>3. QED
    BY <1>4, <1>5, <2>2
<1>11. QED
  BY <1>9, <1>10

LEMMA FirstExists ==
  ASSUME NEW rows, Placed(rows), NEW set \in SUBSET rows, set # {}
  PROVE  \E l \in set : \A s \in set : s = l \/ W!Before(l, s)
<1> DEFINE HasFirst(u) == \E l \in u : \A s \in u : s = l \/ W!Before(l, s)
           bad == {u \in SUBSET set : u # {} /\ ~HasFirst(u)}
<1>1. SUFFICES ASSUME bad # {} PROVE FALSE
  OBVIOUS
<1>2. IsFiniteSet(set)
  BY FS_Subset DEF Placed
<1>3. PICK u \in bad : \A x \in u : u \ {x} \notin bad
  <2>1. bad \subseteq SUBSET set
    OBVIOUS
  <2> HIDE DEF bad
  <2>2. QED
    BY <1>1, <1>2, <2>1, LeastSet
<1>4. u \in SUBSET set /\ u # {} /\ ~HasFirst(u)
  BY <1>3
<1>5. PICK x \in u : TRUE
  BY <1>4
<1>6. HasFirst(u \ {x})
  <2>1. u \ {x} # {}
    <3>1. SUFFICES ASSUME u \ {x} = {} PROVE FALSE
      OBVIOUS
    <3>2. \A s \in u : s = x
      BY <3>1
    <3>3. QED
      BY <1>4, <1>5, <3>2
  <2>2. QED
    BY <1>3, <1>4, <1>5, <2>1
<1>7. PICK l \in u \ {x} : \A s \in u \ {x} : s = l \/ W!Before(l, s)
  BY <1>6
<1>8. x \in rows /\ l \in rows /\ u \subseteq rows
  BY <1>4, <1>5, <1>7
<1>9. CASE W!Before(l, x)
  BY <1>4, <1>7, <1>9
<1>10. CASE ~W!Before(l, x)
  <2>1. W!Before(x, l)
    BY <1>7, <1>8, <1>10, BeforeIsOrder
  <2>2. \A s \in u : s = x \/ W!Before(x, s)
    BY <1>7, <1>8, <2>1, BeforeIsOrder
  <2>3. QED
    BY <1>4, <1>5, <2>2
<1>11. QED
  BY <1>9, <1>10

LEMMA EndsOf ==
  ASSUME NEW rows, Placed(rows), NEW set \in SUBSET rows, set # {},
         NEW l, l = W!LastOf(set, W!Before), NEW f, f = W!FirstOf(set, W!Before)
  PROVE  /\ l \in set /\ \A s \in set : s = l \/ W!Before(s, l)
         /\ f \in set /\ \A s \in set : s = f \/ W!Before(f, s)
BY LastExists, FirstExists DEF W!LastOf, W!FirstOf

\* The rows of r's account that have an amount, up to r; and those of them in its window.
UpTo(rows, r)   == {s \in Priced(W!Account(rows, r)) : s = r \/ W!Before(s, r)}
Within(rows, r) == {s \in UpTo(rows, r) : s.ts # Null /\ s.ts > r.ts - Week}

\* A row with an account and an amount.
Known(rows) == {r \in Priced(rows) : r.account # Null}

Amounts(rows) == [r \in rows |-> r.amount]

LEMMA AmountsAre ==
  ASSUME NEW rows, Placed(rows), NEW part \in SUBSET rows
  PROVE  /\ IsFiniteSet(part) /\ Priced(part) \in SUBSET rows /\ IsFiniteSet(Priced(part))
         /\ Total(part) = Sum(Amounts(rows), Priced(part))
         /\ \A r \in Priced(part) : Amounts(rows)[r] \in Int /\ Amounts(rows)[r] = r.amount
<1>1. Priced(part) \in SUBSET rows /\ Priced(part) \in SUBSET part
  BY DEF Priced
<1>2. IsFiniteSet(part) /\ IsFiniteSet(Priced(part))
  BY <1>1, FS_Subset DEF Placed
<1>3. \A r \in Priced(part) : Amounts(rows)[r] \in Int /\ Amounts(rows)[r] = r.amount
  <2>1. \A r \in Priced(part) : r \in rows /\ r.amount # Null
    BY DEF Priced
  <2>2. QED
    BY <2>1, TimeIsNat DEF Amounts, Placed
<1>4. QED
  BY <1>1, <1>2, <1>3, TotalIsSum

LEMMA RunningIs ==
  ASSUME NEW rows, Placed(rows), NEW r \in Known(rows)
  PROVE  W!RunningBalance(rows)[r] = Sum(Amounts(rows), UpTo(rows, r))
<1> DEFINE window == {s \in W!Account(rows, r) : s = r \/ W!Before(s, r)}
<1>1. r \in rows /\ r.account # Null /\ r.amount # Null
  BY DEF Known, Priced
<1>2. W!RunningBalance(rows)[r] = W!Total(window)
  BY <1>1 DEF W!RunningBalance
<1>3. window \in SUBSET rows
  BY DEF W!Account
<1>4. Priced(window) = UpTo(rows, r)
  BY DEF Priced, UpTo
<1> HIDE DEF window
<1>5. QED
  BY <1>2, <1>3, <1>4, CopiesOfTotal, AmountsAre

LEMMA RollingIs ==
  ASSUME NEW rows, Placed(rows), NEW r \in Known(rows), r.ts # Null
  PROVE  W!Rolling7dAmount(rows)[r] = Sum(Amounts(rows), Within(rows, r))
<1> DEFINE window == {s \in W!Account(rows, r) : /\ s = r \/ W!Before(s, r)
                                                 /\ s.ts # Null /\ s.ts > r.ts - Week}
<1>1. r \in rows /\ r.account # Null /\ r.amount # Null
  BY DEF Known, Priced
<1>2. W!Rolling7dAmount(rows)[r] = IF W!Priced(window) = {} THEN Null ELSE W!Total(window)
  BY <1>1 DEF W!Rolling7dAmount
<1>3. window \in SUBSET rows
  BY DEF W!Account
<1>4. Priced(window) = Within(rows, r)
  BY DEF Priced, UpTo, Within
<1>5. r \in Priced(window)
  <2>1. r.ts \in 0..EndOfTime
    BY <1>1, TimeIsNat DEF Placed
  <2>2. QED
    BY <1>1, <2>1, FrameAssumption DEF Priced, W!Account
<1> HIDE DEF window
<1>6. QED
  BY <1>2, <1>3, <1>4, <1>5, CopiesOfTotal, AmountsAre

\* The rows with an amount that have left the window when r comes.
LeftOf(rows, r) ==
    {q \in Priced(W!Account(rows, r)) : q.ts # Null /\ q.ts <= r.ts - Week}

LEMMA RollingIsDifference ==
  ASSUME NEW rows, Placed(rows), NEW r \in Known(rows), r.ts # Null
  PROVE  W!Rolling7dAmount(rows)[r] = W!RunningBalance(rows)[r]
            - (IF LeftOf(rows, r) = {} THEN 0
               ELSE W!RunningBalance(rows)[W!LastOf(LeftOf(rows, r), W!Before)])
<1> DEFINE left == LeftOf(rows, r)
           within == Within(rows, r)
<1>1. r \in rows /\ r.account # Null /\ r.amount # Null /\ r.ts \in 0..EndOfTime
  BY TimeIsNat DEF Known, Priced, Placed
<1>2. \A s \in Priced(W!Account(rows, r)) :
         /\ s \in rows /\ s.account = r.account /\ s \in Known(rows)
         /\ W!NullsLast(s.ts) \in Nat
         /\ s.ts # Null => s.ts \in 0..EndOfTime /\ W!NullsLast(s.ts) = s.ts
         /\ s.ts = Null => W!NullsLast(s.ts) = EndOfTime + 1
  BY <1>1, TimeIsNat DEF Known, Priced, Placed, W!Account
<1>3. W!NullsLast(r.ts) = r.ts /\ Week \in Nat /\ Week > 0 /\ EndOfTime \in Nat
  BY <1>1, TimeIsNat, FrameAssumption DEF Placed
<1>4. UpTo(rows, r) = within \cup left
  <2>1. ASSUME NEW s \in UpTo(rows, r)
        PROVE  s \in within \cup left
    <3>1. s \in Priced(W!Account(rows, r)) /\ (s = r \/ W!Before(s, r))
      BY DEF UpTo
    <3>2. s.ts # Null
      BY <1>1, <1>2, <1>3, <3>1 DEF W!Before
    <3>3. s.ts > r.ts - Week \/ s.ts <= r.ts - Week
      BY <1>1, <1>2, <1>3, <3>1, <3>2
    <3>4. QED
      BY <3>1, <3>2, <3>3 DEF Within, LeftOf
  <2>2. ASSUME NEW s \in left
        PROVE  s \in UpTo(rows, r)
    <3>1. s \in Priced(W!Account(rows, r)) /\ s.ts # Null /\ s.ts <= r.ts - Week
      BY DEF LeftOf
    <3>2. W!Before(s, r)
      BY <1>1, <1>2, <1>3, <3>1 DEF W!Before
    <3>3. QED
      BY <3>1, <3>2 DEF UpTo
  <2>3. within \subseteq UpTo(rows, r)
    BY DEF Within
  <2>4. QED
    BY <2>1, <2>2, <2>3
<1>5. within \cap left = {}
  BY <1>1, <1>2, <1>3 DEF Within, UpTo, LeftOf
<1>6. /\ within \in SUBSET rows /\ left \in SUBSET rows
      /\ IsFiniteSet(within) /\ IsFiniteSet(left)
      /\ \A s \in within \cup left : Amounts(rows)[s] \in Int
  <2>1. within \in SUBSET rows /\ left \in SUBSET rows
        /\ Priced(within) = within /\ Priced(left) = left
    BY <1>2 DEF Within, UpTo, LeftOf, Priced
  <2>2. QED
    BY <2>1, AmountsAre
<1>7. W!Rolling7dAmount(rows)[r] = Sum(Amounts(rows), within)
      /\ W!RunningBalance(rows)[r] = Sum(Amounts(rows), within) + Sum(Amounts(rows), left)
  BY <1>4, <1>5, <1>6, RollingIs, RunningIs, SumOfParts
<1>8. Sum(Amounts(rows), within) \in Int /\ Sum(Amounts(rows), left) \in Int
  BY <1>6, SumType
<1>9. CASE left = {}
  <2>1. Sum(Amounts(rows), left) = 0
    BY <1>9, SumOfNone
  <2>2. QED
    BY <1>7, <1>8, <1>9, <2>1
<1>10. CASE left # {}
  <2> DEFINE l == W!LastOf(left, W!Before)
  <2>1. l \in left /\ \A s \in left : s = l \/ W!Before(s, l)
    BY <1>6, <1>10, EndsOf
  <2>2. /\ l \in Known(rows) /\ l \in rows /\ l.account = r.account
        /\ l.ts \in 0..EndOfTime /\ W!NullsLast(l.ts) = l.ts /\ l.ts <= r.ts - Week
    BY <1>2, <2>1 DEF LeftOf
  <2>3. W!Account(rows, l) = W!Account(rows, r)
    BY <2>2 DEF W!Account
  <2> HIDE DEF l
  <2>4. ASSUME NEW s \in UpTo(rows, l)
        PROVE  s \in left
    <3>1. s \in Priced(W!Account(rows, r)) /\ (s = l \/ W!Before(s, l))
      BY <2>3 DEF UpTo
    <3>2. W!NullsLast(s.ts) <= l.ts
      BY <1>2, <2>2, <3>1 DEF W!Before
    <3>3. s.ts # Null /\ s.ts <= r.ts - Week
      BY <1>1, <1>2, <1>3, <2>2, <3>1, <3>2
    <3>4. QED
      BY <3>1, <3>3 DEF LeftOf
  <2>5. ASSUME NEW s \in left
        PROVE  s \in UpTo(rows, l)
    BY <2>1, <2>3 DEF UpTo, LeftOf
  <2>6. UpTo(rows, l) = left
    BY <2>4, <2>5
  <2>7. W!RunningBalance(rows)[l] = Sum(Amounts(rows), left)
    BY <2>2, <2>6, RunningIs
  <2>8. QED
    BY <1>7, <1>8, <1>10, <2>7 DEF l
<1>11. QED
  BY <1>9, <1>10

\* The running sum begins with the first value.
LEMMA FirstValue ==
  ASSUME NEW rows, Placed(rows), NEW r \in Known(rows)
  PROVE  \E q \in Known(rows) :
            /\ q.account = r.account
            /\ W!RunningBalance(rows)[q] = q.amount
            /\ W!FirstLastValue(rows)[r].first_amount = q.amount
<1> DEFINE set == Priced(W!Account(rows, r))
           f == W!FirstOf(set, W!Before)
<1>1. r \in rows /\ r.account # Null /\ r.amount # Null
  BY DEF Known, Priced
<1>2. set \in SUBSET rows /\ r \in set
      /\ \A s \in set : s \in Known(rows) /\ s.account = r.account
  BY <1>1 DEF W!Account, Priced, Known
<1>3. f \in set /\ \A s \in set : s = f \/ W!Before(f, s)
  <2> HIDE DEF set
  <2>1. QED
    BY <1>2, EndsOf
<1>4. W!FirstLastValue(rows)[r].first_amount = f.amount
  BY <1>1, <1>2, CopiesOfTotal DEF W!FirstLastValue
<1> HIDE DEF f
<1>5. UpTo(rows, f) = {f}
  <2>1. W!Account(rows, f) = W!Account(rows, r)
    BY <1>2, <1>3 DEF W!Account
  <2>2. \A s \in set : W!Before(s, f) => s = f
    BY <1>2, <1>3, BeforeIsOrder
  <2>3. UpTo(rows, f) = {s \in set : s = f \/ W!Before(s, f)}
    BY <2>1 DEF UpTo
  <2> HIDE DEF set
  <2>4. QED
    BY <1>3, <2>2, <2>3
<1>6. Sum(Amounts(rows), {f}) = f.amount
  <2>1. {f} \in SUBSET rows /\ Priced({f}) = {f}
    BY <1>2, <1>3 DEF Priced
  <2>2. IsFiniteSet({f}) /\ Amounts(rows)[f] = f.amount /\ f.amount \in Int
    BY <2>1, AmountsAre
  <2>3. Sum(Amounts(rows), {f}) = Amounts(rows)[f] + Sum(Amounts(rows), {f} \ {f})
    <3>1. f \in {f} /\ \A s \in {f} : Amounts(rows)[s] \in Int
      BY <2>2
    <3>2. QED
      BY <2>2, <3>1, SumSplits
  <2>4. Sum(Amounts(rows), {f} \ {f}) = 0
    <3>1. {f} \ {f} = {}
      OBVIOUS
    <3>2. QED
      BY <3>1, SumOfNone
  <2>5. QED
    BY <2>2, <2>3, <2>4
<1>7. f \in Known(rows) /\ f.account = r.account
  BY <1>2, <1>3
<1>8. W!RunningBalance(rows)[f] = f.amount
  BY <1>5, <1>6, <1>7, RunningIs
<1>9. QED
  BY <1>4, <1>7, <1>8

\* And ends with the spend.
LEMMA LastValue ==
  ASSUME NEW rows, Placed(rows), NEW r \in Known(rows)
  PROVE  \E q \in Known(rows) :
            /\ q.account = r.account
            /\ W!FirstLastValue(rows)[r].last_amount = q.amount
            /\ W!RunningBalance(rows)[q] = W!SpendingPercentile(rows)[r.account].total_spend
<1> DEFINE set == Priced(W!Account(rows, r))
           l == W!LastOf(set, W!Before)
<1>1. r \in rows /\ r.account # Null /\ r.amount # Null
  BY DEF Known, Priced
<1>2. set \in SUBSET rows /\ r \in set
      /\ \A s \in set : s \in Known(rows) /\ s.account = r.account
  BY <1>1 DEF W!Account, Priced, Known
<1>3. l \in set /\ \A s \in set : s = l \/ W!Before(s, l)
  <2> HIDE DEF set
  <2>1. QED
    BY <1>2, EndsOf
<1>4. W!FirstLastValue(rows)[r].last_amount = l.amount
  BY <1>1, <1>2, CopiesOfTotal DEF W!FirstLastValue
<1> HIDE DEF l
<1>5. UpTo(rows, l) = set
  <2>1. W!Account(rows, l) = W!Account(rows, r)
    BY <1>2, <1>3 DEF W!Account
  <2>2. QED
    BY <1>3, <2>1 DEF UpTo
<1>6. W!SpendingPercentile(rows)[r.account].total_spend = Sum(Amounts(rows), set)
  <2> DEFINE own == {s \in rows : s.account = r.account}
  <2>1. W!SpendingPercentile(rows)[r.account].total_spend = W!Total(own)
    BY <1>1 DEF W!SpendingPercentile
  <2>2. own \in SUBSET rows /\ Priced(own) = set
    BY <1>1 DEF W!Account, Priced
  <2> HIDE DEF own, set
  <2>3. QED
    BY <2>1, <2>2, CopiesOfTotal, AmountsAre
<1>7. l \in Known(rows) /\ l.account = r.account
  BY <1>2, <1>3
<1> HIDE DEF set
<1>8. W!RunningBalance(rows)[l] = Sum(Amounts(rows), set)
  BY <1>5, <1>7, RunningIs
<1>9. QED
  BY <1>4, <1>6, <1>7, <1>8

\* The rows of r's account whose amount is above its own.
Higher(rows, r) == {s \in Priced(W!Account(rows, r)) : s.amount > r.amount}

LEMMA RankIs ==
  ASSUME NEW rows, Placed(rows), NEW r \in Known(rows)
  PROVE  /\ IsFiniteSet(Higher(rows, r)) /\ Cardinality(Higher(rows, r)) \in Nat
         /\ W!RankTransactions(rows)[r].amount_rank = 1 + Cardinality(Higher(rows, r))
         /\ W!RankTransactions(rows)[r].amount_dense_rank
              = 1 + Cardinality({s.amount : s \in Higher(rows, r)})
<1>1. r \in rows /\ r.account # Null /\ r.amount # Null
  BY DEF Known, Priced
<1>2. Higher(rows, r) = {s \in W!Priced(W!Account(rows, r)) : s.amount > r.amount}
  BY CopiesOfTotal DEF Higher
<1>3. W!RankTransactions(rows)[r] =
        [amount_rank |-> 1 + W!Cardinality(Higher(rows, r)),
         amount_dense_rank |-> 1 + W!Cardinality({s.amount : s \in Higher(rows, r)})]
  BY <1>1, <1>2 DEF W!RankTransactions
<1>4. Higher(rows, r) \in SUBSET rows
  BY DEF Higher, Priced, W!Account
<1>5. IsFiniteSet(Higher(rows, r)) /\ Cardinality(Higher(rows, r)) \in Nat
  BY <1>4, FS_Subset, FS_CardinalityType DEF Placed
<1>6. QED
  BY <1>3, <1>5, CopiesOfCardinality

\* A rank counts the rows above it; a dense rank does not exceed it.
LEMMA RanksCount ==
  ASSUME NEW rows, Placed(rows), NEW r \in Known(rows),
         NEW rank, rank = W!RankTransactions(rows)
  PROVE  /\ Cardinality({q \in Known(rows) : /\ q.account = r.account
                                             /\ rank[q].amount_rank < rank[r].amount_rank})
              = rank[r].amount_rank - 1
         /\ rank[r].amount_dense_rank <= rank[r].amount_rank
<1> DEFINE above == {q \in Known(rows) : /\ q.account = r.account
                                         /\ rank[q].amount_rank < rank[r].amount_rank}
           high == Higher(rows, r)
<1>1. \A q \in Known(rows) : q \in rows /\ q.account # Null /\ q.amount \in Int
  BY TimeIsNat DEF Known, Priced, Placed
<1>2. ASSUME NEW q \in Known(rows), q.account = r.account
      PROVE  q \in above <=> q.amount > r.amount
  <2>1. /\ rank[q].amount_rank = 1 + Cardinality(Higher(rows, q))
        /\ rank[r].amount_rank = 1 + Cardinality(high)
        /\ IsFiniteSet(Higher(rows, q)) /\ Cardinality(Higher(rows, q)) \in Nat
        /\ IsFiniteSet(high) /\ Cardinality(high) \in Nat
    BY RankIs
  <2>2. W!Account(rows, q) = W!Account(rows, r)
    BY <1>2 DEF W!Account
  <2>3. \A s \in Priced(W!Account(rows, r)) : s.amount \in Int
    BY <1>1 DEF Known, Priced, W!Account
  <2>4. CASE q.amount > r.amount
    <3>1. q \in high
      BY <1>1, <1>2, <2>4 DEF Higher, W!Account, Priced, Known
    <3>2. q \notin Higher(rows, q)
      BY <1>1 DEF Higher
    <3>3. Higher(rows, q) \subseteq high \ {q}
      <4>1. ASSUME NEW s \in Higher(rows, q)
            PROVE  s \in high
        BY <1>1, <1>2, <2>2, <2>3, <2>4 DEF Higher
      <4>2. QED
        BY <3>2, <4>1
    <3>4. /\ IsFiniteSet(high \ {q}) /\ Cardinality(high \ {q}) = Cardinality(high) - 1
      BY <2>1, <3>1, OneLess
    <3>5. Cardinality(Higher(rows, q)) <= Cardinality(high \ {q})
      BY <3>3, <3>4, FS_Subset
    <3>6. QED
      BY <1>2, <2>1, <2>4, <3>4, <3>5
  <2>5. CASE ~(q.amount > r.amount)
    <3>1. high \subseteq Higher(rows, q)
      <4>1. ASSUME NEW s \in high
            PROVE  s \in Higher(rows, q)
        BY <1>1, <1>2, <2>2, <2>3, <2>5 DEF Higher
      <4>2. QED
        BY <4>1
    <3>2. Cardinality(high) <= Cardinality(Higher(rows, q))
      BY <2>1, <3>1, FS_Subset
    <3>3. QED
      BY <1>2, <2>1, <2>5, <3>2
  <2>6. QED
    BY <2>4, <2>5
<1>3. above = high
  <2>1. \A q \in high : q \in Known(rows) /\ q.account = r.account /\ q.amount > r.amount
    BY <1>1 DEF Higher, W!Account, Priced, Known
  <2>2. \A q \in Known(rows) : q.account = r.account /\ q.amount > r.amount => q \in high
    BY <1>1 DEF Higher, W!Account, Priced, Known
  <2>3. \A q \in above : q \in Known(rows) /\ q.account = r.account
    OBVIOUS
  <2> HIDE DEF above, high
  <2>4. QED
    BY <1>2, <2>1, <2>2, <2>3
<1>4. /\ rank[r].amount_rank = 1 + Cardinality(high)
      /\ rank[r].amount_dense_rank = 1 + Cardinality({s.amount : s \in high})
      /\ IsFiniteSet(high) /\ Cardinality(high) \in Nat
  BY RankIs
<1>5. Cardinality({s.amount : s \in high}) <= Cardinality(high)
      /\ Cardinality({s.amount : s \in high}) \in Nat
  <2> DEFINE h == [s \in high |-> s.amount]
  <2>1. h \in Surjection(high, {s.amount : s \in high})
    BY DEF Surjection
  <2> HIDE DEF h
  <2>2. QED
    BY <1>4, <2>1, FS_Surjection, FS_CardinalityType
<1> HIDE DEF above, high
<1>6. Cardinality(above) = Cardinality(high)
  BY <1>3
<1>7. /\ Cardinality(above) = rank[r].amount_rank - 1
      /\ rank[r].amount_dense_rank <= rank[r].amount_rank
  BY <1>4, <1>5, <1>6
<1>8. QED
  BY <1>7 DEF above

\* LEAD undoes LAG: of two rows of an account with none between, each has the other's amount.
LEMMA LeadUndoesLag ==
  ASSUME NEW rows, Placed(rows), NEW r \in rows, NEW q \in rows,
         r.account = q.account, r.account # Null, W!Before(q, r),
         ~\E s \in W!Account(rows, r) : W!Before(q, s) /\ W!Before(s, r)
  PROVE  /\ W!PreviousTransaction(rows)[r] = q.amount
         /\ W!NextTransaction(rows)[q] = r.amount
<1> DEFINE own == W!Account(rows, r)
           earlier == {s \in own : W!Before(s, r)}
           later   == {s \in own : W!Before(q, s)}
           l == W!LastOf(earlier, W!Before)
           f == W!FirstOf(later, W!Before)
<1>1. own \in SUBSET rows /\ q \in own /\ r \in own /\ W!Account(rows, q) = own
  BY DEF W!Account
<1> HIDE DEF own
<1>2. q \in earlier /\ r \in later /\ earlier \in SUBSET rows /\ later \in SUBSET rows
  BY <1>1
<1>3. W!PreviousTransaction(rows)[r] = l.amount
  BY <1>2 DEF W!PreviousTransaction, own
<1>4. W!NextTransaction(rows)[q] = f.amount
  <2>1. W!NextTransaction(rows)[q] =
           LET after == {s \in W!Account(rows, q) : W!Before(q, s)}
           IN  IF after = {} THEN Null ELSE W!FirstOf(after, W!Before).amount
    BY DEF W!NextTransaction
  <2>2. QED
    BY <1>1, <1>2, <2>1
<1>5. l = q
  <2>1. l \in earlier /\ (q = l \/ W!Before(q, l))
    <3> HIDE DEF earlier
    <3>1. QED
      BY <1>2, EndsOf
  <2>2. QED
    BY <2>1 DEF own
<1>6. f = r
  <2>1. f \in later /\ (r = f \/ W!Before(f, r))
    <3> HIDE DEF later
    <3>1. QED
      BY <1>2, EndsOf
  <2>2. QED
    BY <2>1 DEF own
<1>7. QED
  BY <1>3, <1>4, <1>5, <1>6

\* The sum of the places, as the property takes it, is the sum of a function.
PlacesOf(spend) == MapThenSumSet(LAMBDA a : spend[a].places, DOMAIN spend)

LEMMA PlacesAreSum ==
  ASSUME NEW spend, NEW w, \A k \in DOMAIN spend : w[k] = spend[k].places
  PROVE  PlacesOf(spend) = Sum(w, DOMAIN spend)
<1> DEFINE keys == DOMAIN spend
           StepOf(it) == [t \in SUBSET keys |->
                  IF t = {} THEN 0 ELSE spend[Some(t)].places + it[t \ {Some(t)}]]
<1>1. PlacesOf(spend) = (CHOOSE it : it = StepOf(it))[keys]
  BY DEF PlacesOf, MapThenSumSet, MapThenFoldSet, Some
<1>2. ASSUME NEW it
      PROVE  StepOf(it) = Step(w, keys, it)
  <2>1. ASSUME NEW t \in SUBSET keys, t # {}
        PROVE  w[Some(t)] = spend[Some(t)].places
    BY <2>1, SomeIn
  <2>2. QED
    BY <2>1 DEF Step
<1>3. (CHOOSE it : it = StepOf(it)) = Folded(w, keys)
  <2> HIDE DEF StepOf
  <2>1. QED
    BY <1>2 DEF Folded
<1>4. QED
  BY <1>1, <1>3, SumIsFolded

\* The places of the percentile add up, however many accounts share one.
LEMMA PercentilesAddUp ==
  ASSUME NEW rows, Placed(rows), NEW spend, spend = W!SpendingPercentile(rows)
  PROVE  PlacesOf(spend) = Cardinality(DOMAIN spend) * (Cardinality(DOMAIN spend) + 1)
<1> DEFINE names == {r.account : r \in rows} \ {Null}
           Own(a) == {r \in rows : r.account = a}
           s == [a \in names |-> W!Total(Own(a))]
           w == Places(names, s)
<1>1. IsFiniteSet(names)
  <2> DEFINE h == [r \in rows |-> r.account]
             all == {r.account : r \in rows}
  <2>1. h \in Surjection(rows, all)
    BY DEF Surjection
  <2> HIDE DEF h
  <2>2. IsFiniteSet(all)
    BY <2>1, FS_Surjection DEF Placed
  <2>3. QED
    BY <2>2, FS_Subset
<1>2. \A a \in names : s[a] \in Int
  <2>1. ASSUME NEW a \in names
        PROVE  W!Total(Own(a)) \in Int
    <3>1. Own(a) \in SUBSET rows
      OBVIOUS
    <3> HIDE DEF Own
    <3>2. IsFiniteSet(Own(a)) /\ \A r \in Own(a) : TypedRow(r)
      BY <3>1, FS_Subset DEF Placed
    <3>3. QED
      BY <3>2, TotalType, CopiesOfTotal
  <2>2. QED
    BY <2>1
<1>3. DOMAIN spend = names
  BY DEF W!SpendingPercentile
<1>4. ASSUME NEW a \in names
      PROVE  spend[a].places = w[a]
  <2> DEFINE below == {b \in names : W!Total(Own(b)) < W!Total(Own(a))}
             same  == {b \in names : W!Total(Own(b)) = W!Total(Own(a))}
  <2>1. spend[a].places = 2 * W!Cardinality(below) + W!Cardinality(same) + 1
    BY DEF W!SpendingPercentile
  <2>2. below = Below(names, s, s[a]) /\ same = Same(names, s, s[a])
    BY DEF Below, Same
  <2>3. w[a] = 2 * Cardinality(Below(names, s, s[a])) + Cardinality(Same(names, s, s[a])) + 1
    BY DEF Places
  <2> HIDE DEF below, same, s, names, w
  <2>4. QED
    BY <2>1, <2>2, <2>3, CopiesOfCardinality
<1> HIDE DEF names, s
<1>5. Sum(w, names) = Cardinality(names) * (Cardinality(names) + 1)
  BY <1>1, <1>2, PlacesAreShared
<1> HIDE DEF w
<1>6. PlacesOf(spend) = Sum(w, DOMAIN spend)
  BY <1>3, <1>4, PlacesAreSum
<1>7. QED
  BY <1>3, <1>5, <1>6

LEMMA WindowsLemma ==
  ASSUME FrameInv
  PROVE  WindowsReconcile
<1> DEFINE running == W!RunningBalance(typed)
           rolling == W!Rolling7dAmount(typed)
           ends    == W!FirstLastValue(typed)
           spend   == W!SpendingPercentile(typed)
           rank    == W!RankTransactions(typed)
           known   == {r \in Priced(typed) : r.account # Null}
<1>1. Placed(typed)
  BY RowsOfFrame DEF Placed
<1>2. known = Known(typed)
  BY DEF Known
<1>3. \A r : Left(r) = LeftOf(typed, r)
  BY DEF Left, LeftOf
<1> HIDE DEF known
<1>4. ASSUME NEW r \in known
      PROVE  /\ r.ts # Null =>
                   rolling[r] = running[r] - (IF Left(r) = {} THEN 0
                                              ELSE running[W!LastOf(Left(r), W!Before)])
             /\ \E q \in known :
                   /\ q.account = r.account
                   /\ running[q] = q.amount /\ ends[r].first_amount = q.amount
             /\ \E q \in known :
                   /\ q.account = r.account /\ ends[r].last_amount = q.amount
                   /\ running[q] = spend[r.account].total_spend
             /\ Cardinality({q \in known : /\ q.account = r.account
                                           /\ rank[q].amount_rank < rank[r].amount_rank})
                   = rank[r].amount_rank - 1
             /\ rank[r].amount_dense_rank <= rank[r].amount_rank
  <2>1. r \in Known(typed)
    BY <1>2
  <2>2. r.ts # Null =>
           rolling[r] = running[r] - (IF Left(r) = {} THEN 0
                                      ELSE running[W!LastOf(Left(r), W!Before)])
    BY <1>1, <1>3, <2>1, RollingIsDifference
  <2>3. \E q \in Known(typed) :
           /\ q.account = r.account
           /\ running[q] = q.amount /\ ends[r].first_amount = q.amount
    BY <1>1, <2>1, FirstValue
  <2>4. \E q \in Known(typed) :
           /\ q.account = r.account /\ ends[r].last_amount = q.amount
           /\ running[q] = spend[r.account].total_spend
    BY <1>1, <2>1, LastValue
  <2>5. /\ Cardinality({q \in Known(typed) : /\ q.account = r.account
                                           /\ rank[q].amount_rank < rank[r].amount_rank})
              = rank[r].amount_rank - 1
        /\ rank[r].amount_dense_rank <= rank[r].amount_rank
    BY <1>1, <2>1, RanksCount
  <2> HIDE DEF running, rolling, ends, spend, rank
  <2>6. QED
    BY <1>2, <2>2, <2>3, <2>4, <2>5
<1>5. ASSUME NEW r \in typed, NEW q \in typed,
             r.account = q.account, r.account # Null, W!Before(q, r)
      PROVE  \/ /\ W!PreviousTransaction(typed)[r] = q.amount
                /\ W!NextTransaction(typed)[q] = r.amount
             \/ \E s \in W!Account(typed, r) : W!Before(q, s) /\ W!Before(s, r)
  BY <1>1, <1>5, LeadUndoesLag
<1>6. MapThenSumSet(LAMBDA a : spend[a].places, DOMAIN spend)
         = Cardinality(DOMAIN spend) * (Cardinality(DOMAIN spend) + 1)
  <2>1. PlacesOf(spend) = Cardinality(DOMAIN spend) * (Cardinality(DOMAIN spend) + 1)
    BY <1>1, PercentilesAddUp
  <2> HIDE DEF spend
  <2>2. QED
    BY <2>1 DEF PlacesOf
<1>7. QED
  <2> HIDE DEF running, rolling, ends, spend, rank
  <2>1. WindowsReconcile =
          (/\ \A r \in known :
                /\ r.ts # Null =>
                      rolling[r] = running[r] - (IF Left(r) = {} THEN 0
                                                 ELSE running[W!LastOf(Left(r), W!Before)])
                /\ \E q \in known :
                      /\ q.account = r.account
                      /\ running[q] = q.amount /\ ends[r].first_amount = q.amount
                /\ \E q \in known :
                      /\ q.account = r.account /\ ends[r].last_amount = q.amount
                      /\ running[q] = spend[r.account].total_spend
                /\ Cardinality({q \in known : /\ q.account = r.account
                                              /\ rank[q].amount_rank < rank[r].amount_rank})
                      = rank[r].amount_rank - 1
                /\ rank[r].amount_dense_rank <= rank[r].amount_rank
           /\ \A r, q \in typed : r.account = q.account /\ r.account # Null /\ W!Before(q, r)
                => \/ /\ W!PreviousTransaction(typed)[r] = q.amount
                      /\ W!NextTransaction(typed)[q] = r.amount
                   \/ \E s \in W!Account(typed, r) : W!Before(q, s) /\ W!Before(s, r)
           /\ LET n == Cardinality(DOMAIN spend)
              IN  MapThenSumSet(LAMBDA a : spend[a].places, DOMAIN spend) = n * (n + 1))
    BY DEF WindowsReconcile, running, rolling, ends, spend, rank, known
  <2>2. QED
    BY <1>4, <1>5, <1>6, <2>1

-----------------------------------------------------------------------------
(* The star schema and the custom checks.                                  *)

LEMMA GreatestExists ==
  ASSUME NEW set, IsFiniteSet(set), set # {}, set \subseteq Int
  PROVE  \E x \in set : \A y \in set : x >= y
<1> DEFINE HasMax(u) == \E x \in u : \A y \in u : x >= y
           bad == {u \in SUBSET set : u # {} /\ ~HasMax(u)}
<1>1. SUFFICES ASSUME bad # {} PROVE FALSE
  OBVIOUS
<1>2. PICK u \in bad : \A x \in u : u \ {x} \notin bad
  <2>1. bad \subseteq SUBSET set
    OBVIOUS
  <2> HIDE DEF bad
  <2>2. QED
    BY <1>1, <2>1, LeastSet
<1>3. u \in SUBSET set /\ u # {} /\ ~HasMax(u)
  BY <1>2
<1>4. PICK x \in u : TRUE
  BY <1>3
<1>5. HasMax(u \ {x})
  <2>1. u \ {x} # {}
    <3>1. SUFFICES ASSUME u \ {x} = {} PROVE FALSE
      OBVIOUS
    <3>2. \A y \in u : y = x
      BY <3>1
    <3>3. x \in Int /\ \A y \in u : x >= y
      BY <1>3, <1>4, <3>2
    <3>4. QED
      BY <1>3, <1>4, <3>3
  <2>2. QED
    BY <1>2, <1>3, <1>4, <2>1
<1>6. PICK m \in u \ {x} : \A y \in u \ {x} : m >= y
  BY <1>5
<1>7. m \in Int /\ x \in Int /\ \A y \in u : y \in Int
  BY <1>3, <1>4, <1>6
<1>8. CASE m >= x
  BY <1>3, <1>6, <1>8
<1>9. CASE ~(m >= x)
  <2>1. \A y \in u : x >= y
    BY <1>6, <1>7, <1>9
  <2>2. QED
    BY <1>3, <1>4, <2>1
<1>10. QED
  BY <1>8, <1>9

LEMMA LeastExists ==
  ASSUME NEW set, IsFiniteSet(set), set # {}, set \subseteq Int
  PROVE  \E x \in set : \A y \in set : x <= y
<1> DEFINE HasMin(u) == \E x \in u : \A y \in u : x <= y
           bad == {u \in SUBSET set : u # {} /\ ~HasMin(u)}
<1>1. SUFFICES ASSUME bad # {} PROVE FALSE
  OBVIOUS
<1>2. PICK u \in bad : \A x \in u : u \ {x} \notin bad
  <2>1. bad \subseteq SUBSET set
    OBVIOUS
  <2> HIDE DEF bad
  <2>2. QED
    BY <1>1, <2>1, LeastSet
<1>3. u \in SUBSET set /\ u # {} /\ ~HasMin(u)
  BY <1>2
<1>4. PICK x \in u : TRUE
  BY <1>3
<1>5. HasMin(u \ {x})
  <2>1. u \ {x} # {}
    <3>1. SUFFICES ASSUME u \ {x} = {} PROVE FALSE
      OBVIOUS
    <3>2. \A y \in u : y = x
      BY <3>1
    <3>3. x \in Int /\ \A y \in u : x <= y
      BY <1>3, <1>4, <3>2
    <3>4. QED
      BY <1>3, <1>4, <3>3
  <2>2. QED
    BY <1>2, <1>3, <1>4, <2>1
<1>6. PICK m \in u \ {x} : \A y \in u \ {x} : m <= y
  BY <1>5
<1>7. m \in Int /\ x \in Int /\ \A y \in u : y \in Int
  BY <1>3, <1>4, <1>6
<1>8. CASE m <= x
  BY <1>3, <1>6, <1>8
<1>9. CASE ~(m <= x)
  <2>1. \A y \in u : x <= y
    BY <1>6, <1>7, <1>9
  <2>2. QED
    BY <1>3, <1>4, <2>1
<1>10. QED
  BY <1>8, <1>9

\* The ends of a finite set of numbers, and that nothing else is at its ends.
LEMMA EndsAre ==
  ASSUME NEW set, IsFiniteSet(set), set # {}, set \subseteq Int
  PROVE  /\ Max(set) \in set /\ \A y \in set : y <= Max(set)
         /\ Min(set) \in set /\ \A y \in set : Min(set) <= y
         /\ \A x \in set : (\A y \in set : y <= x) => Max(set) = x
         /\ \A x \in set : (\A y \in set : x <= y) => Min(set) = x
<1>1. Max(set) \in set /\ \A y \in set : Max(set) >= y
  BY GreatestExists DEF Max
<1>2. Min(set) \in set /\ \A y \in set : Min(set) <= y
  BY LeastExists DEF Min
<1>3. ASSUME NEW x \in set, \A y \in set : y <= x
      PROVE  Max(set) = x
  <2>1. Max(set) >= x /\ Max(set) <= x /\ Max(set) \in Int /\ x \in Int
    BY <1>1, <1>3
  <2>2. QED
    BY <2>1
<1>4. ASSUME NEW x \in set, \A y \in set : x <= y
      PROVE  Min(set) = x
  <2>1. Min(set) <= x /\ x <= Min(set) /\ Min(set) \in Int /\ x \in Int
    BY <1>2, <1>4
  <2>2. QED
    BY <2>1
<1>5. \A y \in set : y <= Max(set)
  <2>1. ASSUME NEW y \in set
        PROVE  y <= Max(set)
    <3>1. Max(set) >= y /\ Max(set) \in Int /\ y \in Int
      BY <1>1
    <3>2. QED
      BY <3>1
  <2>2. QED
    BY <2>1
<1>6. QED
  BY <1>1, <1>2, <1>3, <1>4, <1>5

LEMMA CopiesInStar ==
  ASSUME NEW x
  PROVE  /\ D!Min(x) = Min(x) /\ D!Max(x) = Max(x)
         /\ Q!Min(x) = Min(x) /\ Q!Max(x) = Max(x) /\ Q!Priced(x) = Priced(x)
BY DEF D!Min, Min, D!Max, Max, Q!Min, Q!Max, Q!Priced, Priced

\* Whole days.
LEMMA DayOf ==
  ASSUME NEW n \in Int
  PROVE  /\ n \div Day \in Int
         /\ Day * (n \div Day) <= n /\ n < Day * (n \div Day) + Day
BY FrameAssumption

LEMMA DatesAre ==
  ASSUME NEW rows, Placed(rows), NEW r \in rows
  PROVE  /\ r.ts # Null => DateOf(r) \in 0..EndOfTime /\ DateOf(r) = r.ts \div Day
                           /\ DateOf(r) # Null
         /\ r.ts = Null => DateOf(r) = Null
<1>1. ASSUME r.ts # Null
      PROVE  DateOf(r) \in 0..EndOfTime /\ DateOf(r) = r.ts \div Day /\ DateOf(r) # Null
  <2>1. r.ts \in 0..EndOfTime
    BY <1>1, TimeIsNat DEF Placed
  <2>2. DateOf(r) = r.ts \div Day
    BY <1>1 DEF DateOf
  <2>3. r.ts \div Day \in 0..EndOfTime
    BY <2>1, FrameAssumption
  <2>4. QED
    BY <2>2, <2>3, FrameAssumption
<1>2. QED
  BY <1>1 DEF DateOf

\* A fact for each row, with the key of the one account that it has, if any.
LEMMA FactsOfStar ==
  ASSUME FrameInv,
         NEW facts, facts = D!BuildFactTransaction(typed, D!BuildDimAccount(AccountRows))
  PROVE  /\ {f.txn : f \in facts} = typed /\ Cardinality(facts) = Cardinality(typed)
         /\ \A f \in facts :
               /\ f.txn \in typed
               /\ f.account_sk = Null <=> \A a \in AccountRows : a.account # f.txn.account
               /\ f.date_sk = IF f.txn.ts = Null THEN Null ELSE [text |-> DateOf(f.txn)]
<1> DEFINE dim == D!BuildDimAccount(AccountRows)
           Matches(r) == {d \in dim : d.account = r.account}
           DateSk(r) == IF r.ts = Null THEN Null ELSE [text |-> DateOf(r)]
           Fact(r, d) == [txn |-> r, account_sk |-> IF d = Null THEN Null ELSE d.account_sk,
                          of |-> d, date_sk |-> DateSk(r)]
           Of(r) == IF Matches(r) = {} THEN {Null} ELSE Matches(r)
<1>1. facts = UNION {{Fact(r, d) : d \in Of(r)} : r \in typed}
  BY DEF D!BuildFactTransaction, D!DateOf, DateOf
<1>2. /\ Null \notin dim
      /\ \A d \in dim : \E a \in AccountRows :
            d.account = a.account /\ d.account_sk = a.account /\ d.customer = a.customer
            /\ d = [account_sk |-> a.account, account |-> a.account, customer |-> a.customer]
      /\ \A a \in AccountRows : \E d \in dim : d.account = a.account
      /\ \A a \in AccountRows : a.account # Null
  <2>1. Null \notin dim
    BY NullAssumption
  <2>2. \A d \in dim : \E a \in AccountRows :
            d = [account_sk |-> a.account, account |-> a.account, customer |-> a.customer]
    BY DEF D!BuildDimAccount
  <2>3. \A a \in AccountRows :
            [account_sk |-> a.account, account |-> a.account, customer |-> a.customer] \in dim
    BY DEF D!BuildDimAccount
  <2>4. \A a \in AccountRows : a.account # Null
    BY AgreeAssumption
  <2> HIDE DEF dim
  <2>5. \A d \in dim : \E a \in AccountRows :
            d.account = a.account /\ d.account_sk = a.account /\ d.customer = a.customer
            /\ d = [account_sk |-> a.account, account |-> a.account, customer |-> a.customer]
    BY <2>2
  <2>6. \A a \in AccountRows : \E d \in dim : d.account = a.account
    BY <2>3
  <2>7. QED
    BY <2>1, <2>4, <2>5, <2>6
<1>3. \A d, e \in dim : d.account = e.account => d = e
  BY <1>2, KeyAssumption
<1> HIDE DEF dim
<1>4. ASSUME NEW f \in facts
      PROVE  \E r \in typed : \E d \in Of(r) : f = Fact(r, d)
  BY <1>1
<1>5. ASSUME NEW r \in typed
      PROVE  \E f \in facts : f.txn = r
  <2>1. \E d : d \in Of(r)
    OBVIOUS
  <2>2. PICK d \in Of(r) : TRUE
    BY <2>1
  <2>3. Fact(r, d) \in facts /\ Fact(r, d).txn = r
    BY <1>1
  <2>4. QED
    BY <2>3
<1>6. ASSUME NEW f \in facts
      PROVE  /\ f.txn \in typed
             /\ f.account_sk = Null <=> \A a \in AccountRows : a.account # f.txn.account
             /\ f.date_sk = DateSk(f.txn)
  <2>1. PICK r \in typed : \E d \in Of(r) : f = Fact(r, d)
    BY <1>4
  <2>2. PICK d \in Of(r) : f = Fact(r, d)
    BY <2>1
  <2>3. f.txn = r /\ f.date_sk = DateSk(r)
        /\ f.account_sk = IF d = Null THEN Null ELSE d.account_sk
    BY <2>2
  <2>4. f.account_sk = Null <=> Matches(r) = {}
    BY <1>2, <2>3
  <2>5. Matches(r) = {} <=> \A a \in AccountRows : a.account # r.account
    BY <1>2
  <2>6. QED
    BY <2>3, <2>4, <2>5
<1>7. ASSUME NEW f \in facts, NEW g \in facts, f.txn = g.txn
      PROVE  f = g
  <2>1. PICK r \in typed : \E d \in Of(r) : f = Fact(r, d)
    BY <1>4
  <2>2. PICK d \in Of(r) : f = Fact(r, d)
    BY <2>1
  <2>3. PICK q \in typed : \E e \in Of(q) : g = Fact(q, e)
    BY <1>4
  <2>4. PICK e \in Of(q) : g = Fact(q, e)
    BY <2>3
  <2>5. r = q
    BY <1>7, <2>2, <2>4
  <2>6. d = e
    BY <1>3, <2>5
  <2> HIDE DEF Fact, Of
  <2>7. QED
    BY <2>2, <2>4, <2>5, <2>6
<1>8. Cardinality(facts) = Cardinality(typed)
  <2> DEFINE h == [f \in facts |-> f.txn]
  <2>1. h \in Injection(facts, typed) /\ h \in Surjection(facts, typed)
    BY <1>5, <1>6, <1>7 DEF Injection, IsInjective, Surjection
  <2>2. IsFiniteSet(typed)
    BY RowsOfFrame
  <2> HIDE DEF h
  <2>3. QED
    BY <2>1, <2>2, FS_Injection
<1>9. {f.txn : f \in facts} = typed
  <2>1. \A r \in typed : \E f \in facts : f.txn = r
    BY <1>5
  <2>2. \A f \in facts : f.txn \in typed
    BY <1>6
  <2> HIDE DEF Matches, Fact, Of, DateSk
  <2>3. QED
    BY <2>1, <2>2
<1>10. QED
  BY <1>6, <1>8, <1>9

\* The dates of a frame, and the date dimension between them.
Dates(rows) == {DateOf(r) : r \in rows} \ {Null}

LEMMA DatesInDimension ==
  ASSUME NEW rows, Placed(rows)
  PROVE  /\ IsFiniteSet(Dates(rows)) /\ Dates(rows) \subseteq 0..EndOfTime
         /\ Dates(rows) \subseteq D!BuildDimDate(rows)
         /\ Dates(rows) # {} => D!BuildDimDate(rows) = Min(Dates(rows))..Max(Dates(rows))
<1>1. IsFiniteSet(Dates(rows))
  <2> DEFINE all == {DateOf(r) : r \in rows}
             h == [r \in rows |-> DateOf(r)]
  <2>1. h \in Surjection(rows, all)
    BY DEF Surjection
  <2> HIDE DEF h
  <2>2. IsFiniteSet(all)
    BY <2>1, FS_Surjection DEF Placed
  <2>3. QED
    BY <2>2, FS_Subset DEF Dates
<1>2. Dates(rows) \subseteq 0..EndOfTime
  BY DatesAre DEF Dates
<1>3. D!BuildDimDate(rows) = IF Dates(rows) = {} THEN {} ELSE Min(Dates(rows))..Max(Dates(rows))
  <2>1. {D!DateOf(r) : r \in rows} = {DateOf(r) : r \in rows}
    BY DEF D!DateOf, DateOf
  <2>2. QED
    BY <2>1, CopiesInStar DEF D!BuildDimDate, Dates
<1>4. ASSUME Dates(rows) # {}
      PROVE  Dates(rows) \subseteq Min(Dates(rows))..Max(Dates(rows))
  <2>1. Dates(rows) \subseteq Int
    BY <1>2
  <2>2. /\ Max(Dates(rows)) \in Dates(rows) /\ \A y \in Dates(rows) : y <= Max(Dates(rows))
        /\ Min(Dates(rows)) \in Dates(rows) /\ \A y \in Dates(rows) : Min(Dates(rows)) <= y
    BY <1>1, <1>4, <2>1, EndsAre
  <2>3. QED
    BY <2>1, <2>2
<1>5. QED
  BY <1>1, <1>2, <1>3, <1>4

\* The groups of the daily summary have the dates, and the ends of their own amounts.
LowOf(group) == IF Priced(group) = {} THEN Null ELSE Min({r.amount : r \in Priced(group)})
HighOf(group) == IF Priced(group) = {} THEN Null ELSE Max({r.amount : r \in Priced(group)})

LEMMA GroupsAre ==
  ASSUME NEW rows, Placed(rows), NEW daily, daily = S!AggregateDaily(rows)
  PROVE  /\ {k[1] : k \in DOMAIN daily} \ {Null} = Dates(rows)
         /\ \A k \in DOMAIN daily : \E group \in SUBSET rows :
               daily[k].min_amount = LowOf(group) /\ daily[k].max_amount = HighOf(group)
         /\ \A r \in rows : \E k \in DOMAIN daily : \E group \in SUBSET rows :
               /\ r \in group
               /\ daily[k].min_amount = LowOf(group) /\ daily[k].max_amount = HighOf(group)
<1> DEFINE Key(r) == <<DateOf(r), r.currency>>
           Group(k) == {r \in rows : Key(r) = k}
<1>1. /\ DOMAIN daily = {Key(r) : r \in rows}
      /\ \A k \in DOMAIN daily :
            daily[k] = (IF Priced(Group(k)) = {}
                          THEN [Measures(Group(k)) EXCEPT !.total_amount = Null]
                        ELSE Measures(Group(k)))
  BY CopiesOfMeasures, CopiesOfTotal DEF S!AggregateDaily, S!DateOf, DateOf
<1>2. ASSUME NEW group
      PROVE  /\ Measures(group).min_amount = LowOf(group)
             /\ Measures(group).max_amount = HighOf(group)
             /\ [Measures(group) EXCEPT !.total_amount = Null].min_amount = LowOf(group)
             /\ [Measures(group) EXCEPT !.total_amount = Null].max_amount = HighOf(group)
  <2> DEFINE amounts == {r.amount : r \in Priced(group)}
  <2>1. amounts = {} <=> Priced(group) = {}
    OBVIOUS
  <2>2. QED
    BY <2>1 DEF Measures, LowOf, HighOf
<1>3. \A k \in DOMAIN daily : /\ daily[k].min_amount = LowOf(Group(k))
                              /\ daily[k].max_amount = HighOf(Group(k))
  BY <1>1, <1>2
<1>4. \A k : Group(k) \in SUBSET rows
  OBVIOUS
<1>5. \A r \in rows : Key(r) \in DOMAIN daily /\ r \in Group(Key(r))
  BY <1>1
<1>6. {k[1] : k \in DOMAIN daily} \ {Null} = Dates(rows)
  <2>1. \A k \in DOMAIN daily : \E r \in rows : k[1] = DateOf(r)
    BY <1>1
  <2>2. \A r \in rows : Key(r) \in DOMAIN daily /\ Key(r)[1] = DateOf(r)
    BY <1>1
  <2> HIDE DEF Key
  <2>3. {k[1] : k \in DOMAIN daily} = {DateOf(r) : r \in rows}
    BY <2>1, <2>2
  <2>4. QED
    BY <2>3 DEF Dates
<1> HIDE DEF Group, Key
<1>7. QED
  BY <1>3, <1>4, <1>5, <1>6

\* The ends of the profile are those of the groups' ends.
LEMMA EndsReconcile ==
  ASSUME NEW rows, Placed(rows), NEW daily, daily = S!AggregateDaily(rows),
         NEW amount, amount = Q!ProfileAmount(rows),
         NEW lows, lows = {daily[k].min_amount : k \in DOMAIN daily} \ {Null},
         NEW highs, highs = {daily[k].max_amount : k \in DOMAIN daily} \ {Null},
         lows # {}
  PROVE  amount.min = Min(lows) /\ amount.max = Max(highs)
<1> DEFINE all == {r.amount : r \in Priced(rows)}
           AllOf(group) == {r.amount : r \in Priced(group)}
<1>1. ASSUME NEW group \in SUBSET rows, Priced(group) # {}
      PROVE  /\ AllOf(group) \subseteq all /\ IsFiniteSet(AllOf(group)) /\ AllOf(group) # {}
             /\ AllOf(group) \subseteq Int
  <2>1. Priced(group) \subseteq Priced(rows)
    BY DEF Priced
  <2>2. \A r \in Priced(rows) : r.amount \in Int
    BY TimeIsNat DEF Priced, Placed
  <2>3. IsFiniteSet(Priced(group))
    BY AmountsAre
  <2> DEFINE h == [r \in Priced(group) |-> r.amount]
  <2>4. h \in Surjection(Priced(group), AllOf(group))
    BY DEF Surjection
  <2> HIDE DEF h
  <2>5. IsFiniteSet(AllOf(group))
    BY <2>3, <2>4, FS_Surjection
  <2>6. QED
    BY <1>1, <2>1, <2>2, <2>5
<1>2. ASSUME NEW group \in SUBSET rows, Priced(group) # {}
      PROVE  /\ LowOf(group) \in all /\ \A y \in AllOf(group) : LowOf(group) <= y
             /\ HighOf(group) \in all /\ \A y \in AllOf(group) : y <= HighOf(group)
  <2>1. LowOf(group) = Min(AllOf(group)) /\ HighOf(group) = Max(AllOf(group))
    BY <1>2 DEF LowOf, HighOf
  <2> HIDE DEF AllOf, all
  <2>2. QED
    BY <1>1, <1>2, <2>1, EndsAre
<1>none. \A group : Priced(group) = {} => LowOf(group) = Null /\ HighOf(group) = Null
  BY DEF LowOf, HighOf
<1>3. ASSUME NEW k \in DOMAIN daily
      PROVE  /\ daily[k].min_amount # Null => daily[k].min_amount \in all
             /\ daily[k].max_amount # Null => daily[k].max_amount \in all
  <2>1. PICK group \in SUBSET rows :
           daily[k].min_amount = LowOf(group) /\ daily[k].max_amount = HighOf(group)
    BY GroupsAre
  <2> HIDE DEF AllOf, all
  <2>2. QED
    BY <1>2, <1>none, <2>1
<1>4. ASSUME NEW r \in Priced(rows)
      PROVE  \E k \in DOMAIN daily :
                /\ daily[k].min_amount # Null /\ daily[k].max_amount # Null
                /\ daily[k].min_amount <= r.amount /\ r.amount <= daily[k].max_amount
  <2>1. r \in rows /\ r.amount # Null
    BY DEF Priced
  <2>2. PICK k \in DOMAIN daily : \E group \in SUBSET rows :
           /\ r \in group
           /\ daily[k].min_amount = LowOf(group) /\ daily[k].max_amount = HighOf(group)
    BY <2>1, GroupsAre
  <2>3. PICK group \in SUBSET rows :
           /\ r \in group
           /\ daily[k].min_amount = LowOf(group) /\ daily[k].max_amount = HighOf(group)
    BY <2>2
  <2>4. Priced(group) # {} /\ r.amount \in AllOf(group)
    BY <2>1, <2>3 DEF Priced
  <2>5. \A x \in all : x # Null
    BY DEF Priced
  <2> HIDE DEF AllOf, all
  <2>6. QED
    BY <1>2, <2>3, <2>4, <2>5
<1>5. all # {}
  <2>1. PICK k \in DOMAIN daily : daily[k].min_amount # Null
    OBVIOUS
  <2>2. QED
    BY <1>3, <2>1
<1>6. IsFiniteSet(all) /\ all \subseteq Int
  <2>1. rows \in SUBSET rows /\ Priced(rows) # {}
    BY <1>5
  <2>2. QED
    BY <1>1, <2>1
<1>7. amount.min = Min(all) /\ amount.max = Max(all)
  BY <1>5, CopiesInStar DEF Q!ProfileAmount
<1>8. lows \subseteq all /\ highs \subseteq all
  BY <1>3
<1>9. \A x \in all : (\E y \in lows : y <= x) /\ (\E y \in highs : x <= y)
  <2>1. ASSUME NEW r \in Priced(rows)
        PROVE  (\E y \in lows : y <= r.amount) /\ (\E y \in highs : r.amount <= y)
    BY <1>4
  <2>2. QED
    BY <2>1
<1> HIDE DEF all
<1>10. /\ Min(all) \in all /\ \A y \in all : Min(all) <= y
       /\ Max(all) \in all /\ \A y \in all : y <= Max(all)
  BY <1>5, <1>6, EndsAre
<1>11. IsFiniteSet(lows) /\ IsFiniteSet(highs) /\ lows \subseteq Int /\ highs \subseteq Int
       /\ highs # {}
  BY <1>5, <1>6, <1>8, <1>9, FS_Subset
<1>12. Min(all) \in lows /\ Max(all) \in highs
  <2>1. PICK y \in lows : y <= Min(all)
    BY <1>9, <1>10
  <2>2. y = Min(all)
    <3>1. y \in Int /\ Min(all) \in Int /\ y <= Min(all) /\ Min(all) <= y
      BY <1>6, <1>8, <1>10, <2>1
    <3>2. QED
      BY <3>1
  <2>3. PICK z \in highs : Max(all) <= z
    BY <1>9, <1>10
  <2>4. z = Max(all)
    <3>1. z \in Int /\ Max(all) \in Int /\ z <= Max(all) /\ Max(all) <= z
      BY <1>6, <1>8, <1>10, <2>3
    <3>2. QED
      BY <3>1
  <2>5. QED
    BY <2>2, <2>4
<1>13. Min(lows) = Min(all)
  <2>1. \A y \in lows : Min(all) <= y
    BY <1>8, <1>10
  <2>2. \A set : /\ IsFiniteSet(set) /\ set # {} /\ set \subseteq Int
                  => \A x \in set : (\A y \in set : x <= y) => Min(set) = x
    BY EndsAre, Zenon
  <2>3. \A x \in lows : (\A y \in lows : x <= y) => Min(lows) = x
    BY <1>11, <2>2, Zenon
  <2>4. QED
    BY <1>12, <2>1, <2>3
<1>14. Max(highs) = Max(all)
  <2>1. \A y \in highs : y <= Max(all)
    BY <1>8, <1>10
  <2>2. \A set : /\ IsFiniteSet(set) /\ set # {} /\ set \subseteq Int
                  => \A x \in set : (\A y \in set : y <= x) => Max(set) = x
    BY EndsAre, Zenon
  <2>3. \A x \in highs : (\A y \in highs : y <= x) => Max(highs) = x
    BY <1>11, <2>2, Zenon
  <2>4. QED
    BY <1>12, <2>1, <2>3
<1>15. QED
  BY <1>7, <1>13, <1>14

\* The age in whole days and the days between the dates differ by less than one.
LEMMA AgeInDays ==
  ASSUME NEW n \in Int, NEW m \in Int, NEW age \in Int
  PROVE  /\ m \div Day >= n \div Day - age => (n - m) \div Day <= age
         /\ (n - m) \div Day <= age => m \div Day >= n \div Day - (age + 1)
<1> DEFINE qn == n \div Day
           qm == m \div Day
           q  == (n - m) \div Day
<1>1. /\ qn \in Int /\ Day * qn <= n /\ n < Day * qn + Day
      /\ qm \in Int /\ Day * qm <= m /\ m < Day * qm + Day
      /\ q \in Int /\ Day * q <= n - m /\ n - m < Day * q + Day
  BY DayOf
<1>2. Day \in Nat /\ Day > 0
  BY FrameAssumption
<1> HIDE DEF qn, qm, q
<1>3. ASSUME qm >= qn - age, ~(q <= age)
      PROVE  FALSE
  <2>1. q >= (qn - qm) + 1
    BY <1>1, <1>3
  <2>2. Day * q >= Day * ((qn - qm) + 1)
    BY <1>1, <1>2, <2>1
  <2>3. Day * ((qn - qm) + 1) = Day * qn - Day * qm + Day
    BY <1>1, <1>2
  <2> DEFINE a == Day * q
             b == Day * qn
             c == Day * qm
  <2>4. a \in Int /\ b \in Int /\ c \in Int
    BY <1>1, <1>2
  <2>5. a >= b - c + Day /\ a <= n - m /\ n < b + Day /\ c <= m
    BY <1>1, <2>2, <2>3
  <2> HIDE DEF a, b, c
  <2>6. QED
    BY <1>2, <2>4, <2>5
<1>4. ASSUME q <= age, ~(qm >= qn - (age + 1))
      PROVE  FALSE
  <2>1. qn - qm >= q + 2
    BY <1>1, <1>4
  <2>2. Day * (qn - qm) >= Day * (q + 2)
    BY <1>1, <1>2, <2>1
  <2>3. Day * (qn - qm) = Day * qn - Day * qm /\ Day * (q + 2) = Day * q + 2 * Day
    BY <1>1, <1>2
  <2> DEFINE a == Day * q
             b == Day * qn
             c == Day * qm
  <2>4. a \in Int /\ b \in Int /\ c \in Int
    BY <1>1, <1>2
  <2>5. b - c >= a + 2 * Day /\ n - m < a + Day /\ b <= n /\ m < c + Day
    BY <1>1, <2>2, <2>3
  <2> HIDE DEF a, b, c
  <2>6. QED
    BY <1>2, <2>4, <2>5
<1>5. QED
  BY <1>3, <1>4 DEF qn, qm, q

\* The stamp of the freshness is the one with the last date.
LEMMA FreshnessByDay ==
  ASSUME NEW rows, Placed(rows), NEW instant \in Int, NEW age \in Int
  PROVE  /\ (\E d \in Dates(rows) : d >= instant \div Day - age) => Q!Freshness(rows, instant, age)
         /\ Q!Freshness(rows, instant, age)
               => \E d \in Dates(rows) : d >= instant \div Day - (age + 1)
<1> DEFINE stamps == {r.ts : r \in rows} \ {Null}
           top == Max(stamps)
<1>1. stamps \subseteq 0..EndOfTime /\ IsFiniteSet(stamps)
  <2>1. \A r \in rows : r.ts # Null => r.ts \in 0..EndOfTime
    BY TimeIsNat DEF Placed
  <2>2. stamps \subseteq 0..EndOfTime
    BY <2>1
  <2>3. 0 \in Int /\ EndOfTime \in Int
    BY FrameAssumption
  <2>4. IsFiniteSet(0..EndOfTime)
    BY <2>3, FS_Interval
  <2>5. QED
    BY <2>2, <2>4, FS_Subset
<1>2. /\ \A d \in Dates(rows) : \E t \in stamps : d = t \div Day
      /\ \A t \in stamps : t \div Day \in Dates(rows)
  <2>1. \A r \in rows : /\ r.ts # Null => DateOf(r) = r.ts \div Day /\ DateOf(r) # Null
                        /\ r.ts = Null => DateOf(r) = Null
    BY DatesAre
  <2>2. QED
    BY <2>1 DEF Dates
<1>3. Q!Freshness(rows, instant, age) <=> stamps # {} /\ (instant - top) \div Day <= age
  BY CopiesInStar DEF Q!Freshness
<1> HIDE DEF stamps
<1>4. CASE stamps = {}
  BY <1>2, <1>3, <1>4
<1>5. CASE stamps # {}
  <2>1. stamps \subseteq Int
    BY <1>1
  <2>2. top \in stamps /\ top \in Int /\ \A t \in stamps : t <= top
    BY <1>1, <1>5, <2>1, EndsAre
  <2>3. /\ top \div Day >= instant \div Day - age => (instant - top) \div Day <= age
        /\ (instant - top) \div Day <= age => top \div Day >= instant \div Day - (age + 1)
    BY <2>2, AgeInDays
  <2> HIDE DEF top
  <2>4. ASSUME NEW t \in stamps
        PROVE  t \div Day <= top \div Day /\ t \div Day \in Int /\ top \div Day \in Int
    BY <2>1, <2>2, FrameAssumption
  <2>5. instant \div Day \in Int
    BY DayOf
  <2>6. ASSUME NEW d \in Dates(rows), d >= instant \div Day - age
        PROVE  Q!Freshness(rows, instant, age)
    <3>1. PICK t \in stamps : d = t \div Day
      BY <1>2
    <3>2. top \div Day >= instant \div Day - age
      BY <2>4, <2>5, <2>6, <3>1
    <3>3. QED
      BY <1>3, <1>5, <2>3, <3>2
  <2>7. ASSUME Q!Freshness(rows, instant, age)
        PROVE  \E d \in Dates(rows) : d >= instant \div Day - (age + 1)
    BY <1>2, <1>3, <2>2, <2>3, <2>7
  <2>8. QED
    BY <2>6, <2>7
<1>6. QED
  BY <1>4, <1>5

LEMMA StarLemma ==
  ASSUME FrameInv
  PROVE  StarReconciles
<1> DEFINE facts  == D!BuildFactTransaction(typed, D!BuildDimAccount(AccountRows))
           orphan == Q!Orphaned(typed, AccountRows)
           daily  == S!AggregateDaily(typed)
           days   == {k[1] : k \in DOMAIN daily} \ {Null}
           amount == Q!ProfileAmount(typed)
           Ends(measure) == {daily[k][measure] : k \in DOMAIN daily} \ {Null}
           lost   == orphan \cup {r \in typed : r.account = Null}
<1>1. Placed(typed)
  BY RowsOfFrame DEF Placed
<1>2. days = Dates(typed)
  BY <1>1, GroupsAre
<1>3. /\ {f.txn : f \in facts} = typed /\ Cardinality(facts) = Cardinality(typed)
      /\ \A f \in facts :
            /\ f.txn \in typed
            /\ f.account_sk = Null <=> \A a \in AccountRows : a.account # f.txn.account
            /\ f.date_sk = IF f.txn.ts = Null THEN Null ELSE [text |-> DateOf(f.txn)]
  BY FactsOfStar
<1>4. \A r \in typed : r \in lost <=> \A a \in AccountRows : a.account # r.account
  BY AgreeAssumption DEF Q!Orphaned
<1>5. Q!AccountExists(typed, AccountRows) = {r \in typed \ orphan : r.account # Null}
  BY AgreeAssumption DEF Q!AccountExists, Q!Orphaned
<1>6. lost \subseteq typed
  BY DEF Q!Orphaned
<1>7. \A r \in typed : \E f \in facts : f.txn = r
  <2> HIDE DEF facts
  <2>1. QED
    BY <1>3
<1> HIDE DEF facts, lost
<1>8. {f.txn : f \in {g \in facts : g.account_sk = Null}} = lost
  <2>1. \A f \in facts : f.account_sk = Null <=> f.txn \in lost
    BY <1>3, <1>4
  <2>2. QED
    BY <1>6, <1>7, <2>1
<1>9. {f.date_sk.text : f \in {g \in facts : g.date_sk # Null}}
         = Dates(typed) \cap D!BuildDimDate(typed)
  <2>1. ASSUME NEW f \in facts
        PROVE  f.date_sk # Null => f.date_sk.text = DateOf(f.txn) /\ f.txn.ts # Null
    <3>1. f.date_sk = IF f.txn.ts = Null THEN Null ELSE [text |-> DateOf(f.txn)]
      BY <1>3
    <3>2. [text |-> DateOf(f.txn)].text = DateOf(f.txn)
      OBVIOUS
    <3>3. QED
      BY <3>1, <3>2
  <2>2. \A r \in typed : /\ r.ts # Null => DateOf(r) \in 0..EndOfTime /\ DateOf(r) # Null
                         /\ r.ts = Null => DateOf(r) = Null
    BY <1>1, DatesAre
  <2>3. \A day \in 0..EndOfTime : Null # [text |-> day]
    BY NullAssumption
  <2>4. ASSUME NEW d \in Dates(typed)
        PROVE  \E f \in facts : f.date_sk # Null /\ f.date_sk.text = d
    <3>1. PICK r \in typed : DateOf(r) = d /\ d # Null
      BY DEF Dates
    <3>2. PICK f \in facts : f.txn = r
      BY <1>7
    <3>3. r.ts # Null /\ d \in 0..EndOfTime
      BY <2>2, <3>1
    <3>4. f.date_sk = [text |-> d]
      BY <1>3, <3>1, <3>2, <3>3
    <3>5. f.date_sk # Null
      BY <2>3, <3>3, <3>4
    <3>6. QED
      BY <3>4, <3>5
  <2>5. ASSUME NEW f \in facts, f.date_sk # Null
        PROVE  f.date_sk.text \in Dates(typed)
    <3>1. f.txn \in typed /\ f.date_sk.text = DateOf(f.txn) /\ f.txn.ts # Null
      BY <1>3, <2>1, <2>5
    <3>2. QED
      BY <2>2, <3>1 DEF Dates
  <2>6. Dates(typed) \subseteq D!BuildDimDate(typed)
    BY <1>1, DatesInDimension
  <2>7. QED
    BY <2>4, <2>5, <2>6
<1>10. Dates(typed) # {} => D!BuildDimDate(typed) = Min(Dates(typed))..Max(Dates(typed))
  BY <1>1, DatesInDimension
<1>11. Ends("min_amount") # {} => /\ amount.min = Min(Ends("min_amount"))
                                  /\ amount.max = Max(Ends("max_amount"))
  <2>1. /\ Ends("min_amount") = {daily[k].min_amount : k \in DOMAIN daily} \ {Null}
        /\ Ends("max_amount") = {daily[k].max_amount : k \in DOMAIN daily} \ {Null}
    OBVIOUS
  <2>2. daily = S!AggregateDaily(typed) /\ amount = Q!ProfileAmount(typed)
    OBVIOUS
  <2> HIDE DEF daily, amount
  <2>3. ASSUME NEW lows, lows = {daily[k].min_amount : k \in DOMAIN daily} \ {Null},
               NEW highs, highs = {daily[k].max_amount : k \in DOMAIN daily} \ {Null},
               lows # {}
        PROVE  amount.min = Min(lows) /\ amount.max = Max(highs)
    BY <1>1, <2>2, <2>3, EndsReconcile
  <2> HIDE DEF Ends
  <2>4. QED
    BY <2>1, <2>3
<1>12. ASSUME NEW instant \in Instants, NEW age \in 0..2
       PROVE  /\ (\E d \in Dates(typed) : d >= instant \div Day - age)
                    => Q!Freshness(typed, instant, age)
              /\ Q!Freshness(typed, instant, age)
                    => \E d \in Dates(typed) : d >= instant \div Day - (age + 1)
  <2>1. Instants \subseteq 0..EndOfTime /\ EndOfTime \in Nat
    BY FrameAssumption, Zenon
  <2>2. instant \in Int /\ age \in Int
    BY <2>1
  <2>3. QED
    BY <1>1, <2>2, FreshnessByDay
<1> HIDE DEF orphan, daily, days, amount, Ends
<1>13. QED
  BY <1>2, <1>3, <1>5, <1>8, <1>9, <1>10, <1>11, <1>12
  DEF StarReconciles, facts, orphan, daily, days, amount, Ends, lost

\* The joins, the windows and the star reconcile on every frame.
THEOREM FramesDoReconcile == FrameSpec => []FramesReconcile
<1>1. FrameInv => FramesReconcile
  BY JoinsLemma, WindowsLemma, StarLemma DEF FramesReconcile
<1>2. QED
  BY <1>1, FrameInvariant, PTL

====
