--------------------------- MODULE BevTreeProofs ---------------------------
(***************************************************************************)
(* Both versions of the behaviour trees, for every finite tree.  First     *)
(* what recursion over a tree is, then what is below a node, then where a  *)
(* walk goes.  Then the first version: the walks are what their recursion  *)
(* says, keep the form of the memory, and keep the inductive invariant by  *)
(* induction over the places of a walk; and the second version likewise.   *)
(***************************************************************************)
EXTENDS BevTree, BevTree2, FiniteSetTheorems, WellFoundedInduction, TLAPS

-----------------------------------------------------------------------------
(* Recursion and induction over ranked things. *)

\* A non-empty set of numbers has a least one.
LEMMA LeastExists ==
  ASSUME NEW S, S \subseteq Nat, S # {}
  PROVE  \E m \in S : \A n \in S : m <= n
<1> DEFINE R == OpToRel(<, Nat)
<1>1. IsWellFoundedOn(R, Nat)
  BY NatLessThanWellFounded
<1>2. \A x, y \in Nat : x < y => <<x, y>> \in R
  BY Zenon DEF OpToRel
<1> HIDE DEF R
<1>3. PICK m \in S : \A n \in S : ~(<<n, m>> \in R)
  BY <1>1, WFMin
<1>4. ASSUME NEW n \in S PROVE m <= n
  <2>1. m \in Nat /\ n \in Nat
    OBVIOUS
  <2>2. ~(n < m)
    BY <1>2, <1>3, <2>1
  <2>3. QED
    BY <2>1, <2>2
<1>5. QED
  BY <1>4

\* What holds of a thing if it holds of all of lower rank holds of all.
LEMMA RankInduction ==
  ASSUME NEW N, NEW rank \in [N -> Nat], NEW S,
         \A x \in N : (\A y \in N : rank[y] < rank[x] => y \in S) => x \in S
  PROVE  N \subseteq S
<1> SUFFICES ASSUME NEW z \in N, z \notin S PROVE FALSE
  OBVIOUS
<1> DEFINE R == {rank[x] : x \in N \ S}
<1>1. R \subseteq Nat /\ R # {}
  OBVIOUS
<1>2. PICK r \in R : \A q \in R : r <= q
  BY <1>1, LeastExists
<1>3. PICK x \in N \ S : r = rank[x]
  OBVIOUS
<1>4. ASSUME NEW y \in N, rank[y] < rank[x] PROVE y \in S
  <2>1. CASE y \notin S
    <3>1. rank[y] \in R
      BY <2>1
    <3>2. rank[x] <= rank[y]
      BY <1>2, <1>3, <3>1
    <3>3. QED
      BY <1>4, <3>2
  <2>2. QED
    BY <2>1
<1>5. QED
  BY <1>3, <1>4

\* G gives what a definition by recursion makes of a function, and what it makes of it
\* at x depends only on what the function is at things of lower rank.
Recursion(N, X, rank, G) ==
  /\ X # {} /\ rank \in [N -> Nat] /\ G \in [[N -> X] -> [N -> X]]
  /\ \A f, g \in [N -> X] : \A x \in N :
       (\A y \in N : rank[y] < rank[x] => f[y] = g[y]) => G[f][x] = G[g][x]

\* Such a definition has a solution.
LEMMA RecursionExists ==
  ASSUME NEW N, NEW X, NEW rank, NEW G, Recursion(N, X, rank, G)
  PROVE  \E f \in [N -> X] : G[f] = f
<1> USE DEF Recursion
<1> DEFINE F == [N -> X]
           Upto(f, k) == \A x \in N : rank[x] < k => f[x] = G[f][x]
<1>1. ASSUME NEW k \in Nat, NEW f \in F, NEW g \in F, Upto(f, k), Upto(g, k)
      PROVE  \A x \in N : rank[x] < k => f[x] = g[x]
  <2> DEFINE S == {x \in N : rank[x] < k => f[x] = g[x]}
  <2>1. ASSUME NEW x \in N, \A y \in N : rank[y] < rank[x] => y \in S PROVE x \in S
    <3>1. CASE rank[x] < k
      <4>1. \A y \in N : rank[y] < rank[x] => f[y] = g[y]
        BY <2>1, <3>1
      <4>2. G[f][x] = G[g][x]
        BY <4>1
      <4>3. QED
        BY <1>1, <3>1, <4>2
    <3>2. QED
      BY <3>1
  <2> HIDE DEF S
  <2>2. N \subseteq S
    BY <2>1, RankInduction, ZenonT(40)
  <2>3. QED
    BY <2>2 DEF S
<1> DEFINE K == {k \in Nat : ~ \E f \in F : Upto(f, k)}
<1>2. K = {}
  <2> SUFFICES ASSUME K # {} PROVE FALSE
    OBVIOUS
  <2>1. PICK k \in K : \A j \in K : k <= j
    BY LeastExists
  <2>2. k # 0
    <3>1. PICK x0 \in X : TRUE
      OBVIOUS
    <3>2. [x \in N |-> x0] \in F
      OBVIOUS
    <3>3. Upto([x \in N |-> x0], 0)
      OBVIOUS
    <3>4. QED
      BY <3>2, <3>3
  <2>3. k - 1 \in Nat /\ k - 1 \notin K
    BY <2>1, <2>2
  <2>4. PICK f \in F : Upto(f, k - 1)
    BY <2>3
  <2>5. G[f] \in F
    OBVIOUS
  <2>6. Upto(G[f], k)
    <3> SUFFICES ASSUME NEW x \in N, rank[x] < k PROVE G[f][x] = G[G[f]][x]
      OBVIOUS
    <3>1. \A y \in N : rank[y] < rank[x] => f[y] = G[f][y]
      BY <2>4
    <3>2. QED
      BY <3>1, <2>5
  <2>7. QED
    BY <2>5, <2>6
<1>3. \A k \in Nat : \E f \in F : Upto(f, k)
  BY <1>2
<1> DEFINE A == [k \in Nat |-> CHOOSE f \in F : Upto(f, k)]
           L == [x \in N |-> A[rank[x] + 1][x]]
<1>4. \A k \in Nat : A[k] \in F /\ Upto(A[k], k)
  BY <1>3
<1> HIDE DEF A
<1>5. L \in F
  BY <1>4
<1>6. ASSUME NEW x \in N PROVE G[L][x] = L[x]
  <2> DEFINE k == rank[x] + 1
  <2>1. ASSUME NEW y \in N, rank[y] < rank[x] PROVE L[y] = A[k][y]
    <3> DEFINE j == rank[y] + 1
    <3>1. j \in Nat /\ k \in Nat /\ rank[y] < j /\ j <= k
      BY <2>1
    <3>2. Upto(A[k], j)
      BY <1>4, <3>1
    <3>3. A[j] \in F /\ A[k] \in F /\ Upto(A[j], j)
      BY <1>4, <3>1
    <3> HIDE DEF j, k, Upto, F
    <3>4. A[j][y] = A[k][y]
      BY <1>1, <3>1, <3>2, <3>3
    <3>5. QED
      BY <3>4 DEF j
  <2>2. k \in Nat /\ rank[x] < k
    OBVIOUS
  <2>3. A[k] \in F /\ A[k][x] = G[A[k]][x]
    BY <1>4, <2>2
  <2>4. L[x] = A[k][x]
    OBVIOUS
  <2> HIDE DEF L, k
  <2>5. G[L][x] = G[A[k]][x]
    BY <1>5, <2>1, <2>3
  <2>6. QED
    BY <2>3, <2>4, <2>5
<1> HIDE DEF L
<1>7. G[L] \in [N -> X]
  BY <1>5
<1>8. G[L] = L
  BY <1>5, <1>6, <1>7
<1>9. QED
  BY <1>5, <1>8

-----------------------------------------------------------------------------
(* The tree. *)

\* What IsTree says of Nodes and Kids.
LEMMA TreeFacts ==
  ASSUME IsTree(tree)
  PROVE  /\ IsFiniteSet(Nodes) /\ NoNode \notin Nodes /\ tree.root \in Nodes
         /\ \A n \in Nodes :
              /\ Kids(n) \in Seq(Nodes) /\ Len(Kids(n)) \in Nat
              /\ tree.kind[n] = "terminal" => Kids(n) = <<>>
              /\ tree.root \notin ToSet(Kids(n))
         /\ \A p, q \in Nodes : \A i \in 1..Len(Kids(p)), j \in 1..Len(Kids(q)) :
              Kids(p)[i] = Kids(q)[j] => p = q /\ i = j
         /\ \A S \in SUBSET Nodes : S # {} => \E n \in S : ToSet(Kids(n)) \cap S = {}
<1>1. \A n \in Nodes : /\ tree.kind[n] = "terminal" => Kids(n) = <<>>
                       /\ tree.kind[n] # "terminal" =>
                            Kids(n) = tree.kids[n] /\ n \in DOMAIN tree.kids
  BY DEF IsTree, Nodes, Kids
<1>2. \A n \in Nodes : Kids(n) \in Seq(Nodes) /\ Len(Kids(n)) \in Nat
  <2> SUFFICES ASSUME NEW n \in Nodes PROVE Kids(n) \in Seq(Nodes)
    OBVIOUS
  <2>1. CASE tree.kind[n] = "terminal"
    <3>1. Kids(n) = <<>>
      BY <1>1, <2>1
    <3>2. <<>> \in Seq(Nodes)
      OBVIOUS
    <3>3. QED
      BY <3>1, <3>2, Zenon
  <2>2. CASE tree.kind[n] # "terminal"
    <3>1. tree.kids[n] \in Seq(Nodes)
      BY <2>2 DEF IsTree, Nodes
    <3>2. Kids(n) = tree.kids[n]
      BY <1>1, <2>2
    <3>3. QED
      BY <3>1, <3>2
  <2>3. QED
    BY <2>1, <2>2
<1>3. \A p, q \in Nodes : \A i \in 1..Len(Kids(p)), j \in 1..Len(Kids(q)) :
        Kids(p)[i] = Kids(q)[j] => p = q /\ i = j
  <2> SUFFICES ASSUME NEW p \in Nodes, NEW q \in Nodes,
                      NEW i \in 1..Len(Kids(p)), NEW j \in 1..Len(Kids(q)),
                      Kids(p)[i] = Kids(q)[j]
               PROVE  p = q /\ i = j
    OBVIOUS
  <2>1. tree.kind[p] # "terminal" /\ tree.kind[q] # "terminal"
    BY <1>1
  <2>2. \A a, b \in {x \in Nodes : tree.kind[x] # "terminal"} :
          \A k \in 1..Len(tree.kids[a]), l \in 1..Len(tree.kids[b]) :
            tree.kids[a][k] = tree.kids[b][l] => a = b /\ k = l
    BY DEF IsTree, Nodes
  <2>3. Kids(p) = tree.kids[p] /\ Kids(q) = tree.kids[q]
    BY <1>1, <2>1
  <2>4. /\ i \in 1..Len(tree.kids[p]) /\ j \in 1..Len(tree.kids[q])
        /\ tree.kids[p][i] = tree.kids[q][j]
    BY <2>3
  <2>5. QED
    BY <2>1, <2>2, <2>4
<1>4. \A n \in Nodes : tree.root \notin ToSet(Kids(n))
  <2> SUFFICES ASSUME NEW n \in Nodes, tree.root \in ToSet(Kids(n)) PROVE FALSE
    OBVIOUS
  <2>1. tree.kind[n] # "terminal"
    BY <1>1 DEF ToSet
  <2>2. QED
    BY <1>1, <2>1 DEF IsTree, Nodes
<1>5. \A S \in SUBSET Nodes : S # {} => \E n \in S : ToSet(Kids(n)) \cap S = {}
  <2> SUFFICES ASSUME NEW S \in SUBSET Nodes, S # {}
               PROVE  \E n \in S : ToSet(Kids(n)) \cap S = {}
    OBVIOUS
  <2>1. PICK n \in S : tree.kind[n] # "terminal" => ToSet(tree.kids[n]) \cap S = {}
    BY DEF IsTree, Nodes
  <2>2. CASE tree.kind[n] = "terminal"
    <3>1. ToSet(Kids(n)) = {}
      BY <1>1, <2>2 DEF ToSet
    <3>2. QED
      BY <3>1
  <2>3. QED
    BY <1>1, <2>1, <2>2
<1>6. IsFiniteSet(Nodes) /\ NoNode \notin Nodes /\ tree.root \in Nodes
  BY DEF IsTree, Nodes
<1>7. QED
  BY <1>1, <1>2, <1>3, <1>4, <1>5, <1>6

\* The children of a node as a set.
LEMMA KidsSet ==
  ASSUME IsTree(tree), NEW n \in Nodes
  PROVE  /\ ToSet(Kids(n)) \subseteq Nodes
         /\ \A i \in 1..Len(Kids(n)) : Kids(n)[i] \in ToSet(Kids(n))
         /\ \A c \in ToSet(Kids(n)) : \E i \in 1..Len(Kids(n)) : c = Kids(n)[i]
         /\ Kids(n) # <<>> => Len(Kids(n)) > 0 /\ Kids(n)[1] \in ToSet(Kids(n))
         /\ tree.kind[n] = "terminal" => ToSet(Kids(n)) = {}
<1>1. Kids(n) \in Seq(Nodes)
  BY TreeFacts
<1>2. tree.kind[n] = "terminal" => Kids(n) = <<>>
  BY TreeFacts
<1>3. QED
  BY <1>1, <1>2 DEF ToSet

\* Nobody has two parents.
LEMMA OneParent ==
  ASSUME IsTree(tree), NEW p \in Nodes, NEW q \in Nodes, NEW c \in ToSet(Kids(p)),
         c \in ToSet(Kids(q))
  PROVE  p = q
<1>1. PICK i \in 1..Len(Kids(p)) : c = Kids(p)[i]
  BY KidsSet
<1>2. PICK j \in 1..Len(Kids(q)) : c = Kids(q)[j]
  BY KidsSet
<1>3. QED
  BY <1>1, <1>2, TreeFacts

\* The nodes can be ranked: children lower than their parents, with room above each node
\* for its own children.
LEMMA HeightExists ==
  ASSUME IsTree(tree)
  PROVE  \E r \in [Nodes -> Nat] :
           \A n \in Nodes : \A c \in ToSet(Kids(n)) : r[c] + Len(Kids(c)) + 1 < r[n]
<1> DEFINE Room(r, x) == r[x] + Len(Kids(x)) + 1
           Ranks(r, S) == \A n \in S : \A c \in ToSet(Kids(n)) : c \in S /\ Room(r, c) < r[n]
           Fits(r, S, b) == \A n \in S : Room(r, n) <= b
           K == {S \in SUBSET Nodes :
                   \E b \in Nat : \E r \in [Nodes -> Nat] : Ranks(r, S) /\ Fits(r, S, b)}
           C == {Cardinality(Nodes \ S) : S \in K}
<1>1. \A S \in SUBSET Nodes : IsFiniteSet(Nodes \ S) /\ Cardinality(Nodes \ S) \in Nat
  BY TreeFacts, FS_Difference, FS_CardinalityType
<1>2. {} \in K
  <2>1. [n \in Nodes |-> 0] \in [Nodes -> Nat]
    OBVIOUS
  <2>2. QED
    BY <2>1
<1>3. C \subseteq Nat /\ C # {}
  BY <1>1, <1>2
<1>4. PICK m \in C : \A k \in C : m <= k
  BY <1>3, LeastExists
<1>5. PICK S \in K : m = Cardinality(Nodes \ S)
  OBVIOUS
<1>6. PICK b \in Nat : \E r \in [Nodes -> Nat] : Ranks(r, S) /\ Fits(r, S, b)
  BY <1>5
<1>7. PICK r \in [Nodes -> Nat] : Ranks(r, S) /\ Fits(r, S, b)
  BY <1>6
<1>8. Nodes \ S = {}
  <2> SUFFICES ASSUME Nodes \ S # {} PROVE FALSE
    OBVIOUS
  <2>1. PICK n \in Nodes \ S : ToSet(Kids(n)) \cap (Nodes \ S) = {}
    BY TreeFacts
  <2> DEFINE S2 == S \cup {n}
             r2 == [r EXCEPT ![n] = b + 1]
             b2 == b + 1 + Len(Kids(n)) + 1
  <2>2. r2 \in [Nodes -> Nat] /\ b2 \in Nat /\ b <= b2
    <3>1. Len(Kids(n)) \in Nat
      BY TreeFacts
    <3>2. QED
      BY <3>1
  <2>3. S \subseteq Nodes /\ n \in Nodes /\ n \notin S
    BY <2>1
  <2>4. r2[n] = b + 1 /\ \A x \in S : r2[x] = r[x] /\ r[x] \in Nat /\ Len(Kids(x)) \in Nat
    BY <2>3, TreeFacts
  <2>5. ASSUME NEW x \in S2, NEW c \in ToSet(Kids(x)) PROVE c \in S2 /\ Room(r2, c) < r2[x]
    <3>1. x \in Nodes /\ c \in Nodes
      BY <2>3, KidsSet
    <3>2. c \in S
      <4>1. CASE x = n
        BY <2>1, <3>1, <4>1
      <4>2. CASE x \in S
        BY <1>7, <4>2
      <4>3. QED
        BY <4>1, <4>2
    <3>3. Room(r2, c) = Room(r, c) /\ Room(r, c) \in Nat /\ Room(r, c) <= b
      <4>1. r2[c] = r[c] /\ r[c] \in Nat /\ Len(Kids(c)) \in Nat
        BY <2>4, <3>2
      <4>2. Room(r, c) <= b
        BY <1>7, <3>2
      <4>3. Room(r2, c) = Room(r, c) /\ Room(r, c) \in Nat
        BY <4>1
      <4>4. QED
        BY <4>2, <4>3
    <3>4. CASE x = n
      <4>1. r2[x] = b + 1
        BY <2>4, <3>4
      <4> HIDE DEF Room, r2
      <4>2. QED
        BY <3>2, <3>3, <4>1
    <3>5. CASE x \in S
      <4>1. r2[x] = r[x] /\ Room(r, c) < r[x]
        BY <1>7, <2>4, <3>5
      <4> HIDE DEF Room, r2
      <4>2. QED
        BY <3>2, <3>3, <4>1
    <3>6. QED
      BY <3>4, <3>5
  <2>6. Ranks(r2, S2)
    BY <2>5
  <2>7. Fits(r2, S2, b2)
    <3> SUFFICES ASSUME NEW x \in S2 PROVE Room(r2, x) <= b2
      OBVIOUS
    <3>1. CASE x = n
      <4>1. Len(Kids(n)) \in Nat
        BY TreeFacts
      <4>2. QED
        BY <2>4, <3>1, <4>1
    <3>2. CASE x \in S
      <4>1. Room(r2, x) = Room(r, x) /\ Room(r, x) \in Nat /\ Room(r, x) <= b
        <5>1. r2[x] = r[x] /\ r[x] \in Nat /\ Len(Kids(x)) \in Nat
          BY <2>4, <3>2
        <5>2. Fits(r, S, b)
          BY <1>7
        <5>3. QED
          BY <3>2, <5>1, <5>2
      <4> HIDE DEF Room, r2, b2
      <4>2. QED
        BY <2>2, <4>1
    <3>3. QED
      BY <3>1, <3>2
  <2>8. S2 \in K
    <3>1. S2 \in SUBSET Nodes
      BY <2>3
    <3> HIDE DEF r2, S2, b2, Ranks, Fits
    <3>2. QED
      BY <2>2, <2>6, <2>7, <3>1
  <2>9. Cardinality(Nodes \ S2) = m - 1
    <3>1. Nodes \ S2 = (Nodes \ S) \ {n} /\ n \in Nodes \ S
      BY <2>1
    <3>2. IsFiniteSet(Nodes \ S)
      BY <1>1
    <3>3. Cardinality((Nodes \ S) \ {n}) = Cardinality(Nodes \ S) - 1
      BY <3>1, <3>2, FS_RemoveElement
    <3>4. QED
      BY <1>5, <3>1, <3>3
  <2>10. m <= Cardinality(Nodes \ S2)
    BY <1>4, <2>8, ZenonT(40)
  <2>11. m \in Nat
    BY <1>3
  <2>12. QED
    BY <2>9, <2>10, <2>11
<1>9. Ranks(r, Nodes)
  BY <1>7, <1>8
<1>10. QED
  BY <1>9

Height ==
  CHOOSE r \in [Nodes -> Nat] :
    \A n \in Nodes : \A c \in ToSet(Kids(n)) : r[c] + Len(Kids(c)) + 1 < r[n]

LEMMA HeightFacts ==
  ASSUME IsTree(tree)
  PROVE  /\ Height \in [Nodes -> Nat]
         /\ \A n \in Nodes : \A c \in ToSet(Kids(n)) :
              Height[c] + Len(Kids(c)) + 1 < Height[n] /\ Height[c] < Height[n]
<1>1. /\ Height \in [Nodes -> Nat]
      /\ \A n \in Nodes : \A c \in ToSet(Kids(n)) : Height[c] + Len(Kids(c)) + 1 < Height[n]
  BY HeightExists DEF Height
<1>2. ASSUME NEW n \in Nodes, NEW c \in ToSet(Kids(n)) PROVE Height[c] < Height[n]
  <2>1. Height[c] \in Nat /\ Len(Kids(c)) \in Nat /\ Height[n] \in Nat
    BY <1>1, KidsSet, TreeFacts
  <2>2. Height[c] + Len(Kids(c)) + 1 < Height[n]
    BY <1>1
  <2>3. QED
    BY <2>1, <2>2
<1>3. QED
  BY <1>1, <1>2

\* The nodes below a node are itself and those below its children.
LEMMA BelowDef ==
  ASSUME IsTree(tree)
  PROVE  \A n \in Nodes : /\ Below(n) = {n} \cup UNION {Below(c) : c \in ToSet(Kids(n))}
                          /\ Below(n) \subseteq Nodes
<1> DEFINE F == [Nodes -> SUBSET Nodes]
           Body(f, n) == {n} \cup (IF tree.kind[n] = "terminal" THEN {}
                                   ELSE UNION {f[c] : c \in ToSet(tree.kids[n])})
           G == [f \in F |-> [n \in Nodes |-> Body(f, n)]]
<1>1. ASSUME NEW f, NEW n \in Nodes
      PROVE  Body(f, n) = {n} \cup UNION {f[c] : c \in ToSet(Kids(n))}
  <2>1. CASE tree.kind[n] = "terminal"
    <3>1. ToSet(Kids(n)) = {}
      BY <2>1, KidsSet
    <3>2. QED
      BY <2>1, <3>1
  <2>2. CASE tree.kind[n] # "terminal"
    BY <2>2 DEF Kids
  <2>3. QED
    BY <2>1, <2>2
<1>2. \A n \in Nodes : ToSet(Kids(n)) \subseteq Nodes
  BY KidsSet
<1> HIDE DEF Body
<1>3. \A f \in F : \A n \in Nodes : Body(f, n) \in SUBSET Nodes
  BY <1>1, <1>2
<1>4. G \in [F -> F]
  BY <1>3
<1>5. \A f, g \in F : \A n \in Nodes :
        (\A c \in Nodes : Height[c] < Height[n] => f[c] = g[c]) => G[f][n] = G[g][n]
  <2> SUFFICES ASSUME NEW f \in F, NEW g \in F, NEW n \in Nodes,
                      \A c \in Nodes : Height[c] < Height[n] => f[c] = g[c]
               PROVE  Body(f, n) = Body(g, n)
    OBVIOUS
  <2>1. \A c \in ToSet(Kids(n)) : f[c] = g[c]
    BY <1>2, HeightFacts
  <2>2. {f[c] : c \in ToSet(Kids(n))} = {g[c] : c \in ToSet(Kids(n))}
    BY <2>1
  <2>3. QED
    BY <1>1, <2>2, Zenon
<1>6. \E f \in F : G[f] = f
  <2>1. SUBSET Nodes # {} /\ Height \in [Nodes -> Nat]
    BY HeightFacts
  <2> HIDE DEF G
  <2>2. Recursion(Nodes, SUBSET Nodes, Height, G)
    BY <1>4, <1>5, <2>1, Zenon DEF Recursion
  <2>3. QED
    BY <2>2, RecursionExists
<1>7. \E f : f = [n \in Nodes |-> Body(f, n)]
  BY <1>6
<1>8. BelowIn(tree) = [n \in Nodes |-> Body(BelowIn(tree), n)]
  BY <1>7, Zenon DEF BelowIn, Body, Nodes
<1>9. \A n \in Nodes : Below(n) = {n} \cup UNION {Below(c) : c \in ToSet(Kids(n))}
  <2>1. \A n \in Nodes : Below(n) = Body(BelowIn(tree), n)
    BY <1>8 DEF Below
  <2>2. QED
    BY <1>1, <2>1 DEF Below
<1> DEFINE S == {n \in Nodes : Below(n) \subseteq Nodes}
<1>10. ASSUME NEW n \in Nodes, \A c \in Nodes : Height[c] < Height[n] => c \in S
       PROVE  n \in S
  <2>1. \A c \in ToSet(Kids(n)) : c \in S
    BY <1>2, <1>10, HeightFacts
  <2>2. QED
    BY <1>9, <2>1
<1> HIDE DEF S
<1>11. Nodes \subseteq S
  BY <1>10, HeightFacts, RankInduction
<1>12. QED
  BY <1>9, <1>11 DEF S

\* A child, and all below it, is below its parent, and the parent is not below it.
LEMMA BelowKid ==
  ASSUME IsTree(tree), NEW n \in Nodes, NEW c \in ToSet(Kids(n))
  PROVE  /\ c \in Nodes /\ c \in Below(c) /\ n \in Below(n)
         /\ Below(c) \subseteq Below(n)
         /\ \A x \in Below(n) : x \in Nodes /\ Height[x] <= Height[n]
         /\ n \notin Below(c)
<1> DEFINE S == {p \in Nodes : \A x \in Below(p) : Height[x] <= Height[p]}
<1>1. \A p \in Nodes : Below(p) = {p} \cup UNION {Below(d) : d \in ToSet(Kids(p))}
  BY BelowDef
<1>2. \A p \in Nodes : \A d \in ToSet(Kids(p)) : d \in Nodes
  BY KidsSet
<1>3. Nodes \subseteq S
  <2>1. ASSUME NEW p \in Nodes, \A d \in Nodes : Height[d] < Height[p] => d \in S
        PROVE  p \in S
    <3> SUFFICES ASSUME NEW x \in Below(p) PROVE Height[x] <= Height[p]
      OBVIOUS
    <3>1. CASE x = p
      BY <3>1, HeightFacts
    <3>2. CASE x # p
      <4>1. PICK d \in ToSet(Kids(p)) : x \in Below(d)
        BY <1>1, <3>2
      <4>2. d \in Nodes /\ Height[d] < Height[p]
        BY <1>2, HeightFacts
      <4>3. Height[x] <= Height[d]
        BY <2>1, <4>1, <4>2
      <4>4. x \in Nodes
        BY <4>1, <4>2, BelowDef
      <4>5. Height[x] \in Nat /\ Height[d] \in Nat /\ Height[p] \in Nat
        BY <4>2, <4>4, HeightFacts
      <4>6. QED
        BY <4>2, <4>3, <4>5
    <3>3. QED
      BY <3>1, <3>2
  <2> HIDE DEF S
  <2>2. Height \in [Nodes -> Nat]
    BY HeightFacts
  <2>3. QED
    BY <2>1, <2>2, RankInduction
<1>4. c \in Nodes /\ Below(n) \subseteq Nodes
  BY <1>2, BelowDef
<1>5. c \in Below(c) /\ n \in Below(n) /\ Below(c) \subseteq Below(n)
  BY <1>1, <1>4
<1>6. \A x \in Below(n) : x \in Nodes /\ Height[x] <= Height[n]
  BY <1>3, <1>4
<1>7. n \notin Below(c)
  <2>1. Height[c] < Height[n] /\ Height[c] \in Nat /\ Height[n] \in Nat
    BY <1>4, HeightFacts
  <2>2. \A x \in Below(c) : Height[x] <= Height[c]
    BY <1>3, <1>4
  <2>3. QED
    BY <2>1, <2>2
<1>8. QED
  BY <1>4, <1>5, <1>6, <1>7

\* What is below a node and is another is a child of a node below it.
LEMMA BelowParent ==
  ASSUME IsTree(tree), NEW b \in Nodes, NEW a \in Nodes, NEW x \in ToSet(Kids(a)),
         x \in Below(b), x # b
  PROVE  a \in Below(b)
<1> DEFINE S == {n \in Nodes : x \in Below(n) /\ x # n => a \in Below(n)}
<1>1. ASSUME NEW n \in Nodes, \A c \in Nodes : Height[c] < Height[n] => c \in S
      PROVE  n \in S
  <2> SUFFICES ASSUME x \in Below(n), x # n PROVE a \in Below(n)
    OBVIOUS
  <2>1. PICK c \in ToSet(Kids(n)) : x \in Below(c)
    BY BelowDef
  <2>2. c \in Nodes /\ Height[c] < Height[n]
    BY BelowKid, HeightFacts
  <2>3. CASE x = c
    BY <2>3, OneParent, BelowKid
  <2>4. CASE x # c
    BY <1>1, <2>1, <2>2, <2>4, BelowKid
  <2>5. QED
    BY <2>3, <2>4
<1> HIDE DEF S
<1>2. Nodes \subseteq S
  <2>1. Height \in [Nodes -> Nat]
    BY HeightFacts
  <2>2. QED
    BY <1>1, <2>1, RankInduction
<1>3. QED
  BY <1>2 DEF S

\* Of two nodes with a node below both, one is below the other.
LEMMA BelowBoth ==
  ASSUME IsTree(tree), NEW a \in Nodes, NEW b \in Nodes, NEW x \in Below(a) \cap Below(b)
  PROVE  a \in Below(b) \/ b \in Below(a)
<1> DEFINE S == {n \in Nodes : x \in Below(n) => n \in Below(b) \/ b \in Below(n)}
<1>1. ASSUME NEW n \in Nodes, \A c \in Nodes : Height[c] < Height[n] => c \in S
      PROVE  n \in S
  <2> SUFFICES ASSUME x \in Below(n) PROVE n \in Below(b) \/ b \in Below(n)
    OBVIOUS
  <2>1. CASE x = n
    BY <2>1
  <2>2. CASE x # n
    <3>1. PICK c \in ToSet(Kids(n)) : x \in Below(c)
      BY <2>2, BelowDef
    <3>2. c \in Nodes /\ Height[c] < Height[n]
      BY BelowKid, HeightFacts
    <3>3. c \in Below(b) \/ b \in Below(c)
      BY <1>1, <3>1, <3>2
    <3>4. CASE b \in Below(c)
      BY <3>4, BelowKid
    <3>5. CASE c \in Below(b) /\ c = b
      BY <3>1, <3>5, BelowKid
    <3>6. CASE c \in Below(b) /\ c # b
      BY <3>6, BelowParent
    <3>7. QED
      BY <3>3, <3>4, <3>5, <3>6
  <2>3. QED
    BY <2>1, <2>2
<1> HIDE DEF S
<1>2. Nodes \subseteq S
  <2>1. Height \in [Nodes -> Nat]
    BY HeightFacts
  <2>2. QED
    BY <1>1, <2>1, RankInduction
<1>3. QED
  BY <1>2 DEF S

\* The branches below two children of a node have nothing in common.
LEMMA BranchesApart ==
  ASSUME IsTree(tree), NEW n \in Nodes, NEW c \in ToSet(Kids(n)), NEW d \in ToSet(Kids(n)),
         c # d
  PROVE  Below(c) \cap Below(d) = {}
<1>1. c \in Nodes /\ d \in Nodes
  BY BelowKid
<1>2. c \notin Below(d)
  BY <1>1, BelowParent, BelowKid
<1>3. d \notin Below(c)
  BY <1>1, BelowParent, BelowKid
<1>4. QED
  BY <1>1, <1>2, <1>3, BelowBoth

-----------------------------------------------------------------------------
(* Walks. *)

\* The places a walk goes to from Place(n, i).
Onward(n, i) ==
  {Place(c, 0) : c \in ToSet(Kids(n))}
  \cup {Place(n, j) : j \in {k \in Nat : i < k /\ i <= Len(Kids(n))}}

PlaceRank ==
  [p \in Places |-> LET last == Len(Kids(p[1])) + 1
                    IN Height[p[1]] + (IF p[2] < last THEN last - p[2] ELSE 0)]

LEMMA PlaceRankValue ==
  ASSUME IsTree(tree), NEW n \in Nodes, NEW i \in Nat
  PROVE  /\ Place(n, i) \in Places
         /\ PlaceRank[Place(n, i)] =
              Height[n] + (IF i < Len(Kids(n)) + 1 THEN Len(Kids(n)) + 1 - i ELSE 0)
<1>1. Place(n, i) \in Places /\ Place(n, i)[1] = n /\ Place(n, i)[2] = i
  BY DEF Place, Places
<1>2. QED
  BY <1>1 DEF PlaceRank

LEMMA PlaceRankType ==
  ASSUME IsTree(tree)
  PROVE  PlaceRank \in [Places -> Nat]
<1>1. ASSUME NEW p \in Places PROVE PlaceRank[p] \in Nat
  <2>1. p[1] \in Nodes /\ p[2] \in Nat
    BY DEF Places
  <2>2. Height[p[1]] \in Nat /\ Len(Kids(p[1])) \in Nat
    BY <2>1, HeightFacts, TreeFacts
  <2>3. QED
    BY <2>1, <2>2 DEF PlaceRank
<1>2. PlaceRank = [p \in Places |-> PlaceRank[p]]
  BY DEF PlaceRank
<1>3. QED
  BY <1>1, <1>2

LEMMA OnwardLower ==
  ASSUME IsTree(tree), NEW n \in Nodes, NEW i \in Nat
  PROVE  /\ Place(n, i) \in Places
         /\ \A q \in Onward(n, i) : q \in Places /\ PlaceRank[q] < PlaceRank[Place(n, i)]
<1> DEFINE len == Len(Kids(n))
<1>1. len \in Nat /\ Height[n] \in Nat
  BY TreeFacts, HeightFacts
<1>2. PlaceRank[Place(n, i)] = Height[n] + (IF i < len + 1 THEN len + 1 - i ELSE 0)
  BY PlaceRankValue
<1>3. ASSUME NEW c \in ToSet(Kids(n))
      PROVE  Place(c, 0) \in Places /\ PlaceRank[Place(c, 0)] < PlaceRank[Place(n, i)]
  <2>1. c \in Nodes /\ Height[c] + Len(Kids(c)) + 1 < Height[n]
    BY KidsSet, HeightFacts
  <2>2. Height[c] \in Nat /\ Len(Kids(c)) \in Nat
    BY <2>1, TreeFacts, HeightFacts
  <2>3. /\ Place(c, 0) \in Places
        /\ PlaceRank[Place(c, 0)] =
             Height[c] + (IF 0 < Len(Kids(c)) + 1 THEN Len(Kids(c)) + 1 - 0 ELSE 0)
    BY <2>1, PlaceRankValue
  <2> HIDE DEF len
  <2>4. QED
    BY <1>1, <1>2, <2>1, <2>2, <2>3
<1>4. ASSUME NEW j \in Nat, i < j, i <= len
      PROVE  Place(n, j) \in Places /\ PlaceRank[Place(n, j)] < PlaceRank[Place(n, i)]
  <2>1. /\ Place(n, j) \in Places
        /\ PlaceRank[Place(n, j)] = Height[n] + (IF j < len + 1 THEN len + 1 - j ELSE 0)
    BY PlaceRankValue
  <2> HIDE DEF len
  <2>2. QED
    BY <1>1, <1>2, <1>4, <2>1
<1>5. \A q \in Onward(n, i) :
        \/ \E c \in ToSet(Kids(n)) : q = Place(c, 0)
        \/ \E j \in Nat : i < j /\ i <= len /\ q = Place(n, j)
  BY DEF Onward
<1>6. QED
  BY <1>3, <1>4, <1>5, PlaceRankValue

\* A node's children, and the places after the i-th of them, are onward.
LEMMA OnwardFacts ==
  ASSUME IsTree(tree), NEW n \in Nodes, NEW i \in Nat
  PROVE  /\ \A c \in ToSet(Kids(n)) : Place(c, 0) \in Onward(n, i) /\ Place(c, 0) \in Places
         /\ i = 0 => \A j \in Nat \ {0} : Place(n, j) \in Onward(n, i) /\ Place(n, j) \in Places
         /\ i = 0 => Place(n, 1) \in Onward(n, i) /\ Place(n, 1) \in Places
         /\ i > 0 /\ ~(i > Len(Kids(n))) =>
              /\ Kids(n)[i] \in ToSet(Kids(n))
              /\ Place(n, i + 1) \in Onward(n, i) /\ Place(n, i + 1) \in Places
              /\ i + 1 \in Nat
<1>1. Len(Kids(n)) \in Nat
  BY TreeFacts
<1>2. \A c \in ToSet(Kids(n)) : Place(c, 0) \in Onward(n, i)
  BY DEF Onward
<1>3. \A j \in Nat : i < j /\ i <= Len(Kids(n)) => Place(n, j) \in Onward(n, i)
  BY DEF Onward
<1>4. i = 0 => \A j \in Nat \ {0} : Place(n, j) \in Onward(n, i)
  BY <1>1, <1>3
<1>5. i > 0 /\ ~(i > Len(Kids(n))) => i \in 1..Len(Kids(n)) /\ Place(n, i + 1) \in Onward(n, i)
  BY <1>1, <1>3
<1>6. QED
  BY <1>2, <1>4, <1>5, KidsSet, OnwardLower

\* What holds at a place if it holds at the places onward holds at all places.
LEMMA PlaceInduction ==
  ASSUME IsTree(tree), NEW S,
         \A n \in Nodes : \A i \in Nat :
           (\A q \in Onward(n, i) : q \in S) => Place(n, i) \in S
  PROVE  Places \subseteq S
<1>1. PlaceRank \in [Places -> Nat]
  BY PlaceRankType
<1>2. ASSUME NEW p \in Places, \A q \in Places : PlaceRank[q] < PlaceRank[p] => q \in S
      PROVE  p \in S
  <2>1. PICK n \in Nodes : \E i \in Nat : p = Place(n, i)
    BY DEF Places, Place
  <2>2. PICK i \in Nat : p = Place(n, i)
    BY <2>1
  <2>3. \A q \in Onward(n, i) : q \in Places /\ PlaceRank[q] < PlaceRank[p]
    BY <2>2, OnwardLower
  <2>4. QED
    BY <1>2, <2>2, <2>3
<1>3. QED
  BY <1>1, <1>2, RankInduction

\* G makes of f at a place something that depends only on f at the places onward.
Visits(X, G) ==
  /\ X # {} /\ G \in [[Places -> X] -> [Places -> X]]
  /\ \A f, g \in [Places -> X] : \A n \in Nodes : \A i \in Nat :
       (\A q \in Onward(n, i) : f[q] = g[q]) => G[f][Place(n, i)] = G[g][Place(n, i)]

LEMMA VisitExists ==
  ASSUME IsTree(tree), NEW X, NEW G, Visits(X, G)
  PROVE  \E f \in [Places -> X] : G[f] = f
<1>1. PlaceRank \in [Places -> Nat]
  BY PlaceRankType
<1>2. ASSUME NEW f \in [Places -> X], NEW g \in [Places -> X], NEW p \in Places,
             \A q \in Places : PlaceRank[q] < PlaceRank[p] => f[q] = g[q]
      PROVE  G[f][p] = G[g][p]
  <2>1. PICK n \in Nodes : \E i \in Nat : p = Place(n, i)
    BY DEF Places, Place
  <2>2. PICK i \in Nat : p = Place(n, i)
    BY <2>1
  <2>3. \A q \in Onward(n, i) : q \in Places /\ PlaceRank[q] < PlaceRank[p]
    BY <2>2, OnwardLower
  <2>4. QED
    BY <1>2, <2>2, <2>3 DEF Visits
<1>3. Recursion(Places, X, PlaceRank, G)
  BY <1>1, <1>2 DEF Recursion, Visits
<1>4. QED
  BY <1>3, RecursionExists

-----------------------------------------------------------------------------
(* The memory of the nodes. *)

\* What a node chooses, remembers or runs, apart from its loop count.
Alike(x, m, w) ==
  /\ w.current[x] = m.current[x] /\ w.last[x] = m.last[x] /\ w.step[x] = m.step[x]
  /\ x \in w.running <=> x \in m.running
  /\ \A c \in ToSet(Kids(x)) : c \in w.done <=> c \in m.done

\* Only current differs between m and w.
SameButCurrent(m, w) ==
  /\ w.last = m.last /\ w.step = m.step /\ w.done = m.done /\ w.count = m.count
  /\ w.running = m.running /\ w.executed = m.executed

\* A child that has been chosen, and a memory's fields.
LEMMA MemoryFacts ==
  ASSUME IsTree(tree), NEW m \in Memories, NEW n \in Nodes
  PROVE  /\ m.current[n] # NoNode => m.current[n] \in ToSet(Kids(n))
         /\ m.last[n] # NoNode => m.last[n] \in ToSet(Kids(n))
         /\ m.step[n] \in 0..Len(Kids(n)) /\ m.step[n] \in Nat
         /\ m.count[n] \in Nat
         /\ m.done \in SUBSET Nodes /\ m.running \in SUBSET Terminals
         /\ m.executed \in SUBSET Terminals
<1>1. m.current[n] \in ToSet(Kids(n)) \cup {NoNode} /\ m.last[n] \in ToSet(Kids(n)) \cup {NoNode}
  BY DEF Memories, ChildOf
<1>2. m.step[n] \in Nat /\ m.step[n] <= Len(Kids(n))
  BY DEF Memories, Steps
<1>3. Len(Kids(n)) \in Nat
  BY TreeFacts
<1>4. QED
  BY <1>1, <1>2, <1>3 DEF Memories

LEMMA SetCurrent ==
  ASSUME IsTree(tree), NEW m \in Memories, NEW n \in Nodes,
         NEW c \in ToSet(Kids(n)) \cup {NoNode}
  PROVE  LET w == [m EXCEPT !.current[n] = c]
         IN /\ w \in Memories /\ SameButCurrent(m, w) /\ w.current[n] = c
            /\ \A x \in Nodes \ {n} : w.current[x] = m.current[x]
<1>1. m.current \in ChildOf
  BY DEF Memories
<1>2. c \in Nodes \cup {NoNode}
  BY KidsSet
<1>3. [m.current EXCEPT ![n] = c] \in ChildOf
  BY <1>1, <1>2 DEF ChildOf
<1>4. [m EXCEPT !.current[n] = c] \in Memories
  BY <1>3 DEF Memories
<1>5. m.current \in [Nodes -> Nodes \cup {NoNode}]
  BY <1>1 DEF ChildOf
<1>6. QED
  BY <1>4, <1>5 DEF SameButCurrent, Memories

LEMMA SetLast ==
  ASSUME IsTree(tree), NEW m \in Memories, NEW n \in Nodes,
         NEW c \in ToSet(Kids(n)) \cup {NoNode}
  PROVE  LET w == [m EXCEPT !.last[n] = c]
         IN /\ w \in Memories /\ w.last[n] = c /\ w.current = m.current
            /\ w.running = m.running /\ w.executed = m.executed /\ w.done = m.done
            /\ w.step = m.step
            /\ \A x \in Nodes \ {n} : w.last[x] = m.last[x]
<1>1. m.last \in ChildOf
  BY DEF Memories
<1>2. c \in Nodes \cup {NoNode}
  BY KidsSet
<1>3. [m.last EXCEPT ![n] = c] \in ChildOf
  BY <1>1, <1>2 DEF ChildOf
<1>4. [m EXCEPT !.last[n] = c] \in Memories
  BY <1>3 DEF Memories
<1>5. m.last \in [Nodes -> Nodes \cup {NoNode}]
  BY <1>1 DEF ChildOf
<1>6. QED
  BY <1>4, <1>5 DEF Memories

LEMMA SetStep ==
  ASSUME IsTree(tree), NEW m \in Memories, NEW n \in Nodes, NEW i \in 0..Len(Kids(n))
  PROVE  LET w == [m EXCEPT !.step[n] = i]
         IN /\ w \in Memories /\ w.step[n] = i /\ w.current = m.current
            /\ w.running = m.running /\ w.executed = m.executed /\ w.done = m.done
            /\ w.last = m.last
            /\ \A x \in Nodes \ {n} : w.step[x] = m.step[x]
<1>1. m.step \in Steps /\ Len(Kids(n)) \in Nat
  BY TreeFacts DEF Memories
<1>2. [m.step EXCEPT ![n] = i] \in Steps
  BY <1>1 DEF Steps
<1>3. [m EXCEPT !.step[n] = i] \in Memories
  BY <1>2 DEF Memories
<1>4. m.step \in [Nodes -> Nat]
  BY <1>1 DEF Steps
<1>5. QED
  BY <1>3, <1>4 DEF Memories

LEMMA SetCount ==
  ASSUME NEW m \in Memories, NEW n \in Nodes, NEW k \in Nat
  PROVE  LET w == [m EXCEPT !.count[n] = k]
         IN /\ w \in Memories /\ w.current = m.current
            /\ w.running = m.running /\ w.executed = m.executed /\ w.done = m.done
            /\ w.last = m.last /\ w.step = m.step
BY DEF Memories

LEMMA SetDone ==
  ASSUME NEW m \in Memories, NEW S \in SUBSET Nodes
  PROVE  LET w == [m EXCEPT !.done = S]
         IN /\ w \in Memories /\ w.done = S /\ w.current = m.current
            /\ w.running = m.running /\ w.executed = m.executed
            /\ w.last = m.last /\ w.step = m.step
BY DEF Memories

LEMMA SetOnlyRunning ==
  ASSUME NEW m \in Memories, NEW S \in SUBSET Terminals
  PROVE  LET w == [m EXCEPT !.running = S]
         IN /\ w \in Memories /\ w.running = S /\ w.executed = m.executed
            /\ w.current = m.current
            /\ w.done = m.done /\ w.last = m.last /\ w.step = m.step
BY DEF Memories

-----------------------------------------------------------------------------
(* Evaluate, Transition and Tick are what their recursions say. *)

\* What IsBevTree says of the nodes.
LEMMA KindFacts ==
  ASSUME IsTree(tree), IsBevTree(tree)
  PROVE  /\ tree.guarded \subseteq Nodes
         /\ \A n \in Nodes :
              /\ tree.kind[n] \in Kinds
              /\ tree.kind[n] = "loop" => tree.limit[n] \in Int
              /\ tree.kind[n] # "terminal" =>
                   Len(Kids(n)) > 0 /\ Kids(n)[1] \in ToSet(Kids(n))
<1>1. tree.guarded \subseteq Nodes /\ \A n \in Nodes : tree.kind[n] \in Kinds
  BY DEF IsBevTree, Nodes
<1>2. \A n \in Nodes : tree.kind[n] = "loop" => tree.limit[n] \in Int
  BY DEF IsBevTree, Nodes
<1>3. ASSUME NEW n \in Nodes, tree.kind[n] # "terminal"
      PROVE  Len(Kids(n)) > 0 /\ Kids(n)[1] \in ToSet(Kids(n))
  <2>1. Kids(n) = tree.kids[n] /\ n \in DOMAIN tree.kids
    BY <1>3 DEF IsTree, Nodes, Kids
  <2>2. Len(tree.kids[n]) \in 1..MaxChildren
    BY <2>1 DEF IsBevTree
  <2>3. Kids(n) \in Seq(Nodes)
    BY TreeFacts
  <2>4. Len(Kids(n)) > 0
    <3>1. \A l \in 1..16 : l > 0
      OBVIOUS
    <3>2. QED
      BY <2>1, <2>2, <3>1, Zenon DEF MaxChildren
  <2>5. Kids(n) # <<>>
    BY <2>4
  <2>6. QED
    BY <2>4, <2>5, KidsSet
<1>4. QED
  BY <1>1, <1>2, <1>3

Evaluations == [ok : BOOLEAN, m : Memories]
Outcomes == [status : Statuses, m : Memories]

\* The index of the child that a sequence tests and ticks.
LEMMA StepFacts ==
  ASSUME IsTree(tree), IsBevTree(tree),
         NEW m \in Memories, NEW n \in Nodes, tree.kind[n] # "terminal"
  PROVE  LET at == IF m.step[n] = 0 THEN 1 ELSE m.step[n]
         IN /\ at \in 1..Len(Kids(n)) /\ at \in Nat /\ Kids(n)[at] \in ToSet(Kids(n))
            /\ TestNode(n, m) = Kids(n)[at]
<1> DEFINE at == IF m.step[n] = 0 THEN 1 ELSE m.step[n]
<1>1. m.step[n] \in 0..Len(Kids(n)) /\ Len(Kids(n)) \in Nat /\ Len(Kids(n)) > 0
  BY MemoryFacts, TreeFacts, KindFacts
<1>2. at \in 1..Len(Kids(n)) /\ at \in Nat
  BY <1>1
<1>3. TestNode(n, m) = Kids(n)[at]
  BY DEF TestNode
<1> HIDE DEF at
<1>4. Kids(n)[at] \in ToSet(Kids(n))
  BY <1>2, KidsSet
<1>5. QED
  BY <1>2, <1>3, <1>4 DEF at

\* Evaluate by the kind of the node.
LEMMA EvaluateClosed ==
  ASSUME NEW k, NEW n, NEW m, NEW h,
         n \notin h
  PROVE  EvaluateNode(k, n, m, h) = [ok |-> FALSE, m |-> m]
BY Zenon DEF EvaluateNode

LEMMA EvaluateTerminal ==
  ASSUME NEW k, NEW n, NEW m, NEW h,
         n \in h, tree.kind[n] = "terminal"
  PROVE  EvaluateNode(k, n, m, h) = [ok |-> TRUE, m |-> m]
BY DEF EvaluateNode, Parallels

LEMMA EvaluatePriority ==
  ASSUME NEW k, NEW n, NEW m, NEW h,
         n \in h, tree.kind[n] = "priority"
  PROVE  EvaluateNode(k, n, m, h) = EvaluateAny(k, n, m)
BY DEF EvaluateNode, Parallels

LEMMA EvaluateNonePriority ==
  ASSUME NEW k, NEW n, NEW m, NEW h,
         n \in h, tree.kind[n] = "nonepriority"
  PROVE  EvaluateNode(k, n, m, h) = EvaluateAgain(k, n, m)
BY DEF EvaluateNode, Parallels

LEMMA EvaluateSequence ==
  ASSUME NEW k, NEW n, NEW m, NEW h,
         n \in h, tree.kind[n] = "sequence"
  PROVE  EvaluateNode(k, n, m, h) = k[Place(TestNode(n, m), 0)][m]
BY DEF EvaluateNode, Parallels

LEMMA EvaluateParallel ==
  ASSUME NEW k, NEW n, NEW m, NEW h,
         n \in h, tree.kind[n] \in Parallels
  PROVE  EvaluateNode(k, n, m, h) = k[Place(n, 1)][m]
BY DEF EvaluateNode, Parallels

LEMMA EvaluateLoop ==
  ASSUME NEW k, NEW n, NEW m, NEW h,
         n \in h, tree.kind[n] = "loop"
  PROVE  EvaluateNode(k, n, m, h) =
           IF tree.limit[n] = Infinite \/ m.count[n] < tree.limit[n]
           THEN k[Place(Kids(n)[1], 0)][m] ELSE [ok |-> FALSE, m |-> m]
BY DEF EvaluateNode, Parallels

LEMMA EvaluateLocal ==
  ASSUME IsTree(tree), IsBevTree(tree),
         NEW h, NEW f, NEW g \in [Places -> [Memories -> Evaluations]],
         NEW n \in Nodes, NEW i \in Nat, NEW m \in Memories,
         \A q \in Onward(n, i) : f[q] = g[q]
  PROVE  /\ EvaluateAt(f, n, i, m, h) = EvaluateAt(g, n, i, m, h)
         /\ EvaluateAt(g, n, i, m, h) \in Evaluations
<1>1. \A q \in Places, w \in Memories :
        /\ g[q][w] \in Evaluations /\ g[q][w].ok \in BOOLEAN /\ g[q][w].m \in Memories
  <2>1. \A q \in Places, w \in Memories : g[q][w] \in Evaluations
    OBVIOUS
  <2>2. \A e \in Evaluations : e.ok \in BOOLEAN /\ e.m \in Memories
    BY DEF Evaluations
  <2>3. QED
    BY <2>1, <2>2
<1>2. \A b \in BOOLEAN, w \in Memories : [ok |-> b, m |-> w] \in Evaluations
  BY DEF Evaluations
<1>3. \A c \in ToSet(Kids(n)) : f[Place(c, 0)] = g[Place(c, 0)] /\ Place(c, 0) \in Places
  BY OnwardFacts
<1>4. \A w \in Memories, c \in ToSet(Kids(n)) \cup {NoNode} :
        [w EXCEPT !.current[n] = c] \in Memories
  BY SetCurrent
<1>5. CASE i = 0
  <2>1. f[Place(n, 1)] = g[Place(n, 1)] /\ Place(n, 1) \in Places
    BY <1>5, OnwardFacts
  <2>2. \A w \in Memories : /\ EvaluateAny(f, n, w) = EvaluateAny(g, n, w)
                            /\ EvaluateAny(g, n, w) \in Evaluations
    <3>1. \A w \in Memories : [w EXCEPT !.current[n] = NoNode] \in Memories
      BY <1>4
    <3>2. QED
      BY <1>1, <2>1, <3>1 DEF EvaluateAny
  <2>3. /\ EvaluateAgain(f, n, m) = EvaluateAgain(g, n, m)
        /\ EvaluateAgain(g, n, m) \in Evaluations
    <3> DEFINE e(k) == IF m.current[n] = NoNode THEN [ok |-> FALSE, m |-> m]
                       ELSE k[Place(m.current[n], 0)][m]
    <3>1. m.current[n] # NoNode => m.current[n] \in ToSet(Kids(n))
      BY MemoryFacts
    <3>2. e(f) = e(g) /\ e(g) \in Evaluations /\ e(g).ok \in BOOLEAN /\ e(g).m \in Memories
      BY <1>1, <1>2, <1>3, <3>1
    <3>3. \A k : EvaluateAgain(k, n, m) = IF e(k).ok THEN e(k) ELSE EvaluateAny(k, n, e(k).m)
      BY DEF EvaluateAgain
    <3> HIDE DEF e
    <3>4. QED
      BY <2>2, <3>2, <3>3
  <2>4. /\ EvaluateNode(f, n, m, h) = EvaluateNode(g, n, m, h)
        /\ EvaluateNode(g, n, m, h) \in Evaluations
    <3>1. tree.kind[n] \in Kinds
      BY TreeFacts, KindFacts
    <3> DEFINE vf == EvaluateNode(f, n, m, h)
               vg == EvaluateNode(g, n, m, h)
    <3>2. CASE n \notin h
      <4>1. vf = [ok |-> FALSE, m |-> m]
        BY <3>2, EvaluateClosed
      <4>2. vg = [ok |-> FALSE, m |-> m]
        BY <3>2, EvaluateClosed
      <4>3. QED
        BY <1>2, <4>1, <4>2
    <3>3. CASE n \in h /\ tree.kind[n] = "terminal"
      <4>1. vf = [ok |-> TRUE, m |-> m]
        BY <3>3, EvaluateTerminal
      <4>2. vg = [ok |-> TRUE, m |-> m]
        BY <3>3, EvaluateTerminal
      <4>3. QED
        BY <1>2, <4>1, <4>2
    <3>4. CASE n \in h /\ tree.kind[n] = "priority"
      BY <2>2, <3>4, EvaluatePriority
    <3>5. CASE n \in h /\ tree.kind[n] = "nonepriority"
      BY <2>3, <3>5, EvaluateNonePriority
    <3>6. CASE n \in h /\ tree.kind[n] = "sequence"
      <4>1. PICK c \in ToSet(Kids(n)) : c = TestNode(n, m)
        BY <3>6, StepFacts
      <4> DEFINE p == Place(c, 0)
      <4>2. f[p][m] = g[p][m] /\ g[p][m] \in Evaluations
        BY <1>1, <1>3, <4>1
      <4> HIDE DEF p
      <4>3. vf = f[p][m]
        BY <3>6, <4>1, EvaluateSequence DEF p
      <4>4. vg = g[p][m]
        BY <3>6, <4>1, EvaluateSequence DEF p
      <4>5. QED
        BY <4>2, <4>3, <4>4
    <3>7. CASE n \in h /\ tree.kind[n] \in Parallels
      <4> DEFINE p == Place(n, 1)
      <4>1. f[p][m] = g[p][m] /\ g[p][m] \in Evaluations
        BY <1>1, <2>1
      <4>2. vf = f[p][m] /\ vg = g[p][m]
        BY <3>7, EvaluateParallel
      <4>3. QED
        BY <4>1, <4>2
    <3>8. CASE n \in h /\ tree.kind[n] = "loop"
      <4>1. PICK c \in ToSet(Kids(n)) : c = Kids(n)[1]
        BY <3>8, KidsSet, KindFacts
      <4> DEFINE on == tree.limit[n] = Infinite \/ m.count[n] < tree.limit[n]
                 p == Place(c, 0)
      <4>2. f[p][m] = g[p][m] /\ g[p][m] \in Evaluations
        BY <1>1, <1>3, <4>1
      <4> HIDE DEF p
      <4>3. vf = IF on THEN f[p][m] ELSE [ok |-> FALSE, m |-> m]
        BY <3>8, <4>1, EvaluateLoop DEF p
      <4>4. vg = IF on THEN g[p][m] ELSE [ok |-> FALSE, m |-> m]
        BY <3>8, <4>1, EvaluateLoop DEF p
      <4> HIDE DEF on, vf, vg
      <4>5. vf = vg /\ vg \in Evaluations
        BY <1>2, <4>2, <4>3, <4>4
      <4>6. QED
        BY <4>5 DEF vf, vg
    <3>9. QED
      BY <3>1, <3>2, <3>4, <3>5, <3>6, <3>7, <3>8, <3>3 DEF Kinds, Selectors, Parallels
  <2>5. QED
    BY <1>5, <2>4 DEF EvaluateAt
<1>6. CASE i > 0 /\ i > Len(Kids(n))
  <2>1. i # 0
    BY <1>6
  <2>2. QED
    BY <1>2, <1>6, <2>1 DEF EvaluateAt, EvaluateFirst, EvaluateAll
<1>7. CASE i > 0 /\ ~(i > Len(Kids(n)))
  <2>1. /\ f[Place(n, i + 1)] = g[Place(n, i + 1)] /\ Place(n, i + 1) \in Places
        /\ Kids(n)[i] \in ToSet(Kids(n)) /\ i # 0
    <3>1. /\ Place(n, i + 1) \in Onward(n, i) /\ Place(n, i + 1) \in Places
          /\ Kids(n)[i] \in ToSet(Kids(n))
      BY <1>7, OnwardFacts
    <3>2. QED
      BY <1>7, <3>1
  <2> DEFINE c == Kids(n)[i]
             e1(k) == k[Place(c, 0)][m]
             e2(k) == IF c \in m.done THEN [ok |-> TRUE, m |-> m] ELSE k[Place(c, 0)][m]
  <2>2. e1(f) = e1(g) /\ e1(g) \in Evaluations /\ e1(g).ok \in BOOLEAN /\ e1(g).m \in Memories
    BY <1>1, <1>3, <2>1
  <2>3. e2(f) = e2(g) /\ e2(g) \in Evaluations /\ e2(g).ok \in BOOLEAN /\ e2(g).m \in Memories
    BY <1>2, <2>2
  <2>4. \A k : EvaluateFirst(k, n, i, m) =
                 IF e1(k).ok THEN [ok |-> TRUE, m |-> [e1(k).m EXCEPT !.current[n] = c]]
                 ELSE k[Place(n, i + 1)][e1(k).m]
    BY <1>7 DEF EvaluateFirst
  <2>5. \A k : EvaluateAll(k, n, i, m) =
                 IF e2(k).ok THEN k[Place(n, i + 1)][e2(k).m] ELSE e2(k)
    BY <1>7 DEF EvaluateAll
  <2>6. [e1(g).m EXCEPT !.current[n] = c] \in Memories
    BY <1>4, <2>1, <2>2
  <2> HIDE DEF e1, e2
  <2>7. /\ EvaluateFirst(f, n, i, m) = EvaluateFirst(g, n, i, m)
        /\ EvaluateFirst(g, n, i, m) \in Evaluations
    BY <1>1, <1>2, <2>1, <2>2, <2>4, <2>6
  <2>8. /\ EvaluateAll(f, n, i, m) = EvaluateAll(g, n, i, m)
        /\ EvaluateAll(g, n, i, m) \in Evaluations
    BY <1>1, <2>1, <2>3, <2>5
  <2>9. QED
    BY <2>1, <2>7, <2>8 DEF EvaluateAt
<1>8. i \in Nat
  OBVIOUS
<1>9. QED
  BY <1>5, <1>6, <1>7, <1>8

\* The memory of a tree nothing has been done with.
LEMMA EmptyMemory ==
  ASSUME IsTree(tree), IsBevTree(tree)
  PROVE  [current  |-> [n \in Nodes |-> NoNode],
          last     |-> [n \in Nodes |-> NoNode],
          step     |-> [n \in Nodes |-> 0],
          done     |-> {},
          count    |-> [n \in Nodes |-> 0],
          running  |-> {},
          executed |-> {}] \in Memories
<1>1. \A n \in Nodes : Len(Kids(n)) \in Nat
  BY TreeFacts
<1>2. [n \in Nodes |-> NoNode] \in ChildOf
  BY DEF ChildOf
<1>3. [n \in Nodes |-> 0] \in Steps
  BY <1>1 DEF Steps
<1>4. QED
  BY <1>2, <1>3 DEF Memories

LEMMA EvaluateDef ==
  ASSUME IsTree(tree), IsBevTree(tree), NEW h
  PROVE  /\ Evaluate(h) \in [Places -> [Memories -> Evaluations]]
         /\ \A n \in Nodes : \A i \in Nat : \A m \in Memories :
              Evaluate(h)[Place(n, i)][m] = EvaluateAt(Evaluate(h), n, i, m, h)
<1> DEFINE X == [Memories -> Evaluations]
           F == [Places -> X]
           Body(f) == [p \in Places |-> [m \in Memories |-> EvaluateAt(f, p[1], p[2], m, h)]]
           G == [f \in F |-> Body(f)]
           e == Evaluate(h)
<1>1. \A n \in Nodes : \A i \in Nat :
        Place(n, i) \in Places /\ Place(n, i)[1] = n /\ Place(n, i)[2] = i
  BY DEF Place, Places
<1>2. \A f : \A n \in Nodes : \A i \in Nat :
        Body(f)[Place(n, i)] = [m \in Memories |-> EvaluateAt(f, n, i, m, h)]
  BY <1>1
<1>3. \A f \in F : \A n \in Nodes : \A i \in Nat : \A m \in Memories :
        EvaluateAt(f, n, i, m, h) \in Evaluations
  BY EvaluateLocal
<1>4. \A p \in Places : p[1] \in Nodes /\ p[2] \in Nat
  BY DEF Places
<1>5. X # {}
  <2>1. Memories # {}
    BY EmptyMemory
  <2>2. \A m \in Memories : [ok |-> TRUE, m |-> m] \in Evaluations
    BY DEF Evaluations
  <2>3. PICK a \in Evaluations : TRUE
    BY <2>1, <2>2
  <2>4. [m \in Memories |-> a] \in X
    OBVIOUS
  <2>5. QED
    BY <2>4
<1>6. G \in [F -> F]
  <2>1. \A f \in F : Body(f) \in F
    BY <1>3, <1>4
  <2>2. QED
    BY <2>1
<1>7. \A f, g \in F : \A n \in Nodes : \A i \in Nat :
        (\A q \in Onward(n, i) : f[q] = g[q]) => G[f][Place(n, i)] = G[g][Place(n, i)]
  <2> SUFFICES ASSUME NEW f \in F, NEW g \in F, NEW n \in Nodes, NEW i \in Nat,
                      \A q \in Onward(n, i) : f[q] = g[q]
               PROVE  G[f][Place(n, i)] = G[g][Place(n, i)]
    OBVIOUS
  <2>1. \A m \in Memories : EvaluateAt(f, n, i, m, h) = EvaluateAt(g, n, i, m, h)
    BY EvaluateLocal
  <2>2. [m \in Memories |-> EvaluateAt(f, n, i, m, h)] =
        [m \in Memories |-> EvaluateAt(g, n, i, m, h)]
    BY <2>1
  <2> HIDE DEF Body
  <2>3. Body(f)[Place(n, i)] = [m \in Memories |-> EvaluateAt(f, n, i, m, h)]
    BY <1>2
  <2>4. Body(g)[Place(n, i)] = [m \in Memories |-> EvaluateAt(g, n, i, m, h)]
    BY <1>2
  <2>5. Body(f)[Place(n, i)] = Body(g)[Place(n, i)]
    BY <2>2, <2>3, <2>4, Zenon
  <2>6. QED
    BY <2>5
<1>8. \E f \in F : G[f] = f
  <2> HIDE DEF G
  <2>1. Visits(X, G)
    BY <1>5, <1>6, <1>7, Zenon DEF Visits
  <2>2. QED
    BY <2>1, VisitExists
<1>9. PICK g \in F : g = Body(g)
  BY <1>8
<1>10. e = Body(e)
  <2>1. \E f : f = Body(f)
    BY <1>9
  <2>2. QED
    BY <2>1, Zenon DEF Evaluate
<1> DEFINE S == {p \in Places : e[p] = g[p]}
<1>11. ASSUME NEW n \in Nodes, NEW i \in Nat, \A q \in Onward(n, i) : q \in S
       PROVE  Place(n, i) \in S
  <2>1. \A q \in Onward(n, i) : e[q] = g[q]
    BY <1>11
  <2> HIDE DEF e
  <2>2. \A m \in Memories : EvaluateAt(e, n, i, m, h) = EvaluateAt(g, n, i, m, h)
    BY <2>1, EvaluateLocal
  <2>3. [m \in Memories |-> EvaluateAt(e, n, i, m, h)] =
        [m \in Memories |-> EvaluateAt(g, n, i, m, h)]
    BY <2>2
  <2> HIDE DEF Body
  <2>4. Body(e)[Place(n, i)] = [m \in Memories |-> EvaluateAt(e, n, i, m, h)]
    BY <1>2
  <2>5. Body(g)[Place(n, i)] = [m \in Memories |-> EvaluateAt(g, n, i, m, h)]
    BY <1>2
  <2>6. Body(e)[Place(n, i)] = Body(g)[Place(n, i)]
    BY <2>3, <2>4, <2>5, Zenon
  <2>7. e[Place(n, i)] = g[Place(n, i)]
    BY <1>9, <1>10, <2>6, Zenon
  <2>8. QED
    BY <1>1, <2>7
<1>12. Places \subseteq S
  <2> HIDE DEF S
  <2>1. QED
    BY <1>11, PlaceInduction
<1>13. e = g
  <2>1. \A p \in Places : e[p] = g[p]
    BY <1>12
  <2>2. e = [p \in Places |-> e[p]]
    <3>1. \E f : e = [p \in Places |-> f[p]]
      <4>1. Body(e) = [p \in Places |-> Body(e)[p]]
        OBVIOUS
      <4> HIDE DEF Body, e
      <4>2. QED
        BY <1>10, <4>1, Zenon
    <3> HIDE DEF e
    <3>2. QED
      BY <3>1
  <2> HIDE DEF e
  <2>3. QED
    BY <2>1, <2>2
<1>14. \A n \in Nodes : \A i \in Nat : \A m \in Memories :
         e[Place(n, i)][m] = EvaluateAt(e, n, i, m, h)
  <2> HIDE DEF e
  <2>1. ASSUME NEW n \in Nodes, NEW i \in Nat, NEW m \in Memories
        PROVE  e[Place(n, i)][m] = EvaluateAt(e, n, i, m, h)
    <3> HIDE DEF Body
    <3>1. e[Place(n, i)] = Body(e)[Place(n, i)]
      BY <1>10, Zenon
    <3>2. Body(e)[Place(n, i)] = [w \in Memories |-> EvaluateAt(e, n, i, w, h)]
      BY <1>2
    <3>3. QED
      BY <3>1, <3>2, Zenon
  <2>2. QED
    BY <2>1, Zenon
<1>15. QED
  BY <1>13, <1>14, Zenon

\* Transition by the kind of the node.
LEMMA TransitionKinds ==
  ASSUME NEW k, NEW n, NEW m
  PROVE  /\ tree.kind[n] = "terminal" => TransitionNode(k, n, m) = TransitionTerminal(n, m)
         /\ tree.kind[n] \in Selectors => TransitionNode(k, n, m) = TransitionSelector(k, n, m)
         /\ tree.kind[n] = "sequence" => TransitionNode(k, n, m) = TransitionSequence(k, n, m)
         /\ tree.kind[n] \in Parallels => TransitionNode(k, n, m) = TransitionParallel(k, n, m)
         /\ tree.kind[n] = "loop" => TransitionNode(k, n, m) = TransitionLoop(k, n, m)
BY DEF TransitionNode, Selectors, Parallels

LEMMA TransitionLocal ==
  ASSUME IsTree(tree), IsBevTree(tree), NEW f, NEW g \in [Places -> [Memories -> Memories]],
         NEW n \in Nodes, NEW i \in Nat, NEW m \in Memories,
         \A q \in Onward(n, i) : f[q] = g[q]
  PROVE  /\ TransitionAt(f, n, i, m) = TransitionAt(g, n, i, m)
         /\ TransitionAt(g, n, i, m) \in Memories
<1>1. \A q \in Places, w \in Memories : g[q][w] \in Memories
  OBVIOUS
<1>2. \A c \in ToSet(Kids(n)) : f[Place(c, 0)] = g[Place(c, 0)] /\ Place(c, 0) \in Places
  BY OnwardFacts
<1>3. CASE i = 0
  <2>1. f[Place(n, 1)] = g[Place(n, 1)] /\ Place(n, 1) \in Places
    BY <1>3, OnwardFacts
  <2>2. tree.kind[n] \in Kinds
    BY TreeFacts, KindFacts
  <2> DEFINE vf == TransitionNode(f, n, m)
             vg == TransitionNode(g, n, m)
  <2> SUFFICES vf = vg /\ vg \in Memories
    BY <1>3 DEF TransitionAt
  <2>3. CASE tree.kind[n] = "terminal"
    <3>1. TransitionTerminal(n, m) \in Memories
      <4>1. m.running \ {n} \in SUBSET Terminals
        BY MemoryFacts
      <4>2. QED
        BY <4>1, SetOnlyRunning DEF TransitionTerminal
    <3>2. vf = TransitionTerminal(n, m)
      BY <2>3, TransitionKinds
    <3>3. vg = TransitionTerminal(n, m)
      BY <2>3, TransitionKinds
    <3>4. QED
      BY <3>1, <3>2, <3>3, Zenon
  <2>4. CASE tree.kind[n] \in Selectors
    <3> DEFINE w(k) == IF m.last[n] = NoNode THEN m ELSE k[Place(m.last[n], 0)][m]
    <3>1. m.last[n] # NoNode => m.last[n] \in ToSet(Kids(n))
      BY MemoryFacts
    <3>2. w(f) = w(g) /\ w(g) \in Memories
      BY <1>1, <1>2, <3>1
    <3>3. \A k : TransitionSelector(k, n, m) = [w(k) EXCEPT !.last[n] = NoNode]
      BY DEF TransitionSelector
    <3> HIDE DEF w
    <3>4. [w(g) EXCEPT !.last[n] = NoNode] \in Memories
      BY <3>2, SetLast
    <3>5. vf = [w(f) EXCEPT !.last[n] = NoNode]
      BY <2>4, <3>3, TransitionKinds
    <3>6. vg = [w(g) EXCEPT !.last[n] = NoNode]
      BY <2>4, <3>3, TransitionKinds
    <3> HIDE DEF vf, vg
    <3>7. vf = vg /\ vg \in Memories
      BY <3>2, <3>4, <3>5, <3>6
    <3>8. QED
      BY <3>7 DEF vf, vg
  <2>5. CASE tree.kind[n] = "sequence"
    <3> DEFINE w(k) == IF m.step[n] = 0 THEN m ELSE k[Place(Kids(n)[m.step[n]], 0)][m]
    <3>1. m.step[n] # 0 => Kids(n)[m.step[n]] \in ToSet(Kids(n))
      BY MemoryFacts, KidsSet
    <3>2. w(f) = w(g) /\ w(g) \in Memories
      BY <1>1, <1>2, <3>1
    <3>3. \A k : TransitionSequence(k, n, m) = [w(k) EXCEPT !.step[n] = 0]
      BY DEF TransitionSequence
    <3>4. 0 \in 0..Len(Kids(n))
      BY TreeFacts
    <3> HIDE DEF w
    <3>5. [w(g) EXCEPT !.step[n] = 0] \in Memories
      BY <3>2, <3>4, SetStep
    <3>6. vf = [w(f) EXCEPT !.step[n] = 0]
      BY <2>5, <3>3, TransitionKinds
    <3>7. vg = [w(g) EXCEPT !.step[n] = 0]
      BY <2>5, <3>3, TransitionKinds
    <3> HIDE DEF vf, vg
    <3>8. vf = vg /\ vg \in Memories
      BY <3>2, <3>5, <3>6, <3>7
    <3>9. QED
      BY <3>8 DEF vf, vg
  <2>6. CASE tree.kind[n] \in Parallels
    <3> DEFINE w == [m EXCEPT !.done = @ \ ToSet(Kids(n))]
    <3>1. w \in Memories
      <4>1. m.done \ ToSet(Kids(n)) \in SUBSET Nodes
        BY MemoryFacts
      <4>2. QED
        BY <4>1, SetDone
    <3>2. \A k : TransitionParallel(k, n, m) = k[Place(n, 1)][w]
      BY DEF TransitionParallel
    <3> HIDE DEF w
    <3>3. vf = f[Place(n, 1)][w]
      BY <2>6, <3>2, TransitionKinds
    <3>4. vg = g[Place(n, 1)][w]
      BY <2>6, <3>2, TransitionKinds
    <3> HIDE DEF vf, vg
    <3>5. vf = vg /\ vg \in Memories
      BY <1>1, <2>1, <3>1, <3>3, <3>4
    <3>6. QED
      BY <3>5 DEF vf, vg
  <2>7. CASE tree.kind[n] = "loop"
    <3> DEFINE w(k) == k[Place(Kids(n)[1], 0)][m]
    <3>1. Kids(n)[1] \in ToSet(Kids(n))
      BY <2>7, KidsSet, KindFacts
    <3>2. w(f) = w(g) /\ w(g) \in Memories
      BY <1>1, <1>2, <3>1
    <3>3. \A k : TransitionLoop(k, n, m) = [w(k) EXCEPT !.count[n] = 0]
      BY DEF TransitionLoop
    <3> HIDE DEF w
    <3>4. [w(g) EXCEPT !.count[n] = 0] \in Memories
      BY <3>2, SetCount
    <3>5. vf = [w(f) EXCEPT !.count[n] = 0]
      BY <2>7, <3>3, TransitionKinds
    <3>6. vg = [w(g) EXCEPT !.count[n] = 0]
      BY <2>7, <3>3, TransitionKinds
    <3> HIDE DEF vf, vg
    <3>7. vf = vg /\ vg \in Memories
      BY <3>2, <3>4, <3>5, <3>6
    <3>8. QED
      BY <3>7 DEF vf, vg
  <2>8. QED
    BY <2>2, <2>3, <2>4, <2>5, <2>6, <2>7 DEF Kinds, Selectors, Parallels
<1>4. CASE i > 0 /\ i > Len(Kids(n))
  <2>1. i # 0
    BY <1>4
  <2>2. QED
    BY <1>4, <2>1 DEF TransitionAt, TransitionKids
<1>5. CASE i > 0 /\ ~(i > Len(Kids(n)))
  <2>1. /\ f[Place(n, i + 1)] = g[Place(n, i + 1)] /\ Place(n, i + 1) \in Places
        /\ Kids(n)[i] \in ToSet(Kids(n)) /\ i # 0
    <3>1. /\ Place(n, i + 1) \in Onward(n, i) /\ Place(n, i + 1) \in Places
          /\ Kids(n)[i] \in ToSet(Kids(n))
      BY <1>5, OnwardFacts
    <3>2. QED
      BY <1>5, <3>1
  <2> DEFINE w(k) == k[Place(Kids(n)[i], 0)][m]
  <2>2. w(f) = w(g) /\ w(g) \in Memories
    BY <1>1, <1>2, <2>1
  <2>3. \A k : TransitionAt(k, n, i, m) = k[Place(n, i + 1)][w(k)]
    BY <1>5, <2>1 DEF TransitionAt, TransitionKids
  <2> HIDE DEF w
  <2>4. QED
    BY <1>1, <2>1, <2>2, <2>3
<1>6. i \in Nat
  OBVIOUS
<1>7. QED
  BY <1>3, <1>4, <1>5, <1>6

LEMMA TransitionDef ==
  ASSUME IsTree(tree), IsBevTree(tree)
  PROVE  /\ Transition \in [Places -> [Memories -> Memories]]
         /\ \A n \in Nodes : \A i \in Nat : \A m \in Memories :
              Transition[Place(n, i)][m] = TransitionAt(Transition, n, i, m)
<1> DEFINE X == [Memories -> Memories]
           F == [Places -> X]
           Body(f) == [p \in Places |-> [m \in Memories |-> TransitionAt(f, p[1], p[2], m)]]
           G == [f \in F |-> Body(f)]
           e == Transition
<1>1. \A n \in Nodes : \A i \in Nat :
        Place(n, i) \in Places /\ Place(n, i)[1] = n /\ Place(n, i)[2] = i
  BY DEF Place, Places
<1>2. \A f : \A n \in Nodes : \A i \in Nat :
        Body(f)[Place(n, i)] = [m \in Memories |-> TransitionAt(f, n, i, m)]
  BY <1>1
<1>3. \A f \in F : \A n \in Nodes : \A i \in Nat : \A m \in Memories :
        TransitionAt(f, n, i, m) \in Memories
  BY TransitionLocal
<1>4. \A p \in Places : p[1] \in Nodes /\ p[2] \in Nat
  BY DEF Places
<1>5. X # {}
  <2>1. [m \in Memories |-> m] \in X
    OBVIOUS
  <2>2. QED
    BY <2>1
<1>6. G \in [F -> F]
  <2>1. \A f \in F : Body(f) \in F
    BY <1>3, <1>4
  <2>2. QED
    BY <2>1
<1>7. \A f, g \in F : \A n \in Nodes : \A i \in Nat :
        (\A q \in Onward(n, i) : f[q] = g[q]) => G[f][Place(n, i)] = G[g][Place(n, i)]
  <2> SUFFICES ASSUME NEW f \in F, NEW g \in F, NEW n \in Nodes, NEW i \in Nat,
                      \A q \in Onward(n, i) : f[q] = g[q]
               PROVE  G[f][Place(n, i)] = G[g][Place(n, i)]
    OBVIOUS
  <2>1. \A m \in Memories : TransitionAt(f, n, i, m) = TransitionAt(g, n, i, m)
    BY TransitionLocal
  <2>2. [m \in Memories |-> TransitionAt(f, n, i, m)] =
        [m \in Memories |-> TransitionAt(g, n, i, m)]
    BY <2>1
  <2> HIDE DEF Body
  <2>3. Body(f)[Place(n, i)] = [m \in Memories |-> TransitionAt(f, n, i, m)]
    BY <1>2
  <2>4. Body(g)[Place(n, i)] = [m \in Memories |-> TransitionAt(g, n, i, m)]
    BY <1>2
  <2>5. Body(f)[Place(n, i)] = Body(g)[Place(n, i)]
    BY <2>2, <2>3, <2>4, Zenon
  <2>6. QED
    BY <2>5
<1>8. \E f \in F : G[f] = f
  <2> HIDE DEF G
  <2>1. Visits(X, G)
    BY <1>5, <1>6, <1>7, Zenon DEF Visits
  <2>2. QED
    BY <2>1, VisitExists
<1>9. PICK g \in F : g = Body(g)
  BY <1>8
<1>10. e = Body(e)
  <2>1. \E f : f = Body(f)
    BY <1>9
  <2>2. QED
    BY <2>1, Zenon DEF Transition
<1> DEFINE S == {p \in Places : e[p] = g[p]}
<1>11. ASSUME NEW n \in Nodes, NEW i \in Nat, \A q \in Onward(n, i) : q \in S
       PROVE  Place(n, i) \in S
  <2>1. \A q \in Onward(n, i) : e[q] = g[q]
    BY <1>11
  <2> HIDE DEF e
  <2>2. \A m \in Memories : TransitionAt(e, n, i, m) = TransitionAt(g, n, i, m)
    BY <2>1, TransitionLocal
  <2>3. [m \in Memories |-> TransitionAt(e, n, i, m)] =
        [m \in Memories |-> TransitionAt(g, n, i, m)]
    BY <2>2
  <2> HIDE DEF Body
  <2>4. Body(e)[Place(n, i)] = [m \in Memories |-> TransitionAt(e, n, i, m)]
    BY <1>2
  <2>5. Body(g)[Place(n, i)] = [m \in Memories |-> TransitionAt(g, n, i, m)]
    BY <1>2
  <2>6. Body(e)[Place(n, i)] = Body(g)[Place(n, i)]
    BY <2>3, <2>4, <2>5, Zenon
  <2>7. e[Place(n, i)] = g[Place(n, i)]
    BY <1>9, <1>10, <2>6, Zenon
  <2>8. QED
    BY <1>1, <2>7
<1>12. Places \subseteq S
  <2> HIDE DEF S
  <2>1. QED
    BY <1>11, PlaceInduction
<1>13. e = g
  <2>1. \A p \in Places : e[p] = g[p]
    BY <1>12
  <2>2. e = [p \in Places |-> e[p]]
    <3>1. \E f : e = [p \in Places |-> f[p]]
      <4>1. Body(e) = [p \in Places |-> Body(e)[p]]
        OBVIOUS
      <4> HIDE DEF Body, e
      <4>2. QED
        BY <1>10, <4>1, Zenon
    <3> HIDE DEF e
    <3>2. QED
      BY <3>1
  <2> HIDE DEF e
  <2>3. QED
    BY <2>1, <2>2
<1>14. \A n \in Nodes : \A i \in Nat : \A m \in Memories :
         e[Place(n, i)][m] = TransitionAt(e, n, i, m)
  <2> HIDE DEF e
  <2>1. ASSUME NEW n \in Nodes, NEW i \in Nat, NEW m \in Memories
        PROVE  e[Place(n, i)][m] = TransitionAt(e, n, i, m)
    <3> HIDE DEF Body
    <3>1. e[Place(n, i)] = Body(e)[Place(n, i)]
      BY <1>10, Zenon
    <3>2. Body(e)[Place(n, i)] = [w \in Memories |-> TransitionAt(e, n, i, w)]
      BY <1>2
    <3>3. QED
      BY <3>1, <3>2, Zenon
  <2>2. QED
    BY <2>1, Zenon
<1>15. QED
  BY <1>13, <1>14, Zenon

\* A selector that changes its choice.
LEMMA ChangeFacts ==
  ASSUME IsTree(tree), IsBevTree(tree), NEW m \in Memories, NEW n \in Nodes, m.current[n] # NoNode
  PROVE  \E w \in Memories :
           /\ \/ m.last[n] \in {NoNode, m.current[n]} /\ w = m
              \/ m.last[n] \notin {NoNode, m.current[n]} /\ w = Transition[Place(m.last[n], 0)][m]
           /\ Change(n, m) = [w EXCEPT !.last[n] = m.current[n]]
           /\ Change(n, m) \in Memories
<1> DEFINE w == IF m.last[n] \in {NoNode, m.current[n]} THEN m
                ELSE Transition[Place(m.last[n], 0)][m]
<1>1. m.current[n] \in ToSet(Kids(n))
  BY MemoryFacts
<1>2. m.last[n] # NoNode => m.last[n] \in ToSet(Kids(n))
  BY MemoryFacts
<1>3. 0 \in Nat
  OBVIOUS
<1>4. \A c \in ToSet(Kids(n)) : Place(c, 0) \in Places
  BY <1>3, OnwardFacts
<1>5. w \in Memories
  BY <1>2, <1>4, TransitionDef
<1>6. Change(n, m) = [w EXCEPT !.last[n] = m.current[n]]
  BY DEF Change
<1>7. \/ m.last[n] \in {NoNode, m.current[n]} /\ w = m
      \/ m.last[n] \notin {NoNode, m.current[n]} /\ w = Transition[Place(m.last[n], 0)][m]
  OBVIOUS
<1> HIDE DEF w
<1>8. [w EXCEPT !.last[n] = m.current[n]] \in Memories
  BY <1>1, <1>5, SetLast
<1>9. QED
  BY <1>5, <1>6, <1>7, <1>8

\* Tick by the kind of the node.
LEMMA TickKinds ==
  ASSUME NEW k, NEW n, NEW m, NEW result
  PROVE  /\ tree.kind[n] = "terminal" => TickNode(k, n, m, result) = TickTerminal(n, m, result)
         /\ tree.kind[n] \in Selectors => TickNode(k, n, m, result) = TickSelector(k, n, m)
         /\ tree.kind[n] = "sequence" => TickNode(k, n, m, result) = TickSequence(k, n, m)
         /\ tree.kind[n] \in Parallels => TickNode(k, n, m, result) = k[Place(n, 1)][m]
         /\ tree.kind[n] = "loop" => TickNode(k, n, m, result) = TickLoop(k, n, m)
BY DEF TickNode, Selectors, Parallels

\* What is known of a terminal that has been ticked.
TerminalTicked(n, m, t) ==
  /\ t \in Outcomes
  /\ t.m.executed = m.executed \cup {n}
  /\ t.m.running = IF t.status = "executing" THEN m.running \cup {n} ELSE m.running \ {n}
  /\ t.m.current = m.current /\ t.m.done = m.done /\ t.m.last = m.last
  /\ t.m.step = m.step

LEMMA TickTerminalFacts ==
  ASSUME IsTree(tree), IsBevTree(tree),
         NEW n \in Nodes, NEW m \in Memories, tree.kind[n] = "terminal",
         NEW result \in [Terminals -> Statuses]
  PROVE  TerminalTicked(n, m, TickTerminal(n, m, result))
<1> SUFFICES LET t == TickTerminal(n, m, result)
             IN /\ t \in Outcomes
                /\ t.m.executed = m.executed \cup {n}
                /\ t.m.running = IF t.status = "executing" THEN m.running \cup {n}
                                 ELSE m.running \ {n}
                /\ t.m.current = m.current /\ t.m.done = m.done /\ t.m.last = m.last
                /\ t.m.step = m.step
  BY DEF TerminalTicked
<1> DEFINE R == IF result[n] = "executing" THEN m.running \cup {n} ELSE m.running \ {n}
           X == m.executed \cup {n}
           w == [m EXCEPT !.running = R, !.executed = X]
<1>1. n \in Terminals
  BY DEF Terminals
<1>2. R \in SUBSET Terminals /\ X \in SUBSET Terminals /\ result[n] \in Statuses
  BY <1>1, MemoryFacts
<1>3. TickTerminal(n, m, result) = [status |-> result[n], m |-> w]
  BY DEF TickTerminal, Memories
<1>4. R = IF result[n] = "executing" THEN m.running \cup {n} ELSE m.running \ {n}
  OBVIOUS
<1> HIDE DEF R, X
<1>5. /\ w \in Memories /\ w.running = R /\ w.executed = X /\ w.current = m.current
      /\ w.done = m.done /\ w.last = m.last /\ w.step = m.step
  BY <1>2 DEF Memories
<1> HIDE DEF w
<1>6. [status |-> result[n], m |-> w] \in Outcomes
  BY <1>2, <1>5 DEF Outcomes
<1>7. QED
  BY <1>3, <1>4, <1>5, <1>6 DEF X

\* The memory with which a selector ticks its child.
Chosen(n, m) == IF m.current[n] = NoNode THEN m ELSE Change(n, m)

\* What a selector makes of the outcome r of its child.
SelectorEnd(n, r) ==
  IF r.status = "executing" THEN r
  ELSE [status |-> r.status, m |-> [r.m EXCEPT !.last[n] = NoNode]]

LEMMA SelectorEndFacts ==
  ASSUME IsTree(tree), IsBevTree(tree), NEW n \in Nodes, NEW r \in Outcomes
  PROVE  LET t == SelectorEnd(n, r)
         IN /\ t \in Outcomes
            /\ \/ r.status = "executing" /\ t = r
               \/ /\ r.status # "executing" /\ t.status = r.status
                  /\ t.m = [r.m EXCEPT !.last[n] = NoNode]
<1>1. r.status \in Statuses /\ r.m \in Memories
  BY DEF Outcomes
<1>2. [r.m EXCEPT !.last[n] = NoNode] \in Memories
  BY <1>1, SetLast
<1> DEFINE w == [r.m EXCEPT !.last[n] = NoNode]
<1>3. SelectorEnd(n, r) = IF r.status = "executing" THEN r ELSE [status |-> r.status, m |-> w]
  BY DEF SelectorEnd
<1> HIDE DEF w
<1>4. [status |-> r.status, m |-> w] \in Outcomes
  BY <1>1, <1>2 DEF Outcomes, w
<1>5. QED
  BY <1>3, <1>4 DEF w

LEMMA TickSelectorFacts ==
  ASSUME IsTree(tree), IsBevTree(tree), NEW k, NEW n \in Nodes, NEW m \in Memories
  PROVE  LET now == Chosen(n, m)
         IN /\ now \in Memories
            /\ now.last[n] = NoNode => TickSelector(k, n, m) = [status |-> "finish", m |-> now]
            /\ now.last[n] # NoNode =>
                 /\ now.last[n] \in ToSet(Kids(n))
                 /\ TickSelector(k, n, m) = SelectorEnd(n, k[Place(now.last[n], 0)][now])
<1> DEFINE now == Chosen(n, m)
<1>1. now \in Memories
  <2>1. CASE m.current[n] = NoNode
    BY <2>1 DEF Chosen
  <2>2. CASE m.current[n] # NoNode
    BY <2>2, ChangeFacts DEF Chosen
  <2>3. QED
    BY <2>1, <2>2
<1>2. TickSelector(k, n, m) =
        IF now.last[n] = NoNode THEN [status |-> "finish", m |-> now]
        ELSE SelectorEnd(n, k[Place(now.last[n], 0)][now])
  BY DEF TickSelector, SelectorEnd, Chosen
<1> HIDE DEF now
<1>3. now.last[n] # NoNode => now.last[n] \in ToSet(Kids(n))
  BY <1>1, MemoryFacts
<1>4. QED
  BY <1>1, <1>2, <1>3 DEF now

\* The child a sequence ticks, and the memory it does that with.
Turn(n, m) == IF m.step[n] = 0 THEN 1 ELSE m.step[n]
AtTurn(n, m) == [m EXCEPT !.step[n] = Turn(n, m)]

\* What a sequence makes of the outcome r of its i-th child, and what is known of it.
SequenceEnd(n, i, r) ==
  IF r.status = "executing" THEN r
  ELSE IF r.status = "finish" /\ i < Len(Kids(n))
  THEN [status |-> "executing", m |-> [r.m EXCEPT !.step[n] = i + 1]]
  ELSE [status |-> r.status, m |-> [r.m EXCEPT !.step[n] = 0]]

SequenceEnded(n, r, t) ==
  /\ t \in Outcomes
  /\ \/ r.status = "executing" /\ t = r
     \/ /\ r.status # "executing"
        /\ \E j \in 0..Len(Kids(n)) : t.m = [r.m EXCEPT !.step[n] = j]

LEMMA SequenceEndFacts ==
  ASSUME IsTree(tree), IsBevTree(tree),
         NEW n \in Nodes, NEW i \in 1..Len(Kids(n)), NEW r \in Outcomes
  PROVE  SequenceEnded(n, r, SequenceEnd(n, i, r))
<1> SUFFICES LET t == SequenceEnd(n, i, r)
             IN /\ t \in Outcomes
                /\ \/ r.status = "executing" /\ t = r
                   \/ /\ r.status # "executing"
                      /\ \E j \in 0..Len(Kids(n)) : t.m = [r.m EXCEPT !.step[n] = j]
  BY DEF SequenceEnded
<1>1. r.status \in Statuses /\ r.m \in Memories /\ "executing" \in Statuses
  BY DEF Outcomes, Statuses
<1>2. Len(Kids(n)) \in Nat
  BY TreeFacts
<1>3. \A j \in 0..Len(Kids(n)), s \in Statuses :
        [status |-> s, m |-> [r.m EXCEPT !.step[n] = j]] \in Outcomes
  <2>1. \A j \in 0..Len(Kids(n)) : [r.m EXCEPT !.step[n] = j] \in Memories
    BY <1>1, SetStep
  <2>2. QED
    BY <2>1 DEF Outcomes
<1> DEFINE A(j, s) == [status |-> s, m |-> [r.m EXCEPT !.step[n] = j]]
<1>4. CASE r.status = "executing"
  BY <1>4 DEF SequenceEnd
<1>5. CASE r.status # "executing" /\ r.status = "finish" /\ i < Len(Kids(n))
  <2>1. i + 1 \in 0..Len(Kids(n))
    BY <1>2, <1>5
  <2>2. SequenceEnd(n, i, r) = A(i + 1, "executing")
    BY <1>5 DEF SequenceEnd
  <2>3. A(i + 1, "executing").m = [r.m EXCEPT !.step[n] = i + 1]
    OBVIOUS
  <2>4. A(i + 1, "executing") \in Outcomes
    BY <1>1, <1>3, <2>1
  <2> HIDE DEF A
  <2>5. QED
    BY <1>5, <2>1, <2>2, <2>3, <2>4
<1>6. CASE r.status # "executing" /\ ~(r.status = "finish" /\ i < Len(Kids(n)))
  <2>1. 0 \in 0..Len(Kids(n))
    BY <1>2
  <2>2. SequenceEnd(n, i, r) = A(0, r.status)
    BY <1>6 DEF SequenceEnd
  <2>3. A(0, r.status).m = [r.m EXCEPT !.step[n] = 0]
    OBVIOUS
  <2>4. A(0, r.status) \in Outcomes
    BY <1>1, <1>3, <2>1
  <2> HIDE DEF A
  <2>5. QED
    BY <1>6, <2>1, <2>2, <2>3, <2>4
<1>7. QED
  BY <1>4, <1>5, <1>6

LEMMA TickSequenceFacts ==
  ASSUME IsTree(tree), IsBevTree(tree),
         NEW k, NEW n \in Nodes, NEW m \in Memories, tree.kind[n] # "terminal"
  PROVE  LET i == Turn(n, m)
             now == AtTurn(n, m)
         IN /\ i \in 1..Len(Kids(n)) /\ now \in Memories
            /\ Kids(n)[i] \in ToSet(Kids(n)) /\ TestNode(n, m) = Kids(n)[i]
            /\ TickSequence(k, n, m) = SequenceEnd(n, i, k[Place(Kids(n)[i], 0)][now])
<1>1. /\ Turn(n, m) \in 1..Len(Kids(n)) /\ Kids(n)[Turn(n, m)] \in ToSet(Kids(n))
      /\ TestNode(n, m) = Kids(n)[Turn(n, m)]
  BY StepFacts DEF Turn
<1>2. Turn(n, m) \in 0..Len(Kids(n))
  <2>1. Len(Kids(n)) \in Nat
    BY TreeFacts
  <2>2. QED
    BY <1>1, <2>1
<1>3. AtTurn(n, m) \in Memories
  BY <1>2, SetStep DEF AtTurn
<1>4. TickSequence(k, n, m) =
        SequenceEnd(n, Turn(n, m), k[Place(Kids(n)[Turn(n, m)], 0)][AtTurn(n, m)])
  BY DEF TickSequence, SequenceEnd, Turn, AtTurn
<1>5. QED
  BY <1>1, <1>3, <1>4

\* What a loop makes of the outcome r of its child, and what is known of it.
LoopEnd(n, m, r) ==
  LET next == m.count[n] + 1
      Ends(status) == [status |-> status, m |-> [r.m EXCEPT !.count[n] = 0]]
  IN CASE r.status = "executing" -> r
       [] r.status = "error" -> Ends("error")
       [] r.status = "finish" /\ tree.limit[n] = Infinite ->
            [status |-> "executing", m |-> r.m]
       [] r.status = "finish" /\ tree.limit[n] = next ->
            [status |-> "executing", m |-> [r.m EXCEPT !.count[n] = next]]
       [] OTHER -> Ends("finish")

LoopEnded(n, r, t) ==
  /\ t \in Outcomes
  /\ \/ r.status = "executing" /\ t = r
     \/ r.status # "executing" /\ t.m = r.m
     \/ /\ r.status # "executing"
        /\ \E j \in Nat : t.m = [r.m EXCEPT !.count[n] = j]

LEMMA LoopEndFacts ==
  ASSUME IsTree(tree), IsBevTree(tree), NEW n \in Nodes, NEW m \in Memories, NEW r \in Outcomes
  PROVE  LoopEnded(n, r, LoopEnd(n, m, r))
<1> SUFFICES LET t == LoopEnd(n, m, r)
             IN /\ t \in Outcomes
                /\ \/ r.status = "executing" /\ t = r
                   \/ r.status # "executing" /\ t.m = r.m
                   \/ /\ r.status # "executing"
                      /\ \E j \in Nat : t.m = [r.m EXCEPT !.count[n] = j]
  BY DEF LoopEnded
<1> DEFINE next == m.count[n] + 1
           A(s, j) == [status |-> s, m |-> [r.m EXCEPT !.count[n] = j]]
           inf == r.status = "finish" /\ tree.limit[n] = Infinite
           last == r.status = "finish" /\ tree.limit[n] = next
           t == LoopEnd(n, m, r)
<1>1. r.status \in Statuses /\ r.m \in Memories /\ next \in Nat
  BY MemoryFacts DEF Outcomes
<1>2. \A j \in Nat, s \in Statuses : A(s, j) \in Outcomes
  <2>1. \A j \in Nat : [r.m EXCEPT !.count[n] = j] \in Memories
    BY <1>1, SetCount
  <2>2. QED
    BY <2>1 DEF Outcomes
<1>3. \A j, s : A(s, j).m = [r.m EXCEPT !.count[n] = j]
  OBVIOUS
<1>4. "executing" \in Statuses /\ "error" \in Statuses /\ "finish" \in Statuses /\ 0 \in Nat
  BY DEF Statuses
<1>5. CASE r.status = "executing"
  <2>1. t = r
    BY <1>5, Zenon DEF LoopEnd
  <2>2. QED
    BY <1>5, <2>1
<1>6. CASE r.status = "error"
  <2>1. t = A("error", 0)
    BY <1>6 DEF LoopEnd
  <2> HIDE DEF A, t
  <2>2. r.status # "executing"
    BY <1>6
  <2>3. A("error", 0) \in Outcomes /\ A("error", 0).m = [r.m EXCEPT !.count[n] = 0]
    BY <1>2, <1>3, <1>4
  <2>4. QED
    BY <1>4, <2>1, <2>2, <2>3 DEF t
<1>7. CASE inf
  <2>1. tree.limit[n] # next
    BY <1>1, <1>7 DEF Infinite
  <2>2. t = [status |-> "executing", m |-> r.m]
    BY <1>7, <2>1 DEF LoopEnd
  <2>3. [status |-> "executing", m |-> r.m] \in Outcomes
    BY <1>1, <1>4 DEF Outcomes
  <2>4. QED
    BY <1>7, <2>2, <2>3
<1>8. CASE ~inf /\ last
  <2>1. t = A("executing", next)
    BY <1>8 DEF LoopEnd
  <2>2. r.status # "executing"
    BY <1>8
  <2> HIDE DEF A, t, next
  <2>3. A("executing", next) \in Outcomes /\ A("executing", next).m = [r.m EXCEPT !.count[n] = next]
    BY <1>1, <1>2, <1>3, <1>4
  <2>4. QED
    BY <1>1, <2>1, <2>2, <2>3 DEF t
<1>9. CASE r.status = "finish" /\ ~inf /\ ~last
  <2>1. t = A("finish", 0)
    BY <1>9 DEF LoopEnd
  <2>2. r.status # "executing"
    BY <1>9
  <2> HIDE DEF A, t, next
  <2>3. A("finish", 0) \in Outcomes /\ A("finish", 0).m = [r.m EXCEPT !.count[n] = 0]
    BY <1>2, <1>3, <1>4
  <2>4. QED
    BY <1>4, <2>1, <2>2, <2>3 DEF t
<1>10. QED
  BY <1>1, <1>5, <1>6, <1>7, <1>8, <1>9 DEF Statuses

LEMMA TickLoopFacts ==
  ASSUME NEW k, NEW n, NEW m
  PROVE  TickLoop(k, n, m) = LoopEnd(n, m, k[Place(Kids(n)[1], 0)][m])
BY Zenon DEF TickLoop, LoopEnd

\* A parallel after a child's outcome r, and when it is over.
KidsNext(c, m, r) ==
  IF c \in m.done THEN m
  ELSE IF r.status = "executing" THEN r.m
  ELSE [r.m EXCEPT !.done = @ \cup {c}]
KidsOver(n, m) == [status |-> "finish", m |-> [m EXCEPT !.done = @ \ ToSet(Kids(n))]]

LEMMA KidsNextFacts ==
  ASSUME IsTree(tree), IsBevTree(tree), NEW c \in Nodes, NEW m \in Memories, NEW r,
         c \notin m.done => r \in Outcomes
  PROVE  LET t == KidsNext(c, m, r)
         IN /\ t \in Memories
            /\ \/ c \in m.done /\ t = m
               \/ c \notin m.done /\ r.status = "executing" /\ t = r.m
               \/ c \notin m.done /\ r.status # "executing" /\ t = [r.m EXCEPT !.done = @ \cup {c}]
<1>1. CASE c \in m.done
  BY <1>1 DEF KidsNext
<1>2. CASE c \notin m.done
  <2>1. r.m \in Memories
    BY <1>2 DEF Outcomes
  <2>2. r.m.done \cup {c} \in SUBSET Nodes
    BY <2>1, MemoryFacts
  <2>3. [r.m EXCEPT !.done = @ \cup {c}] \in Memories
    BY <2>1, <2>2, SetDone
  <2>4. QED
    BY <1>2, <2>1, <2>3 DEF KidsNext
<1>3. QED
  BY <1>1, <1>2

LEMMA KidsOverFacts ==
  ASSUME IsTree(tree), IsBevTree(tree), NEW n \in Nodes, NEW m \in Memories
  PROVE  LET t == KidsOver(n, m)
         IN /\ t \in Outcomes /\ t.status = "finish"
            /\ t.m = [m EXCEPT !.done = m.done \ ToSet(Kids(n))]
<1>1. m.done \ ToSet(Kids(n)) \in SUBSET Nodes
  BY MemoryFacts
<1>2. [m EXCEPT !.done = m.done \ ToSet(Kids(n))] \in Memories
  BY <1>1, SetDone
<1> DEFINE w == [m EXCEPT !.done = m.done \ ToSet(Kids(n))]
<1>3. KidsOver(n, m) = [status |-> "finish", m |-> w]
  BY DEF KidsOver
<1> HIDE DEF w
<1>4. [status |-> "finish", m |-> w] \in Outcomes
  BY <1>2 DEF Outcomes, Statuses, w
<1>5. QED
  BY <1>3, <1>4 DEF w

LEMMA TickKidsFacts ==
  ASSUME NEW k, NEW n, NEW i, NEW m
  PROVE  /\ i > Len(Kids(n)) =>
              TickKids(k, n, i, m) = IF ToSet(Kids(n)) \subseteq m.done THEN KidsOver(n, m)
                                     ELSE [status |-> "executing", m |-> m]
         /\ ~(i > Len(Kids(n))) =>
              LET c == Kids(n)[i]
                  next == KidsNext(c, m, k[Place(c, 0)][m])
              IN TickKids(k, n, i, m) = IF tree.kind[n] = "or" /\ c \in next.done
                                        THEN KidsOver(n, next) ELSE k[Place(n, i + 1)][next]
BY DEF TickKids, KidsNext, KidsOver

LEMMA TickLocal ==
  ASSUME IsTree(tree), IsBevTree(tree), NEW result \in [Terminals -> Statuses],
         NEW f, NEW g \in [Places -> [Memories -> Outcomes]],
         NEW n \in Nodes, NEW i \in Nat, NEW m \in Memories,
         \A q \in Onward(n, i) : f[q] = g[q]
  PROVE  /\ TickAt(f, n, i, m, result) = TickAt(g, n, i, m, result)
         /\ TickAt(g, n, i, m, result) \in Outcomes
<1>1. \A q \in Places, w \in Memories : g[q][w] \in Outcomes
  OBVIOUS
<1>2. \A c \in ToSet(Kids(n)) : f[Place(c, 0)] = g[Place(c, 0)] /\ Place(c, 0) \in Places
  BY OnwardFacts
<1>3. \A s \in Statuses, w \in Memories : [status |-> s, m |-> w] \in Outcomes
  BY DEF Outcomes
<1>4. CASE i = 0
  <2>1. f[Place(n, 1)] = g[Place(n, 1)] /\ Place(n, 1) \in Places
    BY <1>4, OnwardFacts
  <2>2. tree.kind[n] \in Kinds
    BY TreeFacts, KindFacts
  <2> DEFINE vf == TickNode(f, n, m, result)
             vg == TickNode(g, n, m, result)
  <2> SUFFICES vf = vg /\ vg \in Outcomes
    BY <1>4 DEF TickAt
  <2>3. CASE tree.kind[n] = "terminal"
    <3>1. TickTerminal(n, m, result) \in Outcomes
      BY <2>3, TickTerminalFacts DEF TerminalTicked
    <3>2. vf = TickTerminal(n, m, result)
      BY <2>3, TickKinds
    <3>3. vg = TickTerminal(n, m, result)
      BY <2>3, TickKinds
    <3>4. QED
      BY <3>1, <3>2, <3>3, Zenon
  <2>4. CASE tree.kind[n] \in Selectors
    <3> DEFINE now == Chosen(n, m)
               r(k) == k[Place(now.last[n], 0)][now]
    <3>1. now \in Memories /\ (now.last[n] # NoNode => now.last[n] \in ToSet(Kids(n)))
      BY TickSelectorFacts
    <3>2. vf = TickSelector(f, n, m)
      BY <2>4, TickKinds
    <3>3. vg = TickSelector(g, n, m)
      BY <2>4, TickKinds
    <3>4. CASE now.last[n] = NoNode
      <4>1. vf = [status |-> "finish", m |-> now]
        BY <3>2, <3>4, TickSelectorFacts
      <4>2. vg = [status |-> "finish", m |-> now]
        BY <3>3, <3>4, TickSelectorFacts
      <4> HIDE DEF vf, vg, now
      <4>3. vf = vg /\ vg \in Outcomes
        BY <1>3, <3>1, <4>1, <4>2 DEF Statuses
      <4>4. QED
        BY <4>3 DEF vf, vg
    <3>5. CASE now.last[n] # NoNode
      <4>1. vf = SelectorEnd(n, r(f))
        BY <3>2, <3>5, TickSelectorFacts
      <4>2. vg = SelectorEnd(n, r(g))
        BY <3>3, <3>5, TickSelectorFacts
      <4> HIDE DEF now
      <4>3. r(f) = r(g) /\ r(g) \in Outcomes
        BY <1>1, <1>2, <3>1, <3>5
      <4> HIDE DEF r
      <4>4. SelectorEnd(n, r(g)) \in Outcomes
        BY <4>3, SelectorEndFacts
      <4>5. QED
        BY <4>1, <4>2, <4>3, <4>4, Zenon
    <3>6. QED
      BY <3>4, <3>5
  <2>5. CASE tree.kind[n] = "sequence"
    <3> DEFINE j == Turn(n, m)
               now == AtTurn(n, m)
               r(k) == k[Place(Kids(n)[j], 0)][now]
    <3>1. /\ j \in 1..Len(Kids(n)) /\ now \in Memories /\ Kids(n)[j] \in ToSet(Kids(n))
          /\ TickSequence(f, n, m) = SequenceEnd(n, j, r(f))
      BY <2>5, TickSequenceFacts
    <3>2. TickSequence(g, n, m) = SequenceEnd(n, j, r(g))
      BY <2>5, TickSequenceFacts
    <3>3. vf = SequenceEnd(n, j, r(f))
      BY <2>5, <3>1, TickKinds
    <3>4. vg = SequenceEnd(n, j, r(g))
      BY <2>5, <3>2, TickKinds
    <3> HIDE DEF now, j
    <3>5. r(f) = r(g) /\ r(g) \in Outcomes
      BY <1>1, <1>2, <3>1
    <3> HIDE DEF r
    <3>6. SequenceEnd(n, j, r(g)) \in Outcomes
      BY <3>1, <3>5, SequenceEndFacts DEF SequenceEnded
    <3>7. QED
      BY <3>3, <3>4, <3>5, <3>6, Zenon
  <2>6. CASE tree.kind[n] \in Parallels
    <3>1. vf = f[Place(n, 1)][m]
      BY <2>6, TickKinds
    <3>2. vg = g[Place(n, 1)][m]
      BY <2>6, TickKinds
    <3> HIDE DEF vf, vg
    <3>3. vf = vg /\ vg \in Outcomes
      BY <1>1, <2>1, <3>1, <3>2
    <3>4. QED
      BY <3>3 DEF vf, vg
  <2>7. CASE tree.kind[n] = "loop"
    <3> DEFINE r(k) == k[Place(Kids(n)[1], 0)][m]
    <3>1. Kids(n)[1] \in ToSet(Kids(n))
      BY <2>7, KidsSet, KindFacts
    <3>2. vf = LoopEnd(n, m, r(f))
      BY <2>7, TickKinds, TickLoopFacts
    <3>3. vg = LoopEnd(n, m, r(g))
      BY <2>7, TickKinds, TickLoopFacts
    <3>4. r(f) = r(g) /\ r(g) \in Outcomes
      BY <1>1, <1>2, <3>1
    <3> HIDE DEF r
    <3>5. LoopEnd(n, m, r(g)) \in Outcomes
      BY <3>4, LoopEndFacts DEF LoopEnded
    <3>6. QED
      BY <3>2, <3>3, <3>4, <3>5, Zenon
  <2>8. QED
    BY <2>2, <2>3, <2>4, <2>5, <2>6, <2>7 DEF Kinds, Selectors, Parallels
<1>5. CASE i > 0
  <2> DEFINE c == Kids(n)[i]
             r(k) == k[Place(c, 0)][m]
             next(k) == KidsNext(c, m, r(k))
             vf == TickKids(f, n, i, m)
             vg == TickKids(g, n, i, m)
  <2>1. i # 0
    BY <1>5
  <2> SUFFICES vf = vg /\ vg \in Outcomes
    BY <2>1 DEF TickAt
  <2>2. CASE i > Len(Kids(n))
    <3>1. vf = IF ToSet(Kids(n)) \subseteq m.done THEN KidsOver(n, m)
               ELSE [status |-> "executing", m |-> m]
      BY <2>2, TickKidsFacts
    <3>2. vg = IF ToSet(Kids(n)) \subseteq m.done THEN KidsOver(n, m)
               ELSE [status |-> "executing", m |-> m]
      BY <2>2, TickKidsFacts
    <3>3. KidsOver(n, m) \in Outcomes /\ [status |-> "executing", m |-> m] \in Outcomes
      BY <1>3, KidsOverFacts DEF Statuses
    <3> HIDE DEF vf, vg
    <3>4. vf = vg /\ vg \in Outcomes
      BY <3>1, <3>2, <3>3
    <3>5. QED
      BY <3>4 DEF vf, vg
  <2>3. CASE ~(i > Len(Kids(n)))
    <3>1. /\ f[Place(n, i + 1)] = g[Place(n, i + 1)] /\ Place(n, i + 1) \in Places
          /\ c \in ToSet(Kids(n)) /\ c \in Nodes
      <4>1. /\ Place(n, i + 1) \in Onward(n, i) /\ Place(n, i + 1) \in Places
            /\ c \in ToSet(Kids(n))
        BY <1>5, <2>3, OnwardFacts
      <4>2. QED
        BY <4>1, KidsSet
    <3>2. r(f) = r(g) /\ r(g) \in Outcomes
      BY <1>1, <1>2, <3>1
    <3>3. vf = IF tree.kind[n] = "or" /\ c \in next(f).done
               THEN KidsOver(n, next(f)) ELSE f[Place(n, i + 1)][next(f)]
      BY <2>3, TickKidsFacts
    <3>4. vg = IF tree.kind[n] = "or" /\ c \in next(g).done
               THEN KidsOver(n, next(g)) ELSE g[Place(n, i + 1)][next(g)]
      BY <2>3, TickKidsFacts
    <3> HIDE DEF r, c
    <3>5. next(f) = next(g) /\ next(g) \in Memories
      BY <3>1, <3>2, KidsNextFacts
    <3> HIDE DEF vf, vg, next
    <3>6. KidsOver(n, next(g)) \in Outcomes
      BY <3>5, KidsOverFacts
    <3>7. vf = vg /\ vg \in Outcomes
      BY <1>1, <3>1, <3>3, <3>4, <3>5, <3>6
    <3>8. QED
      BY <3>7 DEF vf, vg
  <2>4. QED
    BY <2>2, <2>3
<1>6. i \in Nat
  OBVIOUS
<1>7. QED
  BY <1>4, <1>5, <1>6

LEMMA TickDef ==
  ASSUME IsTree(tree), IsBevTree(tree), NEW result \in [Terminals -> Statuses]
  PROVE  /\ Tick(result) \in [Places -> [Memories -> Outcomes]]
         /\ \A n \in Nodes : \A i \in Nat : \A m \in Memories :
              Tick(result)[Place(n, i)][m] = TickAt(Tick(result), n, i, m, result)
<1> DEFINE X == [Memories -> Outcomes]
           F == [Places -> X]
           Body(f) == [p \in Places |-> [m \in Memories |-> TickAt(f, p[1], p[2], m, result)]]
           G == [f \in F |-> Body(f)]
           e == Tick(result)
<1>1. \A n \in Nodes : \A i \in Nat :
        Place(n, i) \in Places /\ Place(n, i)[1] = n /\ Place(n, i)[2] = i
  BY DEF Place, Places
<1>2. \A f : \A n \in Nodes : \A i \in Nat :
        Body(f)[Place(n, i)] = [m \in Memories |-> TickAt(f, n, i, m, result)]
  BY <1>1
<1>3. \A f \in F : \A n \in Nodes : \A i \in Nat : \A m \in Memories :
        TickAt(f, n, i, m, result) \in Outcomes
  BY TickLocal
<1>4. \A p \in Places : p[1] \in Nodes /\ p[2] \in Nat
  BY DEF Places
<1>5. X # {}
  <2>1. Memories # {}
    BY EmptyMemory
  <2>2. \A m \in Memories : [status |-> "finish", m |-> m] \in Outcomes
    BY DEF Outcomes, Statuses
  <2>3. PICK a \in Outcomes : TRUE
    BY <2>1, <2>2
  <2>4. [m \in Memories |-> a] \in X
    OBVIOUS
  <2>5. QED
    BY <2>4
<1>6. G \in [F -> F]
  <2>1. \A f \in F : Body(f) \in F
    BY <1>3, <1>4
  <2>2. QED
    BY <2>1
<1>7. \A f, g \in F : \A n \in Nodes : \A i \in Nat :
        (\A q \in Onward(n, i) : f[q] = g[q]) => G[f][Place(n, i)] = G[g][Place(n, i)]
  <2> SUFFICES ASSUME NEW f \in F, NEW g \in F, NEW n \in Nodes, NEW i \in Nat,
                      \A q \in Onward(n, i) : f[q] = g[q]
               PROVE  G[f][Place(n, i)] = G[g][Place(n, i)]
    OBVIOUS
  <2>1. \A m \in Memories : TickAt(f, n, i, m, result) = TickAt(g, n, i, m, result)
    BY TickLocal, ZenonT(40)
  <2>2. [m \in Memories |-> TickAt(f, n, i, m, result)] =
        [m \in Memories |-> TickAt(g, n, i, m, result)]
    BY <2>1
  <2> HIDE DEF Body
  <2>3. Body(f)[Place(n, i)] = [m \in Memories |-> TickAt(f, n, i, m, result)]
    BY <1>2
  <2>4. Body(g)[Place(n, i)] = [m \in Memories |-> TickAt(g, n, i, m, result)]
    BY <1>2
  <2>5. Body(f)[Place(n, i)] = Body(g)[Place(n, i)]
    BY <2>2, <2>3, <2>4, Zenon
  <2>6. QED
    BY <2>5
<1>8. \E f \in F : G[f] = f
  <2> HIDE DEF G
  <2>1. Visits(X, G)
    BY <1>5, <1>6, <1>7, Zenon DEF Visits
  <2>2. QED
    BY <2>1, VisitExists
<1>9. PICK g \in F : g = Body(g)
  BY <1>8
<1>10. e = Body(e)
  <2>1. \E f : f = Body(f)
    BY <1>9
  <2>2. QED
    BY <2>1, Zenon DEF Tick
<1> DEFINE S == {p \in Places : e[p] = g[p]}
<1>11. ASSUME NEW n \in Nodes, NEW i \in Nat, \A q \in Onward(n, i) : q \in S
       PROVE  Place(n, i) \in S
  <2>1. \A q \in Onward(n, i) : e[q] = g[q]
    BY <1>11
  <2> HIDE DEF e
  <2>2. \A m \in Memories : TickAt(e, n, i, m, result) = TickAt(g, n, i, m, result)
    BY <2>1, TickLocal
  <2>3. [m \in Memories |-> TickAt(e, n, i, m, result)] =
        [m \in Memories |-> TickAt(g, n, i, m, result)]
    BY <2>2
  <2> HIDE DEF Body
  <2>4. Body(e)[Place(n, i)] = [m \in Memories |-> TickAt(e, n, i, m, result)]
    BY <1>2
  <2>5. Body(g)[Place(n, i)] = [m \in Memories |-> TickAt(g, n, i, m, result)]
    BY <1>2
  <2>6. Body(e)[Place(n, i)] = Body(g)[Place(n, i)]
    BY <2>3, <2>4, <2>5, Zenon
  <2>7. e[Place(n, i)] = g[Place(n, i)]
    BY <1>9, <1>10, <2>6, Zenon
  <2>8. QED
    BY <1>1, <2>7
<1>12. Places \subseteq S
  <2> HIDE DEF S
  <2>1. QED
    BY <1>11, PlaceInduction
<1>13. e = g
  <2>1. \A p \in Places : e[p] = g[p]
    BY <1>12
  <2>2. e = [p \in Places |-> e[p]]
    <3>1. \E f : e = [p \in Places |-> f[p]]
      <4>1. Body(e) = [p \in Places |-> Body(e)[p]]
        OBVIOUS
      <4> HIDE DEF Body, e
      <4>2. QED
        BY <1>10, <4>1, Zenon
    <3> HIDE DEF e
    <3>2. QED
      BY <3>1
  <2> HIDE DEF e
  <2>3. QED
    BY <2>1, <2>2
<1>14. \A n \in Nodes : \A i \in Nat : \A m \in Memories :
         e[Place(n, i)][m] = TickAt(e, n, i, m, result)
  <2> HIDE DEF e
  <2>1. ASSUME NEW n \in Nodes, NEW i \in Nat, NEW m \in Memories
        PROVE  e[Place(n, i)][m] = TickAt(e, n, i, m, result)
    <3> HIDE DEF Body
    <3>1. e[Place(n, i)] = Body(e)[Place(n, i)]
      BY <1>10, Zenon
    <3>2. Body(e)[Place(n, i)] = [w \in Memories |-> TickAt(e, n, i, w, result)]
      BY <1>2
    <3>3. QED
      BY <3>1, <3>2, Zenon
  <2>2. QED
    BY <2>1, Zenon
<1>15. QED
  BY <1>13, <1>14, Zenon

\* What is below a node below n is below n.
LEMMA BelowAll ==
  ASSUME IsTree(tree), IsBevTree(tree), NEW n \in Nodes, NEW x \in Below(n)
  PROVE  x \in Nodes /\ Below(x) \subseteq Below(n)
<1> DEFINE S == {p \in Nodes : \A y \in Below(p) : Below(y) \subseteq Below(p)}
<1>1. ASSUME NEW p \in Nodes, \A d \in Nodes : Height[d] < Height[p] => d \in S
      PROVE  p \in S
  <2>1. ASSUME NEW y \in Below(p) PROVE Below(y) \subseteq Below(p)
    <3>1. CASE y = p
      BY <3>1
    <3>2. CASE y # p
      <4>1. PICK c \in ToSet(Kids(p)) : y \in Below(c)
        BY <3>2, BelowDef
      <4>2. c \in S /\ Below(c) \subseteq Below(p)
        BY <1>1, BelowKid, HeightFacts
      <4>3. QED
        BY <4>1, <4>2
    <3>3. QED
      BY <3>1, <3>2
  <2>2. QED
    BY <2>1
<1> HIDE DEF S
<1>2. Nodes \subseteq S
  <2>1. Height \in [Nodes -> Nat]
    BY HeightFacts
  <2>2. QED
    BY <1>1, <2>1, RankInduction
<1>3. QED
  BY <1>2, BelowDef DEF S

-----------------------------------------------------------------------------
(* What a visit of a place may touch, and which nodes a tick goes to. *)

\* The nodes a visit of Place(n, i) may touch: n and, in a loop over its children, those
\* below the children to come.
Region(n, i) ==
  IF i = 0 THEN Below(n)
  ELSE {n} \cup UNION {Below(Kids(n)[j]) : j \in {k \in 1..Len(Kids(n)) : i <= k}}

LEMMA RegionFacts ==
  ASSUME IsTree(tree), IsBevTree(tree), NEW n \in Nodes, NEW i \in Nat
  PROVE  /\ n \in Region(n, i) /\ Region(n, i) \subseteq Below(n) /\ Below(n) \subseteq Nodes
         /\ i = 0 => Region(n, i) = Below(n)
         /\ i > 0 /\ ~(i > Len(Kids(n))) =>
              LET c == Kids(n)[i]
              IN /\ c \in ToSet(Kids(n)) /\ Below(c) \subseteq Region(n, i)
                 /\ Region(n, i + 1) \subseteq Region(n, i)
                 /\ Below(c) \cap Region(n, i + 1) = {}
<1>1. Below(n) = {n} \cup UNION {Below(c) : c \in ToSet(Kids(n))} /\ Below(n) \subseteq Nodes
  BY BelowDef
<1>2. i \in Nat /\ Len(Kids(n)) \in Nat
  BY TreeFacts, SMTT(30)
<1>3. \A j \in 1..Len(Kids(n)) : Kids(n)[j] \in ToSet(Kids(n))
  BY KidsSet
<1>4. CASE i = 0
  BY <1>1, <1>4 DEF Region
<1>5. CASE i > 0
  <2>1. i # 0 /\ i + 1 # 0
    BY <1>2, <1>5
  <2>2. Region(n, i) = {n} \cup UNION {Below(Kids(n)[j]) : j \in {k \in 1..Len(Kids(n)) : i <= k}}
    BY <2>1 DEF Region
  <2>3. Region(n, i + 1) =
          {n} \cup UNION {Below(Kids(n)[j]) : j \in {k \in 1..Len(Kids(n)) : i + 1 <= k}}
    BY <2>1 DEF Region
  <2>4. n \in Region(n, i) /\ Region(n, i) \subseteq Below(n)
    <3>1. ASSUME NEW j \in {k \in 1..Len(Kids(n)) : i <= k}
          PROVE  Below(Kids(n)[j]) \subseteq Below(n)
      BY <1>1, <1>3
    <3>2. QED
      BY <1>1, <2>2, <3>1
  <2>5. ASSUME ~(i > Len(Kids(n)))
        PROVE  LET c == Kids(n)[i]
               IN /\ c \in ToSet(Kids(n)) /\ Below(c) \subseteq Region(n, i)
                  /\ Region(n, i + 1) \subseteq Region(n, i)
                  /\ Below(c) \cap Region(n, i + 1) = {}
    <3> DEFINE c == Kids(n)[i]
    <3>1. i \in 1..Len(Kids(n)) /\ i <= i
      BY <1>2, <1>5, <2>5
    <3>2. c \in ToSet(Kids(n)) /\ Below(c) \subseteq Region(n, i)
      BY <1>3, <2>2, <3>1
    <3>3. \A j \in 1..Len(Kids(n)) : i + 1 <= j => i <= j /\ j # i
      BY <1>2
    <3>4. Region(n, i + 1) \subseteq Region(n, i)
      BY <2>2, <2>3, <3>3
    <3>5. ASSUME NEW j \in 1..Len(Kids(n)), i + 1 <= j
          PROVE  Below(c) \cap Below(Kids(n)[j]) = {}
      <4>1. Kids(n)[j] # c
        BY <3>1, <3>3, <3>5, TreeFacts
      <4>2. QED
        BY <1>3, <3>2, <4>1, BranchesApart
    <3>6. n \notin Below(c)
      BY <3>2, BelowKid
    <3>7. QED
      BY <2>3, <3>2, <3>4, <3>5, <3>6
  <2>6. QED
    BY <1>1, <1>5, <2>1, <2>4, <2>5
<1>6. QED
  BY <1>2, <1>4, <1>5

\* The children of x that a tick of x with memory m goes to.
Due(x, m) ==
  IF tree.kind[x] = "terminal" THEN {}
  ELSE IF tree.kind[x] \in Selectors THEN {m.current[x]}
  ELSE IF tree.kind[x] = "sequence" THEN {TestNode(x, m)}
  ELSE IF tree.kind[x] = "loop" THEN {Kids(x)[1]}
  ELSE ToSet(Kids(x)) \ m.done

\* The preconditions of n and of all nodes a tick of n can come to hold.
Ready(n, m, h) ==
  \E R \in SUBSET (Below(n) \cap h) : n \in R /\ \A x \in R : Due(x, m) \subseteq R

LEMMA DueKids ==
  ASSUME IsTree(tree), IsBevTree(tree), NEW n \in Nodes, NEW m \in Memories
  PROVE  /\ Due(n, m) \subseteq ToSet(Kids(n)) \cup {NoNode}
         /\ tree.kind[n] \notin Selectors => Due(n, m) \subseteq ToSet(Kids(n))
<1>1. CASE tree.kind[n] \in Selectors
  BY <1>1, MemoryFacts DEF Due, Selectors
<1>2. CASE tree.kind[n] = "sequence"
  BY <1>2, StepFacts DEF Due, Selectors
<1>3. CASE tree.kind[n] \notin Selectors /\ tree.kind[n] # "sequence"
  BY <1>3, KidsSet, KindFacts DEF Due
<1>4. QED
  BY <1>1, <1>2, <1>3

\* A tick of n goes to the same children with memories that are alike in n.
LEMMA DueLocal ==
  ASSUME NEW n, NEW m, NEW w, w.current[n] = m.current[n], w.step[n] = m.step[n],
         \A c \in ToSet(Kids(n)) : c \in w.done <=> c \in m.done
  PROVE  Due(n, w) = Due(n, m)
<1>1. TestNode(n, w) = TestNode(n, m)
  BY DEF TestNode
<1>2. ToSet(Kids(n)) \ w.done = ToSet(Kids(n)) \ m.done
  OBVIOUS
<1>3. QED
  BY <1>1, <1>2 DEF Due

LEMMA ReadyKid ==
  ASSUME IsTree(tree), IsBevTree(tree), NEW n \in Nodes, NEW m \in Memories, NEW h, Ready(n, m, h)
  PROVE  /\ n \in h
         /\ \A c \in Due(n, m) : c \in ToSet(Kids(n)) /\ Ready(c, m, h)
<1>1. PICK R \in SUBSET (Below(n) \cap h) : n \in R /\ \A x \in R : Due(x, m) \subseteq R
  BY DEF Ready
<1>2. Below(n) \subseteq Nodes
  BY BelowDef
<1>3. ASSUME NEW c \in Due(n, m)
      PROVE  c \in ToSet(Kids(n)) /\ Ready(c, m, h)
  <2>1. c \in R /\ c \in Nodes
    BY <1>1, <1>2
  <2>2. c \in ToSet(Kids(n))
    BY <2>1, DueKids, TreeFacts
  <2> DEFINE Q == R \cap Below(c)
  <2>3. ASSUME NEW x \in Q PROVE Due(x, m) \subseteq Q
    <3>1. x \in Nodes /\ Due(x, m) \subseteq R /\ Below(c) \subseteq Nodes
      BY <1>1, <1>2, <2>1, BelowDef
    <3>2. ToSet(Kids(x)) \subseteq Below(c)
      <4>1. ASSUME NEW y \in ToSet(Kids(x)) PROVE y \in Below(c)
        <5>1. y \in Below(x) /\ Below(x) \subseteq Below(c)
          BY <2>1, <2>3, <3>1, BelowKid, BelowAll
        <5>2. QED
          BY <5>1
      <4>2. QED
        BY <4>1
    <3>3. NoNode \notin R
      BY <1>1, <1>2, TreeFacts
    <3>4. QED
      BY <3>1, <3>2, <3>3, DueKids
  <2>4. c \in Below(c)
    BY <2>2, BelowKid
  <2>5. c \in Q /\ Q \in SUBSET (Below(c) \cap h)
    BY <1>1, <2>1, <2>4
  <2> HIDE DEF Q
  <2>6. Ready(c, m, h)
    BY <2>3, <2>5 DEF Ready
  <2>7. QED
    BY <2>2, <2>6
<1>4. QED
  BY <1>1, <1>3

LEMMA ReadyMake ==
  ASSUME IsTree(tree), IsBevTree(tree), NEW n \in Nodes, NEW m \in Memories, NEW h, n \in h,
         \A c \in Due(n, m) : c \in ToSet(Kids(n)) /\ Ready(c, m, h)
  PROVE  Ready(n, m, h)
<1> DEFINE A == {Q \in SUBSET (Below(n) \cap h) : \A x \in Q : Due(x, m) \subseteq Q}
           R == {n} \cup UNION A
<1>1. n \in Below(n)
  BY BelowDef
<1>2. R \in SUBSET (Below(n) \cap h) /\ n \in R
  BY <1>1
<1>3. ASSUME NEW c \in Due(n, m) PROVE c \in R
  <2>1. c \in ToSet(Kids(n)) /\ Ready(c, m, h)
    OBVIOUS
  <2>2. PICK Q \in SUBSET (Below(c) \cap h) : c \in Q /\ \A x \in Q : Due(x, m) \subseteq Q
    BY <2>1 DEF Ready
  <2>3. Below(c) \subseteq Below(n)
    BY <2>1, BelowKid
  <2>4. Q \in A
    BY <2>2, <2>3
  <2>5. QED
    BY <2>2, <2>4
<1>4. ASSUME NEW x \in UNION A PROVE Due(x, m) \subseteq R
  <2>1. PICK Q \in A : x \in Q
    OBVIOUS
  <2>2. Due(x, m) \subseteq Q /\ Q \subseteq UNION A
    BY <2>1
  <2>3. QED
    BY <2>2
<1>5. \A x \in R : Due(x, m) \subseteq R
  BY <1>3, <1>4
<1> HIDE DEF R
<1>6. QED
  BY <1>2, <1>5 DEF Ready

LEMMA ReadyLocal ==
  ASSUME IsTree(tree), IsBevTree(tree), NEW n, NEW m, NEW w, NEW h, Ready(n, m, h),
         \A x \in Below(n) : Due(x, w) = Due(x, m)
  PROVE  Ready(n, w, h)
<1>1. PICK R \in SUBSET (Below(n) \cap h) : n \in R /\ \A x \in R : Due(x, m) \subseteq R
  BY DEF Ready
<1>2. \A x \in R : Due(x, w) \subseteq R
  BY <1>1
<1>3. QED
  BY <1>1, <1>2 DEF Ready

-----------------------------------------------------------------------------
(* Evaluate succeeds only if the preconditions of all nodes a tick can come to hold. *)

EvaluateEffect(n, i, m, e) ==
  /\ e \in Evaluations /\ SameButCurrent(m, e.m)
  /\ \A x \in Nodes \ Region(n, i) : e.m.current[x] = m.current[x]

EvaluateReady(n, i, h, e) ==
  e.ok =>
    IF i = 0 THEN Ready(n, e.m, h)
    ELSE IF tree.kind[n] \in Selectors
    THEN e.m.current[n] \in ToSet(Kids(n)) /\ Ready(e.m.current[n], e.m, h)
    ELSE \A j \in 1..Len(Kids(n)) : i <= j => Kids(n)[j] \in e.m.done \/ Ready(Kids(n)[j], e.m, h)

EvaluateGood(n, i, h) ==
  \A m \in Memories : /\ EvaluateEffect(n, i, m, Evaluate(h)[Place(n, i)][m])
                      /\ EvaluateReady(n, i, h, Evaluate(h)[Place(n, i)][m])

LEMMA SameTrans ==
  ASSUME NEW m, NEW v, NEW w, SameButCurrent(m, v), SameButCurrent(v, w)
  PROVE  SameButCurrent(m, w)
BY DEF SameButCurrent

LEMMA ReadyCurrent ==
  ASSUME IsTree(tree), IsBevTree(tree), NEW c \in Nodes, NEW m, NEW w, NEW h, SameButCurrent(m, w),
         \A x \in Below(c) : w.current[x] = m.current[x], Ready(c, m, h)
  PROVE  Ready(c, w, h)
<1>1. ASSUME NEW x \in Below(c) PROVE Due(x, w) = Due(x, m)
  <2>1. w.current[x] = m.current[x] /\ w.step[x] = m.step[x] /\ w.done = m.done
    BY DEF SameButCurrent
  <2>2. QED
    BY <2>1, DueLocal
<1>2. QED
  BY <1>1, ReadyLocal

LEMMA EvaluateKidsGood ==
  ASSUME IsTree(tree), IsBevTree(tree), NEW h, NEW n \in Nodes, NEW i \in Nat, i > 0,
         ~(i > Len(Kids(n))) => EvaluateGood(Kids(n)[i], 0, h) /\ EvaluateGood(n, i + 1, h)
  PROVE  EvaluateGood(n, i, h)
<1> DEFINE E == Evaluate(h)
<1> SUFFICES ASSUME NEW m \in Memories
             PROVE  /\ EvaluateEffect(n, i, m, E[Place(n, i)][m])
                    /\ EvaluateReady(n, i, h, E[Place(n, i)][m])
  BY DEF EvaluateGood
<1> DEFINE v == E[Place(n, i)][m]
           c == Kids(n)[i]
<1>1. v = IF tree.kind[n] \in Selectors THEN EvaluateFirst(E, n, i, m) ELSE EvaluateAll(E, n, i, m)
  <2>1. v = EvaluateAt(E, n, i, m, h) /\ i # 0
    BY EvaluateDef
  <2>2. QED
    BY <2>1 DEF EvaluateAt
<1>2. i # 0 /\ i \in Nat /\ Len(Kids(n)) \in Nat
  BY TreeFacts
<1>3. SameButCurrent(m, m)
  BY DEF SameButCurrent
<1>4. \A b \in BOOLEAN : [ok |-> b, m |-> m] \in Evaluations
  BY DEF Evaluations
<1>5. CASE i > Len(Kids(n))
  <2>1. v = IF tree.kind[n] \in Selectors THEN [ok |-> FALSE, m |-> m] ELSE [ok |-> TRUE, m |-> m]
    BY <1>1, <1>5 DEF EvaluateFirst, EvaluateAll
  <2>2. \A j \in 1..Len(Kids(n)) : ~(i <= j)
    BY <1>2, <1>5
  <2> HIDE DEF v
  <2>3. v.m = m /\ v \in Evaluations
    BY <1>4, <2>1
  <2>4. tree.kind[n] \in Selectors => ~v.ok
    BY <2>1
  <2>5. EvaluateEffect(n, i, m, v)
    BY <1>3, <2>3 DEF EvaluateEffect
  <2>6. EvaluateReady(n, i, h, v)
    BY <1>2, <2>2, <2>4 DEF EvaluateReady
  <2>7. QED
    BY <2>5, <2>6 DEF v
<1>6. CASE ~(i > Len(Kids(n)))
  <2>1. /\ c \in ToSet(Kids(n)) /\ Below(c) \subseteq Region(n, i) /\ n \in Region(n, i)
        /\ Region(n, i + 1) \subseteq Region(n, i) /\ Below(c) \cap Region(n, i + 1) = {}
    BY <1>6, RegionFacts
  <2>2. /\ c \in Nodes /\ n \notin Below(c) /\ Region(c, 0) = Below(c) /\ Below(c) \subseteq Nodes
        /\ i \in 1..Len(Kids(n))
    <3>1. c \in Nodes /\ n \notin Below(c)
      BY <2>1, BelowKid
    <3>2. QED
      BY <1>2, <1>6, <3>1, BelowDef DEF Region
  <2> DEFINE e == E[Place(c, 0)][m]
  <2>3. EvaluateEffect(c, 0, m, e) /\ (e.ok => Ready(c, e.m, h))
    <3>1. EvaluateGood(c, 0, h)
      BY <1>6
    <3>2. EvaluateEffect(c, 0, m, e) /\ EvaluateReady(c, 0, h, e)
      BY <3>1 DEF EvaluateGood
    <3> HIDE DEF e
    <3>3. QED
      BY <3>2 DEF EvaluateReady
  <2>4. ASSUME NEW w \in Memories, SameButCurrent(m, w),
               \A x \in Nodes \ Region(n, i) : w.current[x] = m.current[x],
               v = E[Place(n, i + 1)][w]
        PROVE  /\ EvaluateEffect(n, i, m, v) /\ EvaluateReady(n, i + 1, h, v)
               /\ SameButCurrent(w, v.m) /\ \A x \in Below(c) : v.m.current[x] = w.current[x]
    <3>1. EvaluateEffect(n, i + 1, w, v) /\ EvaluateReady(n, i + 1, h, v)
      <4>1. EvaluateGood(n, i + 1, h)
        BY <1>6
      <4> HIDE DEF v
      <4>2. QED
        BY <2>4, <4>1 DEF EvaluateGood
    <3> HIDE DEF v
    <3>2. /\ v \in Evaluations /\ SameButCurrent(w, v.m)
          /\ \A x \in Nodes \ Region(n, i + 1) : v.m.current[x] = w.current[x]
      BY <3>1 DEF EvaluateEffect
    <3>3. SameButCurrent(m, v.m)
      BY <2>4, <3>2, SameTrans
    <3>4. \A x \in Nodes \ Region(n, i) : v.m.current[x] = m.current[x]
      BY <2>1, <2>4, <3>2
    <3>5. EvaluateEffect(n, i, m, v)
      BY <3>2, <3>3, <3>4 DEF EvaluateEffect
    <3>6. \A x \in Below(c) : v.m.current[x] = w.current[x]
      BY <2>1, <2>2, <3>2
    <3>7. QED
      BY <3>1, <3>2, <3>5, <3>6
  <2>5. /\ e \in Evaluations /\ e.m \in Memories /\ SameButCurrent(m, e.m)
        /\ \A x \in Nodes \ Below(c) : e.m.current[x] = m.current[x]
        /\ \A x \in Nodes \ Region(n, i) : e.m.current[x] = m.current[x]
    <3> HIDE DEF e
    <3>1. /\ e \in Evaluations /\ SameButCurrent(m, e.m)
          /\ \A x \in Nodes \ Below(c) : e.m.current[x] = m.current[x]
      BY <2>2, <2>3 DEF EvaluateEffect
    <3>2. e.m \in Memories
      BY <3>1 DEF Evaluations
    <3>3. QED
      BY <2>1, <3>1, <3>2
  <2> HIDE DEF e
  <2>6. CASE tree.kind[n] \in Selectors
    <3>1. v = IF e.ok THEN [ok |-> TRUE, m |-> [e.m EXCEPT !.current[n] = c]]
              ELSE E[Place(n, i + 1)][e.m]
      BY <1>1, <1>6, <2>6 DEF EvaluateFirst, e
    <3>2. CASE e.ok
      <4> DEFINE w == [e.m EXCEPT !.current[n] = c]
      <4>1. /\ w \in Memories /\ SameButCurrent(e.m, w) /\ w.current[n] = c
            /\ \A x \in Nodes \ {n} : w.current[x] = e.m.current[x]
        BY <2>1, <2>5, SetCurrent, SMTT(30)
      <4> HIDE DEF w, v
      <4>2. v = [ok |-> TRUE, m |-> w]
        BY <3>1, <3>2 DEF w
      <4>3. SameButCurrent(m, w)
        BY <2>5, <4>1, SameTrans
      <4>4. \A x \in Nodes \ Region(n, i) : w.current[x] = m.current[x]
        BY <2>1, <2>5, <4>1
      <4>5. \A x \in Below(c) : w.current[x] = e.m.current[x]
        BY <2>2, <4>1
      <4>6. Ready(c, w, h)
        BY <2>2, <2>3, <3>2, <4>1, <4>5, ReadyCurrent
      <4>7. v \in Evaluations /\ v.m = w
        BY <4>1, <4>2 DEF Evaluations
      <4>8. EvaluateEffect(n, i, m, v)
        BY <4>3, <4>4, <4>7 DEF EvaluateEffect
      <4>9. EvaluateReady(n, i, h, v)
        BY <1>2, <2>1, <2>6, <4>1, <4>6, <4>7 DEF EvaluateReady
      <4>10. QED
        BY <4>8, <4>9 DEF v
    <3>3. CASE ~e.ok
      <4>1. v = E[Place(n, i + 1)][e.m]
        BY <3>1, <3>3
      <4>2. EvaluateEffect(n, i, m, v) /\ EvaluateReady(n, i + 1, h, v)
        BY <2>4, <2>5, <4>1
      <4>3. i + 1 # 0
        BY <1>2
      <4> HIDE DEF v
      <4>4. EvaluateReady(n, i, h, v)
        BY <1>2, <2>6, <4>2, <4>3 DEF EvaluateReady
      <4>5. QED
        BY <4>2, <4>4 DEF v
    <3>4. QED
      BY <3>2, <3>3
  <2>7. CASE tree.kind[n] \notin Selectors
    <3> DEFINE d == IF c \in m.done THEN [ok |-> TRUE, m |-> m] ELSE e
    <3>1. v = IF d.ok THEN E[Place(n, i + 1)][d.m] ELSE d
      BY <1>1, <1>6, <2>7 DEF EvaluateAll, e
    <3>2. /\ d \in Evaluations /\ d.m \in Memories /\ SameButCurrent(m, d.m)
          /\ \A x \in Nodes \ Region(n, i) : d.m.current[x] = m.current[x]
      BY <1>3, <1>4, <2>5
    <3>3. d.ok => c \in m.done \/ Ready(c, d.m, h)
      BY <2>3
    <3> HIDE DEF d
    <3>4. CASE d.ok
      <4>1. v = E[Place(n, i + 1)][d.m]
        BY <3>1, <3>4
      <4>2. /\ EvaluateEffect(n, i, m, v) /\ EvaluateReady(n, i + 1, h, v)
            /\ SameButCurrent(d.m, v.m) /\ \A x \in Below(c) : v.m.current[x] = d.m.current[x]
        BY <2>4, <3>2, <4>1
      <4>3. i + 1 # 0
        BY <1>2
      <4> HIDE DEF v
      <4>4. c \in v.m.done \/ Ready(c, v.m, h)
        <5>1. CASE c \in m.done
          BY <3>2, <4>2, <5>1 DEF SameButCurrent
        <5>2. CASE Ready(c, d.m, h)
          BY <2>2, <4>2, <5>2, ReadyCurrent
        <5>3. QED
          BY <3>3, <3>4, <5>1, <5>2
      <4>5. v.ok => \A j \in 1..Len(Kids(n)) :
                      i + 1 <= j => Kids(n)[j] \in v.m.done \/ Ready(Kids(n)[j], v.m, h)
        BY <2>7, <4>2, <4>3 DEF EvaluateReady
      <4>6. \A j \in 1..Len(Kids(n)) : i <= j => i + 1 <= j \/ j = i
        BY <1>2
      <4>7. EvaluateReady(n, i, h, v)
        BY <1>2, <2>7, <4>4, <4>5, <4>6 DEF EvaluateReady
      <4>8. QED
        BY <4>2, <4>7 DEF v
    <3>5. CASE ~d.ok
      <4>1. v = d
        BY <3>1, <3>5
      <4> HIDE DEF v
      <4>2. EvaluateEffect(n, i, m, v)
        BY <3>2, <4>1 DEF EvaluateEffect
      <4>3. EvaluateReady(n, i, h, v)
        BY <3>5, <4>1 DEF EvaluateReady
      <4>4. QED
        BY <4>2, <4>3 DEF v
    <3>6. QED
      BY <3>4, <3>5
  <2>8. QED
    BY <2>6, <2>7
<1>7. QED
  BY <1>5, <1>6

\* What a visit of n has touched if it has touched what a visit of q does.
LEMMA EffectWithin ==
  ASSUME IsTree(tree), IsBevTree(tree), NEW n \in Nodes, NEW q \in Nodes, NEW i \in Nat,
         Region(q, i) \subseteq Below(n),
         NEW m, NEW w, NEW e, SameButCurrent(m, w),
         \A x \in Nodes \ Below(n) : w.current[x] = m.current[x],
         EvaluateEffect(q, i, w, e)
  PROVE  EvaluateEffect(n, 0, m, e) /\ e.m \in Memories
<1>1. /\ e \in Evaluations /\ SameButCurrent(w, e.m)
      /\ \A x \in Nodes \ Region(q, i) : e.m.current[x] = w.current[x]
  BY DEF EvaluateEffect
<1>2. SameButCurrent(m, e.m)
  BY <1>1, SameTrans
<1>3. \A x \in Nodes \ Below(n) : e.m.current[x] = m.current[x]
  BY <1>1
<1>4. Region(n, 0) = Below(n)
  BY DEF Region
<1>5. QED
  BY <1>1, <1>2, <1>3, <1>4 DEF EvaluateEffect, Evaluations

LEMMA EvaluateAnyGood ==
  ASSUME IsTree(tree), IsBevTree(tree),
         NEW h, NEW n \in Nodes, n \in h, tree.kind[n] \in Selectors,
         EvaluateGood(n, 1, h), NEW m \in Memories
  PROVE  /\ EvaluateEffect(n, 0, m, EvaluateAny(Evaluate(h), n, m))
         /\ EvaluateReady(n, 0, h, EvaluateAny(Evaluate(h), n, m))
<1> DEFINE w == [m EXCEPT !.current[n] = NoNode]
           v == Evaluate(h)[Place(n, 1)][w]
<1>1. EvaluateAny(Evaluate(h), n, m) = v
  BY DEF EvaluateAny
<1>2. /\ w \in Memories /\ SameButCurrent(m, w)
      /\ \A x \in Nodes \ {n} : w.current[x] = m.current[x]
  BY SetCurrent
<1> HIDE DEF w
<1>3. EvaluateEffect(n, 1, w, v) /\ EvaluateReady(n, 1, h, v)
  BY <1>2 DEF EvaluateGood
<1> HIDE DEF v
<1>4. 1 \in Nat
  OBVIOUS
<1>5. n \in Below(n) /\ Region(n, 1) \subseteq Below(n)
  BY <1>4, RegionFacts
<1>6. \A x \in Nodes \ Below(n) : w.current[x] = m.current[x]
  BY <1>2, <1>5
<1>7. EvaluateEffect(n, 0, m, v) /\ v.m \in Memories
  BY <1>2, <1>3, <1>4, <1>5, <1>6, EffectWithin
<1>8. ASSUME v.ok PROVE Ready(n, v.m, h)
  <2>1. v.m.current[n] \in ToSet(Kids(n)) /\ Ready(v.m.current[n], v.m, h)
    BY <1>3, <1>8 DEF EvaluateReady
  <2>2. Due(n, v.m) = {v.m.current[n]}
    BY DEF Due, Selectors
  <2>3. QED
    BY <1>7, <2>1, <2>2, ReadyMake
<1>9. EvaluateReady(n, 0, h, v)
  BY <1>8 DEF EvaluateReady
<1>10. QED
  BY <1>1, <1>7, <1>9

LEMMA EvaluateNodeGood ==
  ASSUME IsTree(tree), IsBevTree(tree), NEW h, NEW n \in Nodes,
         \A c \in ToSet(Kids(n)) : EvaluateGood(c, 0, h), EvaluateGood(n, 1, h)
  PROVE  EvaluateGood(n, 0, h)
<1> DEFINE E == Evaluate(h)
<1> SUFFICES ASSUME NEW m \in Memories
             PROVE  /\ EvaluateEffect(n, 0, m, E[Place(n, 0)][m])
                    /\ EvaluateReady(n, 0, h, E[Place(n, 0)][m])
  BY DEF EvaluateGood
<1> DEFINE v == E[Place(n, 0)][m]
<1>1. v = EvaluateNode(E, n, m, h)
  <2>1. 0 \in Nat
    OBVIOUS
  <2>2. v = EvaluateAt(E, n, 0, m, h)
    BY <2>1, EvaluateDef
  <2>3. QED
    BY <2>2 DEF EvaluateAt
<1>2. /\ Region(n, 0) = Below(n) /\ n \in Below(n) /\ tree.kind[n] \in Kinds
      /\ 0 \in Nat /\ 1 \in Nat
  BY BelowDef, TreeFacts, KindFacts DEF Region
<1>3. ASSUME NEW b \in BOOLEAN, v = [ok |-> b, m |-> m]
      PROVE  EvaluateEffect(n, 0, m, v) /\ v.ok = b /\ v.m = m
  <2>1. SameButCurrent(m, m)
    BY DEF SameButCurrent
  <2>2. [ok |-> b, m |-> m] \in Evaluations
    BY DEF Evaluations
  <2> HIDE DEF v
  <2>3. v \in Evaluations /\ v.ok = b /\ v.m = m
    BY <1>3, <2>2
  <2>4. QED
    BY <2>1, <2>3 DEF EvaluateEffect
\* The visit goes on with one child.
<1>4. ASSUME NEW c \in ToSet(Kids(n)), NEW e, e = E[Place(c, 0)][m]
      PROVE  /\ EvaluateEffect(n, 0, m, e) /\ e.m \in Memories /\ (e.ok => Ready(c, e.m, h))
             /\ SameButCurrent(m, e.m) /\ e.m.current[n] = m.current[n]
  <2>1. /\ c \in Nodes /\ n \notin Below(c) /\ Below(c) \subseteq Below(n)
        /\ Region(c, 0) = Below(c)
    BY BelowKid DEF Region
  <2>2. EvaluateEffect(c, 0, m, e) /\ EvaluateReady(c, 0, h, e)
    BY <1>4 DEF EvaluateGood
  <2>3. SameButCurrent(m, m) /\ SameButCurrent(m, e.m)
    BY <2>2 DEF SameButCurrent, EvaluateEffect
  <2>4. EvaluateEffect(n, 0, m, e) /\ e.m \in Memories
    BY <1>2, <2>1, <2>2, <2>3, EffectWithin
  <2>5. e.m.current[n] = m.current[n]
    BY <2>1, <2>2 DEF EvaluateEffect
  <2>6. e.ok => Ready(c, e.m, h)
    BY <2>2 DEF EvaluateReady
  <2>7. QED
    BY <2>3, <2>4, <2>5, <2>6
\* If all children that are due are ready, so is n.
<1>5. ASSUME n \in h, EvaluateEffect(n, 0, m, v),
             v.ok => \A c \in Due(n, v.m) : c \in ToSet(Kids(n)) /\ Ready(c, v.m, h)
      PROVE  EvaluateReady(n, 0, h, v)
  <2> HIDE DEF v
  <2>1. v.m \in Memories
    BY <1>5 DEF EvaluateEffect, Evaluations
  <2>2. v.ok => Ready(n, v.m, h)
    BY <1>5, <2>1, ReadyMake
  <2>3. QED
    BY <2>2 DEF EvaluateReady
<1>6. CASE n \notin h
  <2>1. v = [ok |-> FALSE, m |-> m]
    BY <1>1, <1>6, EvaluateClosed
  <2>2. EvaluateEffect(n, 0, m, v) /\ v.ok = FALSE
    BY <1>3, <2>1
  <2> HIDE DEF v
  <2>3. EvaluateReady(n, 0, h, v)
    BY <2>2 DEF EvaluateReady
  <2>4. QED
    BY <2>2, <2>3 DEF v
<1>7. CASE n \in h /\ tree.kind[n] = "terminal"
  <2>1. v = [ok |-> TRUE, m |-> m]
    BY <1>1, <1>7, EvaluateTerminal
  <2>2. EvaluateEffect(n, 0, m, v)
    BY <1>3, <2>1
  <2>3. Due(n, v.m) = {}
    BY <1>7 DEF Due
  <2>4. QED
    BY <1>5, <1>7, <2>2, <2>3
<1>8. CASE n \in h /\ tree.kind[n] = "priority"
  <2>1. v = EvaluateAny(E, n, m) /\ tree.kind[n] \in Selectors
    BY <1>1, <1>8, EvaluatePriority DEF Selectors
  <2>2. QED
    BY <1>8, <2>1, EvaluateAnyGood
<1>9. CASE n \in h /\ tree.kind[n] = "nonepriority"
  <2> DEFINE c == m.current[n]
             e == IF c = NoNode THEN [ok |-> FALSE, m |-> m] ELSE E[Place(c, 0)][m]
  <2>1. v = (IF e.ok THEN e ELSE EvaluateAny(E, n, e.m)) /\ tree.kind[n] \in Selectors
    <3>1. EvaluateAgain(E, n, m) = IF e.ok THEN e ELSE EvaluateAny(E, n, e.m)
      BY DEF EvaluateAgain
    <3>2. v = EvaluateAgain(E, n, m)
      BY <1>1, <1>9, EvaluateNonePriority
    <3>3. QED
      BY <1>9, <3>1, <3>2 DEF Selectors
  <2>2. /\ EvaluateEffect(n, 0, m, e) /\ e.m \in Memories /\ SameButCurrent(m, e.m)
        /\ e.ok => c \in ToSet(Kids(n)) /\ Ready(c, e.m, h) /\ e.m.current[n] = c
    <3>1. CASE c = NoNode
      <4>1. e = [ok |-> FALSE, m |-> m]
        BY <3>1
      <4>2. SameButCurrent(m, m)
        BY DEF SameButCurrent
      <4>3. [ok |-> FALSE, m |-> m] \in Evaluations
        BY DEF Evaluations
      <4> HIDE DEF e
      <4>4. e \in Evaluations /\ e.m = m /\ ~e.ok
        BY <4>1, <4>3
      <4>5. QED
        BY <4>2, <4>4 DEF EvaluateEffect
    <3>2. CASE c # NoNode
      <4>1. e = E[Place(c, 0)][m] /\ c \in ToSet(Kids(n))
        BY <3>2, MemoryFacts
      <4> HIDE DEF e, c
      <4>2. QED
        BY <1>4, <4>1 DEF c
    <3>3. QED
      BY <3>1, <3>2
  <2> HIDE DEF e
  <2>3. CASE e.ok
    <3>1. v = e
      BY <2>1, <2>3
    <3>2. Due(n, e.m) = {e.m.current[n]}
      BY <2>1 DEF Due, Selectors
    <3>3. \A d \in Due(n, e.m) : d \in ToSet(Kids(n)) /\ Ready(d, e.m, h)
      BY <2>2, <2>3, <3>2
    <3> HIDE DEF v
    <3>4. QED
      BY <1>5, <1>9, <2>2, <3>1, <3>3 DEF v
  <2>4. CASE ~e.ok
    <3>1. v = EvaluateAny(E, n, e.m)
      BY <2>1, <2>4
    <3>2. EvaluateEffect(n, 0, e.m, v) /\ EvaluateReady(n, 0, h, v)
      BY <1>9, <2>1, <2>2, <3>1, EvaluateAnyGood
    <3> HIDE DEF v
    <3>3. \A x \in Nodes \ Below(n) : e.m.current[x] = m.current[x]
      BY <1>2, <2>2 DEF EvaluateEffect
    <3>4. EvaluateEffect(n, 0, m, v)
      BY <1>2, <2>2, <3>2, <3>3, EffectWithin
    <3>5. QED
      BY <3>2, <3>4 DEF v
  <2>5. QED
    BY <2>3, <2>4
<1>10. CASE n \in h /\ tree.kind[n] = "sequence"
  <2>1. PICK c \in ToSet(Kids(n)) : c = TestNode(n, m)
    BY <1>10, StepFacts
  <2>2. v = E[Place(c, 0)][m]
    BY <1>1, <1>10, <2>1, EvaluateSequence
  <2>3. /\ EvaluateEffect(n, 0, m, v) /\ (v.ok => Ready(c, v.m, h)) /\ SameButCurrent(m, v.m)
    BY <1>4, <2>2
  <2> HIDE DEF v
  <2>4. Due(n, v.m) = {TestNode(n, v.m)}
    BY <1>10 DEF Due, Selectors
  <2>5. TestNode(n, v.m) = c
    BY <2>1, <2>3 DEF TestNode, SameButCurrent
  <2>6. v.ok => \A d \in Due(n, v.m) : d \in ToSet(Kids(n)) /\ Ready(d, v.m, h)
    BY <2>3, <2>4, <2>5
  <2>7. QED
    BY <1>5, <1>10, <2>3, <2>6 DEF v
<1>11. CASE n \in h /\ tree.kind[n] \in Parallels
  <2>1. v = E[Place(n, 1)][m]
    BY <1>1, <1>11, EvaluateParallel
  <2>2. EvaluateEffect(n, 1, m, v) /\ EvaluateReady(n, 1, h, v)
    BY <2>1 DEF EvaluateGood
  <2> HIDE DEF v
  <2>3. SameButCurrent(m, m) /\ Region(n, 1) \subseteq Below(n)
    BY <1>2, RegionFacts DEF SameButCurrent
  <2>4. EvaluateEffect(n, 0, m, v)
    BY <1>2, <2>2, <2>3, EffectWithin
  <2>5. Due(n, v.m) = ToSet(Kids(n)) \ v.m.done
    BY <1>11 DEF Due, Selectors, Parallels
  <2>6. v.ok => \A j \in 1..Len(Kids(n)) : Kids(n)[j] \in v.m.done \/ Ready(Kids(n)[j], v.m, h)
    BY <1>11, <2>2 DEF EvaluateReady, Selectors, Parallels
  <2>7. v.ok => \A d \in Due(n, v.m) : d \in ToSet(Kids(n)) /\ Ready(d, v.m, h)
    BY <2>5, <2>6, KidsSet
  <2>8. QED
    BY <1>5, <1>11, <2>4, <2>7 DEF v
<1>12. CASE n \in h /\ tree.kind[n] = "loop"
  <2>1. PICK c \in ToSet(Kids(n)) : c = Kids(n)[1]
    BY <1>12, KidsSet, KindFacts
  <2>2. v = IF tree.limit[n] = Infinite \/ m.count[n] < tree.limit[n]
            THEN E[Place(c, 0)][m] ELSE [ok |-> FALSE, m |-> m]
    BY <1>1, <1>12, <2>1, EvaluateLoop
  <2>3. CASE v = E[Place(c, 0)][m]
    <3>1. EvaluateEffect(n, 0, m, v) /\ (v.ok => Ready(c, v.m, h))
      BY <1>4, <2>3
    <3> HIDE DEF v
    <3>2. Due(n, v.m) = {c}
      BY <1>12, <2>1 DEF Due, Selectors
    <3>3. v.ok => \A d \in Due(n, v.m) : d \in ToSet(Kids(n)) /\ Ready(d, v.m, h)
      BY <3>1, <3>2
    <3>4. QED
      BY <1>5, <1>12, <3>1, <3>3 DEF v
  <2>4. CASE v = [ok |-> FALSE, m |-> m]
    <3>1. EvaluateEffect(n, 0, m, v) /\ v.ok = FALSE
      BY <1>3, <2>4
    <3> HIDE DEF v
    <3>2. EvaluateReady(n, 0, h, v)
      BY <3>1 DEF EvaluateReady
    <3>3. QED
      BY <3>1, <3>2 DEF v
  <2>5. QED
    BY <2>2, <2>3, <2>4
<1>13. QED
  BY <1>2, <1>6, <1>7, <1>8, <1>9, <1>10, <1>11, <1>12 DEF Kinds, Selectors, Parallels

\* Evaluate touches only the choices of the nodes below, and what it lets pass is ready.
LEMMA EvaluateGoodAll ==
  ASSUME IsTree(tree), IsBevTree(tree), NEW h
  PROVE  \A n \in Nodes : EvaluateGood(n, 0, h)
<1> DEFINE S == {p \in Places : EvaluateGood(p[1], p[2], h)}
<1>1. \A n \in Nodes : \A i \in Nat :
        Place(n, i) \in S <=> EvaluateGood(n, i, h)
  BY DEF Place, Places
<1> HIDE DEF S
<1>2. ASSUME NEW n \in Nodes, NEW i \in Nat, \A q \in Onward(n, i) : q \in S
      PROVE  Place(n, i) \in S
  <2>1. 0 \in Nat /\ 1 \in Nat /\ i \in Nat
    OBVIOUS
  <2>2. \A c \in ToSet(Kids(n)) : EvaluateGood(c, 0, h)
    BY <1>1, <1>2, <2>1, OnwardFacts, KidsSet
  <2>3. CASE i = 0
    <3>1. EvaluateGood(n, 1, h)
      BY <1>1, <1>2, <2>1, <2>3, OnwardFacts
    <3>2. QED
      BY <1>1, <2>1, <2>2, <2>3, <3>1, EvaluateNodeGood
  <2>4. CASE i > 0
    <3>1. ASSUME ~(i > Len(Kids(n)))
          PROVE  EvaluateGood(Kids(n)[i], 0, h) /\ EvaluateGood(n, i + 1, h)
      <4>1. /\ Kids(n)[i] \in ToSet(Kids(n)) /\ Place(n, i + 1) \in Onward(n, i)
            /\ i + 1 \in Nat
        BY <2>4, <3>1, OnwardFacts
      <4>2. i + 1 \in Nat
        BY <4>1
      <4>3. QED
        BY <1>1, <1>2, <2>2, <4>1, <4>2
    <3>2. EvaluateGood(n, i, h)
      BY <2>4, <3>1, EvaluateKidsGood
    <3>3. QED
      BY <1>1, <3>2
  <2>5. QED
    BY <2>1, <2>3, <2>4
<1>3. Places \subseteq S
  BY <1>2, PlaceInduction
<1>4. \A n \in Nodes : Place(n, 0) \in Places
  BY DEF Place, Places
<1>5. 0 \in Nat
  OBVIOUS
<1>6. QED
  BY <1>1, <1>3, <1>4, <1>5

-----------------------------------------------------------------------------
(* What is remembered. *)

\* No terminal under n runs, but for those OR parallels forget.
Clear(n, m) == Below(n) \cap (m.running \ Forgotten) = {}

\* Under n all terminals that run are remembered.
Tidy(n, m) ==
  \A p \in Below(n) : \A c \in ToSet(Kids(p)) : ~Clear(c, m) => Remembers(p, c, m)

LEMMA RemembersKinds ==
  ASSUME NEW p, NEW c, NEW m
  PROVE  /\ tree.kind[p] \in Selectors => (Remembers(p, c, m) <=> m.last[p] = c)
         /\ tree.kind[p] = "sequence" =>
              (Remembers(p, c, m) <=> m.step[p] # 0 /\ Kids(p)[m.step[p]] = c)
         /\ tree.kind[p] \in Parallels => (Remembers(p, c, m) <=> c \notin m.done)
         /\ tree.kind[p] = "loop" => (Remembers(p, c, m) <=> Kids(p)[1] = c)
BY DEF Remembers, Selectors, Parallels

LEMMA AlikeTrans ==
  ASSUME NEW x, NEW m, NEW v, NEW w, Alike(x, m, v), Alike(x, v, w)
  PROVE  Alike(x, m, w)
BY DEF Alike

LEMMA RemembersLocal ==
  ASSUME IsTree(tree), IsBevTree(tree),
         NEW p \in Nodes, NEW c \in ToSet(Kids(p)), NEW m, NEW w, Alike(p, m, w),
         Remembers(p, c, m)
  PROVE  Remembers(p, c, w)
<1>1. tree.kind[p] \in Kinds \ {"terminal"}
  BY TreeFacts, KidsSet, KindFacts
<1>2. w.last[p] = m.last[p] /\ w.step[p] = m.step[p] /\ (c \in w.done <=> c \in m.done)
  BY DEF Alike
<1>3. CASE tree.kind[p] \in Selectors
  BY <1>2, <1>3, RemembersKinds
<1>4. CASE tree.kind[p] = "sequence"
  BY <1>2, <1>4, RemembersKinds
<1>5. CASE tree.kind[p] \in Parallels
  BY <1>2, <1>5, RemembersKinds
<1>6. CASE tree.kind[p] = "loop"
  BY <1>6, RemembersKinds
<1>7. QED
  BY <1>1, <1>3, <1>4, <1>5, <1>6 DEF Kinds

LEMMA ClearLocal ==
  ASSUME NEW n, NEW m, NEW w, Clear(n, m), \A x \in Below(n) : x \in w.running => x \in m.running
  PROVE  Clear(n, w)
BY DEF Clear

LEMMA ClearKids ==
  ASSUME IsTree(tree), IsBevTree(tree),
         NEW n \in Nodes, NEW m \in Memories, tree.kind[n] # "terminal",
         \A c \in ToSet(Kids(n)) : Clear(c, m)
  PROVE  Clear(n, m)
<1>1. n \notin m.running
  BY MemoryFacts DEF Terminals
<1>2. Below(n) = {n} \cup UNION {Below(c) : c \in ToSet(Kids(n))}
  BY BelowDef
<1>3. QED
  BY <1>1, <1>2 DEF Clear

LEMMA ClearTidy ==
  ASSUME IsTree(tree), IsBevTree(tree), NEW n \in Nodes, NEW m, Clear(n, m)
  PROVE  Tidy(n, m) /\ \A c \in ToSet(Kids(n)) : Clear(c, m)
<1>1. ASSUME NEW p \in Below(n), NEW c \in ToSet(Kids(p))
      PROVE  Clear(c, m)
  <2>1. p \in Nodes /\ Below(p) \subseteq Below(n)
    BY BelowAll
  <2>2. Below(c) \subseteq Below(p)
    BY <2>1, BelowKid
  <2>3. QED
    BY <2>1, <2>2 DEF Clear
<1>2. n \in Below(n)
  BY BelowDef
<1>3. QED
  BY <1>1, <1>2 DEF Tidy

LEMMA TidyLocal ==
  ASSUME IsTree(tree), IsBevTree(tree), NEW n \in Nodes, NEW m, NEW w, Tidy(n, m),
         \A x \in Below(n) : Alike(x, m, w)
  PROVE  Tidy(n, w)
<1> SUFFICES ASSUME NEW p \in Below(n), NEW c \in ToSet(Kids(p)), ~Clear(c, w)
             PROVE  Remembers(p, c, w)
  BY DEF Tidy
<1>1. p \in Nodes /\ Below(p) \subseteq Below(n) /\ Below(c) \subseteq Below(p)
  BY BelowAll, BelowKid
<1>2. \A x \in Below(c) : x \in m.running => x \in w.running
  BY <1>1 DEF Alike
<1>3. \A x \in Below(c) : x \in w.running => x \in m.running
  BY <1>1 DEF Alike
<1>4. ~Clear(c, m)
  BY <1>3, ClearLocal
<1>5. Remembers(p, c, m)
  BY <1>4 DEF Tidy
<1>6. QED
  BY <1>1, <1>5, RemembersLocal

LEMMA TidyKid ==
  ASSUME IsTree(tree), IsBevTree(tree),
         NEW n \in Nodes, NEW m, Tidy(n, m), NEW c \in ToSet(Kids(n))
  PROVE  Tidy(c, m) /\ (~Clear(c, m) => Remembers(n, c, m))
<1>1. Below(c) \subseteq Below(n) /\ n \in Below(n)
  BY BelowKid
<1>2. QED
  BY <1>1 DEF Tidy

LEMMA TidyMake ==
  ASSUME IsTree(tree), IsBevTree(tree), NEW n \in Nodes, NEW m,
         \A c \in ToSet(Kids(n)) : Tidy(c, m) /\ (~Clear(c, m) => Remembers(n, c, m))
  PROVE  Tidy(n, m)
<1> SUFFICES ASSUME NEW p \in Below(n), NEW c \in ToSet(Kids(p)), ~Clear(c, m)
             PROVE  Remembers(p, c, m)
  BY DEF Tidy
<1>1. CASE p = n
  BY <1>1
<1>2. CASE p # n
  <2>1. PICK d \in ToSet(Kids(n)) : p \in Below(d)
    BY <1>2, BelowDef
  <2>2. QED
    BY <2>1 DEF Tidy
<1>3. QED
  BY <1>1, <1>2

\* The steps of the methods, and what they leave alone.
LEMMA AlikeLast ==
  ASSUME IsTree(tree), IsBevTree(tree), NEW m \in Memories, NEW n \in Nodes,
         NEW c \in ToSet(Kids(n)) \cup {NoNode}, NEW w, w = [m EXCEPT !.last[n] = c]
  PROVE  /\ w \in Memories /\ w.last[n] = c /\ w.current = m.current
         /\ w.running = m.running /\ w.executed = m.executed
         /\ \A x \in Nodes \ {n} : Alike(x, m, w)
BY SetLast DEF Alike

LEMMA AlikeStep ==
  ASSUME IsTree(tree), IsBevTree(tree),
         NEW m \in Memories, NEW n \in Nodes, NEW i \in 0..Len(Kids(n)),
         NEW w, w = [m EXCEPT !.step[n] = i]
  PROVE  /\ w \in Memories /\ w.step[n] = i /\ w.current = m.current
         /\ w.running = m.running /\ w.executed = m.executed
         /\ \A x \in Nodes \ {n} : Alike(x, m, w)
BY SetStep DEF Alike

LEMMA AlikeCount ==
  ASSUME NEW m \in Memories, NEW n \in Nodes, NEW k \in Nat, NEW w, w = [m EXCEPT !.count[n] = k]
  PROVE  /\ w \in Memories /\ w.current = m.current
         /\ w.running = m.running /\ w.executed = m.executed
         /\ \A x \in Nodes : Alike(x, m, w)
BY SetCount DEF Alike

LEMMA AlikeDone ==
  ASSUME IsTree(tree), IsBevTree(tree),
         NEW m \in Memories, NEW n \in Nodes, NEW S \in SUBSET Nodes,
         \A c \in Nodes \ ToSet(Kids(n)) : c \in S <=> c \in m.done,
         NEW w, w = [m EXCEPT !.done = S]
  PROVE  /\ w \in Memories /\ w.done = S /\ w.current = m.current
         /\ w.running = m.running /\ w.executed = m.executed
         /\ \A x \in Nodes \ {n} : Alike(x, m, w)
<1>1. /\ w \in Memories /\ w.done = S /\ w.current = m.current
      /\ w.running = m.running /\ w.executed = m.executed
      /\ w.last = m.last /\ w.step = m.step
  BY SetDone
<1>2. ASSUME NEW x \in Nodes \ {n} PROVE Alike(x, m, w)
  <2>1. \A c \in ToSet(Kids(x)) : c \in Nodes \ ToSet(Kids(n))
    BY OneParent, KidsSet
  <2>2. QED
    BY <1>1, <2>1 DEF Alike
<1>3. QED
  BY <1>1, <1>2

-----------------------------------------------------------------------------
(* Transition leaves nothing running, and touches nothing else. *)

TransitionEffect(n, i, m, w) ==
  /\ w \in Memories /\ w.current = m.current /\ w.executed = m.executed
  /\ w.running \subseteq m.running
  /\ \A x \in Nodes \ Region(n, i) : Alike(x, m, w)

TransitionClears(n, i, m, w) ==
  IF i = 0 THEN Tidy(n, m) => Clear(n, w)
  ELSE (\A j \in 1..Len(Kids(n)) : i <= j => Tidy(Kids(n)[j], m)) =>
         \A j \in 1..Len(Kids(n)) : i <= j => Clear(Kids(n)[j], w)

TransitionGood(n, i) ==
  \A m \in Memories : /\ TransitionEffect(n, i, m, Transition[Place(n, i)][m])
                      /\ TransitionClears(n, i, m, Transition[Place(n, i)][m])

LEMMA TransitionNothing ==
  ASSUME NEW n, NEW i, NEW m \in Memories
  PROVE  TransitionEffect(n, i, m, m)
BY DEF TransitionEffect, Alike

\* One visit after another.
LEMMA TransitionThen ==
  ASSUME NEW n, NEW i, NEW q, NEW j, Region(q, j) \subseteq Region(n, i),
         NEW m, NEW v, NEW w, TransitionEffect(n, i, m, v), TransitionEffect(q, j, v, w)
  PROVE  TransitionEffect(n, i, m, w)
<1>1. ASSUME NEW x \in Nodes \ Region(n, i) PROVE Alike(x, m, w)
  <2>1. Alike(x, m, v) /\ Alike(x, v, w)
    BY DEF TransitionEffect
  <2>2. QED
    BY <2>1, AlikeTrans
<1>2. QED
  BY <1>1 DEF TransitionEffect

LEMMA TransitionKidsGood ==
  ASSUME IsTree(tree), IsBevTree(tree), NEW n \in Nodes, NEW i \in Nat, i > 0,
         ~(i > Len(Kids(n))) => TransitionGood(Kids(n)[i], 0) /\ TransitionGood(n, i + 1)
  PROVE  TransitionGood(n, i)
<1> SUFFICES ASSUME NEW m \in Memories
             PROVE  /\ TransitionEffect(n, i, m, Transition[Place(n, i)][m])
                    /\ TransitionClears(n, i, m, Transition[Place(n, i)][m])
  BY DEF TransitionGood
<1> DEFINE w == Transition[Place(n, i)][m]
           c == Kids(n)[i]
<1>1. w = TransitionKids(Transition, n, i, m)
  <2>1. w = TransitionAt(Transition, n, i, m) /\ i # 0
    BY TransitionDef
  <2>2. QED
    BY <2>1 DEF TransitionAt
<1>2. i # 0 /\ i + 1 # 0 /\ i \in Nat /\ Len(Kids(n)) \in Nat
  BY TreeFacts
<1>3. CASE i > Len(Kids(n))
  <2>1. w = m
    BY <1>1, <1>3 DEF TransitionKids
  <2>2. \A j \in 1..Len(Kids(n)) : ~(i <= j)
    BY <1>2, <1>3
  <2> HIDE DEF w
  <2>3. TransitionEffect(n, i, m, w)
    BY <2>1, TransitionNothing
  <2>4. TransitionClears(n, i, m, w)
    BY <1>2, <2>2 DEF TransitionClears
  <2>5. QED
    BY <2>3, <2>4 DEF w
<1>4. CASE ~(i > Len(Kids(n)))
  <2>1. /\ c \in ToSet(Kids(n)) /\ Below(c) \subseteq Region(n, i)
        /\ Region(n, i + 1) \subseteq Region(n, i) /\ Below(c) \cap Region(n, i + 1) = {}
    BY <1>4, RegionFacts
  <2>2. c \in Nodes /\ Region(c, 0) = Below(c) /\ i \in 1..Len(Kids(n))
    BY <1>2, <1>4, <2>1, KidsSet DEF Region
  <2> DEFINE v == Transition[Place(c, 0)][m]
  <2>3. w = Transition[Place(n, i + 1)][v]
    BY <1>1, <1>4 DEF TransitionKids
  <2>4. TransitionEffect(c, 0, m, v) /\ (Tidy(c, m) => Clear(c, v))
    <3>1. TransitionGood(c, 0)
      BY <1>4
    <3>2. TransitionEffect(c, 0, m, v) /\ TransitionClears(c, 0, m, v)
      BY <3>1 DEF TransitionGood
    <3> HIDE DEF v
    <3>3. QED
      BY <3>2 DEF TransitionClears
  <2> HIDE DEF v
  <2>5. v \in Memories
    BY <2>4 DEF TransitionEffect
  <2>6. TransitionEffect(n, i + 1, v, w) /\ TransitionClears(n, i + 1, v, w)
    <3>1. TransitionGood(n, i + 1)
      BY <1>4
    <3> HIDE DEF w
    <3>2. QED
      BY <2>3, <2>5, <3>1 DEF TransitionGood
  <2> HIDE DEF w
  <2>7. TransitionEffect(n, i, m, v)
    BY <2>1, <2>2, <2>4 DEF TransitionEffect
  <2>8. TransitionEffect(n, i, m, w)
    BY <2>1, <2>6, <2>7, TransitionThen
  <2>9. ASSUME \A j \in 1..Len(Kids(n)) : i <= j => Tidy(Kids(n)[j], m)
        PROVE  \A j \in 1..Len(Kids(n)) : i <= j => Clear(Kids(n)[j], w)
    <3>1. Clear(c, w)
      <4>1. Clear(c, v)
        BY <1>2, <2>2, <2>4, <2>9
      <4>2. w.running \subseteq v.running
        BY <2>6 DEF TransitionEffect
      <4>3. QED
        BY <4>1, <4>2, ClearLocal
    <3>2. ASSUME NEW j \in 1..Len(Kids(n)), i + 1 <= j PROVE Tidy(Kids(n)[j], v)
      <4>1. Kids(n)[j] \in ToSet(Kids(n)) /\ Kids(n)[j] \in Nodes /\ Kids(n)[j] # c
        BY <1>2, <2>2, <3>2, KidsSet, TreeFacts
      <4>2. Below(Kids(n)[j]) \cap Below(c) = {} /\ Below(Kids(n)[j]) \subseteq Nodes
        BY <2>1, <4>1, BranchesApart, BelowDef
      <4>3. \A x \in Below(Kids(n)[j]) : Alike(x, m, v)
        BY <2>2, <2>4, <4>2 DEF TransitionEffect
      <4>4. Tidy(Kids(n)[j], m)
        BY <1>2, <2>9, <3>2
      <4>5. QED
        BY <4>1, <4>3, <4>4, TidyLocal
    <3>3. \A j \in 1..Len(Kids(n)) : i + 1 <= j => Clear(Kids(n)[j], w)
      BY <1>2, <2>6, <3>2 DEF TransitionClears
    <3>4. \A j \in 1..Len(Kids(n)) : i <= j => i + 1 <= j \/ j = i
      BY <1>2
    <3>5. QED
      BY <3>1, <3>3, <3>4
  <2>10. TransitionClears(n, i, m, w)
    BY <1>2, <2>9 DEF TransitionClears
  <2>11. QED
    BY <2>8, <2>10 DEF w
<1>5. QED
  BY <1>3, <1>4

\* The last step of a method with children: nothing runs under any of them.
LEMMA TransitionEnd ==
  ASSUME IsTree(tree), IsBevTree(tree),
         NEW n \in Nodes, tree.kind[n] # "terminal", NEW m, NEW v, NEW w,
         TransitionEffect(n, 0, m, v), Tidy(n, m) => \A c \in ToSet(Kids(n)) : Clear(c, v),
         w \in Memories, w.current = v.current, w.executed = v.executed, w.running = v.running,
         \A x \in Nodes \ {n} : Alike(x, v, w)
  PROVE  TransitionEffect(n, 0, m, w) /\ (Tidy(n, m) => Clear(n, w))
<1>1. n \in Below(n) /\ Region(n, 0) = Below(n)
  BY BelowDef DEF Region
<1>2. ASSUME NEW x \in Nodes \ Region(n, 0) PROVE Alike(x, m, w)
  <2>1. Alike(x, m, v) /\ Alike(x, v, w)
    BY <1>1, <1>2 DEF TransitionEffect
  <2>2. QED
    BY <2>1, AlikeTrans
<1>3. TransitionEffect(n, 0, m, w)
  BY <1>2 DEF TransitionEffect
<1>4. ASSUME Tidy(n, m) PROVE Clear(n, w)
  <2>1. \A c \in ToSet(Kids(n)) : Clear(c, w)
    BY <1>4, ClearLocal
  <2>2. QED
    BY <2>1, ClearKids
<1>5. QED
  BY <1>3, <1>4

\* A method that gives up the one child that may run.
LEMMA TransitionKid ==
  ASSUME IsTree(tree), IsBevTree(tree),
         NEW n \in Nodes, NEW c \in ToSet(Kids(n)), TransitionGood(c, 0),
         NEW m \in Memories, \A d \in ToSet(Kids(n)) : Remembers(n, d, m) => d = c
  PROVE  LET v == Transition[Place(c, 0)][m]
         IN /\ TransitionEffect(n, 0, m, v) /\ TransitionEffect(c, 0, m, v)
            /\ Tidy(n, m) => \A d \in ToSet(Kids(n)) : Clear(d, v)
<1> DEFINE v == Transition[Place(c, 0)][m]
<1>1. TransitionEffect(c, 0, m, v) /\ TransitionClears(c, 0, m, v)
  BY DEF TransitionGood
<1> HIDE DEF v
<1>2. /\ Region(c, 0) = Below(c) /\ Region(n, 0) = Below(n) /\ Below(c) \subseteq Below(n)
      /\ c \in Nodes
  BY BelowKid DEF Region
<1>3. TransitionEffect(n, 0, m, v)
  BY <1>1, <1>2 DEF TransitionEffect
<1>4. ASSUME Tidy(n, m), NEW d \in ToSet(Kids(n)) PROVE Clear(d, v)
  <2>1. CASE d = c
    <3>1. Tidy(c, m)
      BY <1>4, TidyKid
    <3>2. QED
      BY <1>1, <2>1, <3>1 DEF TransitionClears
  <2>2. CASE d # c
    <3>1. Clear(d, m)
      BY <1>4, <2>2, TidyKid
    <3>2. v.running \subseteq m.running
      BY <1>1 DEF TransitionEffect
    <3>3. QED
      BY <3>1, <3>2, ClearLocal
  <2>3. QED
    BY <2>1, <2>2
<1>5. QED
  BY <1>1, <1>3, <1>4 DEF v

LEMMA TransitionNodeGood ==
  ASSUME IsTree(tree), IsBevTree(tree), NEW n \in Nodes,
         \A c \in ToSet(Kids(n)) : TransitionGood(c, 0), TransitionGood(n, 1)
  PROVE  TransitionGood(n, 0)
<1> SUFFICES ASSUME NEW m \in Memories
             PROVE  /\ TransitionEffect(n, 0, m, Transition[Place(n, 0)][m])
                    /\ Tidy(n, m) => Clear(n, Transition[Place(n, 0)][m])
  BY DEF TransitionGood, TransitionClears
<1> DEFINE w == Transition[Place(n, 0)][m]
<1>1. w = TransitionNode(Transition, n, m)
  <2>1. 0 \in Nat
    OBVIOUS
  <2>2. w = TransitionAt(Transition, n, 0, m)
    BY <2>1, TransitionDef
  <2>3. QED
    BY <2>2 DEF TransitionAt
<1>2. /\ Region(n, 0) = Below(n) /\ n \in Below(n) /\ tree.kind[n] \in Kinds
      /\ 1 \in Nat
  BY BelowDef, TreeFacts, KindFacts DEF Region
<1>3. TransitionEffect(n, 0, m, m)
  BY TransitionNothing
<1>4. CASE tree.kind[n] = "terminal"
  <2> DEFINE R == m.running \ {n}
             v == [m EXCEPT !.running = R]
  <2>1. R \in SUBSET Terminals
    BY MemoryFacts
  <2>2. w = v
    <3>1. w = TransitionTerminal(n, m)
      BY <1>1, <1>4, TransitionKinds
    <3>2. QED
      BY <3>1 DEF TransitionTerminal
  <2>3. R \subseteq m.running /\ n \notin R /\ \A x \in Nodes \ {n} : x \in R <=> x \in m.running
    OBVIOUS
  <2> HIDE DEF R
  <2>4. /\ v \in Memories /\ v.running = R /\ v.executed = m.executed /\ v.current = m.current
        /\ v.done = m.done /\ v.last = m.last /\ v.step = m.step
    BY <2>1, SetOnlyRunning
  <2> HIDE DEF v
  <2>5. \A x \in Nodes \ {n} : Alike(x, m, v)
    BY <2>3, <2>4 DEF Alike
  <2>6. TransitionEffect(n, 0, m, v)
    BY <1>2, <2>3, <2>4, <2>5 DEF TransitionEffect
  <2>7. Below(n) = {n}
    BY <1>4, BelowDef, KidsSet
  <2>8. Clear(n, v)
    BY <2>3, <2>4, <2>7 DEF Clear
  <2> HIDE DEF w
  <2>9. QED
    BY <2>2, <2>6, <2>8 DEF w
<1>5. CASE tree.kind[n] \in Selectors
  <2> DEFINE c == m.last[n]
             v == IF c = NoNode THEN m ELSE Transition[Place(c, 0)][m]
  <2>1. w = [v EXCEPT !.last[n] = NoNode]
    <3>1. w = TransitionSelector(Transition, n, m)
      BY <1>1, <1>5, TransitionKinds
    <3>2. QED
      BY <3>1 DEF TransitionSelector
  <2>2. \A d : Remembers(n, d, m) => d = c
    BY <1>5, RemembersKinds
  <2>3. TransitionEffect(n, 0, m, v) /\ (Tidy(n, m) => \A d \in ToSet(Kids(n)) : Clear(d, v))
    <3>1. CASE c = NoNode
      <4>1. v = m
        BY <3>1
      <4>2. \A d \in ToSet(Kids(n)) : d # c
        BY <3>1, KidsSet, TreeFacts
      <4> HIDE DEF v, c
      <4>3. Tidy(n, m) => \A d \in ToSet(Kids(n)) : Clear(d, m)
        BY <2>2, <4>2, TidyKid
      <4>4. QED
        BY <1>3, <4>1, <4>3
    <3>2. CASE c # NoNode
      <4>1. v = Transition[Place(c, 0)][m] /\ c \in ToSet(Kids(n))
        BY <3>2, MemoryFacts
      <4> HIDE DEF v, c
      <4>2. QED
        BY <2>2, <4>1, TransitionKid
    <3>3. QED
      BY <3>1, <3>2
  <2> HIDE DEF v, w
  <2>4. v \in Memories
    BY <2>3 DEF TransitionEffect
  <2>5. /\ w \in Memories /\ w.current = v.current /\ w.running = v.running
        /\ w.executed = v.executed /\ \A x \in Nodes \ {n} : Alike(x, v, w)
    BY <2>1, <2>4, AlikeLast
  <2>6. tree.kind[n] # "terminal"
    BY <1>5 DEF Selectors
  <2>7. TransitionEffect(n, 0, m, w) /\ (Tidy(n, m) => Clear(n, w))
    BY <2>3, <2>5, <2>6, TransitionEnd
  <2>8. QED
    BY <2>7 DEF w
<1>6. CASE tree.kind[n] = "sequence"
  <2> DEFINE c == Kids(n)[m.step[n]]
             v == IF m.step[n] = 0 THEN m ELSE Transition[Place(c, 0)][m]
  <2>1. w = [v EXCEPT !.step[n] = 0]
    <3>1. w = TransitionSequence(Transition, n, m)
      BY <1>1, <1>6, TransitionKinds
    <3>2. QED
      BY <3>1 DEF TransitionSequence
  <2>2. \A d : Remembers(n, d, m) => m.step[n] # 0 /\ d = c
    BY <1>6, RemembersKinds
  <2>3. TransitionEffect(n, 0, m, v) /\ (Tidy(n, m) => \A d \in ToSet(Kids(n)) : Clear(d, v))
    <3>1. CASE m.step[n] = 0
      <4>1. v = m
        BY <3>1
      <4> HIDE DEF v, c
      <4>2. Tidy(n, m) => \A d \in ToSet(Kids(n)) : Clear(d, m)
        BY <2>2, <3>1, TidyKid
      <4>3. QED
        BY <1>3, <4>1, <4>2
    <3>2. CASE m.step[n] # 0
      <4>1. v = Transition[Place(c, 0)][m] /\ c \in ToSet(Kids(n))
        BY <3>2, MemoryFacts, KidsSet
      <4> HIDE DEF v, c
      <4>2. QED
        BY <2>2, <4>1, TransitionKid
    <3>3. QED
      BY <3>1, <3>2
  <2> HIDE DEF v, w
  <2>4. v \in Memories /\ 0 \in 0..Len(Kids(n))
    BY <2>3, TreeFacts DEF TransitionEffect
  <2>5. /\ w \in Memories /\ w.current = v.current /\ w.running = v.running
        /\ w.executed = v.executed /\ \A x \in Nodes \ {n} : Alike(x, v, w)
    BY <2>1, <2>4, AlikeStep
  <2>6. TransitionEffect(n, 0, m, w) /\ (Tidy(n, m) => Clear(n, w))
    BY <1>6, <2>3, <2>5, TransitionEnd
  <2>7. QED
    BY <2>6 DEF w
<1>7. CASE tree.kind[n] \in Parallels
  <2> DEFINE S == m.done \ ToSet(Kids(n))
             v == [m EXCEPT !.done = S]
  <2>1. w = Transition[Place(n, 1)][v]
    <3>1. w = TransitionParallel(Transition, n, m)
      BY <1>1, <1>7, TransitionKinds
    <3>2. QED
      BY <3>1 DEF TransitionParallel
  <2>2. S \in SUBSET Nodes /\ \A c \in Nodes \ ToSet(Kids(n)) : c \in S <=> c \in m.done
    BY MemoryFacts
  <2> HIDE DEF S
  <2>3. /\ v \in Memories /\ v.current = m.current /\ v.running = m.running
        /\ v.executed = m.executed /\ \A x \in Nodes \ {n} : Alike(x, m, v)
    BY <2>2, AlikeDone
  <2> HIDE DEF v
  <2>4. TransitionEffect(n, 1, v, w) /\ TransitionClears(n, 1, v, w)
    BY <2>1, <2>3 DEF TransitionGood
  <2> HIDE DEF w
  <2>5. TransitionEffect(n, 0, m, v)
    BY <1>2, <2>3 DEF TransitionEffect
  <2>6. Region(n, 1) \subseteq Region(n, 0)
    BY <1>2, RegionFacts
  <2>7. TransitionEffect(n, 0, m, w)
    BY <2>4, <2>5, <2>6, TransitionThen
  <2>8. ASSUME Tidy(n, m) PROVE Clear(n, w)
    <3>1. ASSUME NEW c \in ToSet(Kids(n)) PROVE Tidy(c, v)
      <4>1. c \in Nodes /\ n \notin Below(c) /\ Below(c) \subseteq Nodes /\ Tidy(c, m)
        BY <2>8, BelowKid, BelowDef, TidyKid
      <4>2. \A x \in Below(c) : Alike(x, m, v)
        BY <2>3, <4>1
      <4>3. QED
        BY <4>1, <4>2, TidyLocal
    <3>2. \A j \in 1..Len(Kids(n)) : Tidy(Kids(n)[j], v)
      BY <3>1, KidsSet
    <3>3. \A j \in 1..Len(Kids(n)) : Clear(Kids(n)[j], w)
      BY <2>4, <3>2 DEF TransitionClears
    <3>4. \A c \in ToSet(Kids(n)) : Clear(c, w)
      BY <3>3, KidsSet
    <3>5. w \in Memories /\ tree.kind[n] # "terminal"
      BY <1>7, <2>7 DEF TransitionEffect, Parallels
    <3>6. QED
      BY <3>4, <3>5, ClearKids
  <2>9. QED
    BY <2>7, <2>8 DEF w
<1>8. CASE tree.kind[n] = "loop"
  <2> DEFINE c == Kids(n)[1]
             v == Transition[Place(c, 0)][m]
  <2>1. w = [v EXCEPT !.count[n] = 0]
    <3>1. w = TransitionLoop(Transition, n, m)
      BY <1>1, <1>8, TransitionKinds
    <3>2. QED
      BY <3>1 DEF TransitionLoop
  <2>2. c \in ToSet(Kids(n)) /\ \A d : Remembers(n, d, m) => d = c
    BY <1>8, RemembersKinds, KidsSet, KindFacts
  <2>3. TransitionEffect(n, 0, m, v) /\ (Tidy(n, m) => \A d \in ToSet(Kids(n)) : Clear(d, v))
    <3> HIDE DEF c
    <3>1. QED
      BY <2>2, TransitionKid
  <2> HIDE DEF v, w
  <2>4. v \in Memories
    BY <2>3 DEF TransitionEffect
  <2>5. /\ w \in Memories /\ w.current = v.current /\ w.running = v.running
        /\ w.executed = v.executed /\ \A x \in Nodes \ {n} : Alike(x, v, w)
    BY <2>1, <2>4, AlikeCount
  <2>6. TransitionEffect(n, 0, m, w) /\ (Tidy(n, m) => Clear(n, w))
    BY <1>8, <2>3, <2>5, TransitionEnd
  <2>7. QED
    BY <2>6 DEF w
<1>9. QED
  BY <1>2, <1>4, <1>5, <1>6, <1>7, <1>8 DEF Kinds, Selectors, Parallels

LEMMA TransitionGoodAll ==
  ASSUME IsTree(tree), IsBevTree(tree)
  PROVE  \A n \in Nodes : TransitionGood(n, 0)
<1> DEFINE S == {p \in Places : TransitionGood(p[1], p[2])}
<1>1. \A n \in Nodes : \A i \in Nat :
        Place(n, i) \in S <=> TransitionGood(n, i)
  BY DEF Place, Places
<1> HIDE DEF S
<1>2. ASSUME NEW n \in Nodes, NEW i \in Nat, \A q \in Onward(n, i) : q \in S
      PROVE  Place(n, i) \in S
  <2>1. 0 \in Nat /\ 1 \in Nat /\ i \in Nat
    OBVIOUS
  <2>2. \A c \in ToSet(Kids(n)) : TransitionGood(c, 0)
    BY <1>1, <1>2, <2>1, OnwardFacts, KidsSet
  <2>3. CASE i = 0
    <3>1. TransitionGood(n, 1)
      BY <1>1, <1>2, <2>1, <2>3, OnwardFacts
    <3>2. QED
      BY <1>1, <2>1, <2>2, <2>3, <3>1, TransitionNodeGood
  <2>4. CASE i > 0
    <3>1. ASSUME ~(i > Len(Kids(n)))
          PROVE  TransitionGood(Kids(n)[i], 0) /\ TransitionGood(n, i + 1)
      <4>1. /\ Kids(n)[i] \in ToSet(Kids(n)) /\ Place(n, i + 1) \in Onward(n, i)
            /\ i + 1 \in Nat
        BY <2>4, <3>1, OnwardFacts
      <4>2. i + 1 \in Nat
        BY <4>1
      <4>3. QED
        BY <1>1, <1>2, <2>2, <4>1, <4>2
    <3>2. TransitionGood(n, i)
      BY <2>4, <3>1, TransitionKidsGood
    <3>3. QED
      BY <1>1, <3>2
  <2>5. QED
    BY <2>1, <2>3, <2>4
<1>3. Places \subseteq S
  BY <1>2, PlaceInduction
<1>4. \A n \in Nodes : Place(n, 0) \in Places
  BY DEF Place, Places
<1>5. 0 \in Nat
  OBVIOUS
<1>6. QED
  BY <1>1, <1>3, <1>4, <1>5

-----------------------------------------------------------------------------
(* Tick executes only where all preconditions held, and leaves nothing unremembered. *)

\* The nodes below n all preconditions on the way to which hold.
Permitted(n, h) == {t \in Below(n) : \A a \in Below(n) : t \in Below(a) => a \in h}

TickEffect(n, i, m, w) ==
  /\ w \in Memories /\ w.current = m.current
  /\ \A x \in Nodes \ Region(n, i) : Alike(x, m, w)

TickPermits(n, i, h, m, w) ==
  (IF i = 0 THEN Ready(n, m, h)
   ELSE /\ tree.kind[n] \in Parallels /\ n \in h
        /\ \A j \in 1..Len(Kids(n)) : i <= j => Kids(n)[j] \in m.done \/ Ready(Kids(n)[j], m, h))
  => w.executed \subseteq m.executed \cup Permitted(n, h)

TickTidies(n, i, m, o) ==
  (i = 0 \/ tree.kind[n] \in Parallels) /\ Tidy(n, m)
  => Tidy(n, o.m) /\ (o.status # "executing" => Clear(n, o.m))

TickFine(n, i, h, m, o) ==
  /\ o \in Outcomes /\ TickEffect(n, i, m, o.m)
  /\ TickPermits(n, i, h, m, o.m) /\ TickTidies(n, i, m, o)

TickGood(n, i, h, result) ==
  \A m \in Memories : TickFine(n, i, h, m, Tick(result)[Place(n, i)][m])

LEMMA PermittedKid ==
  ASSUME IsTree(tree), IsBevTree(tree), NEW h, NEW n \in Nodes, n \in h, NEW c \in ToSet(Kids(n))
  PROVE  Permitted(c, h) \subseteq Permitted(n, h)
<1> SUFFICES ASSUME NEW t \in Permitted(c, h), NEW a \in Below(n), t \in Below(a)
             PROVE  a \in h /\ t \in Below(n)
  BY BelowKid DEF Permitted
<1>1. t \in Below(c) /\ t \in Below(n)
  BY BelowKid DEF Permitted
<1>2. CASE a = n
  BY <1>1, <1>2
<1>3. CASE a # n
  <2>1. PICK d \in ToSet(Kids(n)) : a \in Below(d)
    BY <1>3, BelowDef
  <2>2. d \in Nodes /\ t \in Below(d)
    BY <2>1, BelowKid, BelowAll
  <2>3. d = c
    BY <1>1, <2>2, BranchesApart
  <2>4. QED
    BY <1>1, <2>1, <2>3 DEF Permitted
<1>4. QED
  BY <1>2, <1>3

LEMMA ReadyAlike ==
  ASSUME IsTree(tree), IsBevTree(tree), NEW c \in Nodes, NEW m, NEW w, NEW h, Ready(c, m, h),
         \A x \in Below(c) : Alike(x, m, w)
  PROVE  Ready(c, w, h)
<1>1. ASSUME NEW x \in Below(c) PROVE Due(x, w) = Due(x, m)
  <2>1. /\ w.current[x] = m.current[x] /\ w.step[x] = m.step[x]
        /\ \A d \in ToSet(Kids(x)) : d \in w.done <=> d \in m.done
    BY DEF Alike
  <2>2. QED
    BY <2>1, DueLocal
<1>2. QED
  BY <1>1, ReadyLocal

\* A child of n is ticked: what it may touch, what it does itself, and what it leaves of
\* the other children.
LEMMA TickKid ==
  ASSUME IsTree(tree), IsBevTree(tree),
         NEW h, NEW result, NEW n \in Nodes, NEW c \in ToSet(Kids(n)),
         TickGood(c, 0, h, result), NEW m \in Memories,
         NEW r, r = Tick(result)[Place(c, 0)][m]
  PROVE  /\ r \in Outcomes /\ r.m \in Memories /\ r.m.current = m.current
         /\ \A x \in Nodes \ Below(c) : Alike(x, m, r.m)
         /\ TickEffect(n, 0, m, r.m) /\ Alike(n, m, r.m)
<1>1. /\ c \in Nodes /\ n \notin Below(c) /\ Below(c) \subseteq Below(n) /\ Region(c, 0) = Below(c)
      /\ Region(n, 0) = Below(n)
  BY BelowKid DEF Region
<1>2. TickFine(c, 0, h, m, r)
  BY DEF TickGood
<1>3. /\ r \in Outcomes /\ r.m \in Memories /\ r.m.current = m.current
      /\ \A x \in Nodes \ Below(c) : Alike(x, m, r.m)
  BY <1>1, <1>2 DEF TickFine, TickEffect
<1>4. QED
  BY <1>1, <1>3 DEF TickEffect

LEMMA TickKidOwn ==
  ASSUME IsTree(tree), IsBevTree(tree),
         NEW h, NEW result, NEW n \in Nodes, NEW c \in ToSet(Kids(n)),
         TickGood(c, 0, h, result), NEW m \in Memories,
         NEW r, r = Tick(result)[Place(c, 0)][m]
  PROVE  /\ n \in h /\ Ready(c, m, h) => r.m.executed \subseteq m.executed \cup Permitted(n, h)
         /\ Tidy(c, m) => Tidy(c, r.m) /\ (r.status # "executing" => Clear(c, r.m))
<1>1. TickFine(c, 0, h, m, r)
  BY DEF TickGood
<1>2. ASSUME n \in h, Ready(c, m, h) PROVE r.m.executed \subseteq m.executed \cup Permitted(n, h)
  <2>1. r.m.executed \subseteq m.executed \cup Permitted(c, h)
    BY <1>1, <1>2 DEF TickFine, TickPermits
  <2>2. Permitted(c, h) \subseteq Permitted(n, h)
    BY <1>2, PermittedKid
  <2>3. QED
    BY <2>1, <2>2
<1>3. Tidy(c, m) => Tidy(c, r.m) /\ (r.status # "executing" => Clear(c, r.m))
  BY <1>1 DEF TickFine, TickTidies
<1>4. QED
  BY <1>2, <1>3

LEMMA TickKidOthers ==
  ASSUME IsTree(tree), IsBevTree(tree),
         NEW h, NEW result, NEW n \in Nodes, NEW c \in ToSet(Kids(n)),
         TickGood(c, 0, h, result), NEW m \in Memories,
         NEW r, r = Tick(result)[Place(c, 0)][m], NEW d \in ToSet(Kids(n)), d # c
  PROVE  /\ Clear(d, m) => Clear(d, r.m)
         /\ Tidy(d, m) => Tidy(d, r.m)
         /\ Ready(d, m, h) => Ready(d, r.m, h)
<1>1. d \in Nodes /\ Below(d) \cap Below(c) = {} /\ Below(d) \subseteq Nodes
  BY BranchesApart, BelowKid, BelowDef
<1>2. \A x \in Nodes \ Below(c) : Alike(x, m, r.m)
  BY TickKid
<1>3. \A x \in Below(d) : Alike(x, m, r.m)
  BY <1>1, <1>2
<1>4. \A x \in Below(d) : x \in r.m.running => x \in m.running
  BY <1>3 DEF Alike
<1>5. QED
  BY <1>1, <1>3, <1>4, ClearLocal, TidyLocal, ReadyAlike

\* The only child of n that may run has been ticked.
LEMMA TickEnd ==
  ASSUME IsTree(tree), IsBevTree(tree),
         NEW n \in Nodes, tree.kind[n] # "terminal", NEW c \in ToSet(Kids(n)),
         NEW r \in Outcomes, NEW t \in Outcomes,
         \A d \in ToSet(Kids(n)) : d # c => Clear(d, r.m),
         Tidy(c, r.m), r.status # "executing" => Clear(c, r.m),
         \/ r.status = "executing" /\ t = r /\ Remembers(n, c, r.m)
         \/ r.status # "executing" /\ t.m.running = r.m.running
  PROVE  Tidy(n, t.m) /\ (t.status # "executing" => Clear(n, t.m))
<1>1. r.m \in Memories /\ t.m \in Memories
  BY DEF Outcomes
<1>2. CASE r.status = "executing" /\ t = r /\ Remembers(n, c, r.m)
  <2>1. ASSUME NEW d \in ToSet(Kids(n))
        PROVE  Tidy(d, r.m) /\ (~Clear(d, r.m) => Remembers(n, d, r.m))
    <3>1. CASE d = c
      BY <1>2, <3>1
    <3>2. CASE d # c
      <4>1. Clear(d, r.m) /\ d \in Nodes
        BY <3>2, KidsSet
      <4>2. QED
        BY <4>1, ClearTidy
    <3>3. QED
      BY <3>1, <3>2
  <2>2. Tidy(n, r.m)
    BY <2>1, TidyMake
  <2>3. QED
    BY <1>2, <2>2
<1>3. CASE r.status # "executing" /\ t.m.running = r.m.running
  <2>1. \A d \in ToSet(Kids(n)) : Clear(d, r.m)
    BY <1>3
  <2>2. \A d \in ToSet(Kids(n)) : Clear(d, t.m)
    BY <1>3, <2>1, ClearLocal
  <2>3. Clear(n, t.m)
    BY <1>1, <2>2, ClearKids
  <2>4. QED
    BY <2>3, ClearTidy
<1>4. QED
  BY <1>2, <1>3

\* Where n changes only itself before and after a tick of its child.
LEMMA TickAround ==
  ASSUME IsTree(tree), IsBevTree(tree), NEW n \in Nodes, NEW m, NEW now, NEW v, NEW w,
         TickEffect(n, 0, m, now), TickEffect(n, 0, now, v),
         w \in Memories, w.current = v.current, \A x \in Nodes \ {n} : Alike(x, v, w)
  PROVE  TickEffect(n, 0, m, w)
<1>1. n \in Below(n) /\ Region(n, 0) = Below(n)
  BY BelowDef DEF Region
<1>2. ASSUME NEW x \in Nodes \ Region(n, 0) PROVE Alike(x, m, w)
  <2>1. Alike(x, m, now) /\ Alike(x, now, v) /\ Alike(x, v, w)
    BY <1>1, <1>2 DEF TickEffect
  <2>2. Alike(x, m, v)
    BY <2>1, AlikeTrans
  <2>3. QED
    BY <2>1, <2>2, AlikeTrans
<1>3. QED
  BY <1>2 DEF TickEffect

\* A selector before it ticks its child: only that may still run.
LEMMA ChosenFacts ==
  ASSUME IsTree(tree), IsBevTree(tree),
         NEW n \in Nodes, tree.kind[n] \in Selectors, NEW m \in Memories
  PROVE  LET now == Chosen(n, m)
         IN /\ now \in Memories /\ TickEffect(n, 0, m, now) /\ now.executed = m.executed
            /\ m.current[n] # NoNode =>
                 /\ now.last[n] = m.current[n]
                 /\ \A x \in Below(m.current[n]) : Alike(x, m, now)
            /\ Tidy(n, m) => \A d \in ToSet(Kids(n)) :
                 Tidy(d, now) /\ (d # now.last[n] => Clear(d, now))
<1>1. \A d : Remembers(n, d, m) <=> m.last[n] = d
  BY RemembersKinds
<1>2. Region(n, 0) = Below(n) /\ n \in Below(n)
  BY BelowDef DEF Region
<1>3. TickEffect(n, 0, m, m)
  BY DEF TickEffect, Alike
<1>4. CASE m.current[n] = NoNode
  <2>1. Chosen(n, m) = m
    BY <1>4 DEF Chosen
  <2>2. Tidy(n, m) => \A d \in ToSet(Kids(n)) : Tidy(d, m) /\ (d # m.last[n] => Clear(d, m))
    BY <1>1, TidyKid
  <2>3. QED
    BY <1>3, <1>4, <2>1, <2>2
<1>5. CASE m.current[n] # NoNode
  <2> DEFINE c == m.current[n]
             now == Chosen(n, m)
  <2>1. PICK w \in Memories :
          /\ \/ m.last[n] \in {NoNode, c} /\ w = m
             \/ m.last[n] \notin {NoNode, c} /\ w = Transition[Place(m.last[n], 0)][m]
          /\ Change(n, m) = [w EXCEPT !.last[n] = c]
    BY <1>5, ChangeFacts
  <2>2. c \in ToSet(Kids(n)) /\ c \in Nodes /\ n \notin Below(c) /\ Below(c) \subseteq Nodes
    <3>1. c \in ToSet(Kids(n))
      BY <1>5, MemoryFacts
    <3>2. QED
      BY <3>1, BelowKid, BelowDef
  <2>3. now = [w EXCEPT !.last[n] = c]
    BY <1>5, <2>1 DEF Chosen
  <2> HIDE DEF c, now
  <2>4. /\ now \in Memories /\ now.last[n] = c /\ now.current = w.current
        /\ now.running = w.running /\ now.executed = w.executed
        /\ \A x \in Nodes \ {n} : Alike(x, w, now)
    <3>1. c \in ToSet(Kids(n)) \cup {NoNode}
      BY <2>2
    <3>2. now \in Memories /\ now.last[n] = c
      BY <2>3, <3>1, SetLast
    <3>3. now.current = w.current /\ now.running = w.running /\ now.executed = w.executed
      BY <2>3, <3>1, SetLast
    <3>4. \A x \in Nodes \ {n} : Alike(x, w, now)
      BY <2>3, <3>1, AlikeLast, Zenon
    <3>5. QED
      BY <3>2, <3>3, <3>4
  <2>5. /\ w.current = m.current /\ w.executed = m.executed
        /\ \A x \in Nodes \ Below(n) : Alike(x, m, w)
        /\ \A x \in Below(c) : Alike(x, m, w)
        /\ Tidy(n, m) => \A d \in ToSet(Kids(n)) : d # c => Clear(d, w)
    <3>1. CASE m.last[n] \in {NoNode, c} /\ w = m
      <4>1. \A x : Alike(x, m, m)
        BY DEF Alike
      <4>2. \A d \in ToSet(Kids(n)) : d # c => ~Remembers(n, d, m)
        BY <1>1, <3>1, KidsSet, TreeFacts
      <4>3. Tidy(n, m) => \A d \in ToSet(Kids(n)) : d # c => Clear(d, m)
        BY <4>2, TidyKid
      <4>4. QED
        BY <3>1, <4>1, <4>3
    <3>2. CASE m.last[n] \notin {NoNode, c} /\ w = Transition[Place(m.last[n], 0)][m]
      <4> DEFINE b == m.last[n]
      <4>1. b \in ToSet(Kids(n)) /\ b # c /\ w = Transition[Place(b, 0)][m]
        BY <3>2, MemoryFacts
      <4>2. \A d \in ToSet(Kids(n)) : Remembers(n, d, m) => d = b
        BY <1>1
      <4> HIDE DEF b
      <4>3. b \in Nodes /\ TransitionGood(b, 0)
        BY <4>1, KidsSet, TransitionGoodAll
      <4>4. /\ TransitionEffect(n, 0, m, w) /\ TransitionEffect(b, 0, m, w)
            /\ Tidy(n, m) => \A d \in ToSet(Kids(n)) : Clear(d, w)
        BY <4>1, <4>2, <4>3, TransitionKid
      <4>5. Region(b, 0) = Below(b) /\ Below(b) \cap Below(c) = {}
        BY <2>2, <4>1, BranchesApart DEF Region
      <4>6. \A x \in Below(c) : Alike(x, m, w)
        BY <2>2, <4>4, <4>5 DEF TransitionEffect
      <4>7. QED
        BY <1>2, <4>4, <4>6 DEF TransitionEffect
    <3>3. QED
      BY <2>1, <3>1, <3>2 DEF c
  <2>6. ASSUME NEW x \in Nodes \ Below(n) PROVE Alike(x, m, now)
    <3>1. Alike(x, m, w) /\ Alike(x, w, now)
      BY <1>2, <2>4, <2>5
    <3>2. QED
      BY <3>1, AlikeTrans
  <2>7. ASSUME NEW x \in Below(c) PROVE Alike(x, m, now)
    <3>1. Alike(x, m, w) /\ Alike(x, w, now)
      BY <2>2, <2>4, <2>5
    <3>2. QED
      BY <3>1, AlikeTrans
  <2>8. TickEffect(n, 0, m, now)
    BY <1>2, <2>4, <2>5, <2>6 DEF TickEffect
  <2>9. ASSUME Tidy(n, m), NEW d \in ToSet(Kids(n))
        PROVE  Tidy(d, now) /\ (d # c => Clear(d, now))
    <3>1. CASE d = c
      <4>1. Tidy(c, m)
        BY <2>2, <2>9, TidyKid
      <4>2. QED
        BY <2>2, <2>7, <3>1, <4>1, TidyLocal
    <3>2. CASE d # c
      <4>1. Clear(d, w) /\ d \in Nodes
        BY <2>5, <2>9, <3>2, KidsSet
      <4>2. Clear(d, now)
        BY <2>4, <4>1, ClearLocal
      <4>3. QED
        BY <4>1, <4>2, ClearTidy
    <3>3. QED
      BY <3>1, <3>2
  <2>10. QED
    BY <1>5, <2>4, <2>5, <2>7, <2>8, <2>9 DEF c, now
<1>6. QED
  BY <1>4, <1>5

\* What a node makes of the outcome r of its child: it goes on, or changes only itself.
Ends(n, r, t) ==
  /\ t \in Outcomes
  /\ \/ r.status = "executing" /\ t = r
     \/ /\ r.status # "executing"
        /\ t.m.current = r.m.current /\ t.m.running = r.m.running /\ t.m.executed = r.m.executed
        /\ \A x \in Nodes \ {n} : Alike(x, r.m, t.m)

\* A node that ticks the only child that may still run.
LEMMA TickOneKid ==
  ASSUME IsTree(tree), IsBevTree(tree),
         NEW h, NEW result, NEW n \in Nodes, tree.kind[n] # "terminal",
         NEW c \in ToSet(Kids(n)), TickGood(c, 0, h, result),
         NEW m, NEW now \in Memories, TickEffect(n, 0, m, now), now.executed = m.executed,
         Ready(n, m, h) => n \in h /\ Ready(c, now, h),
         Tidy(n, m) => Tidy(c, now) /\ \A d \in ToSet(Kids(n)) : d # c => Clear(d, now),
         Remembers(n, c, now),
         NEW r, r = Tick(result)[Place(c, 0)][now], NEW t, Ends(n, r, t)
  PROVE  TickFine(n, 0, h, m, t)
<1>1. r \in Outcomes
  BY TickKid
<1>2. TickEffect(n, 0, now, r.m) /\ Alike(n, now, r.m)
  BY TickKid
<1>3. n \in h /\ Ready(c, now, h) => r.m.executed \subseteq now.executed \cup Permitted(n, h)
  BY TickKidOwn
<1>4. Tidy(c, now) => Tidy(c, r.m) /\ (r.status # "executing" => Clear(c, r.m))
  BY TickKidOwn
<1>5. \A d \in ToSet(Kids(n)) : d # c => (Clear(d, now) => Clear(d, r.m))
  BY TickKidOthers
<1>6. /\ t \in Outcomes /\ t.m \in Memories
      /\ t.m.current = r.m.current /\ t.m.running = r.m.running /\ t.m.executed = r.m.executed
      /\ \A x \in Nodes \ {n} : Alike(x, r.m, t.m)
  <2>1. t \in Outcomes /\ t.m \in Memories
    BY DEF Ends, Outcomes
  <2>2. CASE t = r
    BY <2>1, <2>2 DEF Alike
  <2>3. CASE t # r
    BY <2>1, <2>3 DEF Ends
  <2>4. QED
    BY <2>2, <2>3
<1>7. TickEffect(n, 0, m, t.m)
  BY <1>2, <1>6, TickAround
<1>8. TickPermits(n, 0, h, m, t.m)
  BY <1>3, <1>6 DEF TickPermits
<1>9. Remembers(n, c, r.m)
  BY <1>2, RemembersLocal
<1>10. ASSUME Tidy(n, m) PROVE Tidy(n, t.m) /\ (t.status # "executing" => Clear(n, t.m))
  <2>1. /\ \A d \in ToSet(Kids(n)) : d # c => Clear(d, r.m)
        /\ Tidy(c, r.m) /\ (r.status # "executing" => Clear(c, r.m))
    BY <1>4, <1>5, <1>10
  <2>2. \/ r.status = "executing" /\ t = r /\ Remembers(n, c, r.m)
        \/ r.status # "executing" /\ t.m.running = r.m.running
    BY <1>6, <1>9 DEF Ends
  <2>3. QED
    BY <1>1, <1>6, <2>1, <2>2, TickEnd
<1>11. TickTidies(n, 0, m, t)
  BY <1>10 DEF TickTidies
<1>12. QED
  BY <1>6, <1>7, <1>8, <1>11 DEF TickFine

LEMMA TickSelectorGood ==
  ASSUME IsTree(tree), IsBevTree(tree), NEW h, NEW result \in [Terminals -> Statuses],
         NEW n \in Nodes, tree.kind[n] \in Selectors,
         \A c \in ToSet(Kids(n)) : TickGood(c, 0, h, result), NEW m \in Memories
  PROVE  TickFine(n, 0, h, m, TickSelector(Tick(result), n, m))
<1> DEFINE now == Chosen(n, m)
           c == now.last[n]
           r == Tick(result)[Place(c, 0)][now]
           t == TickSelector(Tick(result), n, m)
<1>1. /\ now \in Memories /\ TickEffect(n, 0, m, now) /\ now.executed = m.executed
      /\ m.current[n] # NoNode => /\ c = m.current[n]
                                  /\ \A x \in Below(m.current[n]) : Alike(x, m, now)
      /\ Tidy(n, m) => \A d \in ToSet(Kids(n)) : Tidy(d, now) /\ (d # c => Clear(d, now))
  BY ChosenFacts
<1>2. c = NoNode => t = [status |-> "finish", m |-> now]
  BY TickSelectorFacts
<1>3. c # NoNode => c \in ToSet(Kids(n)) /\ t = SelectorEnd(n, r)
  BY TickSelectorFacts
<1>4. tree.kind[n] # "terminal"
  BY DEF Selectors
<1> SUFFICES TickFine(n, 0, h, m, t)
  OBVIOUS
<1> HIDE DEF now, t, c
<1>5. Ready(n, m, h) => n \in h /\ c \in ToSet(Kids(n)) /\ Ready(c, now, h)
  <2> SUFFICES ASSUME Ready(n, m, h)
               PROVE  n \in h /\ c \in ToSet(Kids(n)) /\ Ready(c, now, h)
    OBVIOUS
  <2>1. m.current[n] \in Due(n, m)
    BY <1>4 DEF Due
  <2>2. n \in h /\ m.current[n] \in ToSet(Kids(n)) /\ Ready(m.current[n], m, h)
    BY <2>1, ReadyKid
  <2>3. m.current[n] \in Nodes /\ m.current[n] # NoNode
    BY <2>2, KidsSet, TreeFacts
  <2>4. QED
    BY <1>1, <2>2, <2>3, ReadyAlike
<1>6. CASE c = NoNode
  <2>1. t = [status |-> "finish", m |-> now]
    BY <1>2, <1>6
  <2>2. [status |-> "finish", m |-> now] \in Outcomes
    BY <1>1 DEF Outcomes, Statuses
  <2>3. t \in Outcomes /\ t.m = now
    BY <2>1, <2>2
  <2>4. \A d \in ToSet(Kids(n)) : d # c /\ d \in Nodes
    BY <1>6, KidsSet, TreeFacts
  <2>5. Tidy(n, m) => Clear(n, now)
    BY <1>1, <1>4, <2>4, ClearKids
  <2>6. Tidy(n, m) => Tidy(n, now)
    BY <2>5, ClearTidy
  <2>7. TickTidies(n, 0, m, t)
    BY <2>3, <2>5, <2>6 DEF TickTidies
  <2>8. TickPermits(n, 0, h, m, t.m)
    BY <1>1, <2>3 DEF TickPermits
  <2>9. QED
    BY <1>1, <2>3, <2>7, <2>8 DEF TickFine
<1>7. CASE c # NoNode
  <2>1. c \in ToSet(Kids(n)) /\ t = SelectorEnd(n, r)
    BY <1>3, <1>7
  <2>2. TickGood(c, 0, h, result) /\ r = Tick(result)[Place(c, 0)][now]
    BY <2>1
  <2> HIDE DEF r
  <2>3. r \in Outcomes /\ r.m \in Memories
    BY <1>1, <2>1, <2>2, TickKid
  <2>4. /\ t \in Outcomes
        /\ \/ r.status = "executing" /\ t = r
           \/ r.status # "executing" /\ t.m = [r.m EXCEPT !.last[n] = NoNode]
    BY <2>1, <2>3, SelectorEndFacts
  <2>5. ASSUME r.status # "executing"
        PROVE  /\ t.m.current = r.m.current /\ t.m.running = r.m.running
               /\ t.m.executed = r.m.executed /\ \A x \in Nodes \ {n} : Alike(x, r.m, t.m)
    BY <2>3, <2>4, <2>5, AlikeLast
  <2>6. Ends(n, r, t)
    BY <2>4, <2>5 DEF Ends
  <2>7. Remembers(n, c, now)
    BY RemembersKinds DEF c
  <2>8. Tidy(n, m) => Tidy(c, now) /\ \A d \in ToSet(Kids(n)) : d # c => Clear(d, now)
    BY <1>1, <2>1
  <2>9. QED
    BY <1>1, <1>4, <1>5, <2>1, <2>2, <2>6, <2>7, <2>8, TickOneKid
<1>8. QED
  BY <1>6, <1>7

LEMMA TickSequenceGood ==
  ASSUME IsTree(tree), IsBevTree(tree), NEW h, NEW result \in [Terminals -> Statuses],
         NEW n \in Nodes, tree.kind[n] = "sequence",
         \A c \in ToSet(Kids(n)) : TickGood(c, 0, h, result), NEW m \in Memories
  PROVE  TickFine(n, 0, h, m, TickSequence(Tick(result), n, m))
<1> DEFINE i == Turn(n, m)
           now == AtTurn(n, m)
           c == Kids(n)[i]
           r == Tick(result)[Place(c, 0)][now]
           t == TickSequence(Tick(result), n, m)
<1> SUFFICES TickFine(n, 0, h, m, t)
  OBVIOUS
<1>1. /\ i \in 1..Len(Kids(n)) /\ now \in Memories /\ c \in ToSet(Kids(n))
      /\ TestNode(n, m) = c /\ t = SequenceEnd(n, i, r)
  BY TickSequenceFacts
<1>2. m.step[n] # 0 => Kids(n)[m.step[n]] = c
  BY DEF Turn
<1>3. now = [m EXCEPT !.step[n] = i]
  BY DEF AtTurn
<1> HIDE DEF i, now
<1>4. i \in Nat /\ i # 0 /\ i \in 0..Len(Kids(n)) /\ 0 \in 0..Len(Kids(n))
  BY <1>1, TreeFacts
<1>5. /\ now.step[n] = i /\ now.current = m.current /\ now.executed = m.executed
      /\ now.running = m.running /\ \A x \in Nodes \ {n} : Alike(x, m, now)
  BY <1>3, <1>4, AlikeStep
<1>6. c \in Nodes /\ n \notin Below(c) /\ Below(c) \subseteq Nodes /\ n \in Below(n)
      /\ Region(n, 0) = Below(n)
  BY <1>1, BelowKid, BelowDef DEF Region
<1>7. \A x \in Below(c) : Alike(x, m, now)
  BY <1>5, <1>6
<1>8. Remembers(n, c, now)
  BY <1>4, <1>5, RemembersKinds
<1> HIDE DEF c, t
<1>9. TickEffect(n, 0, m, now)
  BY <1>1, <1>5, <1>6 DEF TickEffect
<1>10. ASSUME Ready(n, m, h) PROVE n \in h /\ Ready(c, now, h)
  <2>1. c \in Due(n, m)
    BY <1>1 DEF Due, Selectors
  <2>2. n \in h /\ Ready(c, m, h)
    BY <1>10, <2>1, ReadyKid
  <2>3. QED
    BY <1>6, <1>7, <2>2, ReadyAlike
<1>11. ASSUME Tidy(n, m)
       PROVE  Tidy(c, now) /\ \A d \in ToSet(Kids(n)) : d # c => Clear(d, now)
  <2>1. Tidy(c, now)
    BY <1>1, <1>6, <1>7, <1>11, TidyKid, TidyLocal
  <2>2. ASSUME NEW d \in ToSet(Kids(n)), d # c PROVE Clear(d, now)
    <3>1. ~Remembers(n, d, m)
      BY <1>2, <2>2, RemembersKinds
    <3>2. Clear(d, m)
      BY <1>11, <3>1, TidyKid
    <3>3. QED
      BY <1>5, <3>2, ClearLocal
  <2>3. QED
    BY <2>1, <2>2
<1>12. TickGood(c, 0, h, result) /\ r = Tick(result)[Place(c, 0)][now]
  BY <1>1
<1> HIDE DEF r
<1>13. r \in Outcomes
  BY <1>1, <1>12, TickKid
<1>14. r.m \in Memories
  BY <1>13 DEF Outcomes
<1>15. /\ t \in Outcomes
       /\ \/ r.status = "executing" /\ t = r
          \/ /\ r.status # "executing"
             /\ \E j \in 0..Len(Kids(n)) : t.m = [r.m EXCEPT !.step[n] = j]
  <2>1. SequenceEnded(n, r, SequenceEnd(n, i, r))
    BY <1>1, <1>4, <1>13, SequenceEndFacts
  <2>2. SequenceEnded(n, r, t)
    BY <1>1, <2>1
  <2>3. QED
    BY <2>2 DEF SequenceEnded
<1>16. ASSUME r.status # "executing"
       PROVE  /\ t.m.current = r.m.current /\ t.m.running = r.m.running
              /\ t.m.executed = r.m.executed /\ \A x \in Nodes \ {n} : Alike(x, r.m, t.m)
  <2>1. PICK j \in 0..Len(Kids(n)) : t.m = [r.m EXCEPT !.step[n] = j]
    BY <1>15, <1>16
  <2>2. QED
    BY <1>14, <2>1, AlikeStep
<1>17. Ends(n, r, t)
  BY <1>15, <1>16 DEF Ends
<1>18. QED
  BY <1>1, <1>5, <1>8, <1>9, <1>10, <1>11, <1>12, <1>17, TickOneKid

LEMMA TickLoopGood ==
  ASSUME IsTree(tree), IsBevTree(tree), NEW h, NEW result \in [Terminals -> Statuses],
         NEW n \in Nodes, tree.kind[n] = "loop",
         \A c \in ToSet(Kids(n)) : TickGood(c, 0, h, result), NEW m \in Memories
  PROVE  TickFine(n, 0, h, m, TickLoop(Tick(result), n, m))
<1> DEFINE c == Kids(n)[1]
           r == Tick(result)[Place(c, 0)][m]
           t == TickLoop(Tick(result), n, m)
<1> SUFFICES TickFine(n, 0, h, m, t)
  OBVIOUS
<1>1. c \in ToSet(Kids(n)) /\ t = LoopEnd(n, m, r)
  BY KidsSet, TickLoopFacts, KindFacts
<1>2. \A d : Remembers(n, d, m) <=> d = c
  BY RemembersKinds
<1> HIDE DEF c, t
<1>3. TickEffect(n, 0, m, m)
  BY DEF TickEffect, Alike
<1>4. ASSUME Ready(n, m, h) PROVE n \in h /\ Ready(c, m, h)
  <2>1. c \in Due(n, m)
    BY DEF Due, Selectors, c
  <2>2. QED
    BY <1>4, <2>1, ReadyKid
<1>5. ASSUME Tidy(n, m)
      PROVE  Tidy(c, m) /\ \A d \in ToSet(Kids(n)) : d # c => Clear(d, m)
  BY <1>1, <1>2, <1>5, TidyKid
<1>6. TickGood(c, 0, h, result) /\ r = Tick(result)[Place(c, 0)][m]
  BY <1>1
<1> HIDE DEF r
<1>7. r \in Outcomes
  BY <1>1, <1>6, TickKid
<1>8. r.m \in Memories
  BY <1>7 DEF Outcomes
<1>9. /\ t \in Outcomes
      /\ \/ r.status = "executing" /\ t = r
         \/ r.status # "executing" /\ t.m = r.m
         \/ /\ r.status # "executing"
            /\ \E j \in Nat : t.m = [r.m EXCEPT !.count[n] = j]
  <2>1. LoopEnded(n, r, LoopEnd(n, m, r))
    BY <1>7, LoopEndFacts
  <2>2. LoopEnded(n, r, t)
    BY <1>1, <2>1
  <2>3. QED
    BY <2>2 DEF LoopEnded
<1>10. ASSUME r.status # "executing"
       PROVE  /\ t.m.current = r.m.current /\ t.m.running = r.m.running
              /\ t.m.executed = r.m.executed /\ \A x \in Nodes \ {n} : Alike(x, r.m, t.m)
  <2>1. CASE t.m = r.m
    BY <2>1 DEF Alike
  <2>2. CASE \E j \in Nat : t.m = [r.m EXCEPT !.count[n] = j]
    BY <1>8, <2>2, AlikeCount
  <2>3. QED
    BY <1>9, <1>10, <2>1, <2>2
<1>11. Ends(n, r, t)
  BY <1>9, <1>10 DEF Ends
<1>12. Remembers(n, c, m)
  BY <1>2
<1>13. QED
  BY <1>1, <1>3, <1>4, <1>5, <1>6, <1>11, <1>12, TickOneKid

LEMMA TickTerminalGood ==
  ASSUME IsTree(tree), IsBevTree(tree), NEW h, NEW result \in [Terminals -> Statuses],
         NEW n \in Nodes, tree.kind[n] = "terminal", NEW m \in Memories
  PROVE  TickFine(n, 0, h, m, TickTerminal(n, m, result))
<1> DEFINE t == TickTerminal(n, m, result)
<1> SUFFICES TickFine(n, 0, h, m, t)
  OBVIOUS
<1>1. /\ t \in Outcomes
      /\ t.m.executed = m.executed \cup {n}
      /\ t.m.running = IF t.status = "executing" THEN m.running \cup {n} ELSE m.running \ {n}
      /\ t.m.current = m.current /\ t.m.done = m.done /\ t.m.last = m.last
      /\ t.m.step = m.step
  <2>1. TerminalTicked(n, m, t)
    BY TickTerminalFacts
  <2> HIDE DEF t
  <2>2. QED
    BY <2>1 DEF TerminalTicked
<1> HIDE DEF t
<1>2. t.m \in Memories
  BY <1>1 DEF Outcomes
<1>3. Below(n) = {n} /\ Region(n, 0) = {n}
  <2>1. Below(n) = {n}
    BY BelowDef, KidsSet
  <2>2. QED
    BY <2>1 DEF Region
<1>4. \A x \in Nodes \ {n} : x \in t.m.running <=> x \in m.running
  BY <1>1
<1>5. TickEffect(n, 0, m, t.m)
  BY <1>1, <1>2, <1>3, <1>4 DEF TickEffect, Alike
<1>6. ASSUME Ready(n, m, h) PROVE t.m.executed \subseteq m.executed \cup Permitted(n, h)
  <2>1. n \in h
    BY <1>6, ReadyKid
  <2>2. n \in Permitted(n, h)
    BY <1>3, <2>1 DEF Permitted
  <2>3. QED
    BY <1>1, <2>2
<1>7. TickPermits(n, 0, h, m, t.m)
  BY <1>6 DEF TickPermits
<1>8. Tidy(n, t.m)
  <2>1. ToSet(Kids(n)) = {}
    BY KidsSet
  <2>2. QED
    BY <1>3, <2>1 DEF Tidy
<1>9. t.status # "executing" => Clear(n, t.m)
  BY <1>1, <1>3 DEF Clear
<1>10. TickTidies(n, 0, m, t)
  BY <1>8, <1>9 DEF TickTidies
<1>11. QED
  BY <1>1, <1>5, <1>7, <1>10 DEF TickFine


\* OR parallels forget what is below them.
LEMMA OrForgets ==
  ASSUME IsTree(tree), IsBevTree(tree), NEW n \in Nodes, tree.kind[n] = "or", NEW m
  PROVE  Clear(n, m)
<1>1. Below(n) \subseteq Forgotten
  BY DEF Forgotten
<1>2. QED
  BY <1>1 DEF Clear

\* A parallel notes the outcome r of its child c.
LEMMA KidNoted ==
  ASSUME IsTree(tree), IsBevTree(tree),
         NEW n \in Nodes, NEW c \in ToSet(Kids(n)), NEW m \in Memories,
         c \notin m.done, NEW r \in Outcomes, NEW w, w = KidsNext(c, m, r)
  PROVE  /\ w \in Memories /\ w.current = r.m.current
         /\ w.running = r.m.running /\ w.executed = r.m.executed
         /\ \A x \in Nodes \ {n} : Alike(x, r.m, w)
         /\ \A d \in ToSet(Kids(n)) : d # c => (d \in w.done <=> d \in r.m.done)
         /\ r.status = "executing" => w = r.m
<1> DEFINE v == r.m
<1>1. v \in Memories /\ c \in Nodes
  BY KidsSet DEF Outcomes
<1>2. CASE r.status = "executing"
  <2>1. w = v
    BY <1>2 DEF KidsNext
  <2>2. QED
    BY <1>1, <2>1 DEF Alike
<1>3. CASE r.status # "executing"
  <2> DEFINE S == v.done \cup {c}
  <2>1. w = [v EXCEPT !.done = S]
    BY <1>3 DEF KidsNext
  <2>2. S \in SUBSET Nodes
    BY <1>1, MemoryFacts
  <2>3. \A d \in Nodes \ ToSet(Kids(n)) : d \in S <=> d \in v.done
    OBVIOUS
  <2>4. \A d \in ToSet(Kids(n)) : d # c => (d \in S <=> d \in v.done)
    OBVIOUS
  <2> HIDE DEF S, v
  <2>5. /\ w \in Memories /\ w.done = S /\ w.current = v.current
        /\ w.running = v.running /\ w.executed = v.executed
        /\ \A x \in Nodes \ {n} : Alike(x, v, w)
    BY <1>1, <2>1, <2>2, <2>3, AlikeDone
  <2>6. QED
    BY <1>3, <2>4, <2>5 DEF v
<1>4. QED
  BY <1>2, <1>3

\* What a round of that loop does with the child c, and w is the memory after it.
KidVisited(n, c, h, m, w) ==
  /\ w \in Memories /\ w.current = m.current
  /\ \A x \in Nodes \ Below(c) : x # n => Alike(x, m, w)
  /\ \A d \in ToSet(Kids(n)) :
       d # c => (d \in w.done <=> d \in m.done) /\ (Ready(d, m, h) => Ready(d, w, h))
  /\ n \in h /\ (c \in m.done \/ Ready(c, m, h)) =>
       w.executed \subseteq m.executed \cup Permitted(n, h)
  /\ tree.kind[n] \in Parallels /\ Tidy(n, m) => Tidy(n, w)

LEMMA KidVisits ==
  ASSUME IsTree(tree), IsBevTree(tree),
         NEW h, NEW result, NEW n \in Nodes, NEW c \in ToSet(Kids(n)),
         TickGood(c, 0, h, result), NEW m \in Memories,
         NEW w, w = KidsNext(c, m, Tick(result)[Place(c, 0)][m])
  PROVE  KidVisited(n, c, h, m, w)
<1> DEFINE r == Tick(result)[Place(c, 0)][m]
<1>1. CASE c \in m.done
  <2>1. w = m
    BY <1>1 DEF KidsNext
  <2>2. QED
    BY <2>1 DEF KidVisited, Alike
<1>2. CASE c \notin m.done
  <2>1. w = KidsNext(c, m, r) /\ r = Tick(result)[Place(c, 0)][m]
    OBVIOUS
  <2> HIDE DEF r
  <2>2. /\ r \in Outcomes /\ r.m \in Memories /\ r.m.current = m.current
        /\ \A x \in Nodes \ Below(c) : Alike(x, m, r.m)
        /\ Alike(n, m, r.m)
    <3>1. r \in Outcomes /\ r.m \in Memories /\ r.m.current = m.current
      BY <2>1, TickKid, KindFacts
    <3>2. \A x \in Nodes \ Below(c) : Alike(x, m, r.m)
      BY <2>1, TickKid
    <3>3. Alike(n, m, r.m)
      BY <2>1, TickKid
    <3>4. QED
      BY <3>1, <3>2, <3>3
  <2>3. /\ n \in h /\ Ready(c, m, h) => r.m.executed \subseteq m.executed \cup Permitted(n, h)
        /\ Tidy(c, m) => Tidy(c, r.m) /\ (r.status # "executing" => Clear(c, r.m))
    BY <2>1, TickKidOwn
  <2>4. ASSUME NEW d \in ToSet(Kids(n)), d # c
        PROVE  /\ Clear(d, m) => Clear(d, r.m)
               /\ Tidy(d, m) => Tidy(d, r.m)
               /\ Ready(d, m, h) => Ready(d, r.m, h)
    BY <2>1, <2>4, TickKidOthers
  <2>5. /\ w \in Memories /\ w.current = r.m.current
        /\ w.running = r.m.running /\ w.executed = r.m.executed
        /\ \A x \in Nodes \ {n} : Alike(x, r.m, w)
    BY <1>2, <2>1, <2>2, KidNoted
  <2>6. /\ \A d \in ToSet(Kids(n)) : d # c => (d \in w.done <=> d \in r.m.done)
        /\ r.status = "executing" => w = r.m
    BY <1>2, <2>1, <2>2, KidNoted
  <2>7. \A d \in ToSet(Kids(n)) : d \in r.m.done <=> d \in m.done
    BY <2>2 DEF Alike
  <2>8. \A d \in ToSet(Kids(n)) : d \in Nodes /\ n \notin Below(d) /\ Below(d) \subseteq Nodes
    BY BelowKid, BelowDef
  <2>9. \A d \in ToSet(Kids(n)) : \A x \in Below(d) : Alike(x, r.m, w)
    BY <2>5, <2>8
  <2>10. ASSUME NEW x \in Nodes \ Below(c), x # n PROVE Alike(x, m, w)
    <3>1. Alike(x, m, r.m) /\ Alike(x, r.m, w)
      BY <2>2, <2>5, <2>10
    <3>2. QED
      BY <3>1, AlikeTrans
  <2>11. ASSUME NEW d \in ToSet(Kids(n)), d # c
         PROVE  (d \in w.done <=> d \in m.done) /\ (Ready(d, m, h) => Ready(d, w, h))
    <3>1. d \in w.done <=> d \in m.done
      BY <2>6, <2>7, <2>11
    <3>2. ASSUME Ready(d, m, h) PROVE Ready(d, w, h)
      <4>1. Ready(d, r.m, h)
        BY <2>4, <2>11, <3>2
      <4>2. QED
        BY <2>8, <2>9, <4>1, ReadyAlike
    <3>3. QED
      BY <3>1, <3>2
  <2>12. ASSUME tree.kind[n] \in Parallels, Tidy(n, m) PROVE Tidy(n, w)
    <3>1. ASSUME NEW d \in ToSet(Kids(n))
          PROVE  Tidy(d, w) /\ (~Clear(d, w) => Remembers(n, d, w))
      <4>1. Tidy(d, m) /\ (~Clear(d, m) => d \notin m.done)
        BY <2>12, TidyKid, RemembersKinds
      <4>2. Tidy(d, r.m)
        BY <2>3, <2>4, <4>1
      <4>3. Tidy(d, w)
        BY <2>8, <2>9, <4>2, TidyLocal
      <4>4. Clear(d, r.m) => Clear(d, w)
        BY <2>5, ClearLocal
      <4>5. ASSUME ~Clear(d, w) PROVE d \notin w.done
        <5>1. ~Clear(d, r.m)
          BY <4>4, <4>5
        <5>2. CASE d = c
          <6>1. r.status = "executing"
            BY <2>3, <4>1, <5>1, <5>2
          <6>2. QED
            BY <1>2, <2>6, <2>7, <5>2, <6>1
        <5>3. CASE d # c
          BY <2>4, <2>11, <4>1, <5>1, <5>3
        <5>4. QED
          BY <5>2, <5>3
      <4>6. QED
        BY <2>12, <4>3, <4>5, RemembersKinds
    <3>2. QED
      BY <3>1, TidyMake
  <2>13. n \in h /\ (c \in m.done \/ Ready(c, m, h)) =>
           w.executed \subseteq m.executed \cup Permitted(n, h)
    BY <1>2, <2>3, <2>5
  <2>14. QED
    BY <2>2, <2>5, <2>10, <2>11, <2>12, <2>13 DEF KidVisited
<1>3. QED
  BY <1>1, <1>2

\* A parallel that is over, where w is the memory before the end.
LEMMA KidsOverGood ==
  ASSUME IsTree(tree), IsBevTree(tree),
         NEW n \in Nodes, NEW w \in Memories, NEW t, t = KidsOver(n, w)
  PROVE  /\ t \in Outcomes /\ t.m \in Memories /\ t.m.current = w.current
         /\ t.m.executed = w.executed /\ t.m.running = w.running
         /\ \A x \in Nodes \ {n} : Alike(x, w, t.m)
<1> DEFINE S == w.done \ ToSet(Kids(n))
<1>1. t \in Outcomes /\ t.m = [w EXCEPT !.done = S]
  BY KidsOverFacts
<1>2. S \in SUBSET Nodes /\ \A d \in Nodes \ ToSet(Kids(n)) : d \in S <=> d \in w.done
  BY MemoryFacts
<1> HIDE DEF S
<1>3. /\ t.m \in Memories /\ t.m.current = w.current
      /\ t.m.running = w.running /\ t.m.executed = w.executed
      /\ \A x \in Nodes \ {n} : Alike(x, w, t.m)
  BY <1>1, <1>2, AlikeDone
<1>4. QED
  BY <1>1, <1>3

\* The visit of the children of a parallel from the i-th on.
LEMMA TickKidsGood ==
  ASSUME IsTree(tree), IsBevTree(tree), NEW h, NEW result \in [Terminals -> Statuses],
         NEW n \in Nodes, NEW i \in Nat, i > 0,
         ~(i > Len(Kids(n))) => TickGood(Kids(n)[i], 0, h, result) /\ TickGood(n, i + 1, h, result)
  PROVE  TickGood(n, i, h, result)
<1> SUFFICES ASSUME NEW m \in Memories
             PROVE  TickFine(n, i, h, m, Tick(result)[Place(n, i)][m])
  BY DEF TickGood
<1> DEFINE t == Tick(result)[Place(n, i)][m]
           c == Kids(n)[i]
           w == KidsNext(c, m, Tick(result)[Place(c, 0)][m])
<1>1. i # 0 /\ i + 1 # 0 /\ i \in Nat /\ Len(Kids(n)) \in Nat
  BY TreeFacts
<1>2. t = TickKids(Tick(result), n, i, m)
  <2>1. t = TickAt(Tick(result), n, i, m, result)
    BY TickDef
  <2>2. QED
    BY <1>1, <2>1 DEF TickAt
<1>3. n \in Region(n, i) /\ Region(n, i) \subseteq Nodes
  BY RegionFacts
<1>4. tree.kind[n] \in Parallels => tree.kind[n] # "terminal"
  BY DEF Parallels
<1>5. CASE i > Len(Kids(n))
  <2>1. t = IF ToSet(Kids(n)) \subseteq m.done THEN KidsOver(n, m)
            ELSE [status |-> "executing", m |-> m]
    BY <1>2, <1>5, TickKidsFacts
  <2> HIDE DEF t
  <2>2. CASE ~(ToSet(Kids(n)) \subseteq m.done)
    <3>1. t.status = "executing" /\ t.m = m /\ t \in Outcomes
      BY <2>1, <2>2 DEF Outcomes, Statuses
    <3>2. TickEffect(n, i, m, t.m)
      BY <3>1 DEF TickEffect, Alike
    <3>3. TickPermits(n, i, h, m, t.m) /\ TickTidies(n, i, m, t)
      BY <3>1 DEF TickPermits, TickTidies
    <3>4. QED
      BY <3>1, <3>2, <3>3 DEF TickFine, t
  <2>3. CASE ToSet(Kids(n)) \subseteq m.done
    <3>1. t = KidsOver(n, m)
      BY <2>1, <2>3
    <3>2. /\ t \in Outcomes /\ t.m \in Memories /\ t.m.current = m.current
          /\ t.m.executed = m.executed /\ t.m.running = m.running
          /\ \A x \in Nodes \ {n} : Alike(x, m, t.m)
      BY <3>1, KidsOverGood
    <3>3. TickEffect(n, i, m, t.m)
      BY <1>3, <3>2 DEF TickEffect
    <3>4. TickPermits(n, i, h, m, t.m)
      BY <3>2 DEF TickPermits
    <3>5. ASSUME tree.kind[n] \in Parallels, Tidy(n, m)
          PROVE  Tidy(n, t.m) /\ Clear(n, t.m)
      <4>1. \A d \in ToSet(Kids(n)) : Clear(d, m)
        BY <2>3, <3>5, TidyKid, RemembersKinds
      <4>2. Clear(n, m)
        BY <1>4, <3>5, <4>1, ClearKids
      <4>3. Clear(n, t.m)
        BY <3>2, <4>2, ClearLocal
      <4>4. QED
        BY <4>3, ClearTidy
    <3>6. TickTidies(n, i, m, t)
      BY <1>1, <3>5 DEF TickTidies
    <3>7. QED
      BY <3>2, <3>3, <3>4, <3>6 DEF TickFine, t
  <2>4. QED
    BY <2>2, <2>3
<1>6. CASE ~(i > Len(Kids(n)))
  <2>1. t = IF tree.kind[n] = "or" /\ c \in w.done THEN KidsOver(n, w)
            ELSE Tick(result)[Place(n, i + 1)][w]
    BY <1>2, <1>6, TickKidsFacts
  <2>2. /\ c \in ToSet(Kids(n)) /\ Below(c) \subseteq Region(n, i)
        /\ Region(n, i + 1) \subseteq Region(n, i)
    BY <1>6, RegionFacts
  <2>3. TickGood(c, 0, h, result) /\ TickGood(n, i + 1, h, result) /\ i \in 1..Len(Kids(n))
    BY <1>1, <1>6
  <2>4. w = KidsNext(c, m, Tick(result)[Place(c, 0)][m])
    OBVIOUS
  <2> HIDE DEF t, w
  <2>5. KidVisited(n, c, h, m, w)
    BY <2>2, <2>3, <2>4, KidVisits
  <2>6. /\ w \in Memories /\ w.current = m.current
        /\ \A x \in Nodes \ Below(c) : x # n => Alike(x, m, w)
    BY <2>5 DEF KidVisited
  <2>7. \A d \in ToSet(Kids(n)) :
          d # c => (d \in w.done <=> d \in m.done) /\ (Ready(d, m, h) => Ready(d, w, h))
    BY <2>5 DEF KidVisited
  <2>8. n \in h /\ (c \in m.done \/ Ready(c, m, h)) =>
          w.executed \subseteq m.executed \cup Permitted(n, h)
    BY <2>5 DEF KidVisited
  <2>9. tree.kind[n] \in Parallels /\ Tidy(n, m) => Tidy(n, w)
    BY <2>5 DEF KidVisited
  <2>10. \A x \in Nodes \ Region(n, i) : Alike(x, m, w)
    BY <1>3, <2>2, <2>6
  <2>11. \A j \in 1..Len(Kids(n)) : i + 1 <= j =>
           i <= j /\ Kids(n)[j] # c /\ Kids(n)[j] \in ToSet(Kids(n))
    <3>1. ASSUME NEW j \in 1..Len(Kids(n)), i + 1 <= j
          PROVE  i <= j /\ Kids(n)[j] # c /\ Kids(n)[j] \in ToSet(Kids(n))
      <4>1. i <= j /\ i # j
        BY <1>1, <3>1
      <4>2. Kids(n)[j] # c
        BY <2>3, <4>1, TreeFacts
      <4>3. Kids(n)[j] \in ToSet(Kids(n))
        BY KidsSet
      <4>4. QED
        BY <4>1, <4>2, <4>3
    <3>2. QED
      BY <3>1
  <2> DEFINE Permit(q, v) ==
               /\ tree.kind[n] \in Parallels /\ n \in h
               /\ \A j \in 1..Len(Kids(n)) :
                    q <= j => Kids(n)[j] \in v.done \/ Ready(Kids(n)[j], v, h)
  <2>12. Permit(i, m) => Permit(i + 1, w) /\ w.executed \subseteq m.executed \cup Permitted(n, h)
    <3>1. ASSUME Permit(i, m) PROVE Permit(i + 1, w)
      BY <2>7, <2>11, <3>1
    <3>2. ASSUME Permit(i, m) PROVE w.executed \subseteq m.executed \cup Permitted(n, h)
      BY <1>1, <2>3, <2>8, <3>2
    <3>3. QED
      BY <3>1, <3>2
  <2> HIDE DEF c
  <2>13. CASE tree.kind[n] = "or" /\ c \in w.done
    <3>1. t = KidsOver(n, w)
      BY <2>1, <2>13
    <3>2. /\ t \in Outcomes /\ t.m \in Memories /\ t.m.current = w.current
          /\ t.m.executed = w.executed /\ t.m.running = w.running
          /\ \A x \in Nodes \ {n} : Alike(x, w, t.m)
      BY <2>6, <3>1, KidsOverGood
    <3>3. ASSUME NEW x \in Nodes \ Region(n, i) PROVE Alike(x, m, t.m)
      <4>1. Alike(x, m, w) /\ Alike(x, w, t.m)
        BY <1>3, <2>10, <3>2
      <4>2. QED
        BY <4>1, AlikeTrans
    <3>4. TickEffect(n, i, m, t.m)
      BY <2>6, <3>2, <3>3 DEF TickEffect
    <3>5. TickPermits(n, i, h, m, t.m)
      BY <1>1, <2>12, <3>2 DEF TickPermits
    <3>6. Clear(n, t.m)
      BY <2>13, OrForgets
    <3>7. Tidy(n, t.m)
      BY <3>6, ClearTidy
    <3>8. TickTidies(n, i, m, t)
      BY <3>6, <3>7 DEF TickTidies
    <3>9. QED
      BY <3>2, <3>4, <3>5, <3>8 DEF TickFine, t
  <2>14. CASE ~(tree.kind[n] = "or" /\ c \in w.done)
    <3>1. t = Tick(result)[Place(n, i + 1)][w]
      BY <2>1, <2>14
    <3>2. TickFine(n, i + 1, h, w, t)
      BY <2>3, <2>6, <3>1 DEF TickGood
    <3>3. t \in Outcomes /\ t.m.current = w.current /\ t.m \in Memories
      BY <3>2 DEF TickFine, TickEffect
    <3>4. ASSUME NEW x \in Nodes \ Region(n, i) PROVE Alike(x, m, t.m)
      <4>1. Alike(x, m, w) /\ Alike(x, w, t.m)
        BY <2>2, <2>10, <3>2 DEF TickFine, TickEffect
      <4>2. QED
        BY <4>1, AlikeTrans
    <3>5. TickEffect(n, i, m, t.m)
      BY <2>6, <3>3, <3>4 DEF TickEffect
    <3>6. Permit(i + 1, w) => t.m.executed \subseteq w.executed \cup Permitted(n, h)
      BY <1>1, <3>2 DEF TickFine, TickPermits
    <3>7. Permit(i, m) => t.m.executed \subseteq m.executed \cup Permitted(n, h)
      BY <2>12, <3>6
    <3>8. TickPermits(n, i, h, m, t.m)
      BY <1>1, <3>7 DEF TickPermits
    <3>9. TickTidies(n, i, m, t)
      <4>1. tree.kind[n] \in Parallels /\ Tidy(n, w) =>
              Tidy(n, t.m) /\ (t.status # "executing" => Clear(n, t.m))
        BY <3>2 DEF TickFine, TickTidies
      <4>2. QED
        BY <1>1, <2>9, <4>1 DEF TickTidies
    <3>10. QED
      BY <3>3, <3>5, <3>8, <3>9 DEF TickFine, t
  <2>15. QED
    BY <2>13, <2>14
<1>7. QED
  BY <1>5, <1>6

LEMMA TickNodeGood ==
  ASSUME IsTree(tree), IsBevTree(tree),
         NEW h, NEW result \in [Terminals -> Statuses], NEW n \in Nodes,
         \A c \in ToSet(Kids(n)) : TickGood(c, 0, h, result), TickGood(n, 1, h, result)
  PROVE  TickGood(n, 0, h, result)
<1> SUFFICES ASSUME NEW m \in Memories
             PROVE  TickFine(n, 0, h, m, Tick(result)[Place(n, 0)][m])
  BY DEF TickGood
<1> DEFINE t == Tick(result)[Place(n, 0)][m]
<1>1. t = TickNode(Tick(result), n, m, result)
  <2>1. 0 \in Nat
    OBVIOUS
  <2>2. t = TickAt(Tick(result), n, 0, m, result)
    BY <2>1, TickDef
  <2>3. QED
    BY <2>2 DEF TickAt
<1> HIDE DEF t
<1>2. CASE tree.kind[n] = "terminal"
  BY <1>1, <1>2, TickKinds, TickTerminalGood DEF t
<1>3. CASE tree.kind[n] \in Selectors
  BY <1>1, <1>3, TickKinds, TickSelectorGood DEF t
<1>4. CASE tree.kind[n] = "sequence"
  BY <1>1, <1>4, TickKinds, TickSequenceGood DEF t
<1>5. CASE tree.kind[n] = "loop"
  BY <1>1, <1>5, TickKinds, TickLoopGood DEF t
<1>6. CASE tree.kind[n] \in Parallels
  <2>1. t = Tick(result)[Place(n, 1)][m]
    BY <1>1, <1>6, TickKinds
  <2>2. TickFine(n, 1, h, m, t)
    BY <2>1 DEF TickGood
  <2>3. 1 \in Nat
    OBVIOUS
  <2>4. Region(n, 1) \subseteq Region(n, 0)
    BY <2>3, RegionFacts DEF Region
  <2>5. t \in Outcomes /\ TickEffect(n, 0, m, t.m)
    <3>1. t \in Outcomes /\ TickEffect(n, 1, m, t.m)
      BY <2>2 DEF TickFine
    <3>2. QED
      BY <2>4, <3>1 DEF TickEffect
  <2>6. ASSUME Ready(n, m, h) PROVE t.m.executed \subseteq m.executed \cup Permitted(n, h)
    <3>1. Due(n, m) = ToSet(Kids(n)) \ m.done
      BY <1>6 DEF Due, Selectors, Parallels
    <3>2. n \in h /\ \A c \in ToSet(Kids(n)) : c \in m.done \/ Ready(c, m, h)
      BY <2>6, <3>1, ReadyKid
    <3>3. \A j \in 1..Len(Kids(n)) : Kids(n)[j] \in ToSet(Kids(n))
      BY KidsSet
    <3>4. \A j \in 1..Len(Kids(n)) : Kids(n)[j] \in m.done \/ Ready(Kids(n)[j], m, h)
      BY <3>2, <3>3
    <3>5. TickPermits(n, 1, h, m, t.m)
      BY <2>2 DEF TickFine
    <3>6. QED
      BY <1>6, <3>2, <3>4, <3>5 DEF TickPermits
  <2>7. TickPermits(n, 0, h, m, t.m)
    BY <2>6 DEF TickPermits
  <2>8. TickTidies(n, 0, m, t)
    BY <1>6, <2>2 DEF TickFine, TickTidies
  <2>9. QED
    BY <2>5, <2>7, <2>8 DEF TickFine, t
<1>7. QED
  <2>1. tree.kind[n] \in Kinds
    BY TreeFacts, KindFacts
  <2>2. QED
    BY <1>2, <1>3, <1>4, <1>5, <1>6, <2>1 DEF Kinds

LEMMA TickGoodAll ==
  ASSUME IsTree(tree), IsBevTree(tree), NEW h, NEW result \in [Terminals -> Statuses]
  PROVE  \A n \in Nodes : TickGood(n, 0, h, result)
<1> DEFINE S == {p \in Places : TickGood(p[1], p[2], h, result)}
<1>1. \A n \in Nodes : \A i \in Nat :
        Place(n, i) \in S <=> TickGood(n, i, h, result)
  BY DEF Place, Places
<1> HIDE DEF S
<1>2. ASSUME NEW n \in Nodes, NEW i \in Nat, \A q \in Onward(n, i) : q \in S
      PROVE  Place(n, i) \in S
  <2>1. 0 \in Nat /\ 1 \in Nat /\ i \in Nat
    OBVIOUS
  <2>2. \A c \in ToSet(Kids(n)) : TickGood(c, 0, h, result)
    BY <1>1, <1>2, <2>1, OnwardFacts, KidsSet
  <2>3. CASE i = 0
    <3>1. TickGood(n, 1, h, result)
      BY <1>1, <1>2, <2>1, <2>3, OnwardFacts
    <3>2. QED
      BY <1>1, <2>1, <2>2, <2>3, <3>1, TickNodeGood
  <2>4. CASE i > 0
    <3>1. ASSUME ~(i > Len(Kids(n)))
          PROVE  TickGood(Kids(n)[i], 0, h, result) /\ TickGood(n, i + 1, h, result)
      <4>1. /\ Kids(n)[i] \in ToSet(Kids(n)) /\ Place(n, i + 1) \in Onward(n, i)
            /\ i + 1 \in Nat
        BY <2>4, <3>1, OnwardFacts
      <4>2. i + 1 \in Nat
        BY <4>1
      <4>3. QED
        BY <1>1, <1>2, <2>2, <4>1, <4>2
    <3>2. TickGood(n, i, h, result)
      BY <2>4, <3>1, TickKidsGood
    <3>3. QED
      BY <1>1, <3>2
  <2>5. QED
    BY <2>1, <2>3, <2>4
<1>3. Places \subseteq S
  BY <1>2, PlaceInduction
<1>4. \A n \in Nodes : Place(n, 0) \in Places
  BY DEF Place, Places
<1>5. 0 \in Nat
  OBVIOUS
<1>6. QED
  BY <1>1, <1>3, <1>4, <1>5

-----------------------------------------------------------------------------
(* A frame: Evaluate and Tick of the root. *)

LEMMA OnlyRootAbove ==
  ASSUME IsTree(tree), IsBevTree(tree), NEW b \in Nodes, tree.root \in Below(b)
  PROVE  b = tree.root
<1> DEFINE S == {n \in Nodes : tree.root \in Below(n) => n = tree.root}
<1>1. ASSUME NEW n \in Nodes, \A c \in Nodes : Height[c] < Height[n] => c \in S
      PROVE  n \in S
  <2> SUFFICES ASSUME tree.root \in Below(n), n # tree.root PROVE FALSE
    OBVIOUS
  <2>1. PICK c \in ToSet(Kids(n)) : tree.root \in Below(c)
    BY BelowDef
  <2>2. c \in Nodes /\ Height[c] < Height[n]
    BY BelowKid, HeightFacts
  <2>3. c = tree.root
    BY <1>1, <2>1, <2>2
  <2>4. QED
    BY <2>1, <2>3, TreeFacts
<1> HIDE DEF S
<1>2. Nodes \subseteq S
  <2>1. Height \in [Nodes -> Nat]
    BY HeightFacts
  <2>2. QED
    BY <1>1, <2>1, RankInduction
<1>3. QED
  BY <1>2 DEF S

LEMMA RemembersSame ==
  ASSUME IsTree(tree), IsBevTree(tree), NEW p \in Nodes, NEW c \in ToSet(Kids(p)), NEW m, NEW w,
         w.last = m.last, w.step = m.step, w.done = m.done, Remembers(p, c, m)
  PROVE  Remembers(p, c, w)
<1>1. tree.kind[p] \in Kinds \ {"terminal"}
  BY TreeFacts, KidsSet, KindFacts
<1>2. CASE tree.kind[p] \in Selectors
  BY <1>2, RemembersKinds
<1>3. CASE tree.kind[p] = "sequence"
  BY <1>3, RemembersKinds
<1>4. CASE tree.kind[p] \in Parallels
  BY <1>4, RemembersKinds
<1>5. CASE tree.kind[p] = "loop"
  BY <1>5, RemembersKinds
<1>6. QED
  BY <1>1, <1>2, <1>3, <1>4, <1>5 DEF Kinds

\* All terminals that run are remembered, of memory m.
Remembered(m) ==
  \A p \in Nodes : \A c \in ToSet(Kids(p)) : ~Clear(c, m) => Remembers(p, c, m)

\* The memory after a frame that starts with m, where e is what Evaluate returns.
Played(e, result) == IF e.ok THEN Tick(result)[Place(tree.root, 0)][e.m].m ELSE e.m

\* What Evaluate returns at the root, in a frame that starts with memory m where h hold.
Evaluated(h, m) == Evaluate(h)[Place(tree.root, 0)][[m EXCEPT !.executed = {}]]

LEMMA EvaluateRoot ==
  ASSUME IsTree(tree), IsBevTree(tree), NEW h, NEW m \in Memories
  PROVE  LET e == Evaluated(h, m)
         IN /\ e.m \in Memories /\ e.m.executed = {}
            /\ e.m.last = m.last /\ e.m.step = m.step /\ e.m.done = m.done
            /\ e.m.running = m.running
            /\ e.ok \in BOOLEAN /\ (e.ok => Ready(tree.root, e.m, h))
<1> DEFINE e == Evaluated(h, m)
<1> DEFINE v == [m EXCEPT !.executed = {}]
<1>1. v \in Memories
  BY DEF Memories
<1>2. /\ v.executed = {} /\ v.last = m.last /\ v.step = m.step /\ v.done = m.done
      /\ v.running = m.running
  BY DEF Memories
<1>3. e = Evaluate(h)[Place(tree.root, 0)][v]
  BY DEF Evaluated
<1> HIDE DEF v, e
<1>4. tree.root \in Nodes
  BY TreeFacts
<1>5. EvaluateGood(tree.root, 0, h)
  BY <1>4, EvaluateGoodAll
<1>6. EvaluateEffect(tree.root, 0, v, e) /\ EvaluateReady(tree.root, 0, h, e)
  BY <1>1, <1>3, <1>5 DEF EvaluateGood
<1>7. e.ok \in BOOLEAN /\ e.m \in Memories
  BY <1>6 DEF EvaluateEffect, Evaluations
<1>8. SameButCurrent(v, e.m)
  BY <1>6 DEF EvaluateEffect
<1>9. e.ok => Ready(tree.root, e.m, h)
  BY <1>6 DEF EvaluateReady
<1>10. QED
  BY <1>2, <1>7, <1>8, <1>9 DEF SameButCurrent, e

\* What a terminal executed in a frame needs, and that the frame remembers what runs.
LEMMA FramePlayed ==
  ASSUME IsTree(tree), IsBevTree(tree),
         NEW h, NEW result \in [Terminals -> Statuses], NEW m \in Memories,
         NEW e, e = Evaluated(h, m),
         NEW w, w = Played(e, result)
  PROVE  /\ w \in Memories
         /\ \A t \in w.executed, n \in Nodes : t \in Below(n) => n \in h
         /\ Remembered(m) => Remembered(w)
<1> DEFINE root == tree.root
<1>1. /\ e.m \in Memories /\ e.m.executed = {}
      /\ e.m.last = m.last /\ e.m.step = m.step /\ e.m.done = m.done
      /\ e.m.running = m.running
  BY EvaluateRoot
<1>2. e.ok \in BOOLEAN /\ (e.ok => Ready(root, e.m, h))
  BY EvaluateRoot
<1>3. root \in Nodes /\ \A n \in Nodes : root \notin ToSet(Kids(n))
  BY TreeFacts
<1>4. ASSUME Remembered(m) PROVE Remembered(e.m)
  <2>1. ASSUME NEW p \in Nodes, NEW c \in ToSet(Kids(p)), ~Clear(c, e.m)
        PROVE  Remembers(p, c, e.m)
    <3>1. ~Clear(c, m)
      BY <1>1, <2>1 DEF Clear
    <3>2. Remembers(p, c, m)
      BY <1>4, <3>1 DEF Remembered
    <3>3. QED
      BY <1>1, <3>2, RemembersSame
  <2>2. QED
    BY <2>1 DEF Remembered
<1>5. CASE ~e.ok
  <2>1. w = e.m
    BY <1>5 DEF Played
  <2>2. QED
    BY <1>1, <1>4, <2>1
<1>6. CASE e.ok
  <2> DEFINE o == Tick(result)[Place(root, 0)][e.m]
  <2>1. TickFine(root, 0, h, e.m, o)
    BY <1>1, <1>3, TickGoodAll DEF TickGood
  <2>2. w = o.m
    BY <1>6 DEF Played
  <2> HIDE DEF o, root
  <2>3. /\ w \in Memories
        /\ \A x \in Nodes \ Below(root) : Alike(x, e.m, w)
    BY <2>1, <2>2 DEF TickFine, TickEffect, Region
  <2>4. w.executed \subseteq Permitted(root, h)
    BY <1>1, <1>2, <1>6, <2>1, <2>2 DEF TickFine, TickPermits
  <2>5. ASSUME NEW t \in w.executed, NEW n \in Nodes, t \in Below(n) PROVE n \in h
    <3>1. t \in Below(root) /\ \A a \in Below(root) : t \in Below(a) => a \in h
      BY <2>4 DEF Permitted
    <3>2. n \in Below(root)
      <4>1. n \in Below(root) \/ root \in Below(n)
        BY <1>3, <2>5, <3>1, BelowBoth
      <4>2. root \in Below(n) => n = root
        BY OnlyRootAbove DEF root
      <4>3. root \in Below(root)
        BY <1>3, BelowDef
      <4>4. QED
        BY <4>1, <4>2, <4>3
    <3>3. QED
      BY <2>5, <3>1, <3>2
  <2>6. ASSUME Remembered(m), NEW p \in Nodes, NEW c \in ToSet(Kids(p)), ~Clear(c, w)
        PROVE  Remembers(p, c, w)
    <3>1. Remembered(e.m)
      BY <1>4, <2>6
    <3>2. CASE p \in Below(root)
      <4>1. Tidy(root, e.m)
        <5>1. Below(root) \subseteq Nodes
          BY <1>3, BelowDef
        <5>2. QED
          BY <3>1, <5>1 DEF Tidy, Remembered
      <4>2. Tidy(root, w)
        BY <2>1, <2>2, <4>1 DEF TickFine, TickTidies
      <4>3. QED
        BY <2>6, <3>2, <4>2 DEF Tidy
    <3>3. CASE p \notin Below(root)
      <4>1. c \in Nodes /\ Below(c) \subseteq Nodes /\ c # root
        BY <1>3, KidsSet, BelowDef
      <4>2. c \notin Below(root)
        BY <1>3, <3>3, <4>1, BelowParent
      <4>3. root \notin Below(c)
        BY <4>1, OnlyRootAbove DEF root
      <4>4. Below(c) \cap Below(root) = {}
        BY <1>3, <4>1, <4>2, <4>3, BelowBoth
      <4>5. \A x \in Below(c) : x \in w.running => x \in e.m.running
        BY <2>3, <4>1, <4>4 DEF Alike
      <4>6. ~Clear(c, e.m)
        BY <2>6, <4>5, ClearLocal
      <4>7. Remembers(p, c, e.m) /\ Alike(p, e.m, w)
        BY <2>3, <3>1, <3>3, <4>6 DEF Remembered
      <4>8. QED
        BY <4>7, RemembersLocal
    <3>4. QED
      BY <3>2, <3>3
  <2>7. Remembered(m) => Remembered(w)
    BY <2>6 DEF Remembered
  <2>8. QED
    BY <2>3, <2>5, <2>7
<1>7. QED
  BY <1>2, <1>5, <1>6

-----------------------------------------------------------------------------
(* The theorems. *)

\* The tree, and all that is said of it, stays the same.
LEMMA SameTree ==
  ASSUME tree' = tree
  PROVE  /\ Nodes' = Nodes /\ Terminals' = Terminals /\ Memories' = Memories
         /\ \A n : Kids(n)' = Kids(n) /\ Below(n)' = Below(n)
         /\ Forgotten' = Forgotten
<1>1. Nodes' = Nodes
  BY DEF Nodes
<1>2. Terminals' = Terminals
  BY DEF Terminals, Nodes
<1>3. \A n : Kids(n)' = Kids(n)
  BY DEF Kids
<1>4. \A n : Below(n)' = Below(n)
  BY DEF Below
<1>5. Memories' = Memories
  BY <1>1, <1>2, <1>3 DEF Memories, ChildOf, Steps
<1>6. Forgotten' = Forgotten
  BY <1>1, <1>4 DEF Forgotten
<1>7. QED
  BY <1>1, <1>2, <1>3, <1>4, <1>5, <1>6

LEMMA SameRemembers ==
  ASSUME tree' = tree, NEW p, NEW c
  PROVE  Remembers(p, c, mem)' <=> Remembers(p, c, mem')
<1>1. Kids(p)' = Kids(p)
  BY DEF Kids
<1>2. QED
  BY <1>1, Zenon DEF Remembers

LEMMA PathRemembers ==
  PathRemembered <=> Remembered(mem)
BY DEF PathRemembered, Remembered, Clear

LEMMA FrameStep ==
  ASSUME TypeOK, NEW true \in SUBSET tree.guarded, NEW result \in [Terminals -> Statuses],
         Frame(true, result)
  PROVE  /\ tree' = tree /\ mem' \in Memories /\ held' \in SUBSET Nodes
         /\ \A t \in mem'.executed, n \in Nodes : t \in Below(n) => n \in held'
         /\ Remembered(mem) => Remembered(mem')
<1> DEFINE h == true \cup (Nodes \ tree.guarded)
           e == Evaluated(h, mem)
<1>1. IsTree(tree) /\ IsBevTree(tree) /\ mem \in Memories
  BY TreesAssumption DEF TypeOK
<1>2. tree' = tree /\ held' = h /\ mem' = Played(e, result)
  BY DEF Frame, Played, Evaluated
<1>3. h \in SUBSET Nodes
  BY <1>1, TreeFacts, KindFacts
<1>4. e = Evaluated(h, mem)
  OBVIOUS
<1> HIDE DEF h, e
<1>5. mem' \in Memories
  BY <1>1, <1>2, <1>4, FramePlayed
<1>6. \A t \in mem'.executed, n \in Nodes : t \in Below(n) => n \in held'
  BY <1>1, <1>2, <1>4, FramePlayed
<1>7. Remembered(mem) => Remembered(mem')
  BY <1>1, <1>2, <1>4, FramePlayed
<1>8. QED
  BY <1>2, <1>3, <1>5, <1>6, <1>7

IInv == TypeOK /\ PreconditionsHold /\ PathRemembered

LEMMA IInvInit ==
  ASSUME Init
  PROVE  IInv
<1>1. IsTree(tree) /\ IsBevTree(tree)
  BY TreesAssumption DEF Init
<1>2. mem \in Memories /\ mem.executed = {} /\ mem.running = {}
  BY <1>1, EmptyMemory DEF Init
<1>3. TypeOK
  BY <1>2 DEF Init, TypeOK
<1>4. PreconditionsHold
  BY <1>2 DEF PreconditionsHold
<1>5. PathRemembered
  BY <1>2 DEF PathRemembered
<1>6. QED
  BY <1>3, <1>4, <1>5 DEF IInv

LEMMA IInvNext ==
  ASSUME IInv, [Next]_vars
  PROVE  IInv'
<1>1. CASE UNCHANGED vars
  <2>1. tree' = tree /\ mem' = mem /\ held' = held
    BY <1>1 DEF vars
  <2>2. TypeOK'
    BY <2>1, SameTree DEF IInv, TypeOK
  <2>3. PreconditionsHold'
    BY <2>1, SameTree DEF IInv, PreconditionsHold
  <2>4. PathRemembered'
    BY <2>1, SameTree, SameRemembers DEF IInv, PathRemembered
  <2>5. QED
    BY <2>2, <2>3, <2>4 DEF IInv
<1>2. CASE Next
  <2>1. PICK true \in SUBSET tree.guarded, result \in [Terminals -> Statuses] :
          Frame(true, result)
    BY <1>2 DEF Next
  <2>2. TypeOK /\ PathRemembered
    BY DEF IInv
  <2>3. /\ tree' = tree /\ mem' \in Memories /\ held' \in SUBSET Nodes
        /\ \A t \in mem'.executed, n \in Nodes : t \in Below(n) => n \in held'
    BY <2>1, <2>2, FrameStep
  <2>4. Remembered(mem')
    BY <2>1, <2>2, FrameStep, PathRemembers
  <2>5. TypeOK'
    BY <2>2, <2>3, SameTree DEF TypeOK
  <2>6. PreconditionsHold'
    BY <2>3, SameTree DEF PreconditionsHold
  <2>7. PathRemembered'
    BY <2>3, <2>4, SameTree, SameRemembers DEF PathRemembered, Remembered, Clear
  <2>8. QED
    BY <2>5, <2>6, <2>7 DEF IInv
<1>3. QED
  BY <1>1, <1>2

THEOREM Invariant == Spec => []IInv
<1>1. Init => IInv
  BY IInvInit
<1>2. IInv /\ [Next]_vars => IInv'
  BY IInvNext
<1>3. QED
  BY <1>1, <1>2, PTL DEF Spec

\* The memory of a tree keeps its form: a selector points to a child of its own or to none,
\* a sequence to one of its steps, only terminals run and execute (TAI_BevTree.cpp,
\* Evaluate, Tick and Transition of all nodes).
THEOREM TypeCorrect == Spec => []TypeOK
<1>1. IInv => TypeOK
  BY DEF IInv
<1>2. QED
  BY <1>1, Invariant, PTL

\* In every tree, a terminal executes only in a frame in which its own precondition and
\* those of all nodes above it hold (BevNode::Evaluate before Tick).
THEOREM PreconditionsHeld == Spec => []PreconditionsHold
<1>1. IInv => PreconditionsHold
  BY DEF IInv
<1>2. QED
  BY <1>1, Invariant, PTL

\* In every tree, a terminal that was entered and has not exited is remembered on the whole
\* way from the root, outside OR parallels (BevNode::Transition reaches it).
THEOREM PathsRemembered == Spec => []PathRemembered
<1>1. IInv => PathRemembered
  BY DEF IInv
<1>2. QED
  BY <1>1, Invariant, PTL
-----------------------------------------------------------------------------
(* The second version: the tasks of the nodes. *)

Results == [status : TaskStatuses, m : Tasks]

LEMMA TaskFacts ==
  ASSUME NEW m \in Tasks, NEW n \in Nodes
  PROVE  /\ m.current[n] # NoNode => m.current[n] \in ToSet(Kids(n))
         /\ m.last[n] # NoNode => m.last[n] \in ToSet(Kids(n))
         /\ m.exist \in SUBSET Nodes /\ m.executing \in SUBSET Nodes
         /\ m.begun \in SUBSET Terminals /\ m.dropped \in SUBSET Terminals
<1>1. m.current[n] \in ToSet(Kids(n)) \cup {NoNode} /\ m.last[n] \in ToSet(Kids(n)) \cup {NoNode}
  BY DEF Tasks, ChildOf
<1>2. QED
  BY <1>1 DEF Tasks

\* A memory is its fields.
LEMMA TasksRecord ==
  ASSUME NEW x \in SUBSET Nodes, NEW y \in SUBSET Nodes, NEW f \in ChildOf, NEW g \in ChildOf,
         NEW b \in SUBSET Terminals, NEW d \in SUBSET Terminals
  PROVE  LET w == [exist |-> x, executing |-> y, current |-> f, last |-> g,
                   begun |-> b, dropped |-> d]
         IN /\ w \in Tasks /\ w.exist = x /\ w.executing = y /\ w.current = f /\ w.last = g
            /\ w.begun = b /\ w.dropped = d
BY DEF Tasks

LEMMA SetTaskCurrent ==
  ASSUME IsTree(tree), NEW m \in Tasks, NEW n \in Nodes, NEW c \in ToSet(Kids(n)) \cup {NoNode}
  PROVE  LET w == [m EXCEPT !.current[n] = c]
         IN /\ w \in Tasks /\ w.current[n] = c /\ w.exist = m.exist /\ w.executing = m.executing
            /\ w.last = m.last /\ w.begun = m.begun /\ w.dropped = m.dropped
            /\ \A x \in Nodes \ {n} : w.current[x] = m.current[x]
<1>1. m.current \in ChildOf
  BY DEF Tasks
<1>2. c \in Nodes \cup {NoNode}
  BY KidsSet
<1>3. [m.current EXCEPT ![n] = c] \in ChildOf
  BY <1>1, <1>2 DEF ChildOf
<1>4. [m EXCEPT !.current[n] = c] \in Tasks
  BY <1>3 DEF Tasks
<1>5. m.current \in [Nodes -> Nodes \cup {NoNode}]
  BY <1>1 DEF ChildOf
<1>6. QED
  BY <1>4, <1>5 DEF Tasks

LEMMA SetTaskLast ==
  ASSUME IsTree(tree), NEW m \in Tasks, NEW n \in Nodes, NEW c \in ToSet(Kids(n)) \cup {NoNode}
  PROVE  LET w == [m EXCEPT !.last[n] = c]
         IN /\ w \in Tasks /\ w.last[n] = c /\ w.exist = m.exist /\ w.executing = m.executing
            /\ w.current = m.current /\ w.begun = m.begun /\ w.dropped = m.dropped
            /\ \A x \in Nodes \ {n} : w.last[x] = m.last[x]
<1>1. m.last \in ChildOf
  BY DEF Tasks
<1>2. c \in Nodes \cup {NoNode}
  BY KidsSet
<1>3. [m.last EXCEPT ![n] = c] \in ChildOf
  BY <1>1, <1>2 DEF ChildOf
<1>4. [m EXCEPT !.last[n] = c] \in Tasks
  BY <1>3 DEF Tasks
<1>5. m.last \in [Nodes -> Nodes \cup {NoNode}]
  BY <1>1 DEF ChildOf
<1>6. QED
  BY <1>4, <1>5 DEF Tasks

LEMMA SetExecuting ==
  ASSUME NEW m \in Tasks, NEW S \in SUBSET Nodes
  PROVE  LET w == [m EXCEPT !.executing = S]
         IN /\ w \in Tasks /\ w.executing = S /\ w.exist = m.exist /\ w.current = m.current
            /\ w.last = m.last /\ w.begun = m.begun /\ w.dropped = m.dropped
BY DEF Tasks

LEMMA SetExist ==
  ASSUME NEW m \in Tasks, NEW S \in SUBSET Nodes
  PROVE  LET w == [m EXCEPT !.exist = S]
         IN /\ w \in Tasks /\ w.exist = S /\ w.executing = m.executing /\ w.current = m.current
            /\ w.last = m.last /\ w.begun = m.begun /\ w.dropped = m.dropped
BY DEF Tasks

LEMMA SetBegun ==
  ASSUME NEW m \in Tasks, NEW S \in SUBSET Terminals
  PROVE  LET w == [m EXCEPT !.begun = S]
         IN /\ w \in Tasks /\ w.begun = S /\ w.exist = m.exist /\ w.executing = m.executing
            /\ w.current = m.current /\ w.last = m.last /\ w.dropped = m.dropped
BY DEF Tasks

\* What Uninstall destroys and what it leaves.
Gone(S, m) == UNION {Below(n) : n \in S \cap m.exist}

LEMMA UninstallFacts ==
  ASSUME IsTree(tree), NEW S, NEW m \in Tasks
  PROVE  LET w == Uninstall(S, m)
         IN /\ w \in Tasks /\ Gone(S, m) \subseteq Nodes
            /\ w.exist = m.exist \ Gone(S, m) /\ w.executing = m.executing \ Gone(S, m)
            /\ w.begun = m.begun \ Gone(S, m)
            /\ w.dropped = m.dropped \cup (m.begun \cap Gone(S, m))
            /\ \A x \in Nodes :
                 /\ x \in Gone(S, m) => w.current[x] = NoNode /\ w.last[x] = NoNode
                 /\ x \notin Gone(S, m) => w.current[x] = m.current[x] /\ w.last[x] = m.last[x]
<1> DEFINE G == Gone(S, m)
           Kept(f) == [x \in Nodes |-> IF x \in G THEN NoNode ELSE f[x]]
<1>1. /\ m.exist \subseteq Nodes /\ m.executing \subseteq Nodes /\ m.begun \subseteq Terminals
      /\ m.dropped \subseteq Terminals /\ m.current \in ChildOf /\ m.last \in ChildOf
  BY DEF Tasks
<1>2. G \subseteq Nodes
  BY <1>1, BelowDef DEF Gone
<1>3. Uninstall(S, m) =
        [exist |-> m.exist \ G, executing |-> m.executing \ G, current |-> Kept(m.current),
         last |-> Kept(m.last), begun |-> m.begun \ G, dropped |-> m.dropped \cup (m.begun \cap G)]
  BY DEF Uninstall, Gone
<1> HIDE DEF G
<1>4. \A f \in ChildOf : Kept(f) \in ChildOf
  <2> SUFFICES ASSUME NEW f \in ChildOf PROVE Kept(f) \in ChildOf
    OBVIOUS
  <2>1. /\ f \in [Nodes -> Nodes \cup {NoNode}]
        /\ \A x \in Nodes : f[x] \in ToSet(Kids(x)) \cup {NoNode}
    BY DEF ChildOf
  <2>2. Kept(f) \in [Nodes -> Nodes \cup {NoNode}]
    BY <2>1
  <2>3. \A x \in Nodes : Kept(f)[x] \in ToSet(Kids(x)) \cup {NoNode}
    BY <2>1
  <2>4. QED
    BY <2>2, <2>3 DEF ChildOf
<1>5. \A f : \A x \in Nodes : Kept(f)[x] = IF x \in G THEN NoNode ELSE f[x]
  OBVIOUS
<1> HIDE DEF Kept
<1> DEFINE w == Uninstall(S, m)
<1>6. /\ w \in Tasks /\ w.exist = m.exist \ G /\ w.executing = m.executing \ G
      /\ w.current = Kept(m.current) /\ w.last = Kept(m.last)
      /\ w.begun = m.begun \ G /\ w.dropped = m.dropped \cup (m.begun \cap G)
  <2>1. /\ m.exist \ G \in SUBSET Nodes /\ m.executing \ G \in SUBSET Nodes
        /\ Kept(m.current) \in ChildOf /\ Kept(m.last) \in ChildOf
        /\ m.begun \ G \in SUBSET Terminals
        /\ m.dropped \cup (m.begun \cap G) \in SUBSET Terminals
    BY <1>1, <1>4
  <2>2. QED
    BY <1>3, <2>1, TasksRecord
<1> HIDE DEF w
<1>7. QED
  BY <1>2, <1>5, <1>6 DEF G, w

LEMMA InstallFacts ==
  ASSUME IsTree(tree), NEW S \in SUBSET Nodes, NEW m \in Tasks
  PROVE  LET w == Install(S, m)
             v == Uninstall(S, m)
         IN /\ w \in Tasks /\ w.exist = v.exist \cup S /\ w.executing = v.executing
            /\ w.current = v.current /\ w.last = v.last /\ w.begun = v.begun
            /\ w.dropped = v.dropped
<1> DEFINE v == Uninstall(S, m)
<1>1. v \in Tasks
  BY UninstallFacts
<1> HIDE DEF v
<1>2. v.exist \cup S \in SUBSET Nodes
  BY <1>1 DEF Tasks
<1>3. QED
  BY <1>1, <1>2, SetExist DEF Install, v

\* The current child is given up: it and all below it go, if it has a task.
LEMMA UninstallCurrentFacts ==
  ASSUME IsTree(tree), NEW n \in Nodes, NEW m \in Tasks
  PROVE  LET w == UninstallCurrent(n, m)
             v == Uninstall({m.current[n]}, m)
         IN /\ v \in Tasks /\ w \in Tasks /\ w.current[n] = NoNode /\ w.exist = v.exist
            /\ w.executing = v.executing /\ w.last = v.last /\ w.begun = v.begun
            /\ w.dropped = v.dropped
            /\ \A x \in Nodes \ {n} : w.current[x] = v.current[x]
<1> DEFINE v == Uninstall({m.current[n]}, m)
<1>1. v \in Tasks
  BY UninstallFacts
<1> HIDE DEF v
<1>2. NoNode \in ToSet(Kids(n)) \cup {NoNode}
  OBVIOUS
<1>3. QED
  <2> DEFINE w == [v EXCEPT !.current[n] = NoNode]
  <2>1. UninstallCurrent(n, m) = w
    BY DEF UninstallCurrent, v
  <2>2. /\ w \in Tasks /\ w.current[n] = NoNode /\ w.exist = v.exist
        /\ w.executing = v.executing /\ w.last = v.last /\ w.begun = v.begun
        /\ w.dropped = v.dropped
        /\ \A x \in Nodes \ {n} : w.current[x] = v.current[x]
    BY <1>1, <1>2, SetTaskCurrent
  <2> HIDE DEF w
  <2>3. QED
    BY <1>1, <2>1, <2>2 DEF v

LEMMA InstallCurrentType ==
  ASSUME IsTree(tree), NEW n \in Nodes, NEW m \in Tasks, NEW c \in ToSet(Kids(n))
  PROVE  InstallCurrent(n, c, m) \in Tasks /\ InstallCurrent(n, c, m).current[n] = c
<1> DEFINE u == UninstallCurrent(n, m)
           v == Install({c}, u)
<1>1. u \in Tasks
  BY UninstallCurrentFacts
<1> HIDE DEF u
<1>2. {c} \in SUBSET Nodes
  BY KidsSet
<1>3. v \in Tasks
  BY <1>1, <1>2, InstallFacts
<1> HIDE DEF v
<1>4. QED
  BY <1>3, SetTaskCurrent DEF InstallCurrent, v, u

-----------------------------------------------------------------------------
(* Update is what its recursion says. *)

\* The tasks after the i-th child of a sequence has finished.
AfterKid(n, i, m) ==
  IF i = Len(Kids(n)) THEN m ELSE InstallCurrent(n, Kids(n)[i + 1], m)

\* The tasks when a selector begins with the child it chose last.
SelectorNow(n, m) ==
  IF m.current[n] # NoNode THEN m
  ELSE [InstallCurrent(n, Kids(n)[1], m) EXCEPT !.last[n] = Kids(n)[1]]

\* The place at which a sequence goes on, and the tasks there.
SequenceAt(n, m) ==
  IF m.current[n] = NoNode THEN 1 ELSE CHOOSE k \in 1..Len(Kids(n)) : Kids(n)[k] = m.current[n]
SequenceNow(n, m) ==
  IF m.current[n] = NoNode THEN InstallCurrent(n, Kids(n)[1], m) ELSE m

\* The tasks with which a behaviour is updated, and the end of its update.
Started(n, m) == IF n \in m.executing THEN m ELSE OnInit(n, m)
Ended(n, r) ==
  IF r.status = "executing" THEN [r EXCEPT !.m.executing = @ \cup {n}]
  ELSE [status |-> r.status, m |-> [OnTerminate(n, r.m) EXCEPT !.executing = @ \ {n}]]

LEMMA AfterKidType ==
  ASSUME IsTree(tree), NEW n \in Nodes, NEW i \in 1..Len(Kids(n)), NEW m \in Tasks
  PROVE  AfterKid(n, i, m) \in Tasks
<1>1. CASE i = Len(Kids(n))
  BY <1>1 DEF AfterKid
<1>2. CASE i # Len(Kids(n))
  <2>1. i + 1 \in 1..Len(Kids(n))
    BY <1>2, TreeFacts
  <2>2. Kids(n)[i + 1] \in ToSet(Kids(n))
    BY <2>1, KidsSet
  <2>3. QED
    BY <1>2, <2>2, InstallCurrentType DEF AfterKid
<1>3. QED
  BY <1>1, <1>2

LEMMA SelectorNowType ==
  ASSUME IsTree(tree), NEW n \in Nodes, Kids(n) # <<>>, NEW m \in Tasks
  PROVE  SelectorNow(n, m) \in Tasks /\ SelectorNow(n, m).current[n] \in ToSet(Kids(n))
<1>1. CASE m.current[n] # NoNode
  BY <1>1, TaskFacts DEF SelectorNow
<1>2. CASE m.current[n] = NoNode
  <2> DEFINE c == Kids(n)[1]
             w == InstallCurrent(n, c, m)
  <2>1. c \in ToSet(Kids(n))
    BY KidsSet
  <2>2. w \in Tasks /\ w.current[n] = c
    BY <2>1, InstallCurrentType
  <2>3. SelectorNow(n, m) = [w EXCEPT !.last[n] = c]
    BY <1>2 DEF SelectorNow
  <2> HIDE DEF w, c
  <2>4. [w EXCEPT !.last[n] = c] \in Tasks /\ [w EXCEPT !.last[n] = c].current = w.current
    BY <2>1, <2>2, SetTaskLast
  <2>5. QED
    BY <2>1, <2>2, <2>3, <2>4
<1>3. QED
  BY <1>1, <1>2

LEMMA SequenceNowType ==
  ASSUME IsTree(tree), NEW n \in Nodes, Kids(n) # <<>>, NEW m \in Tasks
  PROVE  /\ SequenceNow(n, m) \in Tasks /\ SequenceAt(n, m) \in 1..Len(Kids(n))
         /\ SequenceNow(n, m).current[n] = Kids(n)[SequenceAt(n, m)]
<1>1. Len(Kids(n)) \in Nat /\ Len(Kids(n)) > 0 /\ Kids(n)[1] \in ToSet(Kids(n))
  BY TreeFacts, KidsSet
<1>2. CASE m.current[n] = NoNode
  <2>1. SequenceAt(n, m) = 1 /\ SequenceNow(n, m) = InstallCurrent(n, Kids(n)[1], m)
    BY <1>2 DEF SequenceAt, SequenceNow
  <2>2. QED
    BY <1>1, <2>1, InstallCurrentType
<1>3. CASE m.current[n] # NoNode
  <2>1. \E k \in 1..Len(Kids(n)) : Kids(n)[k] = m.current[n]
    BY <1>3, TaskFacts, KidsSet
  <2>2. SequenceAt(n, m) \in 1..Len(Kids(n)) /\ Kids(n)[SequenceAt(n, m)] = m.current[n]
    BY <1>3, <2>1, Zenon DEF SequenceAt
  <2>3. SequenceNow(n, m) = m
    BY <1>3 DEF SequenceNow
  <2>4. QED
    BY <2>2, <2>3
<1>4. QED
  BY <1>2, <1>3

LEMMA OnInitType ==
  ASSUME IsTree(tree), NEW n \in Nodes, NEW m \in Tasks
  PROVE  OnInit(n, m) \in Tasks /\ Started(n, m) \in Tasks
<1>1. CASE tree.kind[n] = "terminal"
  <2>1. m.begun \cup {n} \in SUBSET Terminals
    BY <1>1, TaskFacts DEF Terminals
  <2>2. OnInit(n, m) = [m EXCEPT !.begun = m.begun \cup {n}]
    BY <1>1 DEF OnInit
  <2>3. QED
    BY <2>1, <2>2, SetBegun DEF Started
<1>2. CASE tree.kind[n] = "parallel"
  <2>1. ToSet(Kids(n)) \in SUBSET Nodes
    BY KidsSet
  <2>2. QED
    BY <1>2, <2>1, InstallFacts DEF OnInit, Started
<1>3. CASE tree.kind[n] # "terminal" /\ tree.kind[n] # "parallel"
  BY <1>3 DEF OnInit, Started
<1>4. QED
  BY <1>1, <1>2, <1>3

LEMMA OnTerminateType ==
  ASSUME IsTree(tree), NEW n \in Nodes, NEW m \in Tasks
  PROVE  OnTerminate(n, m) \in Tasks
<1>1. CASE tree.kind[n] = "terminal"
  <2>1. m.begun \ {n} \in SUBSET Terminals
    BY TaskFacts
  <2>2. OnTerminate(n, m) = [m EXCEPT !.begun = m.begun \ {n}]
    BY <1>1 DEF OnTerminate
  <2>3. QED
    BY <2>1, <2>2, SetBegun
<1>2. CASE tree.kind[n] = "parallel"
  BY <1>2 DEF OnTerminate
<1>3. CASE tree.kind[n] # "terminal" /\ tree.kind[n] # "parallel"
  <2> DEFINE u == UninstallCurrent(n, m)
  <2>1. u \in Tasks
    BY UninstallCurrentFacts
  <2>2. OnTerminate(n, m) = [u EXCEPT !.last[n] = NoNode]
    BY <1>3 DEF OnTerminate
  <2> HIDE DEF u
  <2>3. NoNode \in ToSet(Kids(n)) \cup {NoNode}
    OBVIOUS
  <2>4. QED
    BY <2>1, <2>2, <2>3, SetTaskLast
<1>4. QED
  BY <1>1, <1>2, <1>3

\* The fields of a result, and the results that are built.
LEMMA ResultFacts ==
  /\ \A r \in Results : r.status \in TaskStatuses /\ r.m \in Tasks
                        /\ r = [status |-> r.status, m |-> r.m]
  /\ \A s \in TaskStatuses, m \in Tasks : [status |-> s, m |-> m] \in Results
  /\ \A s, m : [status |-> s, m |-> m].status = s /\ [status |-> s, m |-> m].m = m
BY DEF Results

LEMMA EndedType ==
  ASSUME IsTree(tree), NEW n \in Nodes, NEW r \in Results
  PROVE  /\ Ended(n, r) \in Results /\ Ended(n, r).status = r.status
         /\ r.status = "executing" =>
              Ended(n, r).m = [r.m EXCEPT !.executing = r.m.executing \cup {n}]
         /\ r.status # "executing" =>
              Ended(n, r).m = [OnTerminate(n, r.m) EXCEPT
                                 !.executing = OnTerminate(n, r.m).executing \ {n}]
<1>1. r.status \in TaskStatuses /\ r.m \in Tasks /\ r = [status |-> r.status, m |-> r.m]
  BY ResultFacts
<1> DEFINE w == OnTerminate(n, r.m)
           E == r.m.executing \cup {n}
<1>2. w \in Tasks
  BY <1>1, OnTerminateType
<1>3. w.executing \ {n} \in SUBSET Nodes /\ E \in SUBSET Nodes
  BY <1>1, <1>2, TaskFacts
<1>4. [r.m EXCEPT !.executing = E] \in Tasks
  BY <1>1, <1>3, SetExecuting
<1>5. [w EXCEPT !.executing = w.executing \ {n}] \in Tasks
  BY <1>2, <1>3, SetExecuting
<1>6. CASE r.status = "executing"
  <2> DEFINE v == [r.m EXCEPT !.executing = E]
  <2>1. Ended(n, r) = [r EXCEPT !.m.executing = E]
    BY <1>6 DEF Ended
  <2>2. [r EXCEPT !.m.executing = E] = [status |-> r.status, m |-> v]
    BY DEF Results
  <2>3. Ended(n, r) = [status |-> r.status, m |-> v] /\ v \in Tasks
    BY <1>4, <2>1, <2>2
  <2> HIDE DEF E, v, w
  <2>4. /\ Ended(n, r) \in Results /\ Ended(n, r).status = r.status /\ Ended(n, r).m = v
    BY <1>1, <2>3, ResultFacts
  <2>5. QED
    BY <1>6, <2>4 DEF v, E
<1>7. CASE r.status # "executing"
  <2>1. Ended(n, r) = [status |-> r.status, m |-> [w EXCEPT !.executing = w.executing \ {n}]]
    BY <1>7 DEF Ended
  <2> DEFINE v == [w EXCEPT !.executing = w.executing \ {n}]
  <2>2. Ended(n, r) = [status |-> r.status, m |-> v] /\ v \in Tasks
    BY <1>5, <2>1
  <2> HIDE DEF w, v
  <2>3. /\ Ended(n, r) \in Results /\ Ended(n, r).status = r.status /\ Ended(n, r).m = v
    BY <1>1, <2>2, ResultFacts
  <2>4. QED
    BY <1>7, <2>3 DEF v, w
<1>8. QED
  BY <1>6, <1>7

\* The loops, case by case.
LEMMA RunOnFacts ==
  ASSUME NEW k, NEW n, NEW i, NEW m
  PROVE  /\ i > Len(Kids(n)) => RunOn(k, n, i, m) = [status |-> "finish", m |-> m]
         /\ ~(i > Len(Kids(n))) =>
              LET r == k[Place(Kids(n)[i], 0)][m]
              IN /\ r.status # "finish" => RunOn(k, n, i, m) = r
                 /\ r.status = "finish" =>
                      RunOn(k, n, i, m) = k[Place(n, i + 1)][AfterKid(n, i, r.m)]
BY DEF RunOn, AfterKid

LEMMA TryOthersFacts ==
  ASSUME NEW k, NEW n, NEW i, NEW m
  PROVE  /\ i > Len(Kids(n)) => TryOthers(k, n, i, m) = [status |-> "failure", m |-> m]
         /\ ~(i > Len(Kids(n))) /\ Kids(n)[i] = m.last[n] =>
              TryOthers(k, n, i, m) = k[Place(n, i + 1)][m]
         /\ ~(i > Len(Kids(n))) /\ Kids(n)[i] # m.last[n] =>
              LET r == k[Place(Kids(n)[i], 0)][InstallCurrent(n, Kids(n)[i], m)]
              IN /\ r.status = "failure" => TryOthers(k, n, i, m) = k[Place(n, i + 1)][r.m]
                 /\ r.status # "failure" =>
                      TryOthers(k, n, i, m) = [r EXCEPT !.m.last[n] = Kids(n)[i]]
BY DEF TryOthers

LEMMA RunAllFacts ==
  ASSUME NEW k, NEW n, NEW i, NEW m
  PROVE  /\ i > Len(Kids(n)) => RunAll(k, n, i, m) = [status |-> "executing", m |-> m]
         /\ ~(i > Len(Kids(n))) =>
              LET r == k[Place(Kids(n)[i], 0)][m]
              IN /\ r.status = "executing" => RunAll(k, n, i, m) = k[Place(n, i + 1)][r.m]
                 /\ r.status # "executing" => RunAll(k, n, i, m) = r
BY DEF RunAll

LEMMA OnUpdateKinds ==
  ASSUME NEW k, NEW n, NEW m, NEW result
  PROVE  /\ tree.kind[n] = "terminal" =>
              OnUpdate(k, n, m, result) = [status |-> result[n], m |-> m]
         /\ tree.kind[n] = "parallel" => OnUpdate(k, n, m, result) = k[Place(n, 1)][m]
         /\ tree.kind[n] \in {"sequence", "selector"} /\ Kids(n) = <<>> =>
              OnUpdate(k, n, m, result) = [status |-> "failure", m |-> m]
         /\ tree.kind[n] = "sequence" /\ Kids(n) # <<>> =>
              OnUpdate(k, n, m, result) = k[Place(n, SequenceAt(n, m))][SequenceNow(n, m)]
         /\ tree.kind[n] = "selector" /\ Kids(n) # <<>> =>
              LET now == SelectorNow(n, m)
                  r == k[Place(now.current[n], 0)][now]
              IN /\ r.status = "failure" => OnUpdate(k, n, m, result) = k[Place(n, 1)][r.m]
                 /\ r.status # "failure" => OnUpdate(k, n, m, result) = r
<1>1. tree.kind[n] = "terminal" =>
        OnUpdate(k, n, m, result) = [status |-> result[n], m |-> m]
  BY DEF OnUpdate
<1>2. tree.kind[n] = "parallel" => OnUpdate(k, n, m, result) = k[Place(n, 1)][m]
  BY DEF OnUpdate
<1>3. tree.kind[n] \in {"sequence", "selector"} /\ Kids(n) = <<>> =>
        OnUpdate(k, n, m, result) = [status |-> "failure", m |-> m]
  BY DEF OnUpdate
<1>4. tree.kind[n] = "sequence" /\ Kids(n) # <<>> =>
        OnUpdate(k, n, m, result) = UpdateSequence(k, n, m)
  BY DEF OnUpdate
<1>5. tree.kind[n] = "selector" /\ Kids(n) # <<>> =>
        OnUpdate(k, n, m, result) = UpdateSelector(k, n, m)
  BY DEF OnUpdate
<1>6. UpdateSequence(k, n, m) = k[Place(n, SequenceAt(n, m))][SequenceNow(n, m)]
  BY DEF UpdateSequence, SequenceAt, SequenceNow
<1>7. LET now == SelectorNow(n, m)
          r == k[Place(now.current[n], 0)][now]
      IN UpdateSelector(k, n, m) = IF r.status = "failure" THEN k[Place(n, 1)][r.m] ELSE r
  BY DEF UpdateSelector, SelectorNow
<1>8. QED
  BY <1>1, <1>2, <1>3, <1>4, <1>5, <1>6, <1>7

LEMMA UpdateLocal ==
  ASSUME IsTree(tree), NEW result \in [Terminals -> TaskStatuses],
         NEW f, NEW g \in [Places -> [Tasks -> Results]],
         NEW n \in Nodes, tree.kind[n] \in TaskKinds, NEW i \in Nat, NEW m \in Tasks,
         \A q \in Onward(n, i) : f[q] = g[q]
  PROVE  /\ UpdateAt(f, n, i, m, result) = UpdateAt(g, n, i, m, result)
         /\ UpdateAt(g, n, i, m, result) \in Results
<1>1. \A q \in Places, w \in Tasks : g[q][w] \in Results /\ g[q][w].m \in Tasks
  <2>1. \A q \in Places, w \in Tasks : g[q][w] \in Results
    OBVIOUS
  <2>2. QED
    BY <2>1, ResultFacts
<1>2. \A c \in ToSet(Kids(n)) : f[Place(c, 0)] = g[Place(c, 0)] /\ Place(c, 0) \in Places
  BY OnwardFacts
<1>3. CASE i = 0
  <2>1. \A j \in Nat \ {0} : f[Place(n, j)] = g[Place(n, j)] /\ Place(n, j) \in Places
    BY <1>3, OnwardFacts
  <2> DEFINE u == Started(n, m)
  <2>2. u \in Tasks
    BY OnInitType
  <2> HIDE DEF u
  <2>3. /\ OnUpdate(f, n, u, result) = OnUpdate(g, n, u, result)
        /\ OnUpdate(g, n, u, result) \in Results
    <3>1. CASE tree.kind[n] = "terminal"
      <4>1. result[n] \in TaskStatuses
        BY <3>1 DEF Terminals
      <4>2. [status |-> result[n], m |-> u] \in Results
        BY <2>2, <4>1, ResultFacts
      <4>3. QED
        BY <3>1, <4>2, OnUpdateKinds
    <3>2. CASE tree.kind[n] = "parallel"
      <4>1. f[Place(n, 1)] = g[Place(n, 1)] /\ g[Place(n, 1)][u] \in Results
        BY <1>1, <2>1, <2>2
      <4>2. OnUpdate(f, n, u, result) = f[Place(n, 1)][u]
        BY <3>2, OnUpdateKinds
      <4>3. OnUpdate(g, n, u, result) = g[Place(n, 1)][u]
        BY <3>2, OnUpdateKinds
      <4>4. QED
        BY <4>1, <4>2, <4>3
    <3>3. CASE tree.kind[n] \in {"sequence", "selector"} /\ Kids(n) = <<>>
      <4>1. [status |-> "failure", m |-> u] \in Results
        BY <2>2, ResultFacts DEF TaskStatuses
      <4>2. QED
        BY <3>3, <4>1, OnUpdateKinds
    <3>4. CASE tree.kind[n] = "sequence" /\ Kids(n) # <<>>
      <4> DEFINE p == Place(n, SequenceAt(n, u))
                 v == SequenceNow(n, u)
      <4>1. v \in Tasks /\ SequenceAt(n, u) \in 1..Len(Kids(n))
        BY <2>2, <3>4, SequenceNowType
      <4>2. SequenceAt(n, u) \in Nat \ {0}
        BY <4>1
      <4>3. f[p] = g[p] /\ p \in Places
        BY <2>1, <4>2
      <4>4. g[p][v] \in Results
        BY <1>1, <4>1, <4>3
      <4>5. OnUpdate(f, n, u, result) = f[p][v]
        BY <3>4, OnUpdateKinds
      <4>6. OnUpdate(g, n, u, result) = g[p][v]
        BY <3>4, OnUpdateKinds
      <4>7. QED
        BY <4>3, <4>4, <4>5, <4>6
    <3>5. CASE tree.kind[n] = "selector" /\ Kids(n) # <<>>
      <4> DEFINE v == SelectorNow(n, u)
                 p == Place(v.current[n], 0)
                 a == Place(n, 1)
      <4>1. v \in Tasks /\ v.current[n] \in ToSet(Kids(n))
        BY <2>2, <3>5, SelectorNowType
      <4>2. f[p] = g[p] /\ p \in Places /\ f[a] = g[a] /\ a \in Places
        BY <1>2, <2>1, <4>1
      <4>3. g[p][v] \in Results /\ g[p][v].m \in Tasks
        BY <1>1, <4>1, <4>2
      <4>4. g[a][g[p][v].m] \in Results
        BY <1>1, <4>2, <4>3
      <4>5. /\ f[p][v].status = "failure" => OnUpdate(f, n, u, result) = f[a][f[p][v].m]
            /\ f[p][v].status # "failure" => OnUpdate(f, n, u, result) = f[p][v]
        BY <3>5, OnUpdateKinds
      <4>6. /\ g[p][v].status = "failure" => OnUpdate(g, n, u, result) = g[a][g[p][v].m]
            /\ g[p][v].status # "failure" => OnUpdate(g, n, u, result) = g[p][v]
        BY <3>5, OnUpdateKinds
      <4> HIDE DEF v, p, a
      <4>7. QED
        BY <4>2, <4>3, <4>4, <4>5, <4>6
    <3>6. QED
      BY <3>1, <3>2, <3>3, <3>4, <3>5 DEF TaskKinds
  <2>4. /\ UpdateAt(f, n, i, m, result) = Ended(n, OnUpdate(f, n, u, result))
        /\ UpdateAt(g, n, i, m, result) = Ended(n, OnUpdate(g, n, u, result))
    BY <1>3 DEF UpdateAt, UpdateBehavior, Started, Ended, u
  <2>5. QED
    BY <2>3, <2>4, EndedType
<1>4. CASE i > 0
  <2> DEFINE p == Place(n, i + 1)
             c == Kids(n)[i]
             q == Place(c, 0)
  <2>1. /\ i # 0 /\ i \in Nat /\ Len(Kids(n)) \in Nat
        /\ ~(i > Len(Kids(n))) => i \in 1..Len(Kids(n))
    BY <1>4, TreeFacts
  <2>2. ~(i > Len(Kids(n))) =>
          /\ c \in ToSet(Kids(n)) /\ f[p] = g[p] /\ p \in Places
          /\ f[q] = g[q] /\ q \in Places
    BY <1>2, <1>4, OnwardFacts
  <2>3. \A s \in TaskStatuses : [status |-> s, m |-> m] \in Results
    BY ResultFacts
  <2>4. CASE tree.kind[n] = "sequence"
    <3>1. UpdateAt(f, n, i, m, result) = RunOn(f, n, i, m)
      BY <2>1, <2>4 DEF UpdateAt
    <3>2. UpdateAt(g, n, i, m, result) = RunOn(g, n, i, m)
      BY <2>1, <2>4 DEF UpdateAt
    <3>3. CASE i > Len(Kids(n))
      BY <2>3, <3>1, <3>2, <3>3, RunOnFacts DEF TaskStatuses
    <3>4. CASE ~(i > Len(Kids(n)))
      <4> DEFINE v == AfterKid(n, i, g[q][m].m)
      <4>1. g[q][m] \in Results /\ g[q][m].m \in Tasks /\ f[q][m] = g[q][m]
        BY <1>1, <2>2, <3>4
      <4>2. v \in Tasks
        BY <2>1, <3>4, <4>1, AfterKidType
      <4>3. g[p][v] \in Results /\ f[p] = g[p]
        BY <1>1, <2>2, <3>4, <4>2
      <4>4. /\ f[q][m].status # "finish" => RunOn(f, n, i, m) = f[q][m]
            /\ f[q][m].status = "finish" => RunOn(f, n, i, m) = f[p][AfterKid(n, i, f[q][m].m)]
        BY <3>4, RunOnFacts
      <4>5. /\ g[q][m].status # "finish" => RunOn(g, n, i, m) = g[q][m]
            /\ g[q][m].status = "finish" => RunOn(g, n, i, m) = g[p][v]
        BY <3>4, RunOnFacts
      <4> HIDE DEF p, q, v
      <4>6. f[q][m].status = "finish" => RunOn(f, n, i, m) = f[p][v]
        BY <4>1, <4>4 DEF v
      <4>7. QED
        BY <3>1, <3>2, <4>1, <4>3, <4>4, <4>5, <4>6
    <3>5. QED
      BY <3>3, <3>4
  <2>5. CASE tree.kind[n] = "selector"
    <3>1. UpdateAt(f, n, i, m, result) = TryOthers(f, n, i, m)
      BY <2>1, <2>5 DEF UpdateAt
    <3>2. UpdateAt(g, n, i, m, result) = TryOthers(g, n, i, m)
      BY <2>1, <2>5 DEF UpdateAt
    <3>3. CASE i > Len(Kids(n))
      <4>1. /\ TryOthers(f, n, i, m) = [status |-> "failure", m |-> m]
            /\ TryOthers(g, n, i, m) = [status |-> "failure", m |-> m]
        BY <3>3 DEF TryOthers
      <4>2. QED
        BY <2>3, <3>1, <3>2, <4>1 DEF TaskStatuses
    <3>4. CASE ~(i > Len(Kids(n))) /\ c = m.last[n]
      <4>1. f[p][m] = g[p][m] /\ g[p][m] \in Results
        BY <1>1, <2>2, <3>4
      <4>2. TryOthers(f, n, i, m) = f[p][m]
        BY <3>4 DEF TryOthers
      <4>3. TryOthers(g, n, i, m) = g[p][m]
        BY <3>4 DEF TryOthers
      <4>4. QED
        BY <3>1, <3>2, <4>1, <4>2, <4>3
    <3>5. CASE ~(i > Len(Kids(n))) /\ c # m.last[n]
      <4> DEFINE w == InstallCurrent(n, c, m)
                 r == g[q][w]
      <4>1. w \in Tasks
        BY <2>2, <3>5, InstallCurrentType
      <4>2. r \in Results /\ r.m \in Tasks /\ f[q][w] = r
        BY <1>1, <2>2, <3>5, <4>1
      <4>3. g[p][r.m] \in Results /\ f[p] = g[p]
        BY <1>1, <2>2, <3>5, <4>2
      <4>4. [r EXCEPT !.m.last[n] = c] \in Results
        <5>1. c \in ToSet(Kids(n)) \cup {NoNode}
          BY <2>2, <3>5
        <5> HIDE DEF r, c
        <5> DEFINE v == [r.m EXCEPT !.last[n] = c]
        <5>2. v \in Tasks
          BY <4>2, <5>1, SetTaskLast
        <5>3. [r EXCEPT !.m.last[n] = c] = [status |-> r.status, m |-> v]
          BY <4>2 DEF Results
        <5>4. r.status \in TaskStatuses
          BY <4>2, ResultFacts
        <5> HIDE DEF v
        <5>5. [status |-> r.status, m |-> v] \in Results
          BY <5>2, <5>4, ResultFacts
        <5>6. QED
          BY <5>3, <5>5
      <4>5. /\ f[q][w].status = "failure" => TryOthers(f, n, i, m) = f[p][f[q][w].m]
            /\ f[q][w].status # "failure" =>
                 TryOthers(f, n, i, m) = [f[q][w] EXCEPT !.m.last[n] = c]
        <5>1. CASE f[q][w].status = "failure"
          BY <3>5, <5>1 DEF TryOthers
        <5>2. CASE f[q][w].status # "failure"
          BY <3>5, <5>2, ZenonT(40) DEF TryOthers
        <5>3. QED
          BY <5>1, <5>2, ZenonT(40)
      <4>6. /\ g[q][w].status = "failure" => TryOthers(g, n, i, m) = g[p][g[q][w].m]
            /\ g[q][w].status # "failure" =>
                 TryOthers(g, n, i, m) = [g[q][w] EXCEPT !.m.last[n] = c]
        <5>1. CASE g[q][w].status = "failure"
          BY <3>5, <5>1 DEF TryOthers
        <5>2. CASE g[q][w].status # "failure"
          BY <3>5, <5>2, ZenonT(40) DEF TryOthers
        <5>3. QED
          BY <5>1, <5>2, ZenonT(40)
      <4> HIDE DEF p, q, w, c
      <4>7. QED
        BY <3>1, <3>2, <4>2, <4>3, <4>4, <4>5, <4>6
    <3>6. QED
      BY <3>3, <3>4, <3>5
  <2>6. CASE tree.kind[n] # "sequence" /\ tree.kind[n] # "selector"
    <3>1. UpdateAt(f, n, i, m, result) = RunAll(f, n, i, m)
      BY <2>1, <2>6 DEF UpdateAt
    <3>2. UpdateAt(g, n, i, m, result) = RunAll(g, n, i, m)
      BY <2>1, <2>6 DEF UpdateAt
    <3>3. CASE i > Len(Kids(n))
      BY <2>3, <3>1, <3>2, <3>3, RunAllFacts DEF TaskStatuses
    <3>4. CASE ~(i > Len(Kids(n)))
      <4>1. g[q][m] \in Results /\ g[q][m].m \in Tasks /\ f[q][m] = g[q][m]
        BY <1>1, <2>2, <3>4
      <4>2. g[p][g[q][m].m] \in Results /\ f[p] = g[p]
        BY <1>1, <2>2, <3>4, <4>1
      <4>3. /\ f[q][m].status = "executing" => RunAll(f, n, i, m) = f[p][f[q][m].m]
            /\ f[q][m].status # "executing" => RunAll(f, n, i, m) = f[q][m]
        BY <3>4, RunAllFacts
      <4>4. /\ g[q][m].status = "executing" => RunAll(g, n, i, m) = g[p][g[q][m].m]
            /\ g[q][m].status # "executing" => RunAll(g, n, i, m) = g[q][m]
        BY <3>4, RunAllFacts
      <4> HIDE DEF p, q
      <4>5. QED
        BY <3>1, <3>2, <4>1, <4>2, <4>3, <4>4
    <3>5. QED
      BY <3>3, <3>4
  <2>7. QED
    BY <2>4, <2>5, <2>6
<1>5. QED
  BY <1>3, <1>4

\* The tasks of a tree nothing has been done with.
LEMMA FirstTasks ==
  ASSUME IsTree(tree)
  PROVE  [exist     |-> {tree.root},
          executing |-> {},
          current   |-> [n \in Nodes |-> NoNode],
          last      |-> [n \in Nodes |-> NoNode],
          begun     |-> {},
          dropped   |-> {}] \in Tasks
<1>1. [n \in Nodes |-> NoNode] \in ChildOf
  BY DEF ChildOf
<1>2. tree.root \in Nodes
  BY TreeFacts
<1>3. QED
  BY <1>1, <1>2 DEF Tasks

LEMMA UpdateDef ==
  ASSUME IsTree(tree), \A n \in Nodes : tree.kind[n] \in TaskKinds,
         NEW result \in [Terminals -> TaskStatuses]
  PROVE  /\ Update(result) \in [Places -> [Tasks -> Results]]
         /\ \A n \in Nodes : \A i \in Nat : \A m \in Tasks :
              Update(result)[Place(n, i)][m] = UpdateAt(Update(result), n, i, m, result)
<1> DEFINE X == [Tasks -> Results]
           F == [Places -> X]
           Body(f) == [p \in Places |-> [m \in Tasks |-> UpdateAt(f, p[1], p[2], m, result)]]
           G == [f \in F |-> Body(f)]
           e == Update(result)
<1>1. \A n \in Nodes : \A i \in Nat :
        Place(n, i) \in Places /\ Place(n, i)[1] = n /\ Place(n, i)[2] = i
  BY DEF Place, Places
<1>2. \A f : \A n \in Nodes : \A i \in Nat :
        Body(f)[Place(n, i)] = [m \in Tasks |-> UpdateAt(f, n, i, m, result)]
  BY <1>1
<1>3. \A f \in F : \A n \in Nodes : \A i \in Nat : \A m \in Tasks :
        UpdateAt(f, n, i, m, result) \in Results
  BY UpdateLocal
<1>4. \A p \in Places : p[1] \in Nodes /\ p[2] \in Nat
  BY DEF Places
<1>5. X # {}
  <2>1. Tasks # {}
    BY FirstTasks
  <2>2. \A m \in Tasks : [status |-> "finish", m |-> m] \in Results
    BY DEF Results, TaskStatuses
  <2>3. PICK a \in Results : TRUE
    BY <2>1, <2>2
  <2>4. [m \in Tasks |-> a] \in X
    OBVIOUS
  <2>5. QED
    BY <2>4
<1>6. G \in [F -> F]
  <2>1. \A f \in F : Body(f) \in F
    BY <1>3, <1>4
  <2>2. QED
    BY <2>1
<1>7. \A f, g \in F : \A n \in Nodes : \A i \in Nat :
        (\A q \in Onward(n, i) : f[q] = g[q]) => G[f][Place(n, i)] = G[g][Place(n, i)]
  <2> SUFFICES ASSUME NEW f \in F, NEW g \in F, NEW n \in Nodes, NEW i \in Nat,
                      \A q \in Onward(n, i) : f[q] = g[q]
               PROVE  G[f][Place(n, i)] = G[g][Place(n, i)]
    OBVIOUS
  <2>1. \A m \in Tasks : UpdateAt(f, n, i, m, result) = UpdateAt(g, n, i, m, result)
    BY UpdateLocal
  <2>2. [m \in Tasks |-> UpdateAt(f, n, i, m, result)] =
        [m \in Tasks |-> UpdateAt(g, n, i, m, result)]
    BY <2>1
  <2> HIDE DEF Body
  <2>3. Body(f)[Place(n, i)] = [m \in Tasks |-> UpdateAt(f, n, i, m, result)]
    BY <1>2
  <2>4. Body(g)[Place(n, i)] = [m \in Tasks |-> UpdateAt(g, n, i, m, result)]
    BY <1>2
  <2>5. Body(f)[Place(n, i)] = Body(g)[Place(n, i)]
    BY <2>2, <2>3, <2>4, Zenon
  <2>6. QED
    BY <2>5
<1>8. \E f \in F : G[f] = f
  <2> HIDE DEF G
  <2>1. Visits(X, G)
    BY <1>5, <1>6, <1>7, Zenon DEF Visits
  <2>2. QED
    BY <2>1, VisitExists
<1>9. PICK g \in F : g = Body(g)
  BY <1>8
<1>10. e = Body(e)
  <2>1. \E f : f = Body(f)
    BY <1>9
  <2>2. QED
    BY <2>1, Zenon DEF Update
<1> DEFINE S == {p \in Places : e[p] = g[p]}
<1>11. ASSUME NEW n \in Nodes, NEW i \in Nat, \A q \in Onward(n, i) : q \in S
       PROVE  Place(n, i) \in S
  <2>1. \A q \in Onward(n, i) : e[q] = g[q]
    BY <1>11
  <2> HIDE DEF e
  <2>2. \A m \in Tasks : UpdateAt(e, n, i, m, result) = UpdateAt(g, n, i, m, result)
    BY <2>1, UpdateLocal
  <2>3. [m \in Tasks |-> UpdateAt(e, n, i, m, result)] =
        [m \in Tasks |-> UpdateAt(g, n, i, m, result)]
    BY <2>2
  <2> HIDE DEF Body
  <2>4. Body(e)[Place(n, i)] = [m \in Tasks |-> UpdateAt(e, n, i, m, result)]
    BY <1>2
  <2>5. Body(g)[Place(n, i)] = [m \in Tasks |-> UpdateAt(g, n, i, m, result)]
    BY <1>2
  <2>6. Body(e)[Place(n, i)] = Body(g)[Place(n, i)]
    BY <2>3, <2>4, <2>5, Zenon
  <2>7. e[Place(n, i)] = g[Place(n, i)]
    BY <1>9, <1>10, <2>6, Zenon
  <2>8. QED
    BY <1>1, <2>7
<1>12. Places \subseteq S
  <2> HIDE DEF S
  <2>1. QED
    BY <1>11, PlaceInduction
<1>13. e = g
  <2>1. \A p \in Places : e[p] = g[p]
    BY <1>12
  <2>2. e = [p \in Places |-> e[p]]
    <3>1. \E f : e = [p \in Places |-> f[p]]
      <4>1. Body(e) = [p \in Places |-> Body(e)[p]]
        OBVIOUS
      <4> HIDE DEF Body, e
      <4>2. QED
        BY <1>10, <4>1, Zenon
    <3> HIDE DEF e
    <3>2. QED
      BY <3>1
  <2> HIDE DEF e
  <2>3. QED
    BY <2>1, <2>2
<1>14. \A n \in Nodes : \A i \in Nat : \A m \in Tasks :
         e[Place(n, i)][m] = UpdateAt(e, n, i, m, result)
  <2> HIDE DEF e
  <2>1. ASSUME NEW n \in Nodes, NEW i \in Nat, NEW m \in Tasks
        PROVE  e[Place(n, i)][m] = UpdateAt(e, n, i, m, result)
    <3> HIDE DEF Body
    <3>1. e[Place(n, i)] = Body(e)[Place(n, i)]
      BY <1>10, Zenon
    <3>2. Body(e)[Place(n, i)] = [w \in Tasks |-> UpdateAt(e, n, i, w, result)]
      BY <1>2
    <3>3. QED
      BY <3>1, <3>2, Zenon
  <2>2. QED
    BY <2>1, Zenon
<1>15. QED
  BY <1>13, <1>14, Zenon

-----------------------------------------------------------------------------
(* What holds of the tasks between two frames, node by node. *)

Choosers == {"sequence", "selector"}

Sound(x, m) ==
  /\ \A c \in ToSet(Kids(x)) : c \in m.exist => x \in m.exist
  /\ x \in m.executing => x \in m.exist
  /\ tree.kind[x] = "terminal" => (x \in m.begun <=> x \in m.executing)
  /\ tree.kind[x] \in Choosers =>
       /\ x \in m.executing <=> m.current[x] # NoNode
       /\ \A c \in ToSet(Kids(x)) : c \in m.exist <=> m.current[x] = c
       /\ \A c \in ToSet(Kids(x)) : c \in m.executing <=> m.current[x] = c
       /\ tree.kind[x] = "selector" => m.last[x] = m.current[x]
  /\ tree.kind[x] = "parallel" /\ x \in m.executing => ToSet(Kids(x)) \subseteq m.exist

SoundIn(c, m) == \A x \in Below(c) : Sound(x, m)
KidsSound(n, m) == \A c \in ToSet(Kids(n)) : SoundIn(c, m)

\* Two states of the tasks say the same of a node; they differ only in the branch of n.
Same(x, m, w) ==
  /\ x \in w.exist <=> x \in m.exist
  /\ x \in w.executing <=> x \in m.executing
  /\ x \in w.begun <=> x \in m.begun
  /\ w.current[x] = m.current[x] /\ w.last[x] = m.last[x]
Within(n, m, w) == \A x \in Nodes \ Below(n) : Same(x, m, w)

\* Nothing has been done with a node since it was installed.
Blank(x, m) ==
  /\ x \notin m.executing /\ x \notin m.begun
  /\ tree.kind[x] \in Choosers => m.current[x] = NoNode
  /\ tree.kind[x] = "selector" => m.last[x] = NoNode
  /\ \A c \in ToSet(Kids(x)) : c \notin m.exist /\ c \notin m.executing

\* What is below what is below a node is below the node.
LEMMA BelowTrans ==
  ASSUME IsTree(tree), NEW c \in Nodes, NEW x \in Below(c)
  PROVE  x \in Nodes /\ Below(x) \subseteq Below(c) /\ ToSet(Kids(x)) \subseteq Below(c)
<1> DEFINE S == {n \in Nodes : x \in Below(n) => Below(x) \subseteq Below(n)}
<1>1. ASSUME NEW n \in Nodes, \A d \in Nodes : Height[d] < Height[n] => d \in S
      PROVE  n \in S
  <2> SUFFICES ASSUME x \in Below(n) PROVE Below(x) \subseteq Below(n)
    OBVIOUS
  <2>1. CASE x = n
    BY <2>1
  <2>2. CASE x # n
    <3>1. PICK d \in ToSet(Kids(n)) : x \in Below(d)
      BY <2>2, BelowDef
    <3>2. d \in Nodes /\ Height[d] < Height[n] /\ Below(d) \subseteq Below(n)
      BY BelowKid, HeightFacts
    <3>3. QED
      BY <1>1, <3>1, <3>2
  <2>3. QED
    BY <2>1, <2>2
<1> HIDE DEF S
<1>2. Nodes \subseteq S
  <2>1. Height \in [Nodes -> Nat]
    BY HeightFacts
  <2>2. QED
    BY <1>1, <2>1, RankInduction
<1>3. x \in Nodes
  BY BelowDef
<1>4. Below(x) \subseteq Below(c)
  BY <1>2 DEF S
<1>5. ToSet(Kids(x)) \subseteq Below(x)
  BY <1>3, BelowKid
<1>6. QED
  BY <1>3, <1>4, <1>5

LEMMA SoundSame ==
  ASSUME NEW m, NEW w, NEW x, Sound(x, m), Same(x, m, w),
         \A c \in ToSet(Kids(x)) : Same(c, m, w)
  PROVE  Sound(x, w)
BY DEF Sound, Same

LEMMA BranchKept ==
  ASSUME IsTree(tree), NEW c \in Nodes, NEW m, NEW w, SoundIn(c, m),
         \A x \in Below(c) : Same(x, m, w)
  PROVE  SoundIn(c, w)
<1> SUFFICES ASSUME NEW x \in Below(c) PROVE Sound(x, w)
  BY DEF SoundIn
<1>1. Sound(x, m) /\ x \in Nodes
  BY BelowDef DEF SoundIn
<1>2. \A d \in ToSet(Kids(x)) : d \in Below(c)
  BY <1>1, BelowTrans
<1>3. QED
  BY <1>1, <1>2, SoundSame

LEMMA BlankSound ==
  ASSUME IsTree(tree), NEW x \in Nodes, NEW m, Blank(x, m)
  PROVE  Sound(x, m)
<1>1. NoNode \notin ToSet(Kids(x))
  BY KidsSet, TreeFacts
<1>2. QED
  BY <1>1 DEF Blank, Sound, Choosers

\* Below a node that has no task there is none, and nothing has been done.
LEMMA NoneExist ==
  ASSUME IsTree(tree), NEW m \in Tasks
  PROVE  \A c \in Nodes : SoundIn(c, m) /\ c \notin m.exist =>
           \A x \in Below(c) : x \notin m.exist /\ Blank(x, m)
<1> DEFINE P(c) == SoundIn(c, m) /\ c \notin m.exist =>
                     \A x \in Below(c) : x \notin m.exist /\ Blank(x, m)
           S == {c \in Nodes : P(c)}
<1>1. ASSUME NEW c \in Nodes, \A d \in Nodes : Height[d] < Height[c] => d \in S
      PROVE  c \in S
  <2> SUFFICES ASSUME SoundIn(c, m), c \notin m.exist, NEW x \in Below(c)
               PROVE  x \notin m.exist /\ Blank(x, m)
    OBVIOUS
  <2>1. \A d \in ToSet(Kids(c)) :
          /\ d \in Nodes /\ Height[d] < Height[c] /\ d \in Below(d)
          /\ Below(d) \subseteq Below(c)
    BY BelowKid, HeightFacts
  <2>2. Sound(c, m)
    BY BelowDef DEF SoundIn
  <2>3. ASSUME NEW d \in ToSet(Kids(c))
        PROVE  SoundIn(d, m) /\ d \notin m.exist /\ d \notin m.executing
    <3>1. SoundIn(d, m)
      BY <2>1 DEF SoundIn
    <3>2. d \notin m.exist
      BY <2>2 DEF Sound
    <3>3. Sound(d, m)
      BY <2>1, <3>1 DEF SoundIn
    <3>4. QED
      BY <3>1, <3>2, <3>3 DEF Sound
  <2>4. CASE x = c
    <3>1. c \notin m.executing /\ (tree.kind[c] = "terminal" => c \notin m.begun)
      BY <2>2 DEF Sound
    <3>2. c \notin m.begun
      BY <3>1, TaskFacts DEF Terminals
    <3>3. /\ tree.kind[c] \in Choosers => m.current[c] = NoNode
          /\ tree.kind[c] = "selector" => m.last[c] = NoNode
      BY <2>2, <3>1 DEF Sound, Choosers
    <3>4. QED
      BY <2>3, <2>4, <3>1, <3>2, <3>3 DEF Blank
  <2>5. CASE x # c
    <3>1. PICK d \in ToSet(Kids(c)) : x \in Below(d)
      BY <2>5, BelowDef
    <3>2. d \in S
      BY <1>1, <2>1
    <3>3. QED
      BY <2>3, <3>1, <3>2
  <2>6. QED
    BY <2>4, <2>5
<1> HIDE DEF S
<1>2. Nodes \subseteq S
  <2>1. Height \in [Nodes -> Nat]
    BY HeightFacts
  <2>2. QED
    BY <1>1, <2>1, RankInduction
<1>3. QED
  BY <1>2 DEF S

\* Below a node that does not execute, only what a parallel holds may have begun.
LEMMA Quiet ==
  ASSUME IsTree(tree), \A n \in Nodes : tree.kind[n] \in TaskKinds, NEW m \in Tasks
  PROVE  \A c \in Nodes : SoundIn(c, m) /\ c \notin m.executing =>
           m.begun \cap Below(c) \subseteq UnderParallel
<1> DEFINE P(c) == SoundIn(c, m) /\ c \notin m.executing =>
                     m.begun \cap Below(c) \subseteq UnderParallel
           S == {c \in Nodes : P(c)}
<1>1. ASSUME NEW c \in Nodes, \A d \in Nodes : Height[d] < Height[c] => d \in S
      PROVE  c \in S
  <2> SUFFICES ASSUME SoundIn(c, m), c \notin m.executing, NEW x \in m.begun \cap Below(c)
               PROVE  x \in UnderParallel
    OBVIOUS
  <2>1. \A d \in ToSet(Kids(c)) :
          /\ d \in Nodes /\ Height[d] < Height[c] /\ d \in Below(d)
          /\ Below(d) \subseteq Below(c)
    BY BelowKid, HeightFacts
  <2>2. Sound(c, m)
    BY BelowDef DEF SoundIn
  <2>3. CASE tree.kind[c] = "parallel"
    BY <2>3 DEF UnderParallel
  <2>4. CASE tree.kind[c] = "terminal"
    <3>1. x = c
      BY <2>4, BelowDef, KidsSet
    <3>2. QED
      BY <2>2, <2>4, <3>1 DEF Sound
  <2>5. CASE tree.kind[c] \in Choosers
    <3>1. m.current[c] = NoNode
      BY <2>2, <2>5 DEF Sound
    <3>2. \A d \in ToSet(Kids(c)) : d \notin m.executing
      BY <2>1, <2>2, <2>5, <3>1, TreeFacts DEF Sound
    <3>3. x # c
      BY <2>5, TaskFacts DEF Choosers, Terminals
    <3>4. PICK d \in ToSet(Kids(c)) : x \in Below(d)
      BY <3>3, BelowDef
    <3>5. d \in S /\ SoundIn(d, m)
      BY <1>1, <2>1 DEF SoundIn
    <3>6. QED
      BY <3>2, <3>4, <3>5
  <2>6. QED
    BY <2>3, <2>4, <2>5 DEF TaskKinds, Choosers
<1> HIDE DEF S
<1>2. Nodes \subseteq S
  <2>1. Height \in [Nodes -> Nat]
    BY HeightFacts
  <2>2. QED
    BY <1>1, <2>1, RankInduction
<1>3. QED
  BY <1>2 DEF S

-----------------------------------------------------------------------------
(* What is installed and uninstalled. *)

LEMMA UninstallBranch ==
  ASSUME IsTree(tree), NEW n \in Nodes, NEW S, S \subseteq ToSet(Kids(n)) \cup {NoNode},
         NEW m \in Tasks, KidsSound(n, m)
  PROVE  LET w == Uninstall(S, m)
             K == S \cap ToSet(Kids(n))
         IN /\ w \in Tasks /\ KidsSound(n, w)
            /\ \A c \in K : \A x \in Below(c) : x \notin w.exist /\ Blank(x, w)
            /\ \A x \in Nodes : (\A c \in K : x \notin Below(c)) => Same(x, m, w)
            /\ w.dropped \subseteq m.dropped \cup (m.begun \cap UNION {Below(c) : c \in K})
<1> DEFINE w == Uninstall(S, m)
           K == S \cap ToSet(Kids(n))
           G == Gone(S, m)
<1>1. /\ w \in Tasks /\ w.exist = m.exist \ G /\ w.executing = m.executing \ G
      /\ w.begun = m.begun \ G /\ w.dropped = m.dropped \cup (m.begun \cap G)
      /\ \A x \in Nodes : /\ x \in G => w.current[x] = NoNode /\ w.last[x] = NoNode
                          /\ x \notin G => w.current[x] = m.current[x] /\ w.last[x] = m.last[x]
  BY UninstallFacts
<1> HIDE DEF w
<1>2. K = S \ {NoNode} /\ K \subseteq Nodes /\ NoNode \notin m.exist
  <2>1. NoNode \notin Nodes /\ ToSet(Kids(n)) \subseteq Nodes /\ m.exist \subseteq Nodes
    BY KidsSet, TreeFacts, TaskFacts
  <2>2. QED
    BY <2>1
<1>3. G = UNION {Below(c) : c \in K \cap m.exist}
  <2>1. S \cap m.exist = K \cap m.exist
    BY <1>2
  <2>2. QED
    BY <2>1, Zenon DEF Gone
<1> HIDE DEF G
<1>4. ASSUME NEW c \in K, NEW x \in Below(c) PROVE x \notin w.exist /\ Blank(x, w)
  <2>1. c \in Nodes /\ x \in Nodes /\ ToSet(Kids(x)) \subseteq Below(c)
    BY <1>2, BelowTrans
  <2>2. CASE c \in m.exist
    <3>1. Below(c) \subseteq G
      BY <1>3, <2>2
    <3>2. x \in G /\ ToSet(Kids(x)) \subseteq G
      BY <2>1, <3>1
    <3>3. QED
      BY <1>1, <2>1, <3>2 DEF Blank
  <2>3. CASE c \notin m.exist
    <3>1. SoundIn(c, m)
      BY DEF KidsSound
    <3>2. x \notin m.exist /\ Blank(x, m)
      BY <2>1, <2>3, <3>1, NoneExist
    <3>3. QED
      BY <1>1, <2>1, <3>2 DEF Blank
  <2>4. QED
    BY <2>2, <2>3
<1>5. ASSUME NEW x \in Nodes, \A c \in K : x \notin Below(c) PROVE Same(x, m, w)
  <2>1. x \notin G
    BY <1>3, <1>5
  <2>2. QED
    BY <1>1, <2>1 DEF Same
<1>6. ASSUME NEW c \in ToSet(Kids(n)) PROVE SoundIn(c, w)
  <2>1. c \in Nodes /\ SoundIn(c, m)
    BY KidsSet DEF KidsSound
  <2>2. CASE c \in K
    <3>1. \A x \in Below(c) : x \in Nodes /\ Blank(x, w)
      BY <1>4, <2>1, <2>2, BelowTrans
    <3>2. QED
      BY <3>1, BlankSound DEF SoundIn
  <2>3. CASE c \notin K
    <3>1. \A x \in Below(c) : x \in Nodes /\ \A d \in K : x \notin Below(d)
      BY <2>1, <2>3, BranchesApart, BelowTrans
    <3>2. \A x \in Below(c) : Same(x, m, w)
      BY <1>5, <3>1
    <3>3. QED
      BY <2>1, <3>2, BranchKept
  <2>4. QED
    BY <2>2, <2>3
<1>7. w.dropped \subseteq m.dropped \cup (m.begun \cap UNION {Below(c) : c \in K})
  <2>1. G \subseteq UNION {Below(c) : c \in K}
    BY <1>3
  <2>2. QED
    BY <1>1, <2>1
<1>8. QED
  BY <1>1, <1>4, <1>5, <1>6, <1>7 DEF w, KidsSound

LEMMA InstallBranch ==
  ASSUME IsTree(tree), NEW n \in Nodes, NEW S, S \subseteq ToSet(Kids(n)),
         NEW m \in Tasks, KidsSound(n, m)
  PROVE  LET w == Install(S, m)
         IN /\ w \in Tasks /\ KidsSound(n, w)
            /\ \A c \in S : c \in w.exist /\ c \notin w.executing
            /\ \A x \in Nodes : (\A c \in S : x \notin Below(c)) => Same(x, m, w)
            /\ w.dropped \subseteq m.dropped \cup (m.begun \cap UNION {Below(c) : c \in S})
<1> DEFINE w == Install(S, m)
           v == Uninstall(S, m)
<1>1. S \subseteq Nodes /\ S \cap ToSet(Kids(n)) = S /\ S \subseteq ToSet(Kids(n)) \cup {NoNode}
  BY KidsSet
<1>2. /\ w \in Tasks /\ w.exist = v.exist \cup S /\ w.executing = v.executing
      /\ w.current = v.current /\ w.last = v.last /\ w.begun = v.begun
      /\ w.dropped = v.dropped
  BY <1>1, InstallFacts
<1>3. /\ KidsSound(n, v)
      /\ \A c \in S : \A x \in Below(c) : x \notin v.exist /\ Blank(x, v)
      /\ \A x \in Nodes : (\A c \in S : x \notin Below(c)) => Same(x, m, v)
      /\ v.dropped \subseteq m.dropped \cup (m.begun \cap UNION {Below(c) : c \in S})
  BY <1>1, UninstallBranch
<1> HIDE DEF w, v
<1>4. \A c \in S : c \in Nodes /\ c \in Below(c)
  BY <1>1, BelowDef
<1>5. ASSUME NEW c \in S PROVE c \in w.exist /\ c \notin w.executing
  BY <1>2, <1>3, <1>4 DEF Blank
<1>6. ASSUME NEW x \in Nodes, x \notin S PROVE Same(x, v, w)
  BY <1>2, <1>6 DEF Same
<1>7. ASSUME NEW x \in Nodes, \A c \in S : x \notin Below(c) PROVE Same(x, m, w)
  <2>1. x \notin S
    BY <1>4, <1>7
  <2>2. Same(x, m, v) /\ Same(x, v, w)
    BY <1>3, <1>6, <1>7, <2>1
  <2>3. QED
    BY <2>2 DEF Same
<1>8. ASSUME NEW c \in ToSet(Kids(n)) PROVE SoundIn(c, w)
  <2>1. c \in Nodes /\ SoundIn(c, v)
    BY <1>3, KidsSet DEF KidsSound
  <2>2. CASE c \in S
    <3>1. ASSUME NEW x \in Below(c) PROVE Sound(x, w)
      <4>1. x \in Nodes /\ ToSet(Kids(x)) \subseteq Below(c) /\ Blank(x, v)
        BY <1>3, <2>1, <2>2, BelowTrans
      <4>2. \A d \in ToSet(Kids(x)) : d \notin S
        <5> SUFFICES ASSUME NEW d \in ToSet(Kids(x)), d \in S PROVE FALSE
          OBVIOUS
        <5>1. x = n
          BY <4>1, OneParent
        <5>2. QED
          BY <5>1, BelowKid
      <4>3. Blank(x, w)
        BY <1>2, <4>1, <4>2 DEF Blank
      <4>4. QED
        BY <4>1, <4>3, BlankSound
    <3>2. QED
      BY <3>1 DEF SoundIn
  <2>3. CASE c \notin S
    <3>1. ASSUME NEW x \in Below(c) PROVE x \in Nodes /\ x \notin S
      <4>1. x \in Nodes
        BY <2>1, BelowTrans
      <4>2. \A d \in S : Below(d) \cap Below(c) = {}
        BY <2>3, BranchesApart
      <4>3. QED
        BY <1>4, <4>1, <4>2
    <3>2. \A x \in Below(c) : Same(x, v, w)
      BY <1>6, <3>1
    <3>3. QED
      BY <2>1, <3>2, BranchKept
  <2>4. QED
    BY <2>2, <2>3
<1>9. QED
  BY <1>2, <1>3, <1>5, <1>7, <1>8 DEF w, KidsSound

\* The node has a task and all is well below it.
Holds(n, m) == n \in m.exist /\ KidsSound(n, m) /\ m.dropped \subseteq UnderParallel

\* The current child of a sequence or selector is the one that has a task.
Single(n, m) ==
  /\ m.current[n] \in ToSet(Kids(n))
  /\ \A c \in ToSet(Kids(n)) : c \in m.exist <=> c = m.current[n]

\* None of the children executes: there is none, or it has ended.
Idle(n, m) ==
  \/ m.current[n] = NoNode /\ \A c \in ToSet(Kids(n)) : c \notin m.exist
  \/ Single(n, m) /\ m.current[n] \notin m.executing

\* The node itself is as it was, but for its current child.
SameSelf(n, m, w) ==
  /\ n \in w.executing <=> n \in m.executing
  /\ w.last[n] = m.last[n]

LEMMA WithinTrans ==
  ASSUME NEW n, NEW a, NEW b, NEW c, Within(n, a, b), Within(n, b, c)
  PROVE  Within(n, a, c)
BY DEF Within, Same

\* What changes nothing but in a branch below a node, or the node, is within the node.
LEMMA WithinBranches ==
  ASSUME IsTree(tree), NEW n \in Nodes, NEW m, NEW w, NEW S, S \subseteq ToSet(Kids(n)),
         \A x \in Nodes : (\A c \in S : x \notin Below(c)) => Same(x, m, w)
  PROVE  /\ Within(n, m, w) /\ Same(n, m, w)
         /\ \A c \in ToSet(Kids(n)) \ S : Same(c, m, w)
<1>1. \A c \in ToSet(Kids(n)) : Below(c) \subseteq Below(n) /\ n \notin Below(c)
  BY BelowKid
<1>2. \A x \in Nodes \ Below(n) : \A c \in S : x \notin Below(c)
  BY <1>1
<1>3. ASSUME NEW c \in ToSet(Kids(n)) \ S PROVE Same(c, m, w)
  <2>1. c \in Nodes /\ c \in Below(c)
    BY BelowKid
  <2>2. \A d \in S : c \notin Below(d)
    BY <2>1, BranchesApart
  <2>3. QED
    BY <2>1, <2>2
<1>4. QED
  BY <1>1, <1>2, <1>3 DEF Within

\* Only the current child of the node changes.
LEMMA CurrentOnly ==
  ASSUME IsTree(tree), NEW n \in Nodes, NEW v, NEW w,
         v.exist = w.exist, v.executing = w.executing, v.last = w.last, v.begun = w.begun,
         v.dropped = w.dropped, \A x \in Nodes \ {n} : w.current[x] = v.current[x],
         Holds(n, v)
  PROVE  Holds(n, w) /\ Within(n, v, w) /\ SameSelf(n, v, w)
<1>1. \A x \in Nodes \ {n} : Same(x, v, w)
  BY DEF Same
<1>2. ASSUME NEW c \in ToSet(Kids(n)) PROVE SoundIn(c, w)
  <2>1. c \in Nodes /\ n \notin Below(c) /\ Below(c) \subseteq Nodes
    BY BelowKid, BelowDef
  <2>2. SoundIn(c, v)
    BY DEF Holds, KidsSound
  <2>3. \A x \in Below(c) : Same(x, v, w)
    BY <1>1, <2>1
  <2>4. QED
    BY <2>1, <2>2, <2>3, BranchKept
<1>3. n \in Below(n)
  BY BelowDef
<1>4. QED
  BY <1>1, <1>2, <1>3 DEF Holds, KidsSound, Within, SameSelf

LEMMA UninstallIdle ==
  ASSUME IsTree(tree), \A x \in Nodes : tree.kind[x] \in TaskKinds, NEW n \in Nodes,
         NEW m \in Tasks, Holds(n, m), Idle(n, m)
  PROVE  LET w == UninstallCurrent(n, m)
         IN /\ w \in Tasks /\ Holds(n, w) /\ Within(n, m, w) /\ SameSelf(n, m, w)
            /\ w.current[n] = NoNode /\ \A c \in ToSet(Kids(n)) : c \notin w.exist
<1> DEFINE w == UninstallCurrent(n, m)
           c == m.current[n]
           v == Uninstall({c}, m)
           K == {c} \cap ToSet(Kids(n))
<1>1. /\ v \in Tasks /\ w \in Tasks /\ w.current[n] = NoNode /\ w.exist = v.exist
      /\ w.executing = v.executing /\ w.last = v.last /\ w.begun = v.begun
      /\ w.dropped = v.dropped /\ \A x \in Nodes \ {n} : w.current[x] = v.current[x]
  BY UninstallCurrentFacts
<1>2. {c} \subseteq ToSet(Kids(n)) \cup {NoNode}
  BY TaskFacts
<1>3. n \in m.exist /\ KidsSound(n, m) /\ m.dropped \subseteq UnderParallel
  BY DEF Holds
<1>4. /\ KidsSound(n, v)
      /\ \A d \in K : \A x \in Below(d) : x \notin v.exist /\ Blank(x, v)
      /\ \A x \in Nodes : (\A d \in K : x \notin Below(d)) => Same(x, m, v)
      /\ v.dropped \subseteq m.dropped \cup (m.begun \cap UNION {Below(d) : d \in K})
  BY <1>2, <1>3, UninstallBranch
<1> HIDE DEF w, v
<1>5. K \subseteq ToSet(Kids(n)) /\ \A d \in K : d = c
  OBVIOUS
<1>6. \A d \in K : d \in Nodes /\ d \in Below(d)
  BY KidsSet, BelowDef
<1>7. /\ Within(n, m, v) /\ Same(n, m, v)
      /\ \A d \in ToSet(Kids(n)) \ K : Same(d, m, v)
  <2> HIDE DEF K
  <2>1. QED
    BY <1>4, <1>5, WithinBranches
<1>8. \A d \in ToSet(Kids(n)) : d \notin v.exist
  <2> SUFFICES ASSUME NEW d \in ToSet(Kids(n)) PROVE d \notin v.exist
    OBVIOUS
  <2>1. CASE d = c
    BY <1>4, <1>6, <2>1
  <2>2. CASE d # c
    <3>1. Same(d, m, v)
      BY <1>7, <2>2
    <3>2. d \notin m.exist
      BY <2>2 DEF Idle, Single
    <3>3. QED
      BY <3>1, <3>2 DEF Same
  <2>3. QED
    BY <2>1, <2>2
<1>9. m.begun \cap UNION {Below(d) : d \in K} \subseteq UnderParallel
  <2>1. CASE c \in ToSet(Kids(n))
    <3>1. c \notin m.executing
      <4>1. c # NoNode
        BY <2>1, KidsSet, TreeFacts
      <4>2. QED
        BY <4>1 DEF Idle
    <3>2. SoundIn(c, m) /\ c \in Nodes
      BY <1>3, <2>1, KidsSet DEF KidsSound
    <3>3. m.begun \cap Below(c) \subseteq UnderParallel
      BY <3>1, <3>2, Quiet
    <3>4. K = {c}
      BY <2>1
    <3>5. QED
      BY <3>3, <3>4
  <2>2. CASE c \notin ToSet(Kids(n))
    <3>1. K = {}
      BY <2>2
    <3>2. QED
      BY <3>1
  <2>3. QED
    BY <2>1, <2>2
<1>10. Holds(n, v)
  BY <1>3, <1>4, <1>7, <1>9 DEF Holds, Same
<1>11. Holds(n, w) /\ Within(n, v, w) /\ SameSelf(n, v, w)
  BY <1>1, <1>10, CurrentOnly
<1>12. Within(n, m, w)
  BY <1>7, <1>11, WithinTrans
<1>13. SameSelf(n, m, w)
  BY <1>7, <1>11 DEF Same, SameSelf
<1>14. QED
  BY <1>1, <1>8, <1>11, <1>12, <1>13 DEF w

LEMMA InstallIdle ==
  ASSUME IsTree(tree), \A x \in Nodes : tree.kind[x] \in TaskKinds, NEW n \in Nodes,
         NEW m \in Tasks, Holds(n, m), Idle(n, m), NEW c \in ToSet(Kids(n))
  PROVE  LET w == InstallCurrent(n, c, m)
         IN /\ w \in Tasks /\ Holds(n, w) /\ Within(n, m, w) /\ SameSelf(n, m, w)
            /\ w.current[n] = c /\ Single(n, w) /\ c \notin w.executing
<1> DEFINE w == InstallCurrent(n, c, m)
           u == UninstallCurrent(n, m)
           v == Install({c}, u)
<1>1. /\ u \in Tasks /\ Holds(n, u) /\ Within(n, m, u) /\ SameSelf(n, m, u)
      /\ \A d \in ToSet(Kids(n)) : d \notin u.exist
  BY UninstallIdle
<1> HIDE DEF u
<1>2. KidsSound(n, u) /\ n \in u.exist /\ u.dropped \subseteq UnderParallel
  BY <1>1 DEF Holds
<1>3. {c} \subseteq ToSet(Kids(n))
  OBVIOUS
<1>4. /\ v \in Tasks /\ KidsSound(n, v)
      /\ \A d \in {c} : d \in v.exist /\ d \notin v.executing
      /\ \A x \in Nodes : (\A d \in {c} : x \notin Below(d)) => Same(x, u, v)
      /\ v.dropped \subseteq u.dropped \cup (u.begun \cap UNION {Below(d) : d \in {c}})
  BY <1>1, <1>2, <1>3, InstallBranch
<1> HIDE DEF v
<1>5. /\ Within(n, u, v) /\ Same(n, u, v)
      /\ \A d \in ToSet(Kids(n)) \ {c} : Same(d, u, v)
  BY <1>3, <1>4, WithinBranches
<1>6. u.begun \cap Below(c) = {}
  <2>1. SoundIn(c, u) /\ c \in Nodes
    BY <1>2, KidsSet DEF KidsSound
  <2>2. \A x \in Below(c) : Blank(x, u)
    BY <1>1, <2>1, NoneExist
  <2>3. QED
    BY <2>2 DEF Blank
<1>7. Holds(n, v)
  <2>1. v.dropped \subseteq UnderParallel
    BY <1>2, <1>4, <1>6
  <2>2. QED
    BY <1>2, <1>4, <1>5, <2>1 DEF Holds, Same
<1>8. w = [v EXCEPT !.current[n] = c]
  BY DEF InstallCurrent, v, u
<1> HIDE DEF w
<1>9. /\ w \in Tasks /\ w.current[n] = c /\ w.exist = v.exist /\ w.executing = v.executing
      /\ w.last = v.last /\ w.begun = v.begun /\ w.dropped = v.dropped
      /\ \A x \in Nodes \ {n} : w.current[x] = v.current[x]
  BY <1>4, <1>8, SetTaskCurrent
<1>10. Holds(n, w) /\ Within(n, v, w) /\ SameSelf(n, v, w)
  BY <1>7, <1>9, CurrentOnly
<1>11. Within(n, m, w)
  BY <1>1, <1>5, <1>10, WithinTrans
<1>12. SameSelf(n, m, w)
  BY <1>1, <1>5, <1>10 DEF Same, SameSelf
<1>13. \A d \in ToSet(Kids(n)) : d \in w.exist <=> d = c
  <2> SUFFICES ASSUME NEW d \in ToSet(Kids(n)) PROVE d \in v.exist <=> d = c
    BY <1>9
  <2>1. d # c => d \notin v.exist
    BY <1>1, <1>5 DEF Same
  <2>2. QED
    BY <1>4, <2>1
<1>14. Single(n, w) /\ c \notin w.executing
  BY <1>4, <1>9, <1>13 DEF Single
<1>15. QED
  BY <1>9, <1>10, <1>11, <1>12, <1>14 DEF w

-----------------------------------------------------------------------------
(* Update keeps this, node by node. *)

\* What the update of a behaviour makes of the tasks.
Good(n, m, r) ==
  /\ r \in Results /\ Within(n, m, r.m)
  /\ n \in r.m.exist /\ SoundIn(n, r.m) /\ r.m.dropped \subseteq UnderParallel
  /\ n \in r.m.executing <=> r.status = "executing"

\* What the loops of a composite have before them and what they leave.
LoopReady(n, i, m) ==
  /\ Holds(n, m)
  /\ tree.kind[n] = "sequence" =>
       /\ Single(n, m)
       /\ ~(i > Len(Kids(n))) => m.current[n] = Kids(n)[i]
       /\ i > Len(Kids(n)) => m.current[n] \notin m.executing
  /\ tree.kind[n] = "selector" => Single(n, m) /\ m.current[n] \notin m.executing
  /\ tree.kind[n] = "parallel" => ToSet(Kids(n)) \subseteq m.exist

Ran(n, m, r) ==
  /\ r \in Results /\ Within(n, m, r.m) /\ Holds(n, r.m)
  /\ tree.kind[n] \in Choosers /\ r.status = "executing" =>
       /\ Single(n, r.m) /\ r.m.current[n] \in r.m.executing
       /\ tree.kind[n] = "selector" => r.m.last[n] = r.m.current[n]
  /\ tree.kind[n] \in Choosers /\ r.status # "executing" => Idle(n, r.m)
  /\ tree.kind[n] = "parallel" /\ r.status = "executing" => ToSet(Kids(n)) \subseteq r.m.exist

UpdateGood(U, n) ==
  \A m \in Tasks : n \in m.exist /\ SoundIn(n, m) /\ m.dropped \subseteq UnderParallel =>
    Good(n, m, U[Place(n, 0)][m])
LoopGood(U, n, i) == \A m \in Tasks : LoopReady(n, i, m) => Ran(n, m, U[Place(n, i)][m])

LEMMA RanTrans ==
  ASSUME NEW n, NEW a, NEW b, NEW r, Within(n, a, b), Ran(n, b, r)
  PROVE  Ran(n, a, r)
<1>1. Within(n, a, r.m)
  BY WithinTrans DEF Ran
<1>2. QED
  BY <1>1 DEF Ran

LEMMA WithinSelf ==
  ASSUME NEW n, NEW m
  PROVE  Within(n, m, m)
BY DEF Within, Same

\* Only the node itself changes, and keeps its task.
LEMMA SelfOnly ==
  ASSUME IsTree(tree), NEW n \in Nodes, NEW v, NEW w, \A x \in Nodes \ {n} : Same(x, v, w),
         n \in w.exist <=> n \in v.exist, w.dropped = v.dropped, Holds(n, v)
  PROVE  Holds(n, w) /\ Within(n, v, w)
<1>1. ASSUME NEW c \in ToSet(Kids(n)) PROVE SoundIn(c, w)
  <2>1. c \in Nodes /\ n \notin Below(c) /\ Below(c) \subseteq Nodes
    BY BelowKid, BelowDef
  <2>2. SoundIn(c, v)
    BY DEF Holds, KidsSound
  <2>3. \A x \in Below(c) : Same(x, v, w)
    BY <2>1
  <2>4. QED
    BY <2>1, <2>2, <2>3, BranchKept
<1>2. n \in Below(n)
  BY BelowDef
<1>3. QED
  BY <1>1, <1>2 DEF Holds, KidsSound, Within

\* The update of a child leaves the other children and the node as they were.
LEMMA KidUpdate ==
  ASSUME IsTree(tree), NEW n \in Nodes, NEW m \in Tasks, Holds(n, m),
         NEW c \in ToSet(Kids(n)), NEW r, Good(c, m, r)
  PROVE  /\ r \in Results /\ r.m \in Tasks /\ r.status \in TaskStatuses
         /\ Within(n, m, r.m) /\ Same(n, m, r.m) /\ Holds(n, r.m)
         /\ \A d \in ToSet(Kids(n)) \ {c} : Same(d, m, r.m)
         /\ c \in r.m.exist /\ (c \in r.m.executing <=> r.status = "executing")
<1> DEFINE w == r.m
<1>1. /\ r \in Results /\ Within(c, m, w) /\ c \in w.exist /\ SoundIn(c, w)
      /\ w.dropped \subseteq UnderParallel /\ (c \in w.executing <=> r.status = "executing")
  BY DEF Good
<1> HIDE DEF w
<1>2. \A x \in Nodes : (\A d \in {c} : x \notin Below(d)) => Same(x, m, w)
  BY <1>1 DEF Within
<1>3. {c} \subseteq ToSet(Kids(n))
  OBVIOUS
<1>4. /\ Within(n, m, w) /\ Same(n, m, w)
      /\ \A d \in ToSet(Kids(n)) \ {c} : Same(d, m, w)
  BY <1>2, <1>3, WithinBranches
<1>5. ASSUME NEW d \in ToSet(Kids(n)), d # c PROVE SoundIn(d, w)
  <2>1. d \in Nodes /\ Below(d) \subseteq Nodes /\ Below(d) \cap Below(c) = {}
    BY <1>5, KidsSet, BelowDef, BranchesApart
  <2>2. SoundIn(d, m)
    BY DEF Holds, KidsSound
  <2>3. \A x \in Below(d) : Same(x, m, w)
    BY <1>2, <2>1
  <2>4. QED
    BY <2>1, <2>2, <2>3, BranchKept
<1>6. KidsSound(n, w)
  BY <1>1, <1>5 DEF KidsSound
<1>7. Holds(n, w)
  BY <1>1, <1>4, <1>6 DEF Holds, Same
<1>8. QED
  BY <1>1, <1>4, <1>7, ResultFacts DEF w

\* With a single child, it stays single and current.
LEMMA CurrentUpdate ==
  ASSUME IsTree(tree), NEW n \in Nodes, NEW m \in Tasks, Holds(n, m), Single(n, m), NEW U,
         UpdateGood(U, m.current[n])
  PROVE  LET c == m.current[n]
             r == U[Place(c, 0)][m]
         IN /\ r \in Results /\ r.m \in Tasks /\ r.status \in TaskStatuses
            /\ Within(n, m, r.m) /\ Same(n, m, r.m) /\ Holds(n, r.m) /\ Single(n, r.m)
            /\ r.m.current[n] = c /\ (c \in r.m.executing <=> r.status = "executing")
<1> DEFINE c == m.current[n]
           r == U[Place(c, 0)][m]
<1>1. c \in ToSet(Kids(n)) /\ c \in m.exist
  BY DEF Single
<1>2. SoundIn(c, m) /\ m.dropped \subseteq UnderParallel
  BY <1>1 DEF Holds, KidsSound
<1>3. Good(c, m, r)
  BY <1>1, <1>2 DEF UpdateGood
<1> HIDE DEF r
<1>4. /\ r \in Results /\ r.m \in Tasks /\ r.status \in TaskStatuses
      /\ Within(n, m, r.m) /\ Same(n, m, r.m) /\ Holds(n, r.m)
      /\ \A d \in ToSet(Kids(n)) \ {c} : Same(d, m, r.m)
      /\ c \in r.m.exist /\ (c \in r.m.executing <=> r.status = "executing")
  BY <1>1, <1>3, KidUpdate
<1>5. r.m.current[n] = c
  BY <1>4 DEF Same
<1>6. Single(n, r.m)
  BY <1>1, <1>4, <1>5 DEF Single, Same
<1>7. QED
  BY <1>4, <1>5, <1>6 DEF r

LEMMA RunOnGood ==
  ASSUME IsTree(tree), \A x \in Nodes : tree.kind[x] \in TaskKinds, NEW U, NEW n \in Nodes,
         NEW i \in Nat \ {0}, tree.kind[n] = "sequence",
         \A c \in ToSet(Kids(n)) : UpdateGood(U, c),
         ~(i > Len(Kids(n))) => LoopGood(U, n, i + 1),
         NEW m \in Tasks, LoopReady(n, i, m)
  PROVE  Ran(n, m, RunOn(U, n, i, m))
<1>1. Holds(n, m) /\ Single(n, m)
  BY DEF LoopReady
<1>2. tree.kind[n] \in Choosers /\ tree.kind[n] # "selector" /\ tree.kind[n] # "parallel"
  BY DEF Choosers
<1>3. CASE i > Len(Kids(n))
  <2> DEFINE r == [status |-> "finish", m |-> m]
  <2>1. RunOn(U, n, i, m) = r /\ r \in Results /\ r.m = m /\ r.status = "finish"
    BY <1>3, RunOnFacts, ResultFacts DEF TaskStatuses
  <2> HIDE DEF r
  <2>2. Idle(n, m)
    BY <1>1, <1>3 DEF LoopReady, Idle
  <2>3. QED
    BY <1>1, <1>2, <2>1, <2>2, WithinSelf DEF Ran
<1>4. CASE ~(i > Len(Kids(n)))
  <2> DEFINE c == Kids(n)[i]
             r == U[Place(c, 0)][m]
             len == Len(Kids(n))
  <2>1. i \in 1..len /\ len \in Nat
    BY <1>4, TreeFacts
  <2>2. c \in ToSet(Kids(n)) /\ c = m.current[n]
    BY <1>4, <2>1, KidsSet DEF LoopReady
  <2>3. /\ r \in Results /\ r.m \in Tasks /\ r.status \in TaskStatuses
        /\ Within(n, m, r.m) /\ Same(n, m, r.m) /\ Holds(n, r.m) /\ Single(n, r.m)
        /\ r.m.current[n] = c /\ (c \in r.m.executing <=> r.status = "executing")
    BY <1>1, <2>2, CurrentUpdate
  <2>4. /\ r.status # "finish" => RunOn(U, n, i, m) = r
        /\ r.status = "finish" =>
             RunOn(U, n, i, m) = U[Place(n, i + 1)][AfterKid(n, i, r.m)]
    BY <1>4, RunOnFacts
  <2> HIDE DEF r, c
  <2>5. CASE r.status # "finish"
    <3>1. Ran(n, m, r)
      BY <1>2, <2>3 DEF Ran, Idle
    <3>2. QED
      BY <2>4, <2>5, <3>1
  <2>6. CASE r.status = "finish"
    <3> DEFINE w == AfterKid(n, i, r.m)
    <3>1. c \notin r.m.executing /\ Idle(n, r.m)
      BY <2>3, <2>6 DEF Idle
    <3>2. w \in Tasks /\ LoopReady(n, i + 1, w) /\ Within(n, r.m, w)
      <4>1. CASE i = len
        <5>1. w = r.m
          BY <4>1 DEF AfterKid
        <5>2. i + 1 > len
          BY <2>1, <4>1
        <5> HIDE DEF w
        <5>3. QED
          BY <1>2, <2>3, <3>1, <5>1, <5>2, WithinSelf DEF LoopReady
      <4>2. CASE i # len
        <5> DEFINE d == Kids(n)[i + 1]
        <5>1. i + 1 \in 1..len /\ ~(i + 1 > len)
          BY <2>1, <4>2
        <5>2. d \in ToSet(Kids(n))
          BY <5>1, KidsSet
        <5>3. w = InstallCurrent(n, d, r.m)
          BY <4>2 DEF AfterKid
        <5> HIDE DEF w, d
        <5>4. w \in Tasks /\ Holds(n, w) /\ Within(n, r.m, w) /\ w.current[n] = d /\ Single(n, w)
          BY <2>3, <3>1, <5>2, <5>3, InstallIdle
        <5>5. QED
          BY <1>2, <5>1, <5>4 DEF LoopReady, d
      <4>3. QED
        BY <4>1, <4>2
    <3> HIDE DEF w
    <3>3. Ran(n, w, U[Place(n, i + 1)][w])
      BY <1>4, <3>2 DEF LoopGood
    <3>4. Within(n, m, w)
      BY <2>3, <3>2, WithinTrans
    <3>5. Ran(n, m, U[Place(n, i + 1)][w])
      BY <3>3, <3>4, RanTrans
    <3>6. QED
      BY <2>4, <2>6, <3>5 DEF w
  <2>7. QED
    BY <2>5, <2>6
<1>5. QED
  BY <1>3, <1>4

LEMMA TryOthersGood ==
  ASSUME IsTree(tree), \A x \in Nodes : tree.kind[x] \in TaskKinds, NEW U, NEW n \in Nodes,
         NEW i \in Nat \ {0}, tree.kind[n] = "selector",
         \A c \in ToSet(Kids(n)) : UpdateGood(U, c),
         ~(i > Len(Kids(n))) => LoopGood(U, n, i + 1),
         NEW m \in Tasks, LoopReady(n, i, m)
  PROVE  Ran(n, m, TryOthers(U, n, i, m))
<1>1. Holds(n, m) /\ Single(n, m) /\ m.current[n] \notin m.executing /\ Idle(n, m)
  BY DEF LoopReady, Idle
<1>2. tree.kind[n] \in Choosers /\ tree.kind[n] # "sequence" /\ tree.kind[n] # "parallel"
  BY DEF Choosers
<1>3. CASE i > Len(Kids(n))
  <2> DEFINE r == [status |-> "failure", m |-> m]
  <2>1. TryOthers(U, n, i, m) = r /\ r \in Results /\ r.m = m /\ r.status = "failure"
    BY <1>3, ResultFacts DEF TaskStatuses, TryOthers
  <2> HIDE DEF r
  <2>2. QED
    BY <1>1, <1>2, <2>1, WithinSelf DEF Ran
<1>4. CASE ~(i > Len(Kids(n))) /\ Kids(n)[i] = m.last[n]
  <2>1. TryOthers(U, n, i, m) = U[Place(n, i + 1)][m]
    BY <1>4 DEF TryOthers
  <2>2. LoopReady(n, i + 1, m)
    BY <1>1, <1>2 DEF LoopReady
  <2>3. QED
    BY <1>4, <2>1, <2>2 DEF LoopGood
<1>5. CASE ~(i > Len(Kids(n))) /\ Kids(n)[i] # m.last[n]
  <2> DEFINE c == Kids(n)[i]
             w == InstallCurrent(n, c, m)
             r == U[Place(c, 0)][w]
  <2>1. i \in 1..Len(Kids(n))
    BY <1>5, TreeFacts
  <2>2. c \in ToSet(Kids(n))
    BY <2>1, KidsSet
  <2>3. /\ r.status = "failure" => TryOthers(U, n, i, m) = U[Place(n, i + 1)][r.m]
        /\ r.status # "failure" => TryOthers(U, n, i, m) = [r EXCEPT !.m.last[n] = c]
    <3>1. CASE r.status = "failure"
      BY <1>5, <3>1 DEF TryOthers
    <3>2. CASE r.status # "failure"
      BY <1>5, <3>2, ZenonT(40) DEF TryOthers
    <3>3. QED
      BY <3>1, <3>2, ZenonT(40)
  <2> HIDE DEF c
  <2>4. /\ w \in Tasks /\ Holds(n, w) /\ Within(n, m, w) /\ w.current[n] = c /\ Single(n, w)
    BY <1>1, <2>2, InstallIdle
  <2> HIDE DEF w
  <2>5. /\ r \in Results /\ r.m \in Tasks /\ r.status \in TaskStatuses
        /\ Within(n, w, r.m) /\ Same(n, w, r.m) /\ Holds(n, r.m) /\ Single(n, r.m)
        /\ r.m.current[n] = c /\ (c \in r.m.executing <=> r.status = "executing")
    BY <2>2, <2>4, CurrentUpdate
  <2> HIDE DEF r
  <2>6. Within(n, m, r.m)
    BY <2>4, <2>5, WithinTrans
  <2>7. CASE r.status = "failure"
    <3>1. LoopReady(n, i + 1, r.m)
      BY <1>2, <2>5, <2>7 DEF LoopReady
    <3>2. Ran(n, r.m, U[Place(n, i + 1)][r.m])
      BY <1>5, <2>5, <3>1 DEF LoopGood
    <3>3. QED
      BY <2>3, <2>6, <2>7, <3>2, RanTrans
  <2>8. CASE r.status # "failure"
    <3> DEFINE v == [r.m EXCEPT !.last[n] = c]
               z == [status |-> r.status, m |-> v]
    <3>1. c \in ToSet(Kids(n)) \cup {NoNode}
      BY <2>2
    <3>2. /\ v \in Tasks /\ v.last[n] = c /\ v.exist = r.m.exist
          /\ v.executing = r.m.executing /\ v.current = r.m.current /\ v.begun = r.m.begun
          /\ v.dropped = r.m.dropped /\ \A x \in Nodes \ {n} : v.last[x] = r.m.last[x]
      BY <2>5, <3>1, SetTaskLast
    <3>3. TryOthers(U, n, i, m) = z
      BY <2>3, <2>5, <2>8 DEF Results
    <3> HIDE DEF v
    <3>4. z \in Results /\ z.m = v /\ z.status = r.status
      BY <2>5, <3>2, ResultFacts
    <3> HIDE DEF z
    <3>5. \A x \in Nodes \ {n} : Same(x, r.m, v)
      BY <3>2 DEF Same
    <3>6. Holds(n, v) /\ Within(n, r.m, v)
      BY <2>5, <3>2, <3>5, SelfOnly
    <3>7. Within(n, m, v)
      BY <2>6, <3>6, WithinTrans
    <3>8. Single(n, v) /\ v.current[n] = c
      BY <2>5, <3>2 DEF Single
    <3>9. Ran(n, m, z)
      BY <1>2, <2>5, <3>2, <3>4, <3>6, <3>7, <3>8 DEF Ran, Idle
    <3>10. QED
      BY <3>3, <3>9
  <2>9. QED
    BY <2>7, <2>8
<1>6. QED
  BY <1>3, <1>4, <1>5

LEMMA RunAllGood ==
  ASSUME IsTree(tree), NEW U, NEW n \in Nodes, NEW i \in Nat \ {0}, tree.kind[n] = "parallel",
         \A c \in ToSet(Kids(n)) : UpdateGood(U, c),
         ~(i > Len(Kids(n))) => LoopGood(U, n, i + 1),
         NEW m \in Tasks, LoopReady(n, i, m)
  PROVE  Ran(n, m, RunAll(U, n, i, m))
<1>1. Holds(n, m) /\ ToSet(Kids(n)) \subseteq m.exist
  BY DEF LoopReady
<1>2. tree.kind[n] \notin Choosers /\ tree.kind[n] # "sequence" /\ tree.kind[n] # "selector"
  BY DEF Choosers
<1>3. CASE i > Len(Kids(n))
  <2> DEFINE r == [status |-> "executing", m |-> m]
  <2>1. RunAll(U, n, i, m) = r /\ r \in Results /\ r.m = m
    BY <1>3, RunAllFacts, ResultFacts DEF TaskStatuses
  <2> HIDE DEF r
  <2>2. QED
    BY <1>1, <1>2, <2>1, WithinSelf DEF Ran
<1>4. CASE ~(i > Len(Kids(n)))
  <2> DEFINE c == Kids(n)[i]
             r == U[Place(c, 0)][m]
  <2>1. i \in 1..Len(Kids(n))
    BY <1>4, TreeFacts
  <2>2. c \in ToSet(Kids(n))
    BY <2>1, KidsSet
  <2>3. /\ r.status = "executing" => RunAll(U, n, i, m) = U[Place(n, i + 1)][r.m]
        /\ r.status # "executing" => RunAll(U, n, i, m) = r
    BY <1>4, RunAllFacts
  <2> HIDE DEF c
  <2>4. c \in m.exist /\ SoundIn(c, m) /\ m.dropped \subseteq UnderParallel
    BY <1>1, <2>2 DEF Holds, KidsSound
  <2>5. Good(c, m, r)
    BY <2>2, <2>4 DEF UpdateGood
  <2> HIDE DEF r
  <2>6. /\ r \in Results /\ r.m \in Tasks /\ Within(n, m, r.m) /\ Holds(n, r.m)
        /\ \A d \in ToSet(Kids(n)) \ {c} : Same(d, m, r.m)
        /\ c \in r.m.exist
    BY <1>1, <2>2, <2>5, KidUpdate
  <2>7. ToSet(Kids(n)) \subseteq r.m.exist
    BY <1>1, <2>6 DEF Same
  <2>8. CASE r.status = "executing"
    <3>1. LoopReady(n, i + 1, r.m)
      BY <1>2, <2>6, <2>7 DEF LoopReady
    <3>2. Ran(n, r.m, U[Place(n, i + 1)][r.m])
      BY <1>4, <2>6, <3>1 DEF LoopGood
    <3>3. QED
      BY <2>3, <2>6, <2>8, <3>2, RanTrans
  <2>9. CASE r.status # "executing"
    <3>1. Ran(n, m, r)
      BY <1>2, <2>6, <2>7 DEF Ran
    <3>2. QED
      BY <2>3, <2>9, <3>1
  <2>10. QED
    BY <2>8, <2>9
<1>5. QED
  BY <1>3, <1>4

LEMMA SoundStart ==
  ASSUME IsTree(tree), NEW n \in Nodes, NEW m \in Tasks, n \in m.exist, SoundIn(n, m),
         m.dropped \subseteq UnderParallel
  PROVE  Holds(n, m) /\ Sound(n, m)
<1>1. \A c \in ToSet(Kids(n)) : Below(c) \subseteq Below(n)
  BY BelowKid
<1>2. n \in Below(n)
  BY BelowDef
<1>3. QED
  BY <1>1, <1>2 DEF SoundIn, Holds, KidsSound

\* A sequence or selector that does not execute has no child; one that does has one.
LEMMA ChooserStart ==
  ASSUME IsTree(tree), NEW n \in Nodes, NEW m \in Tasks, Sound(n, m),
         tree.kind[n] \in Choosers
  PROVE  /\ m.current[n] = NoNode => Idle(n, m)
         /\ m.current[n] # NoNode =>
              Single(n, m) /\ (tree.kind[n] = "selector" => m.last[n] = m.current[n])
<1>1. NoNode \notin ToSet(Kids(n))
  BY KidsSet, TreeFacts
<1>2. m.current[n] # NoNode => m.current[n] \in ToSet(Kids(n))
  BY TaskFacts
<1>3. QED
  BY <1>1, <1>2 DEF Sound, Idle, Single

LEMMA SequenceUpdated ==
  ASSUME IsTree(tree), \A x \in Nodes : tree.kind[x] \in TaskKinds,
         NEW U, NEW n \in Nodes, tree.kind[n] = "sequence", Kids(n) # <<>>,
         \A i \in Nat \ {0} : LoopGood(U, n, i),
         NEW m \in Tasks, Holds(n, m), Sound(n, m)
  PROVE  Ran(n, m, U[Place(n, SequenceAt(n, m))][SequenceNow(n, m)])
<1> DEFINE i == SequenceAt(n, m)
           w == SequenceNow(n, m)
<1>1. w \in Tasks /\ i \in 1..Len(Kids(n)) /\ w.current[n] = Kids(n)[i]
  BY SequenceNowType
<1>2. i \in Nat \ {0} /\ ~(i > Len(Kids(n)))
  BY <1>1, TreeFacts
<1>3. tree.kind[n] \in Choosers /\ tree.kind[n] # "selector" /\ tree.kind[n] # "parallel"
  BY DEF Choosers
<1>4. Holds(n, w) /\ Single(n, w) /\ Within(n, m, w)
  <2>1. CASE m.current[n] # NoNode
    <3>1. w = m
      BY <2>1 DEF SequenceNow
    <3> HIDE DEF w
    <3>2. QED
      BY <1>3, <2>1, <3>1, ChooserStart, WithinSelf
  <2>2. CASE m.current[n] = NoNode
    <3>1. Kids(n)[1] \in ToSet(Kids(n))
      BY KidsSet
    <3>2. w = InstallCurrent(n, Kids(n)[1], m)
      BY <2>2 DEF SequenceNow
    <3>3. Idle(n, m)
      BY <1>3, <2>2, ChooserStart
    <3> HIDE DEF w
    <3>4. QED
      BY <3>1, <3>2, <3>3, InstallIdle
  <2>3. QED
    BY <2>1, <2>2
<1> HIDE DEF w, i
<1>5. LoopReady(n, i, w)
  BY <1>1, <1>2, <1>3, <1>4 DEF LoopReady
<1>6. Ran(n, w, U[Place(n, i)][w])
  BY <1>1, <1>2, <1>5 DEF LoopGood
<1>7. QED
  BY <1>4, <1>6, RanTrans DEF w, i

LEMMA SelectorUpdated ==
  ASSUME IsTree(tree), \A x \in Nodes : tree.kind[x] \in TaskKinds,
         NEW U, NEW n \in Nodes, tree.kind[n] = "selector", Kids(n) # <<>>,
         LoopGood(U, n, 1), \A c \in ToSet(Kids(n)) : UpdateGood(U, c),
         NEW m \in Tasks, Holds(n, m), Sound(n, m)
  PROVE  LET now == SelectorNow(n, m)
             r == U[Place(now.current[n], 0)][now]
         IN Ran(n, m, IF r.status = "failure" THEN U[Place(n, 1)][r.m] ELSE r)
<1> DEFINE w == SelectorNow(n, m)
           c == w.current[n]
           r == U[Place(c, 0)][w]
<1>1. w \in Tasks /\ c \in ToSet(Kids(n))
  BY SelectorNowType
<1>2. tree.kind[n] \in Choosers /\ tree.kind[n] # "sequence" /\ tree.kind[n] # "parallel"
  BY DEF Choosers
<1>3. Holds(n, w) /\ Single(n, w) /\ Within(n, m, w) /\ w.last[n] = c
  <2>1. CASE m.current[n] # NoNode
    <3>1. w = m
      BY <2>1 DEF SelectorNow
    <3>2. Single(n, m) /\ m.last[n] = m.current[n]
      BY <1>2, <2>1, ChooserStart
    <3> HIDE DEF w
    <3>3. QED
      BY <3>1, <3>2, WithinSelf
  <2>2. CASE m.current[n] = NoNode
    <3> DEFINE k == Kids(n)[1]
               v == InstallCurrent(n, k, m)
    <3>1. k \in ToSet(Kids(n)) /\ k \in ToSet(Kids(n)) \cup {NoNode}
      BY KidsSet
    <3>2. w = [v EXCEPT !.last[n] = k]
      BY <2>2 DEF SelectorNow
    <3>3. Idle(n, m)
      BY <1>2, <2>2, ChooserStart
    <3> HIDE DEF w, k
    <3>4. /\ v \in Tasks /\ Holds(n, v) /\ Within(n, m, v) /\ v.current[n] = k /\ Single(n, v)
      BY <3>1, <3>3, InstallIdle
    <3> HIDE DEF v
    <3>5. /\ w.last[n] = k /\ w.exist = v.exist /\ w.executing = v.executing
          /\ w.current = v.current /\ w.begun = v.begun /\ w.dropped = v.dropped
          /\ \A x \in Nodes \ {n} : w.last[x] = v.last[x]
      BY <3>1, <3>2, <3>4, SetTaskLast
    <3>6. \A x \in Nodes \ {n} : Same(x, v, w)
      BY <3>5 DEF Same
    <3>7. Holds(n, w) /\ Within(n, v, w)
      BY <3>4, <3>5, <3>6, SelfOnly
    <3>8. QED
      BY <3>4, <3>5, <3>7, WithinTrans DEF Single
  <2>3. QED
    BY <2>1, <2>2
<1> HIDE DEF w
<1>4. /\ r \in Results /\ r.m \in Tasks /\ r.status \in TaskStatuses
      /\ Within(n, w, r.m) /\ Same(n, w, r.m) /\ Holds(n, r.m) /\ Single(n, r.m)
      /\ r.m.current[n] = c /\ (c \in r.m.executing <=> r.status = "executing")
  BY <1>1, <1>3, CurrentUpdate
<1> HIDE DEF r
<1>5. Within(n, m, r.m)
  BY <1>3, <1>4, WithinTrans
<1>6. CASE r.status = "failure"
  <2>1. LoopReady(n, 1, r.m)
    BY <1>2, <1>4, <1>6 DEF LoopReady
  <2>2. Ran(n, r.m, U[Place(n, 1)][r.m])
    BY <1>4, <2>1 DEF LoopGood
  <2>3. Ran(n, m, U[Place(n, 1)][r.m])
    BY <1>5, <2>2, RanTrans
  <2>4. QED
    BY <1>6, <2>3 DEF r, w
<1>7. CASE r.status # "failure"
  <2>1. r.m.last[n] = c
    BY <1>3, <1>4 DEF Same
  <2>2. Ran(n, m, r)
    BY <1>2, <1>4, <1>5, <2>1 DEF Ran, Idle
  <2>3. QED
    BY <1>7, <2>2 DEF r, w
<1>8. QED
  BY <1>6, <1>7

LEMMA ParallelUpdated ==
  ASSUME IsTree(tree), NEW U, NEW n \in Nodes, tree.kind[n] = "parallel", LoopGood(U, n, 1),
         NEW m \in Tasks, Holds(n, m), Sound(n, m)
  PROVE  Ran(n, m, U[Place(n, 1)][Started(n, m)])
<1> DEFINE w == Started(n, m)
           S == ToSet(Kids(n))
<1>1. w \in Tasks
  BY OnInitType
<1>2. tree.kind[n] # "sequence" /\ tree.kind[n] # "selector"
  OBVIOUS
<1>3. Holds(n, w) /\ Within(n, m, w) /\ S \subseteq w.exist
  <2>1. CASE n \in m.executing
    <3>1. w = m
      BY <2>1 DEF Started
    <3> HIDE DEF w
    <3>2. QED
      BY <2>1, <3>1, WithinSelf DEF Sound
  <2>2. CASE n \notin m.executing
    <3>1. w = Install(S, m)
      BY <2>2 DEF Started, OnInit
    <3> HIDE DEF w
    <3>2. KidsSound(n, m) /\ n \in m.exist /\ m.dropped \subseteq UnderParallel
      BY DEF Holds
    <3>3. /\ KidsSound(n, w)
          /\ \A c \in S : c \in w.exist
          /\ \A x \in Nodes : (\A c \in S : x \notin Below(c)) => Same(x, m, w)
          /\ w.dropped \subseteq m.dropped \cup (m.begun \cap UNION {Below(c) : c \in S})
      BY <3>1, <3>2, InstallBranch
    <3>4. Within(n, m, w) /\ Same(n, m, w)
      BY <3>3, WithinBranches
    <3>5. UNION {Below(c) : c \in S} \subseteq UnderParallel
      <4>1. \A c \in S : Below(c) \subseteq Below(n)
        BY BelowKid
      <4>2. Below(n) \subseteq UnderParallel
        BY DEF UnderParallel
      <4>3. QED
        BY <4>1, <4>2
    <3>6. QED
      BY <3>2, <3>3, <3>4, <3>5 DEF Holds, Same
  <2>3. QED
    BY <2>1, <2>2
<1> HIDE DEF w
<1>4. LoopReady(n, 1, w)
  BY <1>2, <1>3 DEF LoopReady
<1>5. Ran(n, w, U[Place(n, 1)][w])
  BY <1>1, <1>4 DEF LoopGood
<1>6. QED
  BY <1>3, <1>5, RanTrans DEF w

\* A composite's update up to its end.
LEMMA OnUpdateRan ==
  ASSUME IsTree(tree), \A x \in Nodes : tree.kind[x] \in TaskKinds,
         NEW U, NEW n \in Nodes, tree.kind[n] # "terminal", NEW result,
         \A i \in Nat \ {0} : LoopGood(U, n, i), \A c \in ToSet(Kids(n)) : UpdateGood(U, c),
         NEW m \in Tasks, Holds(n, m), Sound(n, m)
  PROVE  Ran(n, m, OnUpdate(U, n, Started(n, m), result))
<1>1. LoopGood(U, n, 1)
  OBVIOUS
<1>2. tree.kind[n] \in Choosers => Started(n, m) = m
  BY DEF Started, OnInit, Choosers
<1>3. CASE tree.kind[n] = "parallel"
  BY <1>1, <1>3, OnUpdateKinds, ParallelUpdated
<1>4. CASE tree.kind[n] = "sequence" /\ Kids(n) # <<>>
  <2>1. Started(n, m) = m
    BY <1>2, <1>4 DEF Choosers
  <2>2. OnUpdate(U, n, m, result) = U[Place(n, SequenceAt(n, m))][SequenceNow(n, m)]
    BY <1>4, OnUpdateKinds
  <2>3. Ran(n, m, U[Place(n, SequenceAt(n, m))][SequenceNow(n, m)])
    BY <1>4, SequenceUpdated
  <2>4. QED
    BY <2>1, <2>2, <2>3
<1>5. CASE tree.kind[n] = "selector" /\ Kids(n) # <<>>
  <2> DEFINE now == SelectorNow(n, m)
             r == U[Place(now.current[n], 0)][now]
  <2>1. Started(n, m) = m
    BY <1>2, <1>5 DEF Choosers
  <2>2. /\ r.status = "failure" => OnUpdate(U, n, m, result) = U[Place(n, 1)][r.m]
        /\ r.status # "failure" => OnUpdate(U, n, m, result) = r
    BY <1>5, OnUpdateKinds
  <2>3. Ran(n, m, IF r.status = "failure" THEN U[Place(n, 1)][r.m] ELSE r)
    BY <1>1, <1>5, SelectorUpdated
  <2> HIDE DEF r, now
  <2>4. QED
    BY <2>1, <2>2, <2>3
<1>6. CASE tree.kind[n] \in Choosers /\ Kids(n) = <<>>
  <2> DEFINE r == [status |-> "failure", m |-> m]
  <2>1. Started(n, m) = m
    BY <1>2, <1>6
  <2>2. OnUpdate(U, n, m, result) = r
    BY <1>6, OnUpdateKinds DEF Choosers
  <2>3. r \in Results /\ r.m = m /\ r.status = "failure"
    BY ResultFacts DEF TaskStatuses
  <2> HIDE DEF r
  <2>4. ToSet(Kids(n)) = {}
    BY <1>6 DEF ToSet
  <2>5. Idle(n, m)
    BY <1>6, <2>4, ChooserStart DEF Single
  <2>6. Ran(n, m, r)
    BY <1>6, <2>3, <2>5, WithinSelf DEF Ran, Choosers
  <2>7. QED
    BY <2>1, <2>2, <2>6
<1>7. QED
  BY <1>3, <1>4, <1>5, <1>6 DEF TaskKinds, Choosers

LEMMA SoundHeld ==
  ASSUME IsTree(tree), NEW n \in Nodes, NEW m, KidsSound(n, m), Sound(n, m)
  PROVE  SoundIn(n, m)
<1>1. \A x \in Below(n) : x = n \/ \E c \in ToSet(Kids(n)) : x \in Below(c)
  BY BelowDef
<1>2. QED
  BY <1>1 DEF KidsSound, SoundIn

\* The children that have no task do not execute.
LEMMA KidsIdle ==
  ASSUME IsTree(tree), NEW n \in Nodes, NEW m, KidsSound(n, m),
         NEW c \in ToSet(Kids(n)), c \notin m.exist
  PROVE  c \notin m.executing
<1>1. Sound(c, m)
  BY BelowKid DEF KidsSound, SoundIn
<1>2. QED
  BY <1>1 DEF Sound

\* The end of an update makes the node sound again.
LEMMA EndedGood ==
  ASSUME IsTree(tree), \A x \in Nodes : tree.kind[x] \in TaskKinds,
         NEW n \in Nodes, tree.kind[n] # "terminal", NEW m, NEW r, Ran(n, m, r)
  PROVE  Good(n, m, Ended(n, r))
<1> DEFINE w == Ended(n, r).m
<1>1. r \in Results /\ r.m \in Tasks /\ Within(n, m, r.m) /\ Holds(n, r.m)
  BY ResultFacts DEF Ran
<1>2. Ended(n, r) \in Results /\ Ended(n, r).status = r.status
  BY <1>1, EndedType
<1>3. n \in Below(n) /\ NoNode \notin ToSet(Kids(n)) /\ n \notin ToSet(Kids(n))
  <2>1. n \notin ToSet(Kids(n))
    BY BelowKid
  <2>2. QED
    BY <2>1, BelowDef, KidsSet, TreeFacts
<1>4. CASE r.status = "executing"
  <2> DEFINE E == r.m.executing \cup {n}
  <2>1. w = [r.m EXCEPT !.executing = E]
    BY <1>1, <1>4, EndedType
  <2>2. E \in SUBSET Nodes
    BY <1>1, TaskFacts
  <2> HIDE DEF E, w
  <2>3. /\ w.executing = E /\ w.exist = r.m.exist /\ w.current = r.m.current
        /\ w.last = r.m.last /\ w.begun = r.m.begun /\ w.dropped = r.m.dropped
    BY <1>1, <2>1, <2>2, SetExecuting
  <2>4. \A x \in Nodes \ {n} : Same(x, r.m, w)
    BY <2>3 DEF Same, E
  <2>5. Holds(n, w) /\ Within(n, r.m, w)
    BY <1>1, <2>3, <2>4, SelfOnly
  <2>6. Within(n, m, w) /\ n \in w.executing
    BY <1>1, <2>3, <2>5, WithinTrans DEF E
  <2>7. n \in w.exist /\ KidsSound(n, w) /\ w.dropped \subseteq UnderParallel
    BY <2>5 DEF Holds
  <2>8. Sound(n, w)
    <3>1. CASE tree.kind[n] \in Choosers
      <4>1. /\ Single(n, r.m) /\ r.m.current[n] \in r.m.executing
            /\ tree.kind[n] = "selector" => r.m.last[n] = r.m.current[n]
        BY <1>4, <3>1 DEF Ran
      <4>2. w.current[n] \in ToSet(Kids(n)) /\ w.current[n] \in w.executing
        BY <2>3, <4>1 DEF Single, E
      <4>3. \A c \in ToSet(Kids(n)) : c \in w.exist <=> w.current[n] = c
        BY <2>3, <4>1 DEF Single
      <4>4. \A c \in ToSet(Kids(n)) : c \in w.executing <=> w.current[n] = c
        BY <2>7, <4>2, <4>3, KidsIdle
      <4>5. tree.kind[n] # "parallel"
        BY <3>1 DEF Choosers
      <4>6. QED
        BY <1>3, <2>3, <2>6, <2>7, <4>1, <4>2, <4>3, <4>4, <4>5 DEF Sound
    <3>2. CASE tree.kind[n] = "parallel"
      <4>1. ToSet(Kids(n)) \subseteq w.exist
        BY <1>4, <2>3, <3>2 DEF Ran
      <4>2. QED
        BY <2>7, <3>2, <4>1 DEF Sound, Choosers
    <3>3. QED
      BY <3>1, <3>2 DEF TaskKinds, Choosers
  <2>9. SoundIn(n, w)
    BY <2>7, <2>8, SoundHeld
  <2>10. QED
    BY <1>2, <1>4, <2>6, <2>7, <2>9 DEF Good, w
<1>5. CASE r.status # "executing"
  <2> DEFINE t == OnTerminate(n, r.m)
             E == t.executing \ {n}
  <2>1. w = [t EXCEPT !.executing = E]
    BY <1>1, <1>5, EndedType
  <2>2. /\ t \in Tasks /\ Holds(n, t) /\ Within(n, r.m, t)
        /\ tree.kind[n] \in Choosers =>
             /\ t.current[n] = NoNode /\ t.last[n] = NoNode
             /\ \A c \in ToSet(Kids(n)) : c \notin t.exist
    <3>1. CASE tree.kind[n] \in Choosers
      <4> DEFINE u == UninstallCurrent(n, r.m)
      <4>1. Idle(n, r.m)
        BY <1>5, <3>1 DEF Ran
      <4>2. /\ u \in Tasks /\ Holds(n, u) /\ Within(n, r.m, u) /\ u.current[n] = NoNode
            /\ \A c \in ToSet(Kids(n)) : c \notin u.exist
        BY <1>1, <4>1, UninstallIdle
      <4>3. t = [u EXCEPT !.last[n] = NoNode]
        BY <3>1 DEF OnTerminate, Choosers
      <4> HIDE DEF u, t
      <4>4. NoNode \in ToSet(Kids(n)) \cup {NoNode}
        OBVIOUS
      <4>5. /\ t \in Tasks /\ t.last[n] = NoNode /\ t.exist = u.exist
            /\ t.executing = u.executing /\ t.current = u.current /\ t.begun = u.begun
            /\ t.dropped = u.dropped /\ \A x \in Nodes \ {n} : t.last[x] = u.last[x]
        BY <4>2, <4>3, <4>4, SetTaskLast
      <4>6. \A x \in Nodes \ {n} : Same(x, u, t)
        BY <4>5 DEF Same
      <4>7. Holds(n, t) /\ Within(n, u, t)
        BY <4>2, <4>5, <4>6, SelfOnly
      <4>8. QED
        BY <4>2, <4>5, <4>7, WithinTrans
    <3>2. CASE tree.kind[n] = "parallel"
      <4>1. t = r.m
        BY <3>2 DEF OnTerminate
      <4> HIDE DEF t
      <4>2. QED
        BY <1>1, <3>2, <4>1, WithinSelf DEF Choosers
    <3>3. QED
      BY <3>1, <3>2 DEF TaskKinds, Choosers
  <2> HIDE DEF t, w
  <2>3. E \in SUBSET Nodes
    BY <2>2, TaskFacts
  <2> HIDE DEF E
  <2>4. /\ w.executing = E /\ w.exist = t.exist /\ w.current = t.current
        /\ w.last = t.last /\ w.begun = t.begun /\ w.dropped = t.dropped
    BY <2>1, <2>2, <2>3, SetExecuting
  <2>5. \A x \in Nodes \ {n} : Same(x, t, w)
    BY <2>4 DEF Same, E
  <2>6. Holds(n, w) /\ Within(n, t, w)
    BY <2>2, <2>4, <2>5, SelfOnly
  <2>7. Within(n, m, w)
    <3>1. Within(n, m, t)
      BY <1>1, <2>2, WithinTrans
    <3>2. QED
      BY <2>6, <3>1, WithinTrans
  <2>8. n \in w.exist /\ KidsSound(n, w) /\ w.dropped \subseteq UnderParallel
    BY <2>6 DEF Holds
  <2>9. n \notin w.executing
    BY <2>4 DEF E
  <2>10. Sound(n, w)
    <3>1. CASE tree.kind[n] \in Choosers
      <4>1. /\ w.current[n] = NoNode /\ w.last[n] = NoNode
            /\ \A c \in ToSet(Kids(n)) : c \notin w.exist
        BY <2>2, <2>4, <3>1
      <4>2. \A c \in ToSet(Kids(n)) : c \notin w.executing /\ c # NoNode
        BY <1>3, <2>8, <4>1, KidsIdle
      <4>3. QED
        BY <2>8, <2>9, <4>1, <4>2 DEF Sound, Choosers
    <3>2. CASE tree.kind[n] = "parallel"
      BY <2>8, <2>9, <3>2 DEF Sound, Choosers
    <3>3. QED
      BY <3>1, <3>2 DEF TaskKinds, Choosers
  <2>11. SoundIn(n, w)
    BY <2>8, <2>10, SoundHeld
  <2>12. QED
    BY <1>2, <1>5, <2>7, <2>8, <2>9, <2>11 DEF Good, w
<1>6. QED
  BY <1>4, <1>5

LEMMA TerminalGood ==
  ASSUME IsTree(tree), NEW result \in [Terminals -> TaskStatuses], NEW U,
         NEW n \in Nodes, tree.kind[n] = "terminal", NEW m \in Tasks, n \in m.exist,
         SoundIn(n, m), m.dropped \subseteq UnderParallel
  PROVE  Good(n, m, Ended(n, OnUpdate(U, n, Started(n, m), result)))
<1> DEFINE s == Started(n, m)
           r == [status |-> result[n], m |-> s]
           w == Ended(n, r).m
<1>1. n \in Terminals /\ result[n] \in TaskStatuses
  BY DEF Terminals
<1>2. Below(n) = {n} /\ ToSet(Kids(n)) = {}
  BY BelowDef, KidsSet
<1>3. Sound(n, m)
  BY <1>2 DEF SoundIn
<1>4. /\ s \in Tasks /\ s.begun = m.begun \cup {n} /\ s.exist = m.exist
      /\ s.executing = m.executing /\ s.current = m.current /\ s.last = m.last
      /\ s.dropped = m.dropped
  <2>1. CASE n \in m.executing
    <3>1. s = m
      BY <2>1 DEF Started
    <3>2. n \in m.begun
      BY <1>3, <2>1 DEF Sound
    <3> HIDE DEF s
    <3>3. QED
      BY <3>1, <3>2
  <2>2. CASE n \notin m.executing
    <3> DEFINE B == m.begun \cup {n}
    <3>1. s = [m EXCEPT !.begun = B]
      BY <2>2 DEF Started, OnInit
    <3>2. B \in SUBSET Terminals
      BY <1>1, TaskFacts
    <3> HIDE DEF s, B
    <3>3. QED
      BY <3>1, <3>2, SetBegun DEF B
  <2>3. QED
    BY <2>1, <2>2
<1>5. OnUpdate(U, n, s, result) = r
  BY OnUpdateKinds
<1> HIDE DEF s
<1>6. r \in Results /\ r.m = s /\ r.status = result[n]
  BY <1>1, <1>4, ResultFacts
<1> HIDE DEF r
<1>7. /\ Ended(n, r) \in Results /\ Ended(n, r).status = r.status
      /\ r.status = "executing" => w = [s EXCEPT !.executing = s.executing \cup {n}]
      /\ r.status # "executing" => w = [OnTerminate(n, s) EXCEPT
                                          !.executing = OnTerminate(n, s).executing \ {n}]
  BY <1>6, EndedType
<1>8. /\ w.exist = m.exist /\ w.current = m.current /\ w.last = m.last
      /\ w.dropped = m.dropped
      /\ \A x \in Nodes \ {n} : /\ x \in w.executing <=> x \in m.executing
                                /\ x \in w.begun <=> x \in m.begun
      /\ n \in w.executing <=> r.status = "executing"
      /\ n \in w.begun <=> r.status = "executing"
  <2>1. CASE r.status = "executing"
    <3> DEFINE E == s.executing \cup {n}
    <3>1. w = [s EXCEPT !.executing = E] /\ E \in SUBSET Nodes
      BY <1>4, <1>7, <2>1, TaskFacts
    <3> HIDE DEF E, w
    <3>2. /\ w.executing = E /\ w.exist = s.exist /\ w.current = s.current
          /\ w.last = s.last /\ w.begun = s.begun /\ w.dropped = s.dropped
      BY <1>4, <3>1, SetExecuting
    <3>3. QED
      BY <1>4, <2>1, <3>2 DEF E
  <2>2. CASE r.status # "executing"
    <3> DEFINE B == s.begun \ {n}
               t == OnTerminate(n, s)
               E == t.executing \ {n}
    <3>1. t = [s EXCEPT !.begun = B] /\ B \in SUBSET Terminals
      BY <1>4, TaskFacts DEF OnTerminate
    <3>2. w = [t EXCEPT !.executing = E]
      BY <1>7, <2>2
    <3> HIDE DEF B, t, w
    <3>3. /\ t \in Tasks /\ t.begun = B /\ t.exist = s.exist /\ t.executing = s.executing
          /\ t.current = s.current /\ t.last = s.last /\ t.dropped = s.dropped
      BY <1>4, <3>1, SetBegun
    <3>4. E \in SUBSET Nodes
      BY <3>3, TaskFacts
    <3> HIDE DEF E
    <3>5. /\ w.executing = E /\ w.exist = t.exist /\ w.current = t.current
          /\ w.last = t.last /\ w.begun = t.begun /\ w.dropped = t.dropped
      BY <3>2, <3>3, <3>4, SetExecuting
    <3>6. QED
      BY <1>4, <2>2, <3>3, <3>5 DEF B, E
  <2>3. QED
    BY <2>1, <2>2
<1> HIDE DEF w
<1>9. Within(n, m, w)
  BY <1>2, <1>8 DEF Within, Same
<1>10. Sound(n, w)
  BY <1>2, <1>8 DEF Sound, Choosers
<1>11. Good(n, m, Ended(n, r))
  BY <1>2, <1>7, <1>8, <1>9, <1>10 DEF Good, SoundIn, w
<1>12. QED
  BY <1>5, <1>11 DEF s

\* The update of every node is good.
LEMMA UpdatesGood ==
  ASSUME IsTree(tree), \A x \in Nodes : tree.kind[x] \in TaskKinds,
         NEW result \in [Terminals -> TaskStatuses]
  PROVE  \A n \in Nodes : UpdateGood(Update(result), n)
<1> DEFINE U == Update(result)
           P(n, i) == /\ i = 0 => UpdateGood(U, n)
                      /\ i # 0 /\ tree.kind[n] # "terminal" => LoopGood(U, n, i)
           S == {p \in Places : P(p[1], p[2])}
<1>1. \A n \in Nodes : \A i \in Nat : \A m \in Tasks :
        U[Place(n, i)][m] = UpdateAt(U, n, i, m, result)
  BY UpdateDef
<1>2. \A n \in Nodes : \A i \in Nat : Place(n, i) \in S <=> P(n, i)
  BY DEF Place, Places
<1> HIDE DEF U, S
<1>3. ASSUME NEW n \in Nodes, NEW i \in Nat, \A q \in Onward(n, i) : q \in S
      PROVE  Place(n, i) \in S
  <2>1. \A c \in ToSet(Kids(n)) : UpdateGood(U, c)
    <3>1. \A c \in ToSet(Kids(n)) : c \in Nodes /\ Place(c, 0) \in S
      BY <1>3, OnwardFacts, KidsSet
    <3>2. QED
      BY <1>2, <3>1
  <2>2. CASE i = 0 /\ tree.kind[n] = "terminal"
    <3>1. UpdateGood(U, n)
      <4> SUFFICES ASSUME NEW m \in Tasks, n \in m.exist, SoundIn(n, m),
                          m.dropped \subseteq UnderParallel
                   PROVE  Good(n, m, U[Place(n, 0)][m])
        BY DEF UpdateGood
      <4>1. U[Place(n, 0)][m] = UpdateAt(U, n, 0, m, result)
        BY <1>1
      <4>2. UpdateAt(U, n, 0, m, result) = Ended(n, OnUpdate(U, n, Started(n, m), result))
        BY DEF UpdateAt, UpdateBehavior, Started, Ended
      <4>3. QED
        BY <2>2, <4>1, <4>2, TerminalGood
    <3>2. QED
      BY <1>2, <2>2, <3>1
  <2>3. CASE i = 0 /\ tree.kind[n] # "terminal"
    <3>1. ASSUME NEW j \in Nat \ {0} PROVE LoopGood(U, n, j)
      <4>1. Place(n, j) \in S
        BY <1>3, <2>3, OnwardFacts
      <4>2. QED
        BY <1>2, <2>3, <4>1
    <3>2. UpdateGood(U, n)
      <4> SUFFICES ASSUME NEW m \in Tasks, n \in m.exist, SoundIn(n, m),
                          m.dropped \subseteq UnderParallel
                   PROVE  Good(n, m, U[Place(n, 0)][m])
        BY DEF UpdateGood
      <4>1. U[Place(n, 0)][m] = UpdateAt(U, n, 0, m, result)
        BY <1>1
      <4>2. UpdateAt(U, n, 0, m, result) = Ended(n, OnUpdate(U, n, Started(n, m), result))
        BY DEF UpdateAt, UpdateBehavior, Started, Ended
      <4>3. Holds(n, m) /\ Sound(n, m)
        BY SoundStart
      <4>4. Ran(n, m, OnUpdate(U, n, Started(n, m), result))
        BY <2>1, <2>3, <3>1, <4>3, OnUpdateRan
      <4>5. QED
        BY <2>3, <4>1, <4>2, <4>4, EndedGood
    <3>3. QED
      BY <1>2, <2>3, <3>2
  <2>4. CASE i # 0 /\ tree.kind[n] # "terminal"
    <3>1. i \in Nat \ {0}
      BY <2>4
    <3>2. ~(i > Len(Kids(n))) => LoopGood(U, n, i + 1)
      <4> SUFFICES ASSUME ~(i > Len(Kids(n))) PROVE LoopGood(U, n, i + 1)
        OBVIOUS
      <4>1. Place(n, i + 1) \in S /\ i + 1 \in Nat /\ i + 1 # 0
        BY <1>3, <3>1, OnwardFacts
      <4>2. QED
        BY <1>2, <2>4, <4>1
    <3>3. LoopGood(U, n, i)
      <4> SUFFICES ASSUME NEW m \in Tasks, LoopReady(n, i, m)
                   PROVE  Ran(n, m, U[Place(n, i)][m])
        BY DEF LoopGood
      <4>1. U[Place(n, i)][m] = UpdateAt(U, n, i, m, result)
        BY <1>1
      <4>2. CASE tree.kind[n] = "sequence"
        <5>1. UpdateAt(U, n, i, m, result) = RunOn(U, n, i, m)
          BY <3>1, <4>2 DEF UpdateAt
        <5>2. QED
          BY <2>1, <3>1, <3>2, <4>1, <4>2, <5>1, RunOnGood
      <4>3. CASE tree.kind[n] = "selector"
        <5>1. UpdateAt(U, n, i, m, result) = TryOthers(U, n, i, m)
          BY <3>1, <4>3 DEF UpdateAt
        <5>2. QED
          BY <2>1, <3>1, <3>2, <4>1, <4>3, <5>1, TryOthersGood
      <4>4. CASE tree.kind[n] = "parallel"
        <5>1. UpdateAt(U, n, i, m, result) = RunAll(U, n, i, m)
          BY <3>1, <4>4 DEF UpdateAt
        <5>2. QED
          BY <2>1, <3>1, <3>2, <4>1, <4>4, <5>1, RunAllGood
      <4>5. QED
        BY <2>4, <4>2, <4>3, <4>4 DEF TaskKinds
    <3>4. QED
      BY <1>2, <2>4, <3>3
  <2>5. CASE i # 0 /\ tree.kind[n] = "terminal"
    BY <1>2, <2>5
  <2>6. QED
    BY <2>2, <2>3, <2>4, <2>5
<1>4. Places \subseteq S
  BY <1>3, PlaceInduction
<1>5. \A n \in Nodes : Place(n, 0) \in S
  BY <1>4 DEF Place, Places
<1>6. QED
  BY <1>2, <1>5 DEF U

\* The inductive invariant of the second version.
TaskInv ==
  /\ tree \in TaskTrees /\ tasks \in Tasks
  /\ tree.root \in tasks.exist /\ tasks.dropped \subseteq UnderParallel
  /\ \A x \in Nodes : Sound(x, tasks)

LEMMA TaskTreeFacts ==
  ASSUME tree \in TaskTrees
  PROVE  IsTree(tree) /\ \A x \in Nodes : tree.kind[x] \in TaskKinds
BY TaskTreesAssumption DEF Nodes

LEMMA TaskInvInit == TaskInit => TaskInv
<1> SUFFICES ASSUME TaskInit PROVE TaskInv
  OBVIOUS
<1>1. tree \in TaskTrees /\ IsTree(tree)
  BY TaskTreeFacts DEF TaskInit
<1>2. tasks \in Tasks
  BY <1>1, FirstTasks DEF TaskInit
<1>3. ASSUME NEW x \in Nodes PROVE Sound(x, tasks)
  <2>1. \A c \in ToSet(Kids(x)) : c # NoNode /\ c # tree.root
    BY <1>1, KidsSet, TreeFacts
  <2>2. /\ tasks.exist = {tree.root} /\ tasks.executing = {} /\ tasks.begun = {}
        /\ tasks.current[x] = NoNode /\ tasks.last[x] = NoNode
    BY DEF TaskInit
  <2>3. QED
    BY <2>1, <2>2 DEF Sound
<1>4. tree.root \in tasks.exist /\ tasks.dropped \subseteq UnderParallel
  BY DEF TaskInit
<1>5. QED
  BY <1>1, <1>2, <1>3, <1>4 DEF TaskInv

LEMMA TaskInvNext == TaskInv /\ [TaskNext]_taskVars => TaskInv'
<1> SUFFICES ASSUME TaskInv, [TaskNext]_taskVars PROVE TaskInv'
  OBVIOUS
<1>1. IsTree(tree) /\ \A x \in Nodes : tree.kind[x] \in TaskKinds
  BY TaskTreeFacts DEF TaskInv
<1>2. CASE UNCHANGED taskVars
  <2>1. tree' = tree /\ tasks' = tasks
    BY <1>2 DEF taskVars
  <2>2. QED
    BY <2>1 DEF TaskInv, Nodes, Terminals, Tasks, ChildOf, Kids, Sound, UnderParallel, Below
<1>3. ASSUME NEW result \in [Terminals -> TaskStatuses], UpdateFrame(result) PROVE TaskInv'
  <2> DEFINE root == tree.root
             r == Update(result)[Place(root, 0)][tasks]
             w == r.m
  <2>1. tasks' = w /\ tree' = tree
    BY <1>3 DEF UpdateFrame
  <2>2. root \in Nodes /\ Below(root) \subseteq Nodes
    BY <1>1, TreeFacts, BelowDef
  <2>3. SoundIn(root, tasks)
    BY <2>2 DEF TaskInv, SoundIn
  <2>4. UpdateGood(Update(result), root)
    BY <1>1, <2>2, UpdatesGood
  <2>5. Good(root, tasks, r)
    BY <2>3, <2>4 DEF UpdateGood, TaskInv
  <2> HIDE DEF r
  <2>6. /\ w \in Tasks /\ Within(root, tasks, w) /\ root \in w.exist /\ SoundIn(root, w)
        /\ w.dropped \subseteq UnderParallel
    BY <2>5, ResultFacts DEF Good
  <2> HIDE DEF w
  <2>7. ASSUME NEW x \in Nodes PROVE Sound(x, w)
    <3>1. CASE x \in Below(root)
      BY <2>6, <3>1 DEF SoundIn
    <3>2. CASE x \notin Below(root)
      <4>1. \A c \in ToSet(Kids(x)) : c \in Nodes /\ c \notin Below(root)
        BY <1>1, <2>2, <3>2, BelowParent, KidsSet, TreeFacts
      <4>2. Same(x, tasks, w) /\ \A c \in ToSet(Kids(x)) : Same(c, tasks, w)
        BY <2>6, <3>2, <4>1 DEF Within
      <4>3. QED
        BY <4>2, SoundSame DEF TaskInv
    <3>3. QED
      BY <3>1, <3>2
  <2>8. /\ tree \in TaskTrees /\ w \in Tasks /\ root \in w.exist
        /\ w.dropped \subseteq UnderParallel /\ \A x \in Nodes : Sound(x, w)
    BY <2>6, <2>7 DEF TaskInv
  <2>9. QED
    BY <2>1, <2>8
    DEF TaskInv, Nodes, Terminals, Tasks, ChildOf, Kids, Sound, UnderParallel, Below
<1>4. QED
  BY <1>2, <1>3 DEF TaskNext

LEMMA TaskInvPaired == TaskInv => TasksPaired
<1> SUFFICES ASSUME TaskInv PROVE TasksPaired
  OBVIOUS
<1>1. tasks \in Tasks /\ \A x \in Nodes : Sound(x, tasks)
  BY DEF TaskInv
<1>2. tasks.begun = tasks.executing \cap Terminals
  <2>1. tasks.begun \subseteq Terminals
    BY <1>1 DEF Tasks
  <2>2. \A x \in Terminals : x \in tasks.begun <=> x \in tasks.executing
    BY <1>1 DEF Sound, Terminals
  <2>3. QED
    BY <2>1, <2>2
<1>3. ASSUME NEW p \in Nodes, tree.kind[p] \in {"sequence", "selector"}
      PROVE  /\ p \in tasks.executing <=> tasks.current[p] # NoNode
             /\ \A c \in ToSet(Kids(p)) : c \in tasks.exist <=> tasks.current[p] = c
             /\ \A c \in ToSet(Kids(p)) : c \in tasks.executing <=> tasks.current[p] = c
             /\ tree.kind[p] = "selector" => tasks.last[p] = tasks.current[p]
  BY <1>1, <1>3 DEF Sound, Choosers
<1>4. QED
  BY <1>2, <1>3 DEF TaskInv, TasksPaired

\* The tasks keep their shape, the root keeps its task, and what is below a node that has
\* no task is untouched, however deep the tree is and whatever the terminals return.
THEOREM TasksSound == TaskSpec => []TaskInv
<1>1. TaskInit => TaskInv
  BY TaskInvInit
<1>2. TaskInv /\ [TaskNext]_taskVars => TaskInv'
  BY TaskInvNext
<1>3. QED
  BY <1>1, <1>2, PTL DEF TaskSpec

\* Every terminal that has begun is told that it ended before its task is destroyed, except
\* below a parallel, and a sequence or selector that has ended holds no task.
THEOREM TasksArePaired == TaskSpec => []TasksPaired
<1>1. TaskInv => TasksPaired
  BY TaskInvPaired
<1>2. QED
  BY <1>1, TasksSound, PTL
=============================================================================
