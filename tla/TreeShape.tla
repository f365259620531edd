----------------------------- MODULE TreeShape -----------------------------
(***************************************************************************)
(* What both versions of the behaviour trees are made of: nodes with       *)
(* children in an order, and a walk that goes from a node to its children. *)
(***************************************************************************)
EXTENDS Integers, Sequences, FiniteSets, SequencesExt

VARIABLE
  tree   \* the root, the kind and the children of every node; it never changes

NoNode == "none"   \* no child is chosen

\* A node is added once, to one parent; the root has none, and no node is below itself.
IsTree(t) ==
  LET nodes == DOMAIN t.kind
      parents == {n \in nodes : t.kind[n] # "terminal"}
  IN /\ IsFiniteSet(nodes) /\ NoNode \notin nodes /\ t.root \in nodes
     /\ DOMAIN t.kids = parents
     /\ \A p \in parents : t.kids[p] \in Seq(nodes)
     /\ \A p, q \in parents : \A i \in 1..Len(t.kids[p]), j \in 1..Len(t.kids[q]) :
          t.kids[p][i] = t.kids[q][j] => p = q /\ i = j
     /\ \A p \in parents : t.root \notin ToSet(t.kids[p])
     /\ \A S \in SUBSET nodes :
          S # {} => \E n \in S : n \in parents => ToSet(t.kids[n]) \cap S = {}

Nodes == DOMAIN tree.kind
Terminals == {n \in Nodes : tree.kind[n] = "terminal"}
Kids(n) == IF tree.kind[n] = "terminal" THEN <<>> ELSE tree.kids[n]

\* A child of every node, or none.
ChildOf == {f \in [Nodes -> Nodes \cup {NoNode}] :
              \A n \in Nodes : f[n] \in ToSet(Kids(n)) \cup {NoNode}}

\* A node and all nodes below it.
BelowIn(t) ==
  LET B[n \in DOMAIN t.kind] ==
        {n} \cup (IF t.kind[n] = "terminal" THEN {} ELSE UNION {B[c] : c \in ToSet(t.kids[n])})
  IN B
Below(n) == BelowIn(tree)[n]

\* Where a walk may be: Place(n, 0) is the method of node n, Place(n, i) the loop of that
\* method over the children of n, from the i-th on.
Place(n, i) == <<n, i>>
Places == Nodes \X Nat
=============================================================================
