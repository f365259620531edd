------------------------------ MODULE BevTree ------------------------------
(***************************************************************************)
(* The behaviour trees of the library (src/src/TLibMain/TAI_BevTree).      *)
(*                                                                         *)
(* A program evaluates the root once per frame and, when that succeeds,    *)
(* ticks it (TestObject::Tick of the examples).  Evaluate looks for nodes  *)
(* that may run and leaves its choice in the selectors; Tick runs what was *)
(* chosen and tells the branch it gives up (Transition).  Both go through  *)
(* the tree with the memory of all nodes in hand: m, and mem between two   *)
(* frames.  A terminal is running from its Enter to its Exit.              *)
(*                                                                         *)
(* Preconditions and the outcome of a terminal are the program's: every    *)
(* frame may bring any of them.  The active node, kept for display, is left*)
(* out.                                                                    *)
(***************************************************************************)
EXTENDS TreeShape

CONSTANTS
  Trees   \* trees: the root, the kind and the children of every node, the
          \* nodes with a precondition, and the loop count of the loops

Infinite == -1     \* kInfiniteLoop
MaxChildren == 16  \* k_BLimited_MaxChildNodeCnt
Selectors == {"priority", "nonepriority"}
Parallels == {"or", "and"}
Kinds == Selectors \cup Parallels \cup {"terminal", "sequence", "loop"}
Statuses == {"executing", "finish", "error"}  \* BevRunningStatus

\* What the constructors and factories of the nodes add to the shape of a tree: a composite
\* has a child and at most as many as it has room for.
IsBevTree(t) ==
  LET nodes == DOMAIN t.kind
  IN /\ t.kind \in [nodes -> Kinds]
     /\ \A p \in DOMAIN t.kids : Len(t.kids[p]) \in 1..MaxChildren
     /\ t.guarded \subseteq nodes
     /\ t.limit \in [{n \in nodes : t.kind[n] = "loop"} -> Int]

ASSUME TreesAssumption == \A t \in Trees : IsTree(t) /\ IsBevTree(t)

VARIABLES
  mem,    \* the memory of its nodes
  held    \* the nodes without precondition, or whose precondition held, in the last frame

vars == <<tree, mem, held>>

Steps == {f \in [Nodes -> Nat] : \A n \in Nodes : f[n] <= Len(Kids(n))}

Memories ==
  [current  : ChildOf,          \* mui_CurrentSelectIndex
   last     : ChildOf,          \* mui_LastSelectIndex
   step     : Steps,            \* mui_CurrentNodeIndex, 0 when invalid
   done     : SUBSET Nodes,     \* children with mab_ChildNodeStatus # 0
   count    : [Nodes -> Nat],   \* mi_CurrentCount
   running  : SUBSET Terminals, \* terminals with mb_NeedExit
   executed : SUBSET Terminals] \* terminals executed in the last frame

TypeOK == tree \in Trees /\ mem \in Memories /\ held \in SUBSET Nodes

Init ==
  /\ tree \in Trees
  /\ mem = [current  |-> [n \in Nodes |-> NoNode],
            last     |-> [n \in Nodes |-> NoNode],
            step     |-> [n \in Nodes |-> 0],
            done     |-> {},
            count    |-> [n \in Nodes |-> 0],
            running  |-> {},
            executed |-> {}]
  /\ held = Nodes

-----------------------------------------------------------------------------
(* Evaluate.  It changes the choices of the selectors it meets, also of those *)
(* in a branch that is not taken in the end.  E is Evaluate itself.           *)

\* A mutant: a sequence is always tested by its first child.
TestNodeFirst(n, m) == Kids(n)[1]
TestNode(n, m) == Kids(n)[IF m.step[n] = 0 THEN 1 ELSE m.step[n]]

\* BevNodePrioritySelector: the first child, from the i-th on, that may run.
EvaluateFirst(E, n, i, m) ==
  IF i > Len(Kids(n)) THEN [ok |-> FALSE, m |-> m]
  ELSE LET e == E[Place(Kids(n)[i], 0)][m]
       IN IF e.ok THEN [ok |-> TRUE, m |-> [e.m EXCEPT !.current[n] = Kids(n)[i]]]
          ELSE E[Place(n, i + 1)][e.m]
EvaluateAny(E, n, m) == E[Place(n, 1)][[m EXCEPT !.current[n] = NoNode]]

\* BevNodeNonePrioritySelector: the child chosen last, if it still may run.
EvaluateAgain(E, n, m) ==
  LET e == IF m.current[n] = NoNode THEN [ok |-> FALSE, m |-> m]
           ELSE E[Place(m.current[n], 0)][m]
  IN IF e.ok THEN e ELSE EvaluateAny(E, n, e.m)

\* BevNodeParallel: all children, from the i-th on, that have not finished.
EvaluateAll(E, n, i, m) ==
  IF i > Len(Kids(n)) THEN [ok |-> TRUE, m |-> m]
  ELSE LET c == Kids(n)[i]
           e == IF c \in m.done THEN [ok |-> TRUE, m |-> m] ELSE E[Place(c, 0)][m]
       IN IF e.ok THEN E[Place(n, i + 1)][e.m] ELSE e

EvaluateNode(E, n, m, h) ==
  IF n \notin h THEN [ok |-> FALSE, m |-> m]
  ELSE CASE tree.kind[n] = "terminal" -> [ok |-> TRUE, m |-> m]
         [] tree.kind[n] = "priority" -> EvaluateAny(E, n, m)
         [] tree.kind[n] = "nonepriority" -> EvaluateAgain(E, n, m)
         [] tree.kind[n] = "sequence" -> E[Place(TestNode(n, m), 0)][m]
         [] tree.kind[n] \in Parallels -> E[Place(n, 1)][m]
         [] tree.kind[n] = "loop" ->
              IF tree.limit[n] = Infinite \/ m.count[n] < tree.limit[n]
              THEN E[Place(Kids(n)[1], 0)][m]
              ELSE [ok |-> FALSE, m |-> m]

EvaluateAt(E, n, i, m, h) ==
  IF i = 0 THEN EvaluateNode(E, n, m, h)
  ELSE IF tree.kind[n] \in Selectors THEN EvaluateFirst(E, n, i, m)
  ELSE EvaluateAll(E, n, i, m)

\* h: the nodes whose precondition holds, or that have none.
Evaluate(h) ==
  LET E[p \in Places] == [m \in Memories |-> EvaluateAt(E, p[1], p[2], m, h)] IN E

-----------------------------------------------------------------------------
(* Transition: a branch is given up.  D is Transition itself. *)

TransitionTerminal(n, m) == [m EXCEPT !.running = @ \ {n}]
TransitionSelector(D, n, m) ==
  [(IF m.last[n] = NoNode THEN m ELSE D[Place(m.last[n], 0)][m]) EXCEPT !.last[n] = NoNode]
TransitionSequence(D, n, m) ==
  [(IF m.step[n] = 0 THEN m ELSE D[Place(Kids(n)[m.step[n]], 0)][m]) EXCEPT !.step[n] = 0]
TransitionParallel(D, n, m) == D[Place(n, 1)][[m EXCEPT !.done = @ \ ToSet(Kids(n))]]
TransitionLoop(D, n, m) == [D[Place(Kids(n)[1], 0)][m] EXCEPT !.count[n] = 0]

TransitionNode(D, n, m) ==
  CASE tree.kind[n] = "terminal" -> TransitionTerminal(n, m)
    [] tree.kind[n] \in Selectors -> TransitionSelector(D, n, m)
    [] tree.kind[n] = "sequence" -> TransitionSequence(D, n, m)
    [] tree.kind[n] \in Parallels -> TransitionParallel(D, n, m)
    [] tree.kind[n] = "loop" -> TransitionLoop(D, n, m)

\* The children of a parallel, from the i-th on.
TransitionKids(D, n, i, m) ==
  IF i > Len(Kids(n)) THEN m ELSE D[Place(n, i + 1)][D[Place(Kids(n)[i], 0)][m]]

TransitionAt(D, n, i, m) ==
  IF i = 0 THEN TransitionNode(D, n, m) ELSE TransitionKids(D, n, i, m)

Transition ==
  LET D[p \in Places] == [m \in Memories |-> TransitionAt(D, p[1], p[2], m)] IN D

-----------------------------------------------------------------------------
(* Tick.  T is Tick itself. *)

TickTerminal(n, m, result) ==
  [status |-> result[n],
   m |-> [m EXCEPT !.executed = @ \cup {n},
                   !.running = IF result[n] = "executing" THEN @ \cup {n} ELSE @ \ {n}]]

\* A mutant: the branch a selector gives up is not told.
ChangeSilently(n, m) == [m EXCEPT !.last[n] = m.current[n]]

\* A selector that chose another child than before gives that up.
Change(n, m) ==
  LET left == IF m.last[n] \in {NoNode, m.current[n]} THEN m
              ELSE Transition[Place(m.last[n], 0)][m]
  IN [left EXCEPT !.last[n] = m.current[n]]

TickSelector(T, n, m) ==
  LET now == IF m.current[n] = NoNode THEN m ELSE Change(n, m)
      r == T[Place(now.last[n], 0)][now]
  IN IF now.last[n] = NoNode THEN [status |-> "finish", m |-> now]
     ELSE IF r.status = "executing" THEN r
     ELSE [status |-> r.status, m |-> [r.m EXCEPT !.last[n] = NoNode]]

\* One child per frame; the sequence executes until the last has finished.
TickSequence(T, n, m) ==
  LET at == IF m.step[n] = 0 THEN 1 ELSE m.step[n]
      r == T[Place(Kids(n)[at], 0)][[m EXCEPT !.step[n] = at]]
  IN IF r.status = "executing" THEN r
     ELSE IF r.status = "finish" /\ at < Len(Kids(n))
     THEN [status |-> "executing", m |-> [r.m EXCEPT !.step[n] = at + 1]]
     ELSE [status |-> r.status, m |-> [r.m EXCEPT !.step[n] = 0]]

\* The children of a parallel, from the i-th on.  OR finishes with the first child
\* that does, whatever the others do; AND when all have finished.
TickKids(T, n, i, m) ==
  LET kids == ToSet(Kids(n))
      c == Kids(n)[i]
      r == T[Place(c, 0)][m]
      then == IF c \in m.done THEN m
              ELSE IF r.status = "executing" THEN r.m
              ELSE [r.m EXCEPT !.done = @ \cup {c}]
      Over(w) == [status |-> "finish", m |-> [w EXCEPT !.done = @ \ kids]]
  IN IF i > Len(Kids(n))
     THEN IF kids \subseteq m.done THEN Over(m) ELSE [status |-> "executing", m |-> m]
     ELSE IF tree.kind[n] = "or" /\ c \in then.done THEN Over(then)
     ELSE T[Place(n, i + 1)][then]

\* A loop goes on after the round that reaches its count, and ends after any other.
TickLoop(T, n, m) ==
  LET r == T[Place(Kids(n)[1], 0)][m]
      next == m.count[n] + 1
      Ends(status) == [status |-> status, m |-> [r.m EXCEPT !.count[n] = 0]]
  IN CASE r.status = "executing" -> r
       [] r.status = "error" -> Ends("error")
       [] r.status = "finish" /\ tree.limit[n] = Infinite ->
            [status |-> "executing", m |-> r.m]
       [] r.status = "finish" /\ tree.limit[n] = next ->
            [status |-> "executing", m |-> [r.m EXCEPT !.count[n] = next]]
       [] OTHER -> Ends("finish")

TickNode(T, n, m, result) ==
  CASE tree.kind[n] = "terminal" -> TickTerminal(n, m, result)
    [] tree.kind[n] \in Selectors -> TickSelector(T, n, m)
    [] tree.kind[n] = "sequence" -> TickSequence(T, n, m)
    [] tree.kind[n] \in Parallels -> T[Place(n, 1)][m]
    [] tree.kind[n] = "loop" -> TickLoop(T, n, m)

TickAt(T, n, i, m, result) ==
  IF i = 0 THEN TickNode(T, n, m, result) ELSE TickKids(T, n, i, m)

Tick(result) ==
  LET T[p \in Places] == [m \in Memories |-> TickAt(T, p[1], p[2], m, result)] IN T

-----------------------------------------------------------------------------
\* One frame of the program.
Frame(true, result) ==
  LET h == true \cup (Nodes \ tree.guarded)
      e == Evaluate(h)[Place(tree.root, 0)][[mem EXCEPT !.executed = {}]]
  IN /\ held' = h
     /\ mem' = IF e.ok THEN Tick(result)[Place(tree.root, 0)][e.m].m ELSE e.m
     /\ UNCHANGED tree

Next == \E true \in SUBSET tree.guarded, result \in [Terminals -> Statuses] : Frame(true, result)

Spec == Init /\ [][Next]_vars

-----------------------------------------------------------------------------
(* Properties. *)

\* A terminal executes only in a frame in which its own precondition and those of
\* all nodes above it hold, whatever the selectors and sequences above remember
\* of earlier frames (Evaluate before Tick).
PreconditionsHold ==
  \A t \in mem.executed, n \in Nodes : t \in Below(n) => n \in held

\* p will tell its child c when p is given up.
Remembers(p, c, m) ==
  CASE tree.kind[p] \in Selectors -> m.last[p] = c
    [] tree.kind[p] = "sequence" -> m.step[p] # 0 /\ Kids(p)[m.step[p]] = c
    [] tree.kind[p] \in Parallels -> c \notin m.done
    [] tree.kind[p] = "loop" -> Kids(p)[1] = c

\* An OR parallel that finishes forgets the children that have not.
Forgotten == UNION {Below(n) : n \in {k \in Nodes : tree.kind[k] = "or"}}

\* Every terminal that was entered and has not exited is remembered on the whole
\* way from the root, so that it exits when a branch it is in is given up: no
\* selector runs two branches, no sequence two steps (outside OR parallels).
PathRemembered ==
  \A p \in Nodes : \A c \in ToSet(Kids(p)) :
    Below(c) \cap (mem.running \ Forgotten) # {} => Remembers(p, c, mem)
=============================================================================
