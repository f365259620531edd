------------------------------ MODULE BevTree2 ------------------------------
(***************************************************************************)
(* The second version of the behaviour trees (TAI_BevTree2.h): a node      *)
(* makes a task when a behaviour is installed on it, a composite's task    *)
(* holds the behaviours of its children, and a task is told when it begins *)
(* (OnInit) and when it has ended (OnTerminate).  A program updates the    *)
(* behaviour of the root once per frame.                                   *)
(*                                                                         *)
(* A node has one parent, so that there is at most one task of it at a     *)
(* time and the behaviour that holds it is named by the node.  What a      *)
(* terminal's task returns is the program's: any outcome in any frame.     *)
(* Update goes through the tree with the tasks of all nodes in hand: m,    *)
(* and tasks between two frames.                                           *)
(***************************************************************************)
EXTENDS TreeShape

CONSTANTS
  TaskTrees   \* trees: the root, the kind and the children of every node

TaskKinds == {"terminal", "sequence", "selector", "parallel"}
TaskStatuses == {"executing", "finish", "failure"}  \* BevRunningStatus

ASSUME TaskTreesAssumption ==
  \A t \in TaskTrees : IsTree(t) /\ t.kind \in [DOMAIN t.kind -> TaskKinds]

VARIABLES
  tasks    \* the behaviours and tasks of the nodes

taskVars == <<tree, tasks>>

Tasks ==
  [exist     : SUBSET Nodes,      \* m_pTask # NULL
   executing : SUBSET Nodes,      \* m_eStatus = k_BRS_Executing
   current   : ChildOf,           \* the node of m_CurrentBehavior
   last      : ChildOf,           \* m_LastBehavior
   begun     : SUBSET Terminals,  \* terminals between OnInit and OnTerminate
   dropped   : SUBSET Terminals]  \* history: destroyed between the two

TaskInit ==
  /\ tree \in TaskTrees
  /\ tasks = [exist     |-> {tree.root},
              executing |-> {},
              current   |-> [n \in Nodes |-> NoNode],
              last      |-> [n \in Nodes |-> NoNode],
              begun     |-> {},
              dropped   |-> {}]

-----------------------------------------------------------------------------
\* Behavior::Uninstall of the behaviours of S destroys the tasks they have, with all that
\* the behaviours of these tasks hold.
Uninstall(S, m) ==
  LET gone == UNION {Below(n) : n \in S \cap m.exist}
      Kept(f) == [n \in Nodes |-> IF n \in gone THEN NoNode ELSE f[n]]
  IN [exist     |-> m.exist \ gone,
      executing |-> m.executing \ gone,
      current   |-> Kept(m.current),
      last      |-> Kept(m.last),
      begun     |-> m.begun \ gone,
      dropped   |-> m.dropped \cup (m.begun \cap gone)]

\* Behavior::Install.
Install(S, m) == [Uninstall(S, m) EXCEPT !.exist = @ \cup S]

\* The one behaviour of a sequence or a selector is given up, or installed on a child.
UninstallCurrent(n, m) == [Uninstall({m.current[n]}, m) EXCEPT !.current[n] = NoNode]
InstallCurrent(n, c, m) == [Install({c}, UninstallCurrent(n, m)) EXCEPT !.current[n] = c]

OnInit(n, m) ==
  CASE tree.kind[n] = "terminal" -> [m EXCEPT !.begun = @ \cup {n}]
    [] tree.kind[n] = "parallel" -> Install(ToSet(Kids(n)), m)
    [] OTHER -> m

\* A mutant: the current child stays for the next time.
OnTerminateKeeps(n, m) == [m EXCEPT !.begun = @ \ {n}]
OnTerminate(n, m) ==
  CASE tree.kind[n] = "terminal" -> [m EXCEPT !.begun = @ \ {n}]
    [] tree.kind[n] = "parallel" -> m
    [] OTHER -> [UninstallCurrent(n, m) EXCEPT !.last[n] = NoNode]

-----------------------------------------------------------------------------
(* Update.  U is Update itself. *)

\* SequenceTask, from its i-th child on, which is the current one: the children that
\* finish, in one frame, up to one that does not.
RunOn(U, n, i, m) ==
  LET r == U[Place(Kids(n)[i], 0)][m]
  IN IF i > Len(Kids(n)) THEN [status |-> "finish", m |-> m]
     ELSE IF r.status # "finish" THEN r
     ELSE IF i = Len(Kids(n)) THEN U[Place(n, i + 1)][r.m]
     ELSE U[Place(n, i + 1)][InstallCurrent(n, Kids(n)[i + 1], r.m)]

UpdateSequence(U, n, m) ==
  LET i == CHOOSE k \in 1..Len(Kids(n)) : Kids(n)[k] = m.current[n]
  IN IF m.current[n] = NoNode THEN U[Place(n, 1)][InstallCurrent(n, Kids(n)[1], m)]
     ELSE U[Place(n, i)][m]

\* SelectorTask: the child chosen last, and when it fails the others in their order.
TryOthers(U, n, i, m) ==
  LET c == Kids(n)[i]
      r == U[Place(c, 0)][InstallCurrent(n, c, m)]
  IN IF i > Len(Kids(n)) THEN [status |-> "failure", m |-> m]
     ELSE IF c = m.last[n] THEN U[Place(n, i + 1)][m]
     ELSE IF r.status = "failure" THEN U[Place(n, i + 1)][r.m]
     ELSE [r EXCEPT !.m.last[n] = c]

UpdateSelector(U, n, m) ==
  LET now == IF m.current[n] # NoNode THEN m
             ELSE [InstallCurrent(n, Kids(n)[1], m) EXCEPT !.last[n] = Kids(n)[1]]
      r == U[Place(now.current[n], 0)][now]
  IN IF r.status = "failure" THEN U[Place(n, 1)][r.m] ELSE r

\* ParallelTask: the children from the i-th on, up to one that is not executing.
RunAll(U, n, i, m) ==
  LET r == U[Place(Kids(n)[i], 0)][m]
  IN IF i > Len(Kids(n)) THEN [status |-> "executing", m |-> m]
     ELSE IF r.status = "executing" THEN U[Place(n, i + 1)][r.m]
     ELSE r

OnUpdate(U, n, m, result) ==
  CASE tree.kind[n] = "terminal" -> [status |-> result[n], m |-> m]
    [] tree.kind[n] = "parallel" -> U[Place(n, 1)][m]
    [] tree.kind[n] \in {"sequence", "selector"} /\ Kids(n) = <<>> ->
         [status |-> "failure", m |-> m]
    [] tree.kind[n] = "sequence" /\ Kids(n) # <<>> -> UpdateSequence(U, n, m)
    [] tree.kind[n] = "selector" /\ Kids(n) # <<>> -> UpdateSelector(U, n, m)

\* Behavior::Update.
UpdateBehavior(U, n, m, result) ==
  LET r == OnUpdate(U, n, IF n \in m.executing THEN m ELSE OnInit(n, m), result)
  IN IF r.status = "executing" THEN [r EXCEPT !.m.executing = @ \cup {n}]
     ELSE [status |-> r.status,
           m |-> [OnTerminate(n, r.m) EXCEPT !.executing = @ \ {n}]]

UpdateAt(U, n, i, m, result) ==
  IF i = 0 THEN UpdateBehavior(U, n, m, result)
  ELSE IF tree.kind[n] = "sequence" THEN RunOn(U, n, i, m)
  ELSE IF tree.kind[n] = "selector" THEN TryOthers(U, n, i, m)
  ELSE RunAll(U, n, i, m)

Update(result) ==
  LET U[p \in Places] == [m \in Tasks |-> UpdateAt(U, p[1], p[2], m, result)] IN U

-----------------------------------------------------------------------------
\* One frame of the program.
UpdateFrame(result) ==
  /\ tasks' = Update(result)[Place(tree.root, 0)][tasks].m
  /\ UNCHANGED tree

TaskNext == \E result \in [Terminals -> TaskStatuses] : UpdateFrame(result)

TaskSpec == TaskInit /\ [][TaskNext]_taskVars

-----------------------------------------------------------------------------
(* Properties. *)

UnderParallel == UNION {Below(n) : n \in {k \in Nodes : tree.kind[k] = "parallel"}}

\* Every terminal that has begun is told that it ended before its task is destroyed,
\* except below a parallel, which drops what still runs when it ends; what runs is held by
\* a chain of running behaviours from the root or from a parallel; and a sequence or selector
\* that has ended holds no task, so that it starts again with its first child.
TasksPaired ==
  /\ tasks.dropped \subseteq UnderParallel
  /\ tasks.begun = tasks.executing \cap Terminals
  /\ \A p \in Nodes : tree.kind[p] \in {"sequence", "selector"} =>
       /\ p \in tasks.executing <=> tasks.current[p] # NoNode
       /\ \A c \in ToSet(Kids(p)) : c \in tasks.exist <=> tasks.current[p] = c
       /\ \A c \in ToSet(Kids(p)) : c \in tasks.executing <=> tasks.current[p] = c
       /\ tree.kind[p] = "selector" => tasks.last[p] = tasks.current[p]
=============================================================================
