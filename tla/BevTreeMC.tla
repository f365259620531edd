----------------------------- MODULE BevTreeMC -----------------------------
(* Trees for TLC to run both versions of the behaviour trees on: a behaviour runs
   one tree, of one version. *)
EXTENDS BevTree, BevTree2

\* TestObject3 of the examples (BTTInit2.cpp).
Example3 ==
  [root |-> "root",
   kind |-> [root |-> "priority", parallel |-> "or", sequence |-> "sequence",
             turnTo |-> "terminal", moveTo |-> "terminal", breathing |-> "terminal",
             idle |-> "terminal"],
   kids |-> [root |-> <<"parallel", "idle">>, parallel |-> <<"sequence", "breathing">>,
             sequence |-> <<"turnTo", "moveTo">>],
   guarded |-> {"parallel", "moveTo"},
   limit |-> <<>>]

\* Selectors under and over sequences.
Nested ==
  [root |-> "root",
   kind |-> [root |-> "priority", s |-> "sequence", q |-> "priority",
             a |-> "terminal", b |-> "terminal", c |-> "terminal", d |-> "terminal"],
   kids |-> [root |-> <<"s", "d">>, s |-> <<"a", "q">>, q |-> <<"b", "c">>],
   guarded |-> {"s", "b", "d"},
   limit |-> <<>>]

\* The kinds of nodes the examples leave out.
Others ==
  [root |-> "root",
   kind |-> [root |-> "nonepriority", p |-> "and", s |-> "sequence", l |-> "loop",
             a |-> "terminal", b |-> "terminal", c |-> "terminal", d |-> "terminal"],
   kids |-> [root |-> <<"p", "l">>, p |-> <<"a", "s">>, s |-> <<"b", "c">>, l |-> <<"d">>],
   guarded |-> {"p", "c", "l"},
   limit |-> [l |-> 1]]

\* A loop that never ends, under a sequence.
Forever == [Others EXCEPT !.kind.root = "sequence", !.limit.l = Infinite]

FourTrees == {Example3, Nested, Others, Forever}

\* TestObject of BTTInit3.cpp.
TaskExample ==
  [root |-> "root",
   kind |-> [root |-> "selector", parallel |-> "parallel", sequence |-> "sequence",
             turnTo |-> "terminal", moveTo |-> "terminal", breathe |-> "terminal",
             idle |-> "terminal"],
   kids |-> [root |-> <<"parallel", "idle">>, parallel |-> <<"sequence", "breathe">>,
             sequence |-> <<"turnTo", "moveTo">>]]

\* Selectors under and over sequences.
TaskNested ==
  [root |-> "root",
   kind |-> [root |-> "sequence", s |-> "selector", q |-> "sequence",
             a |-> "terminal", b |-> "terminal", c |-> "terminal", d |-> "terminal"],
   kids |-> [root |-> <<"s", "d">>, s |-> <<"a", "q">>, q |-> <<"b", "c">>]]

\* A parallel that is never installed again from above.
TaskParallels ==
  [root |-> "root",
   kind |-> [root |-> "parallel", p |-> "parallel", s |-> "selector",
             a |-> "terminal", b |-> "terminal", c |-> "terminal", d |-> "terminal"],
   kids |-> [root |-> <<"a", "p", "s">>, p |-> <<"b">>, s |-> <<"c", "d">>]]

\* Composites without children, and parallels under sequences under a parallel.
TaskEmpty ==
  [root |-> "root",
   kind |-> [root |-> "parallel", l |-> "selector", r |-> "sequence", e |-> "sequence",
             p |-> "parallel",
             a |-> "terminal", b |-> "terminal", c |-> "terminal", d |-> "terminal"],
   kids |-> [root |-> <<"l", "r">>, l |-> <<"e", "a", "b">>, r |-> <<"p", "d">>, e |-> <<>>,
             p |-> <<"c">>]]

FourTaskTrees == {TaskExample, TaskNested, TaskParallels, TaskEmpty}

\* The tree says which version runs; of the other one nothing is there.
InitBoth ==
  \/ /\ Init
     /\ tasks = [exist |-> {}, executing |-> {}, current |-> mem.current, last |-> mem.last,
                 begun |-> {}, dropped |-> {}]
  \/ TaskInit /\ mem = [running |-> {}, executed |-> {}] /\ held = Nodes
NextBoth ==
  \/ tree \in Trees /\ Next /\ UNCHANGED tasks
  \/ tree \in TaskTrees /\ TaskNext /\ UNCHANGED <<mem, held>>
SpecBoth == InitBoth /\ [][NextBoth]_<<vars, taskVars>>
=============================================================================
