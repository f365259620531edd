----------------------------- MODULE ManagerProofs -----------------------------
(***************************************************************************)
(* Theorems about two parts of the manager that share no state: its        *)
(* threads and their end (ManagerThreads), and the agent summary           *)
(* (AgentSummary).                                                         *)
(***************************************************************************)
EXTENDS ManagerThreads, AgentSummary, FiniteSetTheorems, TLAPS

-----------------------------------------------------------------------------
(* ManagerThreads: the end of the manager leaves no thread running on an   *)
(* object it has deleted, unless Stop came before the thread had begun; an *)
(* argument about one thread at a time, in which the mutexes do not matter.*)
(* Then: a mutex is held only by whoever is at it, for every number of     *)
(* packets in a round.                                                     *)

\* The part of the type invariant the argument needs.
ThreadsTyped ==
  /\ stopping \in Nat \ {0}
  /\ pc \in [Threads -> {"created", "loop", "blocked", "select", "busy", "ended", "terminated"}]
  /\ started \in [Threads -> BOOLEAN]

\* m_bStarted is false only of a thread that has not begun or is dead.
StartedWhileRunning == \A t \in Threads : ~started[t] => pc[t] = "created" \/ Dead(t)

\* What the destructor deletes next is dead, or was missed.
ReadyToDelete == InDestructor("delete") => Dead(Current) \/ Current \in missed

IInv == ThreadsTyped /\ StartedWhileRunning /\ ReadyToDelete /\ OnlyMissedOutlive

\* The destructor names threads only.
LEMMA CurrentIsThread ==
  ASSUME stopping \in Nat \ {0}, stopping <= Len(StopOrder)
  PROVE  Current \in Threads
<1>1. Len(StopOrder) = 3
  BY DEF StopOrder
<1>2. stopping = 1 \/ stopping = 2 \/ stopping = 3
  BY <1>1
<1>3. StopOrder[1] = "listener" /\ StopOrder[2] = "logger" /\ StopOrder[3] = "worker"
  BY DEF StopOrder
<1> QED
  BY <1>2, <1>3 DEF Current, Threads

\* Before anything has run.
LEMMA InitIInv == Init => IInv
BY DEF Init, IInv, ThreadsTyped, StartedWhileRunning, ReadyToDelete, InDestructor,
       OnlyMissedOutlive, Dead

\* No step of a thread takes it back from the dead, and each keeps m_bStarted
\* with the place it has reached.
LEMMA ThreadKeepsIInv ==
  ASSUME IInv, NEW t \in Threads, Step(t) \/ Network(t)
  PROVE  IInv'
<1> USE DEF IInv, ThreadsTyped, StartedWhileRunning, ReadyToDelete, InDestructor,
            OnlyMissedOutlive, Dead, Current
<1>1. CASE Begin(t)
  BY <1>1 DEF Begin
<1>2. CASE Test(t)
  <2>1. pc[t] = "loop" /\ UNCHANGED <<mainPc, stopping, deleted, missed>>
    BY <1>2 DEF Test
  <2>2. \/ End(t)
        \/ /\ pc' = [pc EXCEPT ![t] = "blocked"] \/ pc' = [pc EXCEPT ![t] = "select"]
           /\ UNCHANGED started
    BY <1>2 DEF Test
  <2>3. CASE End(t)
    BY <2>1, <2>3 DEF End
  <2>4. CASE pc' = [pc EXCEPT ![t] = "blocked"] /\ UNCHANGED started
    BY <2>1, <2>4
  <2>5. CASE pc' = [pc EXCEPT ![t] = "select"] /\ UNCHANGED started
    BY <2>1, <2>5
  <2> QED
    BY <2>2, <2>3, <2>4, <2>5
<1>3. CASE Selected(t)
  <2>1. CASE End(t)
    BY <1>3, <2>1 DEF Selected, End
  <2>2. CASE pc' = [pc EXCEPT ![t] = "busy"] /\ UNCHANGED started
    BY <1>3, <2>2 DEF Selected
  <2> QED
    BY <1>3, <2>1, <2>2 DEF Selected
<1>4. CASE EndRound(t)
  BY <1>4 DEF EndRound
<1>5. CASE Acquire(t) \/ Release(t)
  BY <1>5 DEF Acquire, Release
<1>6. CASE Accepted(t)
  BY <1>6 DEF Accepted
<1>7. CASE AcceptFails(t)
  BY <1>7 DEF AcceptFails, End
<1> QED
  BY <1>1, <1>2, <1>3, <1>4, <1>5, <1>6, <1>7 DEF Step, Network

\* The destructor deletes a thread after it has ended, was terminated, or was
\* found not started: ended then, or missed.
LEMMA MainKeepsIInv ==
  ASSUME IInv, Main \/ Shutdown
  PROVE  IInv'
<1> USE DEF IInv, ThreadsTyped, StartedWhileRunning, ReadyToDelete, InDestructor,
            OnlyMissedOutlive, Dead
<1>1. CASE StartTick \/ EndTick \/ Shutdown
  BY <1>1 DEF StartTick, EndTick, Shutdown
<1>2. CASE Acquire("main") \/ Release("main")
  BY <1>2 DEF Acquire, Release, Current
<1>3. CASE Stop
  BY <1>3, CurrentIsThread DEF Stop, Current
<1>4. CASE Joined
  BY <1>4 DEF Joined, Current
<1>5. CASE TimeOut
  BY <1>5, CurrentIsThread DEF TimeOut, Current
<1>6. CASE Delete
  BY <1>6, CurrentIsThread DEF Delete, Current
<1>7. CASE Cleanup
  BY <1>7 DEF Cleanup
<1> QED
  BY <1>1, <1>2, <1>3, <1>4, <1>5, <1>6, <1>7 DEF Main

\* Whatever clients connect and whatever the threads are doing when the window
\* is closed, a thread whose Thread object the destructor deletes is dead or had
\* not begun when Stop looked at it.
THEOREM DeletedThreadsAreDead == Spec => []OnlyMissedOutlive
<1>1. IInv /\ [Next]_vars => IInv'
  <2> SUFFICES ASSUME IInv, [Next]_vars PROVE IInv'
    OBVIOUS
  <2>1. CASE \E t \in Threads : Step(t) \/ Network(t)
    BY <2>1, ThreadKeepsIInv
  <2>2. CASE Main \/ Shutdown
    BY <2>2, MainKeepsIInv
  <2>3. CASE UNCHANGED vars
    BY <2>3 DEF vars, IInv, ThreadsTyped, StartedWhileRunning, ReadyToDelete,
                InDestructor, OnlyMissedOutlive, Dead, Current
  <2> QED
    BY <2>1, <2>2, <2>3 DEF Next
<1>2. IInv => OnlyMissedOutlive
  BY DEF IInv
<1> QED
  BY InitIInv, <1>1, <1>2, PTL DEF Spec

-----------------------------------------------------------------------------
(* The mutexes. *)

\* Nobody is at a mutex who is not in the middle of a round or of a tick.
RestingIsFree ==
  /\ \A t \in Threads : pc[t] \in {"created", "loop", "blocked", "ended"} => todo[t] = <<>>
  /\ mainPc # "tick" => todo["main"] = <<>>

MutexInv == TypeOK /\ RestingIsFree

Everyone == Threads \cup {"main"}

\* What is taken is a list of mutexes.
LEMMA LocksAreMutexes ==
  /\ <<"clientSockets">> \in Seq(Mutexes)
  /\ NewClient \subseteq Seq(Mutexes) /\ Insertions \subseteq Seq(Mutexes)
  /\ TickLocks \subseteq Seq(Mutexes)
<1>1. <<"clientSockets">> \in Seq(Mutexes) /\ NewClient \subseteq Seq(Mutexes)
  BY DEF NewClient, Mutexes
<1>2. TickLocks \subseteq Seq(Mutexes)
  BY DEF TickLocks, Mutexes
<1>3. ASSUME NEW n \in 0..MaxPackets PROVE [i \in 1..n |-> "pool"] \in Seq(Mutexes)
  BY PacketsAssumption DEF Mutexes
<1>4. Insertions \subseteq Seq(Mutexes)
  BY <1>3 DEF Insertions
<1> QED
  BY <1>1, <1>2, <1>4

\* Someone who held no mutex is given a list of mutexes to take.
LEMMA NewRound ==
  ASSUME MutexInv, NEW t \in Everyone, todo[t] = <<>>,
         NEW locks \in Seq(Mutexes), todo' = [todo EXCEPT ![t] = locks], owner' = owner
  PROVE  /\ todo' \in [Everyone -> Seq(Mutexes)]
         /\ \A u \in Everyone \ {t} : todo'[u] = todo[u]
         /\ \A m \in Mutexes : owner'[m] # Nobody =>
              todo'[owner'[m]] # <<>> /\ Head(todo'[owner'[m]]) = m
<1>1. todo \in [Everyone -> Seq(Mutexes)] /\ owner \in [Mutexes -> Everyone \cup {Nobody}]
  BY DEF MutexInv, TypeOK, Everyone
<1>2. \A m \in Mutexes : owner[m] # Nobody => owner[m] # t
  BY DEF MutexInv, TypeOK
<1> QED
  BY <1>1, <1>2 DEF MutexInv, TypeOK

\* Acquire and Release, by a thread in a round or by the main thread in a tick.
LEMMA LockStep ==
  ASSUME MutexInv, NEW t \in Everyone, Acquire(t) \/ Release(t)
  PROVE  MutexInv'
<1>1. /\ todo \in [Everyone -> Seq(Mutexes)] /\ owner \in [Mutexes -> Everyone \cup {Nobody}]
      /\ \A m \in Mutexes : owner[m] # Nobody =>
           todo[owner[m]] # <<>> /\ Head(todo[owner[m]]) = m
  BY DEF MutexInv, TypeOK, Everyone
<1>2. UNCHANGED <<mainPc, stopping, pc, started, quit, deleted, missed>> /\ todo[t] # <<>>
  BY DEF Acquire, Release, Holds
<1>3. Head(todo[t]) \in Mutexes /\ Tail(todo[t]) \in Seq(Mutexes) /\ t # Nobody
  BY <1>1, <1>2 DEF Everyone, Threads, Nobody
<1>4. CASE Acquire(t)
  <2>1. owner' = [owner EXCEPT ![Head(todo[t])] = t] /\ todo' = todo
    BY <1>4 DEF Acquire
  <2>2. owner' \in [Mutexes -> Everyone \cup {Nobody}]
    BY <1>1, <1>3, <2>1
  <2>3. \A m \in Mutexes : owner'[m] # Nobody =>
          todo'[owner'[m]] # <<>> /\ Head(todo'[owner'[m]]) = m
    BY <1>1, <1>2, <1>3, <2>1
  <2> QED
    BY <1>2, <2>1, <2>2, <2>3 DEF MutexInv, TypeOK, RestingIsFree, Everyone
<1>5. CASE Release(t)
  <2>1. /\ owner[Head(todo[t])] = t
        /\ owner' = [owner EXCEPT ![Head(todo[t])] = Nobody]
        /\ todo' = [todo EXCEPT ![t] = Tail(todo[t])]
    BY <1>5 DEF Release, Holds
  <2>2. /\ owner' \in [Mutexes -> Everyone \cup {Nobody}]
        /\ todo' \in [Everyone -> Seq(Mutexes)]
    BY <1>1, <1>3, <2>1
  <2>3. \A u \in Everyone \ {t} : todo'[u] = todo[u]
    BY <1>1, <2>1
  <2>4. \A m \in Mutexes : owner'[m] # Nobody => owner'[m] = owner[m] /\ owner[m] # t
    BY <1>1, <1>3, <2>1
  <2>5. \A m \in Mutexes : owner'[m] # Nobody =>
          todo'[owner'[m]] # <<>> /\ Head(todo'[owner'[m]]) = m
    BY <1>1, <2>2, <2>3, <2>4
  <2>6. RestingIsFree'
    BY <1>2, <2>3 DEF MutexInv, RestingIsFree, Everyone, Threads
  <2> QED
    BY <1>2, <2>2, <2>5, <2>6 DEF MutexInv, TypeOK, Everyone
<1> QED
  BY <1>4, <1>5

\* The steps of a thread.
LEMMA ThreadKeepsMutexes ==
  ASSUME MutexInv, NEW t \in Threads, Step(t) \/ Network(t)
  PROVE  MutexInv'
<1>0. t \in Everyone
  BY DEF Everyone
<1>1. /\ pc \in [Threads -> {"created", "loop", "blocked", "select", "busy", "ended", "terminated"}]
      /\ started \in [Threads -> BOOLEAN]
      /\ todo \in [Everyone -> Seq(Mutexes)]
  BY DEF MutexInv, TypeOK, Everyone
\* A step that takes no mutex and gives the thread none to take.
<1>2. ASSUME UNCHANGED <<mainPc, stopping, quit, todo, owner, deleted, missed>>,
             todo[t] = <<>>, NEW place \in {"loop", "blocked", "busy", "ended"},
             pc' = [pc EXCEPT ![t] = place], started' \in [Threads -> BOOLEAN]
      PROVE  MutexInv'
  <2>1. /\ pc' \in [Threads -> {"created", "loop", "blocked", "select", "busy",
                                 "ended", "terminated"}]
        /\ \A u \in Threads \ {t} : pc'[u] = pc[u]
    BY <1>1, <1>2
  <2>2. TypeOK'
    BY <1>2, <2>1 DEF MutexInv, TypeOK
  <2>3. RestingIsFree'
    BY <1>2, <2>1 DEF MutexInv, RestingIsFree
  <2> QED
    BY <2>2, <2>3 DEF MutexInv
\* A step that begins with mutexes to take.
<1>3. ASSUME UNCHANGED <<mainPc, stopping, started, quit, owner, deleted, missed>>,
             todo[t] = <<>>, NEW place \in {"select", "busy"},
             pc' = [pc EXCEPT ![t] = place],
             NEW locks \in Seq(Mutexes), todo' = [todo EXCEPT ![t] = locks]
      PROVE  MutexInv'
  <2>1. /\ pc' \in [Threads -> {"created", "loop", "blocked", "select", "busy",
                                 "ended", "terminated"}]
        /\ \A u \in Threads \ {t} : pc'[u] = pc[u]
        /\ pc'[t] = place
    BY <1>1, <1>3
  <2>2. /\ todo' \in [Everyone -> Seq(Mutexes)]
        /\ \A u \in Everyone \ {t} : todo'[u] = todo[u]
        /\ \A m \in Mutexes : owner'[m] # Nobody =>
             todo'[owner'[m]] # <<>> /\ Head(todo'[owner'[m]]) = m
    BY <1>0, <1>3, NewRound
  <2>3. TypeOK'
    BY <1>3, <2>1, <2>2 DEF MutexInv, TypeOK, Everyone
  <2>4. RestingIsFree'
    BY <1>3, <2>1, <2>2 DEF MutexInv, RestingIsFree, Everyone, Threads
  <2> QED
    BY <2>3, <2>4 DEF MutexInv
<1>4. pc[t] \in {"created", "loop", "blocked"} => todo[t] = <<>>
  BY DEF MutexInv, RestingIsFree
<1>5. CASE Begin(t)
  BY <1>1, <1>2, <1>4, <1>5 DEF Begin
<1>6. CASE Test(t)
  <2>1. CASE End(t) /\ UNCHANGED todo
    BY <1>1, <1>2, <1>4, <1>6, <2>1 DEF Test, End
  <2>2. CASE pc' = [pc EXCEPT ![t] = "blocked"] /\ UNCHANGED <<started, todo>>
    BY <1>1, <1>2, <1>4, <1>6, <2>2 DEF Test
  <2>3. CASE /\ pc' = [pc EXCEPT ![t] = "select"] /\ UNCHANGED started
             /\ todo' = [todo EXCEPT ![t] = <<"clientSockets">>]
    BY <1>3, <1>4, <1>6, <2>3, LocksAreMutexes DEF Test
  <2> QED
    BY <1>6, <2>1, <2>2, <2>3 DEF Test
<1>7. CASE Selected(t)
  <2>1. CASE End(t) /\ UNCHANGED todo
    BY <1>1, <1>2, <1>7, <2>1 DEF Selected, End
  <2>2. CASE /\ pc' = [pc EXCEPT ![t] = "busy"] /\ UNCHANGED started
             /\ \E locks \in Insertions : todo' = [todo EXCEPT ![t] = locks]
    BY <1>3, <1>7, <2>2, LocksAreMutexes DEF Selected
  <2> QED
    BY <1>7, <2>1, <2>2 DEF Selected
<1>8. CASE EndRound(t)
  BY <1>1, <1>2, <1>8 DEF EndRound
<1>9. CASE Acquire(t) \/ Release(t)
  BY <1>0, <1>9, LockStep
<1>10. CASE Accepted(t)
  <2>1. CASE \E locks \in NewClient : todo' = [todo EXCEPT ![t] = locks]
    BY <1>3, <1>4, <1>10, <2>1, LocksAreMutexes DEF Accepted
  <2>2. CASE UNCHANGED todo
    BY <1>1, <1>2, <1>4, <1>10, <2>2 DEF Accepted
  <2> QED
    BY <1>10, <2>1, <2>2 DEF Accepted
<1>11. CASE AcceptFails(t)
  BY <1>1, <1>2, <1>4, <1>11 DEF AcceptFails, End
<1> QED
  BY <1>5, <1>6, <1>7, <1>8, <1>9, <1>10, <1>11 DEF Step, Network

\* The steps of the main thread.
LEMMA MainKeepsMutexes ==
  ASSUME MutexInv, Main \/ Shutdown
  PROVE  MutexInv'
<1>0. "main" \in Everyone /\ "main" \notin Threads
  BY DEF Everyone, Threads
<1>1. CASE StartTick
  <2>1. PICK locks \in TickLocks : todo' = [todo EXCEPT !["main"] = locks]
    BY <1>1 DEF StartTick
  <2>2. /\ mainPc = "idle" /\ mainPc' = "tick" /\ todo["main"] = <<>>
        /\ UNCHANGED <<stopping, pc, started, quit, owner, deleted, missed>>
    BY <1>1 DEF StartTick, MutexInv, RestingIsFree
  <2>3. locks \in Seq(Mutexes)
    BY LocksAreMutexes
  <2>4. /\ todo' \in [Everyone -> Seq(Mutexes)]
        /\ \A u \in Everyone \ {"main"} : todo'[u] = todo[u]
        /\ \A m \in Mutexes : owner'[m] # Nobody =>
             todo'[owner'[m]] # <<>> /\ Head(todo'[owner'[m]]) = m
    BY <1>0, <2>1, <2>2, <2>3, NewRound
  <2>5. TypeOK'
    BY <2>2, <2>4 DEF MutexInv, TypeOK, Everyone
  <2>6. RestingIsFree'
    BY <1>0, <2>2, <2>4 DEF MutexInv, RestingIsFree, Everyone
  <2> QED
    BY <2>5, <2>6 DEF MutexInv
<1>2. CASE Acquire("main") \/ Release("main")
  BY <1>0, <1>2, LockStep
<1>3. CASE EndTick \/ Shutdown \/ Joined \/ Cleanup
  BY <1>3 DEF EndTick, Shutdown, Joined, Cleanup, MutexInv, TypeOK, RestingIsFree,
              InDestructor
<1>4. ASSUME stopping <= Len(StopOrder) PROVE Current \in Threads
  BY <1>4, CurrentIsThread DEF MutexInv, TypeOK
<1>5. CASE Stop
  BY <1>4, <1>5 DEF Stop, InDestructor, MutexInv, TypeOK, RestingIsFree
<1>6. CASE TimeOut
  <2>1. Current \in Threads
    BY <1>4, <1>6 DEF TimeOut, InDestructor
  <2>2. /\ mainPc = "wait" /\ mainPc' = "delete"
        /\ pc' = [pc EXCEPT ![Current] = "terminated"]
        /\ UNCHANGED <<stopping, started, quit, todo, owner, deleted, missed>>
    BY <1>6 DEF TimeOut, InDestructor
  <2>3. /\ pc' \in [Threads -> {"created", "loop", "blocked", "select", "busy",
                                 "ended", "terminated"}]
        /\ \A u \in Threads : pc'[u] = pc[u] \/ pc'[u] = "terminated"
    BY <2>1, <2>2 DEF MutexInv, TypeOK
  <2>4. TypeOK'
    BY <2>2, <2>3 DEF MutexInv, TypeOK
  <2>5. RestingIsFree'
    BY <2>2, <2>3 DEF MutexInv, RestingIsFree
  <2> QED
    BY <2>4, <2>5 DEF MutexInv
<1>7. CASE Delete
  <2>1. Len(StopOrder) = 3
    BY DEF StopOrder
  <2> QED
    BY <1>4, <1>7, <2>1 DEF Delete, InDestructor, MutexInv, TypeOK, RestingIsFree
<1> QED
  BY <1>1, <1>2, <1>3, <1>5, <1>6, <1>7 DEF Main

\* Whoever holds a mutex of the manager is at it in its round or tick, so it
\* releases it before it does anything else; only a thread that is terminated
\* there keeps it.
THEOREM MutexesHeldInTurn == Spec => []TypeOK
<1>1. Init => MutexInv
  BY DEF Init, MutexInv, TypeOK, RestingIsFree, StopOrder
<1>2. MutexInv /\ [Next]_vars => MutexInv'
  <2> SUFFICES ASSUME MutexInv, [Next]_vars PROVE MutexInv'
    OBVIOUS
  <2>1. CASE \E t \in Threads : Step(t) \/ Network(t)
    BY <2>1, ThreadKeepsMutexes
  <2>2. CASE Main \/ Shutdown
    BY <2>2, MainKeepsMutexes
  <2>3. CASE UNCHANGED vars
    BY <2>3 DEF vars, MutexInv, TypeOK, RestingIsFree
  <2> QED
    BY <2>1, <2>2, <2>3 DEF Next
<1>3. MutexInv => TypeOK
  BY DEF MutexInv
<1> QED
  BY <1>1, <1>2, <1>3, PTL DEF Spec

-----------------------------------------------------------------------------
(* AgentSummary, for any finite set of objects on any hosts and any number *)
(* of statuses and phases.                                                 *)

\* The objects of a host that have value i of an attribute f (status or phase).
With(f, a, i) == {v \in Vups : AgentOf[v] = a /\ f[v] = i}

\* cnt[a][i] is the number of those objects, for every value but 0.
Counts(cnt, f, n) ==
  \A a \in Agents, i \in 1..n : cnt[a][i] = Cardinality(With(f, a, i))

\* Only a registered object has attributes, so counting by attribute alone
\* counts registered objects.
UnregisteredBlank ==
  \A v \in Vups : life[v] # "registered" => status[v] = 0 /\ phase[v] = 0

\* A host's entry counts its registered clients at least once each, so its count
\* reaches zero only with the last of them.
HostsCounted ==
  \A a \in Agents :
    /\ Cardinality(Registered(a)) <= vupCnt[a]
    /\ Registered(a) # {} => a \in counted

SummaryInv ==
  /\ SummaryTypeOK /\ UnregisteredBlank /\ rows \subseteq counted
  /\ Counts(statusCnt, status, MaxStatus)
  /\ Counts(phaseCnt, phase, MaxPhase)
  /\ HostsCounted /\ HostsExact

LEMMA Finite ==
  /\ \A a : IsFiniteSet(Registered(a)) /\ Cardinality(Registered(a)) \in Nat
  /\ \A f, a, i : IsFiniteSet(With(f, a, i)) /\ Cardinality(With(f, a, i)) \in Nat
<1>1. \A a : Registered(a) \in SUBSET Vups
  BY DEF Registered
<1>2. \A f, a, i : With(f, a, i) \in SUBSET Vups
  BY DEF With
<1>3. QED
  BY <1>1, <1>2, FS_Subset, FS_CardinalityType, SummaryAssumption

\* What UpdateSummary does to each count of a host.
LEMMA MovedValues ==
  ASSUME NEW n \in Nat, NEW c \in [0..n -> Nat], NEW l \in 0..n, NEW x \in 0..n
  PROVE  /\ Moved(c, l, x) \in [0..n -> Int]
         /\ \A i \in 0..n :
              /\ i = 0 \/ l = x \/ (i # l /\ i # x) => Moved(c, l, x)[i] = c[i]
              /\ i # 0 /\ i = l /\ l # x => Moved(c, l, x)[i] = c[i] - 1
              /\ i # 0 /\ i = x /\ l # x => Moved(c, l, x)[i] = c[i] + 1
<1> DEFINE less == IF l > 0 THEN [c EXCEPT ![l] = @ - 1] ELSE c
<1>0. \A i \in 0..n : c[i] \in Nat
  OBVIOUS
<1>1. /\ less \in [0..n -> Int]
      /\ \A i \in 0..n : less[i] = c[i] - (IF i = l /\ l > 0 THEN 1 ELSE 0)
  <2>1. CASE l > 0
    <3>1. less = [c EXCEPT ![l] = c[l] - 1] /\ c[l] - 1 \in Int
      BY <1>0, <2>1
    <3>2. QED
      BY <1>0, <2>1, <3>1
  <2>2. CASE ~(l > 0)
    <3>1. less = c
      BY <2>2
    <3>2. QED
      BY <1>0, <2>2, <3>1
  <2>3. QED
    BY <2>1, <2>2
<1>2. Moved(c, l, x) = IF x > 0 THEN [less EXCEPT ![x] = @ + 1] ELSE less
  BY DEF Moved
<1> HIDE DEF less
<1>3. \A i \in 0..n : less[i] \in Int
  BY <1>1
<1>6. /\ Moved(c, l, x) \in [0..n -> Int]
      /\ \A i \in 0..n :
           Moved(c, l, x)[i] = c[i] - (IF i = l /\ l > 0 THEN 1 ELSE 0)
                                    + (IF i = x /\ x > 0 THEN 1 ELSE 0)
  <2>1. CASE x > 0
    <3>1. Moved(c, l, x) = [less EXCEPT ![x] = less[x] + 1] /\ less[x] + 1 \in Int
      BY <1>2, <1>3, <2>1
    <3>2. Moved(c, l, x) \in [0..n -> Int]
      BY <1>1, <3>1
    <3>3. \A i \in 0..n : Moved(c, l, x)[i] = less[i] + (IF i = x /\ x > 0 THEN 1 ELSE 0)
      BY <1>1, <1>3, <2>1, <3>1, SMTT(30)
    <3>4. QED
      BY <1>1, <3>2, <3>3
  <2>2. CASE ~(x > 0)
    <3>1. Moved(c, l, x) = less
      BY <1>2, <2>2
    <3>2. \A i \in 0..n : less[i] = less[i] + (IF i = x /\ x > 0 THEN 1 ELSE 0)
      BY <1>3, <2>2
    <3>3. QED
      BY <1>1, <3>1, <3>2
  <2>3. QED
    BY <2>1, <2>2
<1> DEFINE m == Moved(c, l, x)
<1> HIDE DEF m
<1>7. ASSUME NEW i \in 0..n
      PROVE  /\ i = 0 \/ l = x \/ (i # l /\ i # x) => m[i] = c[i]
             /\ i # 0 /\ i = l /\ l # x => m[i] = c[i] - 1
             /\ i # 0 /\ i = x /\ l # x => m[i] = c[i] + 1
  <2>1. m[i] = c[i] - (IF i = l /\ l > 0 THEN 1 ELSE 0)
                    + (IF i = x /\ x > 0 THEN 1 ELSE 0)
    BY <1>6 DEF m
  <2>2. c[i] \in Nat /\ i \in Nat /\ l \in Nat /\ x \in Nat
    OBVIOUS
  <2>3. QED
    BY <2>1, <2>2
<1>8. QED
  BY <1>6, <1>7 DEF m

\* UpdateSummary keeps the counts of an attribute when an object goes from its
\* last value to x: that value loses it, x gains it, 0 is not counted.
LEMMA MovedCounts ==
  ASSUME NEW n \in Nat, NEW f \in [Vups -> 0..n],
         NEW cnt \in [Agents -> [0..n -> Nat]], Counts(cnt, f, n),
         NEW v \in Vups, NEW x \in 0..n,
         NEW f2, f2 = [f EXCEPT ![v] = x],
         NEW cnt2, cnt2 = [cnt EXCEPT ![AgentOf[v]] = Moved(@, f[v], x)]
  PROVE  cnt2 \in [Agents -> [0..n -> Nat]] /\ Counts(cnt2, f2, n)
<1> DEFINE b == AgentOf[v]
           l == f[v]
           m == Moved(cnt[b], l, x)
<1>1. b \in Agents /\ l \in 0..n /\ cnt[b] \in [0..n -> Nat]
  BY SummaryAssumption
<1>2. l > 0 => cnt[b][l] \in Nat \ {0}
  <2> SUFFICES ASSUME l > 0 PROVE cnt[b][l] # 0
    BY <1>1
  <2>1. v \in With(f, b, l)
    BY DEF With
  <2>2. cnt[b][l] = Cardinality(With(f, b, l))
    BY <1>1 DEF Counts
  <2>3. QED
    BY <2>1, <2>2, Finite, FS_EmptySet
<1>3. /\ m \in [0..n -> Int]
      /\ \A i \in 0..n :
           /\ i = 0 \/ l = x \/ (i # l /\ i # x) => m[i] = cnt[b][i]
           /\ i # 0 /\ i = l /\ l # x => m[i] = cnt[b][i] - 1
           /\ i # 0 /\ i = x /\ l # x => m[i] = cnt[b][i] + 1
  BY <1>1, MovedValues
<1>4. m \in [0..n -> Nat]
  <2>1. \A i \in 0..n : cnt[b][i] \in Nat
    BY <1>1
  <2>2. \A i \in 0..n : i # 0 /\ i = l => cnt[b][i] - 1 \in Nat
    BY <1>1, <1>2
  <2> HIDE DEF m, l
  <2>3. ASSUME NEW i \in 0..n PROVE m[i] \in Nat
    <3>1. CASE i # 0 /\ i = l /\ l # x
      BY <1>3, <2>2, <3>1
    <3>2. CASE i # 0 /\ i = x /\ l # x
      <4>1. m[i] = cnt[b][i] + 1
        BY <1>3, <3>2
      <4>2. QED
        BY <2>1, <4>1
    <3>3. CASE i = 0 \/ l = x \/ (i # l /\ i # x)
      BY <1>3, <2>1, <3>3
    <3>4. QED
      BY <3>1, <3>2, <3>3
  <2>4. QED
    BY <1>3, <2>3
<1>5. cnt2 = [cnt EXCEPT ![b] = m]
  BY <1>1
<1> HIDE DEF m
<1>6. ASSUME NEW a \in Agents, NEW i \in 1..n
      PROVE  cnt2[a][i] = Cardinality(With(f2, a, i))
  <2>0. i \in 0..n /\ i > 0 /\ cnt[a][i] = Cardinality(With(f, a, i))
        /\ cnt[a][i] \in Nat
    BY <1>6 DEF Counts
  <2>1. CASE a # b
    <3>1. With(f2, a, i) = With(f, a, i)
      BY <2>1 DEF With
    <3>2. QED
      BY <1>5, <2>0, <2>1, <3>1
  <2>2. CASE a = b /\ l = x
    <3>1. With(f2, a, i) = With(f, a, i)
      BY <2>2 DEF With
    <3>2. QED
      BY <1>1, <1>3, <1>5, <2>0, <2>2, <3>1
  <2>3. CASE a = b /\ l # x /\ i = l
    <3>1. With(f2, a, i) = With(f, a, i) \ {v} /\ v \in With(f, a, i)
      BY <2>3 DEF With
    <3>2. Cardinality(With(f2, a, i)) = Cardinality(With(f, a, i)) - 1
      <4>1. IsFiniteSet(With(f, a, i))
        BY Finite
      <4>2. QED
        BY <3>1, <4>1, FS_RemoveElement
    <3>3. QED
      BY <1>1, <1>3, <1>5, <2>0, <2>3, <3>2
  <2>4. CASE a = b /\ l # x /\ i = x
    <3>1. With(f2, a, i) = With(f, a, i) \cup {v} /\ v \notin With(f, a, i)
      BY <2>4 DEF With
    <3>2. Cardinality(With(f2, a, i)) = Cardinality(With(f, a, i)) + 1
      BY <3>1, Finite, FS_AddElement
    <3>3. QED
      BY <1>1, <1>3, <1>5, <2>0, <2>4, <3>2
  <2>5. CASE a = b /\ l # x /\ i # l /\ i # x
    <3>1. With(f2, a, i) = With(f, a, i)
      BY <2>5 DEF With
    <3>2. QED
      BY <1>1, <1>3, <1>5, <2>0, <2>5, <3>1
  <2>6. QED
    BY <2>1, <2>2, <2>3, <2>4, <2>5
<1>7. cnt2 \in [Agents -> [0..n -> Nat]]
  BY <1>4, <1>5
<1>8. QED
  BY <1>6, <1>7 DEF Counts

\* Dropping the counts of a host keeps them exact when no other object of the host
\* has a value that is counted.
LEMMA DroppedCounts ==
  ASSUME NEW n \in Nat, NEW f \in [Vups -> 0..n],
         NEW cnt \in [Agents -> [0..n -> Nat]], Counts(cnt, f, n),
         NEW v \in Vups, \A u \in Vups : AgentOf[u] = AgentOf[v] /\ u # v => f[u] = 0,
         NEW f2, f2 = [f EXCEPT ![v] = 0],
         NEW cnt2, cnt2 = [cnt EXCEPT ![AgentOf[v]] = [i \in 0..n |-> 0]]
  PROVE  cnt2 \in [Agents -> [0..n -> Nat]] /\ Counts(cnt2, f2, n)
<1>1. AgentOf[v] \in Agents
  BY SummaryAssumption
<1>2. cnt2 \in [Agents -> [0..n -> Nat]]
  BY <1>1
<1>3. ASSUME NEW a \in Agents, NEW i \in 1..n
      PROVE  cnt2[a][i] = Cardinality(With(f2, a, i))
  <2>0. i \in 0..n /\ i # 0
    OBVIOUS
  <2>1. CASE a = AgentOf[v]
    <3>1. With(f2, a, i) = {}
      BY <2>0, <2>1 DEF With
    <3>2. cnt2[a][i] = 0
      BY <1>1, <2>0, <2>1
    <3>3. QED
      BY <3>1, <3>2, FS_EmptySet
  <2>2. CASE a # AgentOf[v]
    <3>1. With(f2, a, i) = With(f, a, i)
      BY <2>2 DEF With
    <3>2. cnt2[a] = cnt[a]
      BY <2>2
    <3>3. QED
      BY <3>1, <3>2 DEF Counts
  <2>3. QED
    BY <2>1, <2>2
<1>4. QED
  BY <1>2, <1>3 DEF Counts

LEMMA InitSummary == SummaryInit => SummaryInv
<1> SUFFICES ASSUME SummaryInit PROVE SummaryInv
  OBVIOUS
<1>0. 0 \in Statuses /\ 0 \in Phases /\ 0 \in Nat
  BY SummaryAssumption DEF Statuses, Phases
<1>1. UnregisteredBlank /\ rows \subseteq counted
  BY DEF SummaryInit, UnregisteredBlank
<1>10. SummaryTypeOK
  <2>1. NoStatus \in [Statuses -> Nat] /\ NoPhase \in [Phases -> Nat]
    BY <1>0 DEF NoStatus, NoPhase
  <2> HIDE DEF SummaryInit
  <2>2. statusCnt \in [Agents -> [Statuses -> Nat]] /\ phaseCnt \in [Agents -> [Phases -> Nat]]
    BY <2>1 DEF SummaryInit
  <2>3. QED
    BY <1>0, <2>2 DEF SummaryInit, SummaryTypeOK
<1>2. ASSUME NEW a \in Agents PROVE Registered(a) = {}
  BY DEF SummaryInit, Registered
<1>3. HostsCounted /\ HostsExact
  BY <1>2, FS_EmptySet DEF SummaryInit, HostsCounted, HostsExact
<1>4. ASSUME NEW f \in [Vups -> {0}], NEW a \in Agents, NEW n \in Nat, NEW i \in 1..n
      PROVE  Cardinality(With(f, a, i)) = 0
  <2>1. With(f, a, i) = {}
    BY <1>4 DEF With
  <2>2. QED
    BY <2>1, FS_EmptySet
<1>5. status \in [Vups -> {0}] /\ phase \in [Vups -> {0}]
  BY DEF SummaryInit
<1>6. \A a \in Agents, i \in 1..MaxStatus : statusCnt[a][i] = 0
  BY SummaryAssumption DEF SummaryInit, NoStatus, Statuses
<1>7. \A a \in Agents, i \in 1..MaxPhase : phaseCnt[a][i] = 0
  BY SummaryAssumption DEF SummaryInit, NoPhase, Phases
<1>8. Counts(statusCnt, status, MaxStatus) /\ Counts(phaseCnt, phase, MaxPhase)
  BY <1>4, <1>5, <1>6, <1>7, SummaryAssumption DEF Counts
<1>9. QED
  BY <1>1, <1>3, <1>8, <1>10 DEF SummaryInv

\* SetStatus and SetTestPhase keep the types and the counts of both attributes.
LEMMA SetKeepsCounts ==
  ASSUME SummaryInv, NEW v \in Vups, NEW st \in Statuses, NEW ph \in Phases,
         SetStatus(v, st), SetTestPhase(v, st, ph)
  PROVE  /\ status' \in [Vups -> Statuses] /\ phase' \in [Vups -> Phases]
         /\ statusCnt' \in [Agents -> [Statuses -> Nat]]
         /\ phaseCnt' \in [Agents -> [Phases -> Nat]]
         /\ Counts(statusCnt', status', MaxStatus)
         /\ Counts(phaseCnt', phase', MaxPhase)
         /\ \A u \in Vups : u # v => status'[u] = status[u] /\ phase'[u] = phase[u]
<1>1. /\ status \in [Vups -> 0..MaxStatus] /\ phase \in [Vups -> 0..MaxPhase]
      /\ statusCnt \in [Agents -> [0..MaxStatus -> Nat]]
      /\ phaseCnt \in [Agents -> [0..MaxPhase -> Nat]]
      /\ Counts(statusCnt, status, MaxStatus) /\ Counts(phaseCnt, phase, MaxPhase)
      /\ st \in 0..MaxStatus /\ ph \in 0..MaxPhase
      /\ MaxStatus \in Nat /\ MaxPhase \in Nat
  BY SummaryAssumption DEF SummaryInv, SummaryTypeOK, Statuses, Phases
<1>2. status' = [status EXCEPT ![v] = st]
  BY DEF SetStatus
<1>3. statusCnt' \in [Agents -> [0..MaxStatus -> Nat]]
      /\ Counts(statusCnt', status', MaxStatus)
  <2>1. CASE st = status[v]
    <3>1. status' = status /\ statusCnt' = statusCnt
      BY <1>1, <2>1 DEF SetStatus
    <3>2. QED
      BY <1>1, <3>1
  <2>2. CASE st # status[v]
    <3>1. statusCnt' = [statusCnt EXCEPT ![AgentOf[v]] = Moved(@, status[v], st)]
      BY <2>2 DEF SetStatus
    <3>2. QED
      BY <1>1, <1>2, <3>1, MovedCounts
  <2>3. QED
    BY <2>1, <2>2
<1>4. /\ phaseCnt' \in [Agents -> [0..MaxPhase -> Nat]]
      /\ Counts(phaseCnt', phase', MaxPhase)
      /\ phase' \in [Vups -> 0..MaxPhase]
      /\ \A u \in Vups : u # v => phase'[u] = phase[u]
  <2>1. CASE ph = st
    <3>1. phase' = phase /\ phaseCnt' = phaseCnt
      BY <2>1 DEF SetTestPhase
    <3>2. QED
      BY <1>1, <3>1
  <2>2. CASE ph # st
    <3>1. /\ phase' = [phase EXCEPT ![v] = ph]
          /\ phaseCnt' = [phaseCnt EXCEPT ![AgentOf[v]] = Moved(@, phase[v], ph)]
      BY <2>2 DEF SetTestPhase
    <3>2. phaseCnt' \in [Agents -> [0..MaxPhase -> Nat]]
          /\ Counts(phaseCnt', phase', MaxPhase)
      BY <1>1, <3>1, MovedCounts
    <3>3. QED
      BY <1>1, <3>1, <3>2
  <2>3. QED
    BY <2>1, <2>2
<1>5. QED
  BY <1>1, <1>2, <1>3, <1>4 DEF Statuses, Phases

LEMMA RegisterSummary ==
  ASSUME SummaryInv, NEW v \in Vups, NEW st \in Statuses, NEW ph \in Phases,
         Register(v, st, ph)
  PROVE  SummaryInv'
<1> DEFINE b == AgentOf[v]
<1>1. b \in Agents /\ SummaryTypeOK
  BY SummaryAssumption DEF SummaryInv
<1>2. /\ life' = [life EXCEPT ![v] = "registered"]
      /\ vupCnt' = [vupCnt EXCEPT ![b] = @ + 1]
      /\ counted' = counted \cup {b}
      /\ again' = (again \/ life[v] = "registered")
      /\ UNCHANGED rows
      /\ SetStatus(v, st) /\ SetTestPhase(v, st, ph)
  BY DEF Register
<1>3. /\ status' \in [Vups -> Statuses] /\ phase' \in [Vups -> Phases]
      /\ statusCnt' \in [Agents -> [Statuses -> Nat]]
      /\ phaseCnt' \in [Agents -> [Phases -> Nat]]
      /\ Counts(statusCnt', status', MaxStatus)
      /\ Counts(phaseCnt', phase', MaxPhase)
      /\ \A u \in Vups : u # v => status'[u] = status[u] /\ phase'[u] = phase[u]
  BY <1>2, SetKeepsCounts
<1> HIDE DEF b
<1>4. SummaryTypeOK'
  <2>1. vupCnt[b] + 1 \in Nat
    BY <1>1 DEF SummaryTypeOK
  <2>2. vupCnt' \in [Agents -> Nat]
    BY <1>1, <1>2, <2>1 DEF SummaryTypeOK
  <2>3. /\ life' \in [Vups -> {"unused", "unregistered", "registered"}]
        /\ counted' \subseteq Agents /\ rows' \subseteq Agents /\ again' \in BOOLEAN
    BY <1>1, <1>2 DEF SummaryTypeOK
  <2>4. QED
    BY <1>3, <2>2, <2>3 DEF SummaryTypeOK
<1>5. UnregisteredBlank' /\ rows' \subseteq counted'
  BY <1>1, <1>2, <1>3 DEF UnregisteredBlank, SummaryInv, SummaryTypeOK
<1>6. ASSUME NEW a \in Agents
      PROVE  Registered(a)' = IF a = b THEN Registered(a) \cup {v} ELSE Registered(a)
  BY <1>1, <1>2 DEF Registered, SummaryTypeOK, b
<1>7. ASSUME NEW a \in Agents
      PROVE  Cardinality(Registered(a)') = IF a = b /\ life[v] # "registered"
                                           THEN Cardinality(Registered(a)) + 1
                                           ELSE Cardinality(Registered(a))
  <2>1. v \in Registered(b) <=> life[v] = "registered"
    BY DEF Registered, b
  <2>2. QED
    BY <1>6, <2>1, Finite, FS_AddElement
<1>8. \A a \in Agents : vupCnt'[a] = (IF a = b THEN vupCnt[a] + 1 ELSE vupCnt[a])
                        /\ vupCnt[a] \in Nat
  BY <1>1, <1>2 DEF SummaryTypeOK
<1>9. HostsCounted'
  BY <1>2, <1>6, <1>7, <1>8, Finite DEF HostsCounted, SummaryInv
<1>10. HostsExact'
  BY <1>2, <1>6, <1>7, <1>8, Finite DEF HostsExact, SummaryInv
<1>11. QED
  BY <1>3, <1>4, <1>5, <1>9, <1>10 DEF SummaryInv

LEMMA DeleteSummary ==
  ASSUME SummaryInv, NEW v \in Vups, DeleteVup(v) PROVE SummaryInv'
<1> DEFINE b == AgentOf[v]
<1>1. b \in Agents /\ SummaryTypeOK
  BY SummaryAssumption DEF SummaryInv
<1>2. /\ life[v] = "registered"
      /\ life' = [life EXCEPT ![v] = "unused"]
      /\ status' = [status EXCEPT ![v] = 0]
      /\ phase' = [phase EXCEPT ![v] = 0]
      /\ vupCnt' = [vupCnt EXCEPT ![b] = @ - 1]
      /\ UNCHANGED again
  BY DEF DeleteVup
<1>3. /\ IsLast(b) => /\ LastOneLeaves(b)
                      /\ statusCnt' = [statusCnt EXCEPT ![b] = NoStatus]
                      /\ phaseCnt' = [phaseCnt EXCEPT ![b] = NoPhase]
      /\ ~IsLast(b) => /\ statusCnt' = [statusCnt EXCEPT ![b] = Moved(@, status[v], 0)]
                       /\ phaseCnt' = [phaseCnt EXCEPT ![b] = Moved(@, phase[v], 0)]
                       /\ UNCHANGED <<counted, rows>>
  BY DEF DeleteVup
<1>4. v \in Registered(b)
  BY <1>2 DEF Registered
<1> HIDE DEF b
<1>5. ASSUME NEW a \in Agents
      PROVE  Registered(a)' = IF a = b THEN Registered(a) \ {v} ELSE Registered(a)
  BY <1>1, <1>2 DEF Registered, SummaryTypeOK, b
<1>6. ASSUME NEW a \in Agents
      PROVE  Cardinality(Registered(a)') = IF a = b THEN Cardinality(Registered(a)) - 1
                                           ELSE Cardinality(Registered(a))
  BY <1>4, <1>5, Finite, FS_RemoveElement
<1>7. /\ \A a \in Agents : vupCnt[a] \in Nat
      /\ \A a \in Agents : vupCnt'[a] = IF a = b THEN vupCnt[a] - 1 ELSE vupCnt[a]
      /\ Cardinality(Registered(b)) \in Nat \ {0}
      /\ Cardinality(Registered(b)) <= vupCnt[b]
  <2>1. Cardinality(Registered(b)) # 0
    BY <1>4, Finite, FS_EmptySet
  <2>2. QED
    BY <1>1, <1>2, <2>1, Finite DEF SummaryTypeOK, SummaryInv, HostsCounted
<1>8. vupCnt' \in [Agents -> Nat]
  <2>1. vupCnt[b] - 1 \in Nat
    BY <1>1, <1>7
  <2>2. vupCnt' = [vupCnt EXCEPT ![b] = vupCnt[b] - 1] /\ vupCnt \in [Agents -> Nat]
    BY <1>1, <1>2 DEF SummaryTypeOK
  <2>3. QED
    BY <2>1, <2>2
<1>9. IsLast(b) => Registered(b)' = {}
  <2> SUFFICES ASSUME vupCnt[b] = 1 PROVE Registered(b)' = {}
    BY DEF IsLast
  <2>1. Cardinality(Registered(b)') = 0
    BY <1>1, <1>6, <1>7
  <2>2. IsFiniteSet(Registered(b)')
    <3>1. Registered(b)' = Registered(b) \ {v}
      BY <1>1, <1>5
    <3>2. QED
      BY <3>1, Finite, FS_RemoveElement
  <2>3. QED
    BY <2>1, <2>2, FS_EmptySet
<1>10. UnregisteredBlank'
  BY <1>1, <1>2 DEF SummaryInv, UnregisteredBlank, SummaryTypeOK
<1>11. \A u \in Vups : IsLast(b) /\ AgentOf[u] = b /\ u # v => status[u] = 0 /\ phase[u] = 0
  <2> SUFFICES ASSUME IsLast(b), NEW u \in Vups, AgentOf[u] = b, u # v
               PROVE  life[u] # "registered"
    BY DEF SummaryInv, UnregisteredBlank
  <2>1. u \notin Registered(b)'
    BY <1>9
  <2>2. u \notin Registered(b)
    BY <1>1, <1>5, <2>1
  <2>3. QED
    BY <2>2 DEF Registered
<1>12. /\ status \in [Vups -> 0..MaxStatus] /\ phase \in [Vups -> 0..MaxPhase]
       /\ statusCnt \in [Agents -> [0..MaxStatus -> Nat]]
       /\ phaseCnt \in [Agents -> [0..MaxPhase -> Nat]]
       /\ Counts(statusCnt, status, MaxStatus) /\ Counts(phaseCnt, phase, MaxPhase)
       /\ MaxStatus \in Nat /\ MaxPhase \in Nat /\ 0 \in 0..MaxStatus /\ 0 \in 0..MaxPhase
       /\ NoStatus = [i \in 0..MaxStatus |-> 0] /\ NoPhase = [i \in 0..MaxPhase |-> 0]
  <2>1. MaxStatus \in Nat /\ MaxPhase \in Nat /\ 0 \in 0..MaxStatus /\ 0 \in 0..MaxPhase
    BY SummaryAssumption
  <2>2. NoStatus = [i \in 0..MaxStatus |-> 0] /\ NoPhase = [i \in 0..MaxPhase |-> 0]
    BY DEF Statuses, Phases, NoStatus, NoPhase
  <2>3. QED
    BY <2>1, <2>2 DEF SummaryInv, SummaryTypeOK, Statuses, Phases
<1>13. statusCnt' \in [Agents -> [0..MaxStatus -> Nat]]
       /\ Counts(statusCnt', status', MaxStatus)
  <2>1. CASE IsLast(b)
    <3>1. statusCnt' = [statusCnt EXCEPT ![AgentOf[v]] = [i \in 0..MaxStatus |-> 0]]
      BY <1>3, <1>12, <2>1 DEF b
    <3>2. \A u \in Vups : AgentOf[u] = AgentOf[v] /\ u # v => status[u] = 0
      BY <1>11, <2>1 DEF b
    <3>3. QED
      BY <1>2, <1>12, <3>1, <3>2, DroppedCounts
  <2>2. CASE ~IsLast(b)
    <3>1. statusCnt' = [statusCnt EXCEPT ![AgentOf[v]] = Moved(@, status[v], 0)]
      BY <1>3, <2>2 DEF b
    <3>2. QED
      BY <1>2, <1>12, <3>1, MovedCounts
  <2>3. QED
    BY <2>1, <2>2
<1>14. phaseCnt' \in [Agents -> [0..MaxPhase -> Nat]]
       /\ Counts(phaseCnt', phase', MaxPhase)
  <2>1. CASE IsLast(b)
    <3>1. phaseCnt' = [phaseCnt EXCEPT ![AgentOf[v]] = [i \in 0..MaxPhase |-> 0]]
      BY <1>3, <1>12, <2>1 DEF b
    <3>2. \A u \in Vups : AgentOf[u] = AgentOf[v] /\ u # v => phase[u] = 0
      BY <1>11, <2>1 DEF b
    <3>3. QED
      BY <1>2, <1>12, <3>1, <3>2, DroppedCounts
  <2>2. CASE ~IsLast(b)
    <3>1. phaseCnt' = [phaseCnt EXCEPT ![AgentOf[v]] = Moved(@, phase[v], 0)]
      BY <1>3, <2>2 DEF b
    <3>2. QED
      BY <1>2, <1>12, <3>1, MovedCounts
  <2>3. QED
    BY <2>1, <2>2
<1>15. SummaryTypeOK'
  <2>1. counted' \subseteq Agents /\ rows' \subseteq Agents
    BY <1>1, <1>3 DEF SummaryTypeOK, LastOneLeaves
  <2>2. /\ life' \in [Vups -> {"unused", "unregistered", "registered"}]
        /\ status' \in [Vups -> Statuses] /\ phase' \in [Vups -> Phases]
        /\ again' \in BOOLEAN
    <3>1. life' \in [Vups -> {"unused", "unregistered", "registered"}]
      BY <1>1, <1>2 DEF SummaryTypeOK
    <3>2. status' \in [Vups -> Statuses]
      BY <1>1, <1>2, SummaryAssumption DEF SummaryTypeOK, Statuses
    <3>3. phase' \in [Vups -> Phases]
      BY <1>1, <1>2, SummaryAssumption DEF SummaryTypeOK, Phases
    <3>4. again' \in BOOLEAN
      BY <1>1, <1>2 DEF SummaryTypeOK
    <3>5. QED
      BY <3>1, <3>2, <3>3, <3>4
  <2>3. QED
    BY <1>8, <1>13, <1>14, <2>1, <2>2 DEF SummaryTypeOK, Statuses, Phases
<1>16. rows' \subseteq counted'
  BY <1>3 DEF SummaryInv, LastOneLeaves
<1>17. HostsCounted'
  <2> SUFFICES ASSUME NEW a \in Agents
               PROVE  /\ Cardinality(Registered(a)') <= vupCnt'[a]
                      /\ Registered(a)' # {} => a \in counted'
    BY DEF HostsCounted
  <2>1. Cardinality(Registered(a)') <= vupCnt'[a]
    BY <1>6, <1>7, Finite DEF SummaryInv, HostsCounted
  <2>2. Registered(a)' # {} => a \in counted'
    BY <1>3, <1>5, <1>9 DEF SummaryInv, HostsCounted, LastOneLeaves
  <2>3. QED
    BY <2>1, <2>2
<1>18. HostsExact'
  <2> SUFFICES ASSUME ~again, NEW a \in Agents
               PROVE  /\ vupCnt'[a] = Cardinality(Registered(a)')
                      /\ a \in counted' <=> Registered(a)' # {}
    BY <1>2 DEF HostsExact
  <2>0. /\ vupCnt[a] = Cardinality(Registered(a))
        /\ a \in counted <=> Registered(a) # {}
    BY DEF SummaryInv, HostsExact
  <2>1. vupCnt'[a] = Cardinality(Registered(a)')
    BY <1>6, <1>7, <2>0
  <2>2. CASE a # b
    <3>1. Registered(a)' = Registered(a) /\ (a \in counted' <=> a \in counted)
      BY <1>3, <1>5, <2>2 DEF LastOneLeaves
    <3>2. QED
      BY <2>0, <2>1, <3>1
  <2>3. CASE a = b /\ IsLast(b)
    <3>1. Registered(a)' = {} /\ a \notin counted'
      BY <1>3, <1>9, <2>3 DEF LastOneLeaves
    <3>2. QED
      BY <2>1, <3>1
  <2>4. CASE a = b /\ ~IsLast(b)
    <3>1. a \in counted'
      BY <1>3, <1>4, <2>0, <2>4
    <3>2. vupCnt'[a] # 0
      BY <1>7, <2>4 DEF IsLast
    <3>3. Registered(a)' # {}
      BY <2>1, <3>2, FS_EmptySet
    <3>4. QED
      BY <2>1, <3>1, <3>3
  <2>5. QED
    BY <2>1, <2>2, <2>3, <2>4
<1>19. QED
  BY <1>10, <1>13, <1>14, <1>15, <1>16, <1>17, <1>18 DEF SummaryInv

LEMMA SummaryStep == SummaryInv /\ [SummaryNext]_summaryVars => SummaryInv'
<1> SUFFICES ASSUME SummaryInv, [SummaryNext]_summaryVars PROVE SummaryInv'
  OBVIOUS
<1>0. ASSUME UNCHANGED <<status, phase, counted, vupCnt, statusCnt, phaseCnt, again>>,
             life' \in [Vups -> {"unused", "unregistered", "registered"}],
             \A u \in Vups : life'[u] = "registered" <=> life[u] = "registered",
             rows' \subseteq rows \cup counted
      PROVE  SummaryInv'
  <2>1. \A a \in Agents : Registered(a)' = Registered(a)
    BY <1>0 DEF Registered
  <2>2. SummaryTypeOK' /\ UnregisteredBlank' /\ rows' \subseteq counted'
    BY <1>0 DEF SummaryInv, SummaryTypeOK, UnregisteredBlank
  <2>3. HostsCounted' /\ HostsExact'
    BY <1>0, <2>1 DEF SummaryInv, HostsCounted, HostsExact
  <2>4. QED
    BY <1>0, <2>2, <2>3 DEF SummaryInv, Counts, With
<1>1. ASSUME NEW v \in Vups, Connect(v) PROVE SummaryInv'
  BY <1>0, <1>1 DEF Connect, SummaryInv, SummaryTypeOK
<1>2. ASSUME NEW v \in Vups, DeleteVup(v) PROVE SummaryInv'
  BY <1>2, DeleteSummary
<1>3. ASSUME NEW v \in Vups, NEW st \in Statuses, NEW ph \in Phases, Register(v, st, ph)
      PROVE  SummaryInv'
  BY <1>3, RegisterSummary
<1>4. ASSUME NEW v \in Vups, NEW st \in Statuses, NEW ph \in Phases, Report(v, st, ph)
      PROVE  SummaryInv'
  <2>1. UNCHANGED <<life, counted, vupCnt, rows, again>> /\ life[v] = "registered"
    BY <1>4 DEF Report
  <2>2. /\ status' \in [Vups -> Statuses] /\ phase' \in [Vups -> Phases]
        /\ statusCnt' \in [Agents -> [Statuses -> Nat]]
        /\ phaseCnt' \in [Agents -> [Phases -> Nat]]
        /\ Counts(statusCnt', status', MaxStatus)
        /\ Counts(phaseCnt', phase', MaxPhase)
        /\ \A u \in Vups : u # v => status'[u] = status[u] /\ phase'[u] = phase[u]
    BY <1>4, SetKeepsCounts DEF Report
  <2>3. SummaryTypeOK' /\ UnregisteredBlank'
    BY <2>1, <2>2 DEF SummaryInv, SummaryTypeOK, UnregisteredBlank
  <2>4. HostsCounted' /\ HostsExact'
    BY <2>1 DEF SummaryInv, HostsCounted, HostsExact, Registered
  <2>5. QED
    BY <2>1, <2>2, <2>3, <2>4 DEF SummaryInv
<1>5. CASE Draw
  BY <1>0, <1>5 DEF Draw, SummaryInv, SummaryTypeOK
<1>6. CASE UNCHANGED summaryVars
  BY <1>0, <1>6 DEF summaryVars, SummaryInv, SummaryTypeOK
<1>7. QED
  BY <1>1, <1>2, <1>3, <1>4, <1>5, <1>6 DEF SummaryNext

LEMMA SummaryAlways == SummarySpec => []SummaryInv
BY InitSummary, SummaryStep, PTL DEF SummarySpec

\* The counts per status and per phase, which are only ever updated by
\* differences, are those of the registered objects of the host, however often
\* clients register; dropping them with the host's entry loses nothing, because
\* the entry's count is never below the number of registered objects.
THEOREM CountsCorrect == SummarySpec => []CountsExact
<1>1. SummaryInv => CountsExact
  <2> SUFFICES ASSUME SummaryInv, NEW a \in Agents
               PROVE  /\ Registered(a) # {} => a \in counted
                      /\ \A s \in Statuses \ {0} :
                           statusCnt[a][s] = Cardinality(InStatus(a, s))
                      /\ \A p \in Phases \ {0} :
                           phaseCnt[a][p] = Cardinality(InPhase(a, p))
    BY DEF CountsExact, SummaryInv
  <2>1. \A s \in Statuses \ {0} : s \in 1..MaxStatus /\ InStatus(a, s) = With(status, a, s)
    BY SummaryAssumption
       DEF SummaryInv, UnregisteredBlank, InStatus, Registered, With, Statuses
  <2>2. \A p \in Phases \ {0} : p \in 1..MaxPhase /\ InPhase(a, p) = With(phase, a, p)
    BY SummaryAssumption
       DEF SummaryInv, UnregisteredBlank, InPhase, Registered, With, Phases
  <2>3. QED
    BY <2>1, <2>2 DEF SummaryInv, HostsCounted, Counts
<1>2. QED
  BY <1>1, SummaryAlways, PTL

\* As long as no client registers twice on a connection, a host has an entry
\* exactly while it has registered clients, and the entry has their number.
THEOREM HostsCorrect == SummarySpec => []HostsExact
<1>1. SummaryInv => HostsExact
  BY DEF SummaryInv
<1>2. QED
  BY <1>1, SummaryAlways, PTL
=============================================================================
