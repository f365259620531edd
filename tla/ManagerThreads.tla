--------------------------- MODULE ManagerThreads ---------------------------
(***************************************************************************)
(* The threads of the VUP manager and the end of the manager.              *)
(*                                                                         *)
(* Thread::Stop (src/src/TLibMain/TCore_Thread.cpp) asks a thread to quit, *)
(* waits for it, and terminates it when the wait times out.  A terminated  *)
(* thread keeps the mutexes it holds.  VMVupManager::~VMVupManager stops   *)
(* the listening thread and the log thread with a time-out, because both   *)
(* sit in UDT::accept, and then waits for the working thread for as long   *)
(* as it takes.                                                            *)
(*                                                                         *)
(* Of the code between two waits only the mutexes it takes matter here:    *)
(* `todo` holds those a thread still has to take, in order, before it is   *)
(* through with its round, and each is released before the next is taken.  *)
(* What the critical sections do is modelled in VupRegistry and MemPool.   *)
(***************************************************************************)
EXTENDS Naturals, Sequences

CONSTANT MaxPackets   \* bound: packets the working thread inserts per round

ASSUME PacketsAssumption == MaxPackets \in Nat

StopOrder == <<"listener", "logger", "worker">>
Threads == {"listener", "logger", "worker"}
Nobody == "nobody"
Mutexes == {"clientSockets", "bySocket", "pool"}

VARIABLES
  mainPc,   \* the main thread: between ticks, in a tick, in the destructor
  stopping, \* index in StopOrder of the thread the destructor has reached
  pc,       \* where each thread is
  started,  \* Thread::m_bStarted
  quit,     \* m_bRequestStop of each runner
  todo,     \* mutexes to take before the round ends; the first may be held
  owner,    \* who holds each mutex
  deleted,  \* threads whose Thread object is deleted
  missed    \* threads that had not begun when Stop looked; no code reads it

vars == <<mainPc, stopping, pc, started, quit, todo, owner, deleted, missed>>

Dead(t) == pc[t] \in {"ended", "terminated"}
Holds(t) == todo[t] # <<>> /\ owner[Head(todo[t])] = t

\* Every variable has its type, and a mutex is held by whoever is at it: nobody
\* leaves a critical section without releasing, unless it is terminated there.
TypeOK ==
  /\ mainPc \in {"idle", "tick", "stop", "wait", "delete", "done"}
  /\ stopping \in 1..(Len(StopOrder) + 1)
  /\ pc \in [Threads -> {"created", "loop", "blocked", "select", "busy", "ended", "terminated"}]
  /\ started \in [Threads -> BOOLEAN]
  /\ quit \in [Threads -> BOOLEAN]
  /\ todo \in [Threads \cup {"main"} -> Seq(Mutexes)]
  /\ owner \in [Mutexes -> Threads \cup {"main", Nobody}]
  /\ deleted \subseteq Threads
  /\ missed \subseteq Threads
  /\ \A m \in Mutexes : owner[m] # Nobody =>
       todo[owner[m]] # <<>> /\ Head(todo[owner[m]]) = m

\* Create has started the three threads; none of them has run yet.
Init ==
  /\ mainPc = "idle"
  /\ stopping = 1
  /\ pc = [t \in Threads |-> "created"]
  /\ started = [t \in Threads |-> FALSE]
  /\ quit = [t \in Threads |-> FALSE]
  /\ todo = [t \in Threads \cup {"main"} |-> <<>>]
  /\ owner = [m \in Mutexes |-> Nobody]
  /\ deleted = {}
  /\ missed = {}

-----------------------------------------------------------------------------
(* The mutexes taken by each piece of code, in order. *)

\* FindVupBySocket; then AddVupBySocket's insertion and AddClientSocket when the
\* socket is new.
NewClient == {<<"bySocket">>, <<"bySocket", "bySocket", "clientSockets">>}
Insertions == {[i \in 1..n |-> "pool"] : n \in 0..MaxPackets}

\* A tick without packets; one whose packet needs no lock; one that registers a
\* client or finds a lost connection unknown; LostConnection.
TickLocks == {<<>>, <<"pool">>, <<"pool", "bySocket">>,
              <<"pool", "bySocket", "bySocket", "clientSockets">>}

-----------------------------------------------------------------------------
(* Locks. *)

Acquire(t) ==
  /\ todo[t] # <<>>
  /\ owner[Head(todo[t])] = Nobody
  /\ owner' = [owner EXCEPT ![Head(todo[t])] = t]
  /\ UNCHANGED <<mainPc, stopping, pc, started, quit, todo, deleted, missed>>

\* A mutant: an early return leaves the mutex locked.
ReturnLocked(t) ==
  /\ Holds(t)
  /\ todo' = [todo EXCEPT ![t] = Tail(@)]
  /\ UNCHANGED <<mainPc, stopping, pc, started, quit, owner, deleted, missed>>

Release(t) ==
  /\ Holds(t)
  /\ owner' = [owner EXCEPT ![Head(todo[t])] = Nobody]
  /\ todo' = [todo EXCEPT ![t] = Tail(@)]
  /\ UNCHANGED <<mainPc, stopping, pc, started, quit, deleted, missed>>

-----------------------------------------------------------------------------
(* The three threads. *)

\* Thread::_Run.
Begin(t) ==
  /\ pc[t] = "created"
  /\ pc' = [pc EXCEPT ![t] = "loop"]
  /\ started' = [started EXCEPT ![t] = TRUE]
  /\ UNCHANGED <<mainPc, stopping, quit, todo, owner, deleted, missed>>

\* A runner returns and _Run with it.
End(t) ==
  /\ pc' = [pc EXCEPT ![t] = "ended"]
  /\ started' = [started EXCEPT ![t] = FALSE]

\* The test of the while loop.
Test(t) ==
  /\ pc[t] = "loop"
  /\ \/ /\ quit[t]
        /\ End(t)
        /\ UNCHANGED todo
     \/ /\ ~quit[t] /\ t # "worker"
        /\ pc' = [pc EXCEPT ![t] = "blocked"]
        /\ UNCHANGED <<started, todo>>
     \/ /\ ~quit[t] /\ t = "worker"
        /\ pc' = [pc EXCEPT ![t] = "select"]
        /\ todo' = [todo EXCEPT ![t] = <<"clientSockets">>]
        /\ UNCHANGED started
  /\ UNCHANGED <<mainPc, stopping, quit, owner, deleted, missed>>

\* UDT::accept returns: a client has connected, or the call failed.
Accepted(t) ==
  /\ pc[t] = "blocked"
  /\ pc' = [pc EXCEPT ![t] = "busy"]
  /\ IF t = "listener" THEN \E locks \in NewClient : todo' = [todo EXCEPT ![t] = locks]
                       ELSE UNCHANGED todo
  /\ UNCHANGED <<mainPc, stopping, started, quit, owner, deleted, missed>>
AcceptFails(t) ==
  /\ pc[t] = "blocked"
  /\ End(t)
  /\ UNCHANGED <<mainPc, stopping, quit, todo, owner, deleted, missed>>

\* UDT::selectEx has returned and the list of sockets is released.
Selected(t) ==
  /\ pc[t] = "select" /\ todo[t] = <<>>
  /\ \/ /\ pc' = [pc EXCEPT ![t] = "busy"]
        /\ \E locks \in Insertions : todo' = [todo EXCEPT ![t] = locks]
        /\ UNCHANGED started
     \/ /\ End(t)
        /\ UNCHANGED todo
  /\ UNCHANGED <<mainPc, stopping, quit, owner, deleted, missed>>

\* The round is over.  The log thread may stay in UDT::recvfile for ever.
EndRound(t) ==
  /\ pc[t] = "busy" /\ todo[t] = <<>>
  /\ pc' = [pc EXCEPT ![t] = "loop"]
  /\ UNCHANGED <<mainPc, stopping, started, quit, todo, owner, deleted, missed>>

-----------------------------------------------------------------------------
(* The main thread. *)

StartTick ==
  /\ mainPc = "idle"
  /\ mainPc' = "tick"
  /\ \E locks \in TickLocks : todo' = [todo EXCEPT !["main"] = locks]
  /\ UNCHANGED <<stopping, pc, started, quit, owner, deleted, missed>>
EndTick ==
  /\ mainPc = "tick" /\ todo["main"] = <<>>
  /\ mainPc' = "idle"
  /\ UNCHANGED <<stopping, pc, started, quit, todo, owner, deleted, missed>>

\* The window is closed: the engine deletes its objects after the last tick.
Shutdown ==
  /\ mainPc = "idle"
  /\ mainPc' = "stop"
  /\ UNCHANGED <<stopping, pc, started, quit, todo, owner, deleted, missed>>

Current == StopOrder[stopping]
InDestructor(step) == stopping <= Len(StopOrder) /\ mainPc = step

\* A mutant: the runner is not told.
StopSilently ==
  /\ InDestructor("stop")
  /\ mainPc' = IF started[Current] THEN "wait" ELSE "delete"
  /\ missed' = IF pc[Current] = "created" THEN missed \cup {Current} ELSE missed
  /\ UNCHANGED <<stopping, pc, started, quit, todo, owner, deleted>>

\* Thread::Stop up to the wait; a thread that has not started is left alone.
Stop ==
  /\ InDestructor("stop")
  /\ IF started[Current]
     THEN /\ quit' = [quit EXCEPT ![Current] = TRUE]
          /\ mainPc' = "wait"
     ELSE /\ mainPc' = "delete"
          /\ UNCHANGED quit
  /\ missed' = IF pc[Current] = "created" THEN missed \cup {Current} ELSE missed
  /\ UNCHANGED <<stopping, pc, started, todo, owner, deleted>>

\* The wait ends.
Joined ==
  /\ InDestructor("wait")
  /\ pc[Current] = "ended"
  /\ mainPc' = "delete"
  /\ UNCHANGED <<stopping, pc, started, quit, todo, owner, deleted, missed>>

\* A mutant: the thread is given up, not terminated.
GiveUp ==
  /\ InDestructor("wait")
  /\ Current # "worker" /\ pc[Current] # "ended"
  /\ mainPc' = "delete"
  /\ UNCHANGED <<stopping, pc, started, quit, todo, owner, deleted, missed>>

\* The wait times out, except for the working thread: TerminateThread.
TimeOut ==
  /\ InDestructor("wait")
  /\ Current # "worker" /\ pc[Current] # "ended"
  /\ mainPc' = "delete"
  /\ pc' = [pc EXCEPT ![Current] = "terminated"]
  /\ UNCHANGED <<stopping, started, quit, todo, owner, deleted, missed>>

Delete ==
  /\ InDestructor("delete")
  /\ deleted' = deleted \cup {Current}
  /\ stopping' = stopping + 1
  /\ mainPc' = "stop"
  /\ UNCHANGED <<pc, started, quit, todo, owner, missed>>

\* UDT::cleanup and the deletion of the packet pool.
Cleanup ==
  /\ stopping > Len(StopOrder)
  /\ mainPc = "stop"
  /\ mainPc' = "done"
  /\ UNCHANGED <<stopping, pc, started, quit, todo, owner, deleted, missed>>

-----------------------------------------------------------------------------
\* A thread runs on an object that is deleted; nothing is claimed after that.
RunsDeleted == \E t \in deleted : pc[t] # "created" /\ ~Dead(t)

Step(t) == Begin(t) \/ Test(t) \/ Selected(t) \/ EndRound(t) \/
           (~Dead(t) /\ (Acquire(t) \/ Release(t)))
Network(t) == Accepted(t) \/ AcceptFails(t)
Main ==
  \/ StartTick \/ EndTick
  \/ Acquire("main") \/ Release("main")
  \/ Stop \/ Joined \/ TimeOut \/ Delete \/ Cleanup

Next ==
  /\ ~RunsDeleted
  /\ \/ \E t \in Threads : Step(t) \/ Network(t)
     \/ Main
     \/ Shutdown

Spec == Init /\ [][Next]_vars

\* Threads that can run do, except that the log thread may receive for ever.
FairSpec ==
  /\ Spec
  /\ WF_vars(~RunsDeleted /\ Main)
  /\ \A t \in {"listener", "worker"} : WF_vars(~RunsDeleted /\ Step(t))

-----------------------------------------------------------------------------
(* Properties. *)

\* A thread whose object is deleted has ended or was terminated, so it touches
\* neither the manager nor its pool again, unless Stop came before the thread
\* had begun: m_bStarted is set by the new thread and not by Start.
OnlyMissedOutlive == \A t \in deleted \ missed : Dead(t)

\* The working thread waits for ever for the list of sockets.
Orphaned == owner["clientSockets"] = "listener" /\ pc["listener"] = "terminated"

\* The destructor completes, although it waits for the working thread without a
\* time-out, unless it terminated the listening thread inside AddClientSocket
\* (or a thread outlived its object).
ShutdownCompletes ==
  mainPc = "stop" ~> mainPc = "done" \/ Orphaned \/ RunsDeleted
=============================================================================
