------------------------------ MODULE MemPool ------------------------------
(***************************************************************************)
(* MemPool<T> (src/src/TLibMain/TUtility_MemPool.h), the buffer between the *)
(* threads that receive packets and the main thread of the VUP manager, of  *)
(* the VUP client and of the soccer debugger.                               *)
(*                                                                         *)
(* The deque is touched under the mutex only, so what happens to it under   *)
(* one hold of the mutex is one step.  The field size is also read without  *)
(* the mutex, by GetSize and by the first test of GetUDPData, so its        *)
(* updates are steps of their own.  The callers use the number that GetSize *)
(* returned and never look at what GetUDPData returns.                      *)
(***************************************************************************)
EXTENDS Naturals, Sequences

CONSTANTS
  Threads,    \* the threads, all of which may insert
  Consumer,   \* the main thread: GetSize, GetUDPData, CleanBuff
  NoThread,
  Packets,
  MaxSize,    \* maxsize
  MaxLoss     \* bound: insertions start only while fewer packets were lost

ASSUME PoolAssumption ==
  /\ Consumer \in Threads
  /\ NoThread \notin Threads
  /\ MaxSize \in Nat /\ MaxLoss \in Nat

VARIABLES
  mempool, size, loss,
  owner,      \* the thread in the critical section s
  pc,         \* where each thread is
  packet,     \* the argument of InsertUDPData, while pc is not "idle"
  asked,      \* iSize of the consumer: what GetSize returned
  cnt,        \* cnt of GetUDPData
  batch       \* poPacArray of the consumer

vars == <<mempool, size, loss, owner, pc, packet, asked, cnt, batch>>

Inserting == {"insert", "testing", "pushed"}
Getting == {"get", "locking", "copy", "copied"}
Holding == {"testing", "pushed", "copy", "copied", "unlock"}
Labels == {"idle"} \cup Inserting \cup Getting \cup Holding

\* Every variable has its type, and the pool never exceeds its limit.
TypeOK ==
  /\ mempool \in Seq(Packets) /\ Len(mempool) <= MaxSize
  /\ size \in Nat /\ loss \in Nat
  /\ owner \in Threads \cup {NoThread}
  /\ pc \in [Threads -> Labels]
  /\ packet \in [Threads -> Packets]
  /\ asked \in Nat /\ cnt \in Nat
  /\ batch \in Seq(Packets)

Init ==
  /\ mempool = <<>>
  /\ size = 0
  /\ loss = 0
  /\ owner = NoThread
  /\ pc = [t \in Threads |-> "idle"]
  /\ packet \in [Threads -> Packets]
  /\ asked = 0
  /\ cnt = 0
  /\ batch = <<>>

Goto(t, label) == pc' = [pc EXCEPT ![t] = label]

-----------------------------------------------------------------------------
(* InsertUDPData *)

Call(t, x) ==
  /\ pc[t] = "idle"
  /\ loss < MaxLoss
  /\ packet' = [packet EXCEPT ![t] = x]
  /\ Goto(t, "insert")
  /\ UNCHANGED <<mempool, size, loss, owner, asked, cnt, batch>>

\* A mutant: the mutex is not taken.
InsertUnlocked(t) ==
  /\ pc[t] = "insert"
  /\ Goto(t, "testing")
  /\ UNCHANGED <<mempool, size, loss, owner, packet, asked, cnt, batch>>

InsertLock(t) ==
  /\ pc[t] = "insert"
  /\ owner = NoThread
  /\ owner' = t
  /\ Goto(t, "testing")
  /\ UNCHANGED <<mempool, size, loss, packet, asked, cnt, batch>>

HasRoom == size < MaxSize

PushBack(t) ==
  /\ pc[t] = "testing"
  /\ HasRoom
  /\ mempool' = Append(mempool, packet[t])
  /\ Goto(t, "pushed")
  /\ UNCHANGED <<size, loss, owner, packet, asked, cnt, batch>>

Lose(t) ==
  /\ pc[t] = "testing"
  /\ ~HasRoom
  /\ loss' = loss + 1
  /\ Goto(t, "unlock")
  /\ UNCHANGED <<mempool, size, owner, packet, asked, cnt, batch>>

\* size++
CountUp(t) ==
  /\ pc[t] = "pushed"
  /\ size' = size + 1
  /\ Goto(t, "unlock")
  /\ UNCHANGED <<mempool, loss, owner, packet, asked, cnt, batch>>

UnLock(t) ==
  /\ pc[t] = "unlock"
  /\ owner' = NoThread
  /\ Goto(t, "idle")
  /\ UNCHANGED <<mempool, size, loss, packet, asked, cnt, batch>>

-----------------------------------------------------------------------------
(* The consumer. *)

\* GetSize, without the mutex; the caller goes on when there is something.
GetSize ==
  /\ pc[Consumer] = "idle"
  /\ size # 0
  /\ asked' = size
  /\ Goto(Consumer, "get")
  /\ UNCHANGED <<mempool, size, loss, owner, packet, cnt, batch>>

\* GetUDPData: the size is read again, without the mutex.
Limit ==
  /\ pc[Consumer] = "get"
  /\ cnt' = IF size < asked THEN size ELSE asked
  /\ Goto(Consumer, "locking")
  /\ UNCHANGED <<mempool, size, loss, owner, packet, asked, batch>>

GetLock ==
  /\ pc[Consumer] = "locking"
  /\ owner = NoThread
  /\ owner' = Consumer
  /\ Goto(Consumer, "copy")
  /\ UNCHANGED <<mempool, size, loss, packet, asked, cnt, batch>>

\* The first cnt packets are copied and erased.
Copy ==
  /\ pc[Consumer] = "copy"
  /\ batch' = SubSeq(mempool, 1, cnt)
  /\ mempool' = SubSeq(mempool, cnt + 1, Len(mempool))
  /\ Goto(Consumer, "copied")
  /\ UNCHANGED <<size, loss, owner, packet, asked, cnt>>

\* A mutant: all packets are thought to be gone.
ResetSize ==
  /\ pc[Consumer] = "copied"
  /\ size' = 0
  /\ Goto(Consumer, "unlock")
  /\ UNCHANGED <<mempool, loss, owner, packet, asked, cnt, batch>>

\* size -= cnt
CountDown ==
  /\ pc[Consumer] = "copied"
  /\ size' = size - cnt
  /\ Goto(Consumer, "unlock")
  /\ UNCHANGED <<mempool, loss, owner, packet, asked, cnt, batch>>

\* A mutant: another thread cleans the pool while the consumer is about to fetch.
CleanBuffEarly ==
  /\ pc[Consumer] \in {"idle", "get"}
  /\ owner = NoThread
  /\ size' = 0
  /\ loss' = 0
  /\ mempool' = <<>>
  /\ UNCHANGED <<owner, pc, packet, asked, cnt, batch>>

\* CleanBuff, whole under one hold of the mutex; its caller is also the only
\* thread that reads size without the mutex.
CleanBuff ==
  /\ pc[Consumer] = "idle"
  /\ owner = NoThread
  /\ size' = 0
  /\ loss' = 0
  /\ mempool' = <<>>
  /\ UNCHANGED <<owner, pc, packet, asked, cnt, batch>>

Insert(t) ==
  \/ \E x \in Packets : Call(t, x)
  \/ InsertLock(t) \/ PushBack(t) \/ Lose(t) \/ CountUp(t) \/ UnLock(t)
GetUDPData == GetSize \/ Limit \/ GetLock \/ Copy \/ CountDown

Next == (\E t \in Threads : Insert(t)) \/ GetUDPData \/ CleanBuff

Spec == Init /\ [][Next]_vars

\* A thread in a function goes on; the main thread asks in every tick and inserts
\* a bounded number of packets in between; a thread that waits for the mutex gets
\* it when it is free often enough.
Proceed(t) == PushBack(t) \/ Lose(t) \/ CountUp(t) \/ UnLock(t)
FairSpec ==
  /\ Spec
  /\ \A t \in Threads : WF_vars(Proceed(t)) /\ SF_vars(InsertLock(t))
  /\ SF_vars(GetSize)
  /\ WF_vars(Limit \/ Copy \/ CountDown)
  /\ SF_vars(GetLock)

-----------------------------------------------------------------------------
(* Properties. *)

\* The array the consumer has allocated for GetSize() packets is filled, although
\* GetUDPData may return fewer and nobody looks (_HandleUdpPack, _HandleRecvPack).
BatchIsWhole == pc[Consumer] = "idle" => Len(batch) = asked

\* The mutex is held by the thread that is inside, and only the consumer fetches.
MutexAgrees ==
  /\ \A t \in Threads : pc[t] \in Holding <=> owner = t
  /\ \A t \in Threads : pc[t] \in Getting => t = Consumer

\* size is the length of the deque but for the pending update of the holder.
SizeAgrees ==
  /\ owner = NoThread => size = Len(mempool)
  /\ \A t \in Threads : owner = t =>
       size + (IF pc[t] = "pushed" THEN 1 ELSE 0)
         = Len(mempool) + (IF pc[t] = "copied" THEN cnt ELSE 0)

\* The consumer is never promised more packets than there are.
PromiseAgrees ==
  /\ pc[Consumer] \in {"get", "locking", "copy"} => asked \in 1..size
  /\ pc[Consumer] \in {"locking", "copy", "copied"} => cnt = asked
  /\ pc[Consumer] \notin {"get", "locking", "copy"} => Len(batch) = asked

\* The reads of size without the mutex are harmless: they may miss a packet that
\* is being pushed, and never see one that is not there.
PoolAgrees == MutexAgrees /\ SizeAgrees /\ PromiseAgrees

Promised == IF pc[Consumer] \in {"get", "locking", "copy"} THEN asked ELSE 0

Fifo == INSTANCE PacketFifo WITH
  queue <- mempool, asked <- Promised, batch <- batch, lost <- loss

\* The pool is a first-in first-out buffer with a limit that loses packets only
\* when it is full, whatever the unlocked reads of size see.
IsFifo == Fifo!Spec

\* Every packet in the pool leaves it: no one keeps the mutex, and the main
\* thread is not kept out by the receivers.
PacketsLeave ==
  \A x \in Packets :
    (\E i \in DOMAIN mempool : mempool[i] = x)
      ~> (\A i \in DOMAIN mempool : mempool[i] # x) \/ (\E i \in DOMAIN batch : batch[i] = x)
=============================================================================
