--------------------------- MODULE MemPoolProofs ---------------------------
(* MemPool implements PacketFifo, for every number of threads, limit and set *)
(* of packets.                                                              *)
EXTENDS MemPool, SequenceTheorems, TLAPS

IInv == TypeOK /\ PoolAgrees

USE PoolAssumption

LEMMA InitInv == Init => IInv
<1> SUFFICES ASSUME Init PROVE IInv
  OBVIOUS
<1>1. TypeOK
  BY DEF Init, TypeOK, Labels
<1>2. PoolAgrees
  BY DEF Init, PoolAgrees, MutexAgrees, SizeAgrees, PromiseAgrees, Holding, Getting
<1>3. QED
  BY <1>1, <1>2 DEF IInv

\* Any thread: InsertUDPData.
LEMMA InsertInv == ASSUME IInv, NEW t \in Threads, Insert(t) PROVE IInv'
<1> USE DEF IInv
<1>1. ASSUME NEW x \in Packets, Call(t, x) PROVE IInv'
  <2>1. TypeOK'
    BY <1>1 DEF Call, Goto, TypeOK, Labels, Inserting
  <2>2. PoolAgrees'
    BY <1>1 DEF Call, Goto, TypeOK, PoolAgrees, MutexAgrees, SizeAgrees, PromiseAgrees, Holding, Getting
  <2>3. QED
    BY <2>1, <2>2
<1>2. CASE InsertLock(t)
  <2>1. TypeOK'
    BY <1>2 DEF InsertLock, Goto, TypeOK, Labels, Inserting
  <2>2. PoolAgrees'
    BY <1>2 DEF InsertLock, Goto, TypeOK, PoolAgrees, MutexAgrees, SizeAgrees, PromiseAgrees, Holding, Getting
  <2>3. QED
    BY <2>1, <2>2
<1>3. CASE PushBack(t)
  <2>1. owner = t /\ size = Len(mempool) /\ size < MaxSize
    BY <1>3 DEF PushBack, HasRoom, PoolAgrees, MutexAgrees, SizeAgrees, PromiseAgrees, Holding, TypeOK
  <2>2. Len(mempool') = Len(mempool) + 1 /\ mempool' \in Seq(Packets)
    BY <1>3 DEF PushBack, TypeOK
  <2>3. TypeOK'
    BY <1>3, <2>1, <2>2 DEF PushBack, Goto, TypeOK, Labels, Inserting
  <2>4. PoolAgrees'
    BY <1>3, <2>1, <2>2 DEF PushBack, Goto, TypeOK, PoolAgrees, MutexAgrees, SizeAgrees, PromiseAgrees, Holding, Getting
  <2>5. QED
    BY <2>3, <2>4
<1>4. CASE Lose(t)
  <2>1. TypeOK'
    BY <1>4 DEF Lose, Goto, TypeOK, Labels, Holding
  <2>2. PoolAgrees'
    BY <1>4 DEF Lose, Goto, TypeOK, PoolAgrees, MutexAgrees, SizeAgrees, PromiseAgrees, Holding, Getting
  <2>3. QED
    BY <2>1, <2>2
<1>5. CASE CountUp(t)
  <2>1. owner = t /\ size + 1 = Len(mempool)
    BY <1>5 DEF CountUp, PoolAgrees, MutexAgrees, SizeAgrees, PromiseAgrees, Holding, TypeOK
  <2>2. TypeOK'
    BY <1>5 DEF CountUp, Goto, TypeOK, Labels, Holding
  <2>3. PoolAgrees'
    BY <1>5, <2>1 DEF CountUp, Goto, TypeOK, PoolAgrees, MutexAgrees, SizeAgrees, PromiseAgrees, Holding, Getting
  <2>4. QED
    BY <2>2, <2>3
<1>6. CASE UnLock(t)
  <2>1. owner = t /\ size = Len(mempool)
    BY <1>6 DEF UnLock, PoolAgrees, MutexAgrees, SizeAgrees, PromiseAgrees, Holding, TypeOK
  <2>2. TypeOK'
    BY <1>6 DEF UnLock, Goto, TypeOK, Labels
  <2>3. PoolAgrees'
    BY <1>6, <2>1 DEF UnLock, Goto, TypeOK, PoolAgrees, MutexAgrees, SizeAgrees, PromiseAgrees, Holding, Getting
  <2>4. QED
    BY <2>2, <2>3
<1>7. QED
  BY <1>1, <1>2, <1>3, <1>4, <1>5, <1>6 DEF Insert

\* What Copy takes and leaves.
LEMMA CopyFacts == ASSUME IInv, Copy
  PROVE /\ owner = Consumer /\ cnt = asked /\ size = Len(mempool)
        /\ asked \in 1..Len(mempool)
        /\ batch' \in Seq(Packets) /\ Len(batch') = asked
        /\ mempool' \in Seq(Packets) /\ Len(mempool') = Len(mempool) - asked
<1>1. owner = Consumer /\ cnt = asked /\ size = Len(mempool) /\ asked \in 1..Len(mempool)
  BY DEF IInv, Copy, PoolAgrees, MutexAgrees, SizeAgrees, PromiseAgrees, Holding, TypeOK
<1>2. mempool \in Seq(Packets) /\ Len(mempool) \in Nat
  BY DEF IInv, TypeOK
<1>3. \A i \in 1..Len(mempool) : mempool[i] \in Packets
  BY <1>2, ElementOfSeq
<1>4. batch' \in Seq(Packets) /\ Len(batch') = asked
  <2>1. batch' = SubSeq(mempool, 1, asked)
    BY <1>1 DEF Copy
  <2>2. QED
    BY <1>1, <1>2, <1>3, <2>1, SubSeqProperties
<1>5. mempool' \in Seq(Packets) /\ Len(mempool') = Len(mempool) - asked
  <2>1. mempool' = SubSeq(mempool, asked + 1, Len(mempool))
    BY <1>1 DEF Copy
  <2>2. QED
    BY <1>1, <1>2, <1>3, <2>1, SubSeqProperties
<1>6. QED
  BY <1>1, <1>4, <1>5

\* The consumer: GetSize and GetUDPData.
LEMMA GetInv == ASSUME IInv, GetUDPData PROVE IInv'
<1> USE DEF IInv
<1>1. CASE GetSize
  <2>1. TypeOK'
    BY <1>1 DEF GetSize, Goto, TypeOK, Labels, Getting
  <2>2. PoolAgrees'
    BY <1>1 DEF GetSize, Goto, TypeOK, PoolAgrees, MutexAgrees, SizeAgrees, PromiseAgrees, Holding, Getting
  <2>3. QED
    BY <2>1, <2>2
<1>2. CASE Limit
  <2>1. cnt' = asked
    BY <1>2 DEF Limit, TypeOK, PoolAgrees, PromiseAgrees
  <2>2. TypeOK'
    BY <1>2, <2>1 DEF Limit, Goto, TypeOK, Labels, Getting
  <2>3. PoolAgrees'
    BY <1>2, <2>1 DEF Limit, Goto, TypeOK, PoolAgrees, MutexAgrees, SizeAgrees, PromiseAgrees, Holding, Getting
  <2>4. QED
    BY <2>2, <2>3
<1>3. CASE GetLock
  <2>1. TypeOK'
    BY <1>3 DEF GetLock, Goto, TypeOK, Labels, Getting
  <2>2. PoolAgrees'
    BY <1>3 DEF GetLock, Goto, TypeOK, PoolAgrees, MutexAgrees, SizeAgrees, PromiseAgrees, Holding, Getting
  <2>3. QED
    BY <2>1, <2>2
<1>4. CASE Copy
  <2>1. TypeOK'
    BY <1>4, CopyFacts DEF Copy, Goto, TypeOK, Labels, Getting
  <2>2. MutexAgrees'
    BY <1>4, CopyFacts DEF Copy, Goto, TypeOK, PoolAgrees, MutexAgrees, Holding, Getting
  <2>3. SizeAgrees'
    <3>1. size = Len(mempool') + cnt /\ owner = Consumer /\ pc'[Consumer] = "copied"
      BY <1>4, CopyFacts DEF Copy, Goto, TypeOK
    <3>2. size \in Nat /\ cnt \in Nat /\ Len(mempool') \in Nat
      BY <1>4, CopyFacts DEF TypeOK
    <3>3. UNCHANGED <<size, owner, cnt>> /\ owner # NoThread
      BY <1>4, CopyFacts DEF Copy
    <3>4. ASSUME NEW t \in Threads, owner' = t
          PROVE size' + (IF pc'[t] = "pushed" THEN 1 ELSE 0)
                  = Len(mempool') + (IF pc'[t] = "copied" THEN cnt' ELSE 0)
      <4>1. pc'[t] = "copied"
        BY <3>1, <3>3, <3>4
      <4>2. QED
        BY <3>1, <3>2, <3>3, <4>1
    <3>5. QED
      BY <3>3, <3>4 DEF SizeAgrees
  <2>4. PromiseAgrees'
    <3>1. pc'[Consumer] = "copied" /\ cnt = asked /\ Len(batch') = asked
      BY <1>4, CopyFacts DEF Copy, Goto, TypeOK
    <3>2. QED
      BY <1>4, <3>1 DEF Copy, PromiseAgrees
  <2>5. QED
    BY <2>1, <2>2, <2>3, <2>4 DEF PoolAgrees
<1>5. CASE CountDown
  <2>1. owner = Consumer /\ size = Len(mempool) + cnt
    BY <1>5 DEF CountDown, PoolAgrees, MutexAgrees, SizeAgrees, PromiseAgrees, Holding, TypeOK
  <2>2. size' = Len(mempool)
    BY <1>5, <2>1 DEF CountDown, TypeOK
  <2>3. TypeOK'
    BY <1>5, <2>2 DEF CountDown, Goto, TypeOK, Labels, Holding
  <2>4. PoolAgrees'
    BY <1>5, <2>1, <2>2 DEF CountDown, Goto, TypeOK, PoolAgrees, MutexAgrees, SizeAgrees, PromiseAgrees, Holding, Getting
  <2>5. QED
    BY <2>3, <2>4
<1>6. QED
  BY <1>1, <1>2, <1>3, <1>4, <1>5 DEF GetUDPData

LEMMA CleanInv == ASSUME IInv, CleanBuff PROVE IInv'
<1>1. TypeOK'
  BY DEF IInv, CleanBuff, TypeOK
<1>2. PoolAgrees'
  BY DEF IInv, CleanBuff, TypeOK, PoolAgrees, MutexAgrees, SizeAgrees, PromiseAgrees, Holding, Getting
<1>3. QED
  BY <1>1, <1>2 DEF IInv

LEMMA NextInv == IInv /\ [Next]_vars => IInv'
<1> SUFFICES ASSUME IInv, [Next]_vars PROVE IInv'
  OBVIOUS
<1>1. ASSUME NEW t \in Threads, Insert(t) PROVE IInv'
  BY <1>1, InsertInv
<1>2. CASE GetUDPData
  BY <1>2, GetInv
<1>3. CASE CleanBuff
  BY <1>3, CleanInv
<1>4. CASE UNCHANGED vars
  BY <1>4 DEF IInv, TypeOK, PoolAgrees, MutexAgrees, SizeAgrees, PromiseAgrees, vars
<1>5. QED
  BY <1>1, <1>2, <1>3, <1>4 DEF Next

\* The pool has its type and its limit, the mutex is held by one thread, and size
\* agrees with the deque, at every moment.
THEOREM PoolInvariant == Spec => [](TypeOK /\ PoolAgrees)
<1>1. Init => IInv
  BY InitInv
<1>2. IInv /\ [Next]_vars => IInv'
  BY NextInv
<1>3. QED
  BY <1>1, <1>2, PTL DEF Spec, IInv

\* The consumer's array is always filled: GetUDPData returns what GetSize promised.
THEOREM WholeBatches == Spec => []BatchIsWhole
<1>1. TypeOK /\ PoolAgrees => BatchIsWhole
  BY DEF PoolAgrees, PromiseAgrees, BatchIsWhole
<1>2. QED
  BY <1>1, PoolInvariant, PTL

-----------------------------------------------------------------------------
(* The refinement. *)

LEMMA InsertIsFifo == ASSUME IInv, NEW t \in Threads, Insert(t)
  PROVE [Fifo!Next]_Fifo!fifoVars
<1> USE DEF IInv, Fifo!Next, Fifo!fifoVars, Promised
<1>1. ASSUME NEW x \in Packets, Call(t, x) PROVE UNCHANGED Fifo!fifoVars
  BY <1>1 DEF Call, Goto, TypeOK
<1>2. CASE InsertLock(t)
  BY <1>2 DEF InsertLock, Goto, TypeOK
<1>3. CASE PushBack(t)
  <2>1. Fifo!Put(packet[t])
    BY <1>3 DEF Fifo!Put, PushBack, HasRoom, Goto, TypeOK, PoolAgrees, MutexAgrees, SizeAgrees, PromiseAgrees, Holding
  <2>2. packet[t] \in Packets
    BY DEF TypeOK
  <2>3. QED
    BY <2>1, <2>2
<1>4. CASE Lose(t)
  <2>1. Fifo!Lose
    BY <1>4 DEF Fifo!Lose, Lose, HasRoom, Goto, TypeOK, PoolAgrees, MutexAgrees, SizeAgrees, PromiseAgrees, Holding
  <2>2. QED
    BY <2>1
<1>5. CASE CountUp(t)
  BY <1>5 DEF CountUp, Goto, TypeOK
<1>6. CASE UnLock(t)
  BY <1>6 DEF UnLock, Goto, TypeOK
<1>7. QED
  BY <1>1, <1>2, <1>3, <1>4, <1>5, <1>6 DEF Insert

LEMMA GetIsFifo == ASSUME IInv, GetUDPData PROVE [Fifo!Next]_Fifo!fifoVars
<1> USE DEF IInv, Fifo!Next, Fifo!fifoVars
<1>1. CASE GetSize
  <2>1. size \in 1..Len(mempool)
    <3>1. size \in Nat /\ size # 0 /\ Len(mempool) \in Nat
      BY <1>1 DEF GetSize, TypeOK
    <3>2. CASE owner = NoThread
      BY <3>1, <3>2 DEF PoolAgrees, SizeAgrees
    <3>3. CASE owner \in Threads
      <4>1. pc[owner] # "copied"
        BY <1>1, <3>3 DEF GetSize, PoolAgrees, MutexAgrees, Getting
      <4>2. QED
        BY <3>1, <3>3, <4>1 DEF PoolAgrees, SizeAgrees
    <3>4. QED
      BY <3>2, <3>3 DEF TypeOK
  <2>2. Fifo!Ask
    BY <1>1, <2>1 DEF Fifo!Ask, GetSize, Goto, TypeOK, Promised
  <2>3. QED
    BY <2>2
<1>2. CASE Limit
  BY <1>2 DEF Limit, Goto, TypeOK, Promised
<1>3. CASE GetLock
  BY <1>3 DEF GetLock, Goto, TypeOK, Promised
<1>4. CASE Copy
  <2>1. Promised = asked /\ Promised' = 0
    BY <1>4 DEF Copy, Goto, TypeOK, Promised
  <2>2. cnt = asked /\ asked \in 1..Len(mempool)
    BY <1>4, CopyFacts
  <2>3. Fifo!Take
    BY <1>4, <2>1, <2>2 DEF Fifo!Take, Copy
  <2>4. QED
    BY <2>3
<1>5. CASE CountDown
  BY <1>5 DEF CountDown, Goto, TypeOK, Promised
<1>6. QED
  BY <1>1, <1>2, <1>3, <1>4, <1>5 DEF GetUDPData

LEMMA NextIsFifo == IInv /\ [Next]_vars => [Fifo!Next]_Fifo!fifoVars
<1> SUFFICES ASSUME IInv, [Next]_vars PROVE [Fifo!Next]_Fifo!fifoVars
  OBVIOUS
<1>1. ASSUME NEW t \in Threads, Insert(t) PROVE [Fifo!Next]_Fifo!fifoVars
  BY <1>1, InsertIsFifo
<1>2. CASE GetUDPData
  BY <1>2, GetIsFifo
<1>3. CASE CleanBuff
  <2>1. Fifo!Clear
    BY <1>3 DEF Fifo!Clear, CleanBuff, Promised
  <2>2. QED
    BY <2>1 DEF Fifo!Next
<1>4. CASE UNCHANGED vars
  BY <1>4 DEF vars, Fifo!fifoVars, Promised
<1>5. QED
  BY <1>1, <1>2, <1>3, <1>4 DEF Next

\* The pool is a bounded first-in first-out buffer: packets come out once, in the
\* order they went in, as many as were promised, and are lost only when it is full.
THEOREM PoolIsFifo == Spec => IsFifo
<1>1. Init => Fifo!Init
  BY DEF Init, Fifo!Init, Promised
<1>2. IInv /\ [Next]_vars => [Fifo!Next]_Fifo!fifoVars
  BY NextIsFifo
<1>3. Spec => []IInv
  BY PoolInvariant DEF IInv
<1>4. QED
  BY <1>1, <1>2, <1>3, PTL DEF Spec, IsFifo, Fifo!Spec
=============================================================================
