----------------------------- MODULE PacketFifo -----------------------------
(***************************************************************************)
(* What the packet pools promise (TUtility_MemPool.h): a first-in first-out *)
(* buffer with a limit.  Any thread puts packets in; a packet that finds    *)
(* the buffer full is lost and counted.  One thread asks for the number of  *)
(* packets and then takes that many, all of them there, while others go on. *)
(***************************************************************************)
EXTENDS Naturals, Sequences

CONSTANTS
  Packets,    \* the packets
  MaxSize     \* the limit

VARIABLES
  queue,      \* the packets in the buffer
  asked,      \* the packets promised to the taker, 0 when it asks for none
  batch,      \* the packets taken last
  lost        \* packets lost since the buffer was cleared

fifoVars == <<queue, asked, batch, lost>>

Init ==
  /\ queue = <<>>
  /\ asked = 0
  /\ batch = <<>>
  /\ lost = 0

Put(x) ==
  /\ Len(queue) < MaxSize
  /\ queue' = Append(queue, x)
  /\ UNCHANGED <<asked, batch, lost>>

Lose ==
  /\ Len(queue) >= MaxSize
  /\ lost' = lost + 1
  /\ UNCHANGED <<queue, asked, batch>>

Ask ==
  /\ asked = 0
  /\ asked' \in 1..Len(queue)
  /\ UNCHANGED <<queue, batch, lost>>

Take ==
  /\ asked \in 1..Len(queue)
  /\ batch' = SubSeq(queue, 1, asked)
  /\ queue' = SubSeq(queue, asked + 1, Len(queue))
  /\ asked' = 0
  /\ UNCHANGED lost

Clear ==
  /\ asked = 0
  /\ queue' = <<>>
  /\ lost' = 0
  /\ UNCHANGED <<asked, batch>>

Next == (\E x \in Packets : Put(x)) \/ Lose \/ Ask \/ Take \/ Clear

Spec == Init /\ [][Next]_fifoVars
=============================================================================
