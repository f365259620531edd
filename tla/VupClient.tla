----------------------------- MODULE VupClient -----------------------------
(***************************************************************************)
(* The client library of a tested program (src/src/VUPClient): it registers *)
(* with the manager, waits for the answer and then handles the manager's    *)
(* requests and reports the watched value when that changes.                *)
(*                                                                         *)
(* The receive thread moves messages from the connection to a pool; the     *)
(* program's thread calls Tick, which drains the pool (MemPool).  sendmsg is *)
(* called without inorder, so requests may overtake each other and the      *)
(* answer.  Before the answer is seen, Tick puts every other packet back,   *)
(* behind whatever arrived meanwhile.                                       *)
(*                                                                         *)
(* EPT_M2C_Refresh is never sent in the UDT build and is left out, as is    *)
(* the transfer of the log file, which a LogRequest makes over a connection *)
(* of its own.                                                              *)
(***************************************************************************)
EXTENDS Naturals, Sequences, FiniteSets, SequencesExt

CONSTANTS
  Values,     \* values of the watched variable
  FirstValue, \* its value when it is watched
  PoolMax,    \* g_pUDPPackBuffer's limit
  MaxSends,   \* bound: requests of the manager
  MaxChanges  \* bound: changes of the watched value

Requests == {"StartTesting", "LogRequest", "KillClient"}
Answers == {"Accept", "Refuse"}
Message == [type : Requests \cup Answers, n : 0..MaxSends]

ASSUME ClientAssumption ==
  /\ FirstValue \in Values
  /\ PoolMax \in Nat \ {0} /\ MaxSends \in Nat /\ MaxChanges \in Nat

VARIABLES
  link,       \* the connection to the manager is up
  registering,\* RegisterMe's message is at the manager and not answered
  answer,     \* what the manager answered
  sent,       \* number of requests the manager has sent
  net,        \* messages on their way to the client
  receiver,   \* the receive thread runs
  pool,
  lost,       \* messages that found the pool full
  client,     \* the program runs
  connected,  \* m_HasConnectedToManager
  mainPc,     \* "idle", or the loop of Tick that goes through the batch
  asked,      \* iSize: packets counted and not fetched yet
  batch,      \* what is left of poPacArray
  handled,    \* requests handled, in that order
  late,       \* messages received since the client is connected, in that order
  value,      \* the watched variable
  flushed,    \* m_LastValue
  reported,   \* the value of the last ReportClientStatus
  changes     \* number of changes of the watched value

managerVars == <<registering, answer, sent>>
valueVars == <<value, flushed, reported, changes>>
vars == <<link, managerVars, net, receiver, pool, lost, client, connected, mainPc,
          asked, batch, handled, late, valueVars>>

\* Every variable has its type, and the pool keeps its limit.
TypeOK ==
  /\ {link, registering, receiver, connected} \subseteq BOOLEAN
  /\ answer \in Answers \cup {"none"}
  /\ sent \in 0..MaxSends
  /\ net \subseteq Message /\ lost \subseteq Message
  /\ pool \in Seq(Message) /\ Len(pool) <= PoolMax
  /\ client \in {"running", "exited"}
  /\ mainPc \in {"idle", "waiting", "handling"}
  /\ asked \in 0..PoolMax
  /\ batch \in Seq(Message) /\ handled \in Seq(Message) /\ late \in Seq(Message)
  /\ {value, flushed, reported} \subseteq Values
  /\ changes \in 0..MaxChanges

Init ==
  /\ link = TRUE
  /\ registering = TRUE
  /\ answer = "none"
  /\ sent = 0
  /\ net = {}
  /\ receiver = TRUE
  /\ pool = <<>>
  /\ lost = {}
  /\ client = "running"
  /\ connected = FALSE
  /\ mainPc = "idle"
  /\ asked = 0
  /\ batch = <<>>
  /\ handled = <<>>
  /\ late = <<>>
  /\ value = FirstValue
  /\ flushed = FirstValue
  /\ reported = FirstValue
  /\ changes = 0

-----------------------------------------------------------------------------
(* The manager and the connection. *)

\* The ClientRegister case of _HandleUdpPack.
AnswerRegister(ans) ==
  /\ link /\ registering
  /\ registering' = FALSE
  /\ answer' = ans
  /\ net' = net \cup {[type |-> ans, n |-> 0]}
  /\ UNCHANGED <<link, sent, receiver, pool, lost, client, connected, mainPc, asked,
                 batch, handled, late, valueVars>>

\* StartTesting, RequestLog and KillClient go to registered clients.
Request(type) ==
  /\ link
  /\ answer = "Accept"
  /\ sent < MaxSends
  /\ sent' = sent + 1
  /\ net' = net \cup {[type |-> type, n |-> sent + 1]}
  /\ UNCHANGED <<link, registering, answer, receiver, pool, lost, client, connected,
                 mainPc, asked, batch, handled, late, valueVars>>

\* The manager stops, closes the connection or becomes unreachable.
Break ==
  /\ link
  /\ link' = FALSE
  /\ UNCHANGED <<managerVars, net, receiver, pool, lost, client, connected, mainPc,
                 asked, batch, handled, late, valueVars>>

-----------------------------------------------------------------------------
(* The receive thread: RecvUDPRunner::Run. *)

\* A mutant: the newest packet comes first.
InsertFront(m) ==
  IF Len(pool) < PoolMax
  THEN pool' = <<m>> \o pool /\ UNCHANGED lost
  ELSE lost' = lost \cup {m} /\ UNCHANGED pool

InsertUDPData(m) ==
  IF Len(pool) < PoolMax
  THEN pool' = Append(pool, m) /\ UNCHANGED lost
  ELSE lost' = lost \cup {m} /\ UNCHANGED pool

Receive(m) ==
  /\ client = "running" /\ receiver
  /\ m \in net
  /\ net' = net \ {m}
  /\ InsertUDPData(m)
  /\ late' = IF connected /\ Len(pool) < PoolMax THEN Append(late, m) ELSE late
  /\ UNCHANGED <<link, managerVars, receiver, client, connected, mainPc, asked,
                 batch, handled, valueVars>>

\* recvmsg fails on a broken connection and the thread ends for good.
ReceiveFails ==
  /\ client = "running" /\ receiver
  /\ ~link
  /\ receiver' = FALSE
  /\ UNCHANGED <<link, managerVars, net, pool, lost, client, connected, mainPc, asked,
                 batch, handled, late, valueVars>>

-----------------------------------------------------------------------------
(* The program's thread: VUPClientAdapter::Tick. *)

\* The program changes its variable between two ticks.
Change(x) ==
  /\ client = "running" /\ mainPc = "idle"
  /\ changes < MaxChanges
  /\ x # value
  /\ value' = x
  /\ changes' = changes + 1
  /\ UNCHANGED <<link, managerVars, net, receiver, pool, lost, client, connected,
                 mainPc, asked, batch, handled, late, flushed, reported>>

\* A mutant: a change is taken note of while the client is not connected, too.
HandleWatchedEarly ==
  /\ flushed' = value
  /\ reported' = IF connected /\ link THEN value ELSE reported
  /\ UNCHANGED <<value, changes>>

\* _HandleWatchedValue, which Tick calls only when the client is connected.  The
\* change is taken note of even if the connection is gone and the report fails.
HandleWatchedValue ==
  /\ IF connected /\ value # flushed
     THEN flushed' = value /\ reported' = IF link THEN value ELSE reported
     ELSE UNCHANGED <<flushed, reported>>
  /\ UNCHANGED <<value, changes>>

Loop == IF connected THEN "handling" ELSE "waiting"

\* Tick reports the value and counts the packets in the pool (GetSize).
StartTick ==
  /\ client = "running" /\ mainPc = "idle"
  /\ pool # <<>> \/ (connected /\ value # flushed)
  /\ HandleWatchedValue
  /\ asked' = Len(pool)
  /\ mainPc' = Loop
  /\ UNCHANGED <<link, managerVars, net, receiver, pool, lost, client, connected, batch,
                 handled, late>>

Rest == SubSeq(pool, asked + 1, Len(pool))

\* GetUDPData fetches as many as were counted; more may have arrived meanwhile.
Fetch ==
  /\ client = "running" /\ mainPc # "idle" /\ asked > 0
  /\ batch' = SubSeq(pool, 1, asked)
  /\ pool' = Rest
  /\ asked' = 0
  /\ UNCHANGED <<link, managerVars, net, receiver, lost, client, connected, mainPc,
                 handled, late, valueVars>>

\* A mutant: a packet that comes before the answer is dropped.
DropEarly(m) == UNCHANGED <<pool, lost>>
PutBack(m) == InsertUDPData(m)

\* The loop of _WaitForRegisterACK.  A refusal leaves the rest of the array.
WaitForRegisterACK ==
  /\ client = "running" /\ mainPc = "waiting" /\ batch # <<>>
  /\ LET m == Head(batch)
     IN \/ /\ m.type = "Accept"
           /\ connected' = TRUE
           /\ batch' = Tail(batch)
           /\ UNCHANGED <<pool, lost>>
        \/ /\ m.type = "Refuse"
           /\ connected' = FALSE
           /\ batch' = <<>>
           /\ UNCHANGED <<pool, lost>>
        \/ /\ m.type \in Requests
           /\ PutBack(m)
           /\ batch' = Tail(batch)
           /\ UNCHANGED connected
  /\ UNCHANGED <<link, managerVars, net, receiver, client, mainPc, asked, handled, late,
                 valueVars>>

\* The loop of _HandleRecvPack; KillClient ends the program at once.
HandleRecvPack ==
  /\ client = "running" /\ mainPc = "handling" /\ batch # <<>>
  /\ LET m == Head(batch)
     IN /\ handled' = Append(handled, m)
        /\ client' = IF m.type = "KillClient" THEN "exited" ELSE client
  /\ batch' = Tail(batch)
  /\ UNCHANGED <<link, managerVars, net, receiver, pool, lost, connected, mainPc, asked,
                 late, valueVars>>

EndTick ==
  /\ client = "running" /\ mainPc # "idle" /\ asked = 0 /\ batch = <<>>
  /\ mainPc' = "idle"
  /\ UNCHANGED <<link, managerVars, net, receiver, pool, lost, client, connected, asked,
                 batch, handled, late, valueVars>>

Manager ==
  \/ \E ans \in Answers : AnswerRegister(ans)
  \/ \E type \in Requests : Request(type)
Receiver == (\E m \in net : Receive(m)) \/ ReceiveFails
Tick == StartTick \/ Fetch \/ WaitForRegisterACK \/ HandleRecvPack \/ EndTick

Next == Manager \/ Break \/ Receiver \/ Tick \/ \E x \in Values : Change(x)

Spec == Init /\ [][Next]_vars

\* The program calls Tick for as long as it runs; the receive thread goes on, and
\* what is on its way arrives while the connection is up.
FairSpec == Spec /\ WF_vars(Tick) /\ \A m \in Message : WF_vars(Receive(m))

-----------------------------------------------------------------------------
(* Properties. *)

Count(seq, m) == Cardinality({i \in DOMAIN seq : seq[i] = m})
Places(m) ==
  Count(pool, m) + Count(batch, m) + Count(handled, m)
    + (IF m \in net THEN 1 ELSE 0) + (IF m \in lost THEN 1 ELSE 0)

IsSent(m) == IF m.n = 0 THEN m.type = answer ELSE m.type \in Requests /\ m.n <= sent

\* Packets that come before the answer go round and round the pool: each is still
\* in one place, so none is handled twice whatever arrives meanwhile, and none of
\* an accepted client disappears but to the full pool.
ExactlyOnce ==
  /\ TypeOK
  /\ \A m \in Message : Places(m) <= 1
  /\ answer = "Accept" =>
       \A n \in 1..sent : \E m \in Message : m.n = n /\ Places(m) = 1

\* Requests that arrive when the client is connected are handled in the order of
\* their arrival, none left out, even with early ones that are still in the pool.
InOrder ==
  \A i, j \in DOMAIN late : i < j /\ late[j] \in ToSet(handled) =>
    \E k, l \in DOMAIN handled : k < l /\ handled[k] = late[i] /\ handled[l] = late[j]

\* A request in the pool is handled, unless the program is killed, the connection
\* breaks, or the full pool lost the request or the answer.
RequestsHandled ==
  \A m \in Message :
    (m \in ToSet(pool) /\ m.type \in Requests)
      ~> (m \in ToSet(handled) \/ client = "exited" \/ ~link
            \/ lost \cap {m, [type |-> "Accept", n |-> 0]} # {})

\* A change of the watched value is reported once the client is connected, also
\* one that was made before, unless the connection breaks.
ChangesReported ==
  \A x \in Values :
    (connected /\ value = x /\ reported # x)
      ~> (reported = x \/ value # x \/ client = "exited" \/ ~link)
=============================================================================
