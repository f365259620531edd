---------------------------- MODULE VupRegistry ----------------------------
(***************************************************************************)
(* The client registry of the VUP manager (src/src/VUPManager).            *)
(*                                                                         *)
(* Three threads share it:                                                 *)
(*   - the listening thread accepts a connection, makes a VMVup object for *)
(*     it and publishes it, first in the map by socket, then in the list   *)
(*     of sockets the working thread polls (ListeningRunner::Run);         *)
(*   - the working thread polls those sockets and turns messages and broken*)
(*     connections into packets of a bounded pool (WorkingRunner::Run);    *)
(*   - the main thread drains the pool once per tick and handles the       *)
(*     packets one by one (VMVupManager::Tick, _HandleUdpPack), then       *)
(*     re-sorts the list on screen (_UpdateViewMap) and draws it.          *)
(*                                                                         *)
(* A VMVup is named by the connection it was made for, or by a member of   *)
(* ConsoleVups when the operator typed addvup.  Objects are never renamed, *)
(* so a name left in a map after delete is a dangling pointer.             *)
(*                                                                         *)
(* Data is abstracted to what the registry tells apart: `field` stands for *)
(* the attributes a view key is built from (status, phase, RDV point).     *)
(* The rendezvous and summary effects of the same handlers are modelled in *)
(* RdvPoint and AgentSummary.                                              *)
(***************************************************************************)
EXTENDS Naturals, Sequences

CONSTANTS
  Sockets,            \* connections the clients may open, one VMVup each
  ConsoleVups,        \* objects the operator may make with addvup
  Passports,          \* the non-negative unique ids
  PassportOf,         \* the passport claimed on each connection or by addvup
  RemovablePassports, \* passports the operator may name in removevup
  UpdatedPassports,   \* passports the operator may name in updatevup
  Fields,             \* values of the attributes in a view key
  FreshField,         \* the value of a new VMVup
  PoolMax,            \* MemPool::maxsize
  Offered,            \* messages the clients choose from
  MaxSends,           \* bound: messages a client sends on each connection
  NoVup, NoPassport, NoKey

Vups == Sockets \cup ConsoleVups

Keys == Fields \X Passports
ClientTypes == {"ClientRegister", "ReportClientStatus", "ReachRDVPoint"}
Message == [type : ClientTypes, field : Fields]

ASSUME ConstantsAssumption ==
  /\ PassportOf \in [Vups -> Passports]
  /\ FreshField \in Fields
  /\ PoolMax \in Nat \ {0}
  /\ MaxSends \in [Sockets -> Nat]
  /\ Sockets \cap ConsoleVups = {}
  /\ NoVup \notin Vups
  /\ NoPassport \notin Passports
  /\ NoKey \notin Keys
  /\ Offered \subseteq Message
  /\ RemovablePassports \subseteq Passports
  /\ UpdatedPassports \subseteq Passports


Packet == [type : ClientTypes \cup {"LostConnection"}, sock : Sockets, field : Fields]

VARIABLES
  conn,           \* the state of each connection
  inbox,          \* messages a connection holds for the manager
  sends,          \* messages sent so far on a connection
  accepted,       \* the VMVup the listening thread holds between its two publications
  rfds, efds,     \* the working thread's copies of the readable and the broken sockets
  pool,           \* m_pUDPPackBuffer
  dropped,        \* connections that lost a client message to a full pool
  mainPc,         \* where the main thread is in its tick
  batch,          \* poPacArray from the packet being handled on
  clientSockets,  \* m_pClientSockets
  bySocket,       \* keys of m_poVupMapBySocket; the value is the VMVup of that name
  byPassport,     \* m_poVupMapByPassport
  dirty,          \* m_poDirtyVUP
  view,           \* m_poVupViewMap
  frozen,         \* m_Parameters.m_iFreezeList
  life,           \* whether the memory of a VMVup is unused, live or freed
  id, field, key, \* m_iUniqueID, the sort attributes and m_strViewKey of a VMVup
  ack,            \* the last ClientRegisterACK sent on a connection
  fault           \* a handler followed a pointer to a freed VMVup

netVars    == <<conn, inbox, sends>>
workerVars == <<accepted, rfds, efds, clientSockets>>
poolVars   == <<pool, dropped>>
mainVars   == <<mainPc, batch>>
mapVars    == <<bySocket, byPassport, dirty, view>>
vupVars    == <<life, id, field, key>>
vars == <<conn, inbox, sends, accepted, rfds, efds, pool, dropped, mainPc, batch,
          clientSockets, bySocket, byPassport, dirty, view, frozen, life, id,
          field, key, ack, fault>>

NetTypeOK ==
  /\ conn \in [Sockets -> {"idle", "queued", "up", "broken", "closed"}]
  /\ inbox \in [Sockets -> Seq(Message)]
  /\ sends \in [Sockets -> Nat]
  /\ \A s \in Sockets : sends[s] <= MaxSends[s]
WorkerTypeOK ==
  /\ accepted \in Sockets \cup {NoVup}
  /\ rfds \subseteq Sockets
  /\ efds \subseteq Sockets
  /\ clientSockets \subseteq Sockets
PoolTypeOK ==
  /\ pool \in Seq(Packet)
  /\ Len(pool) <= PoolMax
  /\ dropped \subseteq Sockets
MainTypeOK ==
  /\ mainPc \in {"idle", "packets", "view"}
  /\ batch \in Seq(Packet)
MapTypeOK ==
  /\ bySocket \subseteq Sockets
  /\ byPassport \in [Passports -> Vups \cup {NoVup}]
  /\ dirty \subseteq Vups
  /\ view \in [Keys -> Vups \cup {NoVup}]
VupTypeOK ==
  /\ life \in [Vups -> {"unused", "live", "freed"}]
  /\ id \in [Vups -> Passports \cup {NoPassport}]
  /\ field \in [Vups -> Fields]
  /\ key \in [Vups -> Keys \cup {NoKey}]

\* Every variable has its type and the pool never exceeds its maximum.
TypeOK ==
  /\ NetTypeOK /\ WorkerTypeOK /\ PoolTypeOK /\ MainTypeOK /\ MapTypeOK /\ VupTypeOK
  /\ ack \in [Sockets -> {"none", "ok", "rejected"}]
  /\ frozen \in BOOLEAN
  /\ fault \in BOOLEAN

Init ==
  /\ conn = [s \in Sockets |-> "idle"]
  /\ inbox = [s \in Sockets |-> <<>>]
  /\ sends = [s \in Sockets |-> 0]
  /\ accepted = NoVup
  /\ rfds = {} /\ efds = {}
  /\ pool = <<>> /\ dropped = {}
  /\ mainPc = "idle" /\ batch = <<>>
  /\ clientSockets = {} /\ bySocket = {}
  /\ byPassport = [p \in Passports |-> NoVup]
  /\ dirty = {}
  /\ view = [k \in Keys |-> NoVup]
  /\ frozen = TRUE
  /\ life = [v \in Vups |-> "unused"]
  /\ id = [v \in Vups |-> NoPassport]
  /\ field = [v \in Vups |-> FreshField]
  /\ key = [v \in Vups |-> NoKey]
  /\ ack = [s \in Sockets |-> "none"]
  /\ fault = FALSE

-----------------------------------------------------------------------------
(* The clients and the network. *)

\* A client opens a connection; UDT queues it until the manager accepts it.
Connect(s) ==
  /\ conn[s] = "idle"
  /\ conn' = [conn EXCEPT ![s] = "queued"]
  /\ UNCHANGED <<inbox, sends, workerVars, poolVars, mainVars, mapVars, frozen,
                 vupVars, ack, fault>>

\* A client sends a packet.  The client library registers first (Init, RegisterMe)
\* and may register again later; it reports its status only once it is accepted.
Send(s, m) ==
  /\ conn[s] \in {"queued", "up"}
  /\ sends[s] < MaxSends[s]
  /\ sends[s] = 0 => m.type = "ClientRegister"
  /\ m.type = "ReportClientStatus" => ack[s] = "ok"
  /\ sends' = [sends EXCEPT ![s] = @ + 1]
  /\ inbox' = [inbox EXCEPT ![s] = Append(@, m)]
  /\ UNCHANGED <<conn, workerVars, poolVars, mainVars, mapVars, frozen, vupVars,
                 ack, fault>>

\* The client exits, crashes or becomes unreachable and UDT notices.
Break(s) ==
  /\ conn[s] = "up"
  /\ conn' = [conn EXCEPT ![s] = "broken"]
  /\ UNCHANGED <<inbox, sends, workerVars, poolVars, mainVars, mapVars, frozen,
                 vupVars, ack, fault>>

-----------------------------------------------------------------------------
(* The listening thread. *)

\* A mutant: the socket is polled before the VMVup can be found.
AcceptPolledFirst(s) ==
  /\ accepted = NoVup
  /\ conn[s] = "queued"
  /\ conn' = [conn EXCEPT ![s] = "up"]
  /\ life' = [life EXCEPT ![s] = "live"]
  /\ clientSockets' = clientSockets \cup {s}
  /\ accepted' = s
  /\ UNCHANGED <<inbox, sends, rfds, efds, poolVars, mainVars, mapVars, frozen,
                 id, field, key, ack, fault>>

\* accept returns, the VMVup is made and AddVupBySocket publishes it.
Accept(s) ==
  /\ accepted = NoVup
  /\ conn[s] = "queued"
  /\ s \notin bySocket
  /\ conn' = [conn EXCEPT ![s] = "up"]
  /\ life' = [life EXCEPT ![s] = "live"]
  /\ bySocket' = bySocket \cup {s}
  /\ accepted' = s
  /\ UNCHANGED <<inbox, sends, rfds, efds, clientSockets, poolVars, mainVars,
                 byPassport, dirty, view, frozen, id, field, key, ack, fault>>

\* AddClientSocket: from here on the working thread polls the connection.
AddClientSocket ==
  /\ accepted # NoVup
  /\ clientSockets' = clientSockets \cup {accepted}
  /\ accepted' = NoVup
  /\ UNCHANGED <<netVars, rfds, efds, poolVars, mainVars, mapVars, frozen,
                 vupVars, ack, fault>>

-----------------------------------------------------------------------------
(* The working thread. *)

\* A mutant: the limit is checked one packet too late.
InsertPacketPastLimit(pk) ==
  IF Len(pool) <= PoolMax
  THEN /\ pool' = Append(pool, pk)
       /\ UNCHANGED dropped
  ELSE /\ dropped' = dropped \cup {pk.sock}
       /\ UNCHANGED pool

\* MemPool::InsertUDPData: a full pool refuses the packet and counts a loss.
InsertPacket(pk) ==
  IF Len(pool) < PoolMax
  THEN /\ pool' = Append(pool, pk)
       /\ UNCHANGED dropped
  ELSE /\ dropped' = IF pk.type = "LostConnection" THEN dropped
                     ELSE dropped \cup {pk.sock}
       /\ UNCHANGED pool

\* A mutant: a quiet connection counts as lost.
ExceptionalWhenQuiet(S) == {s \in S : inbox[s] = <<>>}

\* What selectEx reports of a list of sockets: a broken or closed socket is
\* exceptional whatever it still holds, another one readable if it holds a message.
Exceptional(S) == {s \in S : conn[s] \in {"broken", "closed"}}
\* A mutant: a lone message is not seen.
ReadableNotLast(S) == {s \in S \ Exceptional(S) : Len(inbox[s]) > 1}
Readable(S) == {s \in S \ Exceptional(S) : inbox[s] # <<>>}

\* One selectEx over the shared list, which only this call locks.
Select ==
  /\ rfds = {} /\ efds = {}
  /\ rfds' = Readable(clientSockets)
  /\ efds' = Exceptional(clientSockets)
  /\ rfds' \cup efds' # {}
  /\ UNCHANGED <<netVars, accepted, clientSockets, poolVars, mainVars, mapVars,
                 frozen, vupVars, ack, fault>>

Without(seq, i) == SubSeq(seq, 1, i - 1) \o SubSeq(seq, i + 1, Len(seq))

\* recvmsg on a socket of the copied list; it fails when the manager closed the
\* socket in between, and still delivers when only the peer is gone.  sendmsg is
\* called without inorder, so a later message may overtake an earlier one.
Receive(s) ==
  /\ s \in rfds
  /\ rfds' = rfds \ {s}
  /\ IF conn[s] # "closed" /\ inbox[s] # <<>>
     THEN \E i \in DOMAIN inbox[s] :
            LET m == inbox[s][i]
            IN /\ inbox' = [inbox EXCEPT ![s] = Without(@, i)]
               /\ InsertPacket([type |-> m.type, sock |-> s, field |-> m.field])
     ELSE UNCHANGED <<inbox, poolVars>>
  /\ UNCHANGED <<conn, sends, accepted, efds, clientSockets, mainVars, mapVars,
                 frozen, vupVars, ack, fault>>

LostPacket(s) == [type |-> "LostConnection", sock |-> s, field |-> FreshField]

\* Broken sockets are reported after the readable ones, again on every poll
\* until the main thread has taken the socket off the list.
ReportBroken(s) ==
  /\ rfds = {}
  /\ s \in efds
  /\ efds' = efds \ {s}
  /\ InsertPacket(LostPacket(s))
  /\ UNCHANGED <<netVars, accepted, rfds, clientSockets, mainVars, mapVars,
                 frozen, vupVars, ack, fault>>

-----------------------------------------------------------------------------
(* The main thread. *)

\* _HandleUdpPack takes everything the pool holds.  The size is read before the
\* lock is taken; only this thread removes packets, so the two reads are one
\* step here and apart in MemPool.
StartTick ==
  /\ mainPc = "idle"
  /\ mainPc' = "packets"
  /\ batch' = pool
  /\ pool' = <<>>
  /\ UNCHANGED <<netVars, workerVars, dropped, mapVars, frozen, vupVars, ack, fault>>

\* The packet the loop of _HandleUdpPack has reached.
Handling(type, s) ==
  /\ mainPc = "packets"
  /\ batch # <<>>
  /\ Head(batch).type = type
  /\ Head(batch).sock = s
  /\ batch' = Tail(batch)
  /\ mainPc' = mainPc

\* Mutants of RemoveVup: the object stays in the dirty set; the passport stays taken.
RemoveVupKeepsDirty(p) ==
  IF p # NoPassport /\ byPassport[p] # NoVup
  THEN LET d == byPassport[p]
       IN /\ view' = IF key[d] = NoKey THEN view ELSE [view EXCEPT ![key[d]] = NoVup]
          /\ byPassport' = [byPassport EXCEPT ![p] = NoVup]
          /\ life' = [life EXCEPT ![d] = "freed"]
          /\ conn' = IF d \in Sockets THEN [conn EXCEPT ![d] = "closed"] ELSE conn
          /\ UNCHANGED dirty
  ELSE UNCHANGED <<dirty, view, byPassport, life, conn>>
RemoveVupKeepsPassport(p) ==
  IF p # NoPassport /\ byPassport[p] # NoVup
  THEN LET d == byPassport[p]
       IN /\ dirty' = dirty \ {d}
          /\ view' = IF key[d] = NoKey THEN view ELSE [view EXCEPT ![key[d]] = NoVup]
          /\ life' = [life EXCEPT ![d] = "freed"]
          /\ conn' = IF d \in Sockets THEN [conn EXCEPT ![d] = "closed"] ELSE conn
          /\ UNCHANGED byPassport
  ELSE UNCHANGED <<dirty, view, byPassport, life, conn>>

\* VMVupManager::RemoveVup(p) and the destructor it calls, which closes the socket.
RemoveVup(p) ==
  IF p # NoPassport /\ byPassport[p] # NoVup
  THEN LET d == byPassport[p]
       IN /\ dirty' = dirty \ {d}
          /\ view' = IF key[d] = NoKey THEN view ELSE [view EXCEPT ![key[d]] = NoVup]
          /\ byPassport' = [byPassport EXCEPT ![p] = NoVup]
          /\ life' = [life EXCEPT ![d] = "freed"]
          /\ conn' = IF d \in Sockets THEN [conn EXCEPT ![d] = "closed"] ELSE conn
  ELSE UNCHANGED <<dirty, view, byPassport, life, conn>>

\* A mutant: the socket stays on the list the working thread polls.
ForgetKeepsSocket(s) ==
  /\ bySocket' = bySocket \ {s}
  /\ RemoveVup(id[s])
  /\ UNCHANGED clientSockets

\* The object is found by socket but removed by passport.
Forget(s) ==
  /\ bySocket' = bySocket \ {s}
  /\ RemoveVup(id[s])
  /\ clientSockets' = clientSockets \ {s}

\* LostConnection, of a socket that is unknown, known, or known but deleted.
LostConnection(s) ==
  /\ Handling("LostConnection", s)
  /\ \/ /\ s \notin bySocket
        /\ UNCHANGED <<conn, clientSockets, mapVars, life, fault>>
     \/ /\ s \in bySocket /\ life[s] # "freed"
        /\ Forget(s)
        /\ UNCHANGED fault
     \/ /\ s \in bySocket /\ life[s] = "freed"
        /\ fault' = TRUE
        /\ UNCHANGED <<conn, clientSockets, mapVars, life>>
  /\ UNCHANGED <<inbox, sends, accepted, rfds, efds, poolVars, frozen, id, field,
                 key, ack>>

\* A mutant: the object is shown but its passport is not recorded.
AddVupViewOnly(v, p, k) ==
  /\ UNCHANGED byPassport
  /\ key' = [key EXCEPT ![v] = k]
  /\ view' = IF view[k] = NoVup THEN [view EXCEPT ![k] = v] ELSE view

\* AddVup(v), with the key v has at that moment.
AddVup(v, p, k) ==
  IF byPassport[p] = NoVup
  THEN /\ byPassport' = [byPassport EXCEPT ![p] = v]
       /\ key' = [key EXCEPT ![v] = k]
       /\ view' = IF view[k] = NoVup THEN [view EXCEPT ![k] = v] ELSE view
  ELSE UNCHANGED <<byPassport, key, view>>

\* SetStatus and SetTestPhase mark an object dirty when they change it.  SetTestPhase
\* compares the new phase with the current status, so it may also mark an object
\* whose attributes stay the same.
Report(v, f) ==
  \/ f = field[v] /\ UNCHANGED dirty
  \/ dirty' = dirty \cup {v}

\* A mutant: AddVup's answer is ignored.
AnswerOk(p) == "ok"
Answer(p) == IF byPassport[p] = NoVup THEN "ok" ELSE "rejected"

\* The ClientRegister case: the passport and the attributes are taken over
\* before AddVup decides, so a rejected object keeps them.
Register(s) ==
  LET p == PassportOf[s]
      f == Head(batch).field
  IN /\ Handling("ClientRegister", s)
     /\ s \in bySocket /\ life[s] = "live"
     /\ id' = [id EXCEPT ![s] = p]
     /\ field' = [field EXCEPT ![s] = f]
     /\ Report(s, f)
     /\ AddVup(s, p, <<f, p>>)
     /\ ack' = [ack EXCEPT ![s] = Answer(p)]
     /\ UNCHANGED <<netVars, workerVars, poolVars, bySocket, frozen, life, fault>>

\* The ClientRegister case for a socket without a live object: retried by
\* putting the packet back into the pool, or undefined if the object is gone.
RegisterUnknown(s) ==
  /\ Handling("ClientRegister", s)
  /\ ~(s \in bySocket /\ life[s] = "live")
  /\ fault' = (s \in bySocket)
  /\ IF s \in bySocket THEN UNCHANGED poolVars ELSE InsertPacket(Head(batch))
  /\ UNCHANGED <<netVars, workerVars, mapVars, frozen, vupVars, ack>>

\* The ReportClientStatus and ReachRDVPoint cases look the object up by the
\* passport in the packet; a rendezvous always marks it dirty (SetGroup, SetRDVPointID).
Update(type, s) ==
  LET v == byPassport[PassportOf[s]]
      f == Head(batch).field
  IN /\ Handling(type, s)
     /\ \/ /\ v = NoVup
           /\ UNCHANGED <<field, dirty>>
        \/ /\ v # NoVup /\ type = "ReportClientStatus"
           /\ field' = [field EXCEPT ![v] = f]
           /\ Report(v, f)
        \/ /\ v # NoVup /\ type = "ReachRDVPoint"
           /\ field' = [field EXCEPT ![v] = f]
           /\ dirty' = dirty \cup {v}
     /\ UNCHANGED <<netVars, workerVars, poolVars, bySocket, byPassport, view,
                    frozen, life, id, key, ack, fault>>

\* _UpdateViewMap after the last packet: while the list is frozen the dirty
\* set is only cleared.
StartViewUpdate ==
  /\ mainPc = "packets" /\ batch = <<>>
  /\ mainPc' = "view"
  /\ dirty' = IF frozen THEN {} ELSE dirty
  /\ UNCHANGED <<netVars, workerVars, poolVars, batch, bySocket, byPassport, view,
                 frozen, vupVars, ack, fault>>

\* One round of the loop of _UpdateViewMap: the object moves to its new key.
ReKey(v) ==
  LET old == IF key[v] = NoKey THEN view ELSE [view EXCEPT ![key[v]] = NoVup]
      new == <<field[v], id[v]>>
  IN /\ mainPc = "view"
     /\ v \in dirty
     /\ dirty' = dirty \ {v}
     /\ key' = [key EXCEPT ![v] = new]
     /\ view' = IF old[new] = NoVup THEN [old EXCEPT ![new] = v] ELSE old
     /\ UNCHANGED <<netVars, workerVars, poolVars, mainVars, bySocket, byPassport,
                    frozen, life, id, field, ack, fault>>

\* The UI draws every object of the view map and the tick ends.
EndTick ==
  /\ mainPc = "view" /\ dirty = {}
  /\ mainPc' = "idle"
  /\ fault' = \E k \in Keys : view[k] # NoVup /\ life[view[k]] = "freed"
  /\ UNCHANGED <<netVars, workerVars, poolVars, batch, mapVars, frozen, vupVars, ack>>

-----------------------------------------------------------------------------
(* Operator commands, executed by the main thread between two ticks. *)

\* addvup: the object is made and given its passport whether AddVup takes it or not.
AddVupCommand(v) ==
  LET p == PassportOf[v]
  IN /\ mainPc = "idle"
     /\ life[v] = "unused"
     /\ life' = [life EXCEPT ![v] = "live"]
     /\ id' = [id EXCEPT ![v] = p]
     /\ AddVup(v, p, <<field[v], p>>)
     /\ UNCHANGED <<netVars, workerVars, poolVars, mainVars, bySocket, dirty, frozen,
                    field, ack, fault>>

\* removevup.
RemoveVupCommand(p) ==
  /\ mainPc = "idle"
  /\ byPassport[p] # NoVup
  /\ RemoveVup(p)
  /\ UNCHANGED <<inbox, sends, workerVars, poolVars, mainVars, bySocket, frozen, id,
                 field, key, ack, fault>>

\* updatevup: the operator overwrites the status or the phase of a client.
UpdateVupCommand(p, f) ==
  LET v == byPassport[p]
  IN /\ mainPc = "idle"
     /\ v # NoVup
     /\ field' = [field EXCEPT ![v] = f]
     /\ Report(v, f)
     /\ UNCHANGED <<netVars, workerVars, poolVars, mainVars, bySocket, byPassport,
                    view, frozen, life, id, key, ack, fault>>

\* A mutant: the view map is rebuilt but the objects keep their old keys.
RefreshKeepsKeys ==
  LET Shown(k) == LET v == byPassport[k[2]]
                  IN IF v # NoVup /\ field[v] = k[1] THEN v ELSE NoVup
  IN /\ mainPc = "idle"
     /\ view' = [k \in Keys |-> Shown(k)]
     /\ UNCHANGED <<netVars, workerVars, poolVars, mainVars, bySocket, byPassport,
                    dirty, frozen, vupVars, ack, fault>>

\* sort: RefreshViewMap rebuilds the view map from the map by passport.
RefreshViewMap ==
  LET Shown(k) == LET v == byPassport[k[2]]
                  IN IF v # NoVup /\ field[v] = k[1] THEN v ELSE NoVup
  IN /\ mainPc = "idle"
     /\ view' = [k \in Keys |-> Shown(k)]
     /\ key' = [v \in Vups |-> IF \E p \in Passports : byPassport[p] = v
                               THEN <<field[v], id[v]>> ELSE key[v]]
     /\ UNCHANGED <<netVars, workerVars, poolVars, mainVars, bySocket, byPassport,
                    dirty, frozen, life, id, field, ack, fault>>

\* setp -freezelist.
FreezeList ==
  /\ mainPc = "idle"
  /\ frozen' = ~frozen
  /\ UNCHANGED <<netVars, workerVars, poolVars, mainVars, mapVars, vupVars, ack, fault>>

-----------------------------------------------------------------------------
Client(s) == Connect(s) \/ Break(s) \/ \E m \in Offered : Send(s, m)
Listener == AddClientSocket \/ \E s \in Sockets : Accept(s)
Worker == Select \/ \E s \in Sockets : Receive(s) \/ ReportBroken(s)
HandlePacket(s) ==
  \/ LostConnection(s)
  \/ Register(s)
  \/ RegisterUnknown(s)
  \/ Update("ReportClientStatus", s)
  \/ Update("ReachRDVPoint", s)
Tick ==
  \/ StartTick
  \/ \E s \in Sockets : HandlePacket(s)
  \/ StartViewUpdate
  \/ \E v \in Vups : ReKey(v)
  \/ EndTick
Console ==
  \/ \E v \in ConsoleVups : AddVupCommand(v)
  \/ \E p \in RemovablePassports : RemoveVupCommand(p)
  \/ \E p \in UpdatedPassports, f \in Fields : UpdateVupCommand(p, f)
  \/ RefreshViewMap
  \/ FreezeList

\* After undefined behaviour nothing is claimed: the model stops.
Next ==
  /\ ~fault
  /\ \/ \E s \in Sockets : Client(s)
     \/ Listener
     \/ Worker
     \/ Tick
     \/ Console

Spec == Init /\ [][Next]_vars

\* The manager's threads run; clients and the operator may stop at any time.
Fairness ==
  /\ WF_vars(~fault /\ Listener)
  /\ WF_vars(~fault /\ Worker)
  /\ WF_vars(~fault /\ Tick)

FairSpec == Spec /\ Fairness

-----------------------------------------------------------------------------
(* Properties. *)

\* No two connections, and no addvup, claim one passport, and the operator
\* removes only what addvup made: how the manager is meant to be used.
DistinctPassports ==
  /\ \A u, v \in Vups : PassportOf[u] = PassportOf[v] => u = v
  /\ \A s \in Sockets : PassportOf[s] \notin RemovablePassports

\* v is reachable from one of the manager's containers.
Reachable(v) ==
  \/ v \in bySocket \cup dirty
  \/ \E p \in Passports : byPassport[p] = v
  \/ \E k \in Keys : view[k] = v

\* Deleting a VMVup takes it out of every container that still points to it
\* (RemoveVup, LostConnection), so no handler ever follows a dangling pointer.
NoDanglingPointer == ~fault /\ \A v \in Vups : Reachable(v) => life[v] = "live"

\* The list on screen shows exactly the registered clients, each once and under
\* the key it would be erased by, frozen or not (AddVup, _UpdateViewMap, RemoveVup).
ViewShowsRegistered ==
  /\ \A k \in Keys : view[k] # NoVup => key[view[k]] = k /\ byPassport[k[2]] = view[k]
  /\ \A p \in Passports : byPassport[p] # NoVup =>
       \E k \in Keys : view[k] = byPassport[p]

\* A passport is never lost under a client that was told it has it and is still
\* connected (ClientRegister case against LostConnection and RemoveVup).
AckedClientHoldsPassport ==
  \A s \in Sockets : ack[s] = "ok" /\ conn[s] = "up" => byPassport[PassportOf[s]] = s

\* Whatever passports clients claim, two connected clients are never both told
\* they have the same one.
AckedPassportsDiffer ==
  \A s, t \in Sockets :
    /\ ack[s] = "ok" /\ ack[t] = "ok"
    /\ conn[s] = "up" /\ conn[t] = "up"
    /\ PassportOf[s] = PassportOf[t]
    => s = t

\* The map by passport and the objects agree: an entry is live, has that unique
\* id, and RemoveVup(GetUniqueID()) therefore removes the entry it means.
PassportMapAgrees ==
  \A p \in Passports : byPassport[p] # NoVup =>
    id[byPassport[p]] = p /\ life[byPassport[p]] = "live"

\* Every ClientRegister packet still to be handled belongs to a connection the
\* manager knows, so the retry of the ClientRegister case cannot spin for ever:
\* the listening thread publishes the object before the socket can be polled,
\* and LostConnection follows the last message of its connection.
NoOrphanRegister ==
  \A pk \in {pool[i] : i \in DOMAIN pool} \cup {batch[i] : i \in DOMAIN batch} :
    pk.type = "ClientRegister" => pk.sock \in bySocket

\* The registry keeps the lease contract, whatever passports clients claim and the
\* operator removes: a free passport is granted, a held one refused, and a holder
\* whose connection is up is cut off only by removevup or by LostConnection of a
\* client that was refused its passport (1587), never by anybody else's departure.
Lease == INSTANCE PassportLease WITH
  Clients <- Vups,
  NoClient <- NoVup,
  Silent <- ConsoleVups,
  Withdrawable <- RemovablePassports,
  holder <- byPassport,
  gone <- {s \in Sockets : conn[s] \in {"broken", "closed"}} \cup ConsoleVups,
  reply <- [v \in Vups |-> IF v \in Sockets THEN ack[v] ELSE "none"],
  turn <- IF mainPc = "idle" THEN "operator" ELSE "clients"

KeepsLeases == Lease!Spec

\* A broken connection is eventually forgotten even when the pool overflows in
\* between, because the working thread reports it again on every poll.  (Clients
\* that share a passport can end the model in undefined behaviour first.)
BrokenConnectionForgotten ==
  \A s \in Sockets :
    (conn[s] = "broken" /\ s \in clientSockets) ~> (s \notin clientSockets \/ fault)

\* A client that asks to register is answered, unless its connection breaks or
\* the full pool refused one of its messages.
RegisterAnswered ==
  \A s \in Sockets :
    (conn[s] = "up" /\ \E i \in DOMAIN inbox[s] : inbox[s][i].type = "ClientRegister")
      ~> (ack[s] # "none" \/ conn[s] # "up" \/ s \in dropped \/ fault)
=============================================================================
