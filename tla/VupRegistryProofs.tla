------------------------- MODULE VupRegistryProofs -------------------------
(***************************************************************************)
(* Theorems about VupRegistry.  The types, the agreement of the map by     *)
(* passport with the objects and with the answers that were sent, what is  *)
(* on its way between the working thread and the main thread (DeliveryInv) *)
(* and the refinement of PassportLease hold for every value of the         *)
(* constants, whatever passports the clients claim and whatever the        *)
(* operator removes.  DistinctInv, and with it the absence of dangling     *)
(* pointers, holds when the manager is used as it is meant to be           *)
(* (DistinctPassports).                                                    *)
(***************************************************************************)
EXTENDS VupRegistry, SequenceTheorems, TLAPS

\* What a packet is made of, for the leaves that build or take one apart.
LEMMA PacketFacts ==
  /\ \A m \in Message, s \in Sockets :
       [type |-> m.type, sock |-> s, field |-> m.field] \in Packet
  /\ \A s \in Sockets : LostPacket(s) \in Packet
  /\ \A pk \in Packet : pk.field \in Fields
BY ConstantsAssumption DEF Message, Packet, LostPacket, ClientTypes

LEMMA InitType == Init => TypeOK
<1> SUFFICES ASSUME Init PROVE TypeOK
  OBVIOUS
<1> USE ConstantsAssumption DEF Init
<1>1. NetTypeOK
  BY DEF NetTypeOK
<1>2. WorkerTypeOK /\ PoolTypeOK /\ MainTypeOK
  BY DEF WorkerTypeOK, PoolTypeOK, MainTypeOK
<1>3. MapTypeOK /\ VupTypeOK
  BY DEF MapTypeOK, VupTypeOK
<1>4. QED
  BY <1>1, <1>2, <1>3 DEF TypeOK

LEMMA PoolType == ASSUME TypeOK, NEW pk \in Packet, InsertPacket(pk)
  PROVE PoolTypeOK'
<1> USE DEF TypeOK, PoolTypeOK
<1>1. pk.sock \in Sockets /\ PoolMax \in Nat
  BY ConstantsAssumption DEF Packet
<1>2. CASE Len(pool) < PoolMax
  BY <1>1, <1>2 DEF InsertPacket
<1>3. CASE ~(Len(pool) < PoolMax)
  BY <1>1, <1>3 DEF InsertPacket
<1>4. QED
  BY <1>2, <1>3

\* A group of variables that a step leaves alone keeps its type.
LEMMA Frames == ASSUME TypeOK
  PROVE /\ UNCHANGED netVars => NetTypeOK'
        /\ UNCHANGED workerVars => WorkerTypeOK'
        /\ UNCHANGED poolVars => PoolTypeOK'
        /\ UNCHANGED mainVars => MainTypeOK'
        /\ UNCHANGED mapVars => MapTypeOK'
        /\ UNCHANGED vupVars => VupTypeOK'
<1> USE DEF TypeOK
<1>1. UNCHANGED netVars => NetTypeOK'
  BY DEF NetTypeOK, netVars
<1>2. UNCHANGED workerVars => WorkerTypeOK'
  BY DEF WorkerTypeOK, workerVars
<1>3. UNCHANGED poolVars => PoolTypeOK'
  BY DEF PoolTypeOK, poolVars
<1>4. UNCHANGED mainVars => MainTypeOK'
  BY DEF MainTypeOK, mainVars
<1>5. UNCHANGED mapVars => MapTypeOK'
  BY DEF MapTypeOK, mapVars
<1>6. UNCHANGED vupVars => VupTypeOK'
  BY DEF VupTypeOK, vupVars
<1>7. QED
  BY <1>1, <1>2, <1>3, <1>4, <1>5, <1>6

LEMMA ClientType == ASSUME TypeOK, NEW s \in Sockets, Client(s) PROVE TypeOK'
<1> USE DEF TypeOK
<1>1. CASE Connect(s)
  <2>1. NetTypeOK'
    BY <1>1 DEF Connect, NetTypeOK
  <2>2. QED
    BY <1>1, <2>1, Frames DEF Connect
<1>2. ASSUME NEW m \in Offered, Send(s, m) PROVE TypeOK'
  <2>1. m \in Message
    BY ConstantsAssumption
  <2>2. inbox' \in [Sockets -> Seq(Message)]
    BY <1>2, <2>1 DEF Send, NetTypeOK
  <2>3. sends' \in [Sockets -> Nat]
    BY <1>2 DEF Send, NetTypeOK
  <2>4. ASSUME NEW t \in Sockets PROVE sends'[t] <= MaxSends[t]
    <3>1. sends[t] \in Nat /\ MaxSends[t] \in Nat /\ sends[t] <= MaxSends[t]
      BY ConstantsAssumption DEF NetTypeOK
    <3>2. sends'[t] = IF t = s THEN sends[t] + 1 ELSE sends[t]
      BY <1>2 DEF Send, NetTypeOK
    <3> QED
      BY <1>2, <3>1, <3>2 DEF Send
  <2>5. NetTypeOK'
    BY <1>2, <2>2, <2>3, <2>4 DEF Send, NetTypeOK
  <2>6. QED
    BY <1>2, <2>5, Frames DEF Send
<1>3. CASE Break(s)
  <2>1. NetTypeOK'
    BY <1>3 DEF Break, NetTypeOK
  <2>2. QED
    BY <1>3, <2>1, Frames DEF Break
<1>4. QED
  BY <1>1, <1>2, <1>3 DEF Client

LEMMA ListenerType == ASSUME TypeOK, Listener PROVE TypeOK'
<1> USE DEF TypeOK
<1>1. ASSUME NEW s \in Sockets, Accept(s) PROVE TypeOK'
  <2>1. NetTypeOK'
    BY <1>1 DEF Accept, NetTypeOK
  <2>2. WorkerTypeOK'
    BY <1>1 DEF Accept, WorkerTypeOK
  <2>3. MapTypeOK'
    BY <1>1 DEF Accept, MapTypeOK
  <2>4. VupTypeOK'
    BY <1>1 DEF Accept, VupTypeOK, Vups
  <2>5. QED
    BY <1>1, <2>1, <2>2, <2>3, <2>4, Frames DEF Accept
<1>2. CASE AddClientSocket
  <2>1. WorkerTypeOK'
    BY <1>2 DEF AddClientSocket, WorkerTypeOK
  <2>2. QED
    BY <1>2, <2>1, Frames DEF AddClientSocket
<1>3. QED
  BY <1>1, <1>2 DEF Listener

\* A sequence without its i-th element has the same type.
LEMMA WithoutType == ASSUME NEW S, NEW seq \in Seq(S), NEW i \in DOMAIN seq
  PROVE Without(seq, i) \in Seq(S)
<1>1. i \in 1..Len(seq) /\ Len(seq) \in Nat
  OBVIOUS
<1>2. \A j \in 1..Len(seq) : seq[j] \in S
  OBVIOUS
<1>3. SubSeq(seq, 1, i - 1) \in Seq(S)
  BY <1>1, <1>2, SubSeqProperties
<1>4. SubSeq(seq, i + 1, Len(seq)) \in Seq(S)
  BY <1>1, <1>2, SubSeqProperties
<1>5. QED
  BY <1>3, <1>4, ConcatProperties DEF Without

LEMMA WorkerType == ASSUME TypeOK, Worker PROVE TypeOK'
<1> USE DEF TypeOK
<1>1. CASE Select
  <2>1. WorkerTypeOK'
    BY <1>1 DEF Select, Readable, Exceptional, WorkerTypeOK
  <2>2. QED
    BY <1>1, <2>1, Frames DEF Select
<1>2. ASSUME NEW s \in Sockets, Receive(s) PROVE TypeOK'
  <2>1. WorkerTypeOK'
    BY <1>2 DEF Receive, WorkerTypeOK
  <2>2. CASE conn[s] # "closed" /\ inbox[s] # <<>>
    <3> PICK i \in DOMAIN inbox[s] :
               LET m == inbox[s][i]
               IN /\ inbox' = [inbox EXCEPT ![s] = Without(@, i)]
                  /\ InsertPacket([type |-> m.type, sock |-> s, field |-> m.field])
      BY <1>2, <2>2 DEF Receive
    <3> DEFINE m == inbox[s][i]
    <3>1. m \in Message /\ Without(inbox[s], i) \in Seq(Message)
      BY WithoutType DEF NetTypeOK
    <3>2. NetTypeOK'
      BY <1>2, <2>2, <3>1 DEF Receive, NetTypeOK
    <3>3. PoolTypeOK'
      BY <1>2, <2>2, <3>1, PacketFacts, PoolType DEF Receive
    <3>4. QED
      BY <1>2, <2>1, <3>2, <3>3, Frames DEF Receive
  <2>3. CASE ~(conn[s] # "closed" /\ inbox[s] # <<>>)
    <3>1. NetTypeOK'
      BY <1>2, <2>3 DEF Receive, NetTypeOK
    <3>2. QED
      BY <1>2, <2>1, <2>3, <3>1, Frames DEF Receive
  <2>4. QED
    BY <2>2, <2>3
<1>3. ASSUME NEW s \in Sockets, ReportBroken(s) PROVE TypeOK'
  <2>1. WorkerTypeOK'
    BY <1>3 DEF ReportBroken, WorkerTypeOK
  <2>2. PoolTypeOK'
    BY <1>3, PacketFacts, PoolType DEF ReportBroken
  <2>3. QED
    BY <1>3, <2>1, <2>2, Frames DEF ReportBroken
<1>4. QED
  BY <1>1, <1>2, <1>3 DEF Worker

\* The packet being handled leaves the batch; the packets behind it keep their type.
LEMMA HandlingType ==
  ASSUME TypeOK, NEW type, NEW s \in Sockets, Handling(type, s)
  PROVE MainTypeOK' /\ Head(batch) \in Packet
BY DEF TypeOK, MainTypeOK, Handling

LEMMA RemoveVupType ==
  ASSUME TypeOK, NEW p \in Passports \cup {NoPassport}, RemoveVup(p)
  PROVE /\ dirty' \subseteq Vups
        /\ byPassport' \in [Passports -> Vups \cup {NoVup}]
        /\ view' \in [Keys -> Vups \cup {NoVup}]
        /\ life' \in [Vups -> {"unused", "live", "freed"}]
        /\ conn' \in [Sockets -> {"idle", "queued", "up", "broken", "closed"}]
<1> USE DEF TypeOK, MapTypeOK, VupTypeOK, NetTypeOK
<1>1. CASE p # NoPassport /\ byPassport[p] # NoVup
  <2>1. PICK d \in Vups : d = byPassport[p]
    BY <1>1
  <2>2. view' \in [Keys -> Vups \cup {NoVup}]
    BY <1>1, <2>1 DEF RemoveVup
  <2>3. QED
    BY <1>1, <2>1, <2>2 DEF RemoveVup
<1>2. CASE ~(p # NoPassport /\ byPassport[p] # NoVup)
  BY <1>2 DEF RemoveVup
<1>3. QED
  BY <1>1, <1>2

LEMMA AddVupType ==
  ASSUME TypeOK, NEW v \in Vups, NEW p \in Passports, NEW k \in Keys, AddVup(v, p, k)
  PROVE /\ byPassport' \in [Passports -> Vups \cup {NoVup}]
        /\ view' \in [Keys -> Vups \cup {NoVup}]
        /\ key' \in [Vups -> Keys \cup {NoKey}]
BY DEF TypeOK, MapTypeOK, VupTypeOK, AddVup

LEMMA HandlePacketType ==
  ASSUME TypeOK, NEW s \in Sockets, HandlePacket(s) PROVE TypeOK'
<1> USE DEF TypeOK
<1> s \in Vups
  BY DEF Vups
<1>1. CASE LostConnection(s)
  <2>1. MainTypeOK'
    BY <1>1, HandlingType DEF LostConnection
  <2>2. CASE s \notin bySocket \/ life[s] = "freed"
    BY <1>1, <2>1, <2>2, Frames
       DEF LostConnection, mapVars, vupVars, netVars, workerVars
  <2>3. CASE s \in bySocket /\ life[s] # "freed"
    <3>1. RemoveVup(id[s]) /\ id[s] \in Passports \cup {NoPassport}
      BY <1>1, <2>3 DEF LostConnection, Forget, VupTypeOK
    <3>2. NetTypeOK'
      BY <1>1, <3>1, RemoveVupType DEF LostConnection, Forget, NetTypeOK
    <3>3. WorkerTypeOK'
      BY <1>1, <2>3 DEF LostConnection, Forget, WorkerTypeOK
    <3>4. MapTypeOK'
      BY <1>1, <2>3, <3>1, RemoveVupType DEF LostConnection, Forget, MapTypeOK
    <3>5. VupTypeOK'
      BY <1>1, <3>1, RemoveVupType DEF LostConnection, VupTypeOK
    <3>6. QED
      BY <1>1, <2>1, <2>3, <3>2, <3>3, <3>4, <3>5, Frames DEF LostConnection, Forget
  <2>4. QED
    BY <2>2, <2>3
<1>2. CASE Register(s)
  <2> DEFINE p == PassportOf[s]
             f == Head(batch).field
  <2>1. MainTypeOK' /\ f \in Fields
    BY <1>2, HandlingType, PacketFacts DEF Register
  <2>2. p \in Passports /\ <<f, p>> \in Keys
    BY <2>1, ConstantsAssumption DEF Keys
  <2>3. AddVup(s, p, <<f, p>>)
    BY <1>2 DEF Register
  <2> HIDE DEF p, f
  <2>4. MapTypeOK'
    BY <1>2, <2>2, <2>3, AddVupType DEF Register, Report, MapTypeOK
  <2>5. VupTypeOK'
    BY <1>2, <2>1, <2>2, <2>3, AddVupType DEF Register, VupTypeOK, p, f
  <2>6. ack' \in [Sockets -> {"none", "ok", "rejected"}]
    BY <1>2 DEF Register, Answer
  <2>7. QED
    BY <1>2, <2>1, <2>4, <2>5, <2>6, Frames DEF Register
<1>3. CASE RegisterUnknown(s)
  <2>1. MainTypeOK' /\ Head(batch) \in Packet
    BY <1>3, HandlingType DEF RegisterUnknown
  <2>2. PoolTypeOK'
    <3>1. CASE s \in bySocket
      BY <1>3, <3>1, Frames DEF RegisterUnknown
    <3>2. CASE s \notin bySocket
      BY <1>3, <2>1, <3>2, PoolType DEF RegisterUnknown
    <3>3. QED
      BY <3>1, <3>2
  <2>3. QED
    BY <1>3, <2>1, <2>2, Frames DEF RegisterUnknown
<1>4. ASSUME NEW type, Update(type, s) PROVE TypeOK'
  <2>1. MainTypeOK' /\ Head(batch).field \in Fields
    BY <1>4, HandlingType, PacketFacts DEF Update
  <2>2. byPassport[PassportOf[s]] \in Vups \cup {NoVup}
    BY ConstantsAssumption DEF MapTypeOK
  <2>3. MapTypeOK'
    BY <1>4, <2>2 DEF Update, Report, MapTypeOK
  <2>4. VupTypeOK'
    BY <1>4, <2>1, <2>2 DEF Update, VupTypeOK
  <2>5. QED
    BY <1>4, <2>1, <2>3, <2>4, Frames DEF Update
<1>5. QED
  BY <1>1, <1>2, <1>3, <1>4 DEF HandlePacket

\* TypeOK alone is not inductive: an object is re-keyed by its unique id, so
\* every object a container refers to must have been given one.
Identified ==
  \A v \in Vups :
    (v \in dirty \/ \E p \in Passports : byPassport[p] = v) => id[v] # NoPassport

TypeInv == TypeOK /\ Identified

LEMMA TickType == ASSUME TypeInv, Tick PROVE TypeOK'
<1> USE DEF TypeOK, TypeInv
<1>1. CASE StartTick
  <2>1. PoolTypeOK' /\ MainTypeOK'
    BY <1>1, ConstantsAssumption DEF StartTick, PoolTypeOK, MainTypeOK
  <2>2. QED
    BY <1>1, <2>1, Frames DEF StartTick
<1>2. ASSUME NEW s \in Sockets, HandlePacket(s) PROVE TypeOK'
  BY <1>2, HandlePacketType
<1>3. CASE StartViewUpdate
  <2>1. MainTypeOK' /\ MapTypeOK'
    BY <1>3 DEF StartViewUpdate, MainTypeOK, MapTypeOK
  <2>2. QED
    BY <1>3, <2>1, Frames DEF StartViewUpdate
<1>4. ASSUME NEW v \in Vups, ReKey(v) PROVE TypeOK'
  <2>1. id[v] \in Passports
    BY <1>4 DEF ReKey, Identified, VupTypeOK
  <2>2. <<field[v], id[v]>> \in Keys
    BY <2>1 DEF VupTypeOK, Keys
  <2>3. MapTypeOK'
    BY <1>4, <2>2 DEF ReKey, MapTypeOK
  <2>4. VupTypeOK'
    BY <1>4, <2>2 DEF ReKey, VupTypeOK
  <2>5. QED
    BY <1>4, <2>3, <2>4, Frames DEF ReKey
<1>5. CASE EndTick
  <2>1. MainTypeOK'
    BY <1>5 DEF EndTick, MainTypeOK
  <2>2. QED
    BY <1>5, <2>1, Frames DEF EndTick
<1>6. QED
  BY <1>1, <1>2, <1>3, <1>4, <1>5 DEF Tick

LEMMA ConsoleType == ASSUME TypeInv, Console PROVE TypeOK'
<1> USE DEF TypeOK, TypeInv
<1>1. ASSUME NEW v \in ConsoleVups, AddVupCommand(v) PROVE TypeOK'
  <2> DEFINE p == PassportOf[v]
  <2>1. v \in Vups /\ p \in Passports
    BY ConstantsAssumption DEF Vups
  <2>2. <<field[v], p>> \in Keys
    BY <2>1 DEF Keys, VupTypeOK
  <2>3. AddVup(v, p, <<field[v], p>>)
    BY <1>1 DEF AddVupCommand
  <2> HIDE DEF p
  <2>4. MapTypeOK'
    BY <1>1, <2>1, <2>2, <2>3, AddVupType DEF AddVupCommand, MapTypeOK
  <2>5. VupTypeOK'
    BY <1>1, <2>1, <2>2, <2>3, AddVupType DEF AddVupCommand, VupTypeOK, p
  <2>6. QED
    BY <1>1, <2>4, <2>5, Frames DEF AddVupCommand
<1>2. ASSUME NEW p \in RemovablePassports, RemoveVupCommand(p) PROVE TypeOK'
  <2>1. p \in Passports \cup {NoPassport} /\ RemoveVup(p)
    BY <1>2, ConstantsAssumption DEF RemoveVupCommand
  <2>2. NetTypeOK'
    BY <1>2, <2>1, RemoveVupType DEF RemoveVupCommand, NetTypeOK
  <2>3. MapTypeOK' /\ VupTypeOK'
    BY <1>2, <2>1, RemoveVupType DEF RemoveVupCommand, MapTypeOK, VupTypeOK
  <2>4. QED
    BY <1>2, <2>2, <2>3, Frames DEF RemoveVupCommand
<1>3. CASE RefreshViewMap
  <2>1. view' \in [Keys -> Vups \cup {NoVup}]
    <3>1. \A k \in Keys : k[2] \in Passports
      BY DEF Keys
    <3>2. QED
      BY <1>3, <3>1 DEF RefreshViewMap, MapTypeOK
  <2>2. MapTypeOK'
    BY <1>3, <2>1 DEF RefreshViewMap, MapTypeOK
  <2>3. ASSUME NEW v \in Vups, NEW p \in Passports, byPassport[p] = v
        PROVE <<field[v], id[v]>> \in Keys
    BY <2>3 DEF Identified, VupTypeOK, Keys
  <2>4. VupTypeOK'
    BY <1>3, <2>3 DEF RefreshViewMap, VupTypeOK
  <2>5. QED
    BY <1>3, <2>2, <2>4, Frames DEF RefreshViewMap
<1>4. CASE FreezeList
  BY <1>4, Frames DEF FreezeList
<1>5. ASSUME NEW p \in UpdatedPassports, NEW f \in Fields, UpdateVupCommand(p, f)
      PROVE  TypeOK'
  <2>1. byPassport[p] \in Vups
    BY <1>5, ConstantsAssumption DEF UpdateVupCommand, MapTypeOK
  <2>2. MapTypeOK'
    BY <1>5, <2>1 DEF UpdateVupCommand, Report, MapTypeOK
  <2>3. VupTypeOK'
    BY <1>5, <2>1 DEF UpdateVupCommand, VupTypeOK
  <2>4. QED
    BY <1>5, <2>2, <2>3, Frames DEF UpdateVupCommand
<1>6. QED
  BY <1>1, <1>2, <1>3, <1>4, <1>5 DEF Console

LEMMA AddVupIdentified ==
  ASSUME TypeInv, NEW v \in Vups, NEW p \in Passports, NEW k \in Keys,
         AddVup(v, p, k), id' = [id EXCEPT ![v] = p], dirty' \subseteq dirty \cup {v}
  PROVE Identified'
BY ConstantsAssumption
   DEF TypeInv, Identified, TypeOK, VupTypeOK, MapTypeOK, AddVup

LEMMA RemoveVupIdentified ==
  ASSUME TypeInv, NEW p \in Passports \cup {NoPassport}, RemoveVup(p), UNCHANGED id
  PROVE Identified'
<1> USE DEF TypeInv, Identified, TypeOK, MapTypeOK
<1>1. CASE p # NoPassport /\ byPassport[p] # NoVup
  <2>1. dirty' \subseteq dirty /\ byPassport' = [byPassport EXCEPT ![p] = NoVup]
    BY <1>1 DEF RemoveVup
  <2>2. NoVup \notin Vups
    BY ConstantsAssumption
  <2>3. QED
    BY <1>1, <2>1, <2>2
<1>2. CASE ~(p # NoPassport /\ byPassport[p] # NoVup)
  BY <1>2 DEF RemoveVup
<1>3. QED
  BY <1>1, <1>2

\* Only the main thread changes what Identified speaks of.
LEMMA IdentifiedStep == ASSUME TypeInv, [Next]_vars PROVE Identified'
<1> USE DEF TypeInv
<1>1. ASSUME UNCHANGED <<dirty, byPassport, id>> PROVE Identified'
  BY <1>1 DEF Identified
<1>2. ASSUME NEW s \in Sockets, Client(s) PROVE Identified'
  BY <1>1, <1>2 DEF Client, Connect, Send, Break, mapVars, vupVars
<1>3. CASE Listener
  BY <1>1, <1>3 DEF Listener, Accept, AddClientSocket, mapVars, vupVars
<1>4. CASE Worker
  BY <1>1, <1>4 DEF Worker, Select, Receive, ReportBroken, mapVars, vupVars
<1>5. ASSUME NEW s \in Sockets, HandlePacket(s) PROVE Identified'
  <2> s \in Vups
    BY DEF Vups
  <2>1. CASE LostConnection(s)
    <3>1. CASE UNCHANGED mapVars
      BY <1>1, <2>1, <3>1 DEF LostConnection, mapVars
    <3>2. CASE RemoveVup(id[s])
      BY <2>1, <3>2, RemoveVupIdentified DEF LostConnection, TypeOK, VupTypeOK
    <3>3. QED
      BY <2>1, <3>1, <3>2 DEF LostConnection, Forget
  <2>2. CASE Register(s)
    <3>1. <<Head(batch).field, PassportOf[s]>> \in Keys
      BY <2>2, HandlingType, PacketFacts, ConstantsAssumption DEF Register, Keys
    <3>2. QED
      BY <2>2, <3>1, AddVupIdentified, ConstantsAssumption DEF Register, Report
  <2>3. CASE RegisterUnknown(s)
    BY <1>1, <2>3 DEF RegisterUnknown, mapVars, vupVars
  <2>4. ASSUME NEW type, Update(type, s) PROVE Identified'
    BY <2>4, ConstantsAssumption DEF Update, Report, Identified
  <2>5. QED
    BY <1>5, <2>1, <2>2, <2>3, <2>4 DEF HandlePacket
<1>6. CASE StartTick
  BY <1>1, <1>6 DEF StartTick, mapVars, vupVars
<1>7. CASE StartViewUpdate
  BY <1>7 DEF StartViewUpdate, Identified, vupVars
<1>8. ASSUME NEW v \in Vups, ReKey(v) PROVE Identified'
  BY <1>8 DEF ReKey, Identified
<1>9. CASE EndTick
  BY <1>1, <1>9 DEF EndTick, mapVars, vupVars
<1>10. ASSUME NEW v \in ConsoleVups, AddVupCommand(v) PROVE Identified'
  <2>1. v \in Vups /\ <<field[v], PassportOf[v]>> \in Keys
    BY ConstantsAssumption DEF Vups, Keys, TypeOK, VupTypeOK
  <2>2. QED
    BY <1>10, <2>1, AddVupIdentified, ConstantsAssumption DEF AddVupCommand
<1>11. ASSUME NEW p \in RemovablePassports, RemoveVupCommand(p) PROVE Identified'
  BY <1>11, RemoveVupIdentified, ConstantsAssumption DEF RemoveVupCommand
<1>15. ASSUME NEW p \in UpdatedPassports, NEW f \in Fields, UpdateVupCommand(p, f)
       PROVE  Identified'
  BY <1>15, ConstantsAssumption DEF UpdateVupCommand, Report, Identified
<1>12. CASE RefreshViewMap \/ FreezeList
  BY <1>1, <1>12 DEF RefreshViewMap, FreezeList, mapVars, vupVars
<1>13. CASE UNCHANGED vars
  BY <1>1, <1>13 DEF vars
<1>14. QED
  BY <1>2, <1>3, <1>4, <1>5, <1>6, <1>7, <1>8, <1>9, <1>10, <1>11, <1>12, <1>13, <1>15
     DEF Next, Tick, Console

LEMMA TypeStep == TypeInv /\ [Next]_vars => TypeInv'
<1> SUFFICES ASSUME TypeInv, [Next]_vars PROVE TypeOK'
  BY IdentifiedStep DEF TypeInv
<1>1. CASE UNCHANGED vars
  BY <1>1, Frames DEF TypeInv, TypeOK, vars, netVars, workerVars, poolVars, mainVars,
                      mapVars, vupVars
<1>2. QED
  BY <1>1, ClientType, ListenerType, WorkerType, TickType, ConsoleType
     DEF Next, TypeInv

\* Whatever the passports and messages, every variable keeps its type, the pool
\* never exceeds MemPool::maxsize, and every object the registry refers to has
\* been given its unique id before it is keyed by it.
THEOREM TypeCorrect == Spec => [](TypeOK /\ Identified)
<1>1. Init => TypeInv
  BY InitType, ConstantsAssumption DEF TypeInv, Identified, Init
<1>2. TypeInv /\ [Next]_vars => TypeInv'
  BY TypeStep
<1>3. QED
  BY <1>1, <1>2, PTL DEF Spec, TypeInv

-----------------------------------------------------------------------------
(* Passports: the map by passport, the objects and the answers agree. *)

MapAgrees ==
  \A p \in Passports : byPassport[p] # NoVup =>
    /\ PassportOf[byPassport[p]] = p
    /\ id[byPassport[p]] = p
    /\ life[byPassport[p]] = "live"
OwnId ==
  \A v \in Vups :
    id[v] \in {NoPassport, PassportOf[v]} /\ (life[v] = "unused" => id[v] = NoPassport)
FreshUnanswered ==
  \A s \in Sockets :
    conn[s] \in {"idle", "queued"} => life[s] = "unused" /\ ack[s] = "none"
DirtyLive == \A v \in dirty : life[v] = "live"

\* No passport is taken by an object that is gone or that means another one, an
\* object is not answered before it is made, and a connected client that was
\* told it has its passport is the one the map shows.
PassportInv ==
  /\ MapAgrees /\ OwnId /\ FreshUnanswered /\ DirtyLive
  /\ AckedClientHoldsPassport

LEMMA InitPassports == Init => PassportInv
BY ConstantsAssumption
   DEF Init, PassportInv, MapAgrees, OwnId, FreshUnanswered, DirtyLive,
       AckedClientHoldsPassport, Vups

LEMMA RemoveVupPassports ==
  ASSUME TypeInv, PassportInv, NEW p \in Passports \cup {NoPassport}, RemoveVup(p),
         UNCHANGED <<id, ack>>
  PROVE PassportInv'
<1> USE DEF PassportInv
<1>1. CASE p # NoPassport /\ byPassport[p] # NoVup
  <2> DEFINE d == byPassport[p]
  <2>1. p \in Passports /\ d \in Vups /\ NoVup \notin Vups
    BY <1>1, ConstantsAssumption DEF TypeInv, TypeOK, MapTypeOK
  <2>2. PassportOf[d] = p
    BY <1>1, <2>1 DEF MapAgrees
  <2>3. /\ byPassport' = [byPassport EXCEPT ![p] = NoVup]
        /\ dirty' = dirty \ {d}
        /\ life' = [life EXCEPT ![d] = "freed"]
        /\ conn' = IF d \in Sockets THEN [conn EXCEPT ![d] = "closed"] ELSE conn
    BY <1>1 DEF RemoveVup
  <2>4. /\ byPassport \in [Passports -> Vups \cup {NoVup}]
        /\ dirty \subseteq Vups
        /\ life \in [Vups -> {"unused", "live", "freed"}]
        /\ conn \in [Sockets -> {"idle", "queued", "up", "broken", "closed"}]
        /\ Sockets \subseteq Vups
    BY DEF TypeInv, TypeOK, MapTypeOK, VupTypeOK, NetTypeOK, Vups
  <2> HIDE DEF d
  <2>5. MapAgrees'
    <3> SUFFICES ASSUME NEW q \in Passports, byPassport'[q] # NoVup
                 PROVE  /\ PassportOf[byPassport'[q]] = q
                        /\ id[byPassport'[q]] = q
                        /\ life'[byPassport'[q]] = "live"
      BY DEF MapAgrees
    <3>1. q # p /\ byPassport'[q] = byPassport[q]
      BY <2>1, <2>3, <2>4
    <3>2. byPassport[q] \in Vups /\ byPassport[q] # d
      BY <2>1, <2>2, <2>4, <3>1 DEF MapAgrees
    <3>3. QED
      BY <2>3, <2>4, <3>1, <3>2 DEF MapAgrees
  <2>6. OwnId'
    BY <2>1, <2>3, <2>4 DEF OwnId
  <2>7. FreshUnanswered' /\ DirtyLive'
    BY <2>1, <2>3, <2>4 DEF FreshUnanswered, DirtyLive
  <2>8. AckedClientHoldsPassport'
    <3> SUFFICES ASSUME NEW s \in Sockets, ack[s] = "ok", conn'[s] = "up"
                 PROVE  byPassport'[PassportOf[s]] = s
      BY DEF AckedClientHoldsPassport
    <3>1. s # d /\ conn[s] = "up"
      BY <2>3, <2>4
    <3>2. byPassport[PassportOf[s]] = s
      BY <3>1 DEF AckedClientHoldsPassport
    <3>3. PassportOf[s] # p
      BY <3>1, <3>2 DEF d
    <3>4. QED
      BY <2>1, <2>3, <2>4, <3>2, <3>3, ConstantsAssumption
  <2>9. QED
    BY <2>5, <2>6, <2>7, <2>8
<1>2. CASE ~(p # NoPassport /\ byPassport[p] # NoVup)
  BY <1>2 DEF RemoveVup, MapAgrees, OwnId, FreshUnanswered, DirtyLive,
              AckedClientHoldsPassport
<1>3. QED
  BY <1>1, <1>2

\* AddVup of an object that has just been given its passport.
LEMMA AddVupPassports ==
  ASSUME TypeInv, PassportInv, NEW v \in Vups, NEW k \in Keys,
         AddVup(v, PassportOf[v], k), id' = [id EXCEPT ![v] = PassportOf[v]],
         \A u \in Vups : life'[u] = IF u = v THEN "live" ELSE life[u],
         life[v] # "freed"
  PROVE MapAgrees' /\ OwnId'
<1> USE DEF PassportInv
<1> DEFINE p == PassportOf[v]
<1>1. p \in Passports /\ NoVup \notin Vups
  BY ConstantsAssumption
<1>2. /\ byPassport \in [Passports -> Vups \cup {NoVup}]
      /\ id \in [Vups -> Passports \cup {NoPassport}]
  BY DEF TypeInv, TypeOK, MapTypeOK, VupTypeOK
<1>3. OwnId'
  BY <1>2 DEF OwnId
<1>4. \A q \in Passports : byPassport'[q] # byPassport[q] => q = p /\ byPassport'[q] = v
  BY <1>1, <1>2 DEF AddVup
<1>5. MapAgrees'
  <2> SUFFICES ASSUME NEW q \in Passports, byPassport'[q] # NoVup
               PROVE  /\ PassportOf[byPassport'[q]] = q
                      /\ id'[byPassport'[q]] = q
                      /\ life'[byPassport'[q]] = "live"
    BY DEF MapAgrees
  <2>1. CASE byPassport'[q] = byPassport[q]
    <3>1. byPassport[q] \in Vups
      BY <1>1, <1>2, <2>1
    <3>2. /\ PassportOf[byPassport[q]] = q
          /\ id[byPassport[q]] = q
          /\ life[byPassport[q]] = "live"
      BY <2>1 DEF MapAgrees
    <3>3. QED
      BY <1>2, <2>1, <3>1, <3>2
  <2>2. CASE byPassport'[q] # byPassport[q]
    BY <1>2, <1>4, <2>2
  <2>3. QED
    BY <2>1, <2>2
<1>6. QED
  BY <1>3, <1>5

LEMMA RegisterPassports ==
  ASSUME TypeInv, PassportInv, NEW s \in Sockets, Register(s) PROVE PassportInv'
<1> USE DEF PassportInv
<1> DEFINE p == PassportOf[s]
           f == Head(batch).field
<1>1. s \in Vups /\ p \in Passports /\ <<f, p>> \in Keys
  BY HandlingType, PacketFacts, ConstantsAssumption DEF Register, Keys, Vups, TypeInv
<1>2. AddVup(s, p, <<f, p>>) /\ id' = [id EXCEPT ![s] = p] /\ life[s] = "live"
  BY DEF Register
<1>3. UNCHANGED <<conn, life>> /\ ack' = [ack EXCEPT ![s] = Answer(p)]
  BY DEF Register, netVars
<1> HIDE DEF f
<1>4. MapAgrees' /\ OwnId'
  BY <1>1, <1>2, <1>3, AddVupPassports
<1>5. FreshUnanswered'
  BY <1>2, <1>3 DEF FreshUnanswered, TypeInv, TypeOK
<1>6. DirtyLive'
  BY <1>2, <1>3 DEF Register, Report, DirtyLive
<1>7. AckedClientHoldsPassport'
  <2> SUFFICES ASSUME NEW t \in Sockets, ack'[t] = "ok", conn[t] = "up"
               PROVE  byPassport'[PassportOf[t]] = t
    BY <1>3 DEF AckedClientHoldsPassport
  <2>1. byPassport \in [Passports -> Vups \cup {NoVup}] /\ NoVup \notin Vups
        /\ ack \in [Sockets -> {"none", "ok", "rejected"}]
    BY ConstantsAssumption DEF TypeInv, TypeOK, MapTypeOK
  <2>2. CASE t = s
    <3>1. byPassport[p] = NoVup
      BY <1>3, <2>1, <2>2 DEF Answer
    <3>2. QED
      BY <1>1, <1>2, <2>1, <2>2, <3>1 DEF AddVup
  <2>3. CASE t # s
    <3>1. byPassport[PassportOf[t]] = t /\ t \in Vups /\ PassportOf[t] \in Passports
      BY <1>3, <2>1, <2>3, ConstantsAssumption DEF AckedClientHoldsPassport, Vups
    <3>2. QED
      BY <1>1, <1>2, <2>1, <3>1 DEF AddVup
  <2>4. QED
    BY <2>2, <2>3
<1>8. QED
  BY <1>4, <1>5, <1>6, <1>7

\* A packet that updates an object leaves the passports alone.
LEMMA UpdatePassports ==
  ASSUME TypeInv, PassportInv, NEW q \in Passports,
         dirty' \subseteq dirty \cup ({byPassport[q]} \ {NoVup}),
         UNCHANGED <<conn, byPassport, life, id, ack>>
  PROVE PassportInv'
<1>1. DirtyLive'
  BY DEF PassportInv, MapAgrees, DirtyLive
<1>2. QED
  BY <1>1 DEF PassportInv, MapAgrees, OwnId, FreshUnanswered, AckedClientHoldsPassport

LEMMA PassportStep ==
  ASSUME TypeInv, PassportInv, [Next]_vars PROVE PassportInv'
<1>0. ASSUME UNCHANGED <<conn, byPassport, life, id, ack>>, dirty' \subseteq dirty
      PROVE  PassportInv'
  BY <1>0 DEF PassportInv, MapAgrees, OwnId, FreshUnanswered, DirtyLive,
              AckedClientHoldsPassport
<1>1. ASSUME NEW s \in Sockets, Client(s) PROVE PassportInv'
  <2>1. CASE Connect(s) \/ Break(s)
    <3>1. UNCHANGED <<byPassport, life, id, dirty, ack>>
      BY <2>1 DEF Connect, Break, mapVars, vupVars
    <3>2. \A t \in Sockets : conn'[t] = "up" => conn[t] = "up"
      BY <2>1 DEF Connect, Break, TypeInv, TypeOK, NetTypeOK
    <3>3. \A t \in Sockets :
            conn'[t] \in {"idle", "queued"} => conn[t] \in {"idle", "queued"}
      BY <2>1 DEF Connect, Break, TypeInv, TypeOK, NetTypeOK
    <3>4. QED
      BY <3>1, <3>2, <3>3 DEF PassportInv, MapAgrees, OwnId, FreshUnanswered,
                              DirtyLive, AckedClientHoldsPassport
  <2>2. ASSUME NEW m \in Offered, Send(s, m) PROVE PassportInv'
    BY <1>0, <2>2 DEF Send, mapVars, vupVars
  <2>3. QED
    BY <1>1, <2>1, <2>2 DEF Client
<1>2. ASSUME NEW s \in Sockets, Accept(s) PROVE PassportInv'
  <2>1. /\ UNCHANGED <<byPassport, id, dirty, ack>>
        /\ life' = [life EXCEPT ![s] = "live"]
        /\ conn' = [conn EXCEPT ![s] = "up"]
        /\ life[s] = "unused" /\ ack[s] = "none"
    BY <1>2 DEF Accept, vupVars, PassportInv, FreshUnanswered
  <2>2. /\ life \in [Vups -> {"unused", "live", "freed"}]
        /\ conn \in [Sockets -> {"idle", "queued", "up", "broken", "closed"}]
        /\ dirty \subseteq Vups
        /\ \A p \in Passports : byPassport[p] \in Vups \cup {NoVup}
    BY DEF TypeInv, TypeOK, VupTypeOK, NetTypeOK, MapTypeOK
  <2>3. MapAgrees' /\ OwnId' /\ DirtyLive'
    BY <2>1, <2>2 DEF PassportInv, MapAgrees, OwnId, DirtyLive
  <2>4. FreshUnanswered' /\ AckedClientHoldsPassport'
    BY <2>1, <2>2 DEF PassportInv, FreshUnanswered, AckedClientHoldsPassport, Vups
  <2>5. QED
    BY <2>3, <2>4 DEF PassportInv
<1>3. CASE AddClientSocket
  BY <1>0, <1>3 DEF AddClientSocket, netVars, mapVars, vupVars
<1>4. CASE Worker
  BY <1>0, <1>4 DEF Worker, Select, Receive, ReportBroken, netVars, mapVars, vupVars
<1>5. ASSUME NEW s \in Sockets, HandlePacket(s) PROVE PassportInv'
  <2>1. CASE LostConnection(s)
    <3>1. CASE RemoveVup(id[s])
      <4>1. id[s] \in Passports \cup {NoPassport}
        BY DEF TypeInv, TypeOK, VupTypeOK, Vups
      <4>2. QED
        BY <2>1, <3>1, <4>1, RemoveVupPassports DEF LostConnection
    <3>2. CASE UNCHANGED <<conn, mapVars, life>>
      BY <1>0, <2>1, <3>2 DEF LostConnection, mapVars
    <3>3. QED
      BY <2>1, <3>1, <3>2 DEF LostConnection, Forget
  <2>2. CASE Register(s)
    BY <2>2, RegisterPassports
  <2>3. CASE RegisterUnknown(s)
    BY <1>0, <2>3 DEF RegisterUnknown, netVars, mapVars, vupVars
  <2>4. ASSUME NEW type, Update(type, s) PROVE PassportInv'
    <3>1. PassportOf[s] \in Passports
      BY ConstantsAssumption DEF Vups
    <3>2. dirty' \subseteq dirty \cup ({byPassport[PassportOf[s]]} \ {NoVup})
      BY <2>4 DEF Update, Report
    <3>3. QED
      BY <2>4, <3>1, <3>2, UpdatePassports DEF Update, netVars
  <2>5. QED
    BY <1>5, <2>1, <2>2, <2>3, <2>4 DEF HandlePacket
<1>6. CASE StartTick
  BY <1>0, <1>6 DEF StartTick, netVars, mapVars, vupVars
<1>7. CASE StartViewUpdate
  BY <1>0, <1>7 DEF StartViewUpdate, netVars, vupVars
<1>8. ASSUME NEW v \in Vups, ReKey(v) PROVE PassportInv'
  BY <1>0, <1>8 DEF ReKey, netVars
<1>9. CASE EndTick
  BY <1>0, <1>9 DEF EndTick, netVars, mapVars, vupVars
<1>10. ASSUME NEW v \in ConsoleVups, AddVupCommand(v) PROVE PassportInv'
  <2>1. v \in Vups \ Sockets /\ <<field[v], PassportOf[v]>> \in Keys
    BY ConstantsAssumption DEF Vups, Keys, TypeInv, TypeOK, VupTypeOK
  <2>2. /\ UNCHANGED <<conn, dirty, ack>>
        /\ life[v] = "unused"
        /\ life' = [life EXCEPT ![v] = "live"]
    BY <1>10 DEF AddVupCommand, netVars
  <2>3. /\ life \in [Vups -> {"unused", "live", "freed"}]
        /\ byPassport \in [Passports -> Vups \cup {NoVup}]
        /\ dirty \subseteq Vups
        /\ NoVup \notin Vups
    BY ConstantsAssumption DEF TypeInv, TypeOK, VupTypeOK, MapTypeOK
  <2>4. MapAgrees' /\ OwnId'
    BY <1>10, <2>1, <2>2, <2>3, AddVupPassports DEF AddVupCommand
  <2>5. FreshUnanswered' /\ DirtyLive'
    BY <2>1, <2>2, <2>3 DEF PassportInv, FreshUnanswered, DirtyLive, Vups
  <2>6. AckedClientHoldsPassport'
    <3>1. \A q \in Passports : byPassport[q] # NoVup => byPassport'[q] = byPassport[q]
      BY <1>10, <2>3 DEF AddVupCommand, AddVup
    <3>2. \A s \in Sockets : PassportOf[s] \in Passports /\ s # NoVup
      BY ConstantsAssumption DEF Vups
    <3>3. QED
      BY <2>2, <3>1, <3>2 DEF PassportInv, AckedClientHoldsPassport
  <2>7. QED
    BY <2>4, <2>5, <2>6 DEF PassportInv
<1>11. ASSUME NEW p \in RemovablePassports, RemoveVupCommand(p) PROVE PassportInv'
  BY <1>11, RemoveVupPassports, ConstantsAssumption DEF RemoveVupCommand
<1>12. ASSUME NEW p \in UpdatedPassports, NEW f \in Fields, UpdateVupCommand(p, f)
       PROVE  PassportInv'
  <2>1. dirty' \subseteq dirty \cup ({byPassport[p]} \ {NoVup})
    BY <1>12 DEF UpdateVupCommand, Report
  <2>2. QED
    BY <1>12, <2>1, UpdatePassports, ConstantsAssumption DEF UpdateVupCommand, netVars
<1>13. CASE RefreshViewMap \/ FreezeList
  BY <1>0, <1>13 DEF RefreshViewMap, FreezeList, netVars, mapVars, vupVars
<1>14. CASE UNCHANGED vars
  BY <1>0, <1>14 DEF vars
<1>15. QED
  BY <1>1, <1>2, <1>3, <1>4, <1>5, <1>6, <1>7, <1>8, <1>9, <1>10, <1>11, <1>12, <1>13,
     <1>14
     DEF Next, Listener, Tick, Console

LEMMA PassportAlways == Spec => [](TypeInv /\ PassportInv)
<1>1. Init => TypeInv /\ PassportInv
  BY InitPassports, InitType, ConstantsAssumption DEF TypeInv, Identified, Init
<1>2. TypeInv /\ PassportInv /\ [Next]_vars => (TypeInv /\ PassportInv)'
  BY TypeStep, PassportStep
<1>3. QED
  BY <1>1, <1>2, PTL DEF Spec

\* Whatever passports clients claim and whatever the operator removes, no
\* connected client that was told it has its passport loses it: only RemoveVup
\* empties an entry of the map, and it closes the connection of the entry's client.
THEOREM AckedHolds == Spec => []AckedClientHoldsPassport
<1>1. PassportInv => AckedClientHoldsPassport
  BY DEF PassportInv
<1>2. QED
  BY <1>1, PassportAlways, PTL

\* Two connected clients are never both told they have the same passport.
THEOREM AckedDiffer == Spec => []AckedPassportsDiffer
<1>1. AckedClientHoldsPassport => AckedPassportsDiffer
  BY DEF AckedClientHoldsPassport, AckedPassportsDiffer
<1>2. QED
  BY <1>1, AckedHolds, PTL

\* RemoveVup(GetUniqueID()) removes the entry it means: every entry of the map
\* is live and has the unique id it is listed under.
THEOREM MapCorrect == Spec => []PassportMapAgrees
<1>1. PassportInv => PassportMapAgrees
  BY DEF PassportInv, MapAgrees, PassportMapAgrees
<1>2. QED
  BY <1>1, PassportAlways, PTL

-----------------------------------------------------------------------------
(* Packets: what is on its way to the main thread, in the order it is handled. *)

Queue == batch \o pool
IsLost(pk, s) == pk.type = "LostConnection" /\ pk.sock = s
IsRegister(pk, s) == pk.type = "ClientRegister" /\ pk.sock = s
Ended(s) == conn[s] \in {"broken", "closed"}

LostEnded ==
  \A s \in Sockets :
    (s \in efds \/ \E i \in DOMAIN Queue : IsLost(Queue[i], s)) => Ended(s)
LostLast ==
  \A s \in Sockets, i \in DOMAIN Queue : IsLost(Queue[i], s) =>
    /\ s \notin rfds
    /\ \A j \in DOMAIN Queue : j > i => ~IsRegister(Queue[j], s)
PolledKnown ==
  \A s \in Sockets :
    /\ (s \in clientSockets \/ s = accepted) => s \in bySocket \/ Ended(s)
    /\ s \in rfds => s \in bySocket
RegistersKnown ==
  \A s \in Sockets, i \in DOMAIN Queue : IsRegister(Queue[i], s) => s \in bySocket
BatchTaken == mainPc # "packets" => batch = <<>>

\* A LostConnection packet is about a connection that has ended, no ClientRegister
\* of that connection is behind it and none can still be received; what the working
\* thread may read from, and what has asked to register, is known.
DeliveryInv == LostEnded /\ LostLast /\ PolledKnown /\ RegistersKnown /\ BatchTaken

LEMMA InitDelivery == Init => DeliveryInv
<1> SUFFICES ASSUME Init PROVE DeliveryInv
  OBVIOUS
<1>1. Queue = <<>> /\ DOMAIN Queue = {}
  BY DEF Init, Queue
<1>2. \A s \in Sockets : s # NoVup
  BY ConstantsAssumption DEF Vups
<1>3. QED
  BY <1>1, <1>2 DEF Init, DeliveryInv, LostEnded, LostLast, PolledKnown,
                    RegistersKnown, BatchTaken

\* How the queue moves: at its end by InsertPacket, at its head by Handling.
LEMMA QueueType == ASSUME TypeInv
  PROVE /\ Queue \in Seq(Packet)
        /\ DOMAIN Queue = 1..Len(Queue) /\ Len(Queue) \in Nat
BY DEF TypeInv, TypeOK, MainTypeOK, PoolTypeOK, Queue

LEMMA QueueGrows ==
  ASSUME TypeInv, NEW pk \in Packet, pool' = Append(pool, pk), UNCHANGED batch
  PROVE  /\ DOMAIN Queue' = 1..(Len(Queue) + 1)
         /\ \A i \in DOMAIN Queue : Queue'[i] = Queue[i]
         /\ Queue'[Len(Queue) + 1] = pk
BY DEF TypeInv, TypeOK, MainTypeOK, PoolTypeOK, Queue

LEMMA QueueHandled ==
  ASSUME TypeInv, NEW type, NEW s \in Sockets, Handling(type, s), UNCHANGED pool
  PROVE  /\ \A i \in DOMAIN Queue' : i + 1 \in DOMAIN Queue /\ Queue'[i] = Queue[i + 1]
         /\ 1 \in DOMAIN Queue /\ Queue[1].type = type /\ Queue[1].sock = s
<1>1. batch \in Seq(Packet) /\ pool \in Seq(Packet) /\ batch # <<>>
  BY DEF TypeInv, TypeOK, MainTypeOK, PoolTypeOK, Handling
<1>2. Queue' = Tail(batch) \o pool
  BY DEF Handling, Queue
<1>3. Len(Tail(batch)) = Len(batch) - 1 /\ Tail(batch) \in Seq(Packet)
      /\ \A i \in 1..Len(Tail(batch)) : Tail(batch)[i] = batch[i + 1]
  BY <1>1
<1>4. batch[1] = Head(batch) /\ Len(batch) \in Nat \ {0}
  BY <1>1
<1>5. Queue[1] = Head(batch) /\ 1 \in DOMAIN Queue
  BY <1>1, <1>4 DEF Queue
<1>6. ASSUME NEW i \in DOMAIN Queue'
      PROVE  i + 1 \in DOMAIN Queue /\ Queue'[i] = Queue[i + 1]
  <2>1. i \in 1..(Len(batch) - 1 + Len(pool))
    BY <1>1, <1>2, <1>3
  <2>2. CASE i <= Len(batch) - 1
    BY <1>1, <1>2, <1>3, <1>4, <2>1, <2>2 DEF Queue
  <2>3. CASE ~(i <= Len(batch) - 1)
    BY <1>1, <1>2, <1>3, <1>4, <2>1, <2>3 DEF Queue
  <2>4. QED
    BY <2>2, <2>3
<1>7. QED
  BY <1>5, <1>6 DEF Handling

\* A step that receives nothing, reports nothing and forgets nothing.
LEMMA DeliveryKept ==
  ASSUME TypeInv, DeliveryInv, NEW n \in Nat,
         \A i \in DOMAIN Queue' : i + n \in DOMAIN Queue /\ Queue'[i] = Queue[i + n],
         DOMAIN Queue' \subseteq Nat,
         efds' \subseteq efds, rfds' \subseteq rfds, bySocket \subseteq bySocket',
         \A s \in Sockets : s \in clientSockets' \/ s = accepted' =>
           s \in clientSockets \/ s = accepted \/ s \in bySocket',
         \A s \in Sockets : Ended(s) => Ended(s)',
         BatchTaken'
  PROVE  DeliveryInv'
<1> USE DEF DeliveryInv
<1>1. LostEnded'
  BY DEF LostEnded, IsLost
<1>2. LostLast'
  <2> SUFFICES ASSUME NEW s \in Sockets, NEW i \in DOMAIN Queue', IsLost(Queue'[i], s)
               PROVE  /\ s \notin rfds'
                      /\ \A j \in DOMAIN Queue' : j > i => ~IsRegister(Queue'[j], s)
    BY DEF LostLast, IsLost, IsRegister
  <2>1. i + n \in DOMAIN Queue /\ IsLost(Queue[i + n], s)
    BY DEF IsLost
  <2>2. s \notin rfds
        /\ \A j \in DOMAIN Queue : j > i + n => ~IsRegister(Queue[j], s)
    BY <2>1 DEF LostLast
  <2>3. ASSUME NEW j \in DOMAIN Queue', j > i PROVE ~IsRegister(Queue'[j], s)
    <3>1. j + n > i + n /\ j + n \in DOMAIN Queue
      BY <2>3
    <3>2. QED
      BY <2>2, <3>1 DEF IsRegister
  <2>4. QED
    BY <2>2, <2>3
<1>3. PolledKnown'
  BY DEF PolledKnown
<1>4. RegistersKnown'
  BY DEF RegistersKnown, IsRegister
<1>5. QED
  BY <1>1, <1>2, <1>3, <1>4

LEMMA DeliveryUnmoved ==
  ASSUME TypeInv, DeliveryInv, UNCHANGED Queue,
         efds' \subseteq efds, rfds' \subseteq rfds, bySocket \subseteq bySocket',
         \A s \in Sockets : s \in clientSockets' \/ s = accepted' =>
           s \in clientSockets \/ s = accepted \/ s \in bySocket',
         \A s \in Sockets : Ended(s) => Ended(s)',
         BatchTaken'
  PROVE  DeliveryInv'
<1>1. DOMAIN Queue' \subseteq Nat
      /\ \A i \in DOMAIN Queue' : i + 0 \in DOMAIN Queue /\ Queue'[i] = Queue[i + 0]
  BY QueueType
<1>2. QED
  BY <1>1, DeliveryKept

\* A packet that the working thread adds, or that the full pool refuses.
LEMMA DeliveryAdded ==
  ASSUME TypeInv, DeliveryInv, NEW pk \in Packet, InsertPacket(pk),
         UNCHANGED <<batch, mainPc, conn, accepted, clientSockets, bySocket>>,
         efds' \subseteq efds, rfds' \subseteq rfds,
         IsLost(pk, pk.sock) => Ended(pk.sock) /\ rfds' = {},
         IsRegister(pk, pk.sock) => pk.sock \in rfds
  PROVE  DeliveryInv'
<1>1. CASE UNCHANGED pool
  BY <1>1, DeliveryUnmoved DEF Queue, DeliveryInv, BatchTaken, Ended
<1>2. CASE pool' = Append(pool, pk)
  <2> DEFINE L == Len(Queue)
             P == Queue'
  <2>1. /\ DOMAIN P = 1..(L + 1) /\ DOMAIN Queue = 1..L /\ L \in Nat
        /\ \A i \in DOMAIN Queue : P[i] = Queue[i]
        /\ P[L + 1] = pk
    BY <1>2, QueueGrows, QueueType
  <2>2. pk.sock \in Sockets
    BY DEF Packet
  <2> HIDE DEF L, P
  <2>3. \A i \in DOMAIN P : (i \in DOMAIN Queue /\ P[i] = Queue[i]) \/ (i = L + 1 /\ P[i] = pk)
    BY <2>1
  <2>4. LostEnded'
    <3> SUFFICES ASSUME NEW s \in Sockets,
                        s \in efds' \/ \E i \in DOMAIN P : IsLost(P[i], s)
                 PROVE  Ended(s)
      BY DEF LostEnded, IsLost, Ended, P
    <3>1. CASE s \in efds'
      BY <3>1 DEF DeliveryInv, LostEnded
    <3>2. ASSUME NEW i \in DOMAIN P, IsLost(P[i], s) PROVE Ended(s)
      BY <2>3, <3>2 DEF DeliveryInv, LostEnded, IsLost
    <3>3. QED
      BY <3>1, <3>2
  <2>5. LostLast'
    <3> SUFFICES ASSUME NEW s \in Sockets, NEW i \in DOMAIN P, IsLost(P[i], s)
                 PROVE  /\ s \notin rfds'
                        /\ \A j \in DOMAIN P : j > i => ~IsRegister(P[j], s)
      BY DEF LostLast, IsLost, IsRegister, P
    <3>1. CASE i = L + 1 /\ P[i] = pk
      <4>1. rfds' = {}
        BY <3>1 DEF IsLost
      <4>2. \A j \in DOMAIN P : ~(j > i)
        BY <2>1, <3>1
      <4>3. QED
        BY <4>1, <4>2
    <3>2. CASE i \in DOMAIN Queue /\ P[i] = Queue[i]
      <4>1. s \notin rfds /\ \A j \in DOMAIN Queue : j > i => ~IsRegister(Queue[j], s)
        BY <3>2 DEF DeliveryInv, LostLast
      <4>2. ~IsRegister(pk, s)
        BY <4>1 DEF IsRegister
      <4>3. QED
        BY <2>3, <4>1, <4>2
    <3>3. QED
      BY <2>3, <3>1, <3>2
  <2>6. PolledKnown'
    BY DEF DeliveryInv, PolledKnown, Ended
  <2>7. RegistersKnown'
    <3> SUFFICES ASSUME NEW s \in Sockets, NEW i \in DOMAIN P, IsRegister(P[i], s)
                 PROVE  s \in bySocket
      BY DEF RegistersKnown, IsRegister, P
    <3>1. CASE P[i] = pk
      BY <3>1 DEF DeliveryInv, PolledKnown, IsRegister
    <3>2. CASE i \in DOMAIN Queue /\ P[i] = Queue[i]
      BY <3>2 DEF DeliveryInv, RegistersKnown
    <3>3. QED
      BY <2>3, <3>1, <3>2
  <2>8. QED
    BY <2>4, <2>5, <2>6, <2>7 DEF DeliveryInv, BatchTaken
<1>3. QED
  BY <1>1, <1>2 DEF InsertPacket

LEMMA SelectDelivery == ASSUME TypeInv, DeliveryInv, Select PROVE DeliveryInv'
<1>1. UNCHANGED <<Queue, conn, accepted, clientSockets, bySocket, mainPc, batch>>
  BY DEF Select, netVars, poolVars, mainVars, mapVars, Queue
<1>2. /\ \A s \in rfds' : s \in clientSockets /\ ~Ended(s)
      /\ \A s \in efds' : Ended(s)
  BY DEF Select, Readable, Exceptional, Ended
<1>3. LostEnded'
  BY <1>1, <1>2 DEF DeliveryInv, LostEnded, Ended
<1>4. LostLast'
  <2>1. \A s \in Sockets, i \in DOMAIN Queue : IsLost(Queue[i], s) => s \notin rfds'
    BY <1>2 DEF DeliveryInv, LostEnded
  <2>2. QED
    BY <1>1, <2>1 DEF DeliveryInv, LostLast
<1>5. PolledKnown'
  BY <1>1, <1>2 DEF DeliveryInv, PolledKnown, Ended
<1>6. RegistersKnown' /\ BatchTaken'
  BY <1>1 DEF DeliveryInv, RegistersKnown, BatchTaken
<1>7. QED
  BY <1>3, <1>4, <1>5, <1>6 DEF DeliveryInv

LEMMA WorkerDelivery == ASSUME TypeInv, DeliveryInv, Worker PROVE DeliveryInv'
<1>1. CASE Select
  BY <1>1, SelectDelivery
<1>2. ASSUME NEW s \in Sockets, Receive(s) PROVE DeliveryInv'
  <2>1. /\ UNCHANGED <<batch, mainPc, conn, accepted, clientSockets, bySocket, efds>>
        /\ rfds' \subseteq rfds /\ s \in rfds
    BY <1>2 DEF Receive, mainVars, mapVars
  <2>2. CASE conn[s] # "closed" /\ inbox[s] # <<>>
    <3>1. PICK i \in DOMAIN inbox[s] :
            InsertPacket([type |-> inbox[s][i].type, sock |-> s, field |-> inbox[s][i].field])
      BY <1>2, <2>2 DEF Receive
    <3>2. inbox[s][i] \in Message
      BY DEF TypeInv, TypeOK, NetTypeOK
    <3> DEFINE pk == [type |-> inbox[s][i].type, sock |-> s, field |-> inbox[s][i].field]
    <3>3. pk \in Packet /\ pk.sock = s /\ ~IsLost(pk, s)
      BY <3>2, PacketFacts DEF Message, ClientTypes, IsLost
    <3> HIDE DEF pk
    <3>4. InsertPacket(pk)
      BY <3>1 DEF pk
    <3>5. QED
      BY <2>1, <3>3, <3>4, DeliveryAdded
  <2>3. CASE ~(conn[s] # "closed" /\ inbox[s] # <<>>)
    <3>1. UNCHANGED pool
      BY <1>2, <2>3 DEF Receive, poolVars
    <3>2. QED
      BY <2>1, <3>1, DeliveryUnmoved DEF Queue, Ended, DeliveryInv, BatchTaken
  <2>4. QED
    BY <2>2, <2>3
<1>3. ASSUME NEW s \in Sockets, ReportBroken(s) PROVE DeliveryInv'
  <2>1. /\ UNCHANGED <<batch, mainPc, conn, accepted, clientSockets, bySocket, rfds>>
        /\ efds' \subseteq efds /\ s \in efds /\ rfds = {}
        /\ InsertPacket(LostPacket(s))
    BY <1>3 DEF ReportBroken, mainVars, mapVars, netVars
  <2>2. LostPacket(s) \in Packet /\ LostPacket(s).sock = s /\ ~IsRegister(LostPacket(s), s)
    BY PacketFacts DEF LostPacket, IsRegister
  <2>3. Ended(s)
    BY <2>1 DEF DeliveryInv, LostEnded
  <2>4. QED
    BY <2>1, <2>2, <2>3, DeliveryAdded
<1>4. QED
  BY <1>1, <1>2, <1>3 DEF Worker

\* RemoveVup can close a connection but opens none.
LEMMA RemoveVupEnded ==
  ASSUME TypeInv, NEW p \in Passports \cup {NoPassport}, RemoveVup(p)
  PROVE  \A s \in Sockets : Ended(s) => Ended(s)'
BY DEF RemoveVup, Ended, TypeInv, TypeOK, NetTypeOK

LEMMA HandleDelivery ==
  ASSUME TypeInv, DeliveryInv, NEW s \in Sockets, HandlePacket(s)
  PROVE  DeliveryInv'
<1>0. ASSUME NEW type, Handling(type, s), UNCHANGED <<pool, accepted, rfds, efds>>
      PROVE  /\ DOMAIN Queue' \subseteq Nat
             /\ \A i \in DOMAIN Queue' :
                  i + 1 \in DOMAIN Queue /\ Queue'[i] = Queue[i + 1]
             /\ 1 \in DOMAIN Queue /\ Queue[1].type = type /\ Queue[1].sock = s
             /\ BatchTaken'
  BY <1>0, QueueHandled, QueueType, SMTT(30) DEF Handling, DeliveryInv, BatchTaken
<1>1. ASSUME NEW type, Handling(type, s), UNCHANGED <<pool, conn, workerVars, bySocket>>
      PROVE  DeliveryInv'
  BY <1>0, <1>1, DeliveryKept DEF workerVars, Ended
<1>2. CASE LostConnection(s)
  <2>1. /\ Handling("LostConnection", s)
        /\ UNCHANGED <<pool, accepted, rfds, efds>>
    BY <1>2 DEF LostConnection, poolVars
  <2>2. CASE UNCHANGED <<conn, clientSockets, mapVars>>
    BY <1>1, <2>1, <2>2 DEF workerVars, mapVars
  <2>3. CASE Forget(s)
    <3>1. /\ DOMAIN Queue' \subseteq Nat
          /\ \A i \in DOMAIN Queue' : i + 1 \in DOMAIN Queue /\ Queue'[i] = Queue[i + 1]
          /\ 1 \in DOMAIN Queue /\ IsLost(Queue[1], s)
          /\ BatchTaken'
      BY <1>0, <2>1 DEF IsLost
    <3>2. \A t \in Sockets : Ended(t) => Ended(t)'
      <4>1. id[s] \in Passports \cup {NoPassport} /\ RemoveVup(id[s])
        BY <2>3 DEF Forget, TypeInv, TypeOK, VupTypeOK, Vups
      <4>2. QED
        BY <4>1, RemoveVupEnded
    <3>3. Ended(s) /\ s \notin rfds /\ \A j \in DOMAIN Queue : j > 1 => ~IsRegister(Queue[j], s)
      BY <3>1 DEF DeliveryInv, LostEnded, LostLast
    <3>4. bySocket' = bySocket \ {s} /\ clientSockets' = clientSockets \ {s}
      BY <2>3 DEF Forget
    <3>5. LostEnded'
      BY <2>1, <3>1, <3>2 DEF DeliveryInv, LostEnded, IsLost
    <3>6. LostLast'
      <4> SUFFICES ASSUME NEW t \in Sockets, NEW i \in DOMAIN Queue', IsLost(Queue'[i], t)
                   PROVE  /\ t \notin rfds'
                          /\ \A j \in DOMAIN Queue' : j > i => ~IsRegister(Queue'[j], t)
        BY DEF LostLast, IsLost, IsRegister
      <4>1. i + 1 \in DOMAIN Queue /\ IsLost(Queue[i + 1], t)
        BY <3>1 DEF IsLost
      <4>2. t \notin rfds /\ \A j \in DOMAIN Queue : j > i + 1 => ~IsRegister(Queue[j], t)
        BY <4>1 DEF DeliveryInv, LostLast
      <4>3. ASSUME NEW j \in DOMAIN Queue', j > i PROVE ~IsRegister(Queue'[j], t)
        <5>1. j + 1 > i + 1 /\ j + 1 \in DOMAIN Queue /\ Queue'[j] = Queue[j + 1]
          BY <3>1, <4>3
        <5>2. QED
          BY <4>2, <5>1 DEF IsRegister
      <4>4. QED
        BY <2>1, <4>2, <4>3
    <3>7. PolledKnown'
      BY <2>1, <3>2, <3>3, <3>4 DEF DeliveryInv, PolledKnown
    <3>8. RegistersKnown'
      <4> SUFFICES ASSUME NEW t \in Sockets, NEW i \in DOMAIN Queue', IsRegister(Queue'[i], t)
                   PROVE  t \in bySocket'
        BY DEF RegistersKnown, IsRegister
      <4>1. i + 1 \in DOMAIN Queue /\ IsRegister(Queue[i + 1], t) /\ i + 1 > 1
        <5>1. i \in 1..Len(Queue')
          <6>1. Queue' = Tail(batch) \o pool /\ batch # <<>>
            BY <2>1 DEF Handling, Queue
          <6>2. Tail(batch) \in Seq(Packet) /\ pool \in Seq(Packet)
            BY <6>1 DEF TypeInv, TypeOK, MainTypeOK, PoolTypeOK
          <6>3. QED
            BY <6>1, <6>2
        <5>2. QED
          BY <3>1, <5>1 DEF IsRegister
      <4>2. t \in bySocket /\ t # s
        BY <3>3, <4>1 DEF DeliveryInv, RegistersKnown
      <4>3. QED
        BY <3>4, <4>2
    <3>9. QED
      BY <3>1, <3>5, <3>6, <3>7, <3>8 DEF DeliveryInv
  <2>4. QED
    BY <1>2, <2>2, <2>3 DEF LostConnection
<1>3. CASE Register(s)
  BY <1>1, <1>3 DEF Register, netVars, poolVars
<1>4. CASE RegisterUnknown(s)
  <2>1. s \in bySocket
    <3>1. 1 \in DOMAIN Queue /\ IsRegister(Queue[1], s)
      <4>1. Handling("ClientRegister", s) /\ batch \in Seq(Packet) /\ pool \in Seq(Packet)
        BY <1>4 DEF RegisterUnknown, TypeInv, TypeOK, MainTypeOK, PoolTypeOK
      <4>2. 1 \in DOMAIN Queue /\ Queue[1] = Head(batch)
        BY <4>1 DEF Handling, Queue
      <4>3. QED
        BY <4>1, <4>2 DEF Handling, IsRegister
    <3>2. QED
      BY <3>1 DEF DeliveryInv, RegistersKnown
  <2>2. QED
    BY <1>1, <1>4, <2>1 DEF RegisterUnknown, netVars, poolVars, mapVars
<1>5. ASSUME NEW type, Update(type, s) PROVE DeliveryInv'
  BY <1>1, <1>5 DEF Update, netVars, poolVars
<1>6. QED
  BY <1>2, <1>3, <1>4, <1>5 DEF HandlePacket

LEMMA DeliveryStep == ASSUME TypeInv, DeliveryInv, [Next]_vars PROVE DeliveryInv'
<1>0. ASSUME UNCHANGED <<pool, batch, workerVars, bySocket>>,
             \A s \in Sockets : Ended(s) => Ended(s)', BatchTaken'
      PROVE  DeliveryInv'
  BY <1>0, DeliveryUnmoved DEF Queue, workerVars
<1> USE DEF BatchTaken
<1>1. ASSUME NEW s \in Sockets, Client(s) PROVE DeliveryInv'
  <2>1. UNCHANGED <<pool, batch, mainPc, workerVars, bySocket>>
    BY <1>1 DEF Client, Connect, Send, Break, poolVars, mainVars, mapVars
  <2>2. \A t \in Sockets : Ended(t) => Ended(t)'
    BY <1>1 DEF Client, Connect, Send, Break, Ended, TypeInv, TypeOK, NetTypeOK
  <2>3. QED
    BY <1>0, <2>1, <2>2 DEF DeliveryInv
<1>2. CASE Listener
  <2>1. UNCHANGED <<batch, mainPc, Queue, efds, rfds>>
    BY <1>2 DEF Listener, Accept, AddClientSocket, poolVars, mainVars, Queue
  <2>2. \A t \in Sockets : Ended(t) => Ended(t)'
    BY <1>2 DEF Listener, Accept, AddClientSocket, netVars, Ended, TypeInv, TypeOK,
                NetTypeOK
  <2>3. /\ bySocket \subseteq bySocket'
        /\ \A s \in Sockets : s \in clientSockets' \/ s = accepted' =>
             s \in clientSockets \/ s = accepted \/ s \in bySocket'
    BY <1>2, ConstantsAssumption DEF Listener, Accept, AddClientSocket, mapVars, Vups
  <2>4. QED
    BY <2>1, <2>2, <2>3, DeliveryUnmoved DEF DeliveryInv
<1>3. CASE Worker
  BY <1>3, WorkerDelivery
<1>4. ASSUME NEW s \in Sockets, HandlePacket(s) PROVE DeliveryInv'
  BY <1>4, HandleDelivery
<1>5. CASE StartTick
  <2>1. pool \in Seq(Packet) /\ batch = <<>>
    BY <1>5 DEF StartTick, TypeInv, TypeOK, PoolTypeOK, DeliveryInv
  <2>2. Queue = pool /\ Queue' = pool
    BY <1>5, <2>1 DEF StartTick, Queue
  <2>3. UNCHANGED <<conn, accepted, clientSockets, rfds, efds, bySocket>> /\ BatchTaken'
    BY <1>5 DEF StartTick, netVars, workerVars, mapVars
  <2>4. QED
    BY <2>2, <2>3, DeliveryUnmoved DEF Ended
<1>6. CASE StartViewUpdate \/ EndTick \/ (\E v \in Vups : ReKey(v))
  BY <1>0, <1>6
     DEF StartViewUpdate, EndTick, ReKey, netVars, poolVars, mainVars, mapVars, Ended,
         DeliveryInv
<1>7. ASSUME NEW p \in RemovablePassports, RemoveVupCommand(p) PROVE DeliveryInv'
  <2>1. \A s \in Sockets : Ended(s) => Ended(s)'
    BY <1>7, RemoveVupEnded, ConstantsAssumption DEF RemoveVupCommand
  <2>2. QED
    BY <1>0, <1>7, <2>1 DEF RemoveVupCommand, poolVars, mainVars, DeliveryInv
<1>8. CASE (\E v \in ConsoleVups : AddVupCommand(v)) \/ RefreshViewMap \/ FreezeList
           \/ \E p \in UpdatedPassports, f \in Fields : UpdateVupCommand(p, f)
  BY <1>0, <1>8
     DEF AddVupCommand, RefreshViewMap, FreezeList, UpdateVupCommand, netVars, poolVars,
         mainVars, mapVars, Ended, DeliveryInv
<1>9. CASE UNCHANGED vars
  BY <1>0, <1>9 DEF vars, workerVars, Ended, DeliveryInv
<1>10. QED
  BY <1>1, <1>2, <1>3, <1>4, <1>5, <1>6, <1>7, <1>8, <1>9 DEF Next, Tick, Console

\* The retry of the ClientRegister case cannot spin: every ClientRegister packet
\* still to be handled belongs to a connection the manager knows, because the
\* listening thread publishes the object before its socket can be polled and
\* nothing of a connection is received after it was reported broken.
THEOREM RegistersAreKnown == Spec => []NoOrphanRegister
<1>1. Init => TypeInv /\ DeliveryInv
  BY InitDelivery, InitType, ConstantsAssumption DEF TypeInv, Identified, Init
<1>2. TypeInv /\ DeliveryInv /\ [Next]_vars => (TypeInv /\ DeliveryInv)'
  BY TypeStep, DeliveryStep
<1>3. TypeInv /\ DeliveryInv => NoOrphanRegister
  <2> SUFFICES ASSUME TypeInv, RegistersKnown PROVE NoOrphanRegister
    BY DEF DeliveryInv
  <2>1. batch \in Seq(Packet) /\ pool \in Seq(Packet)
    BY DEF TypeInv, TypeOK, MainTypeOK, PoolTypeOK
  <2>2. ASSUME NEW i \in DOMAIN batch PROVE i \in DOMAIN Queue /\ Queue[i] = batch[i]
    BY <2>1 DEF Queue
  <2>3. ASSUME NEW i \in DOMAIN pool
        PROVE  Len(batch) + i \in DOMAIN Queue /\ Queue[Len(batch) + i] = pool[i]
    BY <2>1 DEF Queue
  <2>4. \A pk \in Packet : pk.sock \in Sockets
    BY DEF Packet
  <2>5. QED
    BY <2>1, <2>2, <2>3, <2>4 DEF NoOrphanRegister, RegistersKnown, IsRegister
<1>4. QED
  BY <1>1, <1>2, <1>3, PTL DEF Spec

-----------------------------------------------------------------------------
(* The manager used as it is meant to be: DistinctPassports. *)

RegisteredById ==
  \A v \in Vups : life[v] = "live" /\ id[v] # NoPassport => byPassport[id[v]] = v
KnownLive == \A s \in bySocket : life[s] = "live"
ShownRegistered ==
  \A k \in Keys : view[k] # NoVup => key[view[k]] = k /\ byPassport[k[2]] = view[k]
RegisteredShown ==
  \A p \in Passports : byPassport[p] # NoVup =>
    key[byPassport[p]] # NoKey /\ view[key[byPassport[p]]] = byPassport[p]

\* An object with a passport is the one its passport finds, a connection finds a
\* live object, and the list on screen and the map by passport show the same.
DistinctInv == ~fault /\ RegisteredById /\ KnownLive /\ ShownRegistered /\ RegisteredShown

RegistryInv == TypeInv /\ PassportInv /\ DeliveryInv /\ DistinctInv

LEMMA InitDistinct == Init => DistinctInv
BY ConstantsAssumption
   DEF Init, DistinctInv, RegisteredById, KnownLive, ShownRegistered, RegisteredShown

\* The types the lemmas below need, with an entry's key taken apart.
LEMMA MapFacts == ASSUME TypeInv, PassportInv
  PROVE /\ byPassport \in [Passports -> Vups \cup {NoVup}]
        /\ view \in [Keys -> Vups \cup {NoVup}]
        /\ life \in [Vups -> {"unused", "live", "freed"}]
        /\ id \in [Vups -> Passports \cup {NoPassport}]
        /\ key \in [Vups -> Keys \cup {NoKey}]
        /\ field \in [Vups -> Fields]
        /\ NoVup \notin Vups /\ NoPassport \notin Passports /\ NoKey \notin Keys
        /\ \A k \in Keys : k[2] \in Passports
        /\ \A v \in Vups : PassportOf[v] \in Passports
        /\ Sockets \subseteq Vups /\ bySocket \subseteq Sockets
        /\ \A p \in Passports : byPassport[p] # NoVup =>
             /\ byPassport[p] \in Vups /\ PassportOf[byPassport[p]] = p
             /\ id[byPassport[p]] = p /\ life[byPassport[p]] = "live"
BY ConstantsAssumption
   DEF TypeInv, TypeOK, MapTypeOK, VupTypeOK, Keys, Vups, PassportInv, MapAgrees

\* What RemoveVup(p) of an object that is registered does.
LEMMA RemoveVupDistinct ==
  ASSUME TypeInv, PassportInv, DistinctInv, NEW p \in Passports,
         byPassport[p] # NoVup, RemoveVup(p), UNCHANGED <<id, key>>
  PROVE  RegisteredById' /\ ShownRegistered' /\ RegisteredShown'
<1> DEFINE d == byPassport[p]
<1>1. /\ d \in Vups /\ PassportOf[d] = p /\ id[d] = p /\ key[d] \in Keys
      /\ view[key[d]] = d
  BY MapFacts DEF DistinctInv, RegisteredShown
<1>2. /\ view' = [view EXCEPT ![key[d]] = NoVup]
      /\ byPassport' = [byPassport EXCEPT ![p] = NoVup]
      /\ life' = [life EXCEPT ![d] = "freed"]
  BY <1>1, MapFacts DEF RemoveVup
<1> HIDE DEF d
<1>3. RegisteredById'
  <2> SUFFICES ASSUME NEW v \in Vups, life'[v] = "live", id[v] # NoPassport
               PROVE  byPassport'[id[v]] = v
    BY DEF RegisteredById
  <2>1. v # d /\ life[v] = "live" /\ id[v] \in Passports
    BY <1>2, MapFacts
  <2>2. byPassport[id[v]] = v
    BY <2>1 DEF DistinctInv, RegisteredById
  <2>3. id[v] # p
    BY <2>1, <2>2 DEF d
  <2>4. QED
    BY <1>2, <2>1, <2>2, <2>3, MapFacts
<1>4. ShownRegistered'
  <2> SUFFICES ASSUME NEW k \in Keys, view'[k] # NoVup
               PROVE  key[view'[k]] = k /\ byPassport'[k[2]] = view'[k]
    BY DEF ShownRegistered
  <2>1. k # key[d] /\ view'[k] = view[k]
    BY <1>1, <1>2, MapFacts
  <2>2. key[view[k]] = k /\ byPassport[k[2]] = view[k] /\ k[2] \in Passports
    BY <2>1, MapFacts DEF DistinctInv, ShownRegistered
  <2>3. k[2] # p
    BY <2>1, <2>2 DEF d
  <2>4. QED
    BY <1>2, <2>1, <2>2, <2>3, MapFacts
<1>5. RegisteredShown'
  <2> SUFFICES ASSUME NEW q \in Passports, byPassport'[q] # NoVup
               PROVE  key[byPassport'[q]] # NoKey /\ view'[key[byPassport'[q]]] = byPassport'[q]
    BY DEF RegisteredShown
  <2>1. q # p /\ byPassport'[q] = byPassport[q]
    BY <1>2, MapFacts
  <2>2. /\ key[byPassport[q]] \in Keys
        /\ view[key[byPassport[q]]] = byPassport[q]
        /\ PassportOf[byPassport[q]] = q
    BY <2>1, MapFacts DEF DistinctInv, RegisteredShown
  <2>3. key[byPassport[q]] # key[d]
    BY <1>1, <2>1, <2>2
  <2>4. QED
    BY <1>2, <2>1, <2>2, <2>3, MapFacts
<1>6. QED
  BY <1>3, <1>4, <1>5

\* AddVup of an object that has just been given its passport, which is its own.
LEMMA AddVupDistinct ==
  ASSUME DistinctPassports, TypeInv, PassportInv, DistinctInv, NEW v \in Vups,
         NEW f, <<f, PassportOf[v]>> \in Keys, AddVup(v, PassportOf[v], <<f, PassportOf[v]>>),
         id' = [id EXCEPT ![v] = PassportOf[v]],
         \A u \in Vups : u # v => life'[u] = life[u]
  PROVE  RegisteredById' /\ ShownRegistered' /\ RegisteredShown'
<1> DEFINE p == PassportOf[v]
           k == <<f, PassportOf[v]>>
<1>1. p \in Passports /\ k \in Keys /\ k[2] = p
  BY MapFacts
<1>2. \A u \in Vups : PassportOf[u] = p => u = v
  BY DEF DistinctPassports
<1>3. AddVup(v, p, k)
  OBVIOUS
<1> HIDE DEF k
<1>4. byPassport' = [byPassport EXCEPT ![p] = v]
  <2>1. CASE byPassport[p] = NoVup
    BY <1>3, <2>1 DEF AddVup
  <2>2. CASE byPassport[p] # NoVup
    <3>1. byPassport[p] = v
      BY <1>1, <1>2, <2>2, MapFacts
    <3>2. QED
      BY <1>1, <1>3, <2>2, <3>1, MapFacts DEF AddVup
  <2>3. QED
    BY <2>1, <2>2
<1>5. RegisteredById'
  <2> SUFFICES ASSUME NEW u \in Vups, life'[u] = "live", id'[u] # NoPassport
               PROVE  byPassport'[id'[u]] = u
    BY DEF RegisteredById
  <2>1. CASE u = v
    BY <1>1, <1>4, <2>1, MapFacts
  <2>2. CASE u # v
    <3>1. life[u] = "live" /\ id'[u] = id[u] /\ id[u] \in Passports
      BY <2>2, MapFacts
    <3>2. byPassport[id[u]] = u
      BY <2>2, <3>1, MapFacts DEF DistinctInv, RegisteredById
    <3>3. id[u] # p
      BY <1>2, <2>2, <3>1, <3>2, MapFacts
    <3>4. QED
      BY <1>4, <3>1, <3>2, <3>3, MapFacts
  <2>3. QED
    BY <2>1, <2>2
<1>6. CASE byPassport[p] # NoVup
  <2>1. UNCHANGED <<byPassport, key, view>>
    BY <1>3, <1>6 DEF AddVup
  <2>2. QED
    BY <1>5, <2>1 DEF DistinctInv, ShownRegistered, RegisteredShown
<1>7. CASE byPassport[p] = NoVup
  <2>1. \A j \in Keys : view[j] # v /\ (j[2] = p => view[j] = NoVup)
    <3> SUFFICES ASSUME NEW j \in Keys, view[j] # NoVup
                 PROVE  view[j] # v /\ j[2] # p
      BY MapFacts
    <3>1. byPassport[j[2]] = view[j] /\ j[2] \in Passports
      BY MapFacts DEF DistinctInv, ShownRegistered
    <3>2. QED
      BY <1>7, <3>1, MapFacts
  <2>2. key' = [key EXCEPT ![v] = k] /\ view' = [view EXCEPT ![k] = v]
    BY <1>1, <1>3, <1>7, <2>1 DEF AddVup
  <2>3. ShownRegistered'
    <3> SUFFICES ASSUME NEW j \in Keys, view'[j] # NoVup
                 PROVE  key'[view'[j]] = j /\ byPassport'[j[2]] = view'[j]
      BY DEF ShownRegistered
    <3>1. CASE j = k
      BY <1>1, <1>4, <2>2, <3>1, MapFacts
    <3>2. CASE j # k
      <4>1. view'[j] = view[j] /\ view[j] \in Vups /\ view[j] # v
            /\ j[2] \in Passports /\ j[2] # p
        BY <2>1, <2>2, <3>2, MapFacts
      <4>2. key[view[j]] = j /\ byPassport[j[2]] = view[j]
        BY <4>1, MapFacts DEF DistinctInv, ShownRegistered
      <4>3. QED
        BY <1>4, <2>2, <4>1, <4>2, MapFacts
    <3>3. QED
      BY <3>1, <3>2
  <2>4. RegisteredShown'
    <3> SUFFICES ASSUME NEW q \in Passports, byPassport'[q] # NoVup
                 PROVE  key'[byPassport'[q]] # NoKey
                        /\ view'[key'[byPassport'[q]]] = byPassport'[q]
      BY DEF RegisteredShown
    <3>1. CASE q = p
      BY <1>1, <1>4, <2>2, <3>1, MapFacts
    <3>2. CASE q # p
      <4>1. byPassport'[q] = byPassport[q] /\ byPassport[q] \in Vups /\ byPassport[q] # v
        BY <1>4, <3>2, MapFacts
      <4>2. key[byPassport[q]] \in Keys /\ view[key[byPassport[q]]] = byPassport[q]
        BY <4>1, MapFacts DEF DistinctInv, RegisteredShown
      <4>3. key[byPassport[q]] # k
        BY <1>1, <2>1, <4>1, <4>2, MapFacts
      <4>4. QED
        BY <2>2, <4>1, <4>2, <4>3, MapFacts
    <3>3. QED
      BY <3>1, <3>2
  <2>5. QED
    BY <1>5, <2>3, <2>4
<1>8. QED
  BY <1>6, <1>7

\* An object that moves to its new key leaves no other entry behind, and the new
\* key is free: only an object with the same passport could hold it.
LEMMA ReKeyDistinct ==
  ASSUME TypeInv, PassportInv, DistinctInv, NEW v \in Vups, ReKey(v)
  PROVE  DistinctInv'
<1> DEFINE new == <<field[v], id[v]>>
           old == IF key[v] = NoKey THEN view ELSE [view EXCEPT ![key[v]] = NoVup]
<1>1. UNCHANGED <<byPassport, bySocket, life, id, fault>>
  BY DEF ReKey
<1>2. id[v] \in Passports /\ byPassport[id[v]] = v
  <2>1. life[v] = "live" /\ id[v] # NoPassport
    BY DEF ReKey, PassportInv, DirtyLive, TypeInv, Identified
  <2>2. QED
    BY <2>1, MapFacts DEF DistinctInv, RegisteredById
<1>3. v # NoVup /\ PassportOf[v] = id[v] /\ key[v] \in Keys /\ view[key[v]] = v
  BY <1>2, MapFacts DEF DistinctInv, RegisteredShown
<1>4. new \in Keys /\ new[2] = id[v]
  BY <1>2, MapFacts DEF Keys
<1>5. \A k \in Keys : view[k] = v => k = key[v]
  BY <1>3 DEF DistinctInv, ShownRegistered
<1>6. old[new] = NoVup
  <2> SUFFICES ASSUME new # key[v], view[new] # NoVup PROVE FALSE
    BY <1>3, <1>4, MapFacts
  <2>1. byPassport[new[2]] = view[new]
    BY <1>4 DEF DistinctInv, ShownRegistered
  <2>2. QED
    BY <1>2, <1>4, <1>5, <2>1
<1>7. /\ old = [view EXCEPT ![key[v]] = NoVup]
      /\ key' = [key EXCEPT ![v] = new]
      /\ view' = [old EXCEPT ![new] = v]
  BY <1>3, <1>6, MapFacts DEF ReKey
<1> HIDE DEF new, old
<1>8. ShownRegistered'
  <2> SUFFICES ASSUME NEW k \in Keys, view'[k] # NoVup
               PROVE  key'[view'[k]] = k /\ byPassport[k[2]] = view'[k]
    BY <1>1 DEF ShownRegistered
  <2>1. CASE k = new
    BY <1>2, <1>4, <1>7, <2>1, MapFacts
  <2>2. CASE k # new
    <3>1. k # key[v] /\ view'[k] = view[k] /\ view[k] \in Vups
      BY <1>4, <1>7, <2>2, MapFacts
    <3>2. view[k] # v
      BY <1>5, <3>1
    <3>3. key[view[k]] = k /\ byPassport[k[2]] = view[k]
      BY <3>1, MapFacts DEF DistinctInv, ShownRegistered
    <3>4. QED
      BY <1>7, <3>1, <3>2, <3>3, MapFacts
  <2>3. QED
    BY <2>1, <2>2
<1>9. RegisteredShown'
  <2> SUFFICES ASSUME NEW p \in Passports, byPassport[p] # NoVup
               PROVE  key'[byPassport[p]] # NoKey /\ view'[key'[byPassport[p]]] = byPassport[p]
    BY <1>1 DEF RegisteredShown
  <2>1. CASE byPassport[p] = v
    BY <1>4, <1>7, <2>1, MapFacts
  <2>2. CASE byPassport[p] # v
    <3> DEFINE u == byPassport[p]
    <3>1. u \in Vups /\ key[u] \in Keys /\ view[key[u]] = u
      BY MapFacts DEF DistinctInv, RegisteredShown
    <3>2. key[u] # key[v] /\ old[key[u]] = u
      BY <1>3, <1>7, <2>2, <3>1, MapFacts
    <3>3. key[u] # new
      BY <1>6, <3>1, <3>2, MapFacts
    <3>4. QED
      BY <1>4, <1>7, <2>2, <3>1, <3>2, <3>3, MapFacts
  <2>3. QED
    BY <2>1, <2>2
<1>10. QED
  BY <1>1, <1>8, <1>9 DEF DistinctInv, RegisteredById, KnownLive

LEMMA RefreshDistinct ==
  ASSUME TypeInv, PassportInv, DistinctInv, RefreshViewMap
  PROVE  DistinctInv'
<1>1. UNCHANGED <<byPassport, bySocket, life, id, fault>>
  BY DEF RefreshViewMap
<1>2. ASSUME NEW k \in Keys, view'[k] # NoVup
      PROVE  view'[k] = byPassport[k[2]] /\ field[view'[k]] = k[1]
  BY <1>2 DEF RefreshViewMap
<1>3. ASSUME NEW p \in Passports, byPassport[p] # NoVup
      PROVE  key'[byPassport[p]] = <<field[byPassport[p]], p>>
  BY <1>3, MapFacts DEF RefreshViewMap
<1>4. ShownRegistered'
  <2> SUFFICES ASSUME NEW k \in Keys, view'[k] # NoVup
               PROVE  key'[view'[k]] = k /\ byPassport[k[2]] = view'[k]
    BY <1>1 DEF ShownRegistered
  <2>1. k[2] \in Passports /\ k = <<k[1], k[2]>>
    BY DEF Keys
  <2>2. QED
    BY <1>2, <1>3, <2>1
<1>5. RegisteredShown'
  <2> SUFFICES ASSUME NEW p \in Passports, byPassport[p] # NoVup
               PROVE  key'[byPassport[p]] # NoKey /\ view'[key'[byPassport[p]]] = byPassport[p]
    BY <1>1 DEF RegisteredShown
  <2> DEFINE k == <<field[byPassport[p]], p>>
  <2>1. k \in Keys /\ k[1] = field[byPassport[p]] /\ k[2] = p
    BY MapFacts DEF Keys
  <2>2. view'[k] = byPassport[p]
    BY <2>1, MapFacts DEF RefreshViewMap
  <2>3. QED
    BY <1>3, <2>1, <2>2, MapFacts
<1>6. QED
  BY <1>1, <1>4, <1>5 DEF DistinctInv, RegisteredById, KnownLive

LEMMA HandleDistinct ==
  ASSUME DistinctPassports, RegistryInv, NEW s \in Sockets, HandlePacket(s)
  PROVE  DistinctInv'
<1> USE DEF RegistryInv
<1>1. CASE LostConnection(s)
  <2>1. CASE UNCHANGED <<mapVars, life, fault>>
    BY <1>1, <2>1 DEF LostConnection, mapVars, DistinctInv, RegisteredById, KnownLive,
                      ShownRegistered, RegisteredShown
  <2>2. CASE Forget(s) /\ UNCHANGED fault
    <3>1. UNCHANGED <<id, key>> /\ bySocket' = bySocket \ {s} /\ RemoveVup(id[s])
      BY <1>1, <2>2 DEF LostConnection, Forget
    <3>2. CASE id[s] # NoPassport /\ byPassport[id[s]] # NoVup
      <4>1. id[s] \in Passports /\ byPassport[id[s]] = s
        <5>1. id[s] \in Passports /\ PassportOf[s] = id[s]
          BY <3>2, MapFacts DEF PassportInv, OwnId
        <5>2. PassportOf[byPassport[id[s]]] = id[s] /\ byPassport[id[s]] \in Vups
          BY <3>2, <5>1, MapFacts
        <5>3. QED
          BY <5>1, <5>2, MapFacts DEF DistinctPassports
      <4>2. RegisteredById' /\ ShownRegistered' /\ RegisteredShown'
        BY <3>1, <3>2, <4>1, RemoveVupDistinct
      <4>3. life' = [life EXCEPT ![s] = "freed"]
        BY <3>1, <3>2, <4>1 DEF RemoveVup
      <4>4. KnownLive'
        BY <3>1, <4>3, MapFacts DEF DistinctInv, KnownLive
      <4>5. QED
        BY <2>2, <4>2, <4>4 DEF DistinctInv
    <3>3. CASE ~(id[s] # NoPassport /\ byPassport[id[s]] # NoVup)
      <4>1. UNCHANGED <<view, byPassport, life>>
        BY <3>1, <3>3 DEF RemoveVup
      <4>2. QED
        BY <2>2, <3>1, <4>1 DEF DistinctInv, RegisteredById, KnownLive,
                                ShownRegistered, RegisteredShown
    <3>4. QED
      BY <3>2, <3>3
  <2>3. ~(s \in bySocket /\ life[s] = "freed")
    BY DEF DistinctInv, KnownLive
  <2>4. QED
    BY <1>1, <2>1, <2>2, <2>3 DEF LostConnection, mapVars
<1>2. CASE Register(s)
  <2> DEFINE f == Head(batch).field
  <2>1. s \in Vups /\ <<f, PassportOf[s]>> \in Keys
    BY <1>2, HandlingType, PacketFacts, MapFacts DEF Register, Keys, TypeInv
  <2>2. /\ AddVup(s, PassportOf[s], <<f, PassportOf[s]>>)
        /\ id' = [id EXCEPT ![s] = PassportOf[s]]
        /\ UNCHANGED <<bySocket, life, fault>>
    BY <1>2 DEF Register
  <2> HIDE DEF f
  <2>3. RegisteredById' /\ ShownRegistered' /\ RegisteredShown'
    BY <2>1, <2>2, AddVupDistinct
  <2>4. QED
    BY <2>2, <2>3 DEF DistinctInv, KnownLive
<1>3. CASE RegisterUnknown(s)
  \* DeliveryInv: the packet's connection is known; KnownLive: its object is live.
  <2>1. s \in bySocket
    <3>1. 1 \in DOMAIN Queue /\ IsRegister(Queue[1], s)
      <4>1. Handling("ClientRegister", s) /\ batch \in Seq(Packet) /\ pool \in Seq(Packet)
        BY <1>3 DEF RegisterUnknown, TypeInv, TypeOK, MainTypeOK, PoolTypeOK
      <4>2. 1 \in DOMAIN Queue /\ Queue[1] = Head(batch)
        BY <4>1 DEF Handling, Queue
      <4>3. QED
        BY <4>1, <4>2 DEF Handling, IsRegister
    <3>2. QED
      BY <3>1 DEF DeliveryInv, RegistersKnown
  <2>2. QED
    BY <1>3, <2>1 DEF RegisterUnknown, DistinctInv, KnownLive
<1>4. ASSUME NEW type, Update(type, s) PROVE DistinctInv'
  BY <1>4 DEF Update, DistinctInv, RegisteredById, KnownLive, ShownRegistered,
              RegisteredShown
<1>5. QED
  BY <1>1, <1>2, <1>3, <1>4 DEF HandlePacket

LEMMA DistinctStep ==
  ASSUME DistinctPassports, RegistryInv, [Next]_vars PROVE DistinctInv'
<1> USE DEF RegistryInv
<1>0. ASSUME UNCHANGED <<bySocket, byPassport, view, life, id, key, fault>>
      PROVE  DistinctInv'
  BY <1>0 DEF DistinctInv, RegisteredById, KnownLive, ShownRegistered, RegisteredShown
<1>1. ASSUME NEW s \in Sockets, Client(s) PROVE DistinctInv'
  BY <1>0, <1>1 DEF Client, Connect, Send, Break, mapVars, vupVars
<1>2. ASSUME NEW s \in Sockets, Accept(s) PROVE DistinctInv'
  <2>1. /\ UNCHANGED <<byPassport, view, id, key, fault>>
        /\ life' = [life EXCEPT ![s] = "live"] /\ bySocket' = bySocket \cup {s}
        /\ life[s] = "unused"
    BY <1>2 DEF Accept, PassportInv, FreshUnanswered
  \* A new object has no passport yet.
  <2>2. id[s] = NoPassport
    BY <2>1, MapFacts DEF PassportInv, OwnId
  <2>3. QED
    BY <2>1, <2>2, MapFacts
       DEF DistinctInv, RegisteredById, KnownLive, ShownRegistered, RegisteredShown
<1>3. CASE AddClientSocket
  BY <1>0, <1>3 DEF AddClientSocket, mapVars, vupVars
<1>4. CASE Worker
  BY <1>0, <1>4 DEF Worker, Select, Receive, ReportBroken, mapVars, vupVars
<1>5. ASSUME NEW s \in Sockets, HandlePacket(s) PROVE DistinctInv'
  BY <1>5, HandleDistinct
<1>6. CASE StartTick \/ StartViewUpdate
  BY <1>0, <1>6 DEF StartTick, StartViewUpdate, mapVars, vupVars
<1>7. ASSUME NEW v \in Vups, ReKey(v) PROVE DistinctInv'
  BY <1>7, ReKeyDistinct
<1>8. CASE EndTick
  <2>1. ~fault'
    BY <1>8, MapFacts DEF EndTick, DistinctInv, ShownRegistered
  <2>2. QED
    BY <1>8, <2>1 DEF EndTick, mapVars, vupVars, DistinctInv, RegisteredById, KnownLive,
                      ShownRegistered, RegisteredShown
<1>9. ASSUME NEW v \in ConsoleVups, AddVupCommand(v) PROVE DistinctInv'
  <2>1. v \in Vups /\ v \notin Sockets /\ <<field[v], PassportOf[v]>> \in Keys
    BY MapFacts, ConstantsAssumption DEF Keys, Vups
  <2>2. /\ AddVup(v, PassportOf[v], <<field[v], PassportOf[v]>>)
        /\ id' = [id EXCEPT ![v] = PassportOf[v]]
        /\ life' = [life EXCEPT ![v] = "live"]
        /\ UNCHANGED <<bySocket, fault>>
    BY <1>9 DEF AddVupCommand
  <2>3. \A u \in Vups : u # v => life'[u] = life[u]
    BY <2>2, MapFacts
  <2>4. RegisteredById' /\ ShownRegistered' /\ RegisteredShown'
    BY <2>1, <2>2, <2>3, AddVupDistinct
  <2>5. KnownLive'
    BY <2>1, <2>2, <2>3, MapFacts DEF DistinctInv, KnownLive
  <2>6. QED
    BY <2>2, <2>4, <2>5 DEF DistinctInv
<1>10. ASSUME NEW p \in RemovablePassports, RemoveVupCommand(p) PROVE DistinctInv'
  <2>1. /\ p \in Passports /\ byPassport[p] # NoVup /\ RemoveVup(p)
        /\ UNCHANGED <<id, key, bySocket, fault>>
    BY <1>10, ConstantsAssumption DEF RemoveVupCommand
  <2>2. RegisteredById' /\ ShownRegistered' /\ RegisteredShown'
    BY <2>1, RemoveVupDistinct
  <2>3. byPassport[p] \notin Sockets /\ life' = [life EXCEPT ![byPassport[p]] = "freed"]
    BY <2>1, MapFacts, ConstantsAssumption DEF RemoveVup, DistinctPassports
  <2>4. KnownLive'
    BY <2>1, <2>3, MapFacts DEF DistinctInv, KnownLive
  <2>5. QED
    BY <2>1, <2>2, <2>4 DEF DistinctInv
<1>11. ASSUME NEW p \in UpdatedPassports, NEW f \in Fields, UpdateVupCommand(p, f)
       PROVE  DistinctInv'
  BY <1>0, <1>11 DEF UpdateVupCommand
<1>12. CASE RefreshViewMap
  BY <1>12, RefreshDistinct
<1>13. CASE FreezeList
  BY <1>0, <1>13 DEF FreezeList, mapVars, vupVars
<1>14. CASE UNCHANGED vars
  BY <1>0, <1>14 DEF vars
<1>15. QED
  BY <1>1, <1>2, <1>3, <1>4, <1>5, <1>6, <1>7, <1>8, <1>9, <1>10, <1>11, <1>12, <1>13,
     <1>14
     DEF Next, Listener, Tick, Console

\* The inductive invariant of the manager used as it is meant to be.
LEMMA RegistryAlways == ASSUME DistinctPassports PROVE Spec => []RegistryInv
<1>1. Init => RegistryInv
  BY InitType, InitPassports, InitDelivery, InitDistinct, ConstantsAssumption
     DEF RegistryInv, TypeInv, Identified, Init
<1>2. RegistryInv /\ [Next]_vars => RegistryInv'
  BY TypeStep, PassportStep, DeliveryStep, DistinctStep DEF RegistryInv
<1>3. QED
  BY <1>1, <1>2, PTL DEF Spec

\* When no two clients claim one passport and the operator removes only what
\* addvup made, every VMVup a container of the manager still points to is live and
\* no handler has followed a pointer to a deleted one.
THEOREM NothingDangles == ASSUME DistinctPassports PROVE Spec => []NoDanglingPointer
<1>1. RegistryInv => NoDanglingPointer
  <2> SUFFICES ASSUME RegistryInv, NEW v \in Vups, Reachable(v) PROVE life[v] = "live"
    BY DEF NoDanglingPointer, RegistryInv, DistinctInv
  <2> USE DEF RegistryInv
  <2>1. CASE v \in bySocket \cup dirty
    BY <2>1 DEF DistinctInv, KnownLive, PassportInv, DirtyLive
  <2>2. ASSUME NEW p \in Passports, byPassport[p] = v PROVE life[v] = "live"
    BY <2>2, MapFacts
  <2>3. ASSUME NEW k \in Keys, view[k] = v PROVE life[v] = "live"
    BY <2>3, MapFacts DEF DistinctInv, ShownRegistered
  <2>4. QED
    BY <2>1, <2>2, <2>3 DEF Reachable
<1>2. QED
  BY <1>1, RegistryAlways, PTL

\* Under the same condition the list on screen shows exactly the registered
\* clients, each under the key it will be erased by.
THEOREM ViewCorrect == ASSUME DistinctPassports PROVE Spec => []ViewShowsRegistered
<1>1. RegistryInv => ViewShowsRegistered
  <2> SUFFICES ASSUME RegistryInv, NEW p \in Passports, byPassport[p] # NoVup
               PROVE  \E k \in Keys : view[k] = byPassport[p]
    BY DEF ViewShowsRegistered, RegistryInv, DistinctInv, ShownRegistered
  <2>1. key[byPassport[p]] \in Keys /\ view[key[byPassport[p]]] = byPassport[p]
    BY MapFacts DEF RegistryInv, DistinctInv, RegisteredShown
  <2>2. QED
    BY <2>1
<1>2. QED
  BY <1>1, RegistryAlways, PTL

-----------------------------------------------------------------------------
(* What was answered to a client that still has an object. *)

\* An object that was given its passport is the one the map shows, or its last
\* answer was a refusal.
Answered ==
  \A s \in Sockets : life[s] = "live" /\ id[s] # NoPassport =>
    byPassport[PassportOf[s]] = s \/ ack[s] = "rejected"

LeaseInv == TypeInv /\ PassportInv /\ DeliveryInv /\ Answered

\* Deleting the object of one passport leaves the other objects on the map.
LEMMA RemoveVupAnswered ==
  ASSUME TypeInv, PassportInv, Answered, NEW p \in Passports \cup {NoPassport},
         RemoveVup(p), UNCHANGED <<id, ack>>
  PROVE  Answered'
<1>1. CASE p # NoPassport /\ byPassport[p] # NoVup
  <2> DEFINE d == byPassport[p]
  <2>1. p \in Passports /\ d \in Vups
    BY <1>1, MapFacts
  <2>2. /\ byPassport' = [byPassport EXCEPT ![p] = NoVup]
        /\ life' = [life EXCEPT ![d] = "freed"]
    BY <1>1 DEF RemoveVup
  <2>3. \A u \in Vups : byPassport[PassportOf[u]] = u /\ u # d => PassportOf[u] # p
    OBVIOUS
  <2> HIDE DEF d
  <2>4. QED
    BY <2>1, <2>2, <2>3, MapFacts DEF Answered
<1>2. CASE ~(p # NoPassport /\ byPassport[p] # NoVup)
  BY <1>2 DEF RemoveVup, Answered
<1>3. QED
  BY <1>1, <1>2

\* AddVup gives away free passports only.
LEMMA AddVupKeepsHolders ==
  ASSUME TypeInv, NEW v \in Vups, NEW p \in Passports, NEW k, AddVup(v, p, k)
  PROVE  /\ \A q \in Passports : byPassport[q] # NoVup => byPassport'[q] = byPassport[q]
         /\ byPassport[p] = NoVup => byPassport'[p] = v
BY DEF AddVup, TypeInv, TypeOK, MapTypeOK

LEMMA RegisterAnswers ==
  ASSUME TypeInv, PassportInv, Answered, NEW s \in Sockets, Register(s)
  PROVE  Answered'
<1> DEFINE p == PassportOf[s]
           f == Head(batch).field
<1>1. p \in Passports /\ s \in Vups /\ AddVup(s, p, <<f, p>>)
  BY MapFacts DEF Register
<1>2. /\ UNCHANGED life /\ id' = [id EXCEPT ![s] = p]
      /\ ack' = [ack EXCEPT ![s] = Answer(p)]
      /\ ack \in [Sockets -> {"none", "ok", "rejected"}]
  BY DEF Register, TypeInv, TypeOK
<1> HIDE DEF f
<1>3. /\ \A q \in Passports : byPassport[q] # NoVup => byPassport'[q] = byPassport[q]
      /\ byPassport[p] = NoVup => byPassport'[p] = s
  BY <1>1, AddVupKeepsHolders
<1>4. SUFFICES ASSUME NEW t \in Sockets, life[t] = "live", id'[t] # NoPassport
               PROVE  byPassport'[PassportOf[t]] = t \/ ack'[t] = "rejected"
  BY <1>2 DEF Answered
<1>5. CASE t = s
  BY <1>2, <1>3, <1>5 DEF Answer
<1>6. CASE t # s
  <2>1. id[t] # NoPassport /\ ack'[t] = ack[t] /\ PassportOf[t] \in Passports /\ t # NoVup
    BY <1>2, <1>4, <1>6, MapFacts
  <2>2. QED
    BY <1>3, <1>4, <2>1 DEF Answered
<1>7. QED
  BY <1>5, <1>6

LEMMA AnsweredStep ==
  ASSUME TypeInv, PassportInv, Answered, [Next]_vars
  PROVE  Answered'
<1>1. ASSUME UNCHANGED <<byPassport, life, id, ack>> PROVE Answered'
  BY <1>1 DEF Answered
<1>2. ASSUME NEW s \in Sockets, Client(s) PROVE Answered'
  BY <1>1, <1>2 DEF Client, Connect, Break, Send, mapVars, vupVars
<1>3. ASSUME NEW s \in Sockets, Accept(s) PROVE Answered'
  <2>1. UNCHANGED <<byPassport, id, ack>> /\ life' = [life EXCEPT ![s] = "live"]
    BY <1>3 DEF Accept
  <2>2. life[s] = "unused" /\ id[s] = NoPassport
    BY <1>3, MapFacts DEF Accept, PassportInv, FreshUnanswered, OwnId
  <2>3. QED
    BY <2>1, <2>2, MapFacts DEF Answered
<1>4. CASE AddClientSocket \/ Worker
  BY <1>1, <1>4 DEF AddClientSocket, Worker, Select, Receive, ReportBroken, mapVars, vupVars
<1>5. ASSUME NEW s \in Sockets, HandlePacket(s) PROVE Answered'
  <2>1. CASE LostConnection(s)
    <3>1. CASE UNCHANGED <<mapVars, life>>
      BY <1>1, <2>1, <3>1 DEF LostConnection, mapVars
    <3>2. CASE RemoveVup(id[s])
      <4>1. id[s] \in Passports \cup {NoPassport} /\ UNCHANGED <<id, ack>>
        BY <2>1, MapFacts DEF LostConnection
      <4>2. QED
        BY <3>2, <4>1, RemoveVupAnswered
    <3>3. QED
      BY <2>1, <3>1, <3>2 DEF LostConnection, Forget
  <2>2. CASE Register(s)
    BY <2>2, RegisterAnswers
  <2>3. CASE RegisterUnknown(s)
    BY <1>1, <2>3 DEF RegisterUnknown, mapVars, vupVars
  <2>4. ASSUME NEW type, Update(type, s) PROVE Answered'
    BY <1>1, <2>4 DEF Update
  <2>5. QED
    BY <1>5, <2>1, <2>2, <2>3, <2>4 DEF HandlePacket
<1>6. CASE StartTick \/ StartViewUpdate \/ EndTick \/ (\E v \in Vups : ReKey(v))
  BY <1>1, <1>6 DEF StartTick, StartViewUpdate, EndTick, ReKey, mapVars, vupVars
<1>7. ASSUME NEW v \in ConsoleVups, AddVupCommand(v) PROVE Answered'
  <2>1. /\ v \in Vups \ Sockets /\ PassportOf[v] \in Passports /\ UNCHANGED ack
        /\ AddVup(v, PassportOf[v], <<field[v], PassportOf[v]>>)
        /\ life' = [life EXCEPT ![v] = "live"] /\ id' = [id EXCEPT ![v] = PassportOf[v]]
    BY <1>7, ConstantsAssumption DEF AddVupCommand, Vups
  <2>2. \A q \in Passports : byPassport[q] # NoVup => byPassport'[q] = byPassport[q]
    BY <2>1, AddVupKeepsHolders
  <2>3. \A t \in Sockets : life'[t] = life[t] /\ id'[t] = id[t] /\ t # NoVup
    BY <2>1, MapFacts
  <2>4. QED
    BY <2>1, <2>2, <2>3, MapFacts DEF Answered
<1>8. ASSUME NEW p \in RemovablePassports, RemoveVupCommand(p) PROVE Answered'
  BY <1>8, RemoveVupAnswered, ConstantsAssumption DEF RemoveVupCommand
<1>9. CASE RefreshViewMap \/ FreezeList
           \/ \E p \in UpdatedPassports, f \in Fields : UpdateVupCommand(p, f)
  BY <1>1, <1>9 DEF RefreshViewMap, FreezeList, UpdateVupCommand, mapVars, vupVars
<1>10. CASE UNCHANGED vars
  BY <1>1, <1>10 DEF vars
<1>11. QED
  BY <1>2, <1>3, <1>4, <1>5, <1>6, <1>7, <1>8, <1>9, <1>10
     DEF Next, Listener, Tick, Console

-----------------------------------------------------------------------------
(* The registry implements PassportLease. *)

\* A step that answers nobody, moves no passport and ends neither a connection nor
\* a frame.
LEMMA LeaseUnmoved ==
  ASSUME UNCHANGED <<byPassport, ack>>, mainPc' = "idle" <=> mainPc = "idle",
         \A s \in Sockets : Ended(s)' <=> Ended(s)
  PROVE  UNCHANGED Lease!vars
<1>1. {s \in Sockets : conn'[s] \in {"broken", "closed"}}
        = {s \in Sockets : conn[s] \in {"broken", "closed"}}
  BY DEF Ended
<1>2. QED
  BY <1>1 DEF Lease!vars

\* Breaking a connection is the client leaving.
LEMMA LeaseBreak ==
  ASSUME TypeInv, NEW s \in Sockets, Break(s) PROVE Lease!Leave(s)
<1>1. conn' = [conn EXCEPT ![s] = "broken"] /\ UNCHANGED <<byPassport, ack, mainPc>>
  BY DEF Break, mapVars, mainVars
<1>2. {t \in Sockets : conn'[t] \in {"broken", "closed"}}
        = {t \in Sockets : conn[t] \in {"broken", "closed"}} \cup {s}
  BY <1>1 DEF TypeInv, TypeOK, NetTypeOK
<1>3. QED
  BY <1>1, <1>2 DEF Lease!Leave

\* RemoveVup frees a passport and ends the connection of its holder.
LEMMA LeaseRemove ==
  ASSUME TypeInv, PassportInv, NEW p \in Passports \cup {NoPassport}, RemoveVup(p),
         UNCHANGED <<ack, mainPc>>
  PROVE  UNCHANGED Lease!vars \/ (p \in Passports /\ byPassport[p] # NoVup /\ Lease!Free(p))
<1>1. CASE p # NoPassport /\ byPassport[p] # NoVup
  <2> DEFINE d == byPassport[p]
             Over == {s \in Sockets : conn[s] \in {"broken", "closed"}} \cup ConsoleVups
  <2>1. p \in Passports /\ d \in Vups
    BY <1>1, MapFacts
  <2>2. /\ byPassport' = [byPassport EXCEPT ![p] = NoVup]
        /\ conn' = IF d \in Sockets THEN [conn EXCEPT ![d] = "closed"] ELSE conn
    BY <1>1 DEF RemoveVup
  <2>3. conn \in [Sockets -> {"idle", "queued", "up", "broken", "closed"}]
    BY DEF TypeInv, TypeOK, NetTypeOK
  <2> HIDE DEF d
  <2>4. Over' = Over \cup {d}
    BY <2>1, <2>2, <2>3 DEF Vups
  <2>5. Lease!Free(p)
    BY <1>1, <2>2, <2>4 DEF Lease!Free, d
  <2>6. QED
    BY <1>1, <2>1, <2>5
<1>2. CASE ~(p # NoPassport /\ byPassport[p] # NoVup)
  BY <1>2, LeaseUnmoved DEF RemoveVup, Ended
<1>3. QED
  BY <1>1, <1>2

\* LostConnection of a client releases its own passport, or cuts off the client
\* that holds the passport it was refused.
LEMMA LeaseLost ==
  ASSUME LeaseInv, NEW s \in Sockets, LostConnection(s)
  PROVE  [Lease!Next]_(Lease!vars)
<1> USE DEF LeaseInv
<1>1. CASE UNCHANGED <<conn, mapVars>>
  BY <1>1, LeaseUnmoved DEF LostConnection, Handling, mapVars, Ended
<1>2. CASE s \in bySocket /\ life[s] # "freed" /\ RemoveVup(id[s])
  <2>1. UNCHANGED <<ack, mainPc>> /\ mainPc = "packets" /\ s \in Vups
    BY MapFacts DEF LostConnection, Handling
  <2>2. PICK p \in Passports \cup {NoPassport} : p = id[s]
    BY MapFacts
  <2>3. RemoveVup(p)
    BY <1>2, <2>2 DEF RemoveVup
  <2>4. Ended(s)
    <3>1. 1 \in DOMAIN Queue /\ IsLost(Queue[1], s)
      BY QueueHandled DEF LostConnection, poolVars, IsLost
    <3>2. QED
      BY <3>1 DEF DeliveryInv, LostEnded
  <2>5. CASE p \in Passports /\ byPassport[p] # NoVup /\ Lease!Free(p)
    <3>1. p = PassportOf[s] /\ life[s] = "live"
      BY <1>2, <2>1, <2>2, <2>5, MapFacts DEF PassportInv, OwnId
    <3>2. byPassport[p] = s \/ ack[s] = "rejected"
      <4>1. id[s] # NoPassport
        BY <2>2, <2>5, ConstantsAssumption
      <4>2. QED
        BY <3>1, <4>1 DEF Answered
    <3>3. s \in {t \in Sockets : conn[t] \in {"broken", "closed"}}
      BY <2>4 DEF Ended
    <3>4. Lease!Release(p) \/ Lease!Evict(p, s)
      BY <2>1, <2>5, <3>1, <3>2, <3>3 DEF Lease!Release, Lease!Evict
    <3>5. QED
      BY <2>1, <2>5, <3>4 DEF Lease!Next
  <2>6. QED
    BY <2>1, <2>3, <2>5, LeaseRemove
<1>3. QED
  BY <1>1, <1>2 DEF LostConnection, Forget

\* The ClientRegister case grants a free passport and refuses a held one.
LEMMA LeaseRegister ==
  ASSUME TypeInv, PassportInv, NEW s \in Sockets, Register(s)
  PROVE  Lease!Grant(s) \/ Lease!Refuse(s)
<1> DEFINE p == PassportOf[s]
           f == Head(batch).field
<1>1. p \in Passports /\ AddVup(s, p, <<f, p>>) /\ s \in Vups
  BY MapFacts DEF Register
<1>2. UNCHANGED <<conn, mainPc>> /\ mainPc = "packets" /\ ack' = [ack EXCEPT ![s] = Answer(p)]
      /\ ack \in [Sockets -> {"none", "ok", "rejected"}]
  BY DEF Register, Handling, netVars, TypeInv, TypeOK
<1> DEFINE R(a) == [v \in Vups |-> IF v \in Sockets THEN a[v] ELSE "none"]
<1>3. R(ack') = [R(ack) EXCEPT ![s] = Answer(p)]
  BY <1>1, <1>2
<1> HIDE DEF f
<1>4. CASE byPassport[p] = NoVup
  <2>1. byPassport' = [byPassport EXCEPT ![p] = s] /\ Answer(p) = "ok"
    BY <1>1, <1>4 DEF AddVup, Answer
  <2>2. Lease!Grant(s)
    BY <1>2, <1>3, <1>4, <2>1 DEF Lease!Grant, Lease!Take
  <2>3. QED
    BY <2>2
<1>5. CASE byPassport[p] # NoVup
  <2>1. UNCHANGED byPassport /\ Answer(p) = "rejected"
    BY <1>1, <1>5 DEF AddVup, Answer
  <2>2. Lease!Refuse(s)
    BY <1>2, <1>3, <1>5, <2>1 DEF Lease!Refuse
  <2>3. QED
    BY <2>2
<1>6. QED
  BY <1>4, <1>5

LEMMA LeaseStep ==
  ASSUME LeaseInv, [Next]_vars
  PROVE  [Lease!Next]_(Lease!vars)
<1> USE DEF LeaseInv
<1>0. ASSUME UNCHANGED <<byPassport, ack, conn, mainPc>> PROVE UNCHANGED Lease!vars
  BY <1>0, LeaseUnmoved DEF Ended
<1>1. ASSUME NEW s \in Sockets, Client(s) PROVE [Lease!Next]_(Lease!vars)
  <2>1. CASE Connect(s)
    <3>1. \A t \in Sockets : Ended(t)' <=> Ended(t)
      BY <2>1 DEF Connect, Ended, TypeInv, TypeOK, NetTypeOK
    <3>2. QED
      BY <2>1, <3>1, LeaseUnmoved DEF Connect, mapVars, mainVars
  <2>2. CASE Break(s)
    BY <2>2, LeaseBreak, MapFacts DEF Lease!Next
  <2>3. ASSUME NEW m \in Offered, Send(s, m) PROVE UNCHANGED Lease!vars
    BY <1>0, <2>3 DEF Send, mapVars, mainVars
  <2>4. QED
    BY <1>1, <2>1, <2>2, <2>3 DEF Client
<1>2. ASSUME NEW s \in Sockets, Accept(s) PROVE UNCHANGED Lease!vars
  <2>1. \A t \in Sockets : Ended(t)' <=> Ended(t)
    BY <1>2 DEF Accept, Ended, TypeInv, TypeOK, NetTypeOK
  <2>2. QED
    BY <1>2, <2>1, LeaseUnmoved DEF Accept, mainVars
<1>3. CASE AddClientSocket
  BY <1>0, <1>3 DEF AddClientSocket, netVars, mainVars, mapVars
<1>4. CASE Worker
  BY <1>0, <1>4 DEF Worker, Select, Receive, ReportBroken, netVars, mainVars, mapVars
<1>5. ASSUME NEW s \in Sockets, HandlePacket(s) PROVE [Lease!Next]_(Lease!vars)
  <2>1. CASE LostConnection(s)
    BY <2>1, LeaseLost
  <2>2. CASE Register(s)
    BY <2>2, LeaseRegister, MapFacts DEF Lease!Next
  <2>3. CASE RegisterUnknown(s)
    BY <1>0, <2>3 DEF RegisterUnknown, Handling, netVars, mapVars
  <2>4. ASSUME NEW type, Update(type, s) PROVE UNCHANGED Lease!vars
    BY <1>0, <2>4 DEF Update, Handling, netVars
  <2>5. QED
    BY <1>5, <2>1, <2>2, <2>3, <2>4 DEF HandlePacket
<1>6. CASE StartTick \/ StartViewUpdate \/ EndTick \/ (\E v \in Vups : ReKey(v))
  <2>1. UNCHANGED <<byPassport, ack, conn>>
    BY <1>6 DEF StartTick, StartViewUpdate, EndTick, ReKey, netVars, mapVars
  <2>2. CASE StartTick \/ EndTick
    <3>1. (mainPc = "idle" /\ mainPc' = "packets") \/ (mainPc = "view" /\ mainPc' = "idle")
      BY <2>2 DEF StartTick, EndTick
    <3>2. Lease!Frame
      BY <2>1, <3>1 DEF Lease!Frame
    <3>3. QED
      BY <3>2 DEF Lease!Next
  <2>3. CASE StartViewUpdate \/ (\E v \in Vups : ReKey(v))
    <3>1. mainPc # "idle" /\ mainPc' # "idle"
      BY <2>3 DEF StartViewUpdate, ReKey, mainVars
    <3>2. QED
      BY <2>1, <3>1, LeaseUnmoved DEF Ended
  <2>4. QED
    BY <1>6, <2>2, <2>3
<1>7. ASSUME NEW v \in ConsoleVups, AddVupCommand(v) PROVE [Lease!Next]_(Lease!vars)
  <2>1. AddVup(v, PassportOf[v], <<field[v], PassportOf[v]>>) /\ UNCHANGED <<conn, ack, mainPc>>
        /\ v \in Vups /\ mainPc = "idle"
    BY <1>7 DEF AddVupCommand, netVars, mainVars, Vups
  <2>2. CASE byPassport[PassportOf[v]] = NoVup
    <3>1. byPassport' = [byPassport EXCEPT ![PassportOf[v]] = v]
      BY <2>1, <2>2 DEF AddVup
    <3>2. Lease!Assign(v)
      BY <2>1, <2>2, <3>1 DEF Lease!Assign, Lease!Take
    <3>3. QED
      BY <2>1, <3>2 DEF Lease!Next
  <2>3. CASE byPassport[PassportOf[v]] # NoVup
    BY <1>0, <2>1, <2>3 DEF AddVup
  <2>4. QED
    BY <2>2, <2>3
<1>8. ASSUME NEW p \in RemovablePassports, RemoveVupCommand(p)
      PROVE  [Lease!Next]_(Lease!vars)
  <2>1. p \in Passports /\ RemoveVup(p) /\ UNCHANGED <<ack, mainPc>> /\ mainPc = "idle"
    BY <1>8, ConstantsAssumption DEF RemoveVupCommand, mainVars
  <2>2. Lease!Free(p) => Lease!Withdraw(p)
    BY <2>1 DEF Lease!Withdraw
  <2>3. QED
    BY <2>1, <2>2, LeaseRemove DEF Lease!Next
<1>9. CASE RefreshViewMap \/ FreezeList
           \/ \E p \in UpdatedPassports, f \in Fields : UpdateVupCommand(p, f)
  BY <1>0, <1>9 DEF RefreshViewMap, FreezeList, UpdateVupCommand, netVars, mainVars, mapVars
<1>10. CASE UNCHANGED vars
  BY <1>0, <1>10 DEF vars, mainVars
<1>11. QED
  BY <1>1, <1>2, <1>3, <1>4, <1>5, <1>6, <1>7, <1>8, <1>9, <1>10
     DEF Next, Listener, Tick, Console

\* Whatever passports the clients claim and whatever the operator removes, the
\* registry keeps the lease contract: a free passport is granted, a held one refused,
\* and a holder whose connection is up loses its passport only to removevup or to
\* the lost connection of a client that was refused the same passport.
THEOREM LeasesKept == Spec => KeepsLeases
<1>1. Init => Lease!Init
  <2> SUFFICES ASSUME Init PROVE Lease!Init
    OBVIOUS
  <2>1. {s \in Sockets : conn[s] \in {"broken", "closed"}} = {}
    BY DEF Init
  <2>2. [v \in Vups |-> IF v \in Sockets THEN ack[v] ELSE "none"] = [v \in Vups |-> "none"]
    BY DEF Init
  <2>3. QED
    BY <2>1, <2>2 DEF Init, Lease!Init
<1>2. Init => LeaseInv
  <2>1. Init => TypeInv /\ PassportInv /\ DeliveryInv
    BY InitType, InitPassports, InitDelivery, ConstantsAssumption DEF TypeInv, Identified, Init
  <2>2. Init => Answered
    BY DEF Init, Answered, Vups
  <2>3. QED
    BY <2>1, <2>2 DEF LeaseInv
<1>3. LeaseInv /\ [Next]_vars => LeaseInv'
  BY TypeStep, PassportStep, DeliveryStep, AnsweredStep DEF LeaseInv
<1>4. LeaseInv /\ [Next]_vars => [Lease!Next]_(Lease!vars)
  BY LeaseStep
<1>5. QED
  BY <1>1, <1>2, <1>3, <1>4, PTL DEF Spec, KeepsLeases, Lease!Spec
=============================================================================
