------------------------------ MODULE RdvPoint ------------------------------
(***************************************************************************)
(* Rendezvous points of the VUP manager (src/src/VUPManager): a client that *)
(* reaches a point is seated in a group and waits until enough clients are *)
(* there or the point times out; then every client of the point is told    *)
(* when to start.                                                          *)
(*                                                                         *)
(* Three structures describe the same seats: the point itself              *)
(* (VMVupManager::m_poRDVList), the client's object (VMVup: its point and  *)
(* its group) and the group summary on screen (VMSummary::m_GroupInfoMap). *)
(* A seated client may disconnect, and the operator may change the         *)
(* parameters of a point, at any time.                                     *)
(*                                                                         *)
(* All of it runs in the main thread; a tick handles packets, then fires   *)
(* the points that are due, then draws.  A passport stands for the one     *)
(* registered VMVup that has it (see VupRegistry).  Start times, which are *)
(* only computed and sent, are left out.                                   *)
(***************************************************************************)
EXTENDS Integers, Sequences, FiniteSets, SequencesExt

CONSTANTS
  Passports,      \* the clients
  Points,         \* rendezvous point ids
  MajorOf,        \* the major id of a point: parameters are kept per major id
  ParamChoices,   \* parameters the operator may set: RDVPointParameter
  DefaultTimeout, \* time-out of a point that is opened without parameters
  MaxListed,      \* bound: entries of a point's client list and of its summary
  Patient,        \* a client reaches a point only when it awaits no other
  Tunable         \* the operator also sets parameters of points that are open

NoPoint == "none"   \* kInvalidRDVPoint
NoGroup == -1
Infinite == -1      \* m_MaxNumberInGroup of a point without parameters
Closed == [clients |-> <<>>]
NoParam == [groupNum |-> 0]
NoEntry == [total |-> 0]
Majors == {MajorOf[r] : r \in Points}
Param == [groupNum : Nat, vupNum : Nat, expected : Nat, timeout : Nat]

ASSUME RdvAssumption ==
  /\ IsFiniteSet(Passports)
  /\ NoPoint \notin Points
  /\ MajorOf \in [Points -> Majors]
  /\ ParamChoices \subseteq Param
  /\ DefaultTimeout \in Nat
  /\ MaxListed \in Nat
  /\ {Patient, Tunable} \subseteq BOOLEAN

VARIABLES
  mainPc,       \* where the main thread is in its tick
  registered,   \* the passport is in m_poVupMapByPassport
  point, group, \* m_iRDVPointID and m_iGroup of the VMVup
  awaits,       \* the point a client reached last and has not been started from
  rdv,          \* m_poRDVList
  param,        \* m_poRDVParam
  summary,      \* VMSummary::m_GroupInfoMap
  fired         \* points that have fired before, for SummaryAgrees; no code reads it

vupVars == <<registered, point, group, awaits>>
vars == <<mainPc, registered, point, group, awaits, rdv, param, summary, fired>>

IsOpen(r) == rdv[r] # Closed
Listed(r) == ToSet(rdv[r].clients)
ParamOf(r) == param[MajorOf[r]]

IsRdv(x) ==
  /\ DOMAIN x = {"clients", "groups", "full", "expected", "timeout", "age"}
  /\ x.clients \in Seq(Passports)
  /\ \A g \in DOMAIN x.groups : g \in Nat /\ x.groups[g] \in Nat
  /\ x.full \in BOOLEAN /\ x.expected \in Nat /\ x.timeout \in Nat /\ x.age \in Nat
GroupType == [cur : Int, max : Int, passports : Seq(Passports)]

\* Every variable has its type: no group of a point ever has a negative number
\* of clients, whatever clients and the operator do (RemoveVup).
TypeOK ==
  /\ mainPc \in {"idle", "packets"}
  /\ registered \in [Passports -> BOOLEAN]
  /\ point \in [Passports -> Points \cup {NoPoint}]
  /\ \A p \in Passports : group[p] \in Int /\ group[p] >= NoGroup
  /\ awaits \in [Passports -> Points \cup {NoPoint}]
  /\ \A r \in Points : IsOpen(r) => IsRdv(rdv[r])
  /\ \A m \in Majors : param[m] # NoParam => param[m] \in Param
  /\ \A r \in Points : summary[r] # NoEntry =>
       /\ summary[r].total \in Int
       /\ \A g \in DOMAIN summary[r].groups : summary[r].groups[g] \in GroupType
  /\ fired \subseteq Points

Init ==
  /\ mainPc = "idle"
  /\ registered = [p \in Passports |-> FALSE]
  /\ point = [p \in Passports |-> NoPoint]
  /\ group = [p \in Passports |-> NoGroup]
  /\ awaits = [p \in Passports |-> NoPoint]
  /\ rdv = [r \in Points |-> Closed]
  /\ param = [m \in Majors |-> NoParam]
  /\ summary = [r \in Points |-> NoEntry]
  /\ fired = {}

-----------------------------------------------------------------------------
(* The group summary: VMSummary. *)

EmptyGroup == [cur |-> 0, max |-> 0, passports |-> <<>>]

\* UpdateGroupInfo for an added seat: the groups are resized to n, then the
\* seat is entered if its group still exists.
Enter(r, n, g, max, p) ==
  LET old == IF summary[r] = NoEntry THEN [total |-> 0, groups |-> <<>>] ELSE summary[r]
      kept(i) == IF i \in DOMAIN old.groups THEN old.groups[i] ELSE EmptyGroup
      sized == [i \in 0..(n - 1) |-> kept(i)]
      seated == [sized EXCEPT ![g] = [cur |-> @.cur + 1, max |-> max,
                                      passports |-> Append(@.passports, p)]]
  IN summary' = [summary EXCEPT ![r] =
       IF g \in DOMAIN sized THEN [total |-> old.total + 1, groups |-> seated]
       ELSE [total |-> old.total, groups |-> sized]]

\* A mutant: the seat is given back after the group of the client was reset.
EraseAfterReset(r, g, p) ==
  IF r = NoPoint \/ summary[r] = NoEntry
  THEN UNCHANGED summary
  ELSE summary' = [summary EXCEPT ![r] = IF summary[r].total = 0 THEN NoEntry ELSE @]

\* UpdateGroupInfo for a removed seat; an entry without clients disappears.
Erase(r, g, p) ==
  IF r = NoPoint \/ summary[r] = NoEntry
  THEN UNCHANGED summary
  ELSE LET known == g \in DOMAIN summary[r].groups
           total == summary[r].total - (IF known THEN 1 ELSE 0)
           left == IF known
                   THEN [summary[r].groups EXCEPT ![g] =
                           [cur |-> @.cur - 1, max |-> @.max,
                            passports |-> RemoveFirst(@.passports, p)]]
                   ELSE summary[r].groups
       IN summary' = [summary EXCEPT ![r] =
            IF total = 0 THEN NoEntry ELSE [total |-> total, groups |-> left]]

-----------------------------------------------------------------------------
(* Clients. *)

\* A client registers: its VMVup is new.
Register(p) ==
  /\ mainPc = "packets"
  /\ ~registered[p]
  /\ registered' = [registered EXCEPT ![p] = TRUE]
  /\ UNCHANGED <<mainPc, point, group, awaits, rdv, param, summary, fired>>

\* The point as the first client finds it.
Opened(r) ==
  IF ParamOf(r) = NoParam
  THEN [clients |-> <<>>, groups |-> [g \in {0} |-> 0], full |-> FALSE,
        expected |-> 9999, timeout |-> DefaultTimeout, age |-> 0]
  ELSE [clients |-> <<>>, groups |-> [g \in 0..(ParamOf(r).groupNum - 1) |-> 0],
        full |-> FALSE, expected |-> ParamOf(r).expected,
        timeout |-> ParamOf(r).timeout, age |-> 0]

Current(r) == IF IsOpen(r) THEN rdv[r] ELSE Opened(r)

\* A mutant: one client too many fits in a group.
FreeGroupsPlusOne(x, r) == {g \in DOMAIN x.groups : x.groups[g] <= ParamOf(r).vupNum}
FreeGroups(x, r) == {g \in DOMAIN x.groups : x.groups[g] < ParamOf(r).vupNum}

\* The group a client gets: its own if that has room, else the first that has.
SeatFor(x, r, p) ==
  LET free == FreeGroups(x, r)
  IN IF x.full \/ free = {} THEN NoGroup
     ELSE IF group[p] \in free THEN group[p]
     ELSE CHOOSE g \in free : \A h \in free : g <= h

Seated(x, g, p) == [x EXCEPT !.groups[g] = @ + 1, !.clients = Append(@, p)]

\* A point without parameters has one group without limit.
ReachDefault(p, r) ==
  /\ ParamOf(r) = NoParam
  /\ group' = [group EXCEPT ![p] = 0]
  /\ rdv' = [rdv EXCEPT ![r] = Seated(Current(r), 0, p)]
  /\ Enter(r, 1, 0, Infinite, p)

ReachWithParam(p, r) ==
  LET x == Current(r)
      g == SeatFor(x, r, p)
  IN /\ ParamOf(r) # NoParam
     /\ group' = [group EXCEPT ![p] = g]
     /\ IF g = NoGroup
        THEN /\ rdv' = [rdv EXCEPT ![r] = [x EXCEPT !.full = TRUE]]
             /\ UNCHANGED summary
        ELSE /\ rdv' = [rdv EXCEPT ![r] = Seated(x, g, p)]
             /\ Enter(r, ParamOf(r).groupNum, g, ParamOf(r).vupNum, p)

\* The ReachRDVPoint case of _HandleUdpPack, and the client that sent it.
Reach(p, r) ==
  /\ mainPc = "packets"
  /\ Patient => awaits[p] = NoPoint
  /\ Len(rdv[r].clients) < MaxListed /\ summary[r].total < MaxListed
  /\ IF registered[p]
     THEN /\ ReachDefault(p, r) \/ ReachWithParam(p, r)
          /\ point' = [point EXCEPT ![p] = r]
          /\ awaits' = [awaits EXCEPT ![p] = r]
     ELSE /\ rdv' = [rdv EXCEPT ![r] = Current(r)]
          /\ UNCHANGED <<point, group, awaits, summary>>
  /\ UNCHANGED <<mainPc, registered, param, fired>>

\* A mutant: the seat of a removed client is not given back.
VacateKeepsSeat(x, p) ==
  IF group[p] >= 0 /\ p \in ToSet(x.clients)
  THEN [x EXCEPT !.clients = RemoveFirst(@, p), !.full = FALSE]
  ELSE x

\* A mutant: the wrong client is erased.
VacateFirst(x, p) ==
  IF group[p] >= 0 /\ p \in ToSet(x.clients)
  THEN [x EXCEPT !.clients = Tail(@), !.groups[group[p]] = @ - 1, !.full = FALSE]
  ELSE x

\* What RemoveVup does to the point of the removed client.
Vacate(x, p) ==
  IF group[p] >= 0 /\ p \in ToSet(x.clients)
  THEN [x EXCEPT !.clients = RemoveFirst(@, p), !.groups[group[p]] = @ - 1,
                 !.full = FALSE]
  ELSE x

\* The client's connection is lost: RemoveVup and the destructor of VMVup.
Leave(p) ==
  LET r == point[p]
  IN /\ mainPc = "packets"
     /\ registered[p]
     /\ registered' = [registered EXCEPT ![p] = FALSE]
     /\ point' = [point EXCEPT ![p] = NoPoint]
     /\ group' = [group EXCEPT ![p] = NoGroup]
     /\ awaits' = [awaits EXCEPT ![p] = NoPoint]
     /\ rdv' = IF r # NoPoint /\ IsOpen(r) THEN [rdv EXCEPT ![r] = Vacate(@, p)] ELSE rdv
     /\ Erase(r, group[p], p)
     /\ UNCHANGED <<mainPc, param, fired>>

-----------------------------------------------------------------------------
(* The main thread. *)

\* A tick starts dt units of time after the last one.  No test looks at the age
\* of a point beyond its time-out.
StartTick(dt) ==
  LET Aged(x) == [x EXCEPT !.age = IF @ >= x.timeout THEN @ ELSE @ + dt]
  IN /\ mainPc = "idle"
     /\ mainPc' = "packets"
     /\ rdv' = [r \in Points |-> IF IsOpen(r) THEN Aged(rdv[r]) ELSE Closed]
     /\ UNCHANGED <<vupVars, param, summary, fired>>

\* A mutant: the time-out is not looked at.
DueWhenComplete(r) == IsOpen(r) /\ Len(rdv[r].clients) >= rdv[r].expected
Due(r) ==
  /\ IsOpen(r)
  /\ \/ Len(rdv[r].clients) >= rdv[r].expected
     \/ rdv[r].age >= rdv[r].timeout

\* A mutant: StartTesting goes to every client that has a group.
StartedEveryone(r) == {p \in Passports : registered[p] /\ group[p] >= 0}

\* StartTesting is sent to the listed clients that still exist and have a group.
Started(r) == {p \in Listed(r) : registered[p] /\ group[p] >= 0}

\* _UpdateRDVPoint fires every point that is due; the summary is drawn as it is then.
UpdateRDVPoint ==
  LET due == {r \in Points : Due(r)}
      started == UNION {Started(r) : r \in due}
  IN /\ mainPc = "packets"
     /\ mainPc' = "idle"
     /\ rdv' = [r \in Points |-> IF r \in due THEN Closed ELSE rdv[r]]
     /\ summary' = [r \in Points |-> IF r \in due THEN NoEntry ELSE summary[r]]
     /\ awaits' = [p \in Passports |-> IF p \in started THEN NoPoint ELSE awaits[p]]
     /\ fired' = IF Tunable THEN fired ELSE fired \cup due
     /\ UNCHANGED <<registered, point, group, param>>

\* setrdvp: AddRDVParam makes the parameters, SetRDVParameter fills them.
SetRDVParameter(m, prm) ==
  /\ mainPc = "idle"
  /\ Tunable \/ \A r \in Points : MajorOf[r] = m => ~IsOpen(r)
  /\ param' = [param EXCEPT ![m] = prm]
  /\ UNCHANGED <<mainPc, vupVars, rdv, summary, fired>>

Client(p) == Register(p) \/ Leave(p) \/ \E r \in Points : Reach(p, r)
Tick == UpdateRDVPoint \/ \E dt \in {0, 1} : StartTick(dt)
Operator == \E m \in Majors, prm \in ParamChoices : SetRDVParameter(m, prm)

Next == Tick \/ Operator \/ \E p \in Passports : Client(p)

Spec == Init /\ [][Next]_vars

\* The main loop runs and the clock advances; clients and the operator may stop.
FairSpec == Spec /\ WF_vars(Tick) /\ SF_vars(StartTick(1))

-----------------------------------------------------------------------------
(* Properties. *)

\* The seats of a point that are taken, numbered in each group from 1.
TakenSeats(x) == UNION {{g} \X (1..x.groups[g]) : g \in DOMAIN x.groups}

SeatsOf(r, g) == {p \in Passports : registered[p] /\ point[p] = r /\ group[p] = g}

\* Whatever clients and the operator do, a point has as many seats taken as
\* clients listed (ReachRDVPoint case, RemoveVup).
SeatsMatchList ==
  /\ TypeOK
  /\ \A r \in Points : IsOpen(r) =>
       Cardinality(TakenSeats(rdv[r])) = Len(rdv[r].clients)

\* A client keeps its seat until it leaves or is started: one that awaits a
\* point with a group is listed at that point, so its firing will start it.
NobodyStranded ==
  \A p \in Passports : awaits[p] # NoPoint /\ group[p] >= 0 =>
    /\ registered[p] /\ point[p] = awaits[p]
    /\ IsOpen(point[p]) /\ p \in Listed(point[p])
    /\ group[p] \in DOMAIN rdv[point[p]].groups

\* Clients that wait for one point at a time, parameters fixed while it is open: the
\* list of a point names exactly the registered clients seated there, once, counts
\* them group by group, and the point is flagged full only while no group has
\* room: a client is turned away only when it must be.
SeatsAgree ==
  \A r \in Points : IsOpen(r) =>
    /\ \A i, j \in DOMAIN rdv[r].clients : rdv[r].clients[i] = rdv[r].clients[j] => i = j
    /\ \A p \in Listed(r) : registered[p] /\ point[p] = r
    /\ \A g \in DOMAIN rdv[r].groups :
         rdv[r].groups[g] = Cardinality({p \in Listed(r) : group[p] = g})
    /\ rdv[r].full => FreeGroups(rdv[r], r) = {}

\* Until a point fires for the first time, with parameters fixed while it is open:
\* the summary on screen has its groups, its counts and its clients.  (A client of
\* a point that has fired keeps its seat and gives it back a second time.)
SummaryAgrees ==
  \A r \in Points \ fired :
    /\ summary[r] # NoEntry <=> IsOpen(r) /\ rdv[r].clients # <<>>
    /\ summary[r] # NoEntry =>
         /\ summary[r].total = Len(rdv[r].clients)
         /\ DOMAIN summary[r].groups = DOMAIN rdv[r].groups
         /\ \A g \in DOMAIN rdv[r].groups :
              /\ summary[r].groups[g].cur = rdv[r].groups[g]
              /\ ToSet(summary[r].groups[g].passports) = SeatsOf(r, g) \cap Listed(r)

\* The assertion of onUpdateGroup (VMInit.cpp:467): a group with a limit never
\* shows more clients than the limit, whatever the operator changes meanwhile.
GroupsFit ==
  \A r \in Points : summary[r] # NoEntry =>
    \A g \in DOMAIN summary[r].groups :
      LET data == summary[r].groups[g]
      IN data.max # Infinite => Len(data.passports) <= data.max

\* What FXTreeList::setItemText asserts of its argument when onUpdateGroup draws
\* a group without limit: there is a row for every client of the group.
RowForEveryClient ==
  mainPc = "idle" =>
    \A r \in Points : summary[r] # NoEntry =>
      \A g \in DOMAIN summary[r].groups :
        LET data == summary[r].groups[g]
        IN data.max = Infinite => Len(data.passports) <= data.cur

\* A client is started by the point it waits for and by no other: StartTesting
\* does not say which point it is for.
StartedByOwnPoint ==
  [][\A p \in Passports :
       awaits[p] # NoPoint /\ awaits'[p] = NoPoint /\ registered'[p]
         => IsOpen(awaits[p]) /\ rdv'[awaits[p]] = Closed]_vars

\* A client that got a group is started, or leaves: the time-out of the point
\* does not depend on anyone else arriving.
SeatedIsStarted ==
  \A p \in Passports :
    (awaits[p] # NoPoint /\ group[p] >= 0) ~> (awaits[p] = NoPoint \/ group[p] < 0)
=============================================================================
