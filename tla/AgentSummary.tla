---------------------------- MODULE AgentSummary ----------------------------
(***************************************************************************)
(* The agent summary of the VUP manager (VMSummary::m_AgentSummaryMap): how *)
(* many clients run on each host, and how many of them are in each status  *)
(* and in each test phase.  The counts are kept incrementally by the       *)
(* setters and the destructor of VMVup, and drawn once per tick.           *)
(*                                                                         *)
(* Only the main thread touches them.  An object is made per connection    *)
(* (life "unregistered"), counted from its first ClientRegister on and     *)
(* uncounted when it is deleted.  VupRegistry says when that happens; here *)
(* a registered object may be deleted at any time and an object name is    *)
(* used again for a later connection.                                      *)
(***************************************************************************)
EXTENDS Integers, FiniteSets

CONSTANTS
  Vups,           \* the VMVup objects
  Agents,         \* the hosts, by IP address
  AgentOf,        \* the host of each object
  MaxStatus,      \* largest status: EVupStatus_Num - 1
  MaxPhase,       \* largest test phase: ETestPhase_Num - 1
  MaxCount        \* bound: registrations counted on one host

Statuses == 0..MaxStatus  \* 0 is EVupStatus_Invalid, which is not counted
Phases == 0..MaxPhase     \* 0 is ETestPhase_INVALID, which is not counted

ASSUME SummaryAssumption ==
  /\ IsFiniteSet(Vups)
  /\ AgentOf \in [Vups -> Agents]
  /\ MaxStatus \in Nat /\ MaxPhase \in Nat /\ MaxCount \in Nat

VARIABLES
  life,           \* "unused", "unregistered" or "registered" (m_iUniqueID >= 0)
  status, phase,  \* m_uiCurrentStatus and m_uiCurrentTestPhase
  counted,        \* hosts that have an entry in m_AgentSummaryMap
  vupCnt,         \* m_VupCnt, of the hosts that have an entry
  statusCnt,      \* m_StatusCnt
  phaseCnt,       \* m_TestPhaseCnt
  rows,           \* hosts shown in the agent list and in the watched values
  again           \* some client registered twice on a connection; no code reads it

summaryVars ==
  <<life, status, phase, counted, vupCnt, statusCnt, phaseCnt, rows,
   again>>

NoStatus == [i \in Statuses |-> 0]
NoPhase == [i \in Phases |-> 0]

SummaryTypeOK ==
  /\ life \in [Vups -> {"unused", "unregistered", "registered"}]
  /\ status \in [Vups -> Statuses]
  /\ phase \in [Vups -> Phases]
  /\ counted \subseteq Agents
  /\ vupCnt \in [Agents -> Nat]
  /\ statusCnt \in [Agents -> [Statuses -> Nat]]
  /\ phaseCnt \in [Agents -> [Phases -> Nat]]
  /\ rows \subseteq Agents
  /\ again \in BOOLEAN

SummaryInit ==
  /\ life = [v \in Vups |-> "unused"]
  /\ status = [v \in Vups |-> 0]
  /\ phase = [v \in Vups |-> 0]
  /\ counted = {}
  /\ vupCnt = [a \in Agents |-> 0]
  /\ statusCnt = [a \in Agents |-> NoStatus]
  /\ phaseCnt = [a \in Agents |-> NoPhase]
  /\ rows = {}
  /\ again = FALSE

-----------------------------------------------------------------------------
\* A mutant: the last value keeps its client.
MovedKeepsLast(cnt, last, cur) == IF cur > 0 THEN [cnt EXCEPT ![cur] = @ + 1] ELSE cnt

\* UpdateSummary for one attribute: the last value loses a client, the current
\* one gains it, and value 0 is not counted.
Moved(cnt, last, cur) ==
  LET less == IF last > 0 THEN [cnt EXCEPT ![last] = @ - 1] ELSE cnt
  IN IF cur > 0 THEN [less EXCEPT ![cur] = @ + 1] ELSE less

\* SetStatus.
SetStatus(v, st) ==
  /\ status' = [status EXCEPT ![v] = st]
  /\ statusCnt' = IF st = status[v] THEN statusCnt
                  ELSE [statusCnt EXCEPT ![AgentOf[v]] = Moved(@, status[v], st)]

\* SetTestPhase, after SetStatus(v, st): the phase is compared with the current
\* status, so a phase of the same number as the status is not taken over.
SetTestPhase(v, st, ph) ==
  IF ph = st
  THEN UNCHANGED <<phase, phaseCnt>>
  ELSE /\ phase' = [phase EXCEPT ![v] = ph]
       /\ phaseCnt' = [phaseCnt EXCEPT ![AgentOf[v]] = Moved(@, phase[v], ph)]

\* The listening thread makes an object for a connection; it is not counted.
Connect(v) ==
  /\ life[v] = "unused"
  /\ life' = [life EXCEPT ![v] = "unregistered"]
  /\ UNCHANGED <<status, phase, counted, vupCnt, statusCnt, phaseCnt, rows,
                 again>>

\* A mutant: the client that makes the entry of its host is not counted.
RegisterUncounted(v, st, ph) ==
  /\ life[v] # "unused"
  /\ vupCnt[AgentOf[v]] < MaxCount
  /\ life' = [life EXCEPT ![v] = "registered"]
  /\ vupCnt' = IF AgentOf[v] \in counted THEN [vupCnt EXCEPT ![AgentOf[v]] = @ + 1]
               ELSE vupCnt
  /\ counted' = counted \cup {AgentOf[v]}
  /\ SetStatus(v, st)
  /\ SetTestPhase(v, st, ph)
  /\ again' = (again \/ life[v] = "registered")
  /\ UNCHANGED rows

\* The ClientRegister case: SetUniqueID counts the object each time, then the
\* status and the phase are set.  An object whose passport is refused stays counted.
Register(v, st, ph) ==
  /\ life[v] # "unused"
  /\ vupCnt[AgentOf[v]] < MaxCount
  /\ life' = [life EXCEPT ![v] = "registered"]
  /\ vupCnt' = [vupCnt EXCEPT ![AgentOf[v]] = @ + 1]
  /\ counted' = counted \cup {AgentOf[v]}
  /\ SetStatus(v, st)
  /\ SetTestPhase(v, st, ph)
  /\ again' = (again \/ life[v] = "registered")
  /\ UNCHANGED rows

\* The ReportClientStatus case: updatevup -rs and updatevup -tp.
Report(v, st, ph) ==
  /\ life[v] = "registered"
  /\ SetStatus(v, st)
  /\ SetTestPhase(v, st, ph)
  /\ UNCHANGED <<life, counted, vupCnt, rows, again>>

\* The entry of a host without clients is erased, and AgentLeave takes the host
\* off the list and out of the watched values.
LastOneLeaves(a) == counted' = counted \ {a} /\ rows' = rows \ {a}

\* The count of the host becomes zero.
IsLast(a) == vupCnt[a] = 1

\* The destructor of a registered VMVup.
DeleteVup(v) ==
  LET a == AgentOf[v]
  IN /\ life[v] = "registered"
     /\ life' = [life EXCEPT ![v] = "unused"]
     /\ status' = [status EXCEPT ![v] = 0]
     /\ phase' = [phase EXCEPT ![v] = 0]
     /\ vupCnt' = [vupCnt EXCEPT ![a] = @ - 1]
     /\ IF IsLast(a)
        THEN /\ LastOneLeaves(a)
             /\ statusCnt' = [statusCnt EXCEPT ![a] = NoStatus]
             /\ phaseCnt' = [phaseCnt EXCEPT ![a] = NoPhase]
        ELSE /\ statusCnt' = [statusCnt EXCEPT ![a] = Moved(@, status[v], 0)]
             /\ phaseCnt' = [phaseCnt EXCEPT ![a] = Moved(@, phase[v], 0)]
             /\ UNCHANGED <<counted, rows>>
     /\ UNCHANGED again

\* UpdateToWatch and onUpdateAgent add what the map holds and remove nothing.
Draw ==
  /\ rows' = rows \cup counted
  /\ UNCHANGED <<life, status, phase, counted, vupCnt, statusCnt, phaseCnt, again>>

SummaryNext ==
  \/ \E v \in Vups :
       \/ Connect(v) \/ DeleteVup(v)
       \/ \E st \in Statuses, ph \in Phases : Register(v, st, ph) \/ Report(v, st, ph)
  \/ Draw

SummarySpec == SummaryInit /\ [][SummaryNext]_summaryVars

-----------------------------------------------------------------------------
Registered(a) == {v \in Vups : life[v] = "registered" /\ AgentOf[v] = a}
InStatus(a, s) == {v \in Registered(a) : status[v] = s}
InPhase(a, p) == {v \in Registered(a) : phase[v] = p}

\* However often clients register, a host's counts per status and per phase are
\* those of its registered objects, although they are only ever updated by
\* differences and dropped as a whole when the host's entry is erased; a host with
\* a registered client is counted, and one on the list has an entry to draw.
CountsExact ==
  /\ SummaryTypeOK
  /\ rows \subseteq counted
  /\ \A a \in Agents :
    /\ Registered(a) # {} => a \in counted
    /\ \A s \in Statuses \ {0} : statusCnt[a][s] = Cardinality(InStatus(a, s))
    /\ \A p \in Phases \ {0} : phaseCnt[a][p] = Cardinality(InPhase(a, p))

\* As long as each client registers once, a host has an entry exactly while it has
\* registered clients, and the entry has their number.
HostsExact ==
  ~again => \A a \in Agents :
    /\ vupCnt[a] = Cardinality(Registered(a))
    /\ a \in counted <=> Registered(a) # {}
=============================================================================
