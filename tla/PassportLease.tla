--------------------------- MODULE PassportLease ---------------------------
(***************************************************************************)
(* What the VUP manager promises about passports: at most one client holds *)
(* a passport, a request for it is granted exactly when it is free, and a  *)
(* client whose connection is up loses it in two ways only: the operator   *)
(* takes it back, or another client that asked for the same passport and   *)
(* was refused departs.  Either way the connection of the holder ends in   *)
(* the same step, so that nobody stays connected without the passport.     *)
(* The operator acts between two frames, in which what the clients sent is *)
(* dealt with: a holder that is lost while a frame is on was lost to       *)
(* clients.                                                                *)
(***************************************************************************)
CONSTANTS
  Clients, Passports, PassportOf, NoClient,
  Silent,       \* clients without a connection: nothing is ever sent to them
  Withdrawable  \* passports the operator may take back

VARIABLES
  holder,  \* who holds each passport
  gone,    \* clients whose connection has ended, or that never had one
  reply,   \* the last answer each client was sent
  turn     \* whose turn it is

vars == <<holder, gone, reply, turn>>

TypeOK ==
  /\ holder \in [Passports -> Clients \cup {NoClient}]
  /\ gone \subseteq Clients
  /\ reply \in [Clients -> {"none", "ok", "rejected"}]
  /\ turn \in {"operator", "clients"}

Init ==
  /\ holder = [p \in Passports |-> NoClient]
  /\ gone = Silent
  /\ reply = [c \in Clients |-> "none"]
  /\ turn = "operator"

Frame ==
  /\ turn' = IF turn = "operator" THEN "clients" ELSE "operator"
  /\ UNCHANGED <<holder, gone, reply>>

Take(c) ==
  /\ holder[PassportOf[c]] = NoClient
  /\ holder' = [holder EXCEPT ![PassportOf[c]] = c]
  /\ UNCHANGED <<gone, turn>>

Grant(c) == turn = "clients" /\ Take(c) /\ reply' = [reply EXCEPT ![c] = "ok"]
Assign(c) == turn = "operator" /\ Take(c) /\ UNCHANGED reply

Refuse(c) ==
  /\ turn = "clients"
  /\ holder[PassportOf[c]] # NoClient
  /\ reply' = [reply EXCEPT ![c] = "rejected"]
  /\ UNCHANGED <<holder, gone, turn>>

Leave(c) ==
  /\ gone' = gone \cup {c}
  /\ UNCHANGED <<holder, reply, turn>>

\* The passport becomes free and its holder, if it was still there, is cut off.
Free(p) ==
  /\ holder[p] # NoClient
  /\ holder' = [holder EXCEPT ![p] = NoClient]
  /\ gone' = gone \cup {holder[p]}
  /\ UNCHANGED <<reply, turn>>

Release(p) == turn = "clients" /\ holder[p] \in gone /\ Free(p)

\* c, which was refused the passport, departs and takes the holder with it.
Evict(p, c) ==
  /\ turn = "clients"
  /\ c \in gone /\ PassportOf[c] = p /\ reply[c] = "rejected"
  /\ Free(p)

Withdraw(p) == turn = "operator" /\ p \in Withdrawable /\ Free(p)

Next ==
  \/ Frame
  \/ \E c \in Clients : Grant(c) \/ Assign(c) \/ Refuse(c) \/ Leave(c)
  \/ \E p \in Passports : Release(p) \/ Withdraw(p) \/ \E c \in Clients : Evict(p, c)

Spec == Init /\ [][Next]_vars
=============================================================================
