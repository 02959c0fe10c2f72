-------------------------------- MODULE Box --------------------------------
(***************************************************************************)
(* What daybox promises of a profile's box, without the calls, files and   *)
(* ticks it takes: there is one box at a time, nobody is handed a box that *)
(* was not provisioned, and a box goes away only when somebody who looked  *)
(* at that very box asked for it.  Lifecycle implements it.                *)
(***************************************************************************)
EXTENDS Naturals

CONSTANTS
    Users,     \* who asks for a box
    Removers,  \* who asks for its removal: users and the reaper
    Wild       \* whether boxes may also go away behind the plane's back

VARIABLES
    box,      \* the box that bills, or 0
    made,     \* how many boxes there have been
    verdict,  \* firstboot's on the box
    vouched,  \* the box each user has been told is provisioned, or 0
    ordered   \* the box each remover found and is taking down, or 0

vars == <<box, made, verdict, vouched, ordered>>

Init ==
    /\ box = 0 /\ made = 0 /\ verdict = "pending"
    /\ vouched = [u \in Users |-> 0]
    /\ ordered = [r \in Removers |-> 0]

Create ==
    /\ box = 0
    /\ box' = made + 1 /\ made' = made + 1 /\ verdict' = "pending"
    /\ UNCHANGED <<vouched, ordered>>

Settle ==
    /\ box # 0 /\ verdict = "pending"
    /\ verdict' \in {"ok", "failed"}
    /\ UNCHANGED <<box, made, vouched, ordered>>

Vouch(u) ==
    /\ box # 0 /\ verdict = "ok"
    /\ vouched' = [vouched EXCEPT ![u] = box]
    /\ UNCHANGED <<box, made, verdict, ordered>>

\* The user has the box, or gives up.
Leave(u) ==
    /\ vouched' = [vouched EXCEPT ![u] = 0]
    /\ UNCHANGED <<box, made, verdict, ordered>>

Order(r) ==
    /\ box # 0
    /\ ordered' = [ordered EXCEPT ![r] = box]
    /\ UNCHANGED <<box, made, verdict, vouched>>

\* The remover gives up, or dies.
Withdraw(r) ==
    /\ ordered' = [ordered EXCEPT ![r] = 0]
    /\ UNCHANGED <<box, made, verdict, vouched>>

\* The box a remover asked for goes, and no other.
Remove(r) ==
    /\ box # 0 /\ ordered[r] = box
    /\ box' = 0 /\ ordered' = [ordered EXCEPT ![r] = 0]
    /\ UNCHANGED <<made, verdict, vouched>>

Vanish ==
    /\ Wild /\ box # 0
    /\ box' = 0
    /\ UNCHANGED <<made, verdict, vouched, ordered>>

Next ==
    \/ Create \/ Settle \/ Vanish
    \/ \E u \in Users : Vouch(u) \/ Leave(u)
    \/ \E r \in Removers : Order(r) \/ Withdraw(r) \/ Remove(r)

Spec == Init /\ [][Next]_vars

=============================================================================
