-------------------------------- MODULE Down --------------------------------
(***************************************************************************)
(* downBox (cmd/daybox/down.go): detach the volume, wait for the detach,   *)
(* delete the server, reset the tick files, drop the net node.  `daybox    *)
(* down` and the reaper both run it.                                       *)
(***************************************************************************)
EXTENDS Plane

\* Where downBox is entered: a user's `down` from rest, the reaper once it
\* has decided.
Entering(p) ==
    \/ p \in Downs /\ pc[p] = "idle"
    \/ p = Reaper /\ pc[p] \in {"capped", "idled", "zombie"}

\* downBox returns.
Return(p) == Enter(p, "idle", None)

\* CheckCredentials and Probe, by name: the box the reaper judged may no
\* longer be the one found here.
DownBegin(p) ==
    /\ Entering(p)
    /\ \/ Fault("read") /\ Return(p) /\ UNCHANGED clocks
       \/ NoFault /\ server = None /\ Return(p) /\ ResetIdle
       \/ /\ NoFault /\ server # None
          /\ Enter(p, "attached", server) /\ UNCHANGED clocks
    /\ UNCHANGED <<cloud, inside, nodes, proof>>

\* attached, _ := VolumeAttachedTo(vid): an error reads as "not attached".
DownAttached(p) ==
    /\ pc[p] = "attached"
    /\ \/ Fault("read") /\ Goto(p, "delete")
       \/ NoFault /\ volAt = seen[p] /\ Goto(p, "detach")
       \/ NoFault /\ volAt # seen[p] /\ Goto(p, "delete")
    /\ UNCHANGED <<cloud, inside, nodes, clocks, seen, proof>>

\* The unmount, whose failure is only a warning, and VolumeDetach.
DownDetach(p) ==
    /\ pc[p] = "detach"
    /\ \/ Fault("write") /\ Return(p) /\ UNCHANGED volOp
       \/ NoFault /\ ~CanDetach /\ Return(p) /\ UNCHANGED volOp
       \/ /\ NoFault /\ CanDetach
          /\ volOp' = "detaching" /\ Goto(p, "settle") /\ UNCHANGED seen
       \/ Fault("lost") /\ CanDetach /\ volOp' = "detaching" /\ Return(p)
    /\ UNCHANGED <<server, made, volAt, inside, nodes, clocks, proof>>

\* Mutant: no poll; the delete follows the accepted detach at once.
DownSettleNoWait(p) ==
    /\ pc[p] = "settle" /\ NoFault
    /\ Goto(p, "delete")
    /\ UNCHANGED <<cloud, inside, nodes, clocks, seen, proof>>

\* The poll: 60 looks 2s apart, an error reads as "detached"; when all 60
\* found it attached the server is deleted anyway.
DownSettle(p) ==
    /\ pc[p] = "settle"
    /\ \/ NoFault /\ volAt = None /\ Goto(p, "delete")
       \/ Fault("read") /\ Goto(p, "delete")
       \/ NoFault /\ volAt # None /\ Goto(p, "forced")
    /\ UNCHANGED <<cloud, inside, nodes, clocks, seen, proof>>

\* Mutant: the delete takes the name, whichever box has it by now.
DownDeleteByName(p) ==
    /\ pc[p] \in {"delete", "forced"} /\ NoFault
    /\ server # None
    /\ DeleteServer(server) /\ ResetIdle
    /\ Goto(p, "drop")
    /\ UNCHANGED <<seen, inside, nodes, proof>>

\* Reap(s.ID) and resetIdle.  A server already gone is an error of the API;
\* an answer lost after the fact skips resetIdle like any error.
DownDelete(p) ==
    /\ pc[p] \in {"delete", "forced"}
    /\ \/ /\ NoFault /\ server = seen[p]
          /\ DeleteServer(server) /\ ResetIdle
          /\ Goto(p, "drop") /\ UNCHANGED seen
       \/ /\ NoFault /\ server # seen[p]
          /\ Return(p) /\ UNCHANGED <<cloud, clocks>>
       \/ Fault("write") /\ Return(p) /\ UNCHANGED <<cloud, clocks>>
       \/ /\ Fault("lost") /\ server = seen[p]
          /\ DeleteServer(server) /\ Return(p) /\ UNCHANGED clocks
    /\ UNCHANGED <<inside, nodes, proof>>

\* dropNetNode: every node under the name, whoever's it is; failures warn,
\* and leave any of them.
DownDrop(p) ==
    /\ pc[p] = "drop"
    /\ \/ NoFault /\ nodes' = {}
       \/ Fault("net") /\ nodes' \in SUBSET nodes
    /\ Return(p)
    /\ UNCHANGED <<cloud, inside, clocks, proof>>

DownStep(p) ==
    \/ DownBegin(p)
    \/ DownAttached(p)
    \/ DownDetach(p)
    \/ DownSettle(p)
    \/ DownDelete(p)
    \/ DownDrop(p)

=============================================================================
