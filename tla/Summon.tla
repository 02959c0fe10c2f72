------------------------------- MODULE Summon -------------------------------
(***************************************************************************)
(* summonUp (cmd/daybox/summon.go, summon_impl.go): reconnect to the box   *)
(* that exists, or free the volume, create a box, wait for firstboot and   *)
(* enroll it.  "ready" is the success exit; "failed" and "unjoined" (a net *)
(* join that failed) are the error exits, and they leave the box running.  *)
(***************************************************************************)
EXTENDS Plane

\* summonUp: Probe, by name.
UpProbe(p) ==
    /\ pc[p] = "idle"
    /\ \/ Fault("read") /\ Enter(p, "failed", None)
       \/ NoFault /\ server # None /\ Enter(p, "verdict", server)
       \/ NoFault /\ server = None /\ Enter(p, "fresh", None)
    /\ UNCHANGED <<cloud, inside, nodes, clocks, proof>>

\* Mutant: a box that answers passes, whatever its verdict says.
VerdictIgnored(p) == Answers(p)

\* firstboot's verdict reads "ok" over ssh.
VerdictOk(p) == Answers(p) /\ seed = "ok"

\* reconnectBox: anything but a clean verdict leaves the box and its ticks be.
UpVerdict(p) ==
    /\ pc[p] = "verdict"
    /\ \/ NoFault /\ VerdictOk(p) /\ Goto(p, "online")
       \/ NoFault /\ ~VerdictOk(p) /\ Goto(p, "failed")
       \/ Fault("ssh") /\ Goto(p, "failed")
    /\ UNCHANGED <<cloud, inside, nodes, clocks, seen, proof>>

\* A box on the net is handed back; one that is not is enrolled again.
UpOnline(p) ==
    /\ pc[p] = "online"
    /\ \/ NoFault /\ Online /\ Goto(p, "ready") /\ ResetIdle
       \/ Fault("ghost") /\ GhostOnline /\ Goto(p, "ready") /\ ResetIdle
       \/ NoFault /\ ~Online /\ Goto(p, "purge") /\ UNCHANGED clocks
       \/ Fault("net") /\ Goto(p, "purge") /\ UNCHANGED clocks
    /\ UNCHANGED <<cloud, inside, nodes, seen, proof>>

\* summonFresh's local refusals: no seed, no volume id, a bad or oversized
\* render.
UpRefused(p) ==
    /\ pc[p] \in {"fresh", "create"}
    /\ Goto(p, "failed")
    /\ UNCHANGED <<cloud, inside, nodes, clocks, seen, faults, proof>>

\* attached, _ := VolumeAttachedTo(vid): an error reads as "free".
UpVolume(p) ==
    /\ pc[p] = "fresh"
    /\ \/ NoFault /\ volAt = None /\ Goto(p, "create")
       \/ Fault("read") /\ Goto(p, "create")
       \/ NoFault /\ volAt # None /\ Goto(p, "free")
    /\ UNCHANGED <<cloud, inside, nodes, clocks, seen, proof>>

\* VolumeDetach of a volume that is "stuck", then 3s of sleep and no poll.
UpFree(p) ==
    /\ pc[p] = "free"
    /\ \/ NoFault /\ CanDetach /\ volOp' = "detaching" /\ Goto(p, "create")
       \/ NoFault /\ ~CanDetach /\ Goto(p, "failed") /\ UNCHANGED volOp
       \/ Fault("write") /\ Goto(p, "failed") /\ UNCHANGED volOp
       \/ Fault("lost") /\ CanDetach /\ volOp' = "detaching" /\ Goto(p, "failed")
    /\ UNCHANGED <<server, made, volAt, inside, nodes, clocks, seen, proof>>

\* POST /servers with the volume.  When its answer, or the poll for "running",
\* fails the server exists and nobody waits for it.
UpCreate(p) ==
    /\ pc[p] = "create"
    /\ \/ NoFault /\ CanCreate /\ CreateServer /\ Enter(p, "boot", made + 1)
       \/ Fault("lost") /\ CanCreate /\ CreateServer /\ Enter(p, "failed", None)
       \/ /\ NoFault /\ ~CanCreate
          /\ Goto(p, "failed") /\ UNCHANGED <<cloud, inside, proof, seen>>
       \/ /\ Fault("write")
          /\ Goto(p, "failed") /\ UNCHANGED <<cloud, inside, proof, seen>>
    /\ UNCHANGED <<nodes, clocks>>

\* pinHostkey and waitReady: "ok", FAILED, or no verdict in time.
UpBoot(p) ==
    /\ pc[p] = "boot"
    /\ \/ NoFault /\ VerdictOk(p) /\ Goto(p, "purge")
       \/ NoFault /\ ~VerdictOk(p) /\ Goto(p, "failed")
       \/ Fault("ssh") /\ Goto(p, "failed")
    /\ UNCHANGED <<cloud, inside, nodes, clocks, seen, proof>>

\* Mutant: no purge before the box is enrolled.
UpNoPurge(p) ==
    /\ pc[p] = "purge" /\ NoFault
    /\ Goto(p, "install")
    /\ UNCHANGED <<cloud, inside, nodes, clocks, seen, proof>>

\* netJoinBox: the net user is looked up, which may fail; purgeStaleNodes
\* removes every node under the name, and may leave any it could not delete.
UpPurge(p) ==
    /\ pc[p] = "purge"
    /\ \/ NoFault /\ nodes' = {} /\ Goto(p, "install")
       \/ Fault("net") /\ nodes' \in SUBSET nodes /\ Goto(p, "install")
       \/ Fault("net") /\ UNCHANGED nodes /\ Goto(p, "unjoined")
    /\ UNCHANGED <<cloud, inside, clocks, seen, proof>>

\* The pre-auth key, the agent binary and its unit reach the box; an ssh that
\* fails half way may have started the agent all the same.
UpInstall(p) ==
    /\ pc[p] = "install"
    /\ \/ NoFault /\ Answers(p) /\ agent' = "keyed" /\ Goto(p, "poll")
       \/ NoFault /\ ~Answers(p) /\ UNCHANGED agent /\ Goto(p, "unjoined")
       \/ Fault("net") /\ UNCHANGED agent /\ Goto(p, "unjoined")
       \/ /\ Fault("ssh") /\ Answers(p)
          /\ agent' \in {agent, "keyed"} /\ Goto(p, "unjoined")
    /\ UNCHANGED <<cloud, seed, age, work, nodes, clocks, seen, proof>>

\* 30 looks 2s apart for a node online under the name; success ends `up`.
UpPoll(p) ==
    /\ pc[p] = "poll"
    /\ \/ NoFault /\ Online /\ Goto(p, "ready") /\ ResetIdle
       \/ Fault("ghost") /\ GhostOnline /\ Goto(p, "ready") /\ ResetIdle
       \/ NoFault /\ ~Online /\ Goto(p, "unjoined") /\ UNCHANGED clocks
       \/ Fault("net") /\ Goto(p, "unjoined") /\ UNCHANGED clocks
    /\ UNCHANGED <<cloud, inside, nodes, seen, proof>>

\* `up` exits; the user may run it again.
UpExit(p) ==
    /\ pc[p] \in {"ready", "failed", "unjoined"}
    /\ Enter(p, "idle", None)
    /\ UNCHANGED <<cloud, inside, nodes, clocks, faults, proof>>

UpStep(p) ==
    \/ UpProbe(p)
    \/ UpVerdict(p)
    \/ UpOnline(p)
    \/ UpRefused(p)
    \/ UpVolume(p)
    \/ UpFree(p)
    \/ UpCreate(p)
    \/ UpBoot(p)
    \/ UpPurge(p)
    \/ UpInstall(p)
    \/ UpPoll(p)
    \/ UpExit(p)

=============================================================================
