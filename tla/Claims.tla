------------------------------- MODULE Claims -------------------------------
(***************************************************************************)
(* What documents and comments of the repository promise of a box's life,  *)
(* stated of Lifecycle.  Each is refuted by a run of its own: the code, as *)
(* modelled, does not keep it (README, "Findings").                        *)
(***************************************************************************)
EXTENDS Lifecycle

AtRest == \A p \in Downers : pc[p] = "idle"

\* "A failed join is fatal - the summon tears the box down rather than leave
\* a box that isn't on the net" (README.md, The net).
FailedJoinTearsDown ==
    \A p \in Ups : pc[p] = "unjoined" /\ seen[p] # None => server # seen[p]

\* "then WAIT for the detach to finish before deleting the server (deleting
\* while a detach is in flight wedges the volume locked)" (down.go:31-33).
\* The 120s limit is the code's own, announced exception ("forced").
DeleteNeverMeetsDetach ==
    \A p \in Downers :
        pc[p] = "delete" /\ seen[p] = server /\ server # None
            => ~(volOp = "detaching" /\ volAt = server)

\* "it has been unreachable for 1h (a zombie that still bills)" (reap.go:15):
\* the box the reaper takes for a zombie has itself been unreachable for that
\* many ticks (one may belong to a box replaced during the tick).
ZombieIsThisBox ==
    pc[Reaper] = "zombie" /\ seen[Reaper] = server /\ server # None
        => deafTicks + 1 >= Need(UnreachMin)

\* "handing back a box that is missing what its profile declared, while
\* reporting success, is the exact failure this design exists to prevent"
\* (summon_impl.go:19-21): with no teardown under way, a box handed back has
\* its workspace volume.
ReadyHasWorkspace ==
    AtRest => \A p \in Ups :
        pc[p] = "ready" /\ seen[p] = server /\ server # None => volAt = server

\* "a volume can only attach to one server; free it if it's stuck"
\* (summon.go:133): what `up` frees is never the volume of the live box.
FreesOnlyStuckVolume ==
    \A p \in Ups : pc[p] = "free" => server = None \/ volAt # server

=============================================================================
