----------------------------- MODULE Lifecycle -----------------------------
(***************************************************************************)
(* One profile's box: any number of `up` and `down` invocations, the       *)
(* reaper, the provider and the net, interleaved.                          *)
(***************************************************************************)
EXTENDS Summon, Reaper

Next ==
    \/ \E p \in Ups : UpStep(p)
    \/ \E p \in Downs : DownStep(p)
    \/ ReapStep
    \/ \E p \in Procs : Killed(p)
    \/ World

Spec == Init /\ [][Next]_vars

\* The timer keeps firing and a run is bounded, so the reaper keeps stepping;
\* the provider finishes the detaches it accepted.  Nothing is assumed of
\* users, boxes or headscale.
Fairness == WF_vars(ReapStep) /\ WF_vars(DetachCompletes)
FairSpec == Spec /\ Fairness

----------------------------------------------------------------------------
\* Safety.

\* A downBox that is about to delete its box, other than after a full 120s of
\* waiting, deletes a box the volume is no longer on: no detach is in flight
\* under the delete (the wedge of 2026-07-21, down.go:30-33), whoever else is
\* tearing the same box down or bringing one up.
DeleteAfterDetach ==
    \A p \in Downers :
        pc[p] = "delete" /\ seen[p] = server /\ server # None => volAt # server

\* The tick files never say more against the box that is there than ticks on
\* this very box have shown, but for one unreachable tick that was under way
\* when the box was replaced: resetIdle keeps one box's ticks from the next.
CountersBacked ==
    server # None => idle <= quietTicks /\ unreach <= deafTicks + 1

\* When the reaper decides against the box that is there, that box itself has
\* been over the cap, quiet for every tick REAP_AFTER_IDLE_MIN asks for since
\* it was last busy, or unreachable for all but one of the ticks
\* REAP_AFTER_UNREACHABLE_MIN asks for (reap.go:13-19).
ReapEarned ==
    (server # None /\ seen[Reaper] = server) =>
        /\ pc[Reaper] = "capped" => age = "over"
        /\ pc[Reaper] = "idled" => quietTicks >= Need(IdleMin)
        /\ pc[Reaper] = "zombie" => deafTicks + 1 >= Need(UnreachMin)

\* `up` reports success only for a box whose firstboot said "ok"
\* (summon.go:88-97, waitReady), by either path and however often it is run.
ReadyIsSeeded ==
    \A p \in Ups :
        pc[p] = "ready" /\ seen[p] = server /\ server # None => seed = "ok"

\* A fresh `up` succeeds on its own box's node, also while headscale still
\* reports a dead box of the same name online: the purge comes first
\* (summon_impl.go:103-106).
JoinsByOwnNode ==
    \A p \in Ups :
        pc[p] = "poll" /\ pc'[p] = "ready" /\ seen[p] = server
            => server \in nodes
ReadyIsOwnNode == [][JoinsByOwnNode]_vars

----------------------------------------------------------------------------
\* The abstract box.

\* What an `up` knows to be provisioned, from the verdict to its exit.
Vouched(p) == IF pc[p] \in {"online", "purge", "install", "poll", "ready"}
              THEN seen[p] ELSE None

\* What a downBox found with its Probe, until it deleted it or gave up.
Ordered(p) == IF pc[p] \in {"attached", "detach", "settle", "delete", "forced"}
              THEN seen[p] ELSE None

Abstract == INSTANCE Box WITH
    Users <- Ups, Removers <- Downers, Wild <- "vanish" \in FaultKinds,
    box <- server, made <- made, verdict <- seed,
    vouched <- [p \in Ups |-> Vouched(p)],
    ordered <- [p \in Downers |-> Ordered(p)]

\* `up`, `down` and the reaper, interleaved and failing as they do, are a Box:
\* they keep one box at a time (a lost answer never leads to a second one),
\* hand back only what was provisioned, whatever happens between the verdict
\* and the exit, and delete no box that the downBox deleting it did not
\* itself find (Reap takes the server's id, down.go:94).
ImplementsBox == Abstract!Spec

----------------------------------------------------------------------------
\* Liveness.

\* A box past MAX_LIFETIME_HOURS is deleted whatever it does: always busy,
\* hung, or reconnected to again and again (reap.go:81-85).
CappedBoxReaped ==
    \A b \in Ids : (server = b /\ age = "over") ~> (server # b)

\* No box bills forever that is never busy and never handed back by `up`:
\* quiet, hung, flapping between the two, never provisioned, or detached by a
\* teardown that died half way.  Retrying `up` on a box that does not answer
\* does not keep it alive.
NoBoxBillsForever ==
    []<>(\/ server = None
         \/ work = "busy"
         \/ \E p \in Ups : pc[p] = "ready")

=============================================================================
