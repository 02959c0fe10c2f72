------------------------------- MODULE Reaper -------------------------------
(***************************************************************************)
(* reapOne (cmd/daybox/reap.go) for one profile: the reaper's tick, run    *)
(* every five minutes.  A tick either ends at rest or leaves the process   *)
(* at "capped", "idled" or "zombie", from where module Down takes over.    *)
(***************************************************************************)
EXTENDS Down

\* Mutant: the lifetime cap is not looked at.
TickProbeNoCap ==
    /\ pc[Reaper] = "idle" /\ NoFault
    /\ IF server = None THEN ResetIdle /\ UNCHANGED <<pc, seen>>
                        ELSE Enter(Reaper, "busy", server) /\ UNCHANGED clocks
    /\ UNCHANGED <<cloud, inside, nodes, proof>>

\* Probe and the lifetime cap, which comes before every busy signal.  An age
\* that cannot be read (or MAX_LIFETIME_HOURS = 0) skips the cap.
TickProbe ==
    /\ pc[Reaper] = "idle"
    /\ \/ Fault("read") /\ UNCHANGED <<pc, seen, clocks>>
       \/ NoFault /\ server = None /\ ResetIdle /\ UNCHANGED <<pc, seen>>
       \/ /\ NoFault /\ server # None /\ age = "over"
          /\ Enter(Reaper, "capped", server) /\ UNCHANGED clocks
       \/ /\ NoFault /\ server # None /\ age # "over"
          /\ Enter(Reaper, "busy", server) /\ UNCHANGED clocks
    /\ UNCHANGED <<cloud, inside, nodes, proof>>

\* keep-probe runs over ssh and is part of the agent the net join installs.
ProbeAnswers == Answers(Reaper) /\ agent # "absent"

\* After a tick: act on the count, or rest.
Decide(count, need, verdict) ==
    IF count >= need THEN Goto(Reaper, verdict) /\ UNCHANGED seen
                     ELSE Return(Reaper)

\* Mutant: an unreachable tick starts the idle count over.
TickUnreachableClearsIdle ==
    /\ unreach' = Bump(unreach) /\ idle' = 0
    /\ deafTicks' = (IF seen[Reaper] = server THEN Bump(deafTicks) ELSE deafTicks)
    /\ UNCHANGED quietTicks
    /\ Decide(unreach', Need(UnreachMin), "zombie")

\* An unreachable tick counts toward the zombie reap.  The idle count stays.
TickUnreachable ==
    /\ unreach' = Bump(unreach) /\ UNCHANGED idle
    /\ deafTicks' = (IF seen[Reaper] = server THEN Bump(deafTicks) ELSE deafTicks)
    /\ UNCHANGED quietTicks
    /\ Decide(unreach', Need(UnreachMin), "zombie")

\* Mutant: a busy tick leaves the idle count as it was.
TickBusyKeepsIdle ==
    /\ unreach' = 0 /\ UNCHANGED idle
    /\ quietTicks' = 0 /\ deafTicks' = 0
    /\ Return(Reaper)

\* A busy tick (connections, a fresh file or load) clears both counts.
TickBusy ==
    /\ ResetIdle /\ quietTicks' = 0 /\ deafTicks' = 0
    /\ Return(Reaper)

\* A quiet tick counts toward the idle reap.
TickQuiet ==
    /\ idle' = Bump(idle) /\ unreach' = 0
    /\ quietTicks' = Bump(quietTicks) /\ deafTicks' = 0
    /\ Decide(idle', Need(IdleMin), "idled")

\* busyProbe and what follows from it.
TickJudge ==
    /\ pc[Reaper] = "busy"
    /\ \/ NoFault /\ ~ProbeAnswers /\ TickUnreachable
       \/ Fault("ssh") /\ ProbeAnswers /\ TickUnreachable
       \/ NoFault /\ ProbeAnswers /\ work = "busy" /\ TickBusy
       \/ NoFault /\ ProbeAnswers /\ work = "quiet" /\ TickQuiet
    /\ UNCHANGED <<cloud, inside, nodes>>

ReapStep == TickProbe \/ TickJudge \/ DownStep(Reaper)

=============================================================================
