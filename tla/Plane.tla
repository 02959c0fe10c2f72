------------------------------- MODULE Plane -------------------------------
(***************************************************************************)
(* The state one profile's box lives in, as the control plane sees it: the *)
(* provider's server and volume, the headscale nodes that carry the box's  *)
(* name, the reaper's two tick files, and the position of every process    *)
(* that works on them.  The modules Down, Summon and Reaper add the steps  *)
(* of the three verbs; Lifecycle composes them.                            *)
(*                                                                         *)
(* Grain: a step is one blocking call (provider API, ssh, headscale) with  *)
(* the plane-local code that follows it up to the next one.  Other         *)
(* processes run between two steps, never inside one; the faults "lost"    *)
(* and "crash" cut a step short.  Nothing in the code locks, so any two    *)
(* invocations interleave.                                                 *)
(***************************************************************************)
EXTENDS Integers, FiniteSets

CONSTANTS
    Ups,         \* the concurrent invocations of `daybox up`
    Downs,       \* the concurrent invocations of `daybox down`
    Reaper,      \* the systemd oneshot: never two at once
    MaxBoxes,    \* bound: how many servers are ever created (then: quota)
    IdleMin,     \* REAP_AFTER_IDLE_MIN
    UnreachMin,  \* REAP_AFTER_UNREACHABLE_MIN
    BirthAges,   \* what a new box's age can read as: "under", "unknown"
    CounterCap,  \* bound: the tick counts above it are not told apart
    FaultKinds,  \* which faults may happen
    MaxFaults    \* bound: how many of them

\* The kinds of fault: a provider GET fails ("read"); a provider call is
\* refused ("write"), or took effect but its answer was lost ("lost"); ssh to
\* the box ("ssh") or headscale ("net") fails; a dead box's node is still
\* reported online ("ghost"); a process is killed ("crash"); the server goes
\* away behind the plane's back ("vanish").
Kinds == {"read", "write", "lost", "ssh", "net", "ghost", "crash", "vanish"}

\* TICK_MIN / 5, and at least one tick (reap.go, both thresholds).
Need(minutes) == IF minutes \div 5 < 1 THEN 1 ELSE minutes \div 5

ASSUME PlaneAssumption ==
    /\ MaxBoxes \in Nat \ {0}
    /\ MaxFaults \in Nat
    /\ IdleMin \in Int /\ UnreachMin \in Int
    /\ CounterCap \in Nat
    /\ CounterCap >= Need(IdleMin) /\ CounterCap >= Need(UnreachMin)
    /\ BirthAges \subseteq {"under", "unknown"} /\ BirthAges # {}
    /\ FaultKinds \subseteq Kinds
    /\ Reaper \notin Ups \cup Downs
    /\ Ups \cap Downs = {}

VARIABLES
    server,     \* the box holding the profile's server name, or None
    made,       \* how many servers were created; ids are 1..made
    volAt,      \* the server the volume is attached to, or None
    volOp,      \* what the provider is doing to the volume (VolOps)
    seed,       \* firstboot's verdict on the server
    agent,      \* daybox-agent on the server: absent, keyed, joined
    age,        \* what the lifetime cap reads: under, over, unknown
    work,       \* what the box is doing: quiet, busy, hung
    nodes,      \* the boxes with a headscale node under the server name
    idle,       \* the idle_ticks file
    unreach,    \* the unreach_ticks file
    pc,         \* where each process is
    seen,       \* the server each process found with Probe or created
    faults,     \* faults still to come
    quietTicks, \* observation: quiet ticks on this very server ...
    deafTicks   \* ... and unreachable ones, since the last contrary tick

cloud == <<server, made, volAt, volOp>>
inside == <<seed, agent, age, work>>
clocks == <<idle, unreach>>
proof == <<quietTicks, deafTicks>>
vars == <<cloud, inside, nodes, clocks, pc, seen, faults, proof>>

None == 0
Ids == 1..MaxBoxes
Downers == Downs \cup {Reaper}
Procs == Ups \cup Downers

\* A detach in flight; two of them colliding; the lock that leaves behind.
VolOps == {"none", "detaching", "colliding", "locked"}

UpPc == {"idle", "verdict", "online", "fresh", "free", "create", "boot",
         "purge", "install", "poll", "ready", "failed", "unjoined"}
DownPc == {"idle", "attached", "detach", "settle", "delete", "forced", "drop"}
ReapPc == {"busy", "capped", "idled", "zombie"}

TypeOK ==
    /\ server \in 0..made /\ made \in 0..MaxBoxes
    /\ volAt \in 0..made /\ volOp \in VolOps
    /\ seed \in {"pending", "ok", "failed"}
    /\ agent \in {"absent", "keyed", "joined"}
    /\ age \in {"under", "over", "unknown"}
    /\ work \in {"quiet", "busy", "hung"}
    /\ nodes \subseteq 1..made
    /\ idle \in 0..CounterCap /\ unreach \in 0..CounterCap
    /\ pc \in [Procs -> UpPc \cup DownPc \cup ReapPc]
    /\ seen \in [Procs -> 0..made]
    /\ faults \in 0..MaxFaults
    /\ quietTicks \in 0..CounterCap /\ deafTicks \in 0..CounterCap

Init ==
    /\ server = None /\ made = 0
    /\ volAt = None /\ volOp = "none"
    /\ seed = "pending" /\ agent = "absent" /\ work = "quiet"
    /\ age = "unknown"
    /\ nodes = {}
    /\ idle = 0 /\ unreach = 0
    /\ pc = [p \in Procs |-> "idle"]
    /\ seen = [p \in Procs |-> None]
    /\ faults = MaxFaults
    /\ quietTicks = 0 /\ deafTicks = 0

----------------------------------------------------------------------------
\* What the steps are made of.

Fault(kind) == kind \in FaultKinds /\ faults > 0 /\ faults' = faults - 1
NoFault == faults' = faults

Goto(p, label) == pc' = [pc EXCEPT ![p] = label]
Enter(p, label, b) == Goto(p, label) /\ seen' = [seen EXCEPT ![p] = b]

\* Mutant: resetIdle forgets the unreach_ticks file.
ResetIdleOnly == idle' = 0 /\ UNCHANGED unreach

\* resetIdle: both tick files to 0.
ResetIdle == idle' = 0 /\ unreach' = 0

\* Mutant: a count that leaves the range the thresholds read.
BumpUncapped(n) == n + 1

\* A tick more, as far as the thresholds can tell.
Bump(n) == IF n < CounterCap THEN n + 1 ELSE n

\* ssh to the box process p knows gets an answer.
Answers(p) == seen[p] = server /\ server # None /\ work # "hung"

\* onlineNodeAddr: headscale lists a node under the name as online.  A dead
\* box's node counts only while headscale has not noticed.
Online == server \in nodes
GhostOnline == nodes \ {server} # {}

----------------------------------------------------------------------------
\* The provider's side of the calls (external).

\* POST /volumes/<id>/actions/detach is accepted for an attached volume that
\* no other action holds; the detach then runs in the background.
CanDetach == volAt # None /\ volOp = "none"

\* DELETE /servers/<b>: the provider detaches a volume that is still on it,
\* on top of a detach already in flight if there is one (down.go:80-82).
DeleteServer(b) ==
    /\ server' = None
    /\ volOp' = CASE volAt = b /\ volOp = "none" -> "detaching"
                  [] volAt = b /\ volOp = "detaching" -> "colliding"
                  [] OTHER -> volOp
    /\ UNCHANGED <<made, volAt>>

\* POST /servers succeeds only when the name and the volume are free.
CanCreate ==
    server = None /\ volAt = None /\ volOp = "none" /\ made < MaxBoxes

CreateServer ==
    /\ server' = made + 1 /\ made' = made + 1 /\ volAt' = made + 1
    /\ seed' = "pending" /\ agent' = "absent" /\ work' = "quiet"
    /\ age' \in BirthAges
    /\ quietTicks' = 0 /\ deafTicks' = 0
    /\ UNCHANGED volOp

----------------------------------------------------------------------------
\* What happens on its own: the provider, the box, headscale.

\* Colliding detaches end with the volume locked.
DetachCompletes ==
    /\ volOp \in {"detaching", "colliding"}
    /\ volAt' = None
    /\ volOp' = (IF volOp = "colliding" THEN "locked" ELSE "none")
    /\ UNCHANGED <<server, made, inside, nodes, clocks, pc, seen, faults,
                   proof>>

Unlocks ==
    /\ volOp = "locked"
    /\ volOp' = "none"
    /\ UNCHANGED <<server, made, volAt, inside, nodes, clocks, pc, seen,
                   faults, proof>>

\* firstboot writes seed.status once; it mounts the volume first.
FirstbootEnds ==
    /\ server # None /\ seed = "pending"
    /\ seed' \in {"ok", "failed"}
    /\ seed' = "ok" => volAt = server
    /\ UNCHANGED <<cloud, agent, age, work, nodes, clocks, pc, seen, faults,
                   proof>>

Works ==
    /\ server # None
    /\ work' \in {"quiet", "busy", "hung"}
    /\ UNCHANGED <<cloud, seed, agent, age, nodes, clocks, pc, seen, faults,
                   proof>>

Ages ==
    /\ server # None /\ age = "under"
    /\ age' = "over"
    /\ UNCHANGED <<cloud, seed, agent, work, nodes, clocks, pc, seen, faults,
                   proof>>

\* The agent spends its single-use key and its node comes online.
Enrolls ==
    /\ server # None /\ agent = "keyed"
    /\ agent' = "joined" /\ nodes' = nodes \cup {server}
    /\ UNCHANGED <<cloud, seed, age, work, clocks, pc, seen, faults, proof>>

\* headscale drops the ephemeral node of a box that is gone.
NodeCollected ==
    /\ GhostOnline
    /\ nodes' = nodes \cap {server}
    /\ UNCHANGED <<cloud, inside, clocks, pc, seen, faults, proof>>

\* The server is deleted outside the plane (console, provider).
Vanishes ==
    /\ server # None /\ Fault("vanish")
    /\ DeleteServer(server)
    /\ UNCHANGED <<inside, nodes, clocks, pc, seen, proof>>

World ==
    \/ DetachCompletes
    \/ Unlocks
    \/ FirstbootEnds
    \/ Works
    \/ Ages
    \/ Enrolls
    \/ NodeCollected
    \/ Vanishes

\* A process is killed between two calls: Ctrl-C, a dropped ssh, a reboot, or
\* for the reaper the unit's TimeoutStartSec.  What it did stays done.
Killed(p) ==
    /\ pc[p] # "idle" /\ Fault("crash")
    /\ Enter(p, "idle", None)
    /\ UNCHANGED <<cloud, inside, nodes, clocks, proof>>

=============================================================================
