------------------------------ MODULE Registry ------------------------------
(***************************************************************************)
(* The profiles on the control plane (cmd/daybox/profile.go,               *)
(* profileplane.go): what exists on disk and at the provider under each    *)
(* profile's name, and the verbs that add, rename and remove it, beside    *)
(* `up`, `down` and the reaper's loop over the fleet (reapRun).            *)
(*                                                                         *)
(* Grain: a step is one provider call with the local checks before it or   *)
(* one group of file operations.  `up` and `down` are a step or two here;  *)
(* Lifecycle has their detail, of one profile.                             *)
(***************************************************************************)
EXTENDS Integers, FiniteSets

CONSTANTS
    Admins,      \* processes that run verbs, each one verb at a time
    Names,       \* profile names
    Default,     \* the profile "default"
    NoName,      \* no profile
    MaxVols,     \* bound: how many volumes are ever created (then: quota)
    FaultKinds,  \* which faults may happen, each of them once
    MaxFaults    \* bound: how many of them

\* A provider GET fails ("read"); a provider call is refused ("write") or its
\* answer is lost after it took effect ("lost"); a verb is killed ("crash");
\* the reaper comes to a profile that went after it was listed ("stale").
Kinds == {"read", "write", "lost", "crash", "stale"}

ASSUME RegistryAssumption ==
    /\ Default \in Names /\ NoName \notin Names
    /\ MaxVols \in Nat /\ MaxFaults \in Nat
    /\ FaultKinds \subseteq Kinds

VARIABLES
    config,   \* the profiles with a file <conf>/profiles/<name>/config
    seed,     \* <conf>/profiles/<name>/profile.toml: none, default, edited
    state,    \* the profiles with a directory <state>/profiles/<name>
    vid,      \* the volume id cached there, or None
    current,  \* the current_profile file
    volName,  \* the profile a volume is named for; NoName: no such volume
    made,     \* how many volumes were created; ids are 1..made
    box,      \* the profiles under whose server name a box runs
    att,      \* the profile whose box a volume is attached to
    todo,     \* the profiles the reaper listed and has yet to visit
    pc, arg, dst, vol,  \* per process: position, profile, new name, volume
    faulted,  \* the faults that happened
    blind     \* observation: the profiles a rename or rm set out to take away
              \* after a failed Probe, or while an `up` of them was under way

conf == <<config, seed>>
disk == <<conf, state, vid, current>>
volumes == <<volName, made>>
cloud == <<volumes, box, att>>
procs == <<pc, arg, dst, vol, blind>>
vars == <<disk, cloud, todo, procs, faulted>>

None == 0
Ids == 1..MaxVols
Pc == {"idle", "keys", "ensure", "renvol", "move", "moveconf",
       "down", "downpurge", "purge", "rmstate", "rmconf", "summon"}

TypeOK ==
    /\ config \subseteq Names /\ state \subseteq Names
    /\ seed \in [Names -> {"none", "default", "edited"}]
    /\ vid \in [Names -> 0..made]
    /\ current \in Names \cup {NoName}
    /\ volName \in [Ids -> Names \cup {NoName}] /\ made \in 0..MaxVols
    /\ box \subseteq Names
    /\ att \in [Ids -> Names \cup {NoName}]
    /\ todo \subseteq Names
    /\ pc \in [Admins -> Pc]
    /\ arg \in [Admins -> Names \cup {NoName}]
    /\ dst \in [Admins -> Names \cup {NoName}]
    /\ vol \in [Admins -> 0..made]
    /\ faulted \in SUBSET FaultKinds /\ blind \subseteq Names

\* A plane before `setup`.
Init ==
    /\ config = {} /\ seed = [n \in Names |-> "none"]
    /\ state = {} /\ vid = [n \in Names |-> None] /\ current = NoName
    /\ volName = [v \in Ids |-> NoName] /\ made = 0
    /\ box = {} /\ att = [v \in Ids |-> NoName]
    /\ todo = {}
    /\ pc = [p \in Admins |-> "idle"]
    /\ arg = [p \in Admins |-> NoName] /\ dst = [p \in Admins |-> NoName]
    /\ vol = [p \in Admins |-> None]
    /\ faulted = {} /\ blind = {}

----------------------------------------------------------------------------
\* What the steps are made of.

Fault(kind) ==
    /\ kind \in FaultKinds \ faulted /\ Cardinality(faulted) < MaxFaults
    /\ faulted' = faulted \cup {kind}
NoFault == faulted' = faulted

Goto(p, label) ==
    pc' = [pc EXCEPT ![p] = label] /\ UNCHANGED <<arg, dst, vol, blind>>
Start(p, label, n, m, v) ==
    /\ pc[p] = "idle"
    /\ pc' = [pc EXCEPT ![p] = label]
    /\ arg' = [arg EXCEPT ![p] = n]
    /\ dst' = [dst EXCEPT ![p] = m]
    /\ vol' = [vol EXCEPT ![p] = v]

\* The verb returns, with or without an error.
Finish(p) ==
    /\ pc' = [pc EXCEPT ![p] = "idle"]
    /\ arg' = [arg EXCEPT ![p] = NoName]
    /\ dst' = [dst EXCEPT ![p] = NoName]
    /\ vol' = [vol EXCEPT ![p] = None]
    /\ UNCHANGED blind

\* The positions between the Probe of rename or rm and the profile's end.
Leaving == {"renvol", "move", "down", "downpurge", "purge", "rmstate"}

\* A verb on n starts while another is at one of these positions.
Beside(n, labels) ==
    blind' = IF \E p \in Admins : pc[p] \in labels /\ arg[p] = n
             THEN blind \cup {n} ELSE blind

Exists(v) == v # None /\ volName[v] # NoName
HasConf(n) == n \in config \/ seed[n] # "none"

\* currentProfile: the file, else "default".
Target == IF current = NoName THEN Default ELSE current

\* downBox: the volume comes off, then the box goes; it may stop in between.
Freed(n) == [v \in Ids |-> IF att[v] = n THEN NoName ELSE att[v]]
Unbox(n) == box' = box \ {n} /\ att' = Freed(n)
UnboxFails(n) == UNCHANGED box /\ att' \in {att, Freed(n)}

----------------------------------------------------------------------------
\* Creating a profile.

\* profileAdd: config and seed are written before anything that can fail.
\* Only a config counts as "already exists".
AddBegin(p, n) ==
    /\ n \notin config
    /\ Start(p, "keys", n, NoName, None)
    /\ config' = config \cup {n}
    /\ seed' = [seed EXCEPT ![n] = "default"]
    /\ UNCHANGED <<state, vid, current, cloud, todo, faulted, blind>>

\* PrepareSSHKeys; then ensureVolume's deriveProfile makes the state directory.
AddKeys(p) ==
    /\ pc[p] = "keys"
    /\ \/ Fault("write") /\ Finish(p) /\ UNCHANGED state
       \/ NoFault /\ Goto(p, "ensure") /\ state' = state \cup {arg[p]}
    /\ UNCHANGED <<conf, vid, current, cloud, todo>>

\* setup: the same for the current profile, which keeps a seed it has.
SetupBegin(p) ==
    /\ Start(p, "ensure", Target, NoName, None)
    /\ state' = state \cup {Target}
    /\ seed' = [seed EXCEPT ![Target] = IF @ = "none" THEN "default" ELSE @]
    /\ UNCHANGED <<config, vid, current, cloud, todo, faulted, blind>>

\* Mutant of CreateVolume: the new volume's id is already in use.
CreateVolumeUncounted(n) ==
    /\ made < MaxVols
    /\ made' = made /\ volName' = [volName EXCEPT ![made + 1] = n]

\* The id is cached in the state directory, if that is still there.
Cache(n, v) == vid' = [vid EXCEPT ![n] = IF n \in state THEN v ELSE @]

CreateVolume(n) ==
    /\ made < MaxVols
    /\ \A v \in Ids : volName[v] # n
    /\ made' = made + 1 /\ volName' = [volName EXCEPT ![made + 1] = n]

\* Mutant of Ensure: adopts by the label every volume carries, not by name.
EnsureByLabel(p) ==
    /\ pc[p] = "ensure"
    /\ \/ \E v \in Ids : NoFault /\ Exists(v) /\ Cache(arg[p], v)
                         /\ UNCHANGED volumes
       \/ NoFault /\ CreateVolume(arg[p]) /\ Cache(arg[p], made + 1)
    /\ Finish(p)
    /\ UNCHANGED <<conf, state, current, box, att, todo>>

\* VolumeEnsure adopts a volume by name, or creates it.
Ensure(p) ==
    /\ pc[p] = "ensure"
    /\ \/ \E v \in Ids : NoFault /\ volName[v] = arg[p] /\ Cache(arg[p], v)
                         /\ UNCHANGED volumes
       \/ NoFault /\ CreateVolume(arg[p]) /\ Cache(arg[p], made + 1)
       \/ Fault("lost") /\ CreateVolume(arg[p]) /\ UNCHANGED vid
       \/ (Fault("read") \/ Fault("write")) /\ UNCHANGED <<volumes, vid>>
       \/ /\ NoFault /\ made = MaxVols /\ \A v \in Ids : volName[v] # arg[p]
          /\ UNCHANGED <<volumes, vid>>
    /\ Finish(p)
    /\ UNCHANGED <<conf, state, current, box, att, todo>>

\* profileSeed init, and any edit of a seed that exists.
SeedInit(p, n) ==
    /\ pc[p] = "idle" /\ seed[n] = "none"
    /\ seed' = [seed EXCEPT ![n] = "default"]
    /\ UNCHANGED <<config, state, vid, current, cloud, todo, procs, faulted>>

SeedEdit(p, n) ==
    /\ pc[p] = "idle" /\ seed[n] = "default"
    /\ seed' = [seed EXCEPT ![n] = "edited"]
    /\ UNCHANGED <<config, state, vid, current, cloud, todo, procs, faulted>>

Use(p, n) ==
    /\ pc[p] = "idle" /\ n \in state
    /\ current' = n
    /\ UNCHANGED <<conf, state, vid, cloud, todo, procs, faulted>>

----------------------------------------------------------------------------
\* profileRename: volume, state directory, configuration, in this order.

\* Mutant of RenameBegin: does not look for a live box.
RenameBeginUnprobed(p, n, m) ==
    /\ n \in state /\ m \notin state /\ NoFault /\ UNCHANGED blind
    /\ Start(p, IF vid[n] = None THEN "move" ELSE "renvol", n, m, vid[n])
    /\ UNCHANGED <<disk, cloud, todo>>

\* The checks and the Probe, whose error reads as "no box".
RenameBegin(p, n, m) ==
    /\ n \in state /\ m \notin state
    /\ \/ Fault("read") /\ blind' = blind \cup {n}
       \/ NoFault /\ n \notin box /\ Beside(n, {"summon"})
    /\ Start(p, IF vid[n] = None THEN "move" ELSE "renvol", n, m, vid[n])
    /\ UNCHANGED <<disk, cloud, todo>>

\* VolumeRename; the provider refuses a name that is taken.
CanRename(v, m) == Exists(v) /\ \A w \in Ids : volName[w] # m

\* Mutant of RenameVolume: its error is ignored.
RenameVolumeUnchecked(p) ==
    /\ pc[p] = "renvol" /\ Goto(p, "move")
    /\ \/ /\ NoFault /\ CanRename(vol[p], dst[p])
          /\ volName' = [volName EXCEPT ![vol[p]] = dst[p]]
       \/ Fault("write") /\ UNCHANGED volName
    /\ UNCHANGED <<disk, made, box, att, todo>>

RenameVolume(p) ==
    /\ pc[p] = "renvol"
    /\ \/ /\ NoFault /\ CanRename(vol[p], dst[p])
          /\ volName' = [volName EXCEPT ![vol[p]] = dst[p]] /\ Goto(p, "move")
       \/ /\ Fault("lost") /\ CanRename(vol[p], dst[p])
          /\ volName' = [volName EXCEPT ![vol[p]] = dst[p]] /\ Finish(p)
       \/ NoFault /\ ~CanRename(vol[p], dst[p]) /\ Finish(p) /\ UNCHANGED volName
       \/ Fault("write") /\ Finish(p) /\ UNCHANGED volName
    /\ UNCHANGED <<disk, made, box, att, todo>>

\* os.Rename of the state directory, which fails on an existing target.
RenameState(p) ==
    /\ pc[p] = "move"
    /\ IF arg[p] \in state /\ dst[p] \notin state
       THEN /\ state' = (state \ {arg[p]}) \cup {dst[p]}
            /\ vid' = [vid EXCEPT ![dst[p]] = vid[arg[p]], ![arg[p]] = None]
            /\ Goto(p, "moveconf")
       ELSE UNCHANGED <<state, vid>> /\ Finish(p)
    /\ UNCHANGED <<conf, current, cloud, todo, faulted>>

\* The configuration directory, a failure going unnoticed; then the default.
RenameConf(p) ==
    /\ pc[p] = "moveconf"
    /\ LET n == arg[p]  m == dst[p]
       IN  /\ IF HasConf(n) /\ ~HasConf(m)
              THEN /\ config' = (config \ {n}) \cup (IF n \in config THEN {m} ELSE {})
                   /\ seed' = [seed EXCEPT ![m] = seed[n], ![n] = "none"]
              ELSE UNCHANGED conf
           /\ current' = (IF current = n THEN m ELSE current)
    /\ Finish(p)
    /\ UNCHANGED <<state, vid, cloud, todo, faulted>>

----------------------------------------------------------------------------
\* profileRm: box, volume (with --purge), state directory, configuration.

\* The checks and the Probe, whose error reads as "no box".
RmBegin(p, n, purge) ==
    /\ n # Default /\ n \in state
    /\ \/ /\ \/ Fault("read") /\ blind' = blind \cup {n}
             \/ NoFault /\ n \notin box /\ Beside(n, {"summon"})
          /\ Start(p, IF purge THEN "purge" ELSE "rmstate", n, NoName, None)
       \/ /\ NoFault /\ n \in box /\ Beside(n, {"summon"})
          /\ Start(p, IF purge THEN "downpurge" ELSE "down", n, NoName, None)
    /\ UNCHANGED <<disk, cloud, todo>>

\* Mutant of RmDown: the removal goes on when the down fails.
RmDownUnchecked(p) ==
    /\ pc[p] \in {"down", "downpurge"}
    /\ (NoFault /\ Unbox(arg[p])) \/ (Fault("write") /\ UnboxFails(arg[p]))
    /\ Goto(p, IF pc[p] = "down" THEN "rmstate" ELSE "purge")
    /\ UNCHANGED <<disk, volumes, todo>>

\* downBox, which probes again and ends the verb when it fails.
RmDown(p) ==
    /\ pc[p] \in {"down", "downpurge"}
    /\ \/ /\ NoFault /\ Unbox(arg[p])
          /\ Goto(p, IF pc[p] = "down" THEN "rmstate" ELSE "purge")
       \/ Fault("write") /\ UnboxFails(arg[p]) /\ Finish(p)
       \/ Fault("read") /\ Finish(p) /\ UNCHANGED <<box, att>>
    /\ UNCHANGED <<disk, volumes, todo>>

\* VolumeDelete of the cached id; the provider keeps an attached volume.
CanDelete(v) == Exists(v) /\ att[v] = NoName
DeleteVolume(v) == volName' = [volName EXCEPT ![v] = NoName]

RmVolume(p) ==
    /\ pc[p] = "purge"
    /\ LET v == vid[arg[p]]
       IN  \/ NoFault /\ v = None /\ Goto(p, "rmstate") /\ UNCHANGED volName
           \/ NoFault /\ CanDelete(v) /\ DeleteVolume(v) /\ Goto(p, "rmstate")
           \/ Fault("lost") /\ CanDelete(v) /\ DeleteVolume(v) /\ Finish(p)
           \/ NoFault /\ v # None /\ ~CanDelete(v) /\ Finish(p) /\ UNCHANGED volName
           \/ Fault("write") /\ Finish(p) /\ UNCHANGED volName
    /\ UNCHANGED <<disk, made, box, att, todo>>

RmState(p) ==
    /\ pc[p] = "rmstate"
    /\ state' = state \ {arg[p]} /\ vid' = [vid EXCEPT ![arg[p]] = None]
    /\ Goto(p, "rmconf")
    /\ UNCHANGED <<conf, current, cloud, todo, faulted>>

\* Mutant of RmConf: the default stays on the removed profile.
RmConfKeepsCurrent(p) ==
    /\ pc[p] = "rmconf"
    /\ config' = config \ {arg[p]}
    /\ seed' = [seed EXCEPT ![arg[p]] = "none"]
    /\ Finish(p)
    /\ UNCHANGED <<state, vid, current, cloud, todo, faulted>>

RmConf(p) ==
    /\ pc[p] = "rmconf"
    /\ config' = config \ {arg[p]}
    /\ seed' = [seed EXCEPT ![arg[p]] = "none"]
    /\ current' = (IF current = arg[p] THEN NoName ELSE current)
    /\ Finish(p)
    /\ UNCHANGED <<state, vid, cloud, todo, faulted>>

----------------------------------------------------------------------------
\* The box verbs and the reaper.

\* requireProfile, Probe, requireSeed and volumeID; a box that is up is
\* handed back, which changes nothing here.
UpBegin(p, n) ==
    /\ n \in state /\ n \notin box
    /\ seed[n] # "none" /\ vid[n] # None
    /\ Start(p, "summon", n, NoName, vid[n]) /\ Beside(n, Leaving)
    /\ UNCHANGED <<disk, cloud, todo, faulted>>

\* The volume is freed wherever it is, then the server is created with it;
\* the provider refuses a server name in use, a volume that is gone, and one
\* whose detach is still in flight after the three seconds `up` waits.
UpSummon(p) ==
    /\ pc[p] = "summon"
    /\ \/ /\ NoFault /\ arg[p] \notin box /\ Exists(vol[p])
          /\ box' = box \cup {arg[p]} /\ att' = [att EXCEPT ![vol[p]] = arg[p]]
       \/ /\ NoFault /\ arg[p] \in box
          /\ att' = [att EXCEPT ![vol[p]] = NoName] /\ UNCHANGED box
       \/ /\ NoFault /\ Exists(vol[p]) /\ att[vol[p]] # NoName
          /\ att' = [att EXCEPT ![vol[p]] = NoName] /\ UNCHANGED box
       \/ NoFault /\ ~Exists(vol[p]) /\ UNCHANGED <<box, att>>
       \/ /\ Fault("write") /\ UNCHANGED box
          /\ att' \in {att, [att EXCEPT ![vol[p]] = NoName]}
    /\ Finish(p)
    /\ UNCHANGED <<disk, volumes, todo>>

Down(p, n) ==
    /\ pc[p] = "idle" /\ n \in state /\ n \in box
    /\ (NoFault /\ Unbox(n)) \/ (Fault("write") /\ UnboxFails(n))
    /\ UNCHANGED <<disk, volumes, todo, procs>>

\* reapRun: listProfiles, then every profile in turn ...
ReapList ==
    /\ todo = {} /\ state # {}
    /\ todo' = state
    /\ UNCHANGED <<disk, cloud, procs, faulted>>

\* ... whose deriveProfile makes the state directory if it is missing; the
\* box may be due, or the teardown fail.
ReapVisit(n) ==
    /\ n \in todo /\ todo' = todo \ {n}
    /\ (n \in state /\ NoFault) \/ (n \notin state /\ Fault("stale"))
    /\ state' = state \cup {n}
    /\ Unbox(n) \/ UnboxFails(n)
    /\ UNCHANGED <<conf, vid, current, volumes, procs>>

\* A verb is killed between two steps.
Killed(p) ==
    /\ pc[p] # "idle" /\ Fault("crash")
    /\ Finish(p)
    /\ UNCHANGED <<disk, cloud, todo>>

AddStep(p) ==
    \/ \E n \in Names : AddBegin(p, n) \/ SeedInit(p, n) \/ SeedEdit(p, n) \/ Use(p, n)
    \/ AddKeys(p)
    \/ SetupBegin(p)
    \/ Ensure(p)

RenameStep(p) ==
    \/ \E n, m \in Names : RenameBegin(p, n, m)
    \/ RenameVolume(p)
    \/ RenameState(p)
    \/ RenameConf(p)

RmStep(p) ==
    \/ \E n \in Names, purge \in BOOLEAN : RmBegin(p, n, purge)
    \/ RmDown(p)
    \/ RmVolume(p)
    \/ RmState(p)
    \/ RmConf(p)

BoxStep(p) ==
    \/ \E n \in Names : UpBegin(p, n) \/ Down(p, n)
    \/ UpSummon(p)

ReapStep == ReapList \/ \E n \in todo : ReapVisit(n)

Next ==
    \/ \E p \in Admins : AddStep(p) \/ RenameStep(p) \/ RmStep(p) \/ BoxStep(p)
    \/ \E p \in Admins : Killed(p)
    \/ ReapStep

Spec == Init /\ [][Next]_vars

----------------------------------------------------------------------------
\* Properties.

Rest == \A p \in Admins : pc[p] = "idle"

\* The faults up to now are among these.
Only(kinds) == faulted \subseteq kinds

\* Whenever no verb is under way, a profile that has a volume has the one that
\* carries its name, so a name derived after a rename and one adopted after an
\* rm (VolumeEnsure goes by name) lead to the workspace of the cached id.  A
\* refused or failed call does not change this; a verb cut off does.
VolumesMatchNames ==
    Only({"read", "write"}) /\ Rest =>
        \A n \in state : vid[n] # None => volName[vid[n]] = n

\* A box runs with the workspace of its own profile, however often profiles
\* are renamed, removed and added again under each other's names.
WorkspaceIsOwn ==
    Only({"write"}) =>
        \A v \in Ids : att[v] # NoName => vid[att[v]] = v /\ volName[v] = att[v]

\* Every box that bills belongs to a profile the reaper lists: rename and rm
\* wait for the box ("A live box would orphan the reaper counters + leave a
\* net ghost, so the box must be down first", profileplane.go:161-162).  One
\* failed Probe breaks it, or a second admin.
BillingIsWatched == box \subseteq state

\* The same, as far as the code has it, for any number of admins: a box that is
\* not watched is of a profile that a rename or rm took on after its Probe
\* failed (profileplane.go:186, 234) or beside an `up` of it that had passed
\* requireProfile (profile.go:210).  No other order of verbs, refused or lost
\* call, kill or reaper visit does it.
SeenBoxesAreWatched == box \ blind \subseteq state

\* Whenever no verb is under way and none was killed, the default that bare
\* verbs act on is a profile that is set up, or unset.
CurrentListed == Only(Kinds \ {"crash"}) /\ Rest => current \in state \cup {NoName}

\* A workspace is deleted only by a purge of its own profile: no other
\* profile's cached id loses its volume ("act only on the one profile named",
\* README.md:345-346).
PurgeHitsOwn ==
    \A n \in state :
        Exists(vid[n]) /\ volName'[vid[n]] = NoName
            => \E p \in Admins : pc[p] = "purge" /\ arg[p] = n
PurgeHitsOneProfile == [][PurgeHitsOwn]_vars

\* The same, as long as no verb was cut off between two of its steps.
WholePurgeHitsOneProfile == [][Only({"read", "write"}) => PurgeHitsOwn]_vars

\* An edited seed goes only where rename takes it or with the profile that rm
\* removes ("It never overwrites an existing profile", profileplane.go:29).
EditsKept ==
    \A n \in Names :
        seed[n] = "edited" /\ seed'[n] # "edited"
            => \E p \in Admins : pc[p] \in {"moveconf", "rmconf"} /\ arg[p] = n
SeedEditsSurvive == [][EditsKept]_vars

=============================================================================
