# daybox: models, checks and proofs

daybox keeps one disposable cloud box per profile. A control plane (the "plane", a small
always-on server) holds the provider token and summons, reaps and enrolls boxes; a workspace
volume survives them. This directory holds TLA+ models of that system, the TLC runs that check
them on small instances, and TLAPS proofs for every value of the constants.

    tlc -workers 2 -config MC_Lifecycle_safety.cfg MC_Lifecycle     # a run
    tlc -workers 2 -config Registry_safety.cfg Registry
    tlc -workers 2 -config Seeds_unread.cfg Seeds                   # a counterexample
    tlapm LifecycleProofs.tla                                       # the proofs of a module

## The system: components, state, operations

All paths are under `src/`; Go files under `src/cmd/daybox/`.

| component | state it keeps | operations | interacts with |
|---|---|---|---|
| summon (`summon.go`, `summon_impl.go`) | none of its own; resets the tick files | `up`: reconnect to a box, or free the volume, create a server, wait for firstboot, join the net | provider API, ssh to the box, headscale |
| teardown (`down.go`) | none of its own; resets the tick files | `down`: unmount, detach, wait, delete, drop the net node | provider API, ssh, headscale; also called by the reaper |
| reaper (`reap.go`, `systemd/`) | `idle_ticks`, `unreach_ticks` per profile | one tick every five minutes for every profile: cap, probe, count, decide | provider API, the box's keep-probe over ssh, `downBox` |
| provider adapter (`provider.go`, `hetzner_provider.go`) | none; servers and volumes live at the provider | Probe, Summon, Reap, Volume* | Hetzner |
| firstboot (`cloud-init/`, `remote/apply-seed.py`) | `seed.status`, once-markers, `/work` on the box | lock down ingress, mount the volume, apply the seed, write the verdict | the box itself |
| profile registry (`profile.go`, `profileplane.go`) | config, seed and state directory per profile, the default profile | add, use, ls, rename, rm, seed, setup | provider (volume, Probe), the reaper's listing |
| seeds and proposals (`profilecmd.go`, `proposalcmd.go`, `proposecmd.go`, `relaycmd.go`, `uicmd_profiles.go`) | `profile.toml`, its backups, the pending and archived proposals | edit, accept, reject, stage a proposal from a box | laptop editor, relay over the net, web UI |
| web UI jobs (`uicmd.go`) | the job store (memory) | start a verb as a subprocess, poll it | the verbs above |
| keep (`keepprobe.go`, `keepedit.go`) | `keep.toml` on the volume | report connections, load, fresh files; edit the table | the reaper |
| grammar and dispatch (`grammar.go`, `control.go`, `main.go`) | none | parse, delegate over ssh with a retry | every verb, on laptop and plane |
| upgrade (`upgradecmd.go`, `selfupdate.go`, `payload.go`) | the installed tree and binaries | compare versions, fetch, verify, replace | laptop, plane |
| init (`initcmd.go`, `install.sh`, `remote/controlplane-setup.sh`, `config.go`) | `config.local` on the laptop; tree, binaries, token and headscale on the plane | provision a server, push the tree, install, set up, register, enroll this device; every step re-runnable | provider, the plane over ssh |
| status, render, net agent | templates | read, render, proxy | all of the above |

Nothing on the plane locks. Every verb is a process of its own (a user's ssh session, a web UI
job, the timer's oneshot), and they meet in the provider's server and volume, headscale's node
list and two small counter files. What is hard about it is therefore: the interleavings of
`up`, `down` and the reaper, since each decides from one API read and acts some calls later;
teardowns that die half way; answers that never arrive; state counted against one box and used
against the next; and whether billing always stops. The same is true of files: a profile's seed is written by the web
UI, by laptops over ssh and read by the next summon, proposals arrive from boxes while they are
reviewed, and init and upgrade replace a running installation over a connection that may break
in any step and is then retried. A box's volume outlives the box, so what one boot leaves half done
the next one finds.

What makes each component right:

* **summon**: a box is handed back only when its firstboot succeeded and its own node is on the
  net; a failed reconnect changes nothing; only a stuck volume is freed.
* **teardown**: the server is deleted after its volume is off it; an interrupted teardown can be
  finished by a later one.
* **reaper**: it acts only on evidence of the box it acts on; the cap beats every busy signal;
  every box that nobody uses dies in the end.
* **registry**: no operation hides a billing box from the reaper; rename moves everything or can
  be resumed; rm forgets everything it should and no more.
* **seeds**: no save loses the other's content without a backup; what is accepted is what was
  reviewed; the pending cap holds.
* **boot**: a box that says "ok" carries the seed it was given, whatever earlier boxes left on the
  volume; a good seed gets there by replacing the box.
* **init and upgrade**: success means one whole release everywhere; the old tree survives a failed
  upgrade; running the commands again heals; the user's knobs stay.
* **grammar and dispatch**: the plane acts on what was typed; a destructive verb acts on the one
  profile the user named; no command is run twice; the laptop is never hung by a dead connection.
* **jobs**: no two jobs that exclude each other run together; the page shows what happened.
* **keep**: a probe that cannot see never reports "idle".

## Modules

| module | what it is |
|---|---|
| `Box` | the abstract box: one at a time, handed out only when provisioned, removed only by who found it |
| `Plane` | the state of one profile's box as the plane sees it, the provider, the box and headscale as environment, faults |
| `Down` | `downBox`, a step per blocking call |
| `Summon` | `summonUp`, `reconnectBox`, `summonFresh`, `waitReady`, `netJoinBox` |
| `Reaper` | `reapOne`; extends `Down`, which it ends in |
| `Lifecycle` | the composition: any number of `up` and `down`, the reaper and the world; fairness; the properties; the refinement mapping to `Box` |
| `Claims` | promises of documents and comments that the code does not keep |
| `Registry` | the profiles on the plane: add, setup, seed, use, rename, rm beside `up`, `down` and `reapRun`'s loop; its claims |
| `Seeds` | one profile's seed, its backups and `.tmp`, and the proposal queue, under the relay, the web UI and laptops |
| `Deploy` | `init` and `upgrade` and what they leave on the plane |
| `Boot` | firstboot and `apply-seed.py` over a sequence of boxes on one volume |
| `Grammar` | `Parse`, `String`, `parseProfileArgs` over sequences of tokens |
| `Commands` | delegation over ssh and the web UI's jobs: how a command becomes a process on the plane; extends `Grammar` |
| `JobBoard` | the abstract board of the web UI's buttons: a command once at a time, settled once, told truly |
| `MC_Lifecycle`, `MC_Registry`, `MC_Seeds`, `MC_Boot`, `MC_Commands` | symmetry sets and constants for TLC (`Deploy` needs none) |
| `LifecycleProofs`, `RefinementProofs`, `RegistryProofs`, `SeedsProofs`, `DeployProofs`, `BootProofs`, `GrammarProofs`, `CommandsProofs` | the theorems about each |

`Registry` and `Lifecycle` look at the same verbs from two sides: `Lifecycle` has every call of
`up`, `down` and a tick for one profile, `Registry` has many profiles and takes those verbs in one
or two steps. The modules share no variables: where one component meets another, the other's part is
an action with its outcomes (the seed a box is created from in `Boot` is whatever `Seeds` left live;
the process a command starts in `Commands` runs and ends; the verbs it runs are the other modules).

### How the model relates to the code

This is about `Lifecycle` and the modules under it; the others follow below.

*Grain.* A step is one blocking call (provider API, ssh, headscale) together with the local code
up to the next one; other processes run between steps. Merged into one step are calls of which
only the last matters to anybody else: the unmount with `VolumeDetach`, CheckCredentials with
Probe, the key, scp and install of the net join. A poll loop is one step that may see any
outcome the loop can end with: the 120s detach poll ends detached, misled by a failed read, or
given up (`"forced"`); `waitReady` ends with the verdict or without one.

*State.* `server` is the box that currently holds the profile's server name, identified by a
number that is never reused (the provider's server id); `volAt` and `volOp` are the volume's
attachment and the action the provider has in flight on it; `seed` is firstboot's verdict;
`agent` and `nodes` are the net agent and the headscale nodes registered under the server name
(one per box, dead ones linger); `age` is what `boxAgeMinutes` makes of the creation time against
MAX_LIFETIME_HOURS; `work` is the keep-probe's answer: quiet, busy, or none because the box
hangs. `idle` and `unreach` are the two tick files. `pc` and `seen` are per process: where it is
and which server it holds, since `up`, `down` and a tick each go on with the id and address they
read at the start. `quietTicks` and `deafTicks` are observations that no guard reads: what ticks
on this very box have shown, which is what the tick files ought to say.

*Processes.* `Ups` and `Downs` are concurrent invocations by users (two laptops, the web UI,
`sshRetry` running a delegated `up` again). `Reaper` is a single process because the timer starts a oneshot unit that
systemd never runs twice at once.

*Faults.* Each is drawn from a budget (`MaxFaults`) and enabled by `FaultKinds`: a failed GET
(`read`), a refused call (`write`), a call that took effect but whose answer was lost (`lost`),
ssh (`ssh`), headscale (`net`), a dead node still listed online (`ghost`), a killed process
(`crash`), a server deleted behind the plane's back (`vanish`). Without the budget the negations of
most guards are still explored: a probe of a hung box, a detach of a volume that is not attached.

*Environment.* Modelled from how the code uses it, and marked external: the provider accepts a
detach of an attached volume no other action holds, and completes it later; deleting a server
auto-detaches its volume, on top of a detach in flight if there is one, which ends in a locked
volume (the comments of `down.go:30-34,76-78`); creation needs the name and the volume free.

### Registry

*Grain.* A step is one provider call with the local checks before it, or one group of file
operations that follow each other; a verb can be killed between any two. `up` is the checks
(requireProfile, Probe, seed, volume id) and then the summon; `down` is one step.

*State.* Per profile name: `config` and `seed` (the files under `<conf>/profiles`; an edited seed is told
from the default one), `state` (the directory that makes a profile exist, profile.go:195-203) and `vid`
(the id cached in it). At the provider: `volName`, the profile a volume is named for, so that the
derived names `daybox-<p>-vol` need no strings; `box`, whose names are `daybox-<p>`; `att`.
`current` is the `current_profile` file. `todo` is what `reapRun` listed and has yet to visit: a visit
derives the profile, which makes its directory again if it went in the meantime. `blind` is an observation no
guard reads: the profiles that rename or rm took on after a failed Probe or while an `up` of them was under
way, or the other way round.

*Faults.* As above, each kind at most once in a behaviour and `MaxFaults` of them; besides, a visit
to a profile that went after the listing counts as the fault `stale`, since rename and rm do
not survive it. A refused volume name or a volume that is attached or gone is no fault: the
provider refuses these calls whenever they are made.

### Seeds

*Grain.* One system call another process can see the effect of; a file is an inode behind a name, so
that a writer that has `profile.toml.tmp` open goes on writing into it after someone renamed it.
`Save` is what `writeSeedAtomicTS` and `pushProfile`'s shell line have in common: back up, open, write,
rename; `LocalSave` and `Push` add the failures of each.

*State.* `disk` maps inodes to contents (a whole text, nothing, or part of one); `live` and `tmp` are names
for inodes; `bak` is named by the second. `queue` is the proposals directory: an id is a second and a
sequence number, as `stageProposal` mints it. Per process: where it is, the proposal it works
on, the content it holds, its open file, the second it took. `shown` is what a reviewer saw, `late` the
remote shells that outlive their connection. Observations no guard reads: `settled` (the second of the proposal's id,
and every request of it, was over when it was shown, so what is behind the id can only go), `chosen` (what somebody
typed, or was shown and then accepted), `unread` (what the web UI saved without that: accepted from the list,
looked at before it was settled, or cut by a short read), `ever` (what was live), `dirty` (inodes of a `.tmp` that
several saves had open, or a dropped push left) and `excused` (seeds whose backup was overwritten or never made).
Accept and reject need no earlier look: the page's list has both buttons, and `profile reject` shows nothing.

*Actors and faults.* Boxes (POST /propose), web handlers and the CLI on the plane, laptops over ssh. A kill,
a full disk, ssh refused, ssh dropped while it sends, an answer lost, a short read of a request body.

### Deploy

*Grain.* One remote command, and inside `replaceTree` one command of its script. *State.* A tree or binary is
the set of releases its files are of and whether the last unpacking was finished; `conf`, `token`,
`login`, `net`, `regd` are what a step of the setup leaves behind. One operator runs one command at a
time, on the laptop or on the plane, pinned or not; between commands a release is published, a knob
is added, the relay starts or stops. *Faults.* No connection; a connection, or the plane, gone in the
middle of a command; an answer lost; a setup step that fails; the operator's process killed.
A binary that a running relay executes cannot be written in place (scp), only renamed over (on the plane).

### Boot

*Grain.* One file, one clone, one command of the seed. *State.* What is on the volume (key, clones, persist targets,
once effects and markers, manifest, lockfile, installed tools) and what is on the box (links, verdict,
the seed it was rendered with). A box may be lost in any step; the next one finds the volume as it is. The
user edits the seed between boots. A failed step ends in the trap that writes `failed`. Whether mise refuses a
manifest its lockfile was not made for is the seed's choice (`locked = true`, profile.default.toml:88-90): the
manifests in `Strict` keep the setting, with the others a plain install succeeds and may leave the lockfile. `cut`
counts, per once command, the boxes lost between its end and its marker.

### Grammar and Commands

A token is a record of its flag spelling and its word, so nothing is put together character by character.
`Parse` is one recursive function over what its loop can stand at, an argument and whether the verb is still
looked for (`Turn` is one turn of the loop, written from the last argument to the first, so that "the last
one wins" is "unless a later one has been set"); `Words` is the positionals `parseProfileArgs` collects. `String`
gives back the words a shell makes of the command: the quoted tokens whole, which is where an unquoted empty word
would get lost, and of the verb, which is written without quotes (grammar.go:148-149), whatever the shell splits it
into: the constant `Unquoted`, of which only that it leaves the delegated verbs whole is assumed (`VerbsAssumption`). `Commands` has the laptop's ssh (dial,
up, dead), `sshRetry`'s attempts, the processes on the plane with whoever waits for them, the job store
and the pages that poll it. The network may cut a connection at any time; nothing tells the process
on the plane. systemd restarts the UI's daemon, which takes its children and its memory with it.

### Bounds

`Registry`: two names, of which rm protects one, let a rename go forth and back and a name be given
up and taken again; three volumes are one more than two profiles can hold, so one can be left
behind by rm without purge or by a lost answer. One admin with the faults; two admins with one volume
and no faults in `MC_Registry`, where the properties of ids, names and the default make no sense (the code takes
no lock, and two verbs inside each other break them), but what can hide a box is as strong as for one.

`Seeds`: two boxes against a cap of one let two requests pass the count together; two seconds and two ids
in each let ids and backups of one second collide and be over; four events (requests, commands,
faults) let one save be repeated or cut between the steps of another, or a proposal be replaced
during its review. Two texts tell every overwrite.

`Deploy`: two releases; three attempts, as the code has; one fault in any step and any number of commands
after it, so a failed command is followed by every repetition. `Boot`: three faults, so a box may be
lost before a marker or in a relock and lost again; the seeds cover each section, two manifests, one that keeps
`locked = true` and one that does not, both kinds of a mapping, one seed without the bootstrap and one that does not parse.

`Commands`: two attempts (three where the counterexample is looked for), three processes and three events; 88
command lines: the flag in every place and form, and twice, a word too many or too few, and the empty word.

For `Lifecycle`:
`MaxBoxes` ends creation (as a quota would); two boxes are enough for evidence or nodes of one
to meet the next. `CounterCap` stops the tick counts where no threshold can tell a difference.
`IdleMin = UnreachMin = 10` makes both thresholds two ticks, the smallest value at which a count
can be half way; 5 makes them one. `MaxFaults` is one, or two where a property needs a fault to
leave something behind and another to be misled by it. `Killed` and the faults being finite is
what makes the liveness runs meaningful: a reaper killed at every tick reaps nothing.

## Properties

Safety (`Lifecycle`): `DeleteAfterDetach` (no delete under an attached volume unless the wait ran
out), `CountersBacked` (the tick files never hold more against a box than its own ticks plus one
in flight), `ReapEarned` (every reap decision against the box that is there is earned by that
box), `ReadyIsSeeded` and `ReadyIsOwnNode` (what `up` reports as success). Liveness:
`CappedBoxReaped`, `NoBoxBillsForever`. `TypeOK` is the type invariant of all of it.

Safety (`Registry`): `VolumesMatchNames` (the cached id and the derived name lead to the same volume
whenever no verb is under way), `WorkspaceIsOwn` (a box runs with the volume of its own profile),
`SeenBoxesAreWatched` (every box belongs to a profile the reaper lists, or to one that a rename or rm took on after
a failed Probe or beside an `up` of it; for any number of admins and every fault), `CurrentListed` (the
default is set up or unset), `WholePurgeHitsOneProfile` (an action property: a volume that another
profile holds is never deleted), and its own `TypeOK`. Each says in its text which faults it
survives: `VolumesMatchNames` and the purge survive failed and refused calls and no verb cut off in
the middle; `WorkspaceIsOwn` survives refused calls; `CurrentListed` everything but a kill. What `SeenBoxesAreWatched`
exempts is refuted as `BillingIsWatched` (`registry_orphan`, `Registry_race.cfg`).

Two of those of `Lifecycle` hold only without certain faults, and the claims below show why:
`DeleteAfterDetach` needs reads that do not fail; `CountersBacked` and `ReapEarned` need servers
that do not disappear behind the plane's back. `ReadyIsOwnNode` needs a headscale that answers:
`netJoinBox` only warns when the purge fails.

Safety (`Seeds`), each with what it does not cover:

* `PendingBounded`: concurrent requests pass the cap by one each at most.
* `QueueKept`: a written proposal never changes, and goes only by a failed write of its id or by a reviewer who drops
  its id. One who was shown it when it was settled drops exactly what was shown. Not covered: whoever looked earlier, or
  dropped it from the list or with `profile reject`, which show nothing; such proposals do go unread
  (`seeds_unread`, `Seeds_reuse.cfg`).
* `LiveWasChosen`: what is live was typed, or accepted as shown. Not covered: what the web UI saved unread
  (`seeds_unread`), and a seed from a `.tmp` that several saves shared or a dropped push left (`Seeds_drop.cfg`), until
  the next save that has the `.tmp` to itself.
* `ReplacedIsKept`: what was live is live or backed up. Not covered: seeds that went live beside another save; those
  whose backup a save of the same second or a retry overwrote (`Seeds_retry.cfg`); and the one live when the `cp` of
  a push failed (`Seeds_cp.cfg`).

`Deploy`: `OldTreeKept` (whatever cuts an upgrade, the tree it found is there under one of two names, unless
the swap itself was started over), `DoneIsOneRelease` and `InitLeavesWholePlane` (what a reported
success means), `KnobsSurvive`; liveness: `Heals` (running the two commands again brings the plane back to
one release).

`Boot`: `OkMeansCarried` (what the verdict ok means), `OkMeansFrozen` (what ok runs is what was locked, for seeds that keep
`locked = true`; for others it fails, `Boot_unlocked.cfg`), `OncePerVolume` (at most once, and once more only for each box
lost between the end of the command and its marker: no other fault repeats it); liveness: `Converges` (replacing the
box is enough).

`Commands`: `PlaneAgrees` (the plane parses what the laptop, or the UI, parsed), `NamedOnce` (a profile
verb acts on one valid profile of the *parsed* command and has a place for every word of it; a repeated `-p` is its
last value there, and the others are lost: `Commands_targets.cfg`), `OnePerKey` (no command runs twice at a time for the
UI), `PollIsTrue`; liveness: `LaptopReturns`. `ImplementsBoard` is a second refinement: with the clicks as the entries of
a board, each with its command and what became of its process, the processes, the job store, its ids and
the restarts are a `JobBoard`. What it adds is the history of an entry: it is settled once, a page that was
told an end is told nothing else, only a restart can mislead it, and nothing a laptop does shows on the board.

`ImplementsBox` is the refinement: `Lifecycle` under the mapping `Abstract` is a `Box`. A user is vouched for a box
from the verdict to the end of `up`; a remover has ordered the box its own Probe found. What it adds to
the invariants is that a lost answer never makes a second box, and that no step but the one downBox that
found this very server takes it away, also when the reaper judged another one before.

### Runs

| run | instance | what it shows |
|---|---|---|
| `lifecycle_safety` | one `up`, one `down`, reaper, two boxes, thresholds of two ticks; write, ssh, net, ghost, crash; one fault | `TypeOK`, `DeleteAfterDetach`, `CountersBacked`, `ReapEarned` |
| `lifecycle_handover` | two `up`, reaper, two boxes of unreadable age, thresholds of one tick; lost, ghost, vanish; two faults | `ReadyIsSeeded`, `ReadyIsOwnNode`, `ImplementsBox` |
| `lifecycle_liveness` | one `up`, one `down`, reaper, one box; read, write, ssh, crash; one fault; fairness | `CappedBoxReaped`, `NoBoxBillsForever` |
| `registry_safety` | one admin, the reaper, profiles `default` and `work`, three volumes; read, write, lost, crash, stale; one fault | the properties of `Registry` |
| `seeds` | two boxes, one web handler, one laptop, two texts, two seconds; every fault; four events | the properties of `Seeds` |
| `deploy` | two releases, three attempts, every fault, one of them; fairness | the properties of `Deploy` |
| `boot` | one repository, two once commands, one mapping, two manifests (one keeps `locked`), five seeds; three faults; fairness | the properties of `Boot` |
| `commands` | 88 lines, two keys, two attempts, three processes, three events; fairness | the properties of `Commands`, `ImplementsBoard` |
| `claim_workspace`, `delegate_twice`, `registry_orphan`, `seeds_unread` | the smallest instance that refutes the claim | see Findings |

Configurations beside these runs: `MC_Registry_admins.cfg` (passes: two admins, two profiles, one volume, no faults;
`SeenBoxesAreWatched`, about three minutes) and the counterexamples of the findings 5 to 18.

Every operation and every fault branch fires in at least one of the passing runs. Deadlock
is checked where the system always goes on: the reaper can always tick, a profile can always be seeded,
used or visited, a command can always be run and a box always be replaced. In `Seeds` and `Commands` the
behaviour ends when its events are used up.

### Fairness

`WF(ReapStep)`: the timer refires five minutes after each run ends, `TimeoutStartSec=10min`
bounds a run, the box probe is bounded by `timeout 30`, API calls by the client's 60s.
`WF(DetachCompletes)`: the provider finishes what it accepted; the code depends on it (its poll
gives up after 120s and deletes anyway, but `VolumeDetach` is refused while an action is in
flight). Nothing is assumed of users, boxes, headscale, or the unlocking of a wedged volume.
`NoBoxBillsForever` has two excuses, both the code's own: the box is busy again and again, or
`up` hands it back again and again.

`Deploy`: a command under way goes on (every remote call ends: ConnectTimeout, keepalives), and the operator
runs init and both forms of upgrade again and again, which is what the messages tell them to do; strong
fairness, because other commands come between. `Heals` excuses two states out of the commands' reach
(`Stuck`), which the module describes. `Boot`: a boot goes on, and the user replaces a box that is of no
use; `Converges` excuses seeds the code refuses (`Refused`). `Commands`: ssh connects or fails, an answer
arrives, a dead connection is noticed by its keepalives (`control.go:58-63`); processes on the plane need
not end, and `LaptopReturns` does not wait for one that goes on.

## Findings

The first four are runs of this project; the others are claims in the same modules, refuted by
`tlc -config <cfg> <module>` with the cfg named (module `MC_Boot` and `MC_Commands` for those of `Boot` and
`Commands`).

1. `claim_workspace` - summon_impl.go:19-21: a box missing what its profile declared must not be
   reported as success. When `down` failed between detach and delete, `reconnectBox` hands back a
   box without its volume.
2. `delegate_twice` - control.go:165-166: a 255 means no prior shell exists to duplicate. Keepalives
   give 255 on a connection that had come up; the command is then run a second time beside itself.
3. `registry_orphan` - profileplane.go:161-162: the box must be down first, a live box would be orphaned.
   `profileRename` (:186) and `profileRm` (:234) discard Probe's error and take it for "no box".
4. `seeds_unread` - proposalcmd.go:154-155, SECURITY.md:75-77: impossible to skim past. The web UI accepts by
   id what is in the file at the click (uicmd_profiles.go:221-232), shown or not.
5. `Registry_race.cfg` - the same promise: a second session's rename or rm between `up`'s requireProfile
   (profile.go:210) and its create finds no box, and the box comes up under a name nobody lists.
6. `Seeds_drop.cfg` - profilecmd.go:75-78: a dropped connection can't leave a half-written seed. It can: `cat`
   takes the end of a dropped connection for the end of its input, and the shell goes on to `mv`.
   `keep put` has the same line (keepedit.go:111-112, 135-136).
7. `Deploy_busy.cfg` - upgradecmd.go:3-4: laptop and control plane in one command. With the relay
   running, scp cannot open the agent's binary (the plane's own path renames over it for this reason,
   upgradecmd.go:252-255), and the upgrade stops after the tree was swapped.
8. `Seeds_cp.cfg` - profilecmd.go:75-76: a push backs up the live file first. The `cp` is followed by `;` (:82): when it
   fails, the seed is replaced without a backup.
9. `Seeds_retry.cfg` - profilecmd.go:88-89: a retry is safe because the write is idempotent. After a lost answer it backs up
   the new seed over the backup of the old one.
10. `Seeds_reuse.cfg` - proposalcmd.go:86-87: ids are unique by construction. One dropped within its second is given to the
   next proposal (relaycmd.go:168-176).
11. `Boot_unlocked.cfg` - apply-seed.py:271-273, profile.default.toml:82: pins are frozen in a lockfile. A relock cut off under an
   older lockfile is not repeated (:270), and without `locked = true` nothing notices.
12. `Commands_targets.cfg` - control.go:351-352: two candidate targets are a usage error. Of `-p x ... -p y` the parser
   keeps the last (grammar.go:171-176).
13. `Claims_join.cfg` - README.md:283-285 and 304-306 promise that a failed net join tears the box down.
   `summonFresh` leaves it running (summon.go:167-168). Code and comments agree with each other;
   the README describes the older behaviour.
14. `Claims_detach.cfg` - down.go:31-33: wait for the detach before deleting. The poll discards the
   error of `VolumeAttachedTo` (down.go:81), so one failed GET counts as "detached". (The same
   discarded error at down.go:66 skips the detach altogether.)
15. `Claims_zombie.cfg` - reap.go:19: a zombie has been unreachable for an hour. The counters are reset
   by a successful `up`, a completed `down` or a tick that finds no server, but not by creating
   one: a box that replaces a vanished one within a tick inherits its count.
16. `Claims_free.cfg` - summon.go:133: "free it if it's stuck". An `up` that probed before another one
   created the box detaches the volume of that live box.
17. `Registry_purge.cfg` - README.md:345-346: rm and rename act on the named profile only. A rename whose
   volume call takes effect and then fails leaves the volume under the new name and the id with
   the old profile; creating the new profile adopts the volume by name, and a purge of the old one
   deletes it.
18. `Registry_seed.cfg` - profileplane.go:29: add never overwrites an existing profile. A seed made with
   `profile seed init` and edited does not count as one and is overwritten.

## Proofs

`LifecycleProofs` assumes `PlaneAssumption` only (bounds are naturals, the counter cap is at or
above both thresholds, the process sets are disjoint): any number of invocations, any
thresholds, any set of faults unless the theorem names one.

* `TypeCorrect`: `TypeOK` is inductive as it stands; one lemma per group of actions.
* Frame lemmas (`UpFrame`, `DownFrame`, `WorldFrame`, `KilledFrame`, `TickFrame`) say once what a step of
  each kind can touch, so that the other proofs do not open all 30 actions again.
* `DeletesAfterDetach`: inductive given `TypeOK`. The two steps that reach `"delete"` have just read the
  volume; afterwards only creating a server attaches it, and the server created is a new one.
* `CountersAreBacked`, `ReapsAreEarned`: from `Evidence`. `CountersBacked` is not inductive: a tick that
  began on a box already gone has yet to write its unreachable count. `Evidence` adds that such a
  tick (`Straddling`) leaves one less to spend, and that with no server nothing is left but that
  tick, which is what makes creation safe.
* `ReadyBoxesAreSeeded`: from `Verdict`, which extends the claim to every position after the verdict was
  read. It needs no assumption on faults: verdicts never change once written, and ids are never
  reused.
* `FreshUpsJoinByOwnNode`: an action property, from `Purged`: from the purge to the exit the only
  node under the name is that of the box being enrolled, because only the live server enrolls.

`RegistryProofs` assumes `RegistryAssumption` only (the default is a name, the bounds are naturals):

* `RegistryTypeCorrect`: from `Shape`, the type invariant by parts plus what it takes to be inductive: a
  verb under way has its profile, a rename its new name, and only ids that were given out carry
  a name. The lemmas `StartKept`, `GotoKept` and `FinishKept` do the processes once for all verbs.
* `BoxesStayWatched`: for any admins, names and faults. That every box not `blind` is listed is not inductive; `Watch`
  adds that a profile between the Probe of rename or rm and the move of its directory has no box, and that the
  profile an `up` is for is still there, unless it is `blind`. Any step that would break either does so beside the
  other verb, which is where `blind` grows. `Sighted` gives it back without `blind` for one admin and no failed read,
  which is what the next ones use.
* `DefaultStaysListed`: from `Listed`: a default whose directory is gone is the business of the rename or rm
  that is one step from resetting it, and a rename has then put the new directory in place.
* `VolumesKeepNames`: from `Match`: a cached id leads to the volume of its profile's name except inside a
  rename between volume and directory and a purge between volume and directory, the two windows a kill
  would leave open; a rename under way still has the id and names it began with.
* `PurgesHitOneProfile`: an action property, from `Match` alone: an id cached for two profiles would make the
  volume carry two names.
* `WorkspacesStayOwn`: from `Own` on top of `Watch` (names do not move under a live box), `Match` and `Unique` (a
  name is never given to two volumes, so what is adopted by name is what is attached).

`RefinementProofs` (over `LifecycleProofs`): `LifecycleIsABox`, that the initial states map to an initial state
and every step to a step of `Box` or a stutter. It needs `TypeOK` only: the step that starts to vouch is
the one that reads the verdict ok of the box that is there, and it is the mapping (who is vouched for, who
has ordered a removal, both read off `pc` and `seen`) that carries what was known to the later steps.

`SeedsProofs` assumes `SeedsAssumption` (finite sets of processes, texts that are neither empty nor torn). Its theorems
have the exemptions of the properties they state, as listed above; none has another. Its
invariant has, besides the types, the count behind the cap (`Room`: those past the count and the files
they will make), the freshness of inodes and open files, what each reviewer was shown against what the
queue can still become (`Shown`), that what is on its way to `live` was chosen (`Whole`), and that what is
live has a backup before it is replaced (`Backed`).

`DeployProofs` assumes `DeployAssumption`: `Where` ties the position to what the command knows, `Shelved`
says where the old tree is in each position of the swap, `Upgraded` and `Initiated` what the steps so far
have left. `BootProofs`: `Counted` (runs against markers and the boxes lost between a command's end and its marker), `Carried` and `Frozen` (what the
position in the boot already guarantees).

`GrammarProofs` assumes `GrammarAssumption` (no text is both absent and a word: `NoText` stands for a flag
without `=`). `Parse` and `Words` are recursive functions over data, and the library's induction theorems, which take a
predicate, are out of the provers' reach. But a set of naturals that lacks one lacks a least one
(`WFMin`), which takes no predicate: `NatSetInduction` and `Downwards` are induction over *sets*, and each
proof defines the set of positions where its claim holds.

* `FromExists`, `FromTurns`: there is a function that obeys the recursion, so `From` is it and `Parse` reads as
  its loop does. The lemmas `Turn...` and `Step...` are the branches of the loop.
* `FromShaped`: what any parse looks like: no global is left among the rest, no empty value gets through, and
  without a verb the rest is flags only. These three are what makes the printed command unambiguous.
* `ParseOfString`: `Parse(String(c))` is `c` (grammar.go:66) for the command of any line, over any spellings
  and texts, whose verb a shell leaves whole (`Bare`): `String` does not quote it, so for a verb with a blank or a
  metacharacter the code's comment is wrong. `ParseOfLine` is the part without the shell; `ParseLine` computes the
  parse of a line in canonical order, from its end.
* `GlobalAnywhere`: a `-p` put anywhere into a line without one, in any of its forms, sets the profile and
  changes nothing else (grammar.go:88): after it both lines read the same (`TailSame`), at it the global
  is set, and before it setting it commutes with every turn (`HoistsReads`).
* `ProfileNamed`: whatever words follow a changing subverb of `profile`, one that is accepted acts on a valid name
  the parsed command gives, and every word of it has a place (`WordsOf`: the positionals are the words, in order and number).

`CommandsProofs` (over `GrammarProofs`) assumes `CommandsAssumption` and `TokensAssumption`: lines are sequences of
tokens (an argument has some spelling and text, and is never the value that stands for "no value"),
the browser's words are words, not flags; and `VerbsAssumption`, that no delegated verb has anything in it that a shell
would split or expand.

* `CommandsTypeCorrect`, `PollsAreTrue`: jobs, processes and pages agree as long as the daemon has not restarted.
* `UIRunsOnePerKey`: from `Tracked` (every process of the daemon that runs has a job that runs, and no two
  running jobs are for one request; a restart ends processes and jobs together) and from `SameRequest`: two
  requests that parse to one command are one request. The latter was an assumption before `Parse` could be
  reasoned about; it follows from `JobIs`, the parse of a request.
* `PlaneParsesTheSame`: from `LineRuns` and `JobsRun` (the process of a connection, or a job, runs what was sent) and
  `SentArrives`, where `ParseOfString` comes in.
* `ProfilesNamedOnce`: the line was accepted before it was sent, and what arrives is what was accepted, so
  `ProfileNamed` is about both. It speaks of the parsed command: which `-p` of several Parse keeps is not its subject.
* `CommandsIsABoard`: every step of `Commands` maps to a step of `JobBoard` or a stutter. It takes `Tracked` (a click that is
  not refused posts a command that does not run) and `Apart` (no two clicks share a process, so a process
  that ends settles one entry); `Untouched` covers the laptop's steps once for all.

Every safety property that a passing run checks, both refinements included, is stated by a theorem. Model-checked
only: the liveness properties `CappedBoxReaped`, `NoBoxBillsForever`, `Heals`, `Converges` and `LaptopReturns`
(fairness and ENABLED are outside what the provers support). A theorem is about the model under the conditions its
property names; the faults a property excludes are excluded in the theorem too.

## Not modelled

* profiles without a volume id or without headscale installed (they skip steps that are modelled), the
  content of seeds and user_data, the follow-up ssh session, IP addresses (a recycled one may mislead
  ssh; the host key pinning guards that). `init` does not update the plane's address in `config.local`
  when it moves (`controlplane-setup.sh:44-66`, `upgradecmd.go:117-125`).
* what ids, names and the default are worth with a second admin in `Registry`, two operators of init and upgrade at once (they share `~/daybox.new`), a
  hand-run `daybox reap` beside the timer's (the counters are read and written without a lock,
  reap.go:142): no comment says what should hold, and the properties stated are false of it.
* the keep probe (`keepprobe.go`, `keepedit.go`): read-only and stateless; `Reaper` takes its answer. It
  reports a failed count or load as 0 (keepprobe.go:78-79) where reap.go:229-230 wants a short read to
  degrade toward the zombie reap.
* drift detection (`proposecmd.go`), diffs, signatures, archives, status and templates: pure functions of
  text or pure I/O.

Seen while modelling, without a run of its own: a PUT of a seed reads its body with one Read
(uicmd_profiles.go:176); a lost answer to `replaceTree` swaps again and deletes the old tree
(control.go:132, upgradecmd.go:152 says it is intact); `systemctl enable --now` does not restart a running
relay or UI (install.sh:72-76); a partial clone of a lost box counts as present (apply-seed.py:96); two
urls of one base name, the second is skipped; an interrupted relock leaves the old lockfile, and with
`locked = true` later boots fail until the seed is edited (apply-seed.py:270); the UI's keys "" and "default" let two
jobs of one profile run (uicmd.go:204), and its handler keys a reap by the profile of a body the page leaves
empty (uicmd.go:244, 265); a page that polls across a restart may be answered for another job.

Next: abstract specifications of the seed (`Seeds`) and of the installed release (`Deploy`), refined and proved as
`Box` and `JobBoard` are; the keep probe as a reader of the box; more about two admins in `Registry`, and two operators
in `Deploy`, once there is a statement of what should hold of them; and `Lifecycle` of two profiles sharing
the plane's timer.
