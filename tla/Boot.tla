-------------------------------- MODULE Boot --------------------------------
(***************************************************************************)
(* What a box does at its first boot, from firstboot.sh to the end of      *)
(* apply-seed.py, over a sequence of boxes that share one volume while the *)
(* profile's seed is edited.  The volume outlives the boxes, and a box may *)
(* go away, or lose power, in the middle of any step.                      *)
(*                                                                         *)
(* Grain: a step is one file, one clone, one command of the seed.  What a  *)
(* command of the seed does is only whether it took effect.                *)
(***************************************************************************)
EXTENDS Integers, FiniteSets

CONSTANTS
    Repos,     \* urls of repositories
    Cmds,      \* commands of [setup] once
    Mise,      \* the one of them that puts mise on the volume
    Paths,     \* paths of [persist]
    MaxPins,   \* the manifests [tools] renders to (pins and settings), 1..MaxPins
    Strict,    \* those that keep [tools.settings] locked = true
    Seeds,     \* the seeds the user writes
    MaxFaults  \* bound on failed steps and on boxes lost while they boot

Kinds == {"file", "dir"}

\* repos, once: what the seed lists.  persist: the kind of each mapping, or
\* "no".  pins: the manifest, or 0 without [tools].  parses: it is TOML with
\* known keys only.
SeedType == [repos : SUBSET Repos, once : SUBSET Cmds,
             persist : [Paths -> Kinds \cup {"no"}],
             pins : 0..MaxPins, parses : BOOLEAN]

ASSUME BootAssumption ==
    /\ Mise \in Cmds /\ MaxPins \in Nat /\ MaxFaults \in Nat
    /\ Strict \subseteq 1..MaxPins
    /\ Seeds \subseteq SeedType /\ Seeds # {}

VARIABLES
    left,      \* faults still to come
    seed,      \* profile.toml on the plane
    declared,  \* profile.toml as it was rendered into the box
    pc,        \* what the box does next; "none" without a box
    status,    \* seed.status: "none" | "failed" | "ok"
    links,     \* the paths in the box's home that are links to the volume
    changed,   \* apply_tools found another manifest than it renders
    key,       \* volume: the git key: "none" | "part" | "whole"
    repo,      \* volume: each clone: "none" | "part" | "whole"
    target,    \* volume: what each path's target is: "no" | "file" | "dir"
    effect,    \* volume: the once commands that took effect
    marked,    \* volume: the once commands with a marker
    manifest,  \* volume: the mise manifest, 0 without one, -1 if torn
    lock,      \* volume: the manifest mise.lock was made for, or 0
    payload,   \* volume: the manifest whose tools are installed, or 0
    runs,      \* observation: how often each once command ran to its end
    cut,       \* observation: how often a box was lost between that end and
               \* the command's marker
    hurt       \* observation: relocking was interrupted under an old lock

box == <<declared, pc, status, links, changed>>
tools == <<manifest, lock, payload>>
volume == <<key, repo, target, effect, marked, tools>>
vars == <<left, seed, box, volume, runs, cut, hurt>>

Pc == {"none", "mount", "identity", "parse", "packages", "persist", "repos",
       "once", "tools", "install", "every_boot", "over", "lost"}

TypeOK ==
    /\ left \in 0..MaxFaults /\ seed \in Seeds /\ declared \in Seeds
    /\ pc \in Pc /\ status \in {"none", "failed", "ok"}
    /\ links \subseteq Paths /\ changed \in BOOLEAN
    /\ key \in {"none", "part", "whole"}
    /\ repo \in [Repos -> {"none", "part", "whole"}]
    /\ target \in [Paths -> Kinds \cup {"no"}]
    /\ effect \subseteq Cmds /\ marked \subseteq Cmds
    /\ manifest \in -1..MaxPins /\ lock \in 0..MaxPins
    /\ payload \in 0..MaxPins
    /\ runs \in [Cmds -> 0..(MaxFaults + 1)]
    /\ cut \in [Cmds -> 0..MaxFaults] /\ hurt \in BOOLEAN

Init ==
    /\ left = MaxFaults /\ seed \in Seeds /\ declared = seed
    /\ pc = "none" /\ status = "none" /\ links = {} /\ changed = FALSE
    /\ key = "none" /\ repo = [r \in Repos |-> "none"]
    /\ target = [p \in Paths |-> "no"]
    /\ effect = {} /\ marked = {}
    /\ manifest = 0 /\ lock = 0 /\ payload = 0
    /\ runs = [c \in Cmds |-> 0] /\ cut = [c \in Cmds |-> 0] /\ hurt = FALSE

-----------------------------------------------------------------------------
Fault == left > 0 /\ left' = left - 1

Goto(next) == pc' = next /\ UNCHANGED <<declared, status, links, changed>>

\* die, or firstboot's ERR trap: the verdict `up` reads, and the end.
Fails == /\ pc' = "over" /\ status' = "failed"
         /\ UNCHANGED <<declared, links, changed>>

\* The box is deleted, or reboots: firstboot runs once per box, so it goes no
\* further and leaves no verdict.
Lost == Goto("lost") /\ Fault

\* A step whose command fails, or during which the box is lost, before
\* anything happened to the volume.
Breaks ==
    /\ pc \in Pc \ {"none", "over", "lost"}
    /\ \/ Fails /\ Fault
       \/ Lost
    /\ hurt' = (hurt \/ (pc = "install" /\ changed /\ lock # 0))
    /\ UNCHANGED <<seed, volume, runs, cut>>

-----------------------------------------------------------------------------
(* The box's life, and firstboot.sh up to the seed.                        *)

EditSeed == /\ \E s \in Seeds \ {seed} : seed' = s
            /\ UNCHANGED <<left, box, volume, runs, cut, hurt>>

\* Mutant: the markers are on the root disk.
CreateUnmarks == /\ pc = "none"
                 /\ declared' = seed /\ pc' = "mount" /\ status' = "none"
                 /\ links' = {} /\ changed' = FALSE /\ marked' = {}
                 /\ UNCHANGED <<left, seed, key, repo, target, effect, tools,
                                runs, cut, hurt>>

\* `up` renders the seed as it is into a new box with a new root disk.
Create == /\ pc = "none"
          /\ declared' = seed /\ pc' = "mount" /\ status' = "none"
          /\ links' = {} /\ changed' = FALSE
          /\ UNCHANGED <<left, seed, volume, runs, cut, hurt>>

\* `down` takes the box away, and with it everything but the volume.
Delete == /\ pc \in {"over", "lost"}
          /\ pc' = "none" /\ status' = "none" /\ links' = {} /\ changed' = FALSE
          /\ UNCHANGED <<left, seed, declared, volume, runs, cut, hurt>>

\* The lockdown, then the wait for the volume (Breaks when it never appears).
Mount == /\ pc = "mount" /\ Goto("identity")
         /\ UNCHANGED <<left, seed, volume, runs, cut, hurt>>

\* The git key is generated where there is no file; a part of one is a file.
Identity ==
    /\ pc = "identity"
    /\ \/ /\ key' = IF key = "none" THEN "whole" ELSE key
          /\ Goto("parse") /\ UNCHANGED left
       \/ key = "none" /\ key' = "part" /\ Lost
    /\ UNCHANGED <<seed, repo, target, effect, marked, tools, runs, cut, hurt>>

-----------------------------------------------------------------------------
(* apply-seed.py.                                                          *)

Parse == /\ pc = "parse"
         /\ IF declared.parses THEN Goto("packages") ELSE Fails
         /\ UNCHANGED <<left, seed, volume, runs, cut, hurt>>

Packages == /\ pc = "packages" /\ Goto("persist")
            /\ UNCHANGED <<left, seed, volume, runs, cut, hurt>>

Mapped == {p \in Paths : declared.persist[p] # "no"}

\* A directory's target is made; a file's appears when the tool writes it,
\* which any command of the seed may do.  A target of the other kind is not
\* touched.
Persist ==
    /\ pc = "persist"
    /\ \E p \in Mapped \ links :
           IF target[p] \in {"no", declared.persist[p]}
           THEN /\ links' = links \cup {p}
                /\ \/ target' = [target EXCEPT ![p] = declared.persist[p]]
                   \/ declared.persist[p] = "file" /\ UNCHANGED target
                /\ UNCHANGED <<declared, pc, status, changed>>
           ELSE Fails /\ UNCHANGED target
    /\ UNCHANGED <<left, seed, key, repo, effect, marked, tools, runs, cut, hurt>>

PersistDone == /\ pc = "persist" /\ Mapped \subseteq links /\ Goto("repos")
               /\ UNCHANGED <<left, seed, volume, runs, cut, hurt>>

\* A clone that is there is left alone; git removes what it began when it
\* fails, but not when the box is lost.
Clone ==
    /\ pc = "repos"
    /\ \E r \in declared.repos :
           /\ repo[r] = "none"
           /\ \/ repo' = [repo EXCEPT ![r] = "whole"] /\ UNCHANGED <<left, box>>
              \/ repo' = [repo EXCEPT ![r] = "part"] /\ Lost
    /\ UNCHANGED <<seed, key, target, effect, marked, tools, runs, cut, hurt>>

ReposDone == /\ pc = "repos" /\ \A r \in declared.repos : repo[r] # "none"
             /\ Goto("once")
             /\ UNCHANGED <<left, seed, volume, runs, cut, hurt>>

\* Mutant: the marker is written before the command runs.
OnceMarkFirst ==
    /\ pc = "once"
    /\ \E c \in declared.once \ marked :
           /\ marked' = marked \cup {c}
           /\ \/ /\ effect' = effect \cup {c}
                 /\ runs' = [runs EXCEPT ![c] = @ + 1]
                 /\ UNCHANGED <<left, box>>
              \/ Lost /\ UNCHANGED <<effect, runs>>
    /\ UNCHANGED <<seed, key, repo, target, tools, cut, hurt>>

\* Mutant: the markers are written once all the commands have ended.
OnceMarksLast ==
    /\ pc = "once"
    /\ \E ended \in SUBSET (declared.once \ marked) :
           /\ ended # {}
           /\ effect' = effect \cup ended
           /\ runs' = [c \in Cmds |-> IF c \in ended THEN runs[c] + 1 ELSE runs[c]]
           /\ \/ /\ ended = declared.once \ marked
                 /\ marked' = marked \cup ended /\ UNCHANGED <<left, box>>
              \/ Fails /\ Fault /\ UNCHANGED marked
    /\ UNCHANGED <<seed, key, repo, target, tools, cut, hurt>>

\* A once command without a marker runs, and is marked when it ended well
\* (Breaks when it did not); the box may be lost between the two.
Once ==
    /\ pc = "once"
    /\ \E c \in declared.once \ marked :
           /\ effect' = effect \cup {c}
           /\ runs' = [runs EXCEPT ![c] = @ + 1]
           /\ \/ marked' = marked \cup {c} /\ UNCHANGED <<left, box, cut>>
              \/ Lost /\ cut' = [cut EXCEPT ![c] = @ + 1] /\ UNCHANGED marked
    /\ UNCHANGED <<seed, key, repo, target, tools, hurt>>

OnceDone == /\ pc = "once" /\ declared.once \subseteq marked /\ Goto("tools")
            /\ UNCHANGED <<left, seed, volume, runs, cut, hurt>>

\* The manifest is rewritten when it is not what the seed renders to.
Manifest ==
    /\ pc = "tools" /\ declared.pins # 0
    /\ \/ /\ manifest' = declared.pins
          /\ changed' = (manifest # declared.pins)
          /\ pc' = IF Mise \in effect THEN "install" ELSE "over"
          /\ status' = IF Mise \in effect THEN status ELSE "failed"
          /\ UNCHANGED <<left, declared, links, hurt>>
       \/ /\ manifest # declared.pins /\ manifest' = -1 /\ Lost
          /\ UNCHANGED hurt
       \/ /\ manifest # declared.pins /\ manifest' = declared.pins /\ Lost
          /\ hurt' = (hurt \/ lock # 0)
    /\ UNCHANGED <<seed, key, repo, target, effect, marked, lock, payload,
                   runs, cut>>

NoTools == /\ pc = "tools" /\ declared.pins = 0 /\ Goto("every_boot")
           /\ UNCHANGED <<left, seed, volume, runs, cut, hurt>>

\* Mutant: a lockfile is never made again.
RelocksOnce == lock = 0

\* A new manifest, or one without a lockfile: install, then lock.
Relocks == changed \/ lock = 0

\* Mutant: the tools are installed, and not locked.
RelockForgets ==
    /\ pc = "install" /\ Relocks /\ payload' = manifest
    /\ hurt' = FALSE /\ Goto("every_boot")
    /\ UNCHANGED <<left, seed, key, repo, target, effect, marked, manifest,
                   lock, runs, cut>>

Relock ==
    /\ pc = "install" /\ Relocks /\ payload' = manifest
    /\ \/ /\ lock' = manifest /\ hurt' = FALSE
          /\ Goto("every_boot") /\ UNCHANGED left
       \/ /\ (Fails /\ Fault) \/ Lost
          /\ hurt' = (hurt \/ lock # 0) /\ UNCHANGED lock
    /\ UNCHANGED <<seed, key, repo, target, effect, marked, manifest, runs, cut>>

\* Otherwise a plain `mise install`.  Told to be locked, mise refuses a
\* manifest the lockfile was not made for; else it installs what the manifest
\* pins, and may or may not bring the lockfile up to date.
Locked ==
    /\ pc = "install" /\ ~Relocks
    /\ \/ /\ manifest \in Strict => lock = manifest
          /\ lock' = lock \/ (manifest \notin Strict /\ lock' = manifest)
          /\ payload' = manifest /\ Goto("every_boot")
       \/ /\ manifest \in Strict /\ lock # manifest
          /\ Fails /\ UNCHANGED <<lock, payload>>
    /\ UNCHANGED <<left, seed, key, repo, target, effect, marked, manifest,
                   runs, cut, hurt>>

\* The every_boot commands, and the verdict.
EveryBoot == /\ pc = "every_boot" /\ pc' = "over" /\ status' = "ok"
             /\ UNCHANGED <<declared, links, changed>>
             /\ UNCHANGED <<left, seed, volume, runs, cut, hurt>>

Boots ==
    \/ Mount \/ Identity \/ Parse \/ Packages \/ Persist \/ PersistDone
    \/ Clone \/ ReposDone \/ Once \/ OnceDone \/ Manifest \/ NoTools
    \/ Relock \/ Locked \/ EveryBoot

Next == Boots \/ Breaks \/ EditSeed \/ Create \/ Delete

\* A booting box goes on, and the user replaces a box that is of no use.
Spec == /\ Init /\ [][Next]_vars
        /\ WF_vars(Boots) /\ WF_vars(Create)
        /\ WF_vars(status # "ok" /\ Delete)

-----------------------------------------------------------------------------
(* Properties.                                                             *)

\* A box whose verdict is ok carries what its seed declares, but for what an
\* earlier box was lost in the middle of writing, which looks as if it were
\* there (apply-seed.py:7-10).
OkMeansCarried ==
    status = "ok" =>
        /\ key # "none" /\ \A r \in declared.repos : repo[r] # "none"
        /\ links = Mapped
        /\ \A p \in Mapped : target[p] \in {"no", declared.persist[p]}
        /\ declared.once \subseteq effect
        /\ declared.pins # 0 => payload = declared.pins

\* What a box with verdict ok runs is what the lockfile froze, if its seed
\* keeps locked = true, as the shipped one has it (profile.default.toml:88-90).
OkMeansFrozen ==
    status = "ok" /\ declared.pins \in Strict => lock = declared.pins

\* The same of a seed without that setting: pins are frozen in a lockfile when
\* they are first materialized (apply-seed.py:271-273).  A relock cut off under
\* an older lockfile breaks it: nothing looks at the lockfile again.
PinsAreFrozen == status = "ok" /\ declared.pins # 0 => lock = declared.pins

\* A once command runs to its end once per volume, and once more only for each
\* box that was lost after that end and before the marker
\* (apply-seed.py:24-27): a later command that fails, or a box lost elsewhere,
\* repeats nothing.
OncePerVolume == \A c \in Cmds : runs[c] <= 1 + cut[c]

\* The seed cannot be applied to this volume: it does not parse, maps a path
\* to the other kind of target, pins tools without mise, or a relock was
\* interrupted and the old lockfile refuses the new manifest.
Refused ==
    \/ ~declared.parses
    \/ \E p \in Mapped : target[p] \notin {"no", declared.persist[p]}
    \/ declared.pins # 0 /\ Mise \notin declared.once \cup effect
    \/ hurt /\ declared.pins = manifest /\ manifest \in Strict

\* Replacing the box is enough to get one that carries its seed, whatever
\* failed before, unless the seed is refused.
Converges == []<>(status = "ok" \/ Refused)
=============================================================================
