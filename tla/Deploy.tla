------------------------------- MODULE Deploy -------------------------------
(***************************************************************************)
(* `daybox init` and `daybox upgrade`: what one operator's commands, run   *)
(* one at a time on the laptop or on the plane, leave on the plane.        *)
(*                                                                         *)
(* Grain: a step is one remote command, and in replaceTree one command of  *)
(* the remote script.  A single attempt that fails to connect changes      *)
(* nothing and its retry is not a step; "unreachable" is all of them.      *)
(* Development builds (version "dev") and the interview are left out.      *)
(***************************************************************************)
EXTENDS Integers, FiniteSets

CONSTANTS
    MaxV,       \* the releases are 1..MaxV
    MaxTries,   \* sshMaxAttempts
    MaxFaults,  \* bound on faults
    Faults      \* which faults may happen

\* No attempt connects ("unreachable"); the plane goes down, or drops the
\* input, in the middle of a remote command ("cut"); it is done and ssh fails
\* all the same ("lost"); a step of the setup fails ("failed"); the
\* operator's process dies ("killed").
Kinds == {"unreachable", "cut", "lost", "failed", "killed"}

ASSUME DeployAssumption ==
    /\ MaxV \in Nat \ {0} /\ MaxTries \in Nat \ {0}
    /\ MaxFaults \in Nat /\ Faults \subseteq Kinds

VARIABLES
    left,     \* faults still to come
    latest,   \* what the live installer publishes
    mine,     \* the laptop's own release
    conf,     \* the laptop's config.local: "none", "plain" or with "knobs"
    login,    \* who can log in on the plane's server: "none" | "root" | "user"
    tree,     \* ~/daybox
    new,      \* ~/daybox.new
    prev,     \* ~/daybox.prev
    agent,    \* ~/.config/daybox/agent/daybox-agent
    relay,    \* the relay runs, and it runs the agent binary
    cli,      \* ~/.local/bin/daybox
    token,    \* ~/.config/daybox/token: "none" | "torn" | "whole"
    net,      \* the plane is configured and headscale runs
    regd,     \* keys registered and the default's volume created
    cmd,      \* the command that runs or ran last
    at,       \* where: "laptop" | "plane"
    pc,       \* its next step; "done" and "failed" when it is over
    target,   \* the release its payload is of, or 0
    owes,     \* it holds a token to store
    kept,     \* the knobs it read from config.local
    tries,    \* failed attempts of the remote command under way
    base,     \* observation: ~/daybox when the last upgrade began
    again,    \* observation: its swap was restarted
    half,     \* observation: init found part of a tree, or misjudged a whole one
    gap,      \* observation: an init died between the two config.local steps
    added     \* observation: the user has added a knob

world == <<left, latest>>
laptop == <<mine, conf>>
trees == <<tree, new, prev>>
installed == <<agent, relay, cli>>
config == <<login, token, net, regd>>
run == <<cmd, at, pc, target, owes, kept, tries>>
watch == <<base, again, half, gap, added>>
vars == <<world, laptop, trees, installed, config, run, watch>>

Releases == 1..MaxV

\* A directory or binary: the releases its files are of, and whether the last
\* unpacking into it was finished.
Payloads == [of : SUBSET Releases, whole : BOOLEAN]
Nothing == [of |-> {}, whole |-> FALSE]
Release(v) == [of |-> {v}, whole |-> TRUE]
Over(t, v) == [of |-> t.of \cup {v}, whole |-> TRUE]
PartOver(t, v) == [of |-> t.of \cup {v}, whole |-> FALSE]
IsRelease(t) == \E v \in Releases : t = Release(v)

Swap == {"clear", "unpack", "unprev", "shelve", "place"}
Pc == Swap \cup {"provision", "login", "reach", "probe", "push", "choose",
                 "check", "copy", "store", "setup", "token", "register",
                 "shelveconf", "writeconf", "enroll", "done", "failed"}

TypeOK ==
    /\ left \in 0..MaxFaults /\ latest \in Releases
    /\ mine \in Releases /\ conf \in {"none", "plain", "knobs"}
    /\ login \in {"none", "root", "user"}
    /\ tree \in Payloads /\ new \in Payloads /\ prev \in Payloads
    /\ agent \in Payloads /\ relay \in BOOLEAN /\ cli \in Payloads
    /\ token \in {"none", "torn", "whole"}
    /\ net \in BOOLEAN /\ regd \in BOOLEAN
    /\ cmd \in {"none", "init", "upgrade"} /\ at \in {"laptop", "plane"}
    /\ pc \in Pc /\ target \in 0..MaxV
    /\ owes \in BOOLEAN /\ kept \in BOOLEAN /\ tries \in 0..(MaxTries - 1)
    /\ base \in Payloads /\ again \in BOOLEAN /\ half \in BOOLEAN
    /\ gap \in BOOLEAN /\ added \in BOOLEAN

Init ==
    /\ left = MaxFaults /\ latest = 1
    /\ mine = 1 /\ conf = "none"
    /\ login \in {"none", "user"}
    /\ tree = Nothing /\ new = Nothing /\ prev = Nothing
    /\ agent = Nothing /\ relay = FALSE /\ cli = Nothing
    /\ token = "none" /\ net = FALSE /\ regd = FALSE
    /\ cmd = "none" /\ at = "laptop" /\ pc = "done" /\ target = 0
    /\ owes = FALSE /\ kept = FALSE /\ tries = 0
    /\ base = Nothing /\ again = FALSE /\ half = FALSE /\ gap = FALSE
    /\ added = FALSE

-----------------------------------------------------------------------------
(* The control of a command.                                               *)

Idle == pc \in {"done", "failed"}

Hit(kind) == /\ kind \in Faults /\ left > 0 /\ left' = left - 1
             /\ UNCHANGED latest

Goto(next) == /\ pc' = next /\ tries' = 0
              /\ UNCHANGED <<cmd, at, target, owes, kept>>

\* A command that is over forgets what it knew.
End(how) == /\ pc' = how /\ tries' = 0 /\ UNCHANGED <<cmd, at>>
            /\ target' = 0 /\ owes' = FALSE /\ kept' = FALSE

\* log.Fatal: it ends where it is.
Fatal == End("failed")

\* ssh exited 255: sshRetry runs the whole operation again, from `first`,
\* unless its attempts are used up or the operator's process died with it.  A
\* command on the plane has no ssh: it goes down with the plane.
Again(first) ==
    \/ Fatal
    \/ /\ at = "laptop" /\ tries + 1 < MaxTries
       /\ pc' = first /\ tries' = tries + 1
       /\ UNCHANGED <<cmd, at, target, owes, kept>>

\* A new process: nothing is left of the one before.
Begin(command, where, first, v) ==
    /\ Idle
    /\ cmd' = command /\ at' = where /\ pc' = first /\ target' = v
    /\ kept' = FALSE /\ tries' = 0
    /\ base' = Nothing /\ again' = FALSE /\ half' = FALSE
    /\ UNCHANGED <<gap, added>>

\* Remote commands sshRetry gives up on; what their failure means is in the
\* actions of "probe" and "token", which take it for an answer.
Unreachable ==
    /\ pc \in {"login", "reach", "push", "check", "clear", "copy", "store",
               "setup", "register", "enroll"}
    /\ at = "laptop" /\ Hit("unreachable") /\ Fatal
    /\ UNCHANGED <<laptop, trees, installed, config, watch>>

\* The operator's process dies between two remote commands, or on the plane
\* at any time.
Killed ==
    /\ ~Idle /\ (at = "plane" \/ pc \notin Swap \ {"clear"})
    /\ Hit("killed") /\ Fatal
    /\ gap' = (gap \/ pc = "writeconf")
    /\ UNCHANGED <<laptop, trees, installed, config, base, again, half, added>>

-----------------------------------------------------------------------------
(* init: provision or adopt a server, install the tree, set it up.         *)

\* A release pinned with -version, or the laptop's own.  With --provision
\* the token goes along; --adopt needs a server one can log in to.
InitBegin == \E v \in Releases, fresh \in BOOLEAN :
    /\ fresh \/ login = "user"
    /\ Begin("init", "laptop", IF fresh THEN "provision" ELSE "reach", v)
    /\ owes' = fresh
    /\ UNCHANGED <<world, laptop, trees, installed, config>>

\* ensureServer finds the server by its name or creates it; its answer may
\* get lost, and a server may never answer on port 22.
Provision ==
    /\ pc = "provision"
    /\ \/ Goto("login") /\ UNCHANGED world
       \/ Fatal /\ (Hit("failed") \/ Hit("lost"))
    /\ login' = IF login = "none" THEN "root" ELSE login
    /\ UNCHANGED <<laptop, trees, installed, token, net, regd, watch>>

\* The user is created over root's ssh, whatever part of it exists already.
LoginUser ==
    /\ pc = "login"
    /\ \/ Goto("reach") /\ UNCHANGED world
       \/ Again("login") /\ Hit("lost")
    /\ login' = "user"
    /\ UNCHANGED <<laptop, trees, installed, token, net, regd, watch>>

Reach ==
    /\ pc = "reach" /\ Goto("probe")
    /\ UNCHANGED <<world, laptop, trees, installed, config, watch>>

\* `test -d ~/daybox`; an error of any kind means there is none.
Probe ==
    /\ pc = "probe"
    /\ \/ /\ Goto(IF tree = Nothing THEN "push" ELSE "copy")
          /\ half' = (tree # Nothing /\ ~IsRelease(tree))
          /\ UNCHANGED world
       \/ Goto("push") /\ Hit("unreachable") /\ half' = (tree # Nothing)
    /\ UNCHANGED <<laptop, trees, installed, config, base, again, gap, added>>

\* pushTree unpacks over whatever is there.  A cut ends it early, and every
\* attempt unpacks everything again.
Push ==
    /\ pc = "push"
    /\ \/ /\ tree' = Over(tree, target)
          /\ \/ Goto("copy") /\ UNCHANGED world
             \/ Again("push") /\ Hit("lost")
       \/ tree' = PartOver(tree, target) /\ Again("push") /\ Hit("cut")
    /\ UNCHANGED <<laptop, new, prev, installed, config, watch>>

\* From the laptop scp opens the agent binary in place, which the kernel
\* refuses while the relay executes it; a cut leaves part of it, and scp is
\* not retried.  On the plane copyFileAtomic renames a complete copy over it.
Copy ==
    /\ pc = "copy"
    /\ \/ /\ at = "laptop" => ~relay
          /\ agent' = Release(target)
          /\ \/ Goto(IF owes THEN "store" ELSE "setup") /\ UNCHANGED world
             \/ at = "laptop" /\ Fatal /\ Hit("lost")
       \/ at = "laptop" /\ relay /\ Fatal /\ UNCHANGED <<world, agent>>
       \/ /\ at = "laptop" /\ ~relay /\ Fatal /\ Hit("cut")
          /\ agent' = PartOver(Nothing, target)
    /\ UNCHANGED <<laptop, trees, relay, cli, config, watch>>

\* The token goes over ssh's input; every attempt gets a reader of its own.
Store ==
    /\ pc = "store"
    /\ \/ /\ token' = "whole"
          /\ \/ Goto("setup") /\ UNCHANGED world
             \/ Again("store") /\ Hit("lost")
       \/ token' = "torn" /\ Again("store") /\ Hit("cut")
    /\ UNCHANGED <<laptop, trees, installed, login, net, regd, watch>>

-----------------------------------------------------------------------------
(* What init and upgrade end with.                                         *)

\* install.sh copies the tree's binary and enables the services; a relay that
\* runs goes on running what it started with.
Install ==
    /\ \E v \in tree.of : cli' = Release(v)
    /\ relay' = (relay \/ IsRelease(agent))

\* Mutant: the script without `set -e` ends well whatever failed.
SetupNoErrexit ==
    /\ pc = "setup" /\ Goto("token")
    /\ \/ Install /\ net' = TRUE /\ UNCHANGED world
       \/ Install /\ UNCHANGED net /\ Hit("failed")
    /\ UNCHANGED <<laptop, trees, agent, login, token, regd, watch>>

\* controlplane-setup.sh: install.sh, then headscale.  It may end before, while
\* install.sh copies the binary, between the two or after both; part of a tree
\* may lack what they need.
Setup ==
    /\ pc = "setup"
    /\ \/ /\ Install /\ net' = TRUE
          /\ \/ Goto("token") /\ UNCHANGED world
             \/ at = "laptop" /\ Again("setup") /\ Hit("lost")
       \/ /\ Install \/ UNCHANGED <<cli, relay>>
          /\ UNCHANGED net
          /\ \/ Fatal /\ Hit("failed")
             \/ Again("setup") /\ Hit("cut")
             \/ ~IsRelease(tree) /\ Fatal /\ UNCHANGED world
       \/ /\ \E v \in tree.of : cli' = PartOver(Nothing, v)
          /\ UNCHANGED <<relay, net>> /\ Again("setup") /\ Hit("cut")
    /\ UNCHANGED <<laptop, trees, agent, login, token, regd, watch>>

\* upgrade is over here; init goes on with the laptop.
AfterToken == IF cmd = "init" THEN Goto("shelveconf") ELSE End("done")

\* `test -f token`; an error of any kind means there is none.
HasToken ==
    /\ pc = "token"
    /\ \/ /\ IF token = "none" THEN AfterToken ELSE Goto("register")
          /\ UNCHANGED world
       \/ at = "laptop" /\ AfterToken /\ Hit("unreachable")
    /\ UNCHANGED <<laptop, trees, installed, config, watch>>

\* `daybox setup`, run by the binary install.sh installed: it checks the
\* token before it registers anything, and skips what exists.
Register ==
    /\ pc = "register"
    /\ \/ token = "torn" /\ Fatal /\ UNCHANGED <<world, regd>>
       \/ /\ token = "whole" /\ regd' = TRUE
          /\ \/ AfterToken /\ UNCHANGED world
             \/ at = "laptop" /\ Again("register") /\ Hit("lost")
       \/ token = "whole" /\ Fatal /\ Hit("failed") /\ UNCHANGED regd
    /\ UNCHANGED <<laptop, trees, installed, login, token, net, watch>>

\* writeLocalConfig reads the file, renames it to .bak ...
ShelveConf ==
    /\ pc = "shelveconf"
    /\ kept' = (conf = "knobs") /\ pc' = "writeconf" /\ tries' = 0
    /\ conf' = "none"
    /\ UNCHANGED <<cmd, at, target, owes>>
    /\ UNCHANGED <<world, mine, trees, installed, config, watch>>

\* Mutant: the knobs are not carried forward.
WriteConfPlain ==
    /\ pc = "writeconf" /\ conf' = "plain" /\ Goto("enroll")
    /\ UNCHANGED <<world, mine, trees, installed, config, watch>>

\* ... and writes its own values and the knobs it read.
WriteConf ==
    /\ pc = "writeconf" /\ conf' = IF kept THEN "knobs" ELSE "plain"
    /\ Goto("enroll")
    /\ UNCHANGED <<world, mine, trees, installed, config, watch>>

\* enroll mints a key on the plane and joins the net with it.
Enroll ==
    /\ pc = "enroll"
    /\ \/ End("done") /\ UNCHANGED world
       \/ Fatal /\ Hit("failed")
    /\ UNCHANGED <<laptop, trees, installed, config, watch>>

InitStep == InitBegin \/ Provision \/ LoginUser \/ Reach \/ Probe \/ Push

-----------------------------------------------------------------------------
(* upgrade: choose a release, replace the tree, then as init.              *)

\* With -version v, or the live release, from the laptop if it is set up.
UpgradeBegin(where, pinned, v) ==
    /\ IF where = "laptop" THEN conf # "none"
       ELSE tree # Nothing /\ agent # Nothing /\ IsRelease(cli)
    /\ Begin("upgrade", where, IF pinned THEN "check" ELSE "choose", v)
    /\ owes' = FALSE
    /\ UNCHANGED <<world, laptop, trees, installed, config>>

\* The laptop installs a newer live release and becomes it; otherwise, and
\* when the installer cannot be reached, it pushes its own.
ChooseOnLaptop ==
    /\ pc = "choose" /\ at = "laptop"
    /\ \/ /\ latest > mine /\ mine' = latest /\ Goto("choose")
          /\ UNCHANGED world
       \/ latest > mine /\ Fatal /\ Hit("failed") /\ UNCHANGED mine
       \/ /\ IF latest <= mine THEN UNCHANGED world ELSE Hit("unreachable")
          /\ target' = mine /\ pc' = "check" /\ tries' = 0
          /\ UNCHANGED <<cmd, at, owes, kept, mine>>
    /\ UNCHANGED <<conf, trees, installed, config, watch>>

\* Mutant: goes on with no release when the live one cannot be learnt.
ChooseUnlearnt ==
    /\ pc = "choose" /\ at = "plane"
    /\ target' \in {0, latest} /\ pc' = "check" /\ tries' = 0
    /\ UNCHANGED <<world, cmd, at, owes, kept>>
    /\ UNCHANGED <<laptop, trees, installed, config, watch>>

\* The plane takes the live release, unless it is older than the binary that
\* runs, or cannot be learnt.
ChooseOnPlane ==
    /\ pc = "choose" /\ at = "plane"
    /\ \/ /\ \A v \in cli.of : latest >= v
          /\ target' = latest /\ pc' = "check" /\ tries' = 0
          /\ UNCHANGED <<world, cmd, at, owes, kept>>
       \/ (\E v \in cli.of : latest < v) /\ Fatal /\ UNCHANGED world
       \/ Fatal /\ Hit("unreachable")
    /\ UNCHANGED <<laptop, trees, installed, config, watch>>

\* `test -d ~/daybox`: nothing is touched before.
Check ==
    /\ pc = "check"
    /\ IF tree = Nothing
       THEN Fatal /\ UNCHANGED <<base, again>>
       ELSE Goto("clear") /\ base' = tree /\ again' = FALSE
    /\ UNCHANGED <<world, laptop, trees, installed, config, half, gap, added>>

\* Mutant: unpacks into what an earlier attempt left.
ClearKeeps ==
    /\ pc = "clear" /\ pc' = "unpack"
    /\ UNCHANGED <<cmd, at, target, owes, kept, tries>>
    /\ UNCHANGED <<world, laptop, trees, installed, config, watch>>

\* Mutant: mkdir without the rm before it.
ClearRefuses ==
    /\ pc = "clear" /\ UNCHANGED new
    /\ IF new # Nothing THEN Fatal
       ELSE pc' = "unpack" /\ UNCHANGED <<cmd, at, target, owes, kept, tries>>
    /\ UNCHANGED <<world, laptop, tree, prev, installed, config, watch>>

Clear ==
    /\ pc = "clear" /\ new' = Nothing
    /\ pc' = "unpack"
    /\ UNCHANGED <<cmd, at, target, owes, kept, tries>>
    /\ UNCHANGED <<world, laptop, tree, prev, installed, config, watch>>

Unpack ==
    /\ pc = "unpack" /\ new' = Over(new, target)
    /\ pc' = "unprev"
    /\ UNCHANGED <<cmd, at, target, owes, kept, tries>>
    /\ UNCHANGED <<world, laptop, tree, prev, installed, config, watch>>

\* Mutant: the old previous tree stays.
UnprevSkipped ==
    /\ pc = "unprev" /\ pc' = "shelve"
    /\ UNCHANGED <<cmd, at, target, owes, kept, tries>>
    /\ UNCHANGED <<world, laptop, trees, installed, config, watch>>

Unprev ==
    /\ pc = "unprev" /\ prev' = Nothing
    /\ pc' = "shelve"
    /\ UNCHANGED <<cmd, at, target, owes, kept, tries>>
    /\ UNCHANGED <<world, laptop, tree, new, installed, config, watch>>

\* `mv ~/daybox ~/daybox.prev` fails when there is no tree, and puts it inside
\* ~/daybox.prev if that is there.
Shelve ==
    /\ pc = "shelve"
    /\ IF tree = Nothing
       THEN Fatal /\ UNCHANGED trees
       ELSE /\ prev' = IF prev = Nothing THEN tree ELSE prev
            /\ tree' = Nothing /\ pc' = "place"
            /\ UNCHANGED <<new, cmd, at, target, owes, kept, tries>>
    /\ UNCHANGED <<world, laptop, installed, config, watch>>

\* `mv ~/daybox.new ~/daybox`, the end of the script.
Place ==
    /\ pc = "place" /\ tree' = new /\ new' = Nothing
    /\ \/ Goto("copy") /\ UNCHANGED <<world, again>>
       \/ /\ at = "laptop" /\ Again("clear") /\ Hit("lost")
          /\ again' = (again \/ pc' = "clear")
    /\ UNCHANGED <<laptop, prev, installed, config, base, half, gap, added>>

\* The plane goes down, or tar's input ends early, between two commands of
\* the script or while it unpacks; sshRetry starts the script over.
SwapCut ==
    /\ pc \in Swap /\ Again("clear") /\ Hit("cut")
    /\ again' = (again \/ pc' = "clear")
    /\ new' = IF pc = "unpack" THEN PartOver(new, target) ELSE new
    /\ UNCHANGED <<laptop, tree, prev, installed, config, base, half, gap, added>>

UpgradeStep ==
    \/ ChooseOnLaptop \/ ChooseOnPlane \/ Check
    \/ Clear \/ Unpack \/ Unprev \/ Shelve \/ Place \/ SwapCut

-----------------------------------------------------------------------------
(* What happens meanwhile.                                                 *)

\* A release is published.
Publish == /\ latest < MaxV /\ latest' = latest + 1
           /\ UNCHANGED <<left, laptop, trees, installed, config, run,
                          watch>>

\* The user adds a knob to config.local.
AddKnob == /\ Idle /\ conf = "plain" /\ conf' = "knobs"
           /\ added' = TRUE
           /\ UNCHANGED <<world, mine, trees, installed, config, run,
                          base, again, half, gap>>

\* The relay exits, or systemd starts it again.
RelayFlips ==
    /\ IF relay THEN relay' = FALSE ELSE cli # Nothing /\ IsRelease(agent)
                                         /\ relay' = TRUE
    /\ UNCHANGED <<world, laptop, trees, agent, cli, config, run, watch>>

TailStep == \/ Copy \/ Store \/ Setup \/ HasToken \/ Register
            \/ ShelveConf \/ WriteConf \/ Enroll

Next ==
    \/ InitStep \/ TailStep \/ UpgradeStep
    \/ \E where \in {"laptop", "plane"}, pinned \in BOOLEAN, v \in Releases :
           UpgradeBegin(where, pinned, v)
    \/ Unreachable \/ Killed
    \/ Publish \/ AddKnob \/ RelayFlips

\* A command that runs goes on, and the operator re-runs the two commands
\* until they work: init, and from either side an upgrade to the newest one.
Spec ==
    /\ Init /\ [][Next]_vars
    /\ WF_vars(~Idle /\ (InitStep \/ TailStep \/ UpgradeStep))
    /\ SF_vars(InitBegin) /\ SF_vars(UpgradeBegin("plane", TRUE, MaxV))
    /\ SF_vars(UpgradeBegin("laptop", TRUE, MaxV))

-----------------------------------------------------------------------------
(* Properties.                                                             *)

\* Whatever goes wrong in an upgrade, and wherever it stops, the release that
\* was in place when it began is still whole at ~/daybox or ~/daybox.prev,
\* unless sshRetry ran the swap of one command twice (upgradecmd.go:152).
OldTreeKept == IsRelease(base) /\ ~again => base \in {tree, prev}

Reports(command) == cmd = command /\ pc # "done" /\ pc' = "done"

\* An upgrade that reports success leaves one release everywhere: the tree,
\* the agent boxes get, and the plane's own binary.
DoneIsOneRelease ==
    [][Reports("upgrade") =>
           tree' = Release(target) /\ agent' = tree' /\ cli' = tree']_vars

\* An init that reports success leaves a whole release that the plane's binary
\* is of, with headscale and the token it brought, and with everything
\* registered if nothing went wrong, unless it found part of a tree or took a
\* whole one for none.
InitLeavesWholePlane ==
    [][Reports("init") /\ ~half =>
           /\ IsRelease(tree') /\ cli' = tree' /\ net'
           /\ owes => token' = "whole" /\ (regd' \/ left < MaxFaults)]_vars

\* A knob the user added to config.local survives every init, unless one
\* died between the rename and the write (config.go:84-90).
KnobsSurvive ==
    added /\ ~gap => conf = "knobs" \/ (pc = "writeconf" /\ kept)

OneRelease == IsRelease(tree) /\ agent = tree /\ cli = tree

\* Two ways out of the commands' reach: part of a tree on a plane no laptop is
\* set up for, which init takes for an installed one; and a binary cut off
\* while a relay runs, which refuses scp when the plane cannot upgrade itself.
Stuck ==
    \/ conf = "none" /\ tree # Nothing /\ ~IsRelease(tree)
    \/ relay /\ ~IsRelease(cli)

\* No fault leaves the plane where running the commands again cannot bring it
\* back to one release, but for a binary cut off under a running relay.
Heals == []<>(OneRelease \/ Stuck)

\* upgradecmd.go:3 promises "bring the laptop and the control plane to the
\* live release in one command": without a fault it does not fail.
LaptopUpgradeWorks ==
    cmd = "upgrade" /\ at = "laptop" /\ pc = "failed" => left < MaxFaults
=============================================================================
