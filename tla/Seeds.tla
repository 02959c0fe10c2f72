------------------------------- MODULE Seeds -------------------------------
(***************************************************************************)
(* One profile's directory in the plane's store: the live seed             *)
(* (profile.toml), its timestamped backups, the .tmp every save goes       *)
(* through, and the queue of proposals boxes hand in.  Nothing locks it:   *)
(* relay handlers, web handlers (and the CLI on the plane, which runs the  *)
(* same code) and laptops over ssh all work on the files.                  *)
(*                                                                         *)
(* Grain: a step is one system call that another process can see the       *)
(* effect of.  A file is an inode behind a name: a rename moves the inode, *)
(* and a writer that opened it goes on writing wherever it is.             *)
(***************************************************************************)
EXTENDS Integers, FiniteSets

CONSTANTS
    Boxes,      \* concurrent POST /propose requests
    Locals,     \* processes on the plane: web handlers, the CLI there
    Laptops,    \* laptop commands, over ssh
    Texts,      \* the whole seeds people and boxes write; all of them valid
    NoFile,     \* no file of that name
    First,      \* the seed the profile was created with
    MaxPending, \* relayMaxPending
    MaxTries,   \* sshMaxAttempts
    MaxSec,     \* bound: how many seconds pass (timestamps are seconds)
    MaxSeq,     \* bound: how many ids are minted in one second, less one
    MaxEvents,  \* bound: how many requests, commands and faults there are
    Faults      \* which faults may happen

\* A process is killed ("crash"); a write of a proposal, a backup or a .tmp
\* fails ("full"); ssh fails before the remote command starts ("refuse"),
\* while it reads its input ("drop") or after it finished ("lost"); one Read
\* returns only the start of a request body ("short").
Kinds == {"crash", "full", "refuse", "drop", "lost", "short"}

Empty == "empty"     \* no bytes: what O_TRUNC or O_CREAT leaves; valid TOML
Torn == "torn"       \* the start of a text, or two texts over each other
Cut == "cut"         \* the start of a text, as one Read of a body returned it

VARIABLES
    clock,  \* the current second
    disk,   \* what each inode holds
    live,   \* the inode behind profile.toml
    tmp,    \* the inode behind profile.toml.tmp, or None
    bak,    \* profile.toml.bak.<second>
    queue,  \* proposals/<second>.<n>.toml
    pc,     \* where each process is
    id,     \* the proposal each process works on, or NoId
    text,   \* the content each process holds
    fd,     \* the inode each saver writes to, or None
    ts,     \* the second each save names its backup by
    tries,  \* ssh attempts of the save under way
    late,   \* laptops with an orphaned remote shell about to `mv`
    left,   \* requests, commands and faults still to come
    shown,  \* what the reviewer was shown of id[p], or NoFile
    settled,\* observation: ... and no later write or file can have that id
    chosen, \* observation: the contents somebody typed, or was shown when
            \* accepting
    unread, \* observation: the contents the web UI saved unread: accepted
            \* from its list, or looked at before they were settled, or Cut
    ever,   \* observation: every content a rename made live
    dirty,  \* observation: the inodes two writers shared, or one left half
            \* written while its shell goes on
    excused \* observation: what the backups need not hold (see ReplacedIsKept)

files == <<disk, live, tmp, bak>>
hand == <<id, text, fd, ts, tries>>
review == <<shown, settled>>
watch == <<chosen, unread, ever, dirty, excused>>
vars == <<clock, files, queue, pc, hand, late, left, review,
          watch>>

None == 0
Savers == Locals \cup Laptops
Procs == Boxes \cup Savers
Contents == Texts \cup {Empty, Torn, Cut}
Inodes == 1..(Cardinality(Savers) + 2)
Secs == 1..MaxSec
Ids == Secs \X (0..MaxSeq)
NoId == <<0, 0>>
Entries == [by : Boxes, text : Contents]

ASSUME SeedsAssumption ==
    /\ First \in Texts /\ {Empty, Torn, Cut} \cap Texts = {}
    /\ NoFile \notin Contents \cup Entries
    /\ MaxPending \in Nat \ {0} /\ MaxTries \in Nat \ {0}
    /\ MaxSec \in Nat \ {0} /\ MaxSeq \in Nat /\ MaxEvents \in Nat
    /\ Faults \subseteq Kinds
    /\ IsFiniteSet(Boxes) /\ IsFiniteSet(Locals) /\ IsFiniteSet(Laptops)
    /\ Boxes \cap (Locals \cup Laptops) = {} /\ Locals \cap Laptops = {}

SavePc == {"backup", "open", "write", "rename"}
Pc == SavePc \cup {"idle", "counted", "created", "shown", "drop"}

TypeOK ==
    /\ clock \in Secs
    /\ disk \in [Inodes -> Contents]
    /\ live \in Inodes /\ tmp \in Inodes \cup {None}
    /\ bak \in [Secs -> Contents \cup {NoFile}]
    /\ queue \in [Ids -> Entries \cup {NoFile}]
    /\ pc \in [Procs -> Pc]
    /\ id \in [Procs -> Ids \cup {NoId}]
    /\ text \in [Procs -> Contents]
    /\ fd \in [Savers -> Inodes \cup {None}]
    /\ ts \in [Savers -> Secs]
    /\ tries \in [Savers -> 0..MaxTries]
    /\ late \subseteq Laptops
    /\ left \in 0..MaxEvents
    /\ shown \in [Savers -> Contents \cup {NoFile}]
    /\ settled \in [Savers -> BOOLEAN]
    /\ chosen \subseteq Contents /\ unread \subseteq Contents
    /\ ever \subseteq Contents /\ excused \subseteq Contents
    /\ dirty \subseteq Inodes

Init ==
    /\ clock = 1
    /\ disk = [i \in Inodes |-> IF i = 1 THEN First ELSE Empty]
    /\ live = 1 /\ tmp = None
    /\ bak = [s \in Secs |-> NoFile]
    /\ queue = [i \in Ids |-> NoFile]
    /\ pc = [p \in Procs |-> "idle"]
    /\ id = [p \in Procs |-> NoId]
    /\ text = [p \in Procs |-> Empty]
    /\ fd = [p \in Savers |-> None]
    /\ ts = [p \in Savers |-> 1]
    /\ tries = [p \in Savers |-> 0]
    /\ late = {}
    /\ left = MaxEvents
    /\ shown = [p \in Savers |-> NoFile]
    /\ settled = [p \in Savers |-> FALSE]
    /\ chosen = {First} /\ unread = {}
    /\ ever = {First} /\ dirty = {} /\ excused = {}

----------------------------------------------------------------------------
\* What the steps are made of.

Event == left > 0 /\ left' = left - 1
Fault(kind) == kind \in Faults /\ Event
NoFault == left' = left
Goto(p, label) == pc' = [pc EXCEPT ![p] = label]

\* A new command or request starts at `label`.
Start(p, label) ==
    /\ pc[p] = "idle" /\ Event
    /\ Goto(p, label)

\* What a process holds is gone when it is done.
Done(p) ==
    /\ Goto(p, "idle")
    /\ id' = [id EXCEPT ![p] = NoId] /\ text' = [text EXCEPT ![p] = Empty]

\* A saver is done; it forgets what it was shown.
Finish(p) ==
    /\ Done(p)
    /\ fd' = [fd EXCEPT ![p] = None] /\ ts' = [ts EXCEPT ![p] = 1]
    /\ tries' = [tries EXCEPT ![p] = 0]
    /\ shown' = [shown EXCEPT ![p] = NoFile]
    /\ settled' = [settled EXCEPT ![p] = FALSE]

Pending == {i \in Ids : queue[i] # NoFile}

\* A second passes.
Tick ==
    /\ clock < MaxSec
    /\ clock' = clock + 1
    /\ UNCHANGED <<files, queue, pc, hand, late, left, review, watch>>

----------------------------------------------------------------------------
\* The relay: POST /propose (relaycmd.go).  Whoever may not propose, and a
\* text validateProfile refuses, changes nothing: such requests are left out.

\* Mutant: the pending proposals are not counted.
PostUncapped(p, t) ==
    /\ Start(p, "counted")
    /\ id' = [id EXCEPT ![p] = <<clock, 0>>]
    /\ text' = [text EXCEPT ![p] = t]
    /\ UNCHANGED <<clock, files, queue, fd, ts, tries, late, review, watch>>

\* The pending proposals are counted, then the id's second is read.
PostCount(p, t) ==
    /\ Cardinality(Pending) < MaxPending
    /\ Start(p, "counted")
    /\ id' = [id EXCEPT ![p] = <<clock, 0>>]
    /\ text' = [text EXCEPT ![p] = t]
    /\ UNCHANGED <<clock, files, queue, fd, ts, tries, late, review, watch>>

\* Mutant: the file is opened without O_EXCL, whoever's it is.
FirstFreeNoExcl(sec) == {<<sec, 0>>}

\* O_EXCL: the first sequence number of the second that is not taken.
FirstFree(sec) ==
    {i \in {sec} \X (0..MaxSeq) :
        /\ queue[i] = NoFile
        /\ \A n \in 0..(i[2] - 1) : queue[<<sec, n>>] # NoFile}

\* The file is there, empty, for everyone to see.
PostCreate(p) ==
    /\ pc[p] = "counted"
    /\ \E i \in FirstFree(id[p][1]) :
        /\ queue' = [queue EXCEPT ![i] = [by |-> p, text |-> Empty]]
        /\ id' = [id EXCEPT ![p] = i]
    /\ Goto(p, "created")
    /\ UNCHANGED <<clock, files, text, fd, ts, tries, late, left, review,
                   watch>>

\* The file p created is still behind its id.
Mine(p) == queue[id[p]] # NoFile /\ queue[id[p]].by = p

\* The text is written, if somebody removed the file meanwhile to nowhere.
\* When it cannot be, the id is removed, and the box told to try again.
PostWrite(p) ==
    /\ pc[p] = "created"
    /\ \/ /\ NoFault
          /\ queue' = IF Mine(p) THEN [queue EXCEPT ![id[p]].text = text[p]]
                                 ELSE queue
       \/ Fault("full") /\ queue' = [queue EXCEPT ![id[p]] = NoFile]
    /\ Done(p)
    /\ UNCHANGED <<clock, files, fd, ts, tries, late, review, watch>>

\* The relay is killed (an upgrade restarts it) with a request under way.
PostKilled(p) ==
    /\ pc[p] \in {"counted", "created"} /\ Fault("crash")
    /\ \/ UNCHANGED queue
       \/ /\ pc[p] = "created" /\ Mine(p)
          /\ queue' = [queue EXCEPT ![id[p]].text = Torn]
    /\ Done(p)
    /\ UNCHANGED <<clock, files, fd, ts, tries, late, review, watch>>

Relay(p) ==
    \/ \E t \in Texts : PostCount(p, t)
    \/ PostCreate(p)
    \/ PostWrite(p)
    \/ PostKilled(p)

----------------------------------------------------------------------------
\* Reviewing the queue: the web UI's handlers, `daybox profile accept` and
\* `reject`, and the review `daybox up` offers.

\* No box can write under proposal i's id any more: its second is over, and
\* no request is still using it.
Over(i) ==
    /\ clock > i[1]
    /\ \A b \in Boxes : pc[b] \in {"counted", "created"} => id[b][1] # i[1]

\* The diff of a proposal is rendered.
Show(p, i) ==
    /\ queue[i] # NoFile
    /\ Start(p, "shown")
    /\ id' = [id EXCEPT ![p] = i]
    /\ shown' = [shown EXCEPT ![p] = queue[i].text]
    /\ settled' = [settled EXCEPT ![p] = Over(i)]
    /\ UNCHANGED <<clock, files, queue, text, fd, ts, tries, late, watch>>

\* Save content c as the live seed.
BeginSave(p, c) ==
    /\ text' = [text EXCEPT ![p] = c]
    /\ ts' = [ts EXCEPT ![p] = clock]
    /\ tries' = [tries EXCEPT ![p] = 1]
    /\ UNCHANGED <<clock, files, queue, fd, late, review, ever, dirty, excused>>

\* The web UI's accept reads the proposal again; if it is gone: 404.
WebAccept(p) ==
    /\ pc[p] = "shown" /\ queue[id[p]] # NoFile
    /\ Goto(p, "backup") /\ BeginSave(p, queue[id[p]].text)
    /\ chosen' = chosen \cup {shown[p]}
    /\ unread' = IF settled[p] THEN unread
                              ELSE unread \cup {queue[id[p]].text}
    /\ UNCHANGED <<id, left>>

\* The page's list has an accept button beside each id: no diff is needed.
WebAcceptListed(p, i) ==
    /\ queue[i] # NoFile
    /\ Start(p, "backup") /\ BeginSave(p, queue[i].text)
    /\ id' = [id EXCEPT ![p] = i]
    /\ unread' = unread \cup {queue[i].text}
    /\ UNCHANGED chosen

\* Mutant: the CLI moves the proposal on the plane, as it is by then.
CliAcceptMoves(p) ==
    /\ pc[p] = "shown" /\ queue[id[p]] # NoFile
    /\ Goto(p, "backup") /\ BeginSave(p, queue[id[p]].text)
    /\ chosen' = chosen \cup {shown[p]}
    /\ UNCHANGED <<id, unread, left>>

\* The CLI's accept pushes the bytes it has shown.
CliAccept(p) ==
    /\ pc[p] = "shown"
    /\ Goto(p, "backup") /\ BeginSave(p, shown[p])
    /\ chosen' = chosen \cup {shown[p]}
    /\ UNCHANGED <<id, unread, left>>

\* Rejected in a review; or, on the CLI, equal to the live seed.
Reject(p) ==
    /\ pc[p] = "shown"
    /\ Goto(p, "drop")
    /\ UNCHANGED <<clock, files, queue, hand, late, left, review, watch>>

\* `profile reject <id>` and the reject button of the list show no diff.
RejectListed(p, i) ==
    /\ queue[i] # NoFile
    /\ Start(p, "drop")
    /\ id' = [id EXCEPT ![p] = i]
    /\ UNCHANGED <<clock, files, queue, text, fd, ts, tries, late, review,
                   watch>>

\* Left pending: skipped, declined, or the process ended.
Skip(p) ==
    /\ pc[p] = "shown"
    /\ Finish(p)
    /\ UNCHANGED <<clock, files, queue, late, left, watch>>

\* The proposal is removed by its id, whatever is behind it now.
Drop(p) ==
    /\ pc[p] = "drop"
    /\ queue' = [queue EXCEPT ![id[p]] = NoFile]
    /\ Finish(p)
    /\ UNCHANGED <<clock, files, late, left, watch>>

Review(p) ==
    \/ \E i \in Ids : Show(p, i) \/ RejectListed(p, i)
    \/ p \in Locals /\ (WebAccept(p) \/ \E i \in Ids : WebAcceptListed(p, i))
    \/ CliAccept(p)
    \/ Reject(p)
    \/ Skip(p)
    \/ Drop(p)

\* `daybox profile edit`: the text was edited from what the seed was once.
Edit(p, t) ==
    /\ Start(p, "backup") /\ BeginSave(p, t)
    /\ chosen' = chosen \cup {t}
    /\ UNCHANGED <<id, unread>>

\* PUT /api/profiles/<name>: one Read of the body, which may return less.
WebPut(p, t) ==
    /\ Start(p, "backup")
    /\ \/ BeginSave(p, t) /\ UNCHANGED unread
       \/ "short" \in Faults /\ BeginSave(p, Cut) /\ unread' = unread \cup {Cut}
    /\ chosen' = chosen \cup {t}
    /\ UNCHANGED id

----------------------------------------------------------------------------
\* Saving: back the live seed up, write the .tmp, rename it.  The plane's own
\* processes run writeSeedAtomicTS, laptops pushProfile's shell line.

\* Mutant: no backup is made.
BackupSkipped(p) ==
    /\ Goto(p, "open")
    /\ UNCHANGED <<bak, excused>>

\* The live seed is copied to the backup of the save's second.  Another save
\* of that second, or an earlier attempt of this one, has had the name.
Backup(p) ==
    /\ Goto(p, "open")
    /\ bak' = [bak EXCEPT ![ts[p]] = disk[live]]
    /\ excused' = excused \cup ({bak[ts[p]]} \ {NoFile})

\* The disk is full: the backup is not there, or not all of it.
BackupTorn(p) ==
    /\ pc[p] = "backup" /\ Fault("full")
    /\ bak' \in {bak, [bak EXCEPT ![ts[p]] = Torn]}

\* The .tmp's inode, or a fresh one when there is no .tmp.
TmpInode ==
    IF tmp # None THEN tmp
    ELSE CHOOSE i \in Inodes : i # live /\ \A q \in Savers : fd[q] # i

\* Somebody else has the .tmp open, is about to rename it, or died leaving a
\* shell that is.
Shared(p) ==
    late # {} \/ \E q \in Savers \ {p} : pc[q] \in {"write", "rename"}

\* Mutant: the seed is written in place.
OpenLive(p) ==
    /\ pc[p] = "open"
    /\ disk' = [disk EXCEPT ![live] = Empty]
    /\ fd' = [fd EXCEPT ![p] = live]
    /\ dirty' = IF Shared(p) THEN dirty \cup {live} ELSE dirty
    /\ Goto(p, "write")
    /\ UNCHANGED <<clock, live, tmp, bak, queue, id, text, ts, tries, late,
                   left, review, chosen, unread, ever, excused>>

\* The .tmp is created or truncated.
OpenTmp(p) ==
    /\ pc[p] = "open"
    /\ tmp' = TmpInode
    /\ disk' = [disk EXCEPT ![TmpInode] = Empty]
    /\ fd' = [fd EXCEPT ![p] = TmpInode]
    /\ dirty' = IF Shared(p) THEN dirty \cup {TmpInode} ELSE dirty \ {TmpInode}
    /\ Goto(p, "write")
    /\ UNCHANGED <<clock, live, bak, queue, id, text, ts, tries, late, left,
                   review, chosen, unread, ever, excused>>

\* What writing c from the start of a file that holds d leaves: all of c, or
\* c with the end of a longer d.
Overlay(c, d) == IF d \in {Empty, c} THEN {c} ELSE {c, Torn}

WriteTmp(p) ==
    /\ pc[p] = "write"
    /\ \E c \in Overlay(text[p], disk[fd[p]]) :
        disk' = [disk EXCEPT ![fd[p]] = c]
    /\ fd' = [fd EXCEPT ![p] = None]
    /\ Goto(p, "rename")
    /\ UNCHANGED <<clock, live, tmp, bak, queue, id, text, ts, tries, late,
                   left, review, watch>>

\* A save is past its backup and may still replace what is live.
Active(p) == pc[p] \in {"open", "write", "rename"}

\* rename(.tmp, live): the old seed's inode is gone unless somebody has it
\* open.  `others` says whether some other save is past its backup.
Rename(others) ==
    /\ live' = tmp /\ tmp' = None
    /\ IF \E q \in Savers : fd[q] = live
         THEN UNCHANGED <<disk, dirty>>
         ELSE disk' = [disk EXCEPT ![live] = Empty] /\ dirty' = dirty \ {live}
    /\ ever' = ever \cup {disk[tmp]}
    /\ excused' = IF others THEN excused \cup {disk[tmp]} ELSE excused
    /\ UNCHANGED bak

\* ... seen by the process p that renames.
Others(p) == late # {} \/ \E q \in Savers \ {p} : Active(q)

\* After the save: an accepted proposal is removed from the queue.
Saved(p) ==
    \/ id[p] = NoId /\ Finish(p)
    \/ id[p] # NoId /\ Goto(p, "drop") /\ UNCHANGED <<hand, review>>

SaveBackup(p) ==
    /\ pc[p] = "backup" /\ Backup(p)
    /\ UNCHANGED <<clock, disk, live, tmp, queue, hand, late, left, review,
                   chosen, unread, ever, dirty>>

\* writeSeedAtomicTS stops when the backup cannot be written.
LocalNoBackup(p) ==
    /\ BackupTorn(p)
    /\ excused' = excused \cup ({bak[ts[p]]} \ {NoFile})
    /\ Finish(p)
    /\ UNCHANGED <<clock, disk, live, tmp, queue, late, chosen, unread, ever,
                   dirty>>

SaveRename(p) ==
    /\ pc[p] = "rename" /\ tmp # None
    /\ Rename(Others(p)) /\ Saved(p)
    /\ UNCHANGED <<clock, queue, late, left, chosen, unread>>

\* Another save has renamed the .tmp: an error, which ends the save.
RenameFails(p) ==
    /\ pc[p] = "rename" /\ tmp = None
    /\ Finish(p)
    /\ UNCHANGED <<clock, files, queue, late, left, watch>>

\* A write fails, or a process of the plane is killed in it: what it wrote
\* stays in the .tmp.
WriteFails(p) ==
    /\ pc[p] = "write" /\ (Fault("full") \/ (p \in Locals /\ Fault("crash")))
    /\ \E c \in {Empty, Torn} : disk' = [disk EXCEPT ![fd[p]] = c]
    /\ Finish(p)
    /\ UNCHANGED <<clock, live, tmp, bak, queue, late, watch>>

SaveKilled(p) ==
    /\ pc[p] \in {"backup", "open", "rename", "drop"} /\ Fault("crash")
    /\ Finish(p)
    /\ UNCHANGED <<clock, files, queue, late, watch>>

\* What writeSeedAtomicTS and pushProfile's shell line have in common.
Save(p) == \/ SaveBackup(p) \/ OpenTmp(p) \/ WriteTmp(p) \/ WriteFails(p)
           \/ SaveRename(p) \/ RenameFails(p)

LocalSave(p) == Save(p) \/ LocalNoBackup(p) \/ SaveKilled(p)

\* Mutant: sshRetry does not count its attempts.
AgainForever(p) ==
    /\ Goto(p, "backup")
    /\ tries' = [tries EXCEPT ![p] = @ + 1]
    /\ fd' = [fd EXCEPT ![p] = None]
    /\ UNCHANGED <<id, text, ts, review>>

\* ssh exits 255: sshFeed runs the whole line again, or gives up; or the
\* laptop's process is gone with its connection.
Again(p) ==
    \/ /\ tries[p] < MaxTries
       /\ Goto(p, "backup")
       /\ tries' = [tries EXCEPT ![p] = @ + 1]
       /\ fd' = [fd EXCEPT ![p] = None]
       /\ UNCHANGED <<id, text, ts, review>>
    \/ Finish(p)

\* The cp is followed by ";": its failure stops nothing, and the live seed
\* is about to be replaced without a backup.
PushNoBackup(p) ==
    /\ BackupTorn(p)
    /\ excused' = excused \cup {disk[live]} \cup ({bak[ts[p]]} \ {NoFile})
    /\ Goto(p, "open")
    /\ UNCHANGED <<clock, disk, live, tmp, queue, hand, late, review, chosen,
                   unread, ever, dirty>>

PushRefused(p) ==
    /\ pc[p] = "backup" /\ Fault("refuse")
    /\ Again(p)
    /\ UNCHANGED <<clock, files, queue, late, watch>>

\* When the connection drops while `cat` reads, cat sees the end of its input,
\* and the remote shell, whom nobody kills, goes on to `mv`.
PushDropped(p) ==
    /\ pc[p] = "write" /\ Fault("drop")
    /\ \E c \in {Empty, Torn} : disk' = [disk EXCEPT ![fd[p]] = c]
    /\ dirty' = dirty \cup {fd[p]}
    /\ late' = late \cup {p} /\ Again(p)
    /\ UNCHANGED <<clock, live, tmp, bak, queue, chosen, unread, ever, excused>>

PushLost(p) ==
    /\ pc[p] = "rename" /\ Fault("lost") /\ tmp # None
    /\ Rename(Others(p)) /\ Again(p)
    /\ UNCHANGED <<clock, queue, late, chosen, unread>>

Push(p) == \/ Save(p)
           \/ PushNoBackup(p) \/ PushRefused(p) \/ PushDropped(p) \/ PushLost(p)

\* The orphaned shell's `mv`; without a .tmp it fails, and nobody hears.
LateRename(p) ==
    /\ p \in late
    /\ late' = late \ {p}
    /\ \/ /\ tmp # None
          /\ Rename(late \ {p} # {} \/ \E q \in Savers : Active(q))
       \/ tmp = None /\ UNCHANGED <<files, ever, dirty, excused>>
    /\ UNCHANGED <<clock, queue, pc, hand, review, chosen, unread, left>>

Next ==
    \/ Tick
    \/ \E p \in Boxes : Relay(p)
    \/ \E p \in Savers : Review(p)
    \/ \E p \in Savers, t \in Texts : Edit(p, t)
    \/ \E p \in Locals, t \in Texts : WebPut(p, t)
    \/ \E p \in Locals : LocalSave(p)
    \/ \E p \in Laptops : Push(p) \/ LateRename(p)

Spec == Init /\ [][Next]_vars

----------------------------------------------------------------------------
\* Properties.

\* However many boxes propose at once, each adds at most one proposal past
\* relayMaxPending: the count and the file are two steps (relaycmd.go:155-174).
PendingBounded ==
    Cardinality(Pending) <= MaxPending + Cardinality(Boxes) - 1

\* A proposal, once written, changes no more: two proposals of one second
\* never overwrite each other (relaycmd.go:147-149).  It goes by a failed
\* write of the same id, or because a reviewer dropped its id.  A reviewer
\* who was shown it after its second was over, and after the requests of
\* that second had ended, drops exactly what was shown.  Exempt, because the
\* code does drop proposals nobody has read: one looked at earlier may have
\* been empty still or have got another's id (IdStaysFree), and the list's
\* buttons and `profile reject` show nothing.
KeptOrDecided(i) ==
    (queue[i] # NoFile /\ queue[i].text # Empty /\ queue'[i] # queue[i]) =>
        /\ queue'[i] = NoFile
        /\ \/ \E b \in Boxes : pc[b] = "created" /\ id[b] = i
           \/ \E p \in Savers :
                /\ pc[p] = "drop" /\ id[p] = i
                /\ settled[p] => shown[p] = queue[i].text
QueueKept == [][\A i \in Ids : KeptOrDecided(i)]_vars

\* What is live is whole, and was typed, or was shown to whoever accepted it:
\* no process killed half way, no retried ssh and no proposal handed in again
\* during the review changes that (uicmd_profiles.go:96-99,
\* proposalcmd.go:236-238).  Exempt: a seed from a .tmp that several saves
\* shared or a dropped push left (DropLeavesWholeSeed), until the next save
\* that has the .tmp to itself, which makes up for it; and what the web UI
\* saved unread (AcceptedWasShown).
LiveWasChosen == live \notin dirty => disk[live] \in chosen \cup unread

\* Every seed that a rename made live is still live or in a backup.  Exempt
\* are the seeds that went live while another save was past its own backup;
\* those whose backup a save of the same second, or a retry of the same push,
\* has overwritten; and the one that was live when the cp of a push failed
\* (NoSeedIsLost): a seed that was there before saves overlap is never lost
\* to it.
Backups == {bak[s] : s \in Secs}
ReplacedIsKept == ever \subseteq {disk[live]} \cup Backups \cup excused

\* "writing via temp + rename so a dropped connection can't leave a
\* half-written seed" (profilecmd.go:75-78).
DropLeavesWholeSeed == disk[live] \in Texts

\* A push backs "up the live file first" (profilecmd.go:75-76), and to run it
\* again is "safe because the write is idempotent" (profilecmd.go:88-89): with
\* one laptop, what was live is live or in a backup.
NoSeedIsLost == ever \subseteq {disk[live]} \cup Backups

\* Changes a box proposes are "impossible to skim past" (proposalcmd.go:152-155,
\* SECURITY.md:75-77): what is live was typed or shown to who accepted it.
AcceptedWasShown == disk[live] \in chosen

\* An id is "unique by construction: the relay mints timestamped names"
\* (proposalcmd.go:86-87): when a proposal is gone from under its reviewer,
\* no other gets its id.
IdStaysFree ==
    [][\A p \in Savers :
          pc[p] = "shown" /\ queue[id[p]] = NoFile => queue'[id[p]] = NoFile]_vars

=============================================================================
