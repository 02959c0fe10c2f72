------------------------------ MODULE SeedsProofs ------------------------------
(***************************************************************************)
(* The properties of Seeds, for any boxes, web handlers, laptops, texts    *)
(* and faults.                                                             *)
(***************************************************************************)
EXTENDS Seeds, FiniteSetTheorems, TLAPS

-----------------------------------------------------------------------------
(* Types, in parts, and what a process has in hand where it is.            *)

FilesOK ==
    /\ clock \in Secs /\ left \in 0..MaxEvents
    /\ disk \in [Inodes -> Contents]
    /\ live \in Inodes /\ tmp \in Inodes \cup {None}
    /\ bak \in [Secs -> Contents \cup {NoFile}]
    /\ late \subseteq Laptops
QueueOK == queue \in [Ids -> Entries \cup {NoFile}]
HandOK ==
    /\ pc \in [Procs -> Pc] /\ id \in [Procs -> Ids \cup {NoId}]
    /\ text \in [Procs -> Contents]
SaveOK ==
    /\ fd \in [Savers -> Inodes \cup {None}] /\ ts \in [Savers -> Secs]
    /\ tries \in [Savers -> 0..MaxTries]
ReviewOK ==
    /\ shown \in [Savers -> Contents \cup {NoFile}]
    /\ settled \in [Savers -> BOOLEAN]
WatchOK ==
    /\ chosen \subseteq Contents /\ unread \subseteq Contents
    /\ ever \subseteq Contents /\ excused \subseteq Contents
    /\ dirty \subseteq Inodes

BoxHeld(b) ==
    /\ pc[b] \in {"idle", "counted", "created"}
    /\ pc[b] # "idle" => id[b] \in Ids
SaverHeld(p) ==
    /\ pc[p] \notin {"counted", "created"}
    /\ pc[p] \in {"shown", "drop"} => id[p] \in Ids
    /\ pc[p] = "shown" => shown[p] \in Contents
    /\ pc[p] = "write" <=> fd[p] # None
    /\ fd[p] \in Inodes \cup {None}
Held ==
    /\ \A b \in Boxes : BoxHeld(b)
    /\ \A p \in Savers : SaverHeld(p)
    /\ tmp # live

Typed == FilesOK /\ QueueOK /\ HandOK /\ SaveOK /\ ReviewOK /\ WatchOK /\ Held

LEMMA TypeParts == Typed => TypeOK
BY DEF Typed, TypeOK, FilesOK, QueueOK, HandOK, SaveOK, ReviewOK, WatchOK

LEMMA SaversFinite ==
    IsFiniteSet(Savers) /\ Cardinality(Savers) \in Nat
BY SeedsAssumption, FS_Union, FS_CardinalityType DEF Savers

LEMMA Sorts ==
    /\ Boxes \subseteq Procs /\ Savers \subseteq Procs
    /\ Locals \subseteq Savers /\ Laptops \subseteq Savers
    /\ Boxes \cap Savers = {} /\ Locals \cap Laptops = {}
    /\ Texts \subseteq Contents /\ Empty \in Contents /\ Torn \in Contents /\ Cut \in Contents
    /\ NoFile \notin Contents /\ NoFile \notin Entries
    /\ None \notin Inodes /\ NoId \notin Ids /\ 1 \in Secs /\ 1 \in Inodes
BY SeedsAssumption, SaversFinite
   DEF Procs, Savers, Contents, None, Inodes, NoId, Ids, Secs

LEMMA IdSorts ==
    /\ \A s \in Secs : <<s, 0>> \in Ids
    /\ \A i \in Ids : i[1] \in Secs
    /\ \A s \in Secs : FirstFree(s) \subseteq Ids
    /\ \A b \in Boxes, t \in Contents : [by |-> b, text |-> t] \in Entries
    /\ \A e \in Entries : e.by \in Boxes /\ e.text \in Contents
BY SeedsAssumption DEF Ids, Secs, FirstFree, Entries

\* The steps of Next, each with the process it belongs to.
LEMMA AllSteps ==
    ASSUME [Next]_vars
    PROVE  \/ Tick
           \/ \E b \in Boxes, t \in Texts : PostCount(b, t)
           \/ \E b \in Boxes : PostCreate(b)
           \/ \E b \in Boxes : PostWrite(b)
           \/ \E b \in Boxes : PostKilled(b)
           \/ \E p \in Savers, i \in Ids : Show(p, i)
           \/ \E p \in Locals : WebAccept(p)
           \/ \E p \in Savers : CliAccept(p)
           \/ \E p \in Savers : Reject(p)
           \/ \E p \in Savers : Skip(p)
           \/ \E p \in Savers : Drop(p)
           \/ \E p \in Savers, t \in Texts : Edit(p, t)
           \/ \E p \in Locals, t \in Texts : WebPut(p, t)
           \/ \E p \in Savers : SaveBackup(p)
           \/ \E p \in Savers : OpenTmp(p)
           \/ \E p \in Savers : WriteTmp(p)
           \/ \E p \in Savers : WriteFails(p)
           \/ \E p \in Savers : SaveRename(p)
           \/ \E p \in Savers : RenameFails(p)
           \/ \E p \in Locals : SaveKilled(p)
           \/ \E p \in Laptops : PushNoBackup(p)
           \/ \E p \in Laptops : PushRefused(p)
           \/ \E p \in Laptops : PushDropped(p)
           \/ \E p \in Laptops : PushLost(p)
           \/ \E p \in Laptops : LateRename(p)
           \/ \E p \in Locals, i \in Ids : WebAcceptListed(p, i)
           \/ \E p \in Savers, i \in Ids : RejectListed(p, i)
           \/ \E p \in Locals : LocalNoBackup(p)
           \/ UNCHANGED vars
BY DEF Next, Relay, Review, LocalSave, Push, Save, Savers

\* There is an inode left for the .tmp: each saver has at most one open.
LEMMA TmpIsFresh ==
    ASSUME Typed
    PROVE  /\ TmpInode \in Inodes /\ TmpInode # live
           /\ tmp # None => TmpInode = tmp
           /\ tmp = None => \A q \in Savers : fd[q] # TmpInode
<1> DEFINE Open == {fd[q] : q \in Savers}
           Used == Open \cup {live}
<1>1. IsFiniteSet(Open) /\ Cardinality(Open) <= Cardinality(Savers)
  <2>1. fd \in Surjection(Savers, Open)
      BY DEF Surjection, Typed, SaveOK
  <2> QED BY <2>1, SaversFinite, FS_Surjection
<1>2. IsFiniteSet(Used) /\ Cardinality(Used) <= Cardinality(Savers) + 1
  <2>1. Cardinality(Open) \in Nat BY <1>1, FS_CardinalityType
  <2>2. IsFiniteSet(Used)
        /\ Cardinality(Used) = IF live \in Open THEN Cardinality(Open)
                                ELSE Cardinality(Open) + 1
      BY <1>1, FS_AddElement
  <2> HIDE DEF Open, Used
  <2> QED BY <1>1, <2>1, <2>2, SaversFinite
<1>3. IsFiniteSet(Inodes) /\ Cardinality(Inodes) = Cardinality(Savers) + 2
    BY SaversFinite, FS_Interval DEF Inodes
<1>4. ~(Inodes \subseteq Used)
    BY <1>2, <1>3, FS_Subset, FS_CardinalityType, SaversFinite
<1>5. \E i \in Inodes : i # live /\ \A q \in Savers : fd[q] # i
    BY <1>4
<1>6. CASE tmp = None
    BY <1>5, <1>6 DEF TmpInode
<1>7. CASE tmp # None
    BY <1>7 DEF TmpInode, Typed, FilesOK, Held, SaverHeld
<1> QED BY <1>6, <1>7

\* The types of the files.
LEMMA FilesKept ==
    ASSUME Typed, [Next]_vars
    PROVE  FilesOK'
<1> USE SeedsAssumption, Sorts, IdSorts, TmpIsFresh DEF Typed, FilesOK,
       Held, BoxHeld, SaverHeld, HandOK, SaveOK, FilesOK, None, files, hand,
       review, watch, Start, Goto, Done, Finish, Event, Fault, NoFault
<1>1. CASE Tick
    BY <1>1 DEF Tick, Secs
<1>2. ASSUME NEW b \in Boxes, NEW t \in Texts, PostCount(b, t) PROVE FilesOK'
    BY <1>2 DEF PostCount, Pending
<1>3. ASSUME NEW b \in Boxes, PostCreate(b) PROVE FilesOK'
    BY <1>3 DEF PostCreate, FirstFree
<1>4. ASSUME NEW b \in Boxes, PostWrite(b) PROVE FilesOK'
    BY <1>4 DEF PostWrite, Mine
<1>5. ASSUME NEW b \in Boxes, PostKilled(b) PROVE FilesOK'
    BY <1>5 DEF PostKilled, Mine
<1>6. ASSUME NEW p \in Savers, NEW i \in Ids, Show(p, i) PROVE FilesOK'
    BY <1>6 DEF Show
<1>7. ASSUME NEW p \in Locals, WebAccept(p) PROVE FilesOK'
    BY <1>7 DEF WebAccept, BeginSave
<1>8. ASSUME NEW p \in Savers, CliAccept(p) PROVE FilesOK'
    BY <1>8 DEF CliAccept, BeginSave
<1>9. ASSUME NEW p \in Savers, Reject(p) PROVE FilesOK'
    BY <1>9 DEF Reject
<1>10. ASSUME NEW p \in Savers, Skip(p) PROVE FilesOK'
    BY <1>10 DEF Skip
<1>11. ASSUME NEW p \in Savers, Drop(p) PROVE FilesOK'
    BY <1>11 DEF Drop
<1>12. ASSUME NEW p \in Savers, NEW t \in Texts, Edit(p, t) PROVE FilesOK'
    BY <1>12 DEF Edit, BeginSave
<1>13. ASSUME NEW p \in Locals, NEW t \in Texts, WebPut(p, t) PROVE FilesOK'
    BY <1>13 DEF WebPut, BeginSave
<1>14. ASSUME NEW p \in Savers, SaveBackup(p) PROVE FilesOK'
    BY <1>14 DEF SaveBackup, Backup
<1>15. ASSUME NEW p \in Savers, OpenTmp(p) PROVE FilesOK'
    BY <1>15 DEF OpenTmp
<1>16. ASSUME NEW p \in Savers, WriteTmp(p) PROVE FilesOK'
    BY <1>16 DEF WriteTmp, Overlay
<1>17. ASSUME NEW p \in Savers, WriteFails(p) PROVE FilesOK'
    BY <1>17 DEF WriteFails
<1>18. ASSUME NEW p \in Savers, SaveRename(p) PROVE FilesOK'
    BY <1>18 DEF SaveRename, Rename, Saved
<1>19. ASSUME NEW p \in Savers, RenameFails(p) PROVE FilesOK'
    BY <1>19 DEF RenameFails
<1>20. ASSUME NEW p \in Locals, SaveKilled(p) PROVE FilesOK'
    BY <1>20 DEF SaveKilled
<1>21. ASSUME NEW p \in Laptops, PushNoBackup(p) PROVE FilesOK'
    BY <1>21 DEF PushNoBackup, BackupTorn
<1>22. ASSUME NEW p \in Laptops, PushRefused(p) PROVE FilesOK'
    BY <1>22 DEF PushRefused, Again
<1>23. ASSUME NEW p \in Laptops, PushDropped(p) PROVE FilesOK'
    BY <1>23 DEF PushDropped, Again
<1>24. ASSUME NEW p \in Laptops, PushLost(p) PROVE FilesOK'
    BY <1>24 DEF PushLost, Rename, Again
<1>25. ASSUME NEW p \in Laptops, LateRename(p) PROVE FilesOK'
    BY <1>25 DEF LateRename, Rename
<1>26. ASSUME NEW p \in Locals, NEW i \in Ids, WebAcceptListed(p, i) PROVE FilesOK'
    BY <1>26 DEF WebAcceptListed, BeginSave
<1>27. ASSUME NEW p \in Savers, NEW i \in Ids, RejectListed(p, i) PROVE FilesOK'
    BY <1>27 DEF RejectListed
<1>28. ASSUME NEW p \in Locals, LocalNoBackup(p) PROVE FilesOK'
    BY <1>28 DEF LocalNoBackup, BackupTorn
<1>29. CASE UNCHANGED vars
    BY <1>29 DEF vars
<1> QED
    BY <1>1, <1>2, <1>3, <1>4, <1>5, <1>6, <1>7, <1>8, <1>9, <1>10,
       <1>11, <1>12, <1>13, <1>14, <1>15, <1>16, <1>17, <1>18, <1>19,
       <1>20, <1>21, <1>22, <1>23, <1>24, <1>25, <1>26, <1>27, <1>28,
       <1>29, AllSteps

\* The types of the queue.
LEMMA QueueTyped ==
    ASSUME Typed, [Next]_vars
    PROVE  QueueOK'
<1> USE SeedsAssumption, Sorts, IdSorts DEF Typed, QueueOK, Held, BoxHeld,
       SaverHeld, HandOK, files, hand, review, watch, Start, Goto, Done,
       Finish, Event, Fault, NoFault
<1>1. CASE Tick
    BY <1>1 DEF Tick
<1>2. ASSUME NEW b \in Boxes, NEW t \in Texts, PostCount(b, t) PROVE QueueOK'
    BY <1>2 DEF PostCount, Pending
<1>3. ASSUME NEW b \in Boxes, PostCreate(b) PROVE QueueOK'
    BY <1>3 DEF PostCreate, FirstFree
<1>4. ASSUME NEW b \in Boxes, PostWrite(b) PROVE QueueOK'
  <2>1. \/ queue' = queue
        \/ queue' = [queue EXCEPT ![id[b]] = NoFile]
        \/ queue[id[b]] # NoFile /\ queue' = [queue EXCEPT ![id[b]].text = text[b]]
      BY <1>4 DEF PostWrite, Mine
  <2>2. id[b] \in Ids /\ text[b] \in Contents
      BY <1>4 DEF PostWrite
  <2>3. ASSUME queue[id[b]] # NoFile
        PROVE  [queue[id[b]] EXCEPT !.text = text[b]] \in Entries
      BY <2>2, <2>3 DEF Entries
  <2> QED BY <2>1, <2>2, <2>3
<1>5. ASSUME NEW b \in Boxes, PostKilled(b) PROVE QueueOK'
  <2>1. \/ queue' = queue
        \/ /\ queue[id[b]] # NoFile /\ pc[b] = "created"
           /\ queue' = [queue EXCEPT ![id[b]].text = Torn]
      BY <1>5 DEF PostKilled, Mine
  <2>2. ASSUME queue[id[b]] # NoFile, pc[b] = "created"
        PROVE  id[b] \in Ids /\ [queue[id[b]] EXCEPT !.text = Torn] \in Entries
      BY <2>2 DEF Entries
  <2> QED BY <2>1, <2>2
<1>6. ASSUME NEW p \in Savers, NEW i \in Ids, Show(p, i) PROVE QueueOK'
    BY <1>6 DEF Show
<1>7. ASSUME NEW p \in Locals, WebAccept(p) PROVE QueueOK'
    BY <1>7 DEF WebAccept, BeginSave
<1>8. ASSUME NEW p \in Savers, CliAccept(p) PROVE QueueOK'
    BY <1>8 DEF CliAccept, BeginSave
<1>9. ASSUME NEW p \in Savers, Reject(p) PROVE QueueOK'
    BY <1>9 DEF Reject
<1>10. ASSUME NEW p \in Savers, Skip(p) PROVE QueueOK'
    BY <1>10 DEF Skip
<1>11. ASSUME NEW p \in Savers, Drop(p) PROVE QueueOK'
    BY <1>11 DEF Drop
<1>12. ASSUME NEW p \in Savers, NEW t \in Texts, Edit(p, t) PROVE QueueOK'
    BY <1>12 DEF Edit, BeginSave
<1>13. ASSUME NEW p \in Locals, NEW t \in Texts, WebPut(p, t) PROVE QueueOK'
    BY <1>13 DEF WebPut, BeginSave
<1>14. ASSUME NEW p \in Savers, SaveBackup(p) PROVE QueueOK'
    BY <1>14 DEF SaveBackup, Backup
<1>15. ASSUME NEW p \in Savers, OpenTmp(p) PROVE QueueOK'
    BY <1>15 DEF OpenTmp
<1>16. ASSUME NEW p \in Savers, WriteTmp(p) PROVE QueueOK'
    BY <1>16 DEF WriteTmp, Overlay
<1>17. ASSUME NEW p \in Savers, WriteFails(p) PROVE QueueOK'
    BY <1>17 DEF WriteFails
<1>18. ASSUME NEW p \in Savers, SaveRename(p) PROVE QueueOK'
    BY <1>18 DEF SaveRename, Rename, Saved
<1>19. ASSUME NEW p \in Savers, RenameFails(p) PROVE QueueOK'
    BY <1>19 DEF RenameFails
<1>20. ASSUME NEW p \in Locals, SaveKilled(p) PROVE QueueOK'
    BY <1>20 DEF SaveKilled
<1>21. ASSUME NEW p \in Laptops, PushNoBackup(p) PROVE QueueOK'
    BY <1>21 DEF PushNoBackup, BackupTorn
<1>22. ASSUME NEW p \in Laptops, PushRefused(p) PROVE QueueOK'
    BY <1>22 DEF PushRefused, Again
<1>23. ASSUME NEW p \in Laptops, PushDropped(p) PROVE QueueOK'
    BY <1>23 DEF PushDropped, Again
<1>24. ASSUME NEW p \in Laptops, PushLost(p) PROVE QueueOK'
    BY <1>24 DEF PushLost, Rename, Again
<1>25. ASSUME NEW p \in Laptops, LateRename(p) PROVE QueueOK'
    BY <1>25 DEF LateRename, Rename
<1>26. ASSUME NEW p \in Locals, NEW i \in Ids, WebAcceptListed(p, i) PROVE QueueOK'
    BY <1>26 DEF WebAcceptListed, BeginSave
<1>27. ASSUME NEW p \in Savers, NEW i \in Ids, RejectListed(p, i) PROVE QueueOK'
    BY <1>27 DEF RejectListed
<1>28. ASSUME NEW p \in Locals, LocalNoBackup(p) PROVE QueueOK'
    BY <1>28 DEF LocalNoBackup, BackupTorn
<1>29. CASE UNCHANGED vars
    BY <1>29 DEF vars
<1> QED
    BY <1>1, <1>2, <1>3, <1>4, <1>5, <1>6, <1>7, <1>8, <1>9, <1>10,
       <1>11, <1>12, <1>13, <1>14, <1>15, <1>16, <1>17, <1>18, <1>19,
       <1>20, <1>21, <1>22, <1>23, <1>24, <1>25, <1>26, <1>27, <1>28,
       <1>29, AllSteps

\* The types of what processes hold.
LEMMA HandKept ==
    ASSUME Typed, [Next]_vars
    PROVE  HandOK'
<1> USE SeedsAssumption, Sorts, IdSorts DEF Typed, HandOK, Held, BoxHeld,
       SaverHeld, Pc, SavePc, QueueOK, FilesOK, files, hand, review, watch,
       Start, Goto, Done, Finish, Event, Fault, NoFault
<1>1. CASE Tick
    BY <1>1 DEF Tick
<1>2. ASSUME NEW b \in Boxes, NEW t \in Texts, PostCount(b, t) PROVE HandOK'
    BY <1>2 DEF PostCount, Pending
<1>3. ASSUME NEW b \in Boxes, PostCreate(b) PROVE HandOK'
    BY <1>3 DEF PostCreate, FirstFree
<1>4. ASSUME NEW b \in Boxes, PostWrite(b) PROVE HandOK'
    BY <1>4 DEF PostWrite, Mine
<1>5. ASSUME NEW b \in Boxes, PostKilled(b) PROVE HandOK'
    BY <1>5 DEF PostKilled, Mine
<1>6. ASSUME NEW p \in Savers, NEW i \in Ids, Show(p, i) PROVE HandOK'
    BY <1>6 DEF Show
<1>7. ASSUME NEW p \in Locals, WebAccept(p) PROVE HandOK'
    BY <1>7 DEF WebAccept, BeginSave
<1>8. ASSUME NEW p \in Savers, CliAccept(p) PROVE HandOK'
    BY <1>8 DEF CliAccept, BeginSave
<1>9. ASSUME NEW p \in Savers, Reject(p) PROVE HandOK'
    BY <1>9 DEF Reject
<1>10. ASSUME NEW p \in Savers, Skip(p) PROVE HandOK'
    BY <1>10 DEF Skip
<1>11. ASSUME NEW p \in Savers, Drop(p) PROVE HandOK'
    BY <1>11 DEF Drop
<1>12. ASSUME NEW p \in Savers, NEW t \in Texts, Edit(p, t) PROVE HandOK'
    BY <1>12 DEF Edit, BeginSave
<1>13. ASSUME NEW p \in Locals, NEW t \in Texts, WebPut(p, t) PROVE HandOK'
    BY <1>13 DEF WebPut, BeginSave
<1>14. ASSUME NEW p \in Savers, SaveBackup(p) PROVE HandOK'
    BY <1>14 DEF SaveBackup, Backup
<1>15. ASSUME NEW p \in Savers, OpenTmp(p) PROVE HandOK'
    BY <1>15 DEF OpenTmp
<1>16. ASSUME NEW p \in Savers, WriteTmp(p) PROVE HandOK'
    BY <1>16 DEF WriteTmp, Overlay
<1>17. ASSUME NEW p \in Savers, WriteFails(p) PROVE HandOK'
    BY <1>17 DEF WriteFails
<1>18. ASSUME NEW p \in Savers, SaveRename(p) PROVE HandOK'
    BY <1>18 DEF SaveRename, Rename, Saved
<1>19. ASSUME NEW p \in Savers, RenameFails(p) PROVE HandOK'
    BY <1>19 DEF RenameFails
<1>20. ASSUME NEW p \in Locals, SaveKilled(p) PROVE HandOK'
    BY <1>20 DEF SaveKilled
<1>21. ASSUME NEW p \in Laptops, PushNoBackup(p) PROVE HandOK'
    BY <1>21 DEF PushNoBackup, BackupTorn
<1>22. ASSUME NEW p \in Laptops, PushRefused(p) PROVE HandOK'
    BY <1>22 DEF PushRefused, Again
<1>23. ASSUME NEW p \in Laptops, PushDropped(p) PROVE HandOK'
    BY <1>23 DEF PushDropped, Again
<1>24. ASSUME NEW p \in Laptops, PushLost(p) PROVE HandOK'
    BY <1>24 DEF PushLost, Rename, Again
<1>25. ASSUME NEW p \in Laptops, LateRename(p) PROVE HandOK'
    BY <1>25 DEF LateRename, Rename
<1>26. ASSUME NEW p \in Locals, NEW i \in Ids, WebAcceptListed(p, i) PROVE HandOK'
    BY <1>26 DEF WebAcceptListed, BeginSave
<1>27. ASSUME NEW p \in Savers, NEW i \in Ids, RejectListed(p, i) PROVE HandOK'
    BY <1>27 DEF RejectListed
<1>28. ASSUME NEW p \in Locals, LocalNoBackup(p) PROVE HandOK'
    BY <1>28 DEF LocalNoBackup, BackupTorn
<1>29. CASE UNCHANGED vars
    BY <1>29 DEF vars
<1> QED
    BY <1>1, <1>2, <1>3, <1>4, <1>5, <1>6, <1>7, <1>8, <1>9, <1>10,
       <1>11, <1>12, <1>13, <1>14, <1>15, <1>16, <1>17, <1>18, <1>19,
       <1>20, <1>21, <1>22, <1>23, <1>24, <1>25, <1>26, <1>27, <1>28,
       <1>29, AllSteps

\* The types of the saves.
LEMMA SaveKept ==
    ASSUME Typed, [Next]_vars
    PROVE  SaveOK'
<1> USE SeedsAssumption, Sorts, IdSorts, TmpIsFresh DEF Typed, SaveOK, Held,
       BoxHeld, SaverHeld, FilesOK, files, hand, review, watch, Start, Goto,
       Done, Finish, Event, Fault, NoFault
<1>1. CASE Tick
    BY <1>1 DEF Tick
<1>2. ASSUME NEW b \in Boxes, NEW t \in Texts, PostCount(b, t) PROVE SaveOK'
    BY <1>2 DEF PostCount, Pending
<1>3. ASSUME NEW b \in Boxes, PostCreate(b) PROVE SaveOK'
    BY <1>3 DEF PostCreate, FirstFree
<1>4. ASSUME NEW b \in Boxes, PostWrite(b) PROVE SaveOK'
    BY <1>4 DEF PostWrite, Mine
<1>5. ASSUME NEW b \in Boxes, PostKilled(b) PROVE SaveOK'
    BY <1>5 DEF PostKilled, Mine
<1>6. ASSUME NEW p \in Savers, NEW i \in Ids, Show(p, i) PROVE SaveOK'
    BY <1>6 DEF Show
<1>7. ASSUME NEW p \in Locals, WebAccept(p) PROVE SaveOK'
    BY <1>7 DEF WebAccept, BeginSave
<1>8. ASSUME NEW p \in Savers, CliAccept(p) PROVE SaveOK'
    BY <1>8 DEF CliAccept, BeginSave
<1>9. ASSUME NEW p \in Savers, Reject(p) PROVE SaveOK'
    BY <1>9 DEF Reject
<1>10. ASSUME NEW p \in Savers, Skip(p) PROVE SaveOK'
    BY <1>10 DEF Skip
<1>11. ASSUME NEW p \in Savers, Drop(p) PROVE SaveOK'
    BY <1>11 DEF Drop
<1>12. ASSUME NEW p \in Savers, NEW t \in Texts, Edit(p, t) PROVE SaveOK'
    BY <1>12 DEF Edit, BeginSave
<1>13. ASSUME NEW p \in Locals, NEW t \in Texts, WebPut(p, t) PROVE SaveOK'
    BY <1>13 DEF WebPut, BeginSave
<1>14. ASSUME NEW p \in Savers, SaveBackup(p) PROVE SaveOK'
    BY <1>14 DEF SaveBackup, Backup
<1>15. ASSUME NEW p \in Savers, OpenTmp(p) PROVE SaveOK'
    BY <1>15 DEF OpenTmp
<1>16. ASSUME NEW p \in Savers, WriteTmp(p) PROVE SaveOK'
    BY <1>16 DEF WriteTmp, Overlay
<1>17. ASSUME NEW p \in Savers, WriteFails(p) PROVE SaveOK'
    BY <1>17 DEF WriteFails
<1>18. ASSUME NEW p \in Savers, SaveRename(p) PROVE SaveOK'
    BY <1>18 DEF SaveRename, Rename, Saved
<1>19. ASSUME NEW p \in Savers, RenameFails(p) PROVE SaveOK'
    BY <1>19 DEF RenameFails
<1>20. ASSUME NEW p \in Locals, SaveKilled(p) PROVE SaveOK'
    BY <1>20 DEF SaveKilled
<1>21. ASSUME NEW p \in Laptops, PushNoBackup(p) PROVE SaveOK'
    BY <1>21 DEF PushNoBackup, BackupTorn
<1>22. ASSUME NEW p \in Laptops, PushRefused(p) PROVE SaveOK'
    BY <1>22 DEF PushRefused, Again
<1>23. ASSUME NEW p \in Laptops, PushDropped(p) PROVE SaveOK'
    BY <1>23 DEF PushDropped, Again
<1>24. ASSUME NEW p \in Laptops, PushLost(p) PROVE SaveOK'
    BY <1>24 DEF PushLost, Rename, Again
<1>25. ASSUME NEW p \in Laptops, LateRename(p) PROVE SaveOK'
    BY <1>25 DEF LateRename, Rename
<1>26. ASSUME NEW p \in Locals, NEW i \in Ids, WebAcceptListed(p, i) PROVE SaveOK'
    BY <1>26 DEF WebAcceptListed, BeginSave
<1>27. ASSUME NEW p \in Savers, NEW i \in Ids, RejectListed(p, i) PROVE SaveOK'
    BY <1>27 DEF RejectListed
<1>28. ASSUME NEW p \in Locals, LocalNoBackup(p) PROVE SaveOK'
    BY <1>28 DEF LocalNoBackup, BackupTorn
<1>29. CASE UNCHANGED vars
    BY <1>29 DEF vars
<1> QED
    BY <1>1, <1>2, <1>3, <1>4, <1>5, <1>6, <1>7, <1>8, <1>9, <1>10,
       <1>11, <1>12, <1>13, <1>14, <1>15, <1>16, <1>17, <1>18, <1>19,
       <1>20, <1>21, <1>22, <1>23, <1>24, <1>25, <1>26, <1>27, <1>28,
       <1>29, AllSteps

\* The types of reviews.
LEMMA ReviewKept ==
    ASSUME Typed, [Next]_vars
    PROVE  ReviewOK'
<1> USE SeedsAssumption, Sorts, IdSorts DEF Typed, ReviewOK, Held, BoxHeld,
       SaverHeld, QueueOK, HandOK, Over, files, hand, review, watch, Start,
       Goto, Done, Finish, Event, Fault, NoFault
<1>1. CASE Tick
    BY <1>1 DEF Tick
<1>2. ASSUME NEW b \in Boxes, NEW t \in Texts, PostCount(b, t) PROVE ReviewOK'
    BY <1>2 DEF PostCount, Pending
<1>3. ASSUME NEW b \in Boxes, PostCreate(b) PROVE ReviewOK'
    BY <1>3 DEF PostCreate, FirstFree
<1>4. ASSUME NEW b \in Boxes, PostWrite(b) PROVE ReviewOK'
    BY <1>4 DEF PostWrite, Mine
<1>5. ASSUME NEW b \in Boxes, PostKilled(b) PROVE ReviewOK'
    BY <1>5 DEF PostKilled, Mine
<1>6. ASSUME NEW p \in Savers, NEW i \in Ids, Show(p, i) PROVE ReviewOK'
    BY <1>6 DEF Show
<1>7. ASSUME NEW p \in Locals, WebAccept(p) PROVE ReviewOK'
    BY <1>7 DEF WebAccept, BeginSave
<1>8. ASSUME NEW p \in Savers, CliAccept(p) PROVE ReviewOK'
    BY <1>8 DEF CliAccept, BeginSave
<1>9. ASSUME NEW p \in Savers, Reject(p) PROVE ReviewOK'
    BY <1>9 DEF Reject
<1>10. ASSUME NEW p \in Savers, Skip(p) PROVE ReviewOK'
    BY <1>10 DEF Skip
<1>11. ASSUME NEW p \in Savers, Drop(p) PROVE ReviewOK'
    BY <1>11 DEF Drop
<1>12. ASSUME NEW p \in Savers, NEW t \in Texts, Edit(p, t) PROVE ReviewOK'
    BY <1>12 DEF Edit, BeginSave
<1>13. ASSUME NEW p \in Locals, NEW t \in Texts, WebPut(p, t) PROVE ReviewOK'
    BY <1>13 DEF WebPut, BeginSave
<1>14. ASSUME NEW p \in Savers, SaveBackup(p) PROVE ReviewOK'
    BY <1>14 DEF SaveBackup, Backup
<1>15. ASSUME NEW p \in Savers, OpenTmp(p) PROVE ReviewOK'
    BY <1>15 DEF OpenTmp
<1>16. ASSUME NEW p \in Savers, WriteTmp(p) PROVE ReviewOK'
    BY <1>16 DEF WriteTmp, Overlay
<1>17. ASSUME NEW p \in Savers, WriteFails(p) PROVE ReviewOK'
    BY <1>17 DEF WriteFails
<1>18. ASSUME NEW p \in Savers, SaveRename(p) PROVE ReviewOK'
    BY <1>18 DEF SaveRename, Rename, Saved
<1>19. ASSUME NEW p \in Savers, RenameFails(p) PROVE ReviewOK'
    BY <1>19 DEF RenameFails
<1>20. ASSUME NEW p \in Locals, SaveKilled(p) PROVE ReviewOK'
    BY <1>20 DEF SaveKilled
<1>21. ASSUME NEW p \in Laptops, PushNoBackup(p) PROVE ReviewOK'
    BY <1>21 DEF PushNoBackup, BackupTorn
<1>22. ASSUME NEW p \in Laptops, PushRefused(p) PROVE ReviewOK'
    BY <1>22 DEF PushRefused, Again
<1>23. ASSUME NEW p \in Laptops, PushDropped(p) PROVE ReviewOK'
    BY <1>23 DEF PushDropped, Again
<1>24. ASSUME NEW p \in Laptops, PushLost(p) PROVE ReviewOK'
    BY <1>24 DEF PushLost, Rename, Again
<1>25. ASSUME NEW p \in Laptops, LateRename(p) PROVE ReviewOK'
    BY <1>25 DEF LateRename, Rename
<1>26. ASSUME NEW p \in Locals, NEW i \in Ids, WebAcceptListed(p, i) PROVE ReviewOK'
    BY <1>26 DEF WebAcceptListed, BeginSave
<1>27. ASSUME NEW p \in Savers, NEW i \in Ids, RejectListed(p, i) PROVE ReviewOK'
    BY <1>27 DEF RejectListed
<1>28. ASSUME NEW p \in Locals, LocalNoBackup(p) PROVE ReviewOK'
    BY <1>28 DEF LocalNoBackup, BackupTorn
<1>29. CASE UNCHANGED vars
    BY <1>29 DEF vars
<1> QED
    BY <1>1, <1>2, <1>3, <1>4, <1>5, <1>6, <1>7, <1>8, <1>9, <1>10,
       <1>11, <1>12, <1>13, <1>14, <1>15, <1>16, <1>17, <1>18, <1>19,
       <1>20, <1>21, <1>22, <1>23, <1>24, <1>25, <1>26, <1>27, <1>28,
       <1>29, AllSteps

\* The types of observations.
LEMMA WatchKept ==
    ASSUME Typed, [Next]_vars
    PROVE  WatchOK'
<1> USE SeedsAssumption, Sorts, IdSorts DEF Typed, WatchOK, Held, BoxHeld,
       SaverHeld, QueueOK, ReviewOK, HandOK, SaveOK, FilesOK, Shared, files, hand,
       review, watch, Start, Goto, Done, Finish, Event, Fault, NoFault
<1>1. CASE Tick
    BY <1>1 DEF Tick
<1>2. ASSUME NEW b \in Boxes, NEW t \in Texts, PostCount(b, t) PROVE WatchOK'
    BY <1>2 DEF PostCount, Pending
<1>3. ASSUME NEW b \in Boxes, PostCreate(b) PROVE WatchOK'
    BY <1>3 DEF PostCreate, FirstFree
<1>4. ASSUME NEW b \in Boxes, PostWrite(b) PROVE WatchOK'
    BY <1>4 DEF PostWrite, Mine
<1>5. ASSUME NEW b \in Boxes, PostKilled(b) PROVE WatchOK'
    BY <1>5 DEF PostKilled, Mine
<1>6. ASSUME NEW p \in Savers, NEW i \in Ids, Show(p, i) PROVE WatchOK'
    BY <1>6 DEF Show
<1>7. ASSUME NEW p \in Locals, WebAccept(p) PROVE WatchOK'
    BY <1>7 DEF WebAccept, BeginSave
<1>8. ASSUME NEW p \in Savers, CliAccept(p) PROVE WatchOK'
    BY <1>8 DEF CliAccept, BeginSave
<1>9. ASSUME NEW p \in Savers, Reject(p) PROVE WatchOK'
    BY <1>9 DEF Reject
<1>10. ASSUME NEW p \in Savers, Skip(p) PROVE WatchOK'
    BY <1>10 DEF Skip
<1>11. ASSUME NEW p \in Savers, Drop(p) PROVE WatchOK'
    BY <1>11 DEF Drop
<1>12. ASSUME NEW p \in Savers, NEW t \in Texts, Edit(p, t) PROVE WatchOK'
    BY <1>12 DEF Edit, BeginSave
<1>13. ASSUME NEW p \in Locals, NEW t \in Texts, WebPut(p, t) PROVE WatchOK'
    BY <1>13 DEF WebPut, BeginSave
<1>14. ASSUME NEW p \in Savers, SaveBackup(p) PROVE WatchOK'
  <2>1. bak[ts[p]] \in Contents \cup {NoFile} /\ UNCHANGED <<chosen, unread, ever, dirty>>
      BY <1>14 DEF SaveBackup
  <2>2. excused' = excused \cup ({bak[ts[p]]} \ {NoFile})
      BY <1>14 DEF SaveBackup, Backup
  <2> QED BY <2>1, <2>2 DEF WatchOK
<1>15. ASSUME NEW p \in Savers, OpenTmp(p) PROVE WatchOK'
  <2>1. TmpInode \in Inodes /\ UNCHANGED <<chosen, unread, ever, excused>>
      BY <1>15, TmpIsFresh DEF OpenTmp
  <2>2. dirty' \subseteq dirty \cup {TmpInode}
      BY <1>15 DEF OpenTmp
  <2> QED BY <2>1, <2>2 DEF WatchOK
<1>16. ASSUME NEW p \in Savers, WriteTmp(p) PROVE WatchOK'
    BY <1>16 DEF WriteTmp, Overlay
<1>17. ASSUME NEW p \in Savers, WriteFails(p) PROVE WatchOK'
    BY <1>17 DEF WriteFails
<1>18. ASSUME NEW p \in Savers, SaveRename(p) PROVE WatchOK'
    BY <1>18 DEF SaveRename, Rename, Saved
<1>19. ASSUME NEW p \in Savers, RenameFails(p) PROVE WatchOK'
    BY <1>19 DEF RenameFails
<1>20. ASSUME NEW p \in Locals, SaveKilled(p) PROVE WatchOK'
    BY <1>20 DEF SaveKilled
<1>21. ASSUME NEW p \in Laptops, PushNoBackup(p) PROVE WatchOK'
  <2>1. /\ bak[ts[p]] \in Contents \cup {NoFile} /\ disk[live] \in Contents
        /\ UNCHANGED <<chosen, unread, ever, dirty>>
      BY <1>21 DEF PushNoBackup
  <2>2. excused' = excused \cup {disk[live]} \cup ({bak[ts[p]]} \ {NoFile})
      BY <1>21 DEF PushNoBackup
  <2> QED BY <2>1, <2>2 DEF WatchOK
<1>22. ASSUME NEW p \in Laptops, PushRefused(p) PROVE WatchOK'
    BY <1>22 DEF PushRefused, Again
<1>23. ASSUME NEW p \in Laptops, PushDropped(p) PROVE WatchOK'
    BY <1>23 DEF PushDropped, Again
<1>24. ASSUME NEW p \in Laptops, PushLost(p) PROVE WatchOK'
    BY <1>24 DEF PushLost, Rename, Again
<1>25. ASSUME NEW p \in Laptops, LateRename(p) PROVE WatchOK'
    BY <1>25 DEF LateRename, Rename
<1>26. ASSUME NEW p \in Locals, NEW i \in Ids, WebAcceptListed(p, i) PROVE WatchOK'
    BY <1>26 DEF WebAcceptListed, BeginSave
<1>27. ASSUME NEW p \in Savers, NEW i \in Ids, RejectListed(p, i) PROVE WatchOK'
    BY <1>27 DEF RejectListed
<1>28. ASSUME NEW p \in Locals, LocalNoBackup(p) PROVE WatchOK'
  <2>1. bak[ts[p]] \in Contents \cup {NoFile} /\ UNCHANGED <<chosen, unread, ever, dirty>>
      BY <1>28 DEF LocalNoBackup
  <2>2. excused' = excused \cup ({bak[ts[p]]} \ {NoFile})
      BY <1>28 DEF LocalNoBackup
  <2> QED BY <2>1, <2>2 DEF WatchOK
<1>29. CASE UNCHANGED vars
    BY <1>29 DEF vars
<1> QED
    BY <1>1, <1>2, <1>3, <1>4, <1>5, <1>6, <1>7, <1>8, <1>9, <1>10,
       <1>11, <1>12, <1>13, <1>14, <1>15, <1>16, <1>17, <1>18, <1>19,
       <1>20, <1>21, <1>22, <1>23, <1>24, <1>25, <1>26, <1>27, <1>28,
       <1>29, AllSteps

\* What each process holds.
LEMMA HeldKept ==
    ASSUME Typed, [Next]_vars
    PROVE  Held'
<1> USE SeedsAssumption, Sorts, IdSorts, TmpIsFresh DEF Typed, Held, Held,
       BoxHeld, SaverHeld, HandOK, SaveOK, ReviewOK, FilesOK, QueueOK, Pc,
       SavePc, files, hand, review, watch, Start, Goto, Done, Finish, Event,
       Fault, NoFault
<1>1. CASE Tick
    BY <1>1 DEF Tick
<1>2. ASSUME NEW b \in Boxes, NEW t \in Texts, PostCount(b, t) PROVE Held'
    BY <1>2 DEF PostCount, Pending
<1>3. ASSUME NEW b \in Boxes, PostCreate(b) PROVE Held'
    BY <1>3 DEF PostCreate, FirstFree
<1>4. ASSUME NEW b \in Boxes, PostWrite(b) PROVE Held'
    BY <1>4 DEF PostWrite, Mine
<1>5. ASSUME NEW b \in Boxes, PostKilled(b) PROVE Held'
    BY <1>5 DEF PostKilled, Mine
<1>6. ASSUME NEW p \in Savers, NEW i \in Ids, Show(p, i) PROVE Held'
    BY <1>6 DEF Show
<1>7. ASSUME NEW p \in Locals, WebAccept(p) PROVE Held'
    BY <1>7 DEF WebAccept, BeginSave
<1>8. ASSUME NEW p \in Savers, CliAccept(p) PROVE Held'
    BY <1>8 DEF CliAccept, BeginSave
<1>9. ASSUME NEW p \in Savers, Reject(p) PROVE Held'
    BY <1>9 DEF Reject
<1>10. ASSUME NEW p \in Savers, Skip(p) PROVE Held'
    BY <1>10 DEF Skip
<1>11. ASSUME NEW p \in Savers, Drop(p) PROVE Held'
    BY <1>11 DEF Drop
<1>12. ASSUME NEW p \in Savers, NEW t \in Texts, Edit(p, t) PROVE Held'
    BY <1>12 DEF Edit, BeginSave
<1>13. ASSUME NEW p \in Locals, NEW t \in Texts, WebPut(p, t) PROVE Held'
    BY <1>13 DEF WebPut, BeginSave
<1>14. ASSUME NEW p \in Savers, SaveBackup(p) PROVE Held'
    BY <1>14 DEF SaveBackup, Backup
<1>15. ASSUME NEW p \in Savers, OpenTmp(p) PROVE Held'
    BY <1>15 DEF OpenTmp
<1>16. ASSUME NEW p \in Savers, WriteTmp(p) PROVE Held'
    BY <1>16 DEF WriteTmp, Overlay
<1>17. ASSUME NEW p \in Savers, WriteFails(p) PROVE Held'
    BY <1>17 DEF WriteFails
<1>18. ASSUME NEW p \in Savers, SaveRename(p) PROVE Held'
    BY <1>18 DEF SaveRename, Rename, Saved
<1>19. ASSUME NEW p \in Savers, RenameFails(p) PROVE Held'
    BY <1>19 DEF RenameFails
<1>20. ASSUME NEW p \in Locals, SaveKilled(p) PROVE Held'
    BY <1>20 DEF SaveKilled
<1>21. ASSUME NEW p \in Laptops, PushNoBackup(p) PROVE Held'
    BY <1>21 DEF PushNoBackup, BackupTorn
<1>22. ASSUME NEW p \in Laptops, PushRefused(p) PROVE Held'
    BY <1>22 DEF PushRefused, Again
<1>23. ASSUME NEW p \in Laptops, PushDropped(p) PROVE Held'
    BY <1>23 DEF PushDropped, Again
<1>24. ASSUME NEW p \in Laptops, PushLost(p) PROVE Held'
    BY <1>24 DEF PushLost, Rename, Again
<1>25. ASSUME NEW p \in Laptops, LateRename(p) PROVE Held'
    BY <1>25 DEF LateRename, Rename
<1>26. ASSUME NEW p \in Locals, NEW i \in Ids, WebAcceptListed(p, i) PROVE Held'
    BY <1>26 DEF WebAcceptListed, BeginSave
<1>27. ASSUME NEW p \in Savers, NEW i \in Ids, RejectListed(p, i) PROVE Held'
    BY <1>27 DEF RejectListed
<1>28. ASSUME NEW p \in Locals, LocalNoBackup(p) PROVE Held'
    BY <1>28 DEF LocalNoBackup, BackupTorn
<1>29. CASE UNCHANGED vars
    BY <1>29 DEF vars
<1> QED
    BY <1>1, <1>2, <1>3, <1>4, <1>5, <1>6, <1>7, <1>8, <1>9, <1>10,
       <1>11, <1>12, <1>13, <1>14, <1>15, <1>16, <1>17, <1>18, <1>19,
       <1>20, <1>21, <1>22, <1>23, <1>24, <1>25, <1>26, <1>27, <1>28,
       <1>29, AllSteps

LEMMA SeedsInit == Init => Typed
<1> SUFFICES ASSUME Init PROVE Typed
    OBVIOUS
<1> USE SeedsAssumption, Sorts DEF Init
<1>1. FilesOK BY DEF FilesOK, Secs, Inodes
<1>2. QueueOK BY DEF QueueOK
<1>3. HandOK BY DEF HandOK, Pc
<1>4. SaveOK BY DEF SaveOK
<1>5. ReviewOK BY DEF ReviewOK
<1>6. WatchOK BY DEF WatchOK
<1>7. Held BY DEF Held, BoxHeld, SaverHeld
<1> QED BY <1>1, <1>2, <1>3, <1>4, <1>5, <1>6, <1>7 DEF Typed

LEMMA TypedStep == Typed /\ [Next]_vars => Typed'
BY FilesKept, QueueTyped, HandKept, SaveKept, ReviewKept, WatchKept, HeldKept
   DEF Typed

-----------------------------------------------------------------------------
(* The queue's bound: a request that has counted holds a place.            *)

Counted == {b \in Boxes : pc[b] = "counted"}

Room == Cardinality(Pending) + Cardinality(Counted)
            <= MaxPending + Cardinality(Boxes) - 1

LEMMA Finite ==
    /\ IsFiniteSet(Pending) /\ Cardinality(Pending) \in Nat
    /\ IsFiniteSet(Counted) /\ Cardinality(Counted) \in Nat
    /\ Cardinality(Counted) <= Cardinality(Boxes)
    /\ Cardinality(Boxes) \in Nat /\ MaxPending \in Nat \ {0}
<1>1. IsFiniteSet(Secs) /\ IsFiniteSet(0..MaxSeq)
    BY SeedsAssumption, FS_Interval DEF Secs
<1>2. IsFiniteSet(Ids)
    BY <1>1, FS_Product DEF Ids
<1>3. Pending \in SUBSET Ids /\ Counted \in SUBSET Boxes
    BY DEF Pending, Counted
<1>4. IsFiniteSet(Pending) /\ IsFiniteSet(Counted)
      /\ Cardinality(Counted) <= Cardinality(Boxes)
    BY <1>2, <1>3, FS_Subset, SeedsAssumption
<1> QED BY <1>4, FS_CardinalityType, SeedsAssumption

\* Fewer proposals and fewer places.
LEMMA RoomShrinks ==
    ASSUME Room, Pending' \subseteq Pending, Counted' \subseteq Counted
    PROVE  Room'
<1>1. /\ Cardinality(Pending') <= Cardinality(Pending)
      /\ Cardinality(Counted') <= Cardinality(Counted)
      /\ Cardinality(Pending') \in Nat /\ Cardinality(Counted') \in Nat
    BY Finite, FS_Subset, FS_CardinalityType
<1> QED BY <1>1, Finite DEF Room

\* Only counting takes a place, and only creating the file uses it.
LEMMA QueueShrinks ==
    ASSUME Typed, [Next]_vars,
           ~(\E b \in Boxes, t \in Texts : PostCount(b, t)), ~(\E b \in Boxes : PostCreate(b))
    PROVE  (Pending' \subseteq Pending /\ Counted' \subseteq Counted)
<1> USE SeedsAssumption, Sorts, IdSorts DEF Typed, QueueOK, HandOK, Held,
       BoxHeld, SaverHeld, Counted, Pending, files, hand, review, watch,
       Start, Goto, Done, Finish, Event, Fault, NoFault
<1>1. CASE Tick
    BY <1>1 DEF Tick
<1>2. ASSUME NEW b \in Boxes, NEW t \in Texts, PostCount(b, t) PROVE (Pending' \subseteq Pending /\ Counted' \subseteq Counted)
    BY <1>2 DEF PostCount, Pending
<1>3. ASSUME NEW b \in Boxes, PostCreate(b) PROVE (Pending' \subseteq Pending /\ Counted' \subseteq Counted)
    BY <1>3 DEF PostCreate, FirstFree
<1>4. ASSUME NEW b \in Boxes, PostWrite(b) PROVE (Pending' \subseteq Pending /\ Counted' \subseteq Counted)
    BY <1>4 DEF PostWrite, Mine
<1>5. ASSUME NEW b \in Boxes, PostKilled(b) PROVE (Pending' \subseteq Pending /\ Counted' \subseteq Counted)
    BY <1>5 DEF PostKilled, Mine
<1>6. ASSUME NEW p \in Savers, NEW i \in Ids, Show(p, i) PROVE (Pending' \subseteq Pending /\ Counted' \subseteq Counted)
    BY <1>6 DEF Show
<1>7. ASSUME NEW p \in Locals, WebAccept(p) PROVE (Pending' \subseteq Pending /\ Counted' \subseteq Counted)
    BY <1>7 DEF WebAccept, BeginSave
<1>8. ASSUME NEW p \in Savers, CliAccept(p) PROVE (Pending' \subseteq Pending /\ Counted' \subseteq Counted)
    BY <1>8 DEF CliAccept, BeginSave
<1>9. ASSUME NEW p \in Savers, Reject(p) PROVE (Pending' \subseteq Pending /\ Counted' \subseteq Counted)
    BY <1>9 DEF Reject
<1>10. ASSUME NEW p \in Savers, Skip(p) PROVE (Pending' \subseteq Pending /\ Counted' \subseteq Counted)
    BY <1>10 DEF Skip
<1>11. ASSUME NEW p \in Savers, Drop(p) PROVE (Pending' \subseteq Pending /\ Counted' \subseteq Counted)
    BY <1>11 DEF Drop
<1>12. ASSUME NEW p \in Savers, NEW t \in Texts, Edit(p, t) PROVE (Pending' \subseteq Pending /\ Counted' \subseteq Counted)
    BY <1>12 DEF Edit, BeginSave
<1>13. ASSUME NEW p \in Locals, NEW t \in Texts, WebPut(p, t) PROVE (Pending' \subseteq Pending /\ Counted' \subseteq Counted)
    BY <1>13 DEF WebPut, BeginSave
<1>14. ASSUME NEW p \in Savers, SaveBackup(p) PROVE (Pending' \subseteq Pending /\ Counted' \subseteq Counted)
    BY <1>14 DEF SaveBackup, Backup
<1>15. ASSUME NEW p \in Savers, OpenTmp(p) PROVE (Pending' \subseteq Pending /\ Counted' \subseteq Counted)
    BY <1>15 DEF OpenTmp
<1>16. ASSUME NEW p \in Savers, WriteTmp(p) PROVE (Pending' \subseteq Pending /\ Counted' \subseteq Counted)
    BY <1>16 DEF WriteTmp, Overlay
<1>17. ASSUME NEW p \in Savers, WriteFails(p) PROVE (Pending' \subseteq Pending /\ Counted' \subseteq Counted)
    BY <1>17 DEF WriteFails
<1>18. ASSUME NEW p \in Savers, SaveRename(p) PROVE (Pending' \subseteq Pending /\ Counted' \subseteq Counted)
    BY <1>18 DEF SaveRename, Rename, Saved
<1>19. ASSUME NEW p \in Savers, RenameFails(p) PROVE (Pending' \subseteq Pending /\ Counted' \subseteq Counted)
    BY <1>19 DEF RenameFails
<1>20. ASSUME NEW p \in Locals, SaveKilled(p) PROVE (Pending' \subseteq Pending /\ Counted' \subseteq Counted)
    BY <1>20 DEF SaveKilled
<1>21. ASSUME NEW p \in Laptops, PushNoBackup(p) PROVE (Pending' \subseteq Pending /\ Counted' \subseteq Counted)
    BY <1>21 DEF PushNoBackup, BackupTorn
<1>22. ASSUME NEW p \in Laptops, PushRefused(p) PROVE (Pending' \subseteq Pending /\ Counted' \subseteq Counted)
    BY <1>22 DEF PushRefused, Again
<1>23. ASSUME NEW p \in Laptops, PushDropped(p) PROVE (Pending' \subseteq Pending /\ Counted' \subseteq Counted)
    BY <1>23 DEF PushDropped, Again
<1>24. ASSUME NEW p \in Laptops, PushLost(p) PROVE (Pending' \subseteq Pending /\ Counted' \subseteq Counted)
    BY <1>24 DEF PushLost, Rename, Again
<1>25. ASSUME NEW p \in Laptops, LateRename(p) PROVE (Pending' \subseteq Pending /\ Counted' \subseteq Counted)
    BY <1>25 DEF LateRename, Rename
<1>26. ASSUME NEW p \in Locals, NEW i \in Ids, WebAcceptListed(p, i) PROVE (Pending' \subseteq Pending /\ Counted' \subseteq Counted)
    BY <1>26 DEF WebAcceptListed, BeginSave
<1>27. ASSUME NEW p \in Savers, NEW i \in Ids, RejectListed(p, i) PROVE (Pending' \subseteq Pending /\ Counted' \subseteq Counted)
    BY <1>27 DEF RejectListed
<1>28. ASSUME NEW p \in Locals, LocalNoBackup(p) PROVE (Pending' \subseteq Pending /\ Counted' \subseteq Counted)
    BY <1>28 DEF LocalNoBackup, BackupTorn
<1>29. CASE UNCHANGED vars
    BY <1>29 DEF vars
<1> QED
    BY <1>1, <1>2, <1>3, <1>4, <1>5, <1>6, <1>7, <1>8, <1>9, <1>10,
       <1>11, <1>12, <1>13, <1>14, <1>15, <1>16, <1>17, <1>18, <1>19,
       <1>20, <1>21, <1>22, <1>23, <1>24, <1>25, <1>26, <1>27, <1>28,
       <1>29, AllSteps

LEMMA RoomStep == ASSUME Typed, Room, [Next]_vars PROVE Room'
<1>1. ASSUME NEW b \in Boxes, NEW t \in Texts, PostCount(b, t) PROVE Room'
  <2>1. Pending' = Pending /\ Cardinality(Pending) < MaxPending
      BY <1>1 DEF PostCount, Pending
  <2>2. Counted' \in SUBSET Boxes
      BY DEF Counted
  <2>3. IsFiniteSet(Counted') /\ Cardinality(Counted') <= Cardinality(Boxes)
      BY <2>2, FS_Subset, SeedsAssumption
  <2>4. Cardinality(Counted') \in Nat
      BY <2>3, FS_CardinalityType
  <2> QED BY <2>1, <2>3, <2>4, Finite DEF Room
<1>2. ASSUME NEW b \in Boxes, PostCreate(b) PROVE Room'
  <2>1. PICK i \in Ids : queue' = [queue EXCEPT ![i] = [by |-> b, text |-> Empty]]
      BY <1>2, IdSorts DEF PostCreate, Typed, Held, BoxHeld
  <2>2. Pending' \subseteq Pending \cup {i}
      BY <2>1 DEF Pending, Typed, QueueOK
  <2>3. b \in Counted /\ Counted' = Counted \ {b}
      BY <1>2 DEF Counted, PostCreate, Goto, Typed, HandOK, Procs
  <2>4. Cardinality(Counted') = Cardinality(Counted) - 1
      BY <2>3, Finite, FS_RemoveElement
  <2>5. /\ IsFiniteSet(Pending \cup {i})
        /\ Cardinality(Pending \cup {i}) <= Cardinality(Pending) + 1
        /\ Cardinality(Pending \cup {i}) \in Nat
    <3>1. /\ IsFiniteSet(Pending \cup {i})
          /\ Cardinality(Pending \cup {i}) =
                 IF i \in Pending THEN Cardinality(Pending)
                 ELSE Cardinality(Pending) + 1
        BY Finite, FS_AddElement
    <3>2. Cardinality(Pending) \in Nat
        BY Finite
    <3> HIDE DEF Pending
    <3> QED BY <3>1, <3>2
  <2>6. Cardinality(Pending') <= Cardinality(Pending) + 1 /\ Cardinality(Pending') \in Nat
    <3>1. IsFiniteSet(Pending') /\ Cardinality(Pending') <= Cardinality(Pending \cup {i})
        BY <2>2, <2>5, FS_Subset
    <3> QED BY <3>1, <2>5, Finite, FS_CardinalityType
  <2> QED BY <2>4, <2>6, Finite DEF Room
<1> QED BY <1>1, <1>2, QueueShrinks, RoomShrinks

-----------------------------------------------------------------------------
(* What may happen to a proposal.                                          *)

\* A file created and not yet written is empty; what a reviewer was shown of
\* a proposal whose second was over is what is still there.
Fresh == \A b \in Boxes :
             pc[b] = "created" /\ Mine(b) => queue[id[b]].text = Empty

Seen(p) == settled[p] =>
    /\ id[p] \in Ids /\ Over(id[p])
    /\ queue[id[p]] # NoFile => queue[id[p]].text = shown[p]
Shown == \A p \in Savers :
    /\ Seen(p)
    /\ pc[p] = "idle" => ~settled[p] /\ id[p] = NoId

\* Only its own box writes a proposal.
LEMMA FreshKept ==
    ASSUME Typed, Fresh, [Next]_vars
    PROVE  Fresh'
<1> USE SeedsAssumption, Sorts, IdSorts DEF Typed, QueueOK, HandOK, Held,
       BoxHeld, SaverHeld, Fresh, Mine, files, hand, review, watch, Start,
       Goto, Done, Finish, Event, Fault, NoFault
<1>1. CASE Tick
    BY <1>1 DEF Tick
<1>2. ASSUME NEW b \in Boxes, NEW t \in Texts, PostCount(b, t) PROVE Fresh'
    BY <1>2 DEF PostCount, Pending
<1>3. ASSUME NEW b \in Boxes, PostCreate(b) PROVE Fresh'
    BY <1>3 DEF PostCreate, FirstFree
<1>4. ASSUME NEW b \in Boxes, PostWrite(b) PROVE Fresh'
  <2> SUFFICES ASSUME NEW c \in Boxes, pc'[c] = "created", Mine(c)'
               PROVE  queue'[id'[c]].text = Empty
      BY DEF Fresh
  <2>1. c # b /\ pc[c] = "created" /\ id'[c] = id[c] /\ id[c] \in Ids
      BY <1>4 DEF PostWrite
  <2>2. CASE id[c] # id[b]
      BY <1>4, <2>1, <2>2 DEF PostWrite
  <2>3. CASE id[c] = id[b] /\ ~Mine(b)
      BY <1>4, <2>1, <2>3 DEF PostWrite
  <2>4. CASE id[c] = id[b] /\ Mine(b)
    <3>1. queue[id[b]].by = b /\ queue[id[b]] \in Entries
        BY <2>1, <2>4
    <3>2. [queue[id[b]] EXCEPT !.text = text[b]].by = b
        BY <3>1 DEF Entries
    <3> QED BY <1>4, <2>1, <2>4, <3>1, <3>2 DEF PostWrite
  <2> QED BY <2>2, <2>3, <2>4
<1>5. ASSUME NEW b \in Boxes, PostKilled(b) PROVE Fresh'
  <2> SUFFICES ASSUME NEW c \in Boxes, pc'[c] = "created", Mine(c)'
               PROVE  queue'[id'[c]].text = Empty
      BY DEF Fresh
  <2>1. c # b /\ pc[c] = "created" /\ id'[c] = id[c] /\ id[c] \in Ids
      BY <1>5 DEF PostKilled
  <2>2. CASE id[c] # id[b]
      BY <1>5, <2>1, <2>2 DEF PostKilled
  <2>3. CASE queue' = queue
      BY <1>5, <2>1, <2>3 DEF PostKilled
  <2>4. CASE /\ id[c] = id[b] /\ Mine(b)
             /\ queue' = [queue EXCEPT ![id[b]].text = Torn]
    <3>1. queue[id[b]].by = b /\ queue[id[b]] \in Entries
        BY <2>1, <2>4
    <3>2. [queue[id[b]] EXCEPT !.text = Torn].by = b
        BY <3>1 DEF Entries
    <3> QED BY <1>5, <2>1, <2>4, <3>1, <3>2 DEF PostKilled
  <2> QED BY <1>5, <2>1, <2>2, <2>3, <2>4 DEF PostKilled
<1>6. ASSUME NEW p \in Savers, NEW i \in Ids, Show(p, i) PROVE Fresh'
    BY <1>6 DEF Show
<1>7. ASSUME NEW p \in Locals, WebAccept(p) PROVE Fresh'
    BY <1>7 DEF WebAccept, BeginSave
<1>8. ASSUME NEW p \in Savers, CliAccept(p) PROVE Fresh'
    BY <1>8 DEF CliAccept, BeginSave
<1>9. ASSUME NEW p \in Savers, Reject(p) PROVE Fresh'
    BY <1>9 DEF Reject
<1>10. ASSUME NEW p \in Savers, Skip(p) PROVE Fresh'
    BY <1>10 DEF Skip
<1>11. ASSUME NEW p \in Savers, Drop(p) PROVE Fresh'
    BY <1>11 DEF Drop
<1>12. ASSUME NEW p \in Savers, NEW t \in Texts, Edit(p, t) PROVE Fresh'
    BY <1>12 DEF Edit, BeginSave
<1>13. ASSUME NEW p \in Locals, NEW t \in Texts, WebPut(p, t) PROVE Fresh'
    BY <1>13 DEF WebPut, BeginSave
<1>14. ASSUME NEW p \in Savers, SaveBackup(p) PROVE Fresh'
    BY <1>14 DEF SaveBackup, Backup
<1>15. ASSUME NEW p \in Savers, OpenTmp(p) PROVE Fresh'
    BY <1>15 DEF OpenTmp
<1>16. ASSUME NEW p \in Savers, WriteTmp(p) PROVE Fresh'
    BY <1>16 DEF WriteTmp, Overlay
<1>17. ASSUME NEW p \in Savers, WriteFails(p) PROVE Fresh'
    BY <1>17 DEF WriteFails
<1>18. ASSUME NEW p \in Savers, SaveRename(p) PROVE Fresh'
    BY <1>18 DEF SaveRename, Rename, Saved
<1>19. ASSUME NEW p \in Savers, RenameFails(p) PROVE Fresh'
    BY <1>19 DEF RenameFails
<1>20. ASSUME NEW p \in Locals, SaveKilled(p) PROVE Fresh'
    BY <1>20 DEF SaveKilled
<1>21. ASSUME NEW p \in Laptops, PushNoBackup(p) PROVE Fresh'
    BY <1>21 DEF PushNoBackup, BackupTorn
<1>22. ASSUME NEW p \in Laptops, PushRefused(p) PROVE Fresh'
    BY <1>22 DEF PushRefused, Again
<1>23. ASSUME NEW p \in Laptops, PushDropped(p) PROVE Fresh'
    BY <1>23 DEF PushDropped, Again
<1>24. ASSUME NEW p \in Laptops, PushLost(p) PROVE Fresh'
    BY <1>24 DEF PushLost, Rename, Again
<1>25. ASSUME NEW p \in Laptops, LateRename(p) PROVE Fresh'
    BY <1>25 DEF LateRename, Rename
<1>26. ASSUME NEW p \in Locals, NEW i \in Ids, WebAcceptListed(p, i) PROVE Fresh'
    BY <1>26 DEF WebAcceptListed, BeginSave
<1>27. ASSUME NEW p \in Savers, NEW i \in Ids, RejectListed(p, i) PROVE Fresh'
    BY <1>27 DEF RejectListed
<1>28. ASSUME NEW p \in Locals, LocalNoBackup(p) PROVE Fresh'
    BY <1>28 DEF LocalNoBackup, BackupTorn
<1>29. CASE UNCHANGED vars
    BY <1>29 DEF vars
<1> QED
    BY <1>1, <1>2, <1>3, <1>4, <1>5, <1>6, <1>7, <1>8, <1>9, <1>10,
       <1>11, <1>12, <1>13, <1>14, <1>15, <1>16, <1>17, <1>18, <1>19,
       <1>20, <1>21, <1>22, <1>23, <1>24, <1>25, <1>26, <1>27, <1>28,
       <1>29, AllSteps

\* Nobody writes under an id whose second is over.
LEMMA ShownKept ==
    ASSUME Typed, Shown, [Next]_vars
    PROVE  Shown'
<1> USE SeedsAssumption, Sorts, IdSorts DEF Typed, FilesOK, QueueOK, HandOK,
       ReviewOK, Held, BoxHeld, SaverHeld, Shown, Seen, Over, Secs, Ids, Pc,
       SavePc, files, hand, review, watch, Start, Goto, Done, Finish, Event,
       Fault, NoFault
<1>1. CASE Tick
    BY <1>1 DEF Tick
<1>2. ASSUME NEW b \in Boxes, NEW t \in Texts, PostCount(b, t) PROVE Shown'
    BY <1>2 DEF PostCount, Pending
<1>3. ASSUME NEW b \in Boxes, PostCreate(b) PROVE Shown'
    BY <1>3 DEF PostCreate, FirstFree
<1>4. ASSUME NEW b \in Boxes, PostWrite(b) PROVE Shown'
    BY <1>4 DEF PostWrite, Mine
<1>5. ASSUME NEW b \in Boxes, PostKilled(b) PROVE Shown'
    BY <1>5 DEF PostKilled, Mine
<1>6. ASSUME NEW p \in Savers, NEW i \in Ids, Show(p, i) PROVE Shown'
    BY <1>6 DEF Show
<1>7. ASSUME NEW p \in Locals, WebAccept(p) PROVE Shown'
    BY <1>7 DEF WebAccept, BeginSave
<1>8. ASSUME NEW p \in Savers, CliAccept(p) PROVE Shown'
    BY <1>8 DEF CliAccept, BeginSave
<1>9. ASSUME NEW p \in Savers, Reject(p) PROVE Shown'
    BY <1>9 DEF Reject
<1>10. ASSUME NEW p \in Savers, Skip(p) PROVE Shown'
    BY <1>10 DEF Skip
<1>11. ASSUME NEW p \in Savers, Drop(p) PROVE Shown'
    BY <1>11 DEF Drop
<1>12. ASSUME NEW p \in Savers, NEW t \in Texts, Edit(p, t) PROVE Shown'
    BY <1>12 DEF Edit, BeginSave
<1>13. ASSUME NEW p \in Locals, NEW t \in Texts, WebPut(p, t) PROVE Shown'
    BY <1>13 DEF WebPut, BeginSave
<1>14. ASSUME NEW p \in Savers, SaveBackup(p) PROVE Shown'
    BY <1>14 DEF SaveBackup, Backup
<1>15. ASSUME NEW p \in Savers, OpenTmp(p) PROVE Shown'
    BY <1>15 DEF OpenTmp
<1>16. ASSUME NEW p \in Savers, WriteTmp(p) PROVE Shown'
    BY <1>16 DEF WriteTmp, Overlay
<1>17. ASSUME NEW p \in Savers, WriteFails(p) PROVE Shown'
    BY <1>17 DEF WriteFails
<1>18. ASSUME NEW p \in Savers, SaveRename(p) PROVE Shown'
  <2>1. /\ UNCHANGED <<clock, queue>>
        /\ Finish(p) \/ (UNCHANGED <<id, review>> /\ pc'[p] # "idle")
        /\ \A q \in Procs \ {p} : pc'[q] = pc[q]
      BY <1>18 DEF SaveRename, Saved
  <2>2. \A q \in Procs \ {p} : id'[q] = id[q]
      BY <2>1
  <2>3. \A q \in Savers \ {p} : shown'[q] = shown[q] /\ settled'[q] = settled[q]
      BY <2>1
  <2>4. \A i \in Ids : Over(i) => Over(i)'
      BY <2>1, <2>2 DEF Over
  <2>5. CASE Finish(p)
      BY <2>1, <2>2, <2>3, <2>4, <2>5
  <2>6. CASE UNCHANGED <<id, review>> /\ pc'[p] # "idle"
      BY <2>1, <2>4, <2>6
  <2> QED BY <2>1, <2>5, <2>6
<1>19. ASSUME NEW p \in Savers, RenameFails(p) PROVE Shown'
    BY <1>19 DEF RenameFails
<1>20. ASSUME NEW p \in Locals, SaveKilled(p) PROVE Shown'
    BY <1>20 DEF SaveKilled
<1>21. ASSUME NEW p \in Laptops, PushNoBackup(p) PROVE Shown'
    BY <1>21 DEF PushNoBackup, BackupTorn
<1>22. ASSUME NEW p \in Laptops, PushRefused(p) PROVE Shown'
  <2>1. /\ UNCHANGED <<clock, queue>>
        /\ Finish(p) \/ (UNCHANGED <<id, review>> /\ pc'[p] # "idle")
        /\ \A q \in Procs \ {p} : pc'[q] = pc[q]
      BY <1>22 DEF PushRefused, Again
  <2>2. \A q \in Procs \ {p} : id'[q] = id[q]
      BY <2>1
  <2>3. \A q \in Savers \ {p} : shown'[q] = shown[q] /\ settled'[q] = settled[q]
      BY <2>1
  <2>4. \A i \in Ids : Over(i) => Over(i)'
      BY <2>1, <2>2 DEF Over
  <2>5. CASE Finish(p)
      BY <2>1, <2>2, <2>3, <2>4, <2>5
  <2>6. CASE UNCHANGED <<id, review>> /\ pc'[p] # "idle"
      BY <2>1, <2>4, <2>6
  <2> QED BY <2>1, <2>5, <2>6
<1>23. ASSUME NEW p \in Laptops, PushDropped(p) PROVE Shown'
  <2>1. /\ UNCHANGED <<clock, queue>>
        /\ Finish(p) \/ (UNCHANGED <<id, review>> /\ pc'[p] # "idle")
        /\ \A q \in Procs \ {p} : pc'[q] = pc[q]
      BY <1>23 DEF PushDropped, Again
  <2>2. \A q \in Procs \ {p} : id'[q] = id[q]
      BY <2>1
  <2>3. \A q \in Savers \ {p} : shown'[q] = shown[q] /\ settled'[q] = settled[q]
      BY <2>1
  <2>4. \A i \in Ids : Over(i) => Over(i)'
      BY <2>1, <2>2 DEF Over
  <2>5. CASE Finish(p)
      BY <2>1, <2>2, <2>3, <2>4, <2>5
  <2>6. CASE UNCHANGED <<id, review>> /\ pc'[p] # "idle"
      BY <2>1, <2>4, <2>6
  <2> QED BY <2>1, <2>5, <2>6
<1>24. ASSUME NEW p \in Laptops, PushLost(p) PROVE Shown'
  <2>1. /\ UNCHANGED <<clock, queue>>
        /\ Finish(p) \/ (UNCHANGED <<id, review>> /\ pc'[p] # "idle")
        /\ \A q \in Procs \ {p} : pc'[q] = pc[q]
      BY <1>24 DEF PushLost, Again
  <2>2. \A q \in Procs \ {p} : id'[q] = id[q]
      BY <2>1
  <2>3. \A q \in Savers \ {p} : shown'[q] = shown[q] /\ settled'[q] = settled[q]
      BY <2>1
  <2>4. \A i \in Ids : Over(i) => Over(i)'
      BY <2>1, <2>2 DEF Over
  <2>5. CASE Finish(p)
      BY <2>1, <2>2, <2>3, <2>4, <2>5
  <2>6. CASE UNCHANGED <<id, review>> /\ pc'[p] # "idle"
      BY <2>1, <2>4, <2>6
  <2> QED BY <2>1, <2>5, <2>6
<1>25. ASSUME NEW p \in Laptops, LateRename(p) PROVE Shown'
    BY <1>25 DEF LateRename, Rename
<1>26. ASSUME NEW p \in Locals, NEW i \in Ids, WebAcceptListed(p, i) PROVE Shown'
    BY <1>26 DEF WebAcceptListed, BeginSave
<1>27. ASSUME NEW p \in Savers, NEW i \in Ids, RejectListed(p, i) PROVE Shown'
    BY <1>27 DEF RejectListed
<1>28. ASSUME NEW p \in Locals, LocalNoBackup(p) PROVE Shown'
    BY <1>28 DEF LocalNoBackup, BackupTorn
<1>29. CASE UNCHANGED vars
    BY <1>29 DEF vars
<1> QED
    BY <1>1, <1>2, <1>3, <1>4, <1>5, <1>6, <1>7, <1>8, <1>9, <1>10,
       <1>11, <1>12, <1>13, <1>14, <1>15, <1>16, <1>17, <1>18, <1>19,
       <1>20, <1>21, <1>22, <1>23, <1>24, <1>25, <1>26, <1>27, <1>28,
       <1>29, AllSteps

\* What a step does to a proposal.
LEMMA KeptStep ==
    ASSUME Typed, Fresh, Shown, [Next]_vars, NEW j \in Ids
    PROVE  KeptOrDecided(j)
<1> USE SeedsAssumption, Sorts, IdSorts DEF Typed, QueueOK, HandOK, Held,
       BoxHeld, SaverHeld, Fresh, Shown, Seen, Mine, KeptOrDecided, files,
       hand, review, watch, Start, Goto, Done, Finish, Event, Fault, NoFault
<1>1. CASE Tick
    BY <1>1 DEF Tick
<1>2. ASSUME NEW b \in Boxes, NEW t \in Texts, PostCount(b, t) PROVE KeptOrDecided(j)
    BY <1>2 DEF PostCount, Pending
<1>3. ASSUME NEW b \in Boxes, PostCreate(b) PROVE KeptOrDecided(j)
    BY <1>3 DEF PostCreate, FirstFree
<1>4. ASSUME NEW b \in Boxes, PostWrite(b) PROVE KeptOrDecided(j)
    BY <1>4 DEF PostWrite, Mine
<1>5. ASSUME NEW b \in Boxes, PostKilled(b) PROVE KeptOrDecided(j)
    BY <1>5 DEF PostKilled, Mine
<1>6. ASSUME NEW p \in Savers, NEW i \in Ids, Show(p, i) PROVE KeptOrDecided(j)
    BY <1>6 DEF Show
<1>7. ASSUME NEW p \in Locals, WebAccept(p) PROVE KeptOrDecided(j)
    BY <1>7 DEF WebAccept, BeginSave
<1>8. ASSUME NEW p \in Savers, CliAccept(p) PROVE KeptOrDecided(j)
    BY <1>8 DEF CliAccept, BeginSave
<1>9. ASSUME NEW p \in Savers, Reject(p) PROVE KeptOrDecided(j)
    BY <1>9 DEF Reject
<1>10. ASSUME NEW p \in Savers, Skip(p) PROVE KeptOrDecided(j)
    BY <1>10 DEF Skip
<1>11. ASSUME NEW p \in Savers, Drop(p) PROVE KeptOrDecided(j)
    BY <1>11 DEF Drop
<1>12. ASSUME NEW p \in Savers, NEW t \in Texts, Edit(p, t) PROVE KeptOrDecided(j)
    BY <1>12 DEF Edit, BeginSave
<1>13. ASSUME NEW p \in Locals, NEW t \in Texts, WebPut(p, t) PROVE KeptOrDecided(j)
    BY <1>13 DEF WebPut, BeginSave
<1>14. ASSUME NEW p \in Savers, SaveBackup(p) PROVE KeptOrDecided(j)
    BY <1>14 DEF SaveBackup, Backup
<1>15. ASSUME NEW p \in Savers, OpenTmp(p) PROVE KeptOrDecided(j)
    BY <1>15 DEF OpenTmp
<1>16. ASSUME NEW p \in Savers, WriteTmp(p) PROVE KeptOrDecided(j)
    BY <1>16 DEF WriteTmp, Overlay
<1>17. ASSUME NEW p \in Savers, WriteFails(p) PROVE KeptOrDecided(j)
    BY <1>17 DEF WriteFails
<1>18. ASSUME NEW p \in Savers, SaveRename(p) PROVE KeptOrDecided(j)
    BY <1>18 DEF SaveRename, Rename, Saved
<1>19. ASSUME NEW p \in Savers, RenameFails(p) PROVE KeptOrDecided(j)
    BY <1>19 DEF RenameFails
<1>20. ASSUME NEW p \in Locals, SaveKilled(p) PROVE KeptOrDecided(j)
    BY <1>20 DEF SaveKilled
<1>21. ASSUME NEW p \in Laptops, PushNoBackup(p) PROVE KeptOrDecided(j)
    BY <1>21 DEF PushNoBackup, BackupTorn
<1>22. ASSUME NEW p \in Laptops, PushRefused(p) PROVE KeptOrDecided(j)
    BY <1>22 DEF PushRefused, Again
<1>23. ASSUME NEW p \in Laptops, PushDropped(p) PROVE KeptOrDecided(j)
    BY <1>23 DEF PushDropped, Again
<1>24. ASSUME NEW p \in Laptops, PushLost(p) PROVE KeptOrDecided(j)
    BY <1>24 DEF PushLost, Rename, Again
<1>25. ASSUME NEW p \in Laptops, LateRename(p) PROVE KeptOrDecided(j)
    BY <1>25 DEF LateRename, Rename
<1>26. ASSUME NEW p \in Locals, NEW i \in Ids, WebAcceptListed(p, i) PROVE KeptOrDecided(j)
    BY <1>26 DEF WebAcceptListed, BeginSave
<1>27. ASSUME NEW p \in Savers, NEW i \in Ids, RejectListed(p, i) PROVE KeptOrDecided(j)
    BY <1>27 DEF RejectListed
<1>28. ASSUME NEW p \in Locals, LocalNoBackup(p) PROVE KeptOrDecided(j)
    BY <1>28 DEF LocalNoBackup, BackupTorn
<1>29. CASE UNCHANGED vars
    BY <1>29 DEF vars
<1> QED
    BY <1>1, <1>2, <1>3, <1>4, <1>5, <1>6, <1>7, <1>8, <1>9, <1>10,
       <1>11, <1>12, <1>13, <1>14, <1>15, <1>16, <1>17, <1>18, <1>19,
       <1>20, <1>21, <1>22, <1>23, <1>24, <1>25, <1>26, <1>27, <1>28,
       <1>29, AllSteps

-----------------------------------------------------------------------------
(* What is live.                                                           *)

Vetted == chosen \cup unread
Writing(p) == pc[p] \in {"write", "rename"}

\* Saves are of vetted contents only.  A .tmp that is not dirty has one writer
\* or none; what is in it is what its writer saves.
Whole ==
    /\ live \notin dirty => disk[live] \in Vetted
    /\ late # {} => tmp \in dirty \cup {None}
    /\ \A p \in Savers :
        /\ pc[p] \in SavePc => text[p] \in Vetted
        /\ pc[p] = "write" /\ fd[p] \notin dirty => fd[p] = tmp
        /\ Writing(p) /\ tmp \notin dirty \cup {None} =>
            /\ \A q \in Savers : Writing(q) => q = p
            /\ pc[p] = "write" => fd[p] = tmp /\ disk[tmp] = Empty
            /\ pc[p] = "rename" => disk[tmp] = text[p]

\* A save starts with a vetted content, and carries it to the live seed.
LEMMA WholeKept ==
    ASSUME Typed, Shown, Whole, [Next]_vars
    PROVE  Whole'
<1> USE SeedsAssumption, Sorts, IdSorts, TmpIsFresh DEF Typed, FilesOK,
       QueueOK, HandOK, SaveOK, ReviewOK, Held, BoxHeld, SaverHeld, Shown,
       Seen, Whole, Vetted, Writing, Shared, SavePc, files, hand, review, watch, Start, Goto, Done,
       Finish, Event, Fault, NoFault
<1>1. CASE Tick
    BY <1>1 DEF Tick
<1>2. ASSUME NEW b \in Boxes, NEW t \in Texts, PostCount(b, t) PROVE Whole'
    BY <1>2 DEF PostCount, Pending
<1>3. ASSUME NEW b \in Boxes, PostCreate(b) PROVE Whole'
    BY <1>3 DEF PostCreate, FirstFree
<1>4. ASSUME NEW b \in Boxes, PostWrite(b) PROVE Whole'
    BY <1>4 DEF PostWrite, Mine
<1>5. ASSUME NEW b \in Boxes, PostKilled(b) PROVE Whole'
    BY <1>5 DEF PostKilled, Mine
<1>6. ASSUME NEW p \in Savers, NEW i \in Ids, Show(p, i) PROVE Whole'
    BY <1>6 DEF Show
<1>7. ASSUME NEW p \in Locals, WebAccept(p) PROVE Whole'
    BY <1>7 DEF WebAccept, BeginSave
<1>8. ASSUME NEW p \in Savers, CliAccept(p) PROVE Whole'
    BY <1>8 DEF CliAccept, BeginSave
<1>9. ASSUME NEW p \in Savers, Reject(p) PROVE Whole'
    BY <1>9 DEF Reject
<1>10. ASSUME NEW p \in Savers, Skip(p) PROVE Whole'
    BY <1>10 DEF Skip
<1>11. ASSUME NEW p \in Savers, Drop(p) PROVE Whole'
    BY <1>11 DEF Drop
<1>12. ASSUME NEW p \in Savers, NEW t \in Texts, Edit(p, t) PROVE Whole'
    BY <1>12 DEF Edit, BeginSave
<1>13. ASSUME NEW p \in Locals, NEW t \in Texts, WebPut(p, t) PROVE Whole'
    BY <1>13 DEF WebPut, BeginSave
<1>14. ASSUME NEW p \in Savers, SaveBackup(p) PROVE Whole'
    BY <1>14 DEF SaveBackup, Backup
<1>15. ASSUME NEW p \in Savers, OpenTmp(p) PROVE Whole'
    BY <1>15 DEF OpenTmp
<1>16. ASSUME NEW p \in Savers, WriteTmp(p) PROVE Whole'
    BY <1>16 DEF WriteTmp, Overlay
<1>17. ASSUME NEW p \in Savers, WriteFails(p) PROVE Whole'
    BY <1>17 DEF WriteFails
<1>18. ASSUME NEW p \in Savers, SaveRename(p) PROVE Whole'
    BY <1>18 DEF SaveRename, Rename, Saved
<1>19. ASSUME NEW p \in Savers, RenameFails(p) PROVE Whole'
    BY <1>19 DEF RenameFails
<1>20. ASSUME NEW p \in Locals, SaveKilled(p) PROVE Whole'
    BY <1>20 DEF SaveKilled
<1>21. ASSUME NEW p \in Laptops, PushNoBackup(p) PROVE Whole'
    BY <1>21 DEF PushNoBackup, BackupTorn
<1>22. ASSUME NEW p \in Laptops, PushRefused(p) PROVE Whole'
    BY <1>22 DEF PushRefused, Again
<1>23. ASSUME NEW p \in Laptops, PushDropped(p) PROVE Whole'
    BY <1>23 DEF PushDropped, Again
<1>24. ASSUME NEW p \in Laptops, PushLost(p) PROVE Whole'
    BY <1>24 DEF PushLost, Rename, Again
<1>25. ASSUME NEW p \in Laptops, LateRename(p) PROVE Whole'
    BY <1>25 DEF LateRename, Rename
<1>26. ASSUME NEW p \in Locals, NEW i \in Ids, WebAcceptListed(p, i) PROVE Whole'
    BY <1>26 DEF WebAcceptListed, BeginSave
<1>27. ASSUME NEW p \in Savers, NEW i \in Ids, RejectListed(p, i) PROVE Whole'
    BY <1>27 DEF RejectListed
<1>28. ASSUME NEW p \in Locals, LocalNoBackup(p) PROVE Whole'
    BY <1>28 DEF LocalNoBackup, BackupTorn
<1>29. CASE UNCHANGED vars
    BY <1>29 DEF vars
<1> QED
    BY <1>1, <1>2, <1>3, <1>4, <1>5, <1>6, <1>7, <1>8, <1>9, <1>10,
       <1>11, <1>12, <1>13, <1>14, <1>15, <1>16, <1>17, <1>18, <1>19,
       <1>20, <1>21, <1>22, <1>23, <1>24, <1>25, <1>26, <1>27, <1>28,
       <1>29, AllSteps

-----------------------------------------------------------------------------
(* What was live.                                                          *)

Kept == Backups \cup excused
InFlight == late # {} \/ \E p \in Savers : Active(p)

\* What went live is live, in a backup or excused; and while some save is past
\* its backup, or its orphaned shell is, the live seed need not be counted on.
Backed ==
    /\ InFlight => ever \subseteq Kept
    /\ ever \subseteq Kept \cup {disk[live]}

\* A save that replaces the live seed has backed it up.
LEMMA BackedKept ==
    ASSUME Typed, Backed, [Next]_vars
    PROVE  Backed'
<1> USE SeedsAssumption, Sorts, IdSorts, TmpIsFresh DEF Typed, FilesOK,
       HandOK, SaveOK, WatchOK, Held, BoxHeld, SaverHeld, Backed, InFlight,
       Kept, Backups, Active, SavePc, Others, files, hand, review, watch, Start, Goto, Done,
       Finish, Event, Fault, NoFault
<1>1. CASE Tick
    BY <1>1 DEF Tick
<1>2. ASSUME NEW b \in Boxes, NEW t \in Texts, PostCount(b, t) PROVE Backed'
    BY <1>2 DEF PostCount, Pending
<1>3. ASSUME NEW b \in Boxes, PostCreate(b) PROVE Backed'
    BY <1>3 DEF PostCreate, FirstFree
<1>4. ASSUME NEW b \in Boxes, PostWrite(b) PROVE Backed'
    BY <1>4 DEF PostWrite, Mine
<1>5. ASSUME NEW b \in Boxes, PostKilled(b) PROVE Backed'
    BY <1>5 DEF PostKilled, Mine
<1>6. ASSUME NEW p \in Savers, NEW i \in Ids, Show(p, i) PROVE Backed'
    BY <1>6 DEF Show
<1>7. ASSUME NEW p \in Locals, WebAccept(p) PROVE Backed'
    BY <1>7 DEF WebAccept, BeginSave
<1>8. ASSUME NEW p \in Savers, CliAccept(p) PROVE Backed'
    BY <1>8 DEF CliAccept, BeginSave
<1>9. ASSUME NEW p \in Savers, Reject(p) PROVE Backed'
    BY <1>9 DEF Reject
<1>10. ASSUME NEW p \in Savers, Skip(p) PROVE Backed'
    BY <1>10 DEF Skip
<1>11. ASSUME NEW p \in Savers, Drop(p) PROVE Backed'
    BY <1>11 DEF Drop
<1>12. ASSUME NEW p \in Savers, NEW t \in Texts, Edit(p, t) PROVE Backed'
    BY <1>12 DEF Edit, BeginSave
<1>13. ASSUME NEW p \in Locals, NEW t \in Texts, WebPut(p, t) PROVE Backed'
    BY <1>13 DEF WebPut, BeginSave
<1>14. ASSUME NEW p \in Savers, SaveBackup(p) PROVE Backed'
    BY <1>14 DEF SaveBackup, Backup
<1>15. ASSUME NEW p \in Savers, OpenTmp(p) PROVE Backed'
    BY <1>15 DEF OpenTmp
<1>16. ASSUME NEW p \in Savers, WriteTmp(p) PROVE Backed'
    BY <1>16 DEF WriteTmp, Overlay
<1>17. ASSUME NEW p \in Savers, WriteFails(p) PROVE Backed'
    BY <1>17 DEF WriteFails
<1>18. ASSUME NEW p \in Savers, SaveRename(p) PROVE Backed'
    BY <1>18 DEF SaveRename, Rename, Saved
<1>19. ASSUME NEW p \in Savers, RenameFails(p) PROVE Backed'
    BY <1>19 DEF RenameFails
<1>20. ASSUME NEW p \in Locals, SaveKilled(p) PROVE Backed'
    BY <1>20 DEF SaveKilled
<1>21. ASSUME NEW p \in Laptops, PushNoBackup(p) PROVE Backed'
    BY <1>21 DEF PushNoBackup, BackupTorn
<1>22. ASSUME NEW p \in Laptops, PushRefused(p) PROVE Backed'
    BY <1>22 DEF PushRefused, Again
<1>23. ASSUME NEW p \in Laptops, PushDropped(p) PROVE Backed'
    BY <1>23 DEF PushDropped, Again
<1>24. ASSUME NEW p \in Laptops, PushLost(p) PROVE Backed'
    BY <1>24 DEF PushLost, Rename, Again
<1>25. ASSUME NEW p \in Laptops, LateRename(p) PROVE Backed'
    BY <1>25 DEF LateRename, Rename
<1>26. ASSUME NEW p \in Locals, NEW i \in Ids, WebAcceptListed(p, i) PROVE Backed'
    BY <1>26 DEF WebAcceptListed, BeginSave
<1>27. ASSUME NEW p \in Savers, NEW i \in Ids, RejectListed(p, i) PROVE Backed'
    BY <1>27 DEF RejectListed
<1>28. ASSUME NEW p \in Locals, LocalNoBackup(p) PROVE Backed'
    BY <1>28 DEF LocalNoBackup, BackupTorn
<1>29. CASE UNCHANGED vars
    BY <1>29 DEF vars
<1> QED
    BY <1>1, <1>2, <1>3, <1>4, <1>5, <1>6, <1>7, <1>8, <1>9, <1>10,
       <1>11, <1>12, <1>13, <1>14, <1>15, <1>16, <1>17, <1>18, <1>19,
       <1>20, <1>21, <1>22, <1>23, <1>24, <1>25, <1>26, <1>27, <1>28,
       <1>29, AllSteps

-----------------------------------------------------------------------------
(* The theorems.                                                           *)

IInv == Typed /\ Room /\ Fresh /\ Shown /\ Whole /\ Backed

LEMMA IInvInit == Init => IInv
<1> SUFFICES ASSUME Init PROVE IInv
    OBVIOUS
<1> USE SeedsAssumption, Sorts DEF Init
<1>1. Typed BY SeedsInit
<1>2. Room
  <2>1. Pending = {} /\ Counted = {}
      BY DEF Pending, Counted, Procs
  <2> QED BY <2>1, Finite, FS_EmptySet DEF Room
<1>3. Fresh BY DEF Fresh
<1>4. Shown BY DEF Shown, Seen
<1>5. Whole BY DEF Whole, Vetted, Writing, SavePc, None
<1>6. Backed BY DEF Backed, InFlight, Active
<1> QED BY <1>1, <1>2, <1>3, <1>4, <1>5, <1>6 DEF IInv

LEMMA IInvStep == IInv /\ [Next]_vars => IInv'
BY TypedStep, RoomStep, FreshKept, ShownKept, WholeKept, BackedKept DEF IInv

LEMMA SeedsInvariant == Spec => []IInv
BY IInvInit, IInvStep, PTL DEF Spec

\* The files, the queue and what every process holds keep their types.
THEOREM SeedsTypeCorrect == Spec => []TypeOK
<1>1. IInv => TypeOK BY TypeParts DEF IInv
<1> QED BY <1>1, SeedsInvariant, PTL

\* stageProposal counts and then writes: for any number of boxes the queue
\* stays within one proposal of each past the cap.
THEOREM QueueIsBounded == Spec => []PendingBounded
<1>1. Room => PendingBounded
    BY Finite DEF Room, PendingBounded
<1> QED BY <1>1, SeedsInvariant, PTL DEF IInv

\* O_EXCL and the review by id: a proposal that was written changes no more,
\* and a reviewer who was shown it once it was settled drops just that one.
\* (Who was shown it earlier, or not at all, may drop what nobody has read.)
THEOREM ProposalsAreKept == Spec => QueueKept
<1>1. IInv /\ [Next]_vars => [\A i \in Ids : KeptOrDecided(i)]_vars
    BY KeptStep DEF IInv
<1> QED BY <1>1, SeedsInvariant, PTL DEF Spec, QueueKept

\* temp + rename: for any number of savers, crashes and retries, what is live
\* was typed or shown, unless the web UI saved it unread, and as long as it
\* does not come from a .tmp that savers shared or a dropped push left.
THEOREM LiveIsChosen == Spec => []LiveWasChosen
<1>1. IInv => LiveWasChosen BY DEF IInv, Whole, Vetted, LiveWasChosen
<1> QED BY <1>1, SeedsInvariant, PTL

\* Every seed that went live is live or in a backup, for any overlaps, crashes
\* and retries, up to the three cases ReplacedIsKept names.
THEOREM ReplacedSeedsAreKept == Spec => []ReplacedIsKept
<1>1. IInv => ReplacedIsKept
    BY DEF IInv, Backed, Kept, ReplacedIsKept
<1> QED BY <1>1, SeedsInvariant, PTL
=============================================================================
