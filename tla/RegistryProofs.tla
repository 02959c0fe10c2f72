--------------------------- MODULE RegistryProofs ---------------------------
(***************************************************************************)
(* Proofs about Registry for any names, any number of volumes and faults:  *)
(* type correctness and which boxes stay watched for any number of         *)
(* processes and, for a process that runs its verbs one at a time, that    *)
(* names, ids, workspaces and the default stay in step.                    *)
(***************************************************************************)
EXTENDS Registry, TLAPS

USE RegistryAssumption DEF None

----------------------------------------------------------------------------
\* Type correctness.  The invariant is TypeOK in parts; beyond it, a verb under
\* way has its profile, a rename its new name, and only ids that were given out
\* belong to volumes.

DiskOK ==
    /\ config \subseteq Names /\ state \subseteq Names /\ todo \subseteq Names
    /\ seed \in [Names -> {"none", "default", "edited"}]
    /\ vid \in [Names -> 0..made]
    /\ current \in Names \cup {NoName}
CloudOK ==
    /\ volName \in [Ids -> Names \cup {NoName}] /\ made \in 0..MaxVols
    /\ \A v \in Ids : volName[v] # NoName => v <= made
    /\ box \subseteq Names
    /\ att \in [Ids -> Names \cup {NoName}]
ProcsOK ==
    /\ pc \in [Admins -> Pc]
    /\ arg \in [Admins -> Names \cup {NoName}]
    /\ dst \in [Admins -> Names \cup {NoName}]
    /\ vol \in [Admins -> 0..made]
    /\ \A p \in Admins :
           /\ pc[p] # "idle" => arg[p] \in Names
           /\ pc[p] \in {"renvol", "move", "moveconf"} => dst[p] \in Names
    /\ blind \subseteq Names
FaultsOK == faulted \subseteq FaultKinds
Shape == DiskOK /\ CloudOK /\ ProcsOK /\ FaultsOK

LEMMA InitShape == Init => Shape
BY DEF Init, Shape, DiskOK, CloudOK, ProcsOK, FaultsOK, Pc, Ids

\* A fault that happens is one that may happen.
LEMMA FaultKept ==
    ASSUME FaultsOK, NoFault \/ \E k \in Kinds : Fault(k) PROVE FaultsOK'
BY DEF FaultsOK, NoFault, Fault

\* A verb starts on a profile; a rename also with a new name.
LEMMA StartKept ==
    ASSUME ProcsOK, made' = made, NEW p \in Admins, NEW label \in Pc, NEW n \in Names,
           NEW m \in Names \cup {NoName}, NEW v \in 0..made, Start(p, label, n, m, v),
           label \in {"renvol", "move", "moveconf"} => m \in Names,
           blind' \in {blind, blind \cup {n}}
    PROVE  ProcsOK'
BY DEF ProcsOK, Start

\* A verb under way moves on.
LEMMA GotoKept ==
    ASSUME ProcsOK, made' = made, NEW p \in Admins, NEW label \in Pc, Goto(p, label),
           pc[p] # "idle",
           label \in {"renvol", "move", "moveconf"} => dst[p] \in Names
    PROVE  ProcsOK'
BY DEF ProcsOK, Goto

\* A verb returns; it may have created a volume.
LEMMA FinishKept ==
    ASSUME ProcsOK, made \in Nat, made' \in Nat, made <= made',
           NEW p \in Admins, Finish(p)
    PROVE  ProcsOK'
BY DEF ProcsOK, Finish, Pc

\* Nothing happens to the processes.
LEMMA ProcsStay == ASSUME ProcsOK, made' = made, UNCHANGED procs PROVE ProcsOK'
BY DEF ProcsOK, procs

\* Creating a profile keeps the types.
LEMMA AddShape ==
    ASSUME NEW p \in Admins, AddStep(p), Shape PROVE Shape'
<1> USE DEF Shape, conf, disk, volumes, cloud, procs, Ids
<1>1. ASSUME NEW n \in Names, AddBegin(p, n) PROVE Shape'
  <2> USE <1>1 DEF AddBegin
  <2>1. FaultsOK' BY DEF FaultsOK
  <2>2. DiskOK' BY DEF DiskOK, CloudOK, ProcsOK
  <2>3. CloudOK' BY DEF DiskOK, CloudOK, ProcsOK
  <2>4. ProcsOK' BY StartKept DEF Pc, CloudOK, DiskOK
  <2> QED BY <2>1, <2>2, <2>3, <2>4
<1>2. ASSUME NEW n \in Names, SeedInit(p, n) PROVE Shape'
  <2> USE <1>2 DEF SeedInit
  <2>1. FaultsOK' BY DEF FaultsOK
  <2>2. DiskOK' BY DEF DiskOK, CloudOK, ProcsOK
  <2>3. CloudOK' BY DEF DiskOK, CloudOK, ProcsOK
  <2>4. ProcsOK' BY ProcsStay
  <2> QED BY <2>1, <2>2, <2>3, <2>4
<1>3. ASSUME NEW n \in Names, SeedEdit(p, n) PROVE Shape'
  <2> USE <1>3 DEF SeedEdit
  <2>1. FaultsOK' BY DEF FaultsOK
  <2>2. DiskOK' BY DEF DiskOK, CloudOK, ProcsOK
  <2>3. CloudOK' BY DEF DiskOK, CloudOK, ProcsOK
  <2>4. ProcsOK' BY ProcsStay
  <2> QED BY <2>1, <2>2, <2>3, <2>4
<1>4. ASSUME NEW n \in Names, Use(p, n) PROVE Shape'
  <2> USE <1>4 DEF Use
  <2>1. FaultsOK' BY DEF FaultsOK
  <2>2. DiskOK' BY DEF DiskOK, CloudOK, ProcsOK
  <2>3. CloudOK' BY DEF DiskOK, CloudOK, ProcsOK
  <2>4. ProcsOK' BY ProcsStay
  <2> QED BY <2>1, <2>2, <2>3, <2>4
<1>5. CASE AddKeys(p)
  <2> USE <1>5 DEF AddKeys
  <2>1. FaultsOK' BY FaultKept DEF Kinds
  <2>2. DiskOK' BY DEF DiskOK, CloudOK, ProcsOK
  <2>3. CloudOK' BY DEF DiskOK, CloudOK, ProcsOK
  <2>4. ProcsOK'
    <3>1. CASE Goto(p, "ensure") BY <3>1, GotoKept DEF Pc, ProcsOK
    <3>2. CASE Finish(p) BY <3>2, FinishKept DEF CloudOK
    <3> QED BY <3>1, <3>2
  <2> QED BY <2>1, <2>2, <2>3, <2>4
<1>6. CASE SetupBegin(p)
  <2> USE <1>6 DEF SetupBegin, Target
  <2>1. FaultsOK' BY DEF FaultsOK
  <2>2. DiskOK' BY DEF DiskOK, CloudOK, ProcsOK
  <2>3. CloudOK' BY DEF DiskOK, CloudOK, ProcsOK
  <2>4. ProcsOK' BY StartKept DEF Pc, CloudOK, DiskOK
  <2> QED BY <2>1, <2>2, <2>3, <2>4
<1>7. CASE Ensure(p)
  <2> USE <1>7 DEF Ensure
  <2>1. FaultsOK' BY FaultKept DEF Kinds
  <2>2. DiskOK' BY DEF DiskOK, CloudOK, ProcsOK, Cache, CreateVolume
  <2>3. CloudOK'
    <3>1. box' = box /\ att' = att /\ arg[p] \in Names BY DEF ProcsOK
    <3>2. CASE UNCHANGED volumes BY <3>1, <3>2 DEF CloudOK
    <3>3. CASE CreateVolume(arg[p]) BY <3>1, <3>3 DEF CloudOK, CreateVolume
    <3> QED BY <3>2, <3>3
  <2>4. ProcsOK'
    <3>1. made \in Nat /\ made' \in Nat /\ made <= made'
      BY DEF CloudOK, CreateVolume
    <3> QED BY <3>1, FinishKept
  <2> QED BY <2>1, <2>2, <2>3, <2>4
<1> QED BY <1>1, <1>2, <1>3, <1>4, <1>5, <1>6, <1>7 DEF AddStep

\* Renaming one does.
LEMMA RenameShape ==
    ASSUME NEW p \in Admins, RenameStep(p), Shape PROVE Shape'
<1> USE DEF Shape, conf, disk, volumes, cloud, procs, Ids
<1>1. ASSUME NEW n \in Names, NEW m \in Names, RenameBegin(p, n, m) PROVE Shape'
  <2> USE <1>1 DEF RenameBegin
  <2>1. FaultsOK' BY FaultKept DEF Kinds
  <2>2. DiskOK' BY DEF DiskOK, CloudOK, ProcsOK
  <2>3. CloudOK' BY DEF DiskOK, CloudOK, ProcsOK
  <2>4. ProcsOK' BY StartKept DEF Pc, CloudOK, DiskOK, Beside
  <2> QED BY <2>1, <2>2, <2>3, <2>4
<1>2. CASE RenameVolume(p)
  <2> USE <1>2 DEF RenameVolume
  <2>1. FaultsOK' BY FaultKept DEF Kinds
  <2>2. DiskOK' BY DEF DiskOK, CloudOK, ProcsOK, CanRename, Exists
  <2>3. CloudOK' BY DEF DiskOK, CloudOK, ProcsOK, CanRename, Exists
  <2>4. ProcsOK'
    <3>1. CASE Goto(p, "move") BY <3>1, GotoKept DEF Pc, ProcsOK
    <3>2. CASE Finish(p) BY <3>2, FinishKept DEF CloudOK
    <3> QED BY <3>1, <3>2
  <2> QED BY <2>1, <2>2, <2>3, <2>4
<1>3. CASE RenameState(p)
  <2> USE <1>3 DEF RenameState
  <2>1. FaultsOK' BY DEF FaultsOK
  <2>2. DiskOK'
    <3>1. arg[p] \in Names /\ dst[p] \in Names BY DEF ProcsOK
    <3>2. vid' \in [Names -> 0..made] BY <3>1 DEF DiskOK, CloudOK
    <3>3. made' = made /\ state' \subseteq Names BY <3>1 DEF DiskOK
    <3> QED BY <3>2, <3>3 DEF DiskOK
  <2>3. CloudOK' BY DEF DiskOK, CloudOK, ProcsOK
  <2>4. ProcsOK'
    <3>1. CASE Goto(p, "moveconf") BY <3>1, GotoKept DEF Pc, ProcsOK
    <3>2. CASE Finish(p) BY <3>2, FinishKept DEF CloudOK
    <3> QED BY <3>1, <3>2
  <2> QED BY <2>1, <2>2, <2>3, <2>4
<1>4. CASE RenameConf(p)
  <2> USE <1>4 DEF RenameConf
  <2>1. FaultsOK' BY DEF FaultsOK
  <2>2. DiskOK'
    <3>1. arg[p] \in Names /\ dst[p] \in Names BY DEF ProcsOK
    <3> QED BY <3>1 DEF DiskOK, HasConf
  <2>3. CloudOK' BY DEF DiskOK, CloudOK, ProcsOK, HasConf
  <2>4. ProcsOK' BY FinishKept DEF CloudOK
  <2> QED BY <2>1, <2>2, <2>3, <2>4
<1> QED BY <1>1, <1>2, <1>3, <1>4 DEF RenameStep

\* Removing one does.
LEMMA RmShape ==
    ASSUME NEW p \in Admins, RmStep(p), Shape PROVE Shape'
<1> USE DEF Shape, conf, disk, volumes, cloud, procs, Ids
<1>1. ASSUME NEW n \in Names, NEW purge \in BOOLEAN, RmBegin(p, n, purge) PROVE Shape'
  <2> USE <1>1 DEF RmBegin
  <2>1. FaultsOK' BY FaultKept DEF Kinds
  <2>2. DiskOK' BY DEF DiskOK, CloudOK, ProcsOK
  <2>3. CloudOK' BY DEF DiskOK, CloudOK, ProcsOK
  <2>4. ProcsOK' BY StartKept DEF Pc, CloudOK, DiskOK, Beside
  <2> QED BY <2>1, <2>2, <2>3, <2>4
<1>2. CASE RmDown(p)
  <2> USE <1>2 DEF RmDown
  <2>1. FaultsOK' BY FaultKept DEF Kinds
  <2>2. DiskOK' BY DEF DiskOK, CloudOK, ProcsOK, Unbox, UnboxFails, Freed
  <2>3. CloudOK' BY DEF DiskOK, CloudOK, ProcsOK, Unbox, UnboxFails, Freed
  <2>4. ProcsOK'
    <3>1. CASE Goto(p, "rmstate") BY <3>1, GotoKept DEF Pc, ProcsOK
    <3>2. CASE Goto(p, "purge") BY <3>2, GotoKept DEF Pc, ProcsOK
    <3>3. CASE Finish(p) BY <3>3, FinishKept DEF CloudOK
    <3> QED BY <3>1, <3>2, <3>3
  <2> QED BY <2>1, <2>2, <2>3, <2>4
<1>3. CASE RmVolume(p)
  <2> USE <1>3 DEF RmVolume
  <2>1. FaultsOK' BY FaultKept DEF Kinds
  <2>2. DiskOK' BY DEF DiskOK, CloudOK, ProcsOK, CanDelete, DeleteVolume, Exists
  <2>3. CloudOK' BY DEF DiskOK, CloudOK, ProcsOK, CanDelete, DeleteVolume, Exists
  <2>4. ProcsOK'
    <3>1. CASE Goto(p, "rmstate") BY <3>1, GotoKept DEF Pc, ProcsOK
    <3>2. CASE Finish(p) BY <3>2, FinishKept DEF CloudOK
    <3> QED BY <3>1, <3>2
  <2> QED BY <2>1, <2>2, <2>3, <2>4
<1>4. CASE RmState(p)
  <2> USE <1>4 DEF RmState
  <2>1. FaultsOK' BY DEF FaultsOK
  <2>2. DiskOK' BY DEF DiskOK, CloudOK, ProcsOK
  <2>3. CloudOK' BY DEF DiskOK, CloudOK, ProcsOK
  <2>4. ProcsOK'
    <3>1. CASE Goto(p, "rmconf") BY <3>1, GotoKept DEF Pc, ProcsOK
    <3> QED BY <3>1
  <2> QED BY <2>1, <2>2, <2>3, <2>4
<1>5. CASE RmConf(p)
  <2> USE <1>5 DEF RmConf
  <2>1. FaultsOK' BY DEF FaultsOK
  <2>2. DiskOK' BY DEF DiskOK, CloudOK, ProcsOK
  <2>3. CloudOK' BY DEF DiskOK, CloudOK, ProcsOK
  <2>4. ProcsOK' BY FinishKept DEF CloudOK
  <2> QED BY <2>1, <2>2, <2>3, <2>4
<1> QED BY <1>1, <1>2, <1>3, <1>4, <1>5 DEF RmStep

\* So do the box verbs.
LEMMA BoxShape ==
    ASSUME NEW p \in Admins, BoxStep(p), Shape PROVE Shape'
<1> USE DEF Shape, conf, disk, volumes, cloud, procs, Ids
<1>1. ASSUME NEW n \in Names, UpBegin(p, n) PROVE Shape'
  <2> USE <1>1 DEF UpBegin
  <2>1. FaultsOK' BY DEF FaultsOK
  <2>2. DiskOK' BY DEF DiskOK, CloudOK, ProcsOK
  <2>3. CloudOK' BY DEF DiskOK, CloudOK, ProcsOK
  <2>4. ProcsOK' BY StartKept DEF Pc, CloudOK, DiskOK, Beside
  <2> QED BY <2>1, <2>2, <2>3, <2>4
<1>2. ASSUME NEW n \in Names, Down(p, n) PROVE Shape'
  <2> USE <1>2 DEF Down
  <2>1. FaultsOK' BY FaultKept DEF Kinds
  <2>2. DiskOK' BY DEF DiskOK, CloudOK, ProcsOK, Unbox, UnboxFails, Freed
  <2>3. CloudOK' BY DEF DiskOK, CloudOK, ProcsOK, Unbox, UnboxFails, Freed
  <2>4. ProcsOK' BY ProcsStay
  <2> QED BY <2>1, <2>2, <2>3, <2>4
<1>3. CASE UpSummon(p)
  <2> USE <1>3 DEF UpSummon
  <2>1. FaultsOK' BY FaultKept DEF Kinds
  <2>2. DiskOK' BY DEF DiskOK, CloudOK, ProcsOK, Exists
  <2>3. CloudOK' BY DEF DiskOK, CloudOK, ProcsOK, Exists
  <2>4. ProcsOK' BY FinishKept DEF CloudOK
  <2> QED BY <2>1, <2>2, <2>3, <2>4
<1> QED BY <1>1, <1>2, <1>3 DEF BoxStep

\* The reaper and a killed verb do.
LEMMA OtherShape ==
    ASSUME ReapStep \/ \E p \in Admins : Killed(p), Shape PROVE Shape'
<1> USE DEF Shape, conf, disk, volumes, cloud, procs, Ids
<1>1. CASE ReapList
  <2> USE <1>1 DEF ReapList
  <2>1. FaultsOK' BY DEF FaultsOK
  <2>2. DiskOK' BY DEF DiskOK, CloudOK, ProcsOK
  <2>3. CloudOK' BY DEF DiskOK, CloudOK, ProcsOK
  <2>4. ProcsOK' BY ProcsStay
  <2> QED BY <2>1, <2>2, <2>3, <2>4
<1>2. ASSUME NEW n \in todo, ReapVisit(n) PROVE Shape'
  <2> USE <1>2 DEF ReapVisit
  <2>1. FaultsOK' BY FaultKept DEF Kinds
  <2>2. DiskOK' BY DEF DiskOK, CloudOK, ProcsOK, Unbox, UnboxFails, Freed
  <2>3. CloudOK' BY DEF DiskOK, CloudOK, ProcsOK, Unbox, UnboxFails, Freed
  <2>4. ProcsOK' BY ProcsStay
  <2> QED BY <2>1, <2>2, <2>3, <2>4
<1>3. ASSUME NEW p \in Admins, Killed(p) PROVE Shape'
  <2> USE <1>3 DEF Killed
  <2>1. FaultsOK' BY FaultKept DEF Kinds
  <2>2. DiskOK' BY DEF DiskOK, CloudOK, ProcsOK
  <2>3. CloudOK' BY DEF DiskOK, CloudOK, ProcsOK
  <2>4. ProcsOK' BY FinishKept DEF CloudOK
  <2> QED BY <2>1, <2>2, <2>3, <2>4
<1> QED BY <1>1, <1>2, <1>3 DEF ReapStep

LEMMA NextShape == Shape /\ [Next]_vars => Shape'
<1> SUFFICES ASSUME Shape, [Next]_vars PROVE Shape'
  OBVIOUS
<1>1. CASE UNCHANGED vars
  BY <1>1 DEF Shape, DiskOK, CloudOK, ProcsOK, FaultsOK, vars, conf, disk, volumes,
              cloud, procs
<1> QED BY <1>1, AddShape, RenameShape, RmShape, BoxShape, OtherShape DEF Next

LEMMA ShapeInvariant == Spec => []Shape
BY InitShape, NextShape, PTL DEF Spec

\* Every variable of the registry keeps its type: names of profiles stay names
\* and cached ids stay ids of volumes that were created.
THEOREM RegistryTypeCorrect == Spec => []TypeOK
<1>1. Shape => TypeOK BY DEF Shape, DiskOK, CloudOK, ProcsOK, FaultsOK, TypeOK
<1> QED BY <1>1, ShapeInvariant, PTL

----------------------------------------------------------------------------
\* Boxes stay watched.

\* Of a profile that is not blind: between the Probe that saw no box, or the
\* down that removed it, and the end of the state directory no box comes up
\* under it, and the profile a summon is for stays.  Without this a step of
\* rename or rm could pull the profile away from under a box, so "every box is
\* watched" is not inductive.  Whoever comes second, the summon or the verb
\* that takes the profile away, makes the profile blind.
Watch ==
    /\ box \ blind \subseteq state
    /\ \A p \in Admins : arg[p] \notin blind =>
           /\ pc[p] \in {"renvol", "move", "purge", "rmstate"} => arg[p] \notin box
           /\ pc[p] = "summon" =>
                  /\ arg[p] \in state
                  /\ \A q \in Admins : pc[q] \in Leaving => arg[q] # arg[p]

LEMMA WatchStep == ASSUME Shape, Watch, [Next]_vars PROVE Watch'
<1> USE DEF Watch, Leaving, conf, disk, volumes, cloud, procs, Fault, NoFault
<1>0. /\ pc \in [Admins -> Pc] /\ arg \in [Admins -> Names \cup {NoName}]
  BY DEF Shape, ProcsOK
<1>1. ASSUME NEW p \in Admins, AddStep(p) PROVE Watch'
  BY <1>0, <1>1 DEF AddStep, AddBegin, AddKeys, SetupBegin, Ensure, SeedInit, SeedEdit, Use,
                    Start, Goto, Finish
<1>2. ASSUME NEW p \in Admins, RenameStep(p) PROVE Watch'
  <2>1. ASSUME NEW n \in Names, NEW m \in Names, RenameBegin(p, n, m) PROVE Watch'
    BY <1>0, <2>1 DEF RenameBegin, Beside, Start
  <2>2. CASE RenameVolume(p) BY <1>0, <2>2 DEF RenameVolume, Goto, Finish
  <2>3. CASE RenameState(p) BY <1>0, <2>3 DEF RenameState, Goto, Finish
  <2>4. CASE RenameConf(p) BY <1>0, <2>4 DEF RenameConf, Finish
  <2> QED BY <1>2, <2>1, <2>2, <2>3, <2>4 DEF RenameStep
<1>3. ASSUME NEW p \in Admins, RmStep(p) PROVE Watch'
  <2>1. ASSUME NEW n \in Names, NEW purge \in BOOLEAN, RmBegin(p, n, purge) PROVE Watch'
    BY <1>0, <2>1 DEF RmBegin, Beside, Start
  <2>2. CASE RmDown(p) BY <1>0, <2>2 DEF RmDown, Unbox, UnboxFails, Goto, Finish
  <2>3. CASE RmVolume(p) BY <1>0, <2>3 DEF RmVolume, Goto, Finish
  <2>4. CASE RmState(p) BY <1>0, <2>4 DEF RmState, Goto, Finish
  <2>5. CASE RmConf(p) BY <1>0, <2>5 DEF RmConf, Finish
  <2> QED BY <1>3, <2>1, <2>2, <2>3, <2>4, <2>5 DEF RmStep
<1>4. ASSUME NEW p \in Admins, BoxStep(p) PROVE Watch'
  <2>1. ASSUME NEW n \in Names, UpBegin(p, n) PROVE Watch'
    BY <1>0, <2>1 DEF UpBegin, Beside, Start
  <2>2. CASE UpSummon(p) BY <1>0, <2>2 DEF UpSummon, Finish
  <2>3. ASSUME NEW n \in Names, Down(p, n) PROVE Watch'
    BY <1>0, <2>3 DEF Down, Unbox, UnboxFails
  <2> QED BY <1>4, <2>1, <2>2, <2>3 DEF BoxStep
<1>5. ASSUME NEW p \in Admins, Killed(p) PROVE Watch' BY <1>0, <1>5 DEF Killed, Finish
<1>6. CASE ReapStep BY <1>0, <1>6 DEF ReapStep, ReapList, ReapVisit, Unbox,
                           UnboxFails
<1>7. CASE UNCHANGED vars BY <1>7 DEF vars
<1> QED BY <1>1, <1>2, <1>3, <1>4, <1>5, <1>6, <1>7 DEF Next

LEMMA WatchInvariant == Spec => []Watch
<1>1. Init => Watch BY DEF Init, Watch, Leaving
<1>2. Shape /\ Watch /\ [Next]_vars => Watch' BY WatchStep
<1> QED BY <1>1, <1>2, ShapeInvariant, PTL DEF Spec

\* Every box belongs to a profile the reaper lists, for any number of admins,
\* beside the reaper, and whatever calls are refused or lost or verbs killed
\* half way, with two exceptions the code leaves open: a profile that a rename
\* or rm took on after its Probe failed, or beside an `up` of it
\* (profileplane.go:161-162, 186, 234, profile.go:210).
THEOREM BoxesStayWatched == Spec => []SeenBoxesAreWatched
<1>1. Watch => SeenBoxesAreWatched BY DEF Watch, SeenBoxesAreWatched
<1> QED BY <1>1, WatchInvariant, PTL

\* For one admin and without failed Probes there is no exception.
Sighted == "read" \notin faulted => blind = {}

LEMMA SightedStep ==
    ASSUME NEW a, Admins = {a}, Sighted, [Next]_vars PROVE Sighted'
<1> USE DEF Sighted, Leaving, procs, Fault, NoFault
<1>1. CASE AddStep(a)
  BY <1>1 DEF AddStep, AddBegin, AddKeys, SetupBegin, Ensure, SeedInit, SeedEdit, Use,
              Goto, Finish
<1>2. CASE RenameStep(a)
  BY <1>2 DEF RenameStep, RenameBegin, RenameVolume, RenameState, RenameConf,
              Beside, Start, Goto, Finish
<1>3. CASE RmStep(a)
  BY <1>3 DEF RmStep, RmBegin, RmDown, RmVolume, RmState, RmConf, Beside, Start,
              Goto, Finish
<1>4. CASE BoxStep(a)
  BY <1>4 DEF BoxStep, UpBegin, UpSummon, Down, Beside, Start, Finish
<1>5. CASE Killed(a) BY <1>5 DEF Killed, Finish
<1>6. CASE ReapStep BY <1>6 DEF ReapStep, ReapList, ReapVisit
<1>7. CASE UNCHANGED vars BY <1>7 DEF vars
<1> QED BY <1>1, <1>2, <1>3, <1>4, <1>5, <1>6, <1>7 DEF Next

----------------------------------------------------------------------------
\* The default is a profile that is there.

\* The default may name a profile whose directory is gone only while the verb
\* that took it away is still before its last step, which resets the default;
\* and a rename has then put the new directory in place.
Listed ==
    "crash" \notin faulted =>
        /\ current \in state \cup {NoName}
           \/ \E p \in Admins : pc[p] \in {"moveconf", "rmconf"} /\ arg[p] = current
        /\ \A p \in Admins : pc[p] = "moveconf" => dst[p] \in state

LEMMA ListedStep ==
    ASSUME NEW a, Admins = {a}, Shape, Listed, [Next]_vars PROVE Listed'
<1> USE DEF Listed, conf, disk, volumes, cloud, procs, Fault, NoFault
<1> DEFINE p == a
<1>0. /\ pc \in [Admins -> Pc] /\ arg \in [Admins -> Names \cup {NoName}]
      /\ dst \in [Admins -> Names \cup {NoName}]
      /\ p \in Admins
  BY DEF Shape, ProcsOK
<1>1. CASE AddStep(p)
  BY <1>0, <1>1 DEF AddStep, AddBegin, AddKeys, SetupBegin, Ensure, SeedInit, SeedEdit, Use,
                    Start, Goto, Finish
<1>2. CASE RenameStep(p)
  BY <1>0, <1>2 DEF RenameStep, RenameBegin, RenameVolume, RenameState, RenameConf,
                    Start, Goto, Finish
<1>3. CASE RmStep(p)
  BY <1>0, <1>3 DEF RmStep, RmBegin, RmDown, RmVolume, RmState, RmConf,
                    Start, Goto, Finish
<1>4. CASE BoxStep(p)
  BY <1>0, <1>4 DEF BoxStep, UpBegin, UpSummon, Down, Start, Finish
<1>5. CASE Killed(p) BY <1>0, <1>5 DEF Killed, Finish
<1>6. CASE ReapStep BY <1>0, <1>6 DEF ReapStep, ReapList, ReapVisit
<1>7. CASE UNCHANGED vars BY <1>7 DEF vars
<1> QED BY <1>1, <1>2, <1>3, <1>4, <1>5, <1>6, <1>7 DEF Next

\* As long as no verb was killed, between two verbs the default that bare verbs
\* act on is a profile that is set up, or unset: rename and rm leave it no
\* dangling name, whatever call of theirs is refused (profileplane.go:201, 251).
\* For a user whose verbs run one at a time, beside the reaper.
THEOREM DefaultStaysListed ==
    ASSUME NEW a, Admins = {a} PROVE Spec => []CurrentListed
<1>1. Init => Listed BY DEF Init, Listed
<1>2. Listed => CurrentListed
  BY DEF Listed, CurrentListed, Only, Rest, Kinds
<1>3. Shape /\ Listed /\ [Next]_vars => Listed' BY ListedStep
<1> QED BY <1>1, <1>2, <1>3, ShapeInvariant, PTL DEF Spec

----------------------------------------------------------------------------
\* Volumes keep the names of their profiles.

\* A name is never given to two volumes.
Unique ==
    \A v, w \in Ids : volName[v] = volName[w] /\ volName[v] # NoName => v = w

\* A cached id leads to the volume of its profile's name, except inside a
\* rename that has renamed the volume and not yet moved the directory, and
\* inside a purge that has deleted it and not yet dropped the directory.
\* A rename under way still has the id and the two names it started with.
MatchBut(p) ==
    /\ \A n \in Names : vid[n] # None =>
           /\ n \in state
           /\ volName[vid[n]] = n \/ (pc[p] \in {"move", "rmstate"} /\ arg[p] = n)
    /\ pc[p] \in {"renvol", "move"} =>
           arg[p] \in state /\ dst[p] \notin state /\ vol[p] = vid[arg[p]]
    /\ pc[p] = "renvol" => vol[p] # None
    /\ pc[p] = "move" /\ vol[p] # None => volName[vol[p]] = dst[p]
Match == Only({"read", "write"}) => \A p \in Admins : MatchBut(p)

LEMMA UniqueStep == ASSUME Shape, Unique, [Next]_vars PROVE Unique'
<1> USE DEF Unique, conf, disk, volumes, cloud, procs
<1>0. volName \in [Ids -> Names \cup {NoName}] BY DEF Shape, CloudOK
<1>1. ASSUME NEW p \in Admins, AddStep(p) PROVE Unique'
  <2>1. CASE Ensure(p) BY <1>0, <2>1 DEF Ensure, CreateVolume, Ids, Shape, CloudOK
  <2> QED BY <1>1, <2>1 DEF AddStep, AddBegin, AddKeys, SetupBegin, SeedInit, SeedEdit, Use
<1>2. ASSUME NEW p \in Admins, RenameStep(p) PROVE Unique'
  BY <1>0, <1>2 DEF RenameStep, RenameBegin, RenameVolume, RenameState, RenameConf,
                    CanRename
<1>3. ASSUME NEW p \in Admins, RmStep(p) PROVE Unique'
  BY <1>0, <1>3 DEF RmStep, RmBegin, RmDown, RmVolume, RmState, RmConf, DeleteVolume
<1>4. ASSUME NEW p \in Admins, BoxStep(p) PROVE Unique'
  BY <1>4 DEF BoxStep, UpBegin, UpSummon, Down
<1>5. ASSUME NEW p \in Admins, Killed(p) PROVE Unique' BY <1>5 DEF Killed
<1>6. CASE ReapStep BY <1>6 DEF ReapStep, ReapList, ReapVisit
<1>7. CASE UNCHANGED vars BY <1>7 DEF vars
<1> QED BY <1>1, <1>2, <1>3, <1>4, <1>5, <1>6, <1>7 DEF Next

\* Faults stay on record, so what holds under some faults held before a step.
LEMMA FaultsGrow == ASSUME [Next]_vars PROVE faulted \subseteq faulted'
<1> USE DEF Fault, NoFault
<1>1. ASSUME NEW p \in Admins, AddStep(p) PROVE faulted \subseteq faulted'
  BY <1>1 DEF AddStep, AddBegin, AddKeys, SetupBegin, Ensure, SeedInit, SeedEdit, Use
<1>2. ASSUME NEW p \in Admins, RenameStep(p) PROVE faulted \subseteq faulted'
  BY <1>2 DEF RenameStep, RenameBegin, RenameVolume, RenameState, RenameConf
<1>3. ASSUME NEW p \in Admins, RmStep(p) PROVE faulted \subseteq faulted'
  BY <1>3 DEF RmStep, RmBegin, RmDown, RmVolume, RmState, RmConf
<1>4. ASSUME NEW p \in Admins, BoxStep(p) PROVE faulted \subseteq faulted'
  BY <1>4 DEF BoxStep, UpBegin, UpSummon, Down
<1>5. ASSUME NEW p \in Admins, Killed(p) PROVE faulted \subseteq faulted'
  BY <1>5 DEF Killed
<1>6. CASE ReapStep BY <1>6 DEF ReapStep, ReapList, ReapVisit
<1>7. CASE UNCHANGED vars BY <1>7 DEF vars
<1> QED BY <1>1, <1>2, <1>3, <1>4, <1>5, <1>6, <1>7 DEF Next

LEMMA MatchStep ==
    ASSUME NEW p, Admins = {p}, Shape, Match, [Next]_vars PROVE Match'
<1> SUFFICES ASSUME Only({"read", "write"})' PROVE MatchBut(p)'
  BY DEF Match
<1> USE DEF conf, disk, volumes, cloud, procs
<1>0. /\ pc \in [Admins -> Pc] /\ arg \in [Admins -> Names \cup {NoName}]
      /\ dst \in [Admins -> Names \cup {NoName}] /\ vol \in [Admins -> 0..made]
      /\ vid \in [Names -> 0..made] /\ volName \in [Ids -> Names \cup {NoName}]
      /\ made \in 0..MaxVols /\ state \subseteq Names
      /\ pc[p] # "idle" => arg[p] \in Names
      /\ pc[p] \in {"renvol", "move", "moveconf"} => dst[p] \in Names
      /\ p \in Admins
  BY DEF Shape, ProcsOK, DiskOK, CloudOK
<1>m. MatchBut(p) BY FaultsGrow DEF Only, Match
<1>f. "crash" \notin faulted' /\ "stale" \notin faulted' /\ "lost" \notin faulted'
  BY DEF Only
<1>1. ASSUME NEW n \in Names, AddBegin(p, n) \/ SeedInit(p, n) \/ SeedEdit(p, n) \/ Use(p, n)
      PROVE  MatchBut(p)'
  BY <1>0, <1>m, <1>1 DEF MatchBut, AddBegin, SeedInit, SeedEdit, Use, Start
<1>2. CASE AddKeys(p) \/ SetupBegin(p)
  BY <1>0, <1>m, <1>2 DEF MatchBut, AddKeys, SetupBegin, Start, Goto, Finish
<1>3. CASE Ensure(p)
  <2>1. arg[p] \in Names /\ pc'[p] = "idle" BY <1>0, <1>3 DEF Ensure, Finish
  <2>2. ASSUME NEW v \in Ids, volName[v] = arg[p], Cache(arg[p], v), UNCHANGED volumes,
               UNCHANGED state
        PROVE  MatchBut(p)'
    BY <1>0, <1>m, <1>3, <2>1, <2>2 DEF MatchBut, Cache, Ensure
  <2>3. ASSUME CreateVolume(arg[p]), Cache(arg[p], made + 1), UNCHANGED state
        PROVE  MatchBut(p)'
    BY <1>0, <1>m, <1>3, <2>1, <2>3 DEF MatchBut, Cache, CreateVolume, Ids, Ensure
  <2>4. CASE UNCHANGED <<volumes, vid, state>>
    BY <1>0, <1>m, <1>3, <2>1, <2>4 DEF MatchBut, Ensure
  <2> QED BY <1>3, <1>f, <2>2, <2>3, <2>4 DEF Ensure, Fault
<1>4. ASSUME NEW n \in Names, NEW m \in Names, RenameBegin(p, n, m) PROVE MatchBut(p)'
  BY <1>0, <1>m, <1>4 DEF MatchBut, RenameBegin, Start
<1>5. CASE RenameVolume(p)
  <2> USE <1>0, <1>m, <1>5 DEF MatchBut, RenameVolume
  <2>1. /\ pc[p] = "renvol" /\ vol[p] \in Ids /\ vol[p] = vid[arg[p]]
        /\ \A n \in Names : vid[n] # None => n \in state /\ volName[vid[n]] = n
        /\ UNCHANGED <<vid, state, made>>
    BY DEF Ids
  <2>2. CASE UNCHANGED volName /\ Finish(p) BY <2>1, <2>2 DEF Finish
  <2>3. ASSUME volName' = [volName EXCEPT ![vol[p]] = dst[p]], Goto(p, "move")
        PROVE  MatchBut(p)'
    <3>1. \A n \in Names : vid[n] # None /\ n # arg[p] => volName'[vid[n]] = n
      BY <2>1, <2>3 DEF Ids
    <3>2. volName'[vol[p]] = dst[p] BY <2>1, <2>3
    <3>3. pc'[p] = "move" /\ UNCHANGED <<arg, dst, vol>> BY <2>3 DEF Goto
    <3> QED BY ONLY <1>0, <1>m, <2>1, <3>1, <3>2, <3>3 DEF MatchBut
  <2> QED BY <1>f, <2>2, <2>3 DEF Fault
<1>6. CASE RenameState(p)
  BY <1>0, <1>m, <1>6 DEF MatchBut, RenameState, Goto, Finish
<1>7. CASE RenameConf(p)
  BY <1>0, <1>m, <1>7 DEF MatchBut, RenameConf, Finish
<1>8. ASSUME NEW n \in Names, NEW purge \in BOOLEAN, RmBegin(p, n, purge) PROVE MatchBut(p)'
  BY <1>0, <1>m, <1>8 DEF MatchBut, RmBegin, Start
<1>9. CASE RmDown(p)
  BY <1>0, <1>m, <1>9 DEF MatchBut, RmDown, Goto, Finish
<1>10. CASE RmVolume(p)
  <2> USE <1>0, <1>m, <1>10 DEF MatchBut, RmVolume
  <2>1. /\ pc[p] = "purge" /\ arg[p] \in Names
        /\ \A n \in Names : vid[n] # None => n \in state /\ volName[vid[n]] = n
        /\ UNCHANGED <<vid, state, made>>
    OBVIOUS
  <2>2. CASE UNCHANGED volName BY <2>1, <2>2 DEF Goto, Finish
  <2>3. ASSUME CanDelete(vid[arg[p]]), DeleteVolume(vid[arg[p]]), Goto(p, "rmstate")
        PROVE  MatchBut(p)'
    <3>1. vid[arg[p]] # None /\ volName' = [volName EXCEPT ![vid[arg[p]]] = NoName]
      BY <2>3 DEF CanDelete, Exists, DeleteVolume
    <3>2. \A n \in Names : vid[n] # None /\ n # arg[p] => volName'[vid[n]] = n
      BY <2>1, <3>1 DEF Ids
    <3>3. pc'[p] = "rmstate" /\ UNCHANGED <<arg, dst, vol>> BY <2>3 DEF Goto
    <3> QED BY ONLY <1>0, <1>m, <2>1, <3>2, <3>3 DEF MatchBut
  <2> QED BY <1>f, <2>2, <2>3 DEF Fault
<1>11. CASE RmState(p) \/ RmConf(p)
  BY <1>0, <1>m, <1>11 DEF MatchBut, RmState, RmConf, Goto, Finish
<1>12. ASSUME NEW n \in Names, UpBegin(p, n) \/ Down(p, n) PROVE MatchBut(p)'
  BY <1>0, <1>m, <1>12 DEF MatchBut, UpBegin, Down, Start
<1>13. CASE UpSummon(p)
  BY <1>0, <1>m, <1>13 DEF MatchBut, UpSummon, Finish
<1>14. CASE Killed(p) BY <1>14, <1>f DEF Killed, Fault
<1>15. CASE ReapStep
  BY <1>0, <1>m, <1>15, <1>f DEF MatchBut, ReapStep, ReapList, ReapVisit, Fault
<1>16. CASE UNCHANGED vars BY <1>m, <1>16 DEF vars, MatchBut
<1> QED
  BY <1>1, <1>2, <1>3, <1>4, <1>5, <1>6, <1>7, <1>8, <1>9, <1>10, <1>11, <1>12, <1>13,
     <1>14, <1>15, <1>16 DEF Next, AddStep, RenameStep, RmStep, BoxStep

\* As long as verbs are only refused or their lookups fail, between two verbs a
\* profile that has a volume has the one that carries its name: however often
\* profiles are renamed, removed and added under each other's names, adopting
\* by name (VolumeEnsure) and using the cached id lead to the same workspace.
THEOREM VolumesKeepNames ==
    ASSUME NEW a, Admins = {a} PROVE Spec => []VolumesMatchNames
<1>1. Init => Match BY DEF Init, Match, MatchBut
<1>2. Shape /\ Match => VolumesMatchNames
  BY DEF Match, MatchBut, VolumesMatchNames, Rest, Shape, DiskOK
<1>3. Shape /\ Match /\ [Next]_vars => Match' BY MatchStep
<1> QED BY <1>1, <1>2, <1>3, ShapeInvariant, PTL DEF Spec

----------------------------------------------------------------------------
\* A box runs with its own profile's workspace.

\* An attached volume is the cached and the named one of a profile with a box,
\* and a summon under way still has its profile's cached id.  It takes the
\* other invariants: a rename or rm cannot touch the names while the box is up
\* (Watch), what is cached carries the name (Match), and the name leads to one
\* volume (Unique), so the one adopted for a profile is the one attached.
OwnBut(p) ==
    /\ \A v \in Ids : att[v] # NoName =>
           att[v] \in box /\ vid[att[v]] = v /\ volName[v] = att[v]
    /\ pc[p] = "summon" => vol[p] # None /\ vol[p] = vid[arg[p]]
Own == Only({"write"}) => \A p \in Admins : OwnBut(p)

LEMMA OwnStep ==
    ASSUME NEW p, Admins = {p}, Shape, Watch, Sighted, Unique, Match, Own, [Next]_vars
    PROVE  Own'
<1> SUFFICES ASSUME Only({"write"})' PROVE OwnBut(p)'
  BY DEF Own
<1> USE DEF conf, disk, volumes, cloud, procs
<1>0. /\ pc \in [Admins -> Pc] /\ arg \in [Admins -> Names \cup {NoName}]
      /\ dst \in [Admins -> Names \cup {NoName}] /\ vol \in [Admins -> 0..made]
      /\ vid \in [Names -> 0..made] /\ volName \in [Ids -> Names \cup {NoName}]
      /\ att \in [Ids -> Names \cup {NoName}] /\ box \subseteq Names
      /\ made \in 0..MaxVols /\ state \subseteq Names
      /\ pc[p] # "idle" => arg[p] \in Names
      /\ pc[p] \in {"renvol", "move", "moveconf"} => dst[p] \in Names
      /\ p \in Admins
  BY DEF Shape, ProcsOK, DiskOK, CloudOK
<1>m. MatchBut(p) /\ OwnBut(p) BY FaultsGrow DEF Only, Match, Own
<1>w. /\ box \subseteq state
      /\ pc[p] \in {"renvol", "move", "purge", "rmstate"} => arg[p] \notin box
      /\ pc[p] = "summon" => arg[p] \in state
  BY <1>0, FaultsGrow DEF Only, Watch, Sighted
<1>f. faulted' \subseteq {"write"} BY DEF Only
<1>1. ASSUME NEW n \in Names, AddBegin(p, n) \/ SeedInit(p, n) \/ SeedEdit(p, n) \/ Use(p, n)
      PROVE  OwnBut(p)'
  BY <1>0, <1>m, <1>1 DEF OwnBut, AddBegin, SeedInit, SeedEdit, Use, Start
<1>2. CASE AddKeys(p) \/ SetupBegin(p)
  BY <1>0, <1>m, <1>2 DEF OwnBut, AddKeys, SetupBegin, Start, Goto, Finish
<1>3. CASE Ensure(p)
  <2>1. /\ arg[p] \in Names /\ pc[p] = "ensure" /\ pc'[p] = "idle"
        /\ UNCHANGED <<att, box, state>>
    BY <1>0, <1>3 DEF Ensure, Finish
  <2>2. ASSUME NEW v \in Ids, volName[v] = arg[p], Cache(arg[p], v), UNCHANGED volumes
        PROVE  OwnBut(p)'
    BY <1>0, <1>m, <2>1, <2>2 DEF OwnBut, Cache, Unique
  <2>3. ASSUME CreateVolume(arg[p]), Cache(arg[p], made + 1) PROVE OwnBut(p)'
    <3>1. made + 1 \in Ids /\ \A v \in Ids : volName[v] # arg[p]
      BY <1>0, <2>3 DEF CreateVolume, Ids
    <3>2. \A v \in Ids : att[v] # NoName => v # made + 1 /\ att[v] # arg[p]
      BY <1>0, <1>m, <3>1 DEF OwnBut
    <3> QED BY <1>0, <1>m, <2>1, <2>3, <3>1, <3>2 DEF OwnBut, Cache, CreateVolume
  <2>4. CASE UNCHANGED <<volumes, vid>> BY <1>m, <2>1, <2>4 DEF OwnBut
  <2> QED BY <1>3, <1>f, <2>2, <2>3, <2>4 DEF Ensure, Fault
<1>4. ASSUME NEW n \in Names, NEW m \in Names, RenameBegin(p, n, m) PROVE OwnBut(p)'
  BY <1>0, <1>m, <1>4 DEF OwnBut, RenameBegin, Start
<1>5. CASE RenameVolume(p)
  <2>1. /\ pc[p] = "renvol" /\ pc'[p] # "summon" /\ arg[p] \notin box
        /\ vol[p] \in Ids /\ volName[vol[p]] = arg[p]
        /\ UNCHANGED <<vid, att, box>>
    BY <1>0, <1>m, <1>w, <1>5 DEF RenameVolume, Goto, Finish, MatchBut, Ids
  <2>2. \/ UNCHANGED volName \/ volName' = [volName EXCEPT ![vol[p]] = dst[p]]
    BY <1>5 DEF RenameVolume
  <2> QED BY <1>0, <1>m, <2>1, <2>2 DEF OwnBut
<1>6. CASE RenameState(p)
  <2>1. /\ pc[p] = "move" /\ pc'[p] # "summon" /\ arg[p] \notin box /\ dst[p] \notin box
        /\ UNCHANGED <<volName, att, box>>
    BY <1>0, <1>m, <1>w, <1>6 DEF RenameState, Goto, Finish, MatchBut
  <2>2. \/ UNCHANGED vid
        \/ vid' = [vid EXCEPT ![dst[p]] = vid[arg[p]], ![arg[p]] = None]
    BY <1>6 DEF RenameState
  <2> QED BY <1>0, <1>m, <2>1, <2>2 DEF OwnBut
<1>7. CASE RenameConf(p) BY <1>0, <1>m, <1>7 DEF OwnBut, RenameConf, Finish
<1>8. ASSUME NEW n \in Names, NEW purge \in BOOLEAN, RmBegin(p, n, purge) PROVE OwnBut(p)'
  BY <1>0, <1>m, <1>8 DEF OwnBut, RmBegin, Start
<1>9. CASE RmDown(p)
  BY <1>0, <1>m, <1>9 DEF OwnBut, RmDown, Unbox, UnboxFails, Freed, Goto, Finish
<1>10. CASE RmVolume(p)
  BY <1>0, <1>m, <1>10, <1>f DEF OwnBut, RmVolume, DeleteVolume, CanDelete, Goto, Finish
<1>11. CASE RmState(p) \/ RmConf(p)
  BY <1>0, <1>m, <1>w, <1>11 DEF OwnBut, RmState, RmConf, Goto, Finish
<1>12. ASSUME NEW n \in Names, UpBegin(p, n) \/ Down(p, n) PROVE OwnBut(p)'
  BY <1>0, <1>m, <1>12 DEF OwnBut, UpBegin, Down, Unbox, UnboxFails, Freed, Start
<1>13. CASE UpSummon(p)
  <2>1. /\ vol[p] \in Ids /\ vol[p] = vid[arg[p]] /\ volName[vol[p]] = arg[p]
        /\ pc'[p] = "idle" /\ UNCHANGED <<vid, volName>>
    BY <1>0, <1>m, <1>13 DEF UpSummon, Finish, OwnBut, MatchBut, Ids
  <2> QED BY <1>0, <1>m, <1>13, <2>1 DEF OwnBut, UpSummon
<1>14. CASE Killed(p) BY <1>14, <1>f DEF Killed, Fault
<1>15. CASE ReapStep
  BY <1>0, <1>m, <1>15 DEF OwnBut, ReapStep, ReapList, ReapVisit, Unbox, UnboxFails, Freed
<1>16. CASE UNCHANGED vars BY <1>m, <1>16 DEF vars, OwnBut
<1> QED
  BY <1>1, <1>2, <1>3, <1>4, <1>5, <1>6, <1>7, <1>8, <1>9, <1>10, <1>11, <1>12, <1>13,
     <1>14, <1>15, <1>16 DEF Next, AddStep, RenameStep, RmStep, BoxStep

\* As long as nothing worse happens than a refused call, a box runs with the
\* workspace of its own profile, and that volume is the one its profile has
\* cached: no rename, rm, add or summon hands one profile's work to another.
THEOREM WorkspacesStayOwn ==
    ASSUME NEW a, Admins = {a} PROVE Spec => []WorkspaceIsOwn
<1>1. Init => Sighted /\ Unique /\ Match /\ Own
  BY DEF Init, Sighted, Unique, Match, MatchBut, Own, OwnBut
<1>2. Own => WorkspaceIsOwn BY DEF Own, OwnBut, WorkspaceIsOwn
<1>3. Sighted /\ [Next]_vars => Sighted' BY SightedStep
<1>4. Shape /\ Unique /\ [Next]_vars => Unique' BY UniqueStep
<1>5. Shape /\ Match /\ [Next]_vars => Match' BY MatchStep
<1>6. Shape /\ Watch /\ Sighted /\ Unique /\ Match /\ Own /\ [Next]_vars => Own'
  BY OwnStep
<1> QED
  BY <1>1, <1>2, <1>3, <1>4, <1>5, <1>6, ShapeInvariant, WatchInvariant, PTL DEF Spec

----------------------------------------------------------------------------
\* A purge hits its own profile.

\* Only a purge deletes a volume, and the id it deletes is cached for no other
\* profile: if it were, the volume would carry both names (Match).
LEMMA PurgeStep ==
    ASSUME NEW p, Admins = {p}, Shape, Match, [Next]_vars, Only({"read", "write"})
    PROVE  PurgeHitsOwn
<1> SUFFICES ASSUME NEW n \in state, Exists(vid[n]), volName'[vid[n]] = NoName
             PROVE  pc[p] = "purge" /\ arg[p] = n
  BY DEF PurgeHitsOwn
<1> USE DEF conf, disk, volumes, cloud, procs
<1>0. /\ arg \in [Admins -> Names \cup {NoName}] /\ dst \in [Admins -> Names \cup {NoName}]
      /\ vid \in [Names -> 0..made] /\ volName \in [Ids -> Names \cup {NoName}]
      /\ made \in 0..MaxVols /\ n \in Names
      /\ pc[p] # "idle" => arg[p] \in Names
      /\ pc[p] \in {"renvol", "move", "moveconf"} => dst[p] \in Names
      /\ p \in Admins
  BY DEF Shape, ProcsOK, DiskOK, CloudOK
<1>v. vid[n] \in Ids /\ volName[vid[n]] \in Names BY <1>0 DEF Exists, Ids
<1>1. CASE AddStep(p)
  BY <1>0, <1>v, <1>1 DEF AddStep, AddBegin, AddKeys, SetupBegin, Ensure, CreateVolume,
                          SeedInit, SeedEdit, Use
<1>2. CASE RenameStep(p)
  BY <1>0, <1>v, <1>2 DEF RenameStep, RenameBegin, RenameVolume, RenameState, RenameConf
<1>3. CASE RmStep(p)
  <2>1. CASE RmVolume(p)
    <3>1. vid[n] = vid[arg[p]] /\ vid[n] # None /\ pc[p] = "purge"
      <4>1. /\ pc[p] = "purge"
            /\ UNCHANGED volName \/ volName' = [volName EXCEPT ![vid[arg[p]]] = NoName]
        BY <2>1 DEF RmVolume, DeleteVolume
      <4>2. vid[n] # vid[arg[p]] => volName'[vid[n]] = volName[vid[n]]
        BY <1>0, <1>v, <4>1
      <4>3. volName'[vid[n]] # volName[vid[n]] BY <1>v
      <4> QED BY <4>1, <4>2, <4>3, <1>v DEF Ids
    <3>2. volName[vid[n]] = n /\ volName[vid[arg[p]]] = arg[p]
      BY <1>0, <3>1 DEF Match, MatchBut
    <3> QED BY <3>1, <3>2
  <2> QED BY <1>v, <1>3, <2>1 DEF RmStep, RmBegin, RmDown, RmState, RmConf
<1>4. CASE BoxStep(p) BY <1>v, <1>4 DEF BoxStep, UpBegin, UpSummon, Down
<1>5. CASE Killed(p) BY <1>v, <1>5 DEF Killed
<1>6. CASE ReapStep BY <1>v, <1>6 DEF ReapStep, ReapList, ReapVisit
<1>7. CASE UNCHANGED vars BY <1>v, <1>7 DEF vars
<1> QED BY <1>1, <1>2, <1>3, <1>4, <1>5, <1>6, <1>7 DEF Next

\* As long as no verb is cut off between two of its steps, `profile rm --purge`
\* deletes the workspace of the profile it names and of no other
\* (README.md:345-346), whatever was renamed or added before.
THEOREM PurgesHitOneProfile ==
    ASSUME NEW a, Admins = {a} PROVE Spec => WholePurgeHitsOneProfile
<1>1. Init => Match BY DEF Init, Match, MatchBut
<1>2. Shape /\ Match /\ [Next]_vars => Match' BY MatchStep
<1>3. Shape /\ Match /\ [Next]_vars => [Only({"read", "write"}) => PurgeHitsOwn]_vars
  BY PurgeStep
<1> QED BY <1>1, <1>2, <1>3, ShapeInvariant, PTL DEF Spec, WholePurgeHitsOneProfile

=============================================================================
