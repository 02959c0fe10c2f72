-------------------------- MODULE RefinementProofs --------------------------
(***************************************************************************)
(* Lifecycle implements Box, for any sets of invocations, any bounds and   *)
(* any faults.                                                             *)
(***************************************************************************)
EXTENDS LifecycleProofs

USE DEF None

\* The abstract variables but for the two maps.
Kept == UNCHANGED <<server, made, seed>>

VouchedMap == [p \in Ups |-> Vouched(p)]
OrderedMap == [p \in Downers |-> Ordered(p)]

----------------------------------------------------------------------------
\* The maps move where the processes move.

LEMMA VouchedElsewhere ==
    ASSUME \A q \in Ups : pc'[q] = pc[q] /\ seen'[q] = seen[q]
    PROVE  VouchedMap' = VouchedMap
BY DEF VouchedMap, Vouched

LEMMA OrderedElsewhere ==
    ASSUME \A q \in Downers : pc'[q] = pc[q] /\ seen'[q] = seen[q]
    PROVE  OrderedMap' = OrderedMap
BY DEF OrderedMap, Ordered

LEMMA VouchedOne ==
    ASSUME NEW p \in Ups,
           \A q \in Ups \ {p} : pc'[q] = pc[q] /\ seen'[q] = seen[q]
    PROVE  VouchedMap' = [VouchedMap EXCEPT ![p] = Vouched(p)']
<1>1. \A q \in Ups \ {p} : Vouched(q)' = Vouched(q)
  BY DEF Vouched
<1> QED BY <1>1 DEF VouchedMap

LEMMA OrderedOne ==
    ASSUME NEW p \in Downers,
           \A q \in Downers \ {p} : pc'[q] = pc[q] /\ seen'[q] = seen[q]
    PROVE  OrderedMap' = [OrderedMap EXCEPT ![p] = Ordered(p)']
<1>1. \A q \in Downers \ {p} : Ordered(q)' = Ordered(q)
  BY DEF Ordered
<1> QED BY <1>1 DEF OrderedMap

----------------------------------------------------------------------------
\* What a step of each kind is to the box.

\* `up` keeps or drops what it knows, learns a clean verdict of the box that
\* is there, or creates a box.
LEMMA UpMoves ==
    ASSUME TypeOK, NEW p \in Ups, UpStep(p)
    PROVE  \/ Kept /\ Vouched(p)' \in {Vouched(p), None}
           \/ /\ Kept /\ server # None /\ seed = "ok"
              /\ Vouched(p)' = server
           \/ CanCreate /\ CreateServer /\ Vouched(p)' = Vouched(p)
<1> USE DEF TypeOK, Kept, Vouched, cloud, inside, Procs, Enter, Goto
<1>1. CASE UpProbe(p) BY <1>1 DEF UpProbe
<1>2. CASE UpVerdict(p) BY <1>2 DEF UpVerdict, VerdictOk, Answers
<1>3. CASE UpOnline(p) BY <1>3 DEF UpOnline
<1>4. CASE UpRefused(p) BY <1>4 DEF UpRefused
<1>5. CASE UpVolume(p) BY <1>5 DEF UpVolume
<1>6. CASE UpFree(p) BY <1>6 DEF UpFree
<1>7. CASE UpCreate(p) BY <1>7 DEF UpCreate
<1>8. CASE UpBoot(p) BY <1>8 DEF UpBoot, VerdictOk, Answers
<1>9. CASE UpPurge(p) BY <1>9 DEF UpPurge
<1>10. CASE UpInstall(p) BY <1>10 DEF UpInstall
<1>11. CASE UpPoll(p) BY <1>11 DEF UpPoll
<1>12. CASE UpExit(p) BY <1>12 DEF UpExit
<1> QED BY <1>1, <1>2, <1>3, <1>4, <1>5, <1>6, <1>7, <1>8, <1>9, <1>10,
           <1>11, <1>12 DEF UpStep

\* downBox keeps or gives up its order, finds a box, or deletes the box it
\* found.
LEMMA DownMoves ==
    ASSUME TypeOK, NEW p \in Downers, DownStep(p)
    PROVE  \/ Kept /\ Ordered(p)' \in {Ordered(p), None}
           \/ Kept /\ server # None /\ Ordered(p)' = server
           \/ /\ server # None /\ Ordered(p) = server
              /\ server' = None /\ Ordered(p)' = None
              /\ UNCHANGED <<made, seed>>
<1> USE DEF TypeOK, Kept, Ordered, cloud, inside, Procs, Downers, Return,
            Enter, Goto
<1>1. CASE DownBegin(p) BY <1>1 DEF DownBegin, Entering
<1>2. CASE DownAttached(p) BY <1>2 DEF DownAttached
<1>3. CASE DownDetach(p) BY <1>3 DEF DownDetach
<1>4. CASE DownSettle(p) BY <1>4 DEF DownSettle
<1>5. CASE DownDelete(p)
  <2>1. CASE server = seen[p] /\ DeleteServer(server)
    BY <1>5, <2>1 DEF DownDelete, DeleteServer
  <2>2. CASE Return(p) /\ UNCHANGED cloud
    BY <1>5, <2>2 DEF DownDelete
  <2> QED BY <1>5, <2>1, <2>2 DEF DownDelete
<1>6. CASE DownDrop(p) BY <1>6 DEF DownDrop
<1> QED BY <1>1, <1>2, <1>3, <1>4, <1>5, <1>6 DEF DownStep

----------------------------------------------------------------------------
\* Initial states and steps.

LEMMA BoxInit == Init => Abstract!Init
BY DEF Init, Abstract!Init, Vouched, Ordered, Procs, Downers

USE DEF VouchedMap, OrderedMap

LEMMA UpRefines ==
    ASSUME TypeOK, NEW p \in Ups, UpStep(p)
    PROVE  [Abstract!Next]_(Abstract!vars)
<1> HIDE DEF VouchedMap, OrderedMap
<1>1. \A q \in Procs \ {p} : pc'[q] = pc[q] /\ seen'[q] = seen[q]
  BY UpFrame
<1>2. OrderedMap' = OrderedMap
  BY <1>1, OrderedElsewhere, PlaneAssumption DEF Procs, Downers
<1>3. VouchedMap' = [VouchedMap EXCEPT ![p] = Vouched(p)']
  BY <1>1, VouchedOne DEF Procs
<1>4. CASE Kept /\ Vouched(p)' = None
  <2>1. Abstract!Leave(p)
    BY <1>2, <1>3, <1>4 DEF Abstract!Leave, Kept, VouchedMap, OrderedMap
  <2> QED BY <2>1 DEF Abstract!Next
<1>5. CASE Kept /\ Vouched(p)' = Vouched(p)
  <2>1. VouchedMap' = VouchedMap
    BY <1>3, <1>5 DEF VouchedMap
  <2> QED BY <1>2, <1>5, <2>1 DEF Abstract!vars, Kept, VouchedMap, OrderedMap
<1>6. CASE Kept /\ server # None /\ seed = "ok" /\ Vouched(p)' = server
  <2>1. Abstract!Vouch(p)
    BY <1>2, <1>3, <1>6 DEF Abstract!Vouch, Kept, VouchedMap, OrderedMap
  <2> QED BY <2>1 DEF Abstract!Next
<1>7. CASE CanCreate /\ CreateServer /\ Vouched(p)' = Vouched(p)
  <2>1. VouchedMap' = VouchedMap
    BY <1>3, <1>7 DEF VouchedMap
  <2>2. Abstract!Create
    BY <1>2, <1>7, <2>1 DEF Abstract!Create, CanCreate, CreateServer,
       VouchedMap, OrderedMap
  <2> QED BY <2>2 DEF Abstract!Next
<1> QED BY <1>4, <1>5, <1>6, <1>7, UpMoves

LEMMA DownRefines ==
    ASSUME TypeOK, NEW p \in Downers, DownStep(p)
    PROVE  [Abstract!Next]_(Abstract!vars)
<1> HIDE DEF VouchedMap, OrderedMap
<1>1. \A q \in Procs \ {p} : pc'[q] = pc[q] /\ seen'[q] = seen[q]
  BY DownFrame
<1>2. VouchedMap' = VouchedMap
  BY <1>1, VouchedElsewhere, PlaneAssumption DEF Procs, Downers
<1>3. OrderedMap' = [OrderedMap EXCEPT ![p] = Ordered(p)']
  BY <1>1, OrderedOne DEF Procs
<1>4. CASE Kept /\ Ordered(p)' = None
  <2>1. Abstract!Withdraw(p)
    BY <1>2, <1>3, <1>4 DEF Abstract!Withdraw, Kept, VouchedMap, OrderedMap
  <2> QED BY <2>1 DEF Abstract!Next
<1>5. CASE Kept /\ Ordered(p)' = Ordered(p)
  <2>1. OrderedMap' = OrderedMap
    BY <1>3, <1>5 DEF OrderedMap
  <2> QED BY <1>2, <1>5, <2>1 DEF Abstract!vars, Kept, VouchedMap, OrderedMap
<1>6. CASE Kept /\ server # None /\ Ordered(p)' = server
  <2>1. Abstract!Order(p)
    BY <1>2, <1>3, <1>6 DEF Abstract!Order, Kept, VouchedMap, OrderedMap
  <2> QED BY <2>1 DEF Abstract!Next
<1>7. CASE /\ server # None /\ Ordered(p) = server
           /\ server' = None /\ Ordered(p)' = None
           /\ UNCHANGED <<made, seed>>
  <2>1. OrderedMap[p] = server
    BY <1>7 DEF OrderedMap
  <2>2. Abstract!Remove(p)
    BY <1>2, <1>3, <1>7, <2>1 DEF Abstract!Remove, VouchedMap, OrderedMap
  <2> QED BY <2>2 DEF Abstract!Next
<1> QED BY <1>4, <1>5, <1>6, <1>7, DownMoves

LEMMA TickRefines ==
    ASSUME TypeOK, TickProbe \/ TickJudge
    PROVE  [Abstract!Next]_(Abstract!vars)
<1> HIDE DEF VouchedMap, OrderedMap
<1>1. /\ \A q \in Procs \ {Reaper} : pc'[q] = pc[q] /\ seen'[q] = seen[q]
      /\ pc'[Reaper] \in {"idle", "busy", "capped", "idled", "zombie"}
      /\ Kept
  BY TickFrame DEF Kept
<1>2. pc[Reaper] \in {"idle", "busy"}
  BY DEF TickProbe, TickJudge
<1>3. VouchedMap' = VouchedMap
  BY <1>1, VouchedElsewhere, PlaneAssumption DEF Procs, Downers
<1>4. Ordered(Reaper)' = None /\ Ordered(Reaper) = None
  BY <1>1, <1>2 DEF Ordered
<1>5. OrderedMap' = OrderedMap
  BY <1>1, <1>4, OrderedOne DEF OrderedMap, Procs, Downers
<1> QED BY <1>1, <1>3, <1>5 DEF Abstract!vars, Kept, VouchedMap, OrderedMap

LEMMA KilledRefines ==
    ASSUME TypeOK, NEW p \in Procs, Killed(p)
    PROVE  [Abstract!Next]_(Abstract!vars)
<1> HIDE DEF VouchedMap, OrderedMap
<1>1. /\ \A q \in Procs \ {p} : pc'[q] = pc[q] /\ seen'[q] = seen[q]
      /\ pc'[p] = "idle" /\ Kept
  BY KilledFrame DEF Rest, Kept
<1>2. Vouched(p)' = None /\ Ordered(p)' = None
  BY <1>1 DEF Vouched, Ordered
<1>3. CASE p \in Ups
  <2>1. VouchedMap' = [VouchedMap EXCEPT ![p] = None]
    BY <1>1, <1>2, <1>3, VouchedOne DEF Procs
  <2>2. OrderedMap' = OrderedMap
    BY <1>1, <1>3, OrderedElsewhere, PlaneAssumption DEF Procs, Downers
  <2>3. Abstract!Leave(p)
    BY <1>1, <2>1, <2>2 DEF Abstract!Leave, Kept, VouchedMap, OrderedMap
  <2> QED BY <1>3, <2>3 DEF Abstract!Next
<1>4. CASE p \in Downers
  <2>1. OrderedMap' = [OrderedMap EXCEPT ![p] = None]
    BY <1>1, <1>2, <1>4, OrderedOne DEF Procs
  <2>2. VouchedMap' = VouchedMap
    BY <1>1, <1>4, VouchedElsewhere, PlaneAssumption DEF Procs, Downers
  <2>3. Abstract!Withdraw(p)
    BY <1>1, <2>1, <2>2 DEF Abstract!Withdraw, Kept, VouchedMap, OrderedMap
  <2> QED BY <1>4, <2>3 DEF Abstract!Next
<1> QED BY <1>3, <1>4 DEF Procs

LEMMA WorldRefines ==
    ASSUME TypeOK, World
    PROVE  [Abstract!Next]_(Abstract!vars)
<1> HIDE DEF VouchedMap, OrderedMap
<1>1. UNCHANGED <<made, pc, seen>>
  BY WorldFrame
<1>2. VouchedMap' = VouchedMap /\ OrderedMap' = OrderedMap
  BY <1>1, VouchedElsewhere, OrderedElsewhere
<1>3. CASE FirstbootEnds
  <2>1. Abstract!Settle
    BY <1>2, <1>3 DEF FirstbootEnds, Abstract!Settle, cloud, VouchedMap, OrderedMap
  <2> QED BY <2>1 DEF Abstract!Next
<1>4. CASE Vanishes
  <2>1. Abstract!Vanish
    BY <1>2, <1>4 DEF Vanishes, Fault, DeleteServer, inside, Abstract!Vanish,
       VouchedMap, OrderedMap
  <2> QED BY <2>1 DEF Abstract!Next
<1>5. CASE Kept
  BY <1>2, <1>5 DEF Kept, Abstract!vars, VouchedMap, OrderedMap
<1>6. Kept \/ FirstbootEnds \/ Vanishes
  BY DEF World, DetachCompletes, Unlocks, Works, Ages, Enrolls, NodeCollected,
     Kept, cloud, inside
<1> QED BY <1>3, <1>4, <1>5, <1>6

LEMMA BoxStep == TypeOK /\ [Next]_vars => [Abstract!Next]_(Abstract!vars)
<1> SUFFICES ASSUME TypeOK, [Next]_vars PROVE [Abstract!Next]_(Abstract!vars)
  OBVIOUS
<1>1. ASSUME NEW p \in Ups, UpStep(p) PROVE [Abstract!Next]_(Abstract!vars)
  BY <1>1, UpRefines
<1>2. ASSUME NEW p \in Downers, DownStep(p) PROVE [Abstract!Next]_(Abstract!vars)
  BY <1>2, DownRefines
<1>3. CASE TickProbe \/ TickJudge
  BY <1>3, TickRefines
<1>4. ASSUME NEW p \in Procs, Killed(p) PROVE [Abstract!Next]_(Abstract!vars)
  BY <1>4, KilledRefines
<1>5. CASE World
  BY <1>5, WorldRefines
<1>6. CASE UNCHANGED vars
  BY <1>6 DEF vars, cloud, inside, Abstract!vars, Vouched, Ordered
<1> QED
  BY <1>1, <1>2, <1>3, <1>4, <1>5, <1>6 DEF Next, ReapStep, Downers

\* Any number of `up` and `down` invocations beside the reaper, with every
\* fault, implement the abstract box: one at a time, handed back only after a
\* clean verdict, deleted only by a downBox that found it.
THEOREM LifecycleIsABox == Spec => ImplementsBox
<1>1. Spec => Abstract!Init /\ [][Abstract!Next]_(Abstract!vars)
  BY BoxInit, BoxStep, TypeCorrect, PTL DEF Spec
<1> QED BY <1>1 DEF ImplementsBox, Abstract!Spec

=============================================================================
