--------------------------- MODULE LifecycleProofs ---------------------------
(***************************************************************************)
(* Proofs about Lifecycle for any sets of invocations, any thresholds and  *)
(* any bounds: type correctness and the safety properties its runs check   *)
(* on small instances.                                                     *)
(***************************************************************************)
EXTENDS Lifecycle, TLAPS

----------------------------------------------------------------------------
\* Arithmetic of the tick counts.

\* A count stays within the cap, never goes down, and moves by at most one.
LEMMA BumpFacts ==
    ASSUME NEW n \in 0..CounterCap
    PROVE  /\ Bump(n) \in 0..CounterCap
           /\ n <= Bump(n) /\ Bump(n) <= n + 1
BY PlaneAssumption DEF Bump

\* Two counts a step apart stay a step apart when both move, cap or no cap.
LEMMA BumpTogether ==
    ASSUME NEW m \in 0..CounterCap, NEW n \in 0..CounterCap
    PROVE  /\ m <= n => Bump(m) <= Bump(n)
           /\ m <= n + 1 => Bump(m) <= Bump(n) + 1
BY PlaneAssumption DEF Bump

----------------------------------------------------------------------------
\* Type correctness.

USE DEF None, VolOps

LEMMA InitType == Init => TypeOK
BY PlaneAssumption DEF Init, TypeOK, UpPc

\* What World does, it does within the types.
LEMMA WorldType == TypeOK /\ World => TypeOK'
<1> SUFFICES ASSUME TypeOK, World PROVE TypeOK'
  OBVIOUS
<1> USE PlaneAssumption DEF TypeOK, cloud, inside, clocks, proof
<1>1. CASE DetachCompletes BY <1>1 DEF DetachCompletes
<1>2. CASE Unlocks BY <1>2 DEF Unlocks
<1>3. CASE FirstbootEnds BY <1>3 DEF FirstbootEnds
<1>4. CASE Works BY <1>4 DEF Works
<1>5. CASE Ages BY <1>5 DEF Ages
<1>6. CASE Enrolls BY <1>6 DEF Enrolls
<1>7. CASE NodeCollected BY <1>7 DEF NodeCollected
<1>8. CASE Vanishes BY <1>8 DEF Vanishes, DeleteServer, Fault
<1> QED BY <1>1, <1>2, <1>3, <1>4, <1>5, <1>6, <1>7, <1>8 DEF World

LEMMA KilledType ==
    ASSUME NEW p \in Procs PROVE TypeOK /\ Killed(p) => TypeOK'
BY PlaneAssumption DEF TypeOK, Killed, Fault, Enter, Goto, UpPc,
                       cloud, inside, clocks, proof

LEMMA DownType ==
    ASSUME NEW p \in Procs PROVE TypeOK /\ DownStep(p) => TypeOK'
<1> SUFFICES ASSUME TypeOK, DownStep(p) PROVE TypeOK'
  OBVIOUS
<1> USE PlaneAssumption DEF TypeOK, cloud, inside, clocks, proof, Fault,
        NoFault, Return, Enter, Goto, ResetIdle, DeleteServer, DownPc
<1>1. CASE DownBegin(p) BY <1>1 DEF DownBegin
<1>2. CASE DownAttached(p) BY <1>2 DEF DownAttached
<1>3. CASE DownDetach(p) BY <1>3 DEF DownDetach
<1>4. CASE DownSettle(p) BY <1>4 DEF DownSettle
<1>5. CASE DownDelete(p) BY <1>5 DEF DownDelete
<1>6. CASE DownDrop(p)
  <2>1. nodes' \subseteq 1..made'
    BY <1>6 DEF DownDrop
  <2> QED BY <1>6, <2>1 DEF DownDrop
<1> QED BY <1>1, <1>2, <1>3, <1>4, <1>5, <1>6 DEF DownStep

LEMMA UpType ==
    ASSUME NEW p \in Procs PROVE TypeOK /\ UpStep(p) => TypeOK'
<1> SUFFICES ASSUME TypeOK, UpStep(p) PROVE TypeOK'
  OBVIOUS
<1> USE PlaneAssumption DEF TypeOK, cloud, inside, clocks, proof, Fault,
        NoFault, Enter, Goto, ResetIdle, UpPc
<1>1. CASE UpProbe(p) BY <1>1 DEF UpProbe
<1>2. CASE UpVerdict(p) BY <1>2 DEF UpVerdict
<1>3. CASE UpOnline(p) BY <1>3 DEF UpOnline
<1>4. CASE UpRefused(p) BY <1>4 DEF UpRefused
<1>5. CASE UpVolume(p) BY <1>5 DEF UpVolume
<1>6. CASE UpFree(p) BY <1>6 DEF UpFree
<1>7. CASE UpCreate(p)
  <2>1. CASE CanCreate /\ CreateServer
    <3>1. /\ made' \in 1..MaxBoxes /\ server' \in 0..made' /\ volAt' \in 0..made'
          /\ age' \in {"under", "over", "unknown"}
      BY <2>1 DEF CanCreate, CreateServer
    <3>2. nodes' \subseteq 1..made'
      BY <2>1, <1>7 DEF UpCreate, CreateServer
    <3>3. seen' \in [Procs -> 0..made'] /\ pc' \in [Procs -> UpPc \cup DownPc \cup ReapPc]
      BY <2>1, <1>7 DEF UpCreate, CreateServer
    <3> QED BY <1>7, <2>1, <3>1, <3>2, <3>3 DEF UpCreate, CreateServer
  <2>2. CASE /\ UNCHANGED <<cloud, inside, proof, seen>>
             /\ Goto(p, "failed") /\ faults' \in 0..MaxFaults
    BY <1>7, <2>2 DEF UpCreate
  <2> QED BY <1>7, <2>1, <2>2 DEF UpCreate
<1>8. CASE UpBoot(p) BY <1>8 DEF UpBoot
<1>9. CASE UpPurge(p)
  <2>1. nodes' \subseteq 1..made'
    BY <1>9 DEF UpPurge
  <2> QED BY <1>9, <2>1 DEF UpPurge
<1>10. CASE UpInstall(p) BY <1>10 DEF UpInstall
<1>11. CASE UpPoll(p) BY <1>11 DEF UpPoll
<1>12. CASE UpExit(p) BY <1>12 DEF UpExit
<1> QED BY <1>1, <1>2, <1>3, <1>4, <1>5, <1>6, <1>7, <1>8, <1>9, <1>10,
           <1>11, <1>12 DEF UpStep

LEMMA TickType == TypeOK /\ (TickProbe \/ TickJudge) => TypeOK'
<1> SUFFICES ASSUME TypeOK, TickProbe \/ TickJudge PROVE TypeOK'
  OBVIOUS
<1> USE PlaneAssumption, BumpFacts DEF TypeOK, cloud, inside, clocks, proof,
        Fault, NoFault, Return, Enter, Goto, ResetIdle, ReapPc, UpPc, Procs, Downers
<1>1. CASE TickProbe BY <1>1 DEF TickProbe
<1>2. CASE TickJudge
  BY <1>2 DEF TickJudge, TickUnreachable, TickBusy, TickQuiet, Decide
<1> QED BY <1>1, <1>2

\* Every step keeps the types.
LEMMA NextType == TypeOK /\ [Next]_vars => TypeOK'
<1> SUFFICES ASSUME TypeOK, [Next]_vars PROVE TypeOK'
  OBVIOUS
<1>1. ASSUME NEW p \in Ups, UpStep(p) PROVE TypeOK'
  BY <1>1, UpType DEF Procs
<1>2. ASSUME NEW p \in Downers, DownStep(p) PROVE TypeOK'
  BY <1>2, DownType DEF Procs
<1>3. CASE TickProbe \/ TickJudge
  BY <1>3, TickType
<1>4. ASSUME NEW p \in Procs, Killed(p) PROVE TypeOK'
  BY <1>4, KilledType
<1>5. CASE World
  BY <1>5, WorldType
<1>6. CASE UNCHANGED vars
  BY <1>6 DEF vars, TypeOK, cloud, inside, clocks, proof
<1> QED
  BY <1>1, <1>2, <1>3, <1>4, <1>5, <1>6 DEF Next, ReapStep, Downers

\* Every reachable state is well typed; in particular ids, tick counts and
\* the fault budget stay within their bounds.
THEOREM TypeCorrect == Spec => []TypeOK
BY InitType, NextType, PTL DEF Spec

----------------------------------------------------------------------------
\* What a step of each kind leaves alone.

\* What every safety property below reads of the box and the tick files.
Rest == <<server, made, volAt, seed, age, clocks, proof>>

\* `up` touches its own position; the box and the tick files change only by
\* creating a server or by resetIdle.
LEMMA UpFrame ==
    ASSUME TypeOK, NEW p \in Ups, UpStep(p)
    PROVE  /\ \A q \in Procs \ {p} : pc'[q] = pc[q] /\ seen'[q] = seen[q]
           /\ pc'[p] \in UpPc
           /\ \/ UNCHANGED Rest
              \/ UNCHANGED <<server, made, volAt, seed, age, proof>> /\ ResetIdle
              \/ CanCreate /\ CreateServer /\ UNCHANGED clocks
<1> USE DEF TypeOK, Rest, cloud, inside, clocks, proof, Procs, Enter, Goto, UpPc
<1>1. CASE UpProbe(p) BY <1>1 DEF UpProbe
<1>2. CASE UpVerdict(p) BY <1>2 DEF UpVerdict
<1>3. CASE UpOnline(p) BY <1>3 DEF UpOnline
<1>4. CASE UpRefused(p) BY <1>4 DEF UpRefused
<1>5. CASE UpVolume(p) BY <1>5 DEF UpVolume
<1>6. CASE UpFree(p) BY <1>6 DEF UpFree
<1>7. CASE UpCreate(p) BY <1>7 DEF UpCreate
<1>8. CASE UpBoot(p) BY <1>8 DEF UpBoot
<1>9. CASE UpPurge(p) BY <1>9 DEF UpPurge
<1>10. CASE UpInstall(p) BY <1>10 DEF UpInstall
<1>11. CASE UpPoll(p) BY <1>11 DEF UpPoll
<1>12. CASE UpExit(p) BY <1>12 DEF UpExit
<1> QED BY <1>1, <1>2, <1>3, <1>4, <1>5, <1>6, <1>7, <1>8, <1>9, <1>10,
           <1>11, <1>12 DEF UpStep

\* downBox touches its own position; the server changes only by being
\* deleted, together with resetIdle unless the answer is lost.
LEMMA DownFrame ==
    ASSUME TypeOK, NEW p \in Downers, DownStep(p)
    PROVE  /\ \A q \in Procs \ {p} : pc'[q] = pc[q] /\ seen'[q] = seen[q]
           /\ pc'[p] \in DownPc
           /\ seen'[p] \in {None, server, seen[p]}
           /\ UNCHANGED <<made, volAt, seed, age, proof>>
           /\ \/ UNCHANGED <<server, clocks>>
              \/ server' = None /\ ResetIdle
              \/ server' = None /\ UNCHANGED clocks /\ "lost" \in FaultKinds
<1> USE DEF TypeOK, cloud, inside, clocks, proof, Procs, Downers, Return,
            Enter, Goto, DownPc, DeleteServer
<1>1. CASE DownBegin(p) BY <1>1 DEF DownBegin, ResetIdle
<1>2. CASE DownAttached(p) BY <1>2 DEF DownAttached
<1>3. CASE DownDetach(p) BY <1>3 DEF DownDetach
<1>4. CASE DownSettle(p) BY <1>4 DEF DownSettle
<1>5. CASE DownDelete(p) BY <1>5 DEF DownDelete, Fault
<1>6. CASE DownDrop(p) BY <1>6 DEF DownDrop
<1> QED BY <1>1, <1>2, <1>3, <1>4, <1>5, <1>6 DEF DownStep

\* The world moves no process and no tick file.
LEMMA WorldFrame ==
    ASSUME TypeOK, World
    PROVE  /\ UNCHANGED <<made, pc, seen, clocks, proof>>
           /\ volAt' \in {volAt, None}
           /\ server' = server \/ (server' = None /\ "vanish" \in FaultKinds)
           /\ age' \in {age, "over"}
           /\ seed' = seed \/ seed = "pending"
BY DEF World, DetachCompletes, Unlocks, FirstbootEnds, Works, Ages, Enrolls,
       NodeCollected, Vanishes, DeleteServer, Fault, TypeOK, cloud, inside

\* A killed process goes back to rest; nothing else happens.
LEMMA KilledFrame ==
    ASSUME TypeOK, NEW p \in Procs, Killed(p)
    PROVE  /\ \A q \in Procs \ {p} : pc'[q] = pc[q] /\ seen'[q] = seen[q]
           /\ pc'[p] = "idle"
           /\ UNCHANGED Rest
BY DEF Killed, Enter, Goto, TypeOK, Rest, cloud, inside

\* A tick moves only the reaper and the counts.
LEMMA TickFrame ==
    ASSUME TypeOK, TickProbe \/ TickJudge
    PROVE  /\ \A q \in Procs \ {Reaper} : pc'[q] = pc[q] /\ seen'[q] = seen[q]
           /\ pc'[Reaper] \in {"idle", "busy", "capped", "idled", "zombie"}
           /\ seen'[Reaper] \in {None, server, seen[Reaper]}
           /\ UNCHANGED <<server, made, volAt, seed, age>>
<1> USE DEF TypeOK, cloud, inside, Procs, Downers, Return, Enter, Goto
<1>1. CASE TickProbe BY <1>1 DEF TickProbe
<1>2. CASE TickJudge
  BY <1>2 DEF TickJudge, TickUnreachable, TickBusy, TickQuiet, Decide
<1> QED BY <1>1, <1>2

----------------------------------------------------------------------------
\* The delete comes after the detach.

LEMMA DeleteStep ==
    ASSUME "read" \notin FaultKinds
    PROVE  TypeOK /\ DeleteAfterDetach /\ [Next]_vars => DeleteAfterDetach'
<1> SUFFICES ASSUME TypeOK, DeleteAfterDetach, [Next]_vars,
                    NEW q \in Downers, (pc[q] = "delete")', (seen[q] = server)',
                    server' # None
             PROVE  volAt' # server'
  BY DEF DeleteAfterDetach
<1> USE PlaneAssumption DEF DeleteAfterDetach, Downers, Procs
<1>1. ASSUME NEW p \in Ups, UpStep(p) PROVE volAt' # server'
  <2>1. pc'[q] = pc[q] /\ seen'[q] = seen[q]
    BY <1>1, UpFrame
  <2>2. CASE UNCHANGED <<server, volAt>>
    BY <2>1, <2>2
  <2>3. CASE CanCreate /\ CreateServer
    BY <2>1, <2>3 DEF CreateServer, TypeOK
  <2> QED BY <1>1, <2>2, <2>3, UpFrame DEF Rest
<1>2. ASSUME NEW p \in Downers, DownStep(p) PROVE volAt' # server'
  <2>1. UNCHANGED <<server, volAt>>
    BY <1>2, DownFrame
  <2>2. CASE q # p
    BY <1>2, <2>1, <2>2, DownFrame
  <2>3. CASE q = p
    <3>1. CASE DownBegin(p)
      BY <2>3, <3>1 DEF DownBegin, Return, Enter, Goto, TypeOK
    <3>2. CASE DownAttached(p)
      BY <2>1, <2>3, <3>2 DEF DownAttached, Goto, Fault, TypeOK
    <3>3. CASE DownDetach(p)
      BY <2>3, <3>3 DEF DownDetach, Return, Enter, Goto, TypeOK
    <3>4. CASE DownSettle(p)
      BY <2>1, <2>3, <3>4 DEF DownSettle, Goto, Fault, TypeOK
    <3>5. CASE DownDelete(p)
      BY <2>3, <3>5 DEF DownDelete, Return, Enter, Goto, TypeOK
    <3>6. CASE DownDrop(p)
      BY <2>3, <3>6 DEF DownDrop, Return, Enter, Goto, TypeOK
    <3> QED BY <1>2, <3>1, <3>2, <3>3, <3>4, <3>5, <3>6 DEF DownStep
  <2> QED BY <2>2, <2>3
<1>3. CASE TickProbe \/ TickJudge
  BY <1>3, TickFrame
<1>4. ASSUME NEW p \in Procs, Killed(p) PROVE volAt' # server'
  BY <1>4, KilledFrame DEF Rest
<1>5. CASE World
  BY <1>5, WorldFrame
<1>6. CASE UNCHANGED vars
  BY <1>6 DEF vars, cloud
<1> QED
  BY <1>1, <1>2, <1>3, <1>4, <1>5, <1>6 DEF Next, ReapStep

\* While the provider's reads do not fail, no downBox deletes a box under a
\* detach in flight, except after the full wait, whatever runs beside it.
THEOREM DeletesAfterDetach ==
    ASSUME "read" \notin FaultKinds
    PROVE  Spec => []DeleteAfterDetach
<1>1. Init => DeleteAfterDetach
  BY DEF Init, DeleteAfterDetach, Downers, Procs
<1> QED BY <1>1, DeleteStep, TypeCorrect, PTL DEF Spec

----------------------------------------------------------------------------
\* The reaper's evidence.

\* A tick whose box is no longer the server: its unreachable count is still
\* to be written, against whatever box is there by then.
Straddling == pc[Reaper] = "busy" /\ seen[Reaper] # server

\* The strengthening: with a box there, its counts are backed but for the
\* tick in flight; with none there, nothing is left but for that tick.
Evidence ==
    /\ pc[Reaper] = "busy" => seen[Reaper] # None
    /\ server # None =>
         /\ idle <= quietTicks
         /\ unreach <= deafTicks + 1
         /\ Straddling => unreach <= deafTicks
    /\ server = None =>
         /\ idle = 0
         /\ unreach <= 1
         /\ Straddling => unreach = 0
    /\ ReapEarned

\* The reaper's own steps keep the evidence.
LEMMA TickEvidence ==
    ASSUME TypeOK, Evidence, TickProbe \/ TickJudge
    PROVE  Evidence'
<1> USE PlaneAssumption DEF TypeOK, Evidence, ReapEarned, Straddling,
        Procs, Downers, Return, Enter, Goto, clocks, cloud, inside, proof
<1>1. CASE TickProbe
  BY <1>1 DEF TickProbe, ResetIdle
<1>2. CASE TickJudge /\ TickUnreachable
  <2>1. pc[Reaper] = "busy" /\ UNCHANGED <<server, age, idle, quietTicks>>
    BY <1>2 DEF TickJudge, TickUnreachable
  <2>2. unreach' = Bump(unreach) /\ unreach' <= unreach + 1
    BY <1>2, BumpFacts DEF TickUnreachable
  <2>3. /\ pc'[Reaper] \in {"idle", "zombie"}
        /\ pc'[Reaper] = "zombie" => unreach' >= Need(UnreachMin) /\ seen' = seen
    BY <1>2 DEF TickUnreachable, Decide
  <2>4. CASE seen[Reaper] = server
    <3>1. deafTicks' = Bump(deafTicks)
      BY <1>2, <2>4 DEF TickUnreachable
    <3>2. server # None /\ unreach <= deafTicks + 1
      BY <2>1, <2>4
    <3>3. unreach' <= deafTicks' + 1
      BY <2>2, <3>1, <3>2, BumpTogether
    <3>4. deafTicks' \in Nat /\ unreach' \in Nat /\ Need(UnreachMin) \in Int
      BY <2>2, <3>1, BumpFacts DEF Need
    <3>5. ~Straddling' /\ idle' <= quietTicks' /\ server' # None
      BY <2>1, <2>3, <3>2
    <3> HIDE DEF Straddling, TypeOK
    <3>6. unreach' >= Need(UnreachMin) => deafTicks' + 1 >= Need(UnreachMin)
      BY <3>3, <3>4
    <3>7. ReapEarned'
      BY <2>3, <3>6
    <3> HIDE DEF ReapEarned
    <3> QED BY <2>3, <3>3, <3>5, <3>7
  <2>5. CASE seen[Reaper] # server
    <3>1. deafTicks' = deafTicks
      BY <1>2, <2>5 DEF TickUnreachable
    <3>2. unreach' \in Nat
      BY <2>2, BumpFacts
    <3>3. seen'[Reaper] # server \/ server = None \/ pc'[Reaper] = "idle"
      BY <2>3, <2>5
    <3> QED BY <2>1, <2>2, <2>3, <2>5, <3>1, <3>2, <3>3
  <2> QED BY <2>4, <2>5
<1>3. CASE TickJudge /\ TickBusy
  BY <1>3 DEF TickJudge, TickBusy, ResetIdle
<1>4. CASE TickJudge /\ ProbeAnswers /\ TickQuiet
  <2>1. seen[Reaper] = server /\ server # None /\ UNCHANGED <<server, age>>
    BY <1>4 DEF TickJudge, ProbeAnswers, Answers
  <2>2. idle' = Bump(idle) /\ quietTicks' = Bump(quietTicks) /\ unreach' = 0 /\ deafTicks' = 0
    BY <1>4 DEF TickQuiet
  <2>3. idle' <= quietTicks'
    BY <2>1, <2>2, BumpTogether
  <2>4. idle' \in Nat /\ quietTicks' \in Nat /\ Need(IdleMin) \in Int
    BY <2>2, BumpFacts DEF Need
  <2>5. /\ pc'[Reaper] \in {"idle", "idled"}
        /\ pc'[Reaper] = "idled" => idle' >= Need(IdleMin)
    BY <1>4 DEF TickQuiet, Decide
  <2> QED BY <2>1, <2>2, <2>3, <2>4, <2>5
<1> QED BY <1>1, <1>2, <1>3, <1>4 DEF TickJudge

LEMMA EvidenceStep ==
    ASSUME "lost" \notin FaultKinds, "vanish" \notin FaultKinds
    PROVE  TypeOK /\ Evidence /\ [Next]_vars => Evidence'
<1> SUFFICES ASSUME TypeOK, Evidence, [Next]_vars PROVE Evidence'
  OBVIOUS
<1> USE PlaneAssumption DEF TypeOK, Evidence, ReapEarned, Straddling,
        Procs, Downers
<1>1. ASSUME NEW p \in Ups, UpStep(p) PROVE Evidence'
  <2>1. pc'[Reaper] = pc[Reaper] /\ seen'[Reaper] = seen[Reaper]
    BY <1>1, UpFrame
  <2>2. CASE UNCHANGED Rest
    BY <2>1, <2>2 DEF Rest, clocks, proof
  <2>3. CASE UNCHANGED <<server, made, volAt, seed, age, proof>> /\ ResetIdle
    BY <2>1, <2>3 DEF ResetIdle, proof
  <2>4. CASE CanCreate /\ CreateServer /\ UNCHANGED clocks
    <3>1. server = None /\ server' = made + 1 /\ quietTicks' = 0 /\ deafTicks' = 0
      BY <2>4 DEF CanCreate, CreateServer
    <3>2. seen'[Reaper] # server' /\ server' # None
      BY <2>1, <3>1
    <3>3. Straddling' => pc[Reaper] = "busy"
      BY <2>1, <3>1, <3>2
    <3> QED BY <2>1, <2>4, <3>1, <3>2, <3>3 DEF clocks
  <2> QED BY <1>1, <2>2, <2>3, <2>4, UpFrame
<1>2. ASSUME NEW p \in Downers, DownStep(p) PROVE Evidence'
  <2>1. /\ UNCHANGED <<age, proof>>
        /\ UNCHANGED <<server, clocks>> \/ (server' = None /\ ResetIdle)
    BY <1>2, DownFrame
  <2>2. /\ pc'[Reaper] = pc[Reaper] /\ seen'[Reaper] = seen[Reaper]
        \/ pc'[Reaper] \notin {"busy", "capped", "idled", "zombie"}
    BY <1>2, DownFrame DEF DownPc
  <2>3. CASE UNCHANGED <<server, clocks>>
    BY <2>1, <2>2, <2>3 DEF clocks, proof
  <2>4. CASE server' = None /\ ResetIdle
    BY <2>1, <2>2, <2>4 DEF ResetIdle, proof
  <2> QED BY <2>1, <2>3, <2>4
<1>3. CASE TickProbe \/ TickJudge
  BY <1>3, TickEvidence
<1>4. ASSUME NEW p \in Procs, Killed(p) PROVE Evidence'
  <2>1. UNCHANGED Rest
    BY <1>4, KilledFrame
  <2>2. CASE p = Reaper
    BY <1>4, <2>1, <2>2, KilledFrame DEF Rest, clocks, proof
  <2>3. CASE p # Reaper
    BY <1>4, <2>1, <2>3, KilledFrame DEF Rest, clocks, proof
  <2> QED BY <2>2, <2>3
<1>5. CASE World
  <2>1. UNCHANGED <<server, pc, seen, clocks, proof>> /\ age' \in {age, "over"}
    BY <1>5, WorldFrame
  <2> QED BY <2>1 DEF clocks, proof
<1>6. CASE UNCHANGED vars
  BY <1>6 DEF vars, cloud, inside, clocks, proof
<1> QED
  BY <1>1, <1>2, <1>3, <1>4, <1>5, <1>6 DEF Next, ReapStep

LEMMA EvidenceInit == Init => Evidence
BY PlaneAssumption DEF Init, Evidence, ReapEarned, Straddling, Procs, Downers

\* While no server disappears without resetIdle, the tick files hold nothing
\* against a box that its own ticks (and at most one in flight) did not show.
THEOREM CountersAreBacked ==
    ASSUME "lost" \notin FaultKinds, "vanish" \notin FaultKinds
    PROVE  Spec => []CountersBacked
<1>1. TypeOK /\ Evidence => CountersBacked
  BY DEF TypeOK, Evidence, CountersBacked
<1> QED BY <1>1, EvidenceInit, EvidenceStep, TypeCorrect, PTL DEF Spec

\* Under the same condition every decision of the reaper against the box that
\* is there is earned by that box, for all thresholds.
THEOREM ReapsAreEarned ==
    ASSUME "lost" \notin FaultKinds, "vanish" \notin FaultKinds
    PROVE  Spec => []ReapEarned
<1>1. Evidence => ReapEarned
  BY DEF Evidence
<1> QED BY <1>1, EvidenceInit, EvidenceStep, TypeCorrect, PTL DEF Spec

----------------------------------------------------------------------------
\* What `up` hands back.

Past == {"online", "purge", "install", "poll", "ready"}

\* The strengthening: a box is known to be seeded from the verdict on.
Verdict ==
    \A p \in Ups :
        pc[p] \in Past /\ seen[p] = server /\ server # None => seed = "ok"

\* The step of `up` itself: it passes the verdict, or creates a new box.
LEMMA VerdictUp ==
    ASSUME TypeOK, Verdict, NEW p \in Ups, UpStep(p)
    PROVE  Verdict'
<1> SUFFICES ASSUME NEW q \in Ups, pc'[q] \in Past, seen'[q] = server', server' # None
             PROVE  seed' = "ok"
  BY DEF Verdict
<1> USE DEF TypeOK, Verdict, Past, Procs
<1>1. CASE q # p
  <2>1. pc'[q] = pc[q] /\ seen'[q] = seen[q]
    BY <1>1, UpFrame
  <2>2. CASE UNCHANGED <<server, seed>>
    BY <2>1, <2>2
  <2>3. CASE CreateServer
    <3>1. seen[q] \in 0..made /\ made \in Nat
      BY PlaneAssumption
    <3>2. seen[q] # made + 1
      BY <3>1
    <3> QED BY <2>1, <2>3, <3>2 DEF CreateServer
  <2> QED BY <1>1, <2>2, <2>3, UpFrame DEF Rest
<1>2. CASE q = p
  <2> USE <1>2 DEF Goto, Enter
  <2>1. CASE UpProbe(p) BY <2>1 DEF UpProbe
  <2>2. CASE UpVerdict(p) BY <2>2 DEF UpVerdict, VerdictOk, inside
  <2>3. CASE UpOnline(p) BY <2>3 DEF UpOnline, cloud, inside
  <2>4. CASE UpRefused(p) BY <2>4 DEF UpRefused
  <2>5. CASE UpVolume(p) BY <2>5 DEF UpVolume
  <2>6. CASE UpFree(p) BY <2>6 DEF UpFree
  <2>7. CASE UpCreate(p) BY <2>7 DEF UpCreate
  <2>8. CASE UpBoot(p) BY <2>8 DEF UpBoot, VerdictOk, inside
  <2>9. CASE UpPurge(p) BY <2>9 DEF UpPurge, cloud, inside
  <2>10. CASE UpInstall(p) BY <2>10 DEF UpInstall, cloud
  <2>11. CASE UpPoll(p) BY <2>11 DEF UpPoll, cloud, inside
  <2>12. CASE UpExit(p) BY <2>12 DEF UpExit
  <2> QED BY <2>1, <2>2, <2>3, <2>4, <2>5, <2>6, <2>7, <2>8, <2>9, <2>10,
             <2>11, <2>12 DEF UpStep
<1> QED BY <1>1, <1>2

LEMMA VerdictStep == TypeOK /\ Verdict /\ [Next]_vars => Verdict'
<1> SUFFICES ASSUME TypeOK, Verdict, [Next]_vars PROVE Verdict'
  OBVIOUS
<1> USE PlaneAssumption DEF Verdict, Past, Procs, Downers
<1>1. ASSUME NEW p \in Ups, UpStep(p) PROVE Verdict'
  BY <1>1, VerdictUp
<1>2. ASSUME NEW p \in Downers, DownStep(p) PROVE Verdict'
  <2>1. seed' = seed /\ (server' = server \/ server' = None)
    BY <1>2, DownFrame
  <2>2. \A q \in Ups : pc'[q] = pc[q] /\ seen'[q] = seen[q]
    BY <1>2, DownFrame
  <2> QED BY <2>1, <2>2
<1>3. CASE TickProbe \/ TickJudge
  BY <1>3, TickFrame
<1>4. ASSUME NEW p \in Procs, Killed(p) PROVE Verdict'
  BY <1>4, KilledFrame DEF Rest
<1>5. CASE World
  BY <1>5, WorldFrame
<1>6. CASE UNCHANGED vars
  BY <1>6 DEF vars, cloud, inside
<1> QED
  BY <1>1, <1>2, <1>3, <1>4, <1>5, <1>6 DEF Next, ReapStep

\* Whatever fails, is killed or runs beside it, `up` reports success only for
\* a box whose firstboot said "ok", unless that box is already gone.
THEOREM ReadyBoxesAreSeeded == Spec => []ReadyIsSeeded
<1>1. Init => Verdict
  BY DEF Init, Verdict, Past, Procs
<1>2. Verdict => ReadyIsSeeded
  BY DEF Verdict, Past, ReadyIsSeeded
<1> QED BY <1>1, <1>2, VerdictStep, TypeCorrect, PTL DEF Spec

----------------------------------------------------------------------------
\* Whose node ends a fresh `up`.

\* Nodes come only from the live box; everything else removes some.
LEMMA NodesUp ==
    ASSUME NEW p \in Ups, UpStep(p) PROVE nodes' \subseteq nodes
BY DEF UpStep, UpProbe, UpVerdict, UpOnline, UpRefused, UpVolume, UpFree,
       UpCreate, UpBoot, UpPurge, UpInstall, UpPoll, UpExit

LEMMA NodesDown ==
    ASSUME NEW p \in Downers, DownStep(p) PROVE nodes' \subseteq nodes
BY DEF DownStep, DownBegin, DownAttached, DownDetach, DownSettle, DownDelete,
       DownDrop

LEMMA NodesWorld ==
    ASSUME World PROVE nodes' \subseteq nodes \cup {server}
BY DEF World, DetachCompletes, Unlocks, FirstbootEnds, Works, Ages, Enrolls,
       NodeCollected, Vanishes

\* The strengthening: between the purge and the success exit the only node
\* under the name is that of the box being enrolled.
Purged ==
    \A p \in Ups :
        /\ pc[p] \in {"verdict", "online", "boot", "purge", "install", "poll"}
              => seen[p] # None
        /\ pc[p] \in {"install", "poll"} /\ seen[p] = server
              => nodes \subseteq {server}

LEMMA PurgedUp ==
    ASSUME "net" \notin FaultKinds,
           TypeOK, Purged, NEW p \in Ups, UpStep(p)
    PROVE  Purged'
<1> SUFFICES ASSUME NEW q \in Ups
             PROVE  /\ pc'[q] \in {"verdict", "online", "boot", "purge", "install", "poll"}
                          => seen'[q] # None
                    /\ pc'[q] \in {"install", "poll"} /\ seen'[q] = server'
                          => nodes' \subseteq {server'}
  BY DEF Purged
<1> USE DEF Purged, Procs
<1>0. nodes' \subseteq nodes
  BY NodesUp
<1>1. CASE q # p
  <2>1. pc'[q] = pc[q] /\ seen'[q] = seen[q]
    BY <1>1, UpFrame
  <2>2. CASE UNCHANGED server
    BY <1>0, <2>1, <2>2
  <2>3. CASE CreateServer
    <3>1. seen[q] \in 0..made /\ made \in Nat
      BY PlaneAssumption DEF TypeOK
    <3>2. seen[q] # made + 1
      BY <3>1
    <3> QED BY <2>1, <2>3, <3>2 DEF CreateServer
  <2> QED BY <1>1, <2>2, <2>3, UpFrame DEF Rest
<1>2. CASE q = p
  <2> USE <1>2 DEF Goto, Enter, TypeOK
  <2>1. CASE UpProbe(p) BY <2>1 DEF UpProbe
  <2>2. CASE UpVerdict(p) BY <2>2 DEF UpVerdict
  <2>3. CASE UpOnline(p) BY <2>3 DEF UpOnline
  <2>4. CASE UpRefused(p) BY <2>4 DEF UpRefused
  <2>5. CASE UpVolume(p) BY <2>5 DEF UpVolume
  <2>6. CASE UpFree(p) BY <2>6 DEF UpFree
  <2>7. CASE UpCreate(p) BY <2>7, PlaneAssumption DEF UpCreate
  <2>8. CASE UpBoot(p) BY <2>8 DEF UpBoot
  <2>9. CASE UpPurge(p) BY <2>9 DEF UpPurge, Fault, cloud
  <2>10. CASE UpInstall(p) BY <2>10 DEF UpInstall, cloud
  <2>11. CASE UpPoll(p) BY <2>11 DEF UpPoll
  <2>12. CASE UpExit(p) BY <2>12 DEF UpExit
  <2> QED BY <2>1, <2>2, <2>3, <2>4, <2>5, <2>6, <2>7, <2>8, <2>9, <2>10,
             <2>11, <2>12 DEF UpStep
<1> QED BY <1>1, <1>2

LEMMA PurgedStep ==
    ASSUME "net" \notin FaultKinds
    PROVE  TypeOK /\ Purged /\ [Next]_vars => Purged'
<1> SUFFICES ASSUME TypeOK, Purged, [Next]_vars PROVE Purged'
  OBVIOUS
<1> USE PlaneAssumption DEF Purged, Procs, Downers
<1>1. ASSUME NEW p \in Ups, UpStep(p) PROVE Purged'
  BY <1>1, PurgedUp
<1>2. ASSUME NEW p \in Downers, DownStep(p) PROVE Purged'
  <2>1. nodes' \subseteq nodes /\ (server' = server \/ server' = None)
    BY <1>2, DownFrame, NodesDown
  <2>2. \A q \in Ups : pc'[q] = pc[q] /\ seen'[q] = seen[q]
    BY <1>2, DownFrame
  <2> QED BY <2>1, <2>2
<1>3. CASE TickProbe \/ TickJudge
  <2>1. nodes' = nodes
    BY <1>3 DEF TickProbe, TickJudge
  <2> QED BY <1>3, <2>1, TickFrame
<1>4. ASSUME NEW p \in Procs, Killed(p) PROVE Purged'
  <2>1. nodes' = nodes
    BY <1>4 DEF Killed
  <2> QED BY <1>4, <2>1, KilledFrame DEF Rest
<1>5. CASE World
  <2>1. UNCHANGED <<pc, seen>> /\ (server' = server \/ server' = None)
    BY <1>5, WorldFrame
  <2>2. nodes' \subseteq nodes \cup {server}
    BY <1>5, NodesWorld
  <2> QED BY <2>1, <2>2
<1>6. CASE UNCHANGED vars
  BY <1>6 DEF vars, cloud, inside
<1> QED
  BY <1>1, <1>2, <1>3, <1>4, <1>5, <1>6 DEF Next, ReapStep

\* From the purge on, the step by which a fresh `up` succeeds sees a node, and
\* it is that box's own: no ghost is left to be taken for it.
LEMMA PurgedJoins ==
    TypeOK /\ Purged /\ [Next]_vars => [JoinsByOwnNode]_vars
<1> SUFFICES ASSUME TypeOK, Purged, [Next]_vars, NEW p \in Ups,
                    pc[p] = "poll", pc'[p] = "ready", seen[p] = server
             PROVE  server \in nodes
  BY DEF JoinsByOwnNode
<1> USE DEF Procs, Downers
<1>1. ASSUME NEW q \in Ups, UpStep(q) PROVE server \in nodes
  <2>1. q = p
    BY <1>1, UpFrame
  <2>2. UpPoll(p)
    BY <1>1, <2>1 DEF UpStep, UpProbe, UpVerdict, UpOnline, UpRefused,
          UpVolume, UpFree, UpCreate, UpBoot, UpPurge, UpInstall, UpExit
  <2>3. nodes \subseteq {server}
    BY DEF Purged
  <2> QED BY <2>2, <2>3 DEF UpPoll, Goto, TypeOK, Online, GhostOnline
<1>2. ASSUME NEW q \in Downers, DownStep(q) PROVE FALSE
  BY <1>2, PlaneAssumption, DownFrame
<1>3. CASE TickProbe \/ TickJudge
  BY <1>3, PlaneAssumption, TickFrame
<1>4. ASSUME NEW q \in Procs, Killed(q) PROVE FALSE
  BY <1>4, KilledFrame
<1>5. CASE World
  BY <1>5, WorldFrame
<1>6. CASE UNCHANGED vars
  BY <1>6 DEF vars
<1> QED
  BY <1>1, <1>2, <1>3, <1>4, <1>5, <1>6 DEF Next, ReapStep

\* While headscale answers, a dead box's node never stands in for the one that
\* a fresh `up` waits for.
THEOREM FreshUpsJoinByOwnNode ==
    ASSUME "net" \notin FaultKinds
    PROVE  Spec => ReadyIsOwnNode
<1>1. Init => Purged
  BY DEF Init, Purged, Procs
<1> QED
  BY <1>1, PurgedStep, PurgedJoins, TypeCorrect, PTL DEF Spec, ReadyIsOwnNode

=============================================================================
