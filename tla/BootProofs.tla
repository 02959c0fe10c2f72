------------------------------ MODULE BootProofs ------------------------------
(***************************************************************************)
(* The safety properties of Boot, for any seeds, any volumes and any       *)
(* number of lost boxes.                                                   *)
(***************************************************************************)
EXTENDS Boot, TLAPS

\* The positions from p on, as far as the verdict "ok".
From(positions) == pc \in positions \/ status = "ok"

PastIdentity == {"parse", "packages", "persist", "repos", "once", "tools",
                 "install", "every_boot"}
PastPersist == {"repos", "once", "tools", "install", "every_boot"}
PastRepos == {"once", "tools", "install", "every_boot"}
PastOnce == {"tools", "install", "every_boot"}

\* TypeOK but for the bounds on runs and cut, which Counted gives.
Typed ==
    /\ left \in 0..MaxFaults /\ seed \in Seeds /\ declared \in Seeds
    /\ pc \in Pc /\ status \in {"none", "failed", "ok"}
    /\ links \subseteq Paths /\ changed \in BOOLEAN
    /\ key \in {"none", "part", "whole"}
    /\ repo \in [Repos -> {"none", "part", "whole"}]
    /\ target \in [Paths -> Kinds \cup {"no"}]
    /\ effect \subseteq Cmds /\ marked \subseteq Cmds
    /\ manifest \in -1..MaxPins /\ lock \in 0..MaxPins
    /\ payload \in 0..MaxPins
    /\ runs \in [Cmds -> Nat] /\ cut \in [Cmds -> Nat] /\ hurt \in BOOLEAN

\* A command that is not marked has ended only on boxes that were lost before
\* they could mark it.
Counted ==
    \A c \in Cmds :
        /\ runs[c] <= 1 + cut[c]
        /\ cut[c] <= MaxFaults - left
        /\ c \notin marked => runs[c] <= cut[c]

\* What the steps a boot has behind it have left on the volume and the box.
Carried ==
    /\ status = "ok" => pc = "over"
    /\ From(PastIdentity) => key # "none"
    /\ links \subseteq Mapped
    /\ \A p \in links : target[p] \in {"no", declared.persist[p]}
    /\ pc \in {"mount", "identity", "parse", "packages"} => links = {}
    /\ From(PastPersist) => links = Mapped
    /\ From(PastRepos) => \A r \in declared.repos : repo[r] # "none"
    /\ marked \subseteq effect
    /\ From(PastOnce) => declared.once \subseteq effect

\* What the lockfile is of, from the manifest on.
Frozen ==
    /\ pc = "install" => declared.pins # 0 /\ manifest = declared.pins
    /\ From({"every_boot"}) /\ declared.pins # 0 =>
           /\ payload = declared.pins
           /\ declared.pins \in Strict => lock = declared.pins

IInv == Typed /\ Counted /\ Carried /\ Frozen

-----------------------------------------------------------------------------
LEMMA BootInit == Init => IInv
<1> SUFFICES ASSUME Init PROVE IInv
    OBVIOUS
<1> USE BootAssumption DEF Init
<1>1. Typed
  <2>1. 0 \in -1..MaxPins /\ 0 \in 0..MaxPins /\ MaxFaults \in 0..MaxFaults
      OBVIOUS
  <2>2. /\ repo \in [Repos -> {"none", "part", "whole"}]
        /\ target \in [Paths -> Kinds \cup {"no"}]
        /\ runs \in [Cmds -> Nat] /\ cut \in [Cmds -> Nat]
      OBVIOUS
  <2> QED BY <2>1, <2>2 DEF Typed, Pc
<1>2. Counted BY DEF Counted
<1>3. Carried
    BY DEF Carried, From, PastIdentity, PastPersist, PastRepos, PastOnce, Mapped
<1>4. Frozen BY DEF Frozen, From
<1> QED BY <1>1, <1>2, <1>3, <1>4 DEF IInv

\* A seed's fields, as far as the proofs need them.
LEMMA SeedFields ==
    ASSUME NEW s \in Seeds
    PROVE  /\ s.repos \subseteq Repos /\ s.once \subseteq Cmds
           /\ s.persist \in [Paths -> Kinds \cup {"no"}]
           /\ s.pins \in 0..MaxPins
BY BootAssumption DEF SeedType

\* Once by itself: the arithmetic of the two bounds, and the marker.
LEMMA OnceKeeps == ASSUME IInv, Once PROVE IInv'
<1> USE BootAssumption, SeedFields
<1> USE DEF IInv, Once, Lost, Fault, Goto, box, tools
<1>1. PICK c \in declared.once \ marked :
          /\ effect' = effect \cup {c}
          /\ runs' = [runs EXCEPT ![c] = @ + 1]
          /\ \/ marked' = marked \cup {c} /\ UNCHANGED <<left, box, cut>>
             \/ Lost /\ cut' = [cut EXCEPT ![c] = @ + 1] /\ UNCHANGED marked
    OBVIOUS
<1>2. c \in Cmds /\ c \notin marked BY DEF Typed
<1>3. Typed' BY <1>1, <1>2 DEF Typed, Pc
<1>4. Counted' BY <1>1, <1>2 DEF Counted, Typed
<1>5. Carried'
    BY <1>1 DEF Carried, From, PastIdentity, PastPersist, PastRepos, PastOnce,
                Mapped
<1>6. Frozen' BY <1>1 DEF Frozen, From
<1> QED BY <1>3, <1>4, <1>5, <1>6

LEMMA CountsKept ==
    ASSUME Counted, Typed, marked' = marked, runs' = runs, cut' = cut,
           left' \in 0..MaxFaults, left' <= left
    PROVE  Counted'
BY BootAssumption DEF Counted, Typed

\* Every other step runs no once command, and never gains a fault.
LEMMA CountedElsewhere ==
    ASSUME Typed, Counted, [Next]_vars, ~Once
    PROVE  /\ Counted' /\ left' \in 0..MaxFaults
           /\ runs' = runs /\ cut' = cut /\ marked' = marked /\ effect' = effect
<1>1. /\ runs' = runs /\ cut' = cut /\ marked' = marked /\ effect' = effect
      /\ left' = left \/ (left > 0 /\ left' = left - 1)
    BY DEF Next, Boots, vars, volume, box, tools, Fault, Goto, Fails, Lost,
           Breaks, EditSeed, Create, Delete, Mount, Identity, Parse, Packages,
           Persist, PersistDone, Clone, ReposDone, OnceDone, Manifest, NoTools,
           Relock, Locked, EveryBoot
<1>2. left' \in 0..MaxFaults /\ left' <= left
    BY <1>1, BootAssumption DEF Typed
<1> QED BY <1>1, <1>2, CountsKept

-----------------------------------------------------------------------------
(* Every other step, one by one.                                           *)

\* The types.
LEMMA TypedElsewhere ==
    ASSUME IInv, [Next]_vars, ~Once
    PROVE  Typed'
<1> USE BootAssumption, SeedFields, CountedElsewhere DEF IInv, Typed, Pc, box, volume, tools, Goto, Fails, Lost, Fault
<1>1. CASE Mount BY <1>1 DEF Mount
<1>2. CASE Identity BY <1>2 DEF Identity
<1>3. CASE Parse BY <1>3 DEF Parse
<1>4. CASE Packages BY <1>4 DEF Packages
<1>5. CASE Persist
  <2>1. PICK p \in Mapped \ links :
            IF target[p] \in {"no", declared.persist[p]}
            THEN /\ links' = links \cup {p}
                 /\ \/ target' = [target EXCEPT ![p] = declared.persist[p]]
                    \/ declared.persist[p] = "file" /\ UNCHANGED target
                 /\ UNCHANGED <<declared, pc, status, changed>>
            ELSE Fails /\ UNCHANGED target
      BY <1>5 DEF Persist
  <2>2. p \in Paths /\ declared.persist[p] \in Kinds \cup {"no"}
      BY SeedFields DEF Mapped
  <2>3. links' \subseteq Paths /\ target' \in [Paths -> Kinds \cup {"no"}]
      BY <2>1, <2>2
  <2>4. declared' = declared /\ changed' = changed /\ pc' \in Pc
        /\ status' \in {"none", "failed", "ok"}
      BY <2>1
  <2> QED BY <1>5, <2>3, <2>4 DEF Persist
<1>6. CASE PersistDone BY <1>6 DEF PersistDone
<1>7. CASE Clone BY <1>7 DEF Clone
<1>8. CASE ReposDone BY <1>8 DEF ReposDone
<1>9. CASE OnceDone BY <1>9 DEF OnceDone
<1>10. CASE Manifest
  <2>1. manifest' \in -1..MaxPins
      BY <1>10 DEF Manifest
  <2>2. declared' = declared /\ links' = links /\ changed' \in BOOLEAN
        /\ pc' \in Pc /\ status' \in {"none", "failed", "ok"}
      BY <1>10 DEF Manifest
  <2>3. hurt' \in BOOLEAN
      BY <1>10 DEF Manifest
  <2> QED BY <1>10, <2>1, <2>2, <2>3 DEF Manifest
<1>11. CASE NoTools BY <1>11 DEF NoTools
<1>12. CASE Relock
  <2>1. manifest \in 0..MaxPins
      BY <1>12 DEF Relock, Frozen
  <2>2. hurt' \in BOOLEAN /\ payload' \in 0..MaxPins /\ lock' \in 0..MaxPins
      BY <1>12, <2>1 DEF Relock
  <2> QED BY <1>12, <2>2 DEF Relock
<1>13. CASE Locked
  <2>1. manifest \in 0..MaxPins
      BY <1>13 DEF Locked, Frozen
  <2>2. payload' \in 0..MaxPins /\ lock' \in 0..MaxPins
      BY <1>13, <2>1 DEF Locked
  <2> QED BY <1>13, <2>2 DEF Locked
<1>14. CASE EveryBoot BY <1>14 DEF EveryBoot
<1>15. CASE Breaks BY <1>15 DEF Breaks
<1>16. CASE EditSeed BY <1>16 DEF EditSeed
<1>17. CASE Create BY <1>17 DEF Create
<1>18. CASE Delete BY <1>18 DEF Delete
<1>19. CASE UNCHANGED vars BY <1>19 DEF vars
<1> QED
    BY <1>1, <1>2, <1>3, <1>4, <1>5, <1>6, <1>7, <1>8, <1>9, <1>10, <1>11, <1>12, <1>13, <1>14, <1>15, <1>16, <1>17, <1>18, <1>19 DEF Next, Boots

\* What the steps done have left.
LEMMA CarriedElsewhere ==
    ASSUME IInv, [Next]_vars, ~Once
    PROVE  Carried'
<1> USE BootAssumption, SeedFields, CountedElsewhere DEF IInv, Typed, Carried, From, PastIdentity,
    PastPersist, PastRepos, PastOnce, Mapped, box, volume, tools, Goto, Fails, Lost, Fault
<1>1. CASE Mount BY <1>1 DEF Mount
<1>2. CASE Identity BY <1>2 DEF Identity
<1>3. CASE Parse BY <1>3 DEF Parse
<1>4. CASE Packages BY <1>4 DEF Packages
<1>5. CASE Persist BY <1>5 DEF Persist
<1>6. CASE PersistDone BY <1>6 DEF PersistDone
<1>7. CASE Clone BY <1>7 DEF Clone
<1>8. CASE ReposDone BY <1>8 DEF ReposDone
<1>9. CASE OnceDone BY <1>9 DEF OnceDone
<1>10. CASE Manifest BY <1>10 DEF Manifest
<1>11. CASE NoTools BY <1>11 DEF NoTools
<1>12. CASE Relock BY <1>12 DEF Relock
<1>13. CASE Locked BY <1>13 DEF Locked
<1>14. CASE EveryBoot BY <1>14 DEF EveryBoot
<1>15. CASE Breaks BY <1>15 DEF Breaks
<1>16. CASE EditSeed BY <1>16 DEF EditSeed
<1>17. CASE Create BY <1>17 DEF Create
<1>18. CASE Delete BY <1>18 DEF Delete
<1>19. CASE UNCHANGED vars BY <1>19 DEF vars
<1> QED
    BY <1>1, <1>2, <1>3, <1>4, <1>5, <1>6, <1>7, <1>8, <1>9, <1>10, <1>11, <1>12, <1>13, <1>14, <1>15, <1>16, <1>17, <1>18, <1>19 DEF Next, Boots

\* The lockfile.
LEMMA FrozenElsewhere ==
    ASSUME IInv, [Next]_vars, ~Once
    PROVE  Frozen'
<1> USE BootAssumption, SeedFields, CountedElsewhere DEF IInv, Typed, Carried, Frozen, From, Relocks, box, volume, tools, Goto, Fails, Lost, Fault
<1>1. CASE Mount BY <1>1 DEF Mount
<1>2. CASE Identity BY <1>2 DEF Identity
<1>3. CASE Parse BY <1>3 DEF Parse
<1>4. CASE Packages BY <1>4 DEF Packages
<1>5. CASE Persist BY <1>5 DEF Persist
<1>6. CASE PersistDone BY <1>6 DEF PersistDone
<1>7. CASE Clone BY <1>7 DEF Clone
<1>8. CASE ReposDone BY <1>8 DEF ReposDone
<1>9. CASE OnceDone BY <1>9 DEF OnceDone
<1>10. CASE Manifest BY <1>10 DEF Manifest
<1>11. CASE NoTools BY <1>11 DEF NoTools
<1>12. CASE Relock BY <1>12 DEF Relock
<1>13. CASE Locked BY <1>13 DEF Locked
<1>14. CASE EveryBoot BY <1>14 DEF EveryBoot
<1>15. CASE Breaks BY <1>15 DEF Breaks
<1>16. CASE EditSeed BY <1>16 DEF EditSeed
<1>17. CASE Create BY <1>17 DEF Create
<1>18. CASE Delete BY <1>18 DEF Delete
<1>19. CASE UNCHANGED vars BY <1>19 DEF vars
<1> QED
    BY <1>1, <1>2, <1>3, <1>4, <1>5, <1>6, <1>7, <1>8, <1>9, <1>10, <1>11, <1>12, <1>13, <1>14, <1>15, <1>16, <1>17, <1>18, <1>19 DEF Next, Boots

-----------------------------------------------------------------------------
(* The theorems.                                                           *)

LEMMA BootStep == IInv /\ [Next]_vars => IInv'
<1> SUFFICES ASSUME IInv, [Next]_vars PROVE IInv'
    OBVIOUS
<1>1. CASE Once BY <1>1, OnceKeeps
<1>2. CASE ~Once
    BY <1>2, CountedElsewhere, TypedElsewhere, CarriedElsewhere,
       FrozenElsewhere DEF IInv
<1> QED BY <1>1, <1>2

LEMMA BootInvariant == Spec => []IInv
BY BootInit, BootStep, PTL DEF Spec

\* The state of a boot keeps its types, the counts of runs and of lost boxes
\* within the faults there were.
THEOREM BootTypeCorrect == Spec => []TypeOK
<1>1. IInv => TypeOK
  <2> SUFFICES ASSUME IInv PROVE TypeOK
      OBVIOUS
  <2>1. /\ runs \in [Cmds -> 0..(MaxFaults + 1)]
        /\ cut \in [Cmds -> 0..MaxFaults]
    <3>1. \A c \in Cmds : /\ cut[c] \in 0..MaxFaults
                          /\ runs[c] \in 0..(MaxFaults + 1)
        BY BootAssumption DEF IInv, Typed, Counted
    <3> QED BY <3>1 DEF IInv, Typed
  <2> QED BY <2>1 DEF IInv, Typed, TypeOK
<1> QED BY <1>1, BootInvariant, PTL

\* apply-seed.py's once: a command runs to its end once more than boxes were
\* lost between that end and its marker, whatever else fails, whichever boxes
\* come and go and however the seed is edited.
THEOREM OnceRunsOnce == Spec => []OncePerVolume
<1>1. IInv => OncePerVolume
    BY DEF IInv, Counted, OncePerVolume
<1> QED BY <1>1, BootInvariant, PTL

\* A verdict ok means that the box carries its seed: every repository, every
\* mapping, the effect of every once command and the pinned tools.
THEOREM OkCarriesSeed == Spec => []OkMeansCarried
<1>1. IInv => OkMeansCarried
  <2> SUFFICES ASSUME IInv, status = "ok" PROVE OkMeansCarried
      BY DEF OkMeansCarried
  <2>1. links = Mapped /\ \A p \in Mapped : target[p] \in {"no", declared.persist[p]}
      BY DEF IInv, Carried, From
  <2>2. key # "none" /\ \A r \in declared.repos : repo[r] # "none"
      BY DEF IInv, Carried, From
  <2>3. declared.once \subseteq effect
      BY DEF IInv, Carried, From
  <2>4. declared.pins # 0 => payload = declared.pins
      BY DEF IInv, Frozen, From
  <2> QED BY <2>1, <2>2, <2>3, <2>4 DEF OkMeansCarried
<1> QED BY <1>1, BootInvariant, PTL

\* And, if the seed keeps locked = true, that the lockfile on the volume is of
\* the manifest it declares, also after a relock that was interrupted on an
\* earlier box.  Of a seed without the setting nothing is claimed
\* (PinsAreFrozen is refuted).
THEOREM OkIsFrozen == Spec => []OkMeansFrozen
<1>1. IInv => OkMeansFrozen
    BY BootAssumption DEF IInv, Frozen, From, OkMeansFrozen
<1> QED BY <1>1, BootInvariant, PTL
=============================================================================
