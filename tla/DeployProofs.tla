----------------------------- MODULE DeployProofs -----------------------------
(***************************************************************************)
(* The safety properties of Deploy, for any releases, any number of        *)
(* attempts and any faults.                                                *)
(***************************************************************************)
EXTENDS Deploy, TLAPS

\* Positions only one of the two commands reaches, and what every position
\* knows of its command.
InitPc == {"provision", "login", "reach", "probe", "push", "store",
           "shelveconf", "writeconf", "enroll"}
UpgradePc == Swap \cup {"choose", "check"}

Where ==
    /\ pc \in InitPc => cmd = "init"
    /\ pc \in UpgradePc => cmd = "upgrade"
    /\ cmd = "none" => Idle
    /\ owes => cmd = "init"
    /\ pc = "writeconf" => conf = "none"
    /\ ~Idle /\ pc # "choose" => target \in Releases

\* Where the release of before the upgrade is, step by step.
Shelved ==
    /\ cmd = "init" => base = Nothing
    /\ pc = "shelve" => prev = Nothing
    /\ IsRelease(base) /\ ~again =>
           /\ base \in {tree, prev}
           /\ pc \in Swap \ {"place"} => tree = base
           /\ pc = "place" => prev = base

\* What an upgrade has put in place.
Upgraded ==
    cmd = "upgrade" =>
        /\ pc = "unpack" => new = Nothing
        /\ pc \in {"unprev", "shelve", "place"} => new = Release(target)
        /\ pc \in {"copy", "setup", "token", "register"} => tree = Release(target)
        /\ pc \in {"setup", "token", "register"} => agent = Release(target)
        /\ pc \in {"token", "register"} => cli = Release(target)

Laptops == {"shelveconf", "writeconf", "enroll"}

\* What an init has put in place.
Initiated ==
    cmd = "init" /\ ~half =>
        /\ pc = "push" => tree.of \subseteq {target}
        /\ pc \in {"copy", "store", "setup", "token", "register"} \cup Laptops =>
               IsRelease(tree)
        /\ pc \in {"token", "register"} \cup Laptops => cli = tree /\ net
        /\ owes /\ pc \in {"setup", "token", "register"} \cup Laptops =>
               token = "whole"
        /\ owes /\ pc \in Laptops => regd \/ left < MaxFaults

\* TypeOK in parts: numbers, payloads, places and flags.
NumbersOK ==
    /\ left \in 0..MaxFaults /\ latest \in Releases /\ mine \in Releases
    /\ target \in 0..MaxV /\ tries \in 0..(MaxTries - 1)
PayloadsOK ==
    /\ tree \in Payloads /\ new \in Payloads /\ prev \in Payloads
    /\ agent \in Payloads /\ cli \in Payloads /\ base \in Payloads
PlacesOK ==
    /\ conf \in {"none", "plain", "knobs"} /\ login \in {"none", "root", "user"}
    /\ token \in {"none", "torn", "whole"}
    /\ cmd \in {"none", "init", "upgrade"} /\ at \in {"laptop", "plane"}
    /\ pc \in Pc
FlagsOK ==
    /\ relay \in BOOLEAN /\ net \in BOOLEAN /\ regd \in BOOLEAN
    /\ owes \in BOOLEAN /\ kept \in BOOLEAN
    /\ again \in BOOLEAN /\ half \in BOOLEAN /\ gap \in BOOLEAN
    /\ added \in BOOLEAN

IInv == TypeOK /\ Where /\ Shelved /\ Upgraded /\ Initiated

-----------------------------------------------------------------------------
(* Payloads.                                                               *)

LEMMA PayloadTypes ==
    /\ Nothing \in Payloads /\ ~IsRelease(Nothing)
    /\ \A v \in Releases : Release(v) \in Payloads /\ IsRelease(Release(v))
    /\ \A v \in Releases, t \in Payloads :
           Over(t, v) \in Payloads /\ PartOver(t, v) \in Payloads
BY DEF Nothing, Payloads, IsRelease, Release, Over, PartOver

\* Unpacking over nothing, or over part of the same release, gives the release.
LEMMA OverGives ==
    ASSUME NEW v \in Releases, NEW t \in Payloads, t.of \subseteq {v}
    PROVE  Over(t, v) = Release(v) /\ PartOver(t, v).of \subseteq {v}
BY DEF Over, PartOver, Release, Payloads

LEMMA NothingIsEmpty == \A v : Nothing.of \subseteq {v}
BY DEF Nothing

LEMMA ReleaseOf == \A v \in Releases : Release(v).of = {v}
BY DEF Release

LEMMA OfReleases == \A t \in Payloads : t.of \subseteq Releases
BY DEF Payloads

-----------------------------------------------------------------------------
LEMMA TypeParts == TypeOK <=> NumbersOK /\ PayloadsOK /\ PlacesOK /\ FlagsOK
BY DEF TypeOK, NumbersOK, PayloadsOK, PlacesOK, FlagsOK

LEMMA DeployInit == Init => IInv
<1> USE DeployAssumption, PayloadTypes DEF Init
<1> SUFFICES ASSUME Init PROVE IInv
    OBVIOUS
<1>1. NumbersOK BY DEF NumbersOK, Releases
<1>2. PayloadsOK BY DEF PayloadsOK
<1>3. PlacesOK /\ FlagsOK BY DEF PlacesOK, FlagsOK, Pc
<1>4. Where BY DEF Where, InitPc, UpgradePc, Swap, Idle
<1>5. Shelved /\ Upgraded /\ Initiated
    BY DEF Shelved, Upgraded, Initiated, Swap, Laptops
<1>6. TypeOK
    BY <1>1, <1>2, <1>3, TypeParts
<1> QED BY <1>4, <1>5, <1>6 DEF IInv

\* The types of numbers.
LEMMA NumbersKept ==
    ASSUME NumbersOK, Where, [Next]_vars
    PROVE  NumbersOK'
<1> USE DeployAssumption DEF NumbersOK, Releases, AfterToken,
    world, laptop, trees, installed, config, run, watch, Goto, Fatal, End, Again, Begin, Hit, Idle
<1>1. CASE InitBegin BY <1>1 DEF InitBegin
<1>2. CASE Provision BY <1>2 DEF Provision
<1>3. CASE LoginUser BY <1>3 DEF LoginUser
<1>4. CASE Reach BY <1>4 DEF Reach
<1>5. CASE Probe BY <1>5 DEF Probe
<1>6. CASE Push BY <1>6 DEF Push
<1>7. CASE Copy BY <1>7 DEF Copy
<1>8. CASE Store BY <1>8 DEF Store
<1>9. CASE Setup BY <1>9 DEF Setup
<1>10. CASE HasToken BY <1>10 DEF HasToken
<1>11. CASE Register BY <1>11 DEF Register
<1>12. CASE ShelveConf BY <1>12 DEF ShelveConf
<1>13. CASE WriteConf BY <1>13 DEF WriteConf
<1>14. CASE Enroll BY <1>14 DEF Enroll
<1>15. CASE ChooseOnLaptop BY <1>15 DEF ChooseOnLaptop
<1>16. CASE ChooseOnPlane BY <1>16 DEF ChooseOnPlane
<1>17. CASE Check BY <1>17 DEF Check
<1>18. CASE Clear BY <1>18 DEF Clear
<1>19. CASE Unpack BY <1>19 DEF Unpack
<1>20. CASE Unprev BY <1>20 DEF Unprev
<1>21. CASE Shelve BY <1>21 DEF Shelve
<1>22. CASE Place BY <1>22 DEF Place
<1>23. CASE SwapCut BY <1>23 DEF SwapCut
<1>24. CASE Unreachable BY <1>24 DEF Unreachable
<1>25. CASE Killed BY <1>25 DEF Killed
<1>26. CASE Publish BY <1>26 DEF Publish
<1>27. CASE AddKnob BY <1>27 DEF AddKnob
<1>28. CASE RelayFlips BY <1>28 DEF RelayFlips
<1>29. ASSUME NEW where \in {"laptop", "plane"}, NEW pinned \in BOOLEAN,
              NEW v \in Releases, UpgradeBegin(where, pinned, v)
       PROVE  NumbersOK'
    BY <1>29 DEF UpgradeBegin
<1>30. CASE UNCHANGED vars BY <1>30 DEF vars
<1> QED
    BY <1>1, <1>2, <1>3, <1>4, <1>5, <1>6, <1>7, <1>8, <1>9, <1>10,
       <1>11, <1>12, <1>13, <1>14, <1>15, <1>16, <1>17, <1>18, <1>19,
       <1>20, <1>21, <1>22, <1>23, <1>24, <1>25, <1>26, <1>27, <1>28,
       <1>29, <1>30 DEF Next, InitStep, TailStep, UpgradeStep

\* The types of payloads.
LEMMA PayloadsKept ==
    ASSUME PayloadsOK, NumbersOK, Where, [Next]_vars
    PROVE  PayloadsOK'
<1> USE DeployAssumption, PayloadTypes, OfReleases DEF PayloadsOK, NumbersOK, Where, Swap, Install,
    world, laptop, trees, installed, config, run, watch, Goto, Fatal, End, Again, Begin, Hit, Idle
<1>1. CASE InitBegin BY <1>1 DEF InitBegin
<1>2. CASE Provision BY <1>2 DEF Provision
<1>3. CASE LoginUser BY <1>3 DEF LoginUser
<1>4. CASE Reach BY <1>4 DEF Reach
<1>5. CASE Probe BY <1>5 DEF Probe
<1>6. CASE Push BY <1>6 DEF Push
<1>7. CASE Copy BY <1>7 DEF Copy
<1>8. CASE Store BY <1>8 DEF Store
<1>9. CASE Setup BY <1>9 DEF Setup
<1>10. CASE HasToken BY <1>10 DEF HasToken
<1>11. CASE Register BY <1>11 DEF Register
<1>12. CASE ShelveConf BY <1>12 DEF ShelveConf
<1>13. CASE WriteConf BY <1>13 DEF WriteConf
<1>14. CASE Enroll BY <1>14 DEF Enroll
<1>15. CASE ChooseOnLaptop BY <1>15 DEF ChooseOnLaptop
<1>16. CASE ChooseOnPlane BY <1>16 DEF ChooseOnPlane
<1>17. CASE Check BY <1>17 DEF Check
<1>18. CASE Clear BY <1>18 DEF Clear
<1>19. CASE Unpack BY <1>19 DEF Unpack
<1>20. CASE Unprev BY <1>20 DEF Unprev
<1>21. CASE Shelve BY <1>21 DEF Shelve
<1>22. CASE Place BY <1>22 DEF Place
<1>23. CASE SwapCut BY <1>23 DEF SwapCut
<1>24. CASE Unreachable BY <1>24 DEF Unreachable
<1>25. CASE Killed BY <1>25 DEF Killed
<1>26. CASE Publish BY <1>26 DEF Publish
<1>27. CASE AddKnob BY <1>27 DEF AddKnob
<1>28. CASE RelayFlips BY <1>28 DEF RelayFlips
<1>29. ASSUME NEW where \in {"laptop", "plane"}, NEW pinned \in BOOLEAN,
              NEW v \in Releases, UpgradeBegin(where, pinned, v)
       PROVE  PayloadsOK'
    BY <1>29 DEF UpgradeBegin
<1>30. CASE UNCHANGED vars BY <1>30 DEF vars
<1> QED
    BY <1>1, <1>2, <1>3, <1>4, <1>5, <1>6, <1>7, <1>8, <1>9, <1>10,
       <1>11, <1>12, <1>13, <1>14, <1>15, <1>16, <1>17, <1>18, <1>19,
       <1>20, <1>21, <1>22, <1>23, <1>24, <1>25, <1>26, <1>27, <1>28,
       <1>29, <1>30 DEF Next, InitStep, TailStep, UpgradeStep

\* The types of places.
LEMMA PlacesKept ==
    ASSUME PlacesOK, Where, [Next]_vars
    PROVE  PlacesOK'
<1> USE DeployAssumption DEF PlacesOK, Pc, Swap, AfterToken, Install,
    world, laptop, trees, installed, config, run, watch, Goto, Fatal, End, Again, Begin, Hit, Idle
<1>1. CASE InitBegin BY <1>1 DEF InitBegin
<1>2. CASE Provision BY <1>2 DEF Provision
<1>3. CASE LoginUser BY <1>3 DEF LoginUser
<1>4. CASE Reach BY <1>4 DEF Reach
<1>5. CASE Probe BY <1>5 DEF Probe
<1>6. CASE Push BY <1>6 DEF Push
<1>7. CASE Copy BY <1>7 DEF Copy
<1>8. CASE Store BY <1>8 DEF Store
<1>9. CASE Setup BY <1>9 DEF Setup
<1>10. CASE HasToken BY <1>10 DEF HasToken
<1>11. CASE Register BY <1>11 DEF Register
<1>12. CASE ShelveConf BY <1>12 DEF ShelveConf
<1>13. CASE WriteConf BY <1>13 DEF WriteConf
<1>14. CASE Enroll BY <1>14 DEF Enroll
<1>15. CASE ChooseOnLaptop BY <1>15 DEF ChooseOnLaptop
<1>16. CASE ChooseOnPlane BY <1>16 DEF ChooseOnPlane
<1>17. CASE Check BY <1>17 DEF Check
<1>18. CASE Clear BY <1>18 DEF Clear
<1>19. CASE Unpack BY <1>19 DEF Unpack
<1>20. CASE Unprev BY <1>20 DEF Unprev
<1>21. CASE Shelve BY <1>21 DEF Shelve
<1>22. CASE Place BY <1>22 DEF Place
<1>23. CASE SwapCut BY <1>23 DEF SwapCut
<1>24. CASE Unreachable BY <1>24 DEF Unreachable
<1>25. CASE Killed BY <1>25 DEF Killed
<1>26. CASE Publish BY <1>26 DEF Publish
<1>27. CASE AddKnob BY <1>27 DEF AddKnob
<1>28. CASE RelayFlips BY <1>28 DEF RelayFlips
<1>29. ASSUME NEW where \in {"laptop", "plane"}, NEW pinned \in BOOLEAN,
              NEW v \in Releases, UpgradeBegin(where, pinned, v)
       PROVE  PlacesOK'
    BY <1>29 DEF UpgradeBegin
<1>30. CASE UNCHANGED vars BY <1>30 DEF vars
<1> QED
    BY <1>1, <1>2, <1>3, <1>4, <1>5, <1>6, <1>7, <1>8, <1>9, <1>10,
       <1>11, <1>12, <1>13, <1>14, <1>15, <1>16, <1>17, <1>18, <1>19,
       <1>20, <1>21, <1>22, <1>23, <1>24, <1>25, <1>26, <1>27, <1>28,
       <1>29, <1>30 DEF Next, InitStep, TailStep, UpgradeStep

\* The types of flags.
LEMMA FlagsKept ==
    ASSUME FlagsOK, Where, [Next]_vars
    PROVE  FlagsOK'
<1> USE DeployAssumption DEF FlagsOK, Install, AfterToken,
    world, laptop, trees, installed, config, run, watch, Goto, Fatal, End, Again, Begin, Hit, Idle
<1>1. CASE InitBegin BY <1>1 DEF InitBegin
<1>2. CASE Provision BY <1>2 DEF Provision
<1>3. CASE LoginUser BY <1>3 DEF LoginUser
<1>4. CASE Reach BY <1>4 DEF Reach
<1>5. CASE Probe BY <1>5 DEF Probe
<1>6. CASE Push BY <1>6 DEF Push
<1>7. CASE Copy BY <1>7 DEF Copy
<1>8. CASE Store BY <1>8 DEF Store
<1>9. CASE Setup BY <1>9 DEF Setup
<1>10. CASE HasToken BY <1>10 DEF HasToken
<1>11. CASE Register BY <1>11 DEF Register
<1>12. CASE ShelveConf BY <1>12 DEF ShelveConf
<1>13. CASE WriteConf BY <1>13 DEF WriteConf
<1>14. CASE Enroll BY <1>14 DEF Enroll
<1>15. CASE ChooseOnLaptop BY <1>15 DEF ChooseOnLaptop
<1>16. CASE ChooseOnPlane BY <1>16 DEF ChooseOnPlane
<1>17. CASE Check BY <1>17 DEF Check
<1>18. CASE Clear BY <1>18 DEF Clear
<1>19. CASE Unpack BY <1>19 DEF Unpack
<1>20. CASE Unprev BY <1>20 DEF Unprev
<1>21. CASE Shelve BY <1>21 DEF Shelve
<1>22. CASE Place BY <1>22 DEF Place
<1>23. CASE SwapCut BY <1>23 DEF SwapCut
<1>24. CASE Unreachable BY <1>24 DEF Unreachable
<1>25. CASE Killed BY <1>25 DEF Killed
<1>26. CASE Publish BY <1>26 DEF Publish
<1>27. CASE AddKnob BY <1>27 DEF AddKnob
<1>28. CASE RelayFlips BY <1>28 DEF RelayFlips
<1>29. ASSUME NEW where \in {"laptop", "plane"}, NEW pinned \in BOOLEAN,
              NEW v \in Releases, UpgradeBegin(where, pinned, v)
       PROVE  FlagsOK'
    BY <1>29 DEF UpgradeBegin
<1>30. CASE UNCHANGED vars BY <1>30 DEF vars
<1> QED
    BY <1>1, <1>2, <1>3, <1>4, <1>5, <1>6, <1>7, <1>8, <1>9, <1>10,
       <1>11, <1>12, <1>13, <1>14, <1>15, <1>16, <1>17, <1>18, <1>19,
       <1>20, <1>21, <1>22, <1>23, <1>24, <1>25, <1>26, <1>27, <1>28,
       <1>29, <1>30 DEF Next, InitStep, TailStep, UpgradeStep

\* Whose step is next.
LEMMA WhereKept ==
    ASSUME TypeOK, Where, [Next]_vars
    PROVE  Where'
<1> USE DeployAssumption DEF TypeOK, Where, InitPc, UpgradePc, Swap, AfterToken, Releases,
    world, laptop, trees, installed, config, run, watch, Goto, Fatal, End, Again, Begin, Hit, Idle
<1>1. CASE InitBegin BY <1>1 DEF InitBegin
<1>2. CASE Provision BY <1>2 DEF Provision
<1>3. CASE LoginUser BY <1>3 DEF LoginUser
<1>4. CASE Reach BY <1>4 DEF Reach
<1>5. CASE Probe BY <1>5 DEF Probe
<1>6. CASE Push BY <1>6 DEF Push
<1>7. CASE Copy BY <1>7 DEF Copy
<1>8. CASE Store BY <1>8 DEF Store
<1>9. CASE Setup BY <1>9 DEF Setup
<1>10. CASE HasToken BY <1>10 DEF HasToken
<1>11. CASE Register BY <1>11 DEF Register
<1>12. CASE ShelveConf BY <1>12 DEF ShelveConf
<1>13. CASE WriteConf BY <1>13 DEF WriteConf
<1>14. CASE Enroll BY <1>14 DEF Enroll
<1>15. CASE ChooseOnLaptop BY <1>15 DEF ChooseOnLaptop
<1>16. CASE ChooseOnPlane BY <1>16 DEF ChooseOnPlane
<1>17. CASE Check BY <1>17 DEF Check
<1>18. CASE Clear BY <1>18 DEF Clear
<1>19. CASE Unpack BY <1>19 DEF Unpack
<1>20. CASE Unprev BY <1>20 DEF Unprev
<1>21. CASE Shelve BY <1>21 DEF Shelve
<1>22. CASE Place BY <1>22 DEF Place
<1>23. CASE SwapCut BY <1>23 DEF SwapCut
<1>24. CASE Unreachable BY <1>24 DEF Unreachable
<1>25. CASE Killed BY <1>25 DEF Killed
<1>26. CASE Publish BY <1>26 DEF Publish
<1>27. CASE AddKnob BY <1>27 DEF AddKnob
<1>28. CASE RelayFlips BY <1>28 DEF RelayFlips
<1>29. ASSUME NEW where \in {"laptop", "plane"}, NEW pinned \in BOOLEAN,
              NEW v \in Releases, UpgradeBegin(where, pinned, v)
       PROVE  Where'
    BY <1>29 DEF UpgradeBegin
<1>30. CASE UNCHANGED vars BY <1>30 DEF vars
<1> QED
    BY <1>1, <1>2, <1>3, <1>4, <1>5, <1>6, <1>7, <1>8, <1>9, <1>10,
       <1>11, <1>12, <1>13, <1>14, <1>15, <1>16, <1>17, <1>18, <1>19,
       <1>20, <1>21, <1>22, <1>23, <1>24, <1>25, <1>26, <1>27, <1>28,
       <1>29, <1>30 DEF Next, InitStep, TailStep, UpgradeStep

\* The tree of before.
LEMMA ShelvedKept ==
    ASSUME TypeOK, Where, Shelved, [Next]_vars
    PROVE  Shelved'
<1> USE DeployAssumption, PayloadTypes DEF TypeOK, Where, Shelved, InitPc, UpgradePc, Swap, AfterToken, Releases,
    world, laptop, trees, installed, config, run, watch, Goto, Fatal, End, Again, Begin, Hit, Idle
<1>1. CASE InitBegin BY <1>1 DEF InitBegin
<1>2. CASE Provision BY <1>2 DEF Provision
<1>3. CASE LoginUser BY <1>3 DEF LoginUser
<1>4. CASE Reach BY <1>4 DEF Reach
<1>5. CASE Probe BY <1>5 DEF Probe
<1>6. CASE Push BY <1>6 DEF Push
<1>7. CASE Copy BY <1>7 DEF Copy
<1>8. CASE Store BY <1>8 DEF Store
<1>9. CASE Setup BY <1>9 DEF Setup
<1>10. CASE HasToken BY <1>10 DEF HasToken
<1>11. CASE Register BY <1>11 DEF Register
<1>12. CASE ShelveConf BY <1>12 DEF ShelveConf
<1>13. CASE WriteConf BY <1>13 DEF WriteConf
<1>14. CASE Enroll BY <1>14 DEF Enroll
<1>15. CASE ChooseOnLaptop BY <1>15 DEF ChooseOnLaptop
<1>16. CASE ChooseOnPlane BY <1>16 DEF ChooseOnPlane
<1>17. CASE Check BY <1>17 DEF Check
<1>18. CASE Clear BY <1>18 DEF Clear
<1>19. CASE Unpack BY <1>19 DEF Unpack
<1>20. CASE Unprev BY <1>20 DEF Unprev
<1>21. CASE Shelve BY <1>21 DEF Shelve
<1>22. CASE Place BY <1>22 DEF Place
<1>23. CASE SwapCut BY <1>23 DEF SwapCut
<1>24. CASE Unreachable BY <1>24 DEF Unreachable
<1>25. CASE Killed BY <1>25 DEF Killed
<1>26. CASE Publish BY <1>26 DEF Publish
<1>27. CASE AddKnob BY <1>27 DEF AddKnob
<1>28. CASE RelayFlips BY <1>28 DEF RelayFlips
<1>29. ASSUME NEW where \in {"laptop", "plane"}, NEW pinned \in BOOLEAN,
              NEW v \in Releases, UpgradeBegin(where, pinned, v)
       PROVE  Shelved'
    BY <1>29 DEF UpgradeBegin
<1>30. CASE UNCHANGED vars BY <1>30 DEF vars
<1> QED
    BY <1>1, <1>2, <1>3, <1>4, <1>5, <1>6, <1>7, <1>8, <1>9, <1>10,
       <1>11, <1>12, <1>13, <1>14, <1>15, <1>16, <1>17, <1>18, <1>19,
       <1>20, <1>21, <1>22, <1>23, <1>24, <1>25, <1>26, <1>27, <1>28,
       <1>29, <1>30 DEF Next, InitStep, TailStep, UpgradeStep

\* The release an upgrade installs.
LEMMA UpgradedKept ==
    ASSUME TypeOK, Where, Upgraded, [Next]_vars
    PROVE  Upgraded'
<1> USE DeployAssumption, OverGives, NothingIsEmpty, ReleaseOf, PayloadTypes DEF TypeOK, Where, Upgraded, InitPc, UpgradePc, Swap, AfterToken, Install, Releases,
    world, laptop, trees, installed, config, run, watch, Goto, Fatal, End, Again, Begin, Hit, Idle
<1>1. CASE InitBegin BY <1>1 DEF InitBegin
<1>2. CASE Provision BY <1>2 DEF Provision
<1>3. CASE LoginUser BY <1>3 DEF LoginUser
<1>4. CASE Reach BY <1>4 DEF Reach
<1>5. CASE Probe BY <1>5 DEF Probe
<1>6. CASE Push BY <1>6 DEF Push
<1>7. CASE Copy BY <1>7 DEF Copy
<1>8. CASE Store BY <1>8 DEF Store
<1>9. CASE Setup BY <1>9 DEF Setup
<1>10. CASE HasToken BY <1>10 DEF HasToken
<1>11. CASE Register BY <1>11 DEF Register
<1>12. CASE ShelveConf BY <1>12 DEF ShelveConf
<1>13. CASE WriteConf BY <1>13 DEF WriteConf
<1>14. CASE Enroll BY <1>14 DEF Enroll
<1>15. CASE ChooseOnLaptop BY <1>15 DEF ChooseOnLaptop
<1>16. CASE ChooseOnPlane BY <1>16 DEF ChooseOnPlane
<1>17. CASE Check BY <1>17 DEF Check
<1>18. CASE Clear BY <1>18 DEF Clear
<1>19. CASE Unpack BY <1>19 DEF Unpack
<1>20. CASE Unprev BY <1>20 DEF Unprev
<1>21. CASE Shelve BY <1>21 DEF Shelve
<1>22. CASE Place BY <1>22 DEF Place
<1>23. CASE SwapCut BY <1>23 DEF SwapCut
<1>24. CASE Unreachable BY <1>24 DEF Unreachable
<1>25. CASE Killed BY <1>25 DEF Killed
<1>26. CASE Publish BY <1>26 DEF Publish
<1>27. CASE AddKnob BY <1>27 DEF AddKnob
<1>28. CASE RelayFlips BY <1>28 DEF RelayFlips
<1>29. ASSUME NEW where \in {"laptop", "plane"}, NEW pinned \in BOOLEAN,
              NEW v \in Releases, UpgradeBegin(where, pinned, v)
       PROVE  Upgraded'
    BY <1>29 DEF UpgradeBegin
<1>30. CASE UNCHANGED vars BY <1>30 DEF vars
<1> QED
    BY <1>1, <1>2, <1>3, <1>4, <1>5, <1>6, <1>7, <1>8, <1>9, <1>10,
       <1>11, <1>12, <1>13, <1>14, <1>15, <1>16, <1>17, <1>18, <1>19,
       <1>20, <1>21, <1>22, <1>23, <1>24, <1>25, <1>26, <1>27, <1>28,
       <1>29, <1>30 DEF Next, InitStep, TailStep, UpgradeStep

\* The release an init installs.
LEMMA InitiatedKept ==
    ASSUME TypeOK, Where, Initiated, [Next]_vars
    PROVE  Initiated'
<1> USE DeployAssumption, OverGives, NothingIsEmpty, ReleaseOf, PayloadTypes DEF TypeOK, Where, Initiated, InitPc, UpgradePc, Swap, Laptops, AfterToken, Install, Releases,
    world, laptop, trees, installed, config, run, watch, Goto, Fatal, End, Again, Begin, Hit, Idle
<1>1. CASE InitBegin BY <1>1 DEF InitBegin
<1>2. CASE Provision BY <1>2 DEF Provision
<1>3. CASE LoginUser BY <1>3 DEF LoginUser
<1>4. CASE Reach BY <1>4 DEF Reach
<1>5. CASE Probe BY <1>5 DEF Probe
<1>6. CASE Push BY <1>6 DEF Push
<1>7. CASE Copy BY <1>7 DEF Copy
<1>8. CASE Store BY <1>8 DEF Store
<1>9. CASE Setup
  <2>1. ASSUME cmd = "init", ~half, pc = "setup" PROVE IsRelease(tree)
      BY <2>1
  <2>2. ASSUME Install, IsRelease(tree) PROVE cli' = tree
      BY <2>2 DEF IsRelease
  <2>3. pc' = "token" /\ cmd = "init" /\ ~half => cli' = tree
      BY <1>9, <2>1, <2>2 DEF Setup
  <2>4. /\ tree' = tree /\ token' = token /\ cmd' = cmd /\ half' = half
        /\ pc' = "token" => net' /\ owes' = owes
        /\ pc' \in {"token", "setup", "failed"}
        /\ owes' => owes
      BY <1>9 DEF Setup
  <2> HIDE DEF Install
  <2> QED BY <1>9, <2>1, <2>3, <2>4 DEF Setup
<1>10. CASE HasToken BY <1>10 DEF HasToken
<1>11. CASE Register BY <1>11 DEF Register
<1>12. CASE ShelveConf BY <1>12 DEF ShelveConf
<1>13. CASE WriteConf BY <1>13 DEF WriteConf
<1>14. CASE Enroll BY <1>14 DEF Enroll
<1>15. CASE ChooseOnLaptop BY <1>15 DEF ChooseOnLaptop
<1>16. CASE ChooseOnPlane BY <1>16 DEF ChooseOnPlane
<1>17. CASE Check BY <1>17 DEF Check
<1>18. CASE Clear BY <1>18 DEF Clear
<1>19. CASE Unpack BY <1>19 DEF Unpack
<1>20. CASE Unprev BY <1>20 DEF Unprev
<1>21. CASE Shelve BY <1>21 DEF Shelve
<1>22. CASE Place BY <1>22 DEF Place
<1>23. CASE SwapCut BY <1>23 DEF SwapCut
<1>24. CASE Unreachable BY <1>24 DEF Unreachable
<1>25. CASE Killed BY <1>25 DEF Killed
<1>26. CASE Publish BY <1>26 DEF Publish
<1>27. CASE AddKnob BY <1>27 DEF AddKnob
<1>28. CASE RelayFlips BY <1>28 DEF RelayFlips
<1>29. ASSUME NEW where \in {"laptop", "plane"}, NEW pinned \in BOOLEAN,
              NEW v \in Releases, UpgradeBegin(where, pinned, v)
       PROVE  Initiated'
    BY <1>29 DEF UpgradeBegin
<1>30. CASE UNCHANGED vars BY <1>30 DEF vars
<1> QED
    BY <1>1, <1>2, <1>3, <1>4, <1>5, <1>6, <1>7, <1>8, <1>9, <1>10,
       <1>11, <1>12, <1>13, <1>14, <1>15, <1>16, <1>17, <1>18, <1>19,
       <1>20, <1>21, <1>22, <1>23, <1>24, <1>25, <1>26, <1>27, <1>28,
       <1>29, <1>30 DEF Next, InitStep, TailStep, UpgradeStep

\* The knobs of config.local.
LEMMA KnobsKept ==
    ASSUME TypeOK, Where, KnobsSurvive, [Next]_vars
    PROVE  KnobsSurvive'
<1> USE DeployAssumption DEF TypeOK, Where, Pc, KnobsSurvive, AfterToken, Swap,
    world, laptop, trees, installed, config, run, watch, Goto, Fatal, End, Again, Begin, Hit, Idle
<1>1. CASE InitBegin BY <1>1 DEF InitBegin
<1>2. CASE Provision BY <1>2 DEF Provision
<1>3. CASE LoginUser BY <1>3 DEF LoginUser
<1>4. CASE Reach BY <1>4 DEF Reach
<1>5. CASE Probe BY <1>5 DEF Probe
<1>6. CASE Push BY <1>6 DEF Push
<1>7. CASE Copy BY <1>7 DEF Copy
<1>8. CASE Store BY <1>8 DEF Store
<1>9. CASE Setup BY <1>9 DEF Setup
<1>10. CASE HasToken BY <1>10 DEF HasToken
<1>11. CASE Register BY <1>11 DEF Register
<1>12. CASE ShelveConf BY <1>12 DEF ShelveConf
<1>13. CASE WriteConf BY <1>13 DEF WriteConf
<1>14. CASE Enroll BY <1>14 DEF Enroll
<1>15. CASE ChooseOnLaptop BY <1>15 DEF ChooseOnLaptop
<1>16. CASE ChooseOnPlane BY <1>16 DEF ChooseOnPlane
<1>17. CASE Check BY <1>17 DEF Check
<1>18. CASE Clear BY <1>18 DEF Clear
<1>19. CASE Unpack BY <1>19 DEF Unpack
<1>20. CASE Unprev BY <1>20 DEF Unprev
<1>21. CASE Shelve BY <1>21 DEF Shelve
<1>22. CASE Place BY <1>22 DEF Place
<1>23. CASE SwapCut BY <1>23 DEF SwapCut
<1>24. CASE Unreachable BY <1>24 DEF Unreachable
<1>25. CASE Killed BY <1>25 DEF Killed
<1>26. CASE Publish BY <1>26 DEF Publish
<1>27. CASE AddKnob BY <1>27 DEF AddKnob
<1>28. CASE RelayFlips BY <1>28 DEF RelayFlips
<1>29. ASSUME NEW where \in {"laptop", "plane"}, NEW pinned \in BOOLEAN,
              NEW v \in Releases, UpgradeBegin(where, pinned, v)
       PROVE  KnobsSurvive'
    BY <1>29 DEF UpgradeBegin
<1>30. CASE UNCHANGED vars BY <1>30 DEF vars
<1> QED
    BY <1>1, <1>2, <1>3, <1>4, <1>5, <1>6, <1>7, <1>8, <1>9, <1>10,
       <1>11, <1>12, <1>13, <1>14, <1>15, <1>16, <1>17, <1>18, <1>19,
       <1>20, <1>21, <1>22, <1>23, <1>24, <1>25, <1>26, <1>27, <1>28,
       <1>29, <1>30 DEF Next, InitStep, TailStep, UpgradeStep

-----------------------------------------------------------------------------
(* The theorems.                                                           *)

LEMMA DeployStep == IInv /\ [Next]_vars => IInv'
<1> SUFFICES ASSUME IInv, [Next]_vars PROVE IInv'
    OBVIOUS
<1>1. NumbersOK /\ PayloadsOK /\ PlacesOK /\ FlagsOK /\ Where
    BY TypeParts DEF IInv
<1>2. TypeOK'
  <2>1. NumbersOK' /\ PayloadsOK' /\ PlacesOK' /\ FlagsOK'
      BY <1>1, NumbersKept, PayloadsKept, PlacesKept, FlagsKept
  <2> QED BY <2>1, TypeParts, PTL
<1> QED
    BY <1>2, WhereKept, ShelvedKept, UpgradedKept, InitiatedKept DEF IInv

LEMMA DeployInvariant == Spec => []IInv
BY DeployInit, DeployStep, PTL DEF Spec

\* The state of the two commands keeps its types.
THEOREM DeployTypeCorrect == Spec => []TypeOK
<1>1. IInv => TypeOK BY DEF IInv
<1> QED BY <1>1, DeployInvariant, PTL

\* replaceTree: wherever an upgrade stops, the release it found is whole under
\* one of its two names, unless its swap was started over.
THEOREM UpgradesKeepOldTree == Spec => []OldTreeKept
<1>1. IInv => OldTreeKept BY DEF IInv, Shelved, OldTreeKept
<1> QED BY <1>1, DeployInvariant, PTL

\* A command succeeds in its last step: an upgrade after the token, an init
\* after it has enrolled the laptop.
LEMMA ReportsAtTheEnd ==
    ASSUME IInv, [Next]_vars, pc # "done", pc' = "done"
    PROVE  /\ UNCHANGED <<trees, installed, token, net, cmd, half>>
           /\ regd => regd'
           /\ \/ cmd = "upgrade" /\ pc \in {"token", "register"}
              \/ cmd = "init" /\ pc = "enroll" /\ left' <= left
<1>1. \/ pc = "enroll" /\ Enroll
      \/ pc = "token" /\ HasToken
      \/ pc = "register" /\ Register
    BY DEF Next, InitStep, TailStep, UpgradeStep, InitBegin, Provision,
       LoginUser, Reach, Probe, Push, Copy, Store, Setup, HasToken, Register,
       ShelveConf, WriteConf, Enroll, ChooseOnLaptop, ChooseOnPlane, Check,
       Clear, Unpack, Unprev, Shelve, Place, SwapCut, Unreachable, Killed,
       Publish, AddKnob, RelayFlips, UpgradeBegin, Begin, Idle, vars, run,
       Fatal, End, Again, Goto, Swap
<1>2. cmd = "init" \/ cmd = "upgrade" \/ pc \notin {"token", "register"}
    BY DEF IInv, TypeOK, Where, Idle
<1>3. CASE pc = "enroll" /\ Enroll
    BY <1>3, DeployAssumption
    DEF IInv, TypeOK, Where, InitPc, Enroll, End, Fatal, Hit, world, laptop,
        trees, installed, config, watch
<1>4. CASE pc = "token" /\ HasToken
    BY <1>2, <1>4 DEF HasToken, AfterToken, Goto, End, trees, installed, config, watch
<1>5. CASE pc = "register" /\ Register
  <2>1. /\ UNCHANGED <<trees, installed, token, net, cmd, half>>
        /\ regd => regd'
      BY <1>5 DEF Register, AfterToken, Goto, End, Fatal, Again, trees,
                  installed, watch
  <2>2. cmd = "upgrade"
      BY <1>2, <1>5 DEF Register, AfterToken, Goto, Fatal, Again, End
  <2> QED BY <1>5, <2>1, <2>2
<1> QED BY <1>1, <1>3, <1>4, <1>5

\* upgradeRemote and upgradeLocal: success means one release everywhere,
\* whatever was retried, cut or left by an earlier command.
THEOREM UpgradesInstallOneRelease == Spec => DoneIsOneRelease
<1>1. IInv /\ [Next]_vars =>
          [Reports("upgrade") =>
               tree' = Release(target) /\ agent' = tree' /\ cli' = tree']_vars
  <2> SUFFICES ASSUME IInv, [Next]_vars, Reports("upgrade")
               PROVE  tree' = Release(target) /\ agent' = tree' /\ cli' = tree'
      OBVIOUS
  <2>1. /\ UNCHANGED <<trees, installed, token, net, cmd, half>>
        /\ cmd = "upgrade" /\ pc \in {"token", "register"}
      BY ReportsAtTheEnd DEF Reports
  <2> QED BY <2>1 DEF IInv, Upgraded, trees, installed
<1> QED BY <1>1, DeployInvariant, PTL DEF Spec, DoneIsOneRelease

\* cmdInit: success means a whole plane, unless it began on part of a tree or
\* took a whole one for none.
THEOREM InitsLeaveWholePlane == Spec => InitLeavesWholePlane
<1>1. IInv /\ [Next]_vars =>
          [Reports("init") /\ ~half =>
              /\ IsRelease(tree') /\ cli' = tree' /\ net'
              /\ owes => token' = "whole" /\ (regd' \/ left < MaxFaults)]_vars
  <2> SUFFICES ASSUME IInv, [Next]_vars, Reports("init"), ~half
               PROVE  /\ IsRelease(tree') /\ cli' = tree' /\ net'
                      /\ owes => token' = "whole" /\ (regd' \/ left < MaxFaults)
      OBVIOUS
  <2>1. /\ UNCHANGED <<trees, installed, token, net, cmd, half>>
        /\ regd => regd'
        /\ cmd = "init" /\ pc = "enroll"
      BY ReportsAtTheEnd DEF Reports
  <2> QED BY <2>1 DEF IInv, Initiated, Laptops, trees, installed
<1> QED BY <1>1, DeployInvariant, PTL DEF Spec, InitLeavesWholePlane

\* writeLocalConfig: only a death between its rename and its write loses the
\* knobs the user added.
THEOREM KnobsAreKept == Spec => []KnobsSurvive
<1>1. Init => KnobsSurvive BY DEF Init, KnobsSurvive
<1>2. ASSUME IInv, KnobsSurvive, [Next]_vars PROVE KnobsSurvive'
    BY <1>2, KnobsKept DEF IInv
<1> QED BY <1>1, <1>2, DeployInvariant, PTL DEF Spec
=============================================================================
