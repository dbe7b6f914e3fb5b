------------------------ MODULE ScriptUpdaterProofs ------------------------
(***************************************************************************)
(* Proofs about ScriptUpdater, for any number of releases and of faults:   *)
(* which program the script brings back after an error, and that a torn    *)
(* program has a backup beside it that leads to a whole one.               *)
(***************************************************************************)
EXTENDS ScriptUpdater, TLAPS

\* Where the backup comes from: this run has made it of the program it has found,
\* an earlier run has left it, or its copy was cut short.
Explained == /\ bak \in {Missing, found} \/ dirty \/ "backup" \in cut
             /\ pc \in {"idle", "install", "check", "stop", "backup"} =>
                    bak = Missing \/ dirty \/ "backup" \in cut
             /\ pc \in {"check", "stop", "backup"} => exe = found
             /\ pc = "restore" => bak # Missing

\* What keeps a torn program's backup of use: a program that Windows refuses to
\* start is never backed up, and one that was replaced is whole.
Kept == /\ TornIsBackedUp
        /\ bak = Refused => "backup" \in cut
        /\ pc \in {"stop", "backup"} => exe # Refused
        /\ pc = "replace" => bak \in {Crashing} \union Releases
        /\ pc \in {"start", "watch", "remove"} => exe \notin Torn

\* The inductive invariant.
Inv == TypeOK /\ Explained /\ Kept

\* Nothing passes for anything else.
LEMMA Distinct ==
    /\ Missing \notin Torn \union Releases
    /\ Refused \notin Releases /\ Crashing \notin Releases /\ Refused # Crashing
BY BoundsAssumption DEF Missing, Torn, Releases, Refused, Crashing

LEMMA FaultBound == TypeOK /\ Fault => faults' \in 0..MaxFaults
BY BoundsAssumption DEF TypeOK, Fault

LEMMA InvInit == Init => Inv
<1>. SUFFICES ASSUME Init PROVE Inv
  OBVIOUS
<1>1. 0 \in 0..MaxFaults /\ 1 \in Releases
  BY BoundsAssumption DEF Releases
<1>2. TypeOK
  BY <1>1 DEF Init, TypeOK
<1>3. exe \notin Torn /\ bak # Refused
  BY <1>1, Distinct DEF Init, Torn
<1>4. Explained /\ Kept
  BY <1>3 DEF Init, Explained, Kept, TornIsBackedUp
<1>. QED  BY <1>2, <1>4 DEF Inv

LEMMA TypeStep == Inv /\ [Next]_vars => TypeOK'
<1>. SUFFICES ASSUME Inv, [Next]_vars PROVE TypeOK'
  OBVIOUS
<1>1. TypeOK
  BY DEF Inv
<1>2. Fault => faults' \in 0..MaxFaults
  BY <1>1, FaultBound
<1>3. pc = "restore" => bak # Missing
  BY DEF Inv, Explained
<1>. USE DEF files, releases, history, TypeOK
<1>4. CASE Run
  BY <1>1, <1>2, <1>3, <1>4 DEF Run
<1>5. CASE AlreadyCurrent
  BY <1>1, <1>2, <1>3, <1>5 DEF AlreadyCurrent
<1>6. CASE Download
  BY <1>1, <1>2, <1>3, <1>6 DEF Download
<1>7. CASE CheckFails
  BY <1>1, <1>2, <1>3, <1>7 DEF CheckFails
<1>8. CASE Stop
  BY <1>1, <1>2, <1>3, <1>8 DEF Stop, StopTask
<1>9. CASE BackUp
  BY <1>1, <1>2, <1>3, <1>9 DEF BackUp
<1>10. CASE BackUpFails
  BY <1>1, <1>2, <1>3, <1>10 DEF BackUpFails, BackUpCut
<1>11. CASE Replace
  BY <1>1, <1>2, <1>3, <1>11 DEF Replace
<1>12. CASE ReplaceRefused
  BY <1>1, <1>2, <1>3, <1>12 DEF ReplaceRefused
<1>13. CASE ReplaceFails
  BY <1>1, <1>2, <1>3, <1>13 DEF ReplaceFails
<1>14. CASE Start
  BY <1>1, <1>2, <1>3, <1>14 DEF Start, Starts
<1>15. CASE Watch
  BY <1>1, <1>2, <1>3, <1>15 DEF Watch
<1>16. CASE WatchFails
  BY <1>1, <1>2, <1>3, <1>16 DEF WatchFails
<1>17. CASE Remove
  BY <1>1, <1>2, <1>3, <1>17 DEF Remove
<1>18. CASE RemoveFails
  BY <1>1, <1>2, <1>3, <1>18 DEF RemoveFails
<1>19. CASE Catch
  BY <1>1, <1>2, <1>3, <1>19 DEF Catch, StopTask
<1>20. CASE NothingToRestore
  BY <1>1, <1>2, <1>3, <1>20 DEF NothingToRestore
<1>21. CASE Restore
  BY <1>1, <1>2, <1>3, <1>21 DEF Restore
<1>22. CASE RestoreFails
  BY <1>1, <1>2, <1>3, <1>22 DEF RestoreFails
<1>23. CASE Restart
  BY <1>1, <1>2, <1>3, <1>23 DEF Restart, Starts
<1>24. CASE AgentEnds
  BY <1>1, <1>2, <1>3, <1>24 DEF AgentEnds
<1>25. CASE PowerLoss
  BY <1>1, <1>2, <1>3, <1>25 DEF PowerLoss, Starts, BackUpCut, InstallerCut
<1>26. CASE Publish
  BY <1>1, <1>2, <1>3, <1>26 DEF Publish
<1>27. CASE InstallByHand
  BY <1>1, <1>2, <1>3, <1>27 DEF InstallByHand, StopTask
<1>28. CASE Install
  BY <1>1, <1>2, <1>3, <1>28 DEF Install, Starts
<1>29. CASE InstallRefused
  BY <1>1, <1>2, <1>3, <1>29 DEF InstallRefused
<1>30. CASE InstallFails
  BY <1>1, <1>2, <1>3, <1>30 DEF InstallFails, InstallerCut
<1>31. CASE UNCHANGED vars
  BY <1>1, <1>2, <1>3, <1>31 DEF vars
<1>. QED
  BY <1>4, <1>5, <1>6, <1>7, <1>8, <1>9, <1>10, <1>11, <1>12, <1>13, <1>14, <1>15, <1>16,
     <1>17, <1>18, <1>19, <1>20, <1>21, <1>22, <1>23, <1>24, <1>25, <1>26, <1>27, <1>28,
     <1>29, <1>30, <1>31
  DEF Next, Script, Installer, Failure

LEMMA ExplainedStep == Inv /\ [Next]_vars => Explained'
<1>. SUFFICES ASSUME Inv, [Next]_vars PROVE Explained'
  OBVIOUS
<1>1. Explained
  BY DEF Inv
<1>. USE DEF files, releases, history, Explained
<1>4. CASE Run
  BY <1>1, <1>4 DEF Run
<1>5. CASE AlreadyCurrent
  BY <1>1, <1>5 DEF AlreadyCurrent
<1>6. CASE Download
  BY <1>1, <1>6 DEF Download
<1>7. CASE CheckFails
  BY <1>1, <1>7 DEF CheckFails
<1>8. CASE Stop
  BY <1>1, <1>8 DEF Stop, StopTask
<1>9. CASE BackUp
  BY <1>1, <1>9 DEF BackUp
<1>10. CASE BackUpFails
  BY <1>1, <1>10 DEF BackUpFails, BackUpCut
<1>11. CASE Replace
  BY <1>1, <1>11 DEF Replace
<1>12. CASE ReplaceRefused
  BY <1>1, <1>12 DEF ReplaceRefused
<1>13. CASE ReplaceFails
  BY <1>1, <1>13 DEF ReplaceFails
<1>14. CASE Start
  BY <1>1, <1>14 DEF Start, Starts
<1>15. CASE Watch
  BY <1>1, <1>15 DEF Watch
<1>16. CASE WatchFails
  BY <1>1, <1>16 DEF WatchFails
<1>17. CASE Remove
  BY <1>1, <1>17 DEF Remove
<1>18. CASE RemoveFails
  BY <1>1, <1>18 DEF RemoveFails
<1>19. CASE Catch
  BY <1>1, <1>19 DEF Catch, StopTask
<1>20. CASE NothingToRestore
  BY <1>1, <1>20 DEF NothingToRestore
<1>21. CASE Restore
  BY <1>1, <1>21 DEF Restore
<1>22. CASE RestoreFails
  BY <1>1, <1>22 DEF RestoreFails
<1>23. CASE Restart
  BY <1>1, <1>23 DEF Restart, Starts
<1>24. CASE AgentEnds
  BY <1>1, <1>24 DEF AgentEnds
<1>25. CASE PowerLoss
  BY <1>1, <1>25 DEF PowerLoss, Starts, BackUpCut, InstallerCut
<1>26. CASE Publish
  BY <1>1, <1>26 DEF Publish
<1>27. CASE InstallByHand
  BY <1>1, <1>27 DEF InstallByHand, StopTask
<1>28. CASE Install
  BY <1>1, <1>28 DEF Install, Starts
<1>29. CASE InstallRefused
  BY <1>1, <1>29 DEF InstallRefused
<1>30. CASE InstallFails
  BY <1>1, <1>30 DEF InstallFails, InstallerCut
<1>31. CASE UNCHANGED vars
  BY <1>1, <1>31 DEF vars
<1>. QED
  BY <1>4, <1>5, <1>6, <1>7, <1>8, <1>9, <1>10, <1>11, <1>12, <1>13, <1>14, <1>15, <1>16,
     <1>17, <1>18, <1>19, <1>20, <1>21, <1>22, <1>23, <1>24, <1>25, <1>26, <1>27, <1>28,
     <1>29, <1>30, <1>31
  DEF Next, Script, Installer, Failure

LEMMA KeptStep == Inv /\ [Next]_vars => Kept'
<1>. SUFFICES ASSUME Inv, [Next]_vars PROVE Kept'
  OBVIOUS
<1>1. TypeOK /\ Kept /\ (pc = "restore" => bak # Missing)
  BY DEF Inv, Explained
<1>2. /\ exe \in Torn \union Releases /\ bak \in {Missing} \union Torn \union Releases
      /\ new \in Releases /\ latest \in Releases
  BY <1>1 DEF TypeOK
<1>3. /\ Missing \notin Releases /\ Refused \notin Releases /\ Crashing \notin Releases
      /\ Refused # Crashing /\ Missing # Refused /\ Missing # Crashing
  BY Distinct DEF Torn
<1>. USE DEF files, releases, history, Kept, TornIsBackedUp, Torn
<1>4. CASE Run
  BY <1>1, <1>2, <1>3, <1>4 DEF Run
<1>5. CASE AlreadyCurrent
  BY <1>1, <1>2, <1>3, <1>5 DEF AlreadyCurrent
<1>6. CASE Download
  BY <1>1, <1>2, <1>3, <1>6 DEF Download
<1>7. CASE CheckFails
  BY <1>1, <1>2, <1>3, <1>7 DEF CheckFails
<1>8. CASE Stop
  BY <1>1, <1>2, <1>3, <1>8 DEF Stop, StopTask
<1>9. CASE BackUp
  BY <1>1, <1>2, <1>3, <1>9 DEF BackUp
<1>10. CASE BackUpFails
  BY <1>1, <1>2, <1>3, <1>10 DEF BackUpFails, BackUpCut
<1>11. CASE Replace
  BY <1>1, <1>2, <1>3, <1>11 DEF Replace
<1>12. CASE ReplaceRefused
  BY <1>1, <1>2, <1>3, <1>12 DEF ReplaceRefused
<1>13. CASE ReplaceFails
  BY <1>1, <1>2, <1>3, <1>13 DEF ReplaceFails
<1>14. CASE Start
  BY <1>1, <1>2, <1>3, <1>14 DEF Start, Starts
<1>15. CASE Watch
  BY <1>1, <1>2, <1>3, <1>15 DEF Watch
<1>16. CASE WatchFails
  BY <1>1, <1>2, <1>3, <1>16 DEF WatchFails
<1>17. CASE Remove
  BY <1>1, <1>2, <1>3, <1>17 DEF Remove
<1>18. CASE RemoveFails
  BY <1>1, <1>2, <1>3, <1>18 DEF RemoveFails
<1>19. CASE Catch
  BY <1>1, <1>2, <1>3, <1>19 DEF Catch, StopTask
<1>20. CASE NothingToRestore
  BY <1>1, <1>2, <1>3, <1>20 DEF NothingToRestore
<1>21. CASE Restore
  BY <1>1, <1>2, <1>3, <1>21 DEF Restore
<1>22. CASE RestoreFails
  BY <1>1, <1>2, <1>3, <1>22 DEF RestoreFails
<1>23. CASE Restart
  BY <1>1, <1>2, <1>3, <1>23 DEF Restart, Starts
<1>24. CASE AgentEnds
  BY <1>1, <1>2, <1>3, <1>24 DEF AgentEnds
<1>25. CASE PowerLoss
  BY <1>1, <1>2, <1>3, <1>25 DEF PowerLoss, Starts, BackUpCut, InstallerCut
<1>26. CASE Publish
  BY <1>1, <1>2, <1>3, <1>26 DEF Publish
<1>27. CASE InstallByHand
  BY <1>1, <1>2, <1>3, <1>27 DEF InstallByHand, StopTask
<1>28. CASE Install
  BY <1>1, <1>2, <1>3, <1>28 DEF Install, Starts
<1>29. CASE InstallRefused
  BY <1>1, <1>2, <1>3, <1>29 DEF InstallRefused
<1>30. CASE InstallFails
  BY <1>1, <1>2, <1>3, <1>30 DEF InstallFails, InstallerCut
<1>31. CASE UNCHANGED vars
  BY <1>1, <1>2, <1>3, <1>31 DEF vars
<1>. QED
  BY <1>4, <1>5, <1>6, <1>7, <1>8, <1>9, <1>10, <1>11, <1>12, <1>13, <1>14, <1>15, <1>16,
     <1>17, <1>18, <1>19, <1>20, <1>21, <1>22, <1>23, <1>24, <1>25, <1>26, <1>27, <1>28,
     <1>29, <1>30, <1>31
  DEF Next, Script, Installer, Failure

LEMMA Invariance == Spec => []Inv
<1>1. Inv /\ [Next]_vars => Inv'
  BY TypeStep, ExplainedStep, KeptStep DEF Inv
<1>. QED  BY InvInit, <1>1, PTL DEF Spec

\* The type invariant: the program is a release or torn (update-agent.ps1).
THEOREM TypeCorrect == Spec => []TypeOK
BY Invariance, PTL DEF Inv

\* The catch block of update-agent.ps1 brings back the program the run has found,
\* unless a backup was left by an earlier run or torn by its own copy: everything
\* else that could be in .bak was put there by this run, before it replaced the
\* program.
THEOREM RestoredIsFound == Spec => RestoresFound
<1> DEFINE Back == pc = "restore" /\ pc' = "restart" => exe' = found \/ dirty \/ "backup" \in cut
<1>1. Inv /\ [Next]_vars => Back
  <2>. SUFFICES ASSUME Inv, [Next]_vars, pc = "restore", pc' = "restart"
                PROVE  exe' = found \/ dirty \/ "backup" \in cut
    OBVIOUS
  <2>1. Restore
    BY DEF Next, Script, Installer, Failure, Run, AlreadyCurrent, Download, CheckFails, Stop,
           BackUp, BackUpFails, Replace, ReplaceRefused, ReplaceFails, Start, Watch, WatchFails,
           Remove, RemoveFails, Catch, NothingToRestore, RestoreFails, Restart, AgentEnds,
           PowerLoss, Publish, InstallByHand, Install, InstallRefused, InstallFails, vars
  <2>2. exe' = bak /\ bak # Missing
    BY <2>1 DEF Restore, Inv, Explained
  <2>. QED  BY <2>2 DEF Inv, Explained
<1>2. Inv /\ [Next]_vars => [Back]_vars
  BY <1>1
<1>. QED  BY Invariance, <1>2, PTL DEF Spec, RestoresFound

\* Whatever tears the program, .bak holds a whole release or a torn program that
\* still starts, so that a later run of update-agent.ps1 restores or replaces it,
\* unless the copy to .bak or the installer's was cut short.
THEOREM TornProgramIsBackedUp == Spec => []TornIsBackedUp
<1>1. Inv => TornIsBackedUp
  BY DEF Inv, Kept
<1>. QED  BY <1>1, Invariance, PTL
=============================================================================
