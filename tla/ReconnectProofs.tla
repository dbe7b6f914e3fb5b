--------------------------- MODULE ReconnectProofs ---------------------------
(***************************************************************************)
(* Proofs about Reconnect, for any number of engines, operator's requests, *)
(* failures and power losses: the old identity is kept until a rollback    *)
(* has moved it back, a change that is reported as a success is one, and a *)
(* rollback restores both files unless a new enrollment has overtaken it.  *)
(***************************************************************************)
EXTENDS Reconnect, TLAPS

\* The steps of an engine between the server's answer and the end of its writes.
Enrolling == {"saveId", "writeId", "saveCfg", "writeCfg"}

\* Only the new server's configuration has a token, so that an engine enrolls
\* with the new server or not at all.
TokensAreNew ==
    /\ config.token => config.server = "new"
    /\ ~backup.token
    /\ \A e \in Slots : engines[e].token \/ engines[e].pc \in Enrolling
                            => engines[e].server = "new"

\* Nobody can enroll.
Tokenless == /\ ~config.token
             /\ \A e \in Slots : ~engines[e].token /\ engines[e].pc \notin Enrolling

\* Where the old identity is: in place until it is moved, then saved.
Kept ==
    /\ control \in {"health", "stop", "stopWait", "refused", "moveId"} =>
           identity = "old" /\ Tokenless
    /\ control \in {"writeCfg", "fillCfg", "start", "poll", "ok", "rollMove"} => saved = "old"
    /\ control \in {"rollStop", "rollWait", "rollCfg", "rollFill", "rollId", "broken"} =>
           saved = "old" \/ (identity = "old" /\ Tokenless)

\* From the move to the success, nothing is old any more.
Changed ==
    /\ control \in {"start", "poll", "ok"} => config.server # "old"
    /\ control \in {"writeCfg", "fillCfg", "start", "poll", "ok"} => identity # "old"
    /\ control = "ok" => identity # "none"

\* What a rollback has restored so far, unless a new enrollment has overtaken it:
\* a file that an enrollment has truncated or written stays.
Restored ==
    /\ \A e \in Slots : engines[e].pc \in Enrolling \ {"saveId"} => identity \in {"new", "torn"}
    /\ control \in {"rollId", "rollMove", "rollStart", "failed"} =>
           identity \in {"new", "torn"} \/ config = backup
    /\ control \in {"rollStart", "failed"} => identity # "none"

\* An engine that has loaded its configuration knows its server.
Loaded == \A e \in Slots : engines[e].pc \notin {"dead", "load"} => engines[e].server \in Servers

Steps == {"health", "stop", "stopWait", "refused", "moveId", "writeCfg", "fillCfg", "start", "poll",
          "ok", "rollStop", "rollWait", "rollCfg", "rollFill", "rollId", "rollMove", "rollStart",
          "failed", "broken", "lost"}

\* The inductive invariant.
Inv == /\ TypeOK /\ control \in Steps /\ Loaded
       /\ ~leftover => TokensAreNew /\ Kept /\ Changed /\ Restored

States == [pc : {"dead", "load", "ensure", "saveId", "writeId", "saveCfg", "writeCfg", "run"},
           server : Servers \union {"torn"}, token : BOOLEAN, id : Servers \union {"none"}]

\* An engine that changes its state stays within its type.
LEMMA OneEngine ==
    ASSUME TypeOK, NEW e \in Slots, NEW x \in States, engines' = [engines EXCEPT ![e] = x]
    PROVE  engines' \in [Slots -> States]
BY DEF TypeOK, States

\* The updates the actions make of an engine.
LEMMA Updates ==
    ASSUME NEW x \in States
    PROVE  /\ \A c \in Configs : [x EXCEPT !.pc = "ensure", !.server = c.server,
                                           !.token = c.token] \in States
           /\ \A i \in Servers :
                  /\ [x EXCEPT !.pc = "run", !.id = i] \in States
                  /\ [x EXCEPT !.pc = "saveCfg", !.id = i, !.token = FALSE] \in States
           /\ \A q \in Enrolling \union {"run", "ensure"} : [x EXCEPT !.pc = q] \in States
           /\ Dead \in States /\ [Dead EXCEPT !.pc = "load"] \in States
BY DEF States, Configs, Servers, Dead, Enrolling

LEMMA DeadIsAState == Dead \in States
BY DEF States, Dead, Servers

LEMMA TornIsAConfig == Torn \in Configs /\ ~Torn.token /\ Torn.server = "torn"
BY DEF Configs, Torn

LEMMA WholeIsAConfig ==
    ASSUME NEW s \in Servers, NEW t \in BOOLEAN
    PROVE  [server |-> s, token |-> t] \in Configs
BY DEF Configs

\* The parameter of the behaviour never changes.
LEMMA Frozen == [Next]_vars => UNCHANGED leftover
BY DEF Next, Host, Control, Engine, vars, past, Fault, KillEngine, Launch, Record, Unwind, Delay,
   Load, UseIdentity, EnrollFails, Enroll, Unread, TruncateIdentity, SaveIdentity, TruncateConfig,
   SaveConfig, SaveFails, Cycle, Refuse, Backup, AskStop, Stopped, StopUndone, StopTimesOut,
   MoveIdentity, WriteConfig, Start, Succeed, Deadline, StepFails, RestoreConfig, TestIdentity,
   RestoreIdentity, CatchFails, RestartService, OperatorStops, OperatorStarts, PowerLoss

LEMMA InvInit == Init => Inv
<1>. SUFFICES ASSUME Init PROVE Inv
  OBVIOUS
<1>1. PICK t \in {FALSE, leftover} :
          engines = [e \in Slots |-> IF e = 1 THEN Running(t) ELSE Dead]
  BY DEF Init
<1>2. leftover \in BOOLEAN /\ t \in BOOLEAN /\ (~leftover => ~t)
  <2>1. leftover \in BOOLEAN
    BY DEF Init
  <2>2. CASE t = FALSE
    BY <2>1, <2>2
  <2>3. CASE t = leftover
    BY <2>1, <2>3
  <2>. QED  BY <2>1, <2>2, <2>3
<1>3. Running(t) \in States /\ Dead \in States
  BY <1>2 DEF States, Running, Dead, Servers
<1>4. engines \in [Slots -> States]
  <2>. HIDE DEF Running, Dead
  <2>. QED  BY <1>1, <1>3
<1>5. TypeOK
  BY <1>2, <1>4, BoundsAssumption DEF Init, TypeOK, States, Slots, Configs, Servers, Identities
<1>6. \A e \in Slots : engines[e].pc \notin {"dead"} => engines[e] = Running(t)
  BY <1>1 DEF Dead
<1>7. Loaded
  BY <1>6 DEF Loaded, Running, Servers
<1>8. ASSUME ~leftover PROVE Tokenless /\ TokensAreNew /\ Restored
  BY <1>1, <1>2, <1>8 DEF Init, Tokenless, TokensAreNew, Restored, Running, Dead, Enrolling
<1>9. ASSUME ~leftover PROVE Kept /\ Changed
  BY <1>8, <1>9 DEF Init, Kept, Changed
<1>. QED  BY <1>5, <1>7, <1>8, <1>9 DEF Inv, Init, Steps

LEMMA TypeStep == Inv /\ [Next]_vars => TypeOK' /\ control' \in Steps
<1>. SUFFICES ASSUME Inv, [Next]_vars PROVE TypeOK' /\ control' \in Steps
  OBVIOUS
<1>1. TypeOK /\ control \in Steps
  BY DEF Inv
<1>2. /\ config \in Configs /\ identity \in Identities
      /\ \A f \in Slots : engines[f] \in States
      /\ UNCHANGED leftover /\ Loaded
  BY <1>1, Frozen DEF TypeOK, States, Inv
<1>3. ASSUME NEW e \in Slots, AfterError(e)
      PROVE  engines' \in [Slots -> States]
  <2> DEFINE x == IF engines[e].id = "none" THEN Dead ELSE [engines[e] EXCEPT !.pc = "run"]
  <2>1. x \in States
    <3>. HIDE DEF Dead
    <3>. QED  BY <1>2, Updates
  <2>2. engines' = [engines EXCEPT ![e] = x]
    BY <1>3 DEF AfterError
  <2>. HIDE DEF x
  <2>. QED  BY <1>1, <2>1, <2>2, OneEngine
<1>. USE DEF files, host, TypeOK, Steps, Configs, Servers, Alive, Dead, Enrolling
<1>5. CASE KillEngine
  <2>1. engines' \in [Slots -> States]
    <3>. HIDE DEF Dead
    <3>. QED  BY <1>1, <1>2, <1>5, DeadIsAState, OneEngine DEF KillEngine
  <2>. QED  BY <1>1, <1>2, <1>5, <2>1 DEF KillEngine, States
<1>6. ASSUME NEW e \in Slots, Launch(e) PROVE TypeOK' /\ control' \in Steps
  <2>1. engines' \in [Slots -> States] /\ child' \in Slots
    BY <1>1, <1>2, <1>6, Updates, OneEngine DEF Launch
  <2>2. UNCHANGED <<files, control, service>> /\ sup = "check"
    BY <1>6 DEF Launch
  <2>. QED  BY <1>1, <1>2, <2>1, <2>2 DEF States
<1>7. CASE Record
  BY <1>1, <1>2, <1>7 DEF Record
<1>8. CASE Unwind
  BY <1>1, <1>2, <1>8 DEF Unwind
<1>9. CASE Delay
  BY <1>1, <1>2, <1>9 DEF Delay
<1>10. CASE Refuse
  BY <1>1, <1>2, <1>10 DEF Refuse
<1>11. CASE Backup
  BY <1>1, <1>2, <1>11 DEF Backup
<1>12. CASE AskStop
  BY <1>1, <1>2, <1>12 DEF AskStop, StopService
<1>13. CASE Stopped
  BY <1>1, <1>2, <1>13 DEF Stopped
<1>14. CASE StopUndone
  BY <1>1, <1>2, <1>14 DEF StopUndone, TimesOut
<1>15. CASE MoveIdentity
  BY <1>1, <1>2, <1>15 DEF MoveIdentity, Identities
<1>16. CASE WriteConfig
  <2>1. config' \in Configs
    <3>1. config' = Torn \/ config' = [server |-> "new", token |-> TRUE]
      BY <1>16 DEF WriteConfig
    <3>2. "new" \in Servers
      OBVIOUS
    <3>. HIDE DEF Configs, Servers
    <3>. QED  BY <1>1, <3>1, <3>2, TornIsAConfig, WholeIsAConfig DEF TypeOK
  <2>2. /\ control' \in Steps
        /\ UNCHANGED <<identity, saved, backup, host, engines>>
    BY <1>16 DEF WriteConfig
  <2>. HIDE DEF Configs, Steps
  <2>. QED  BY <1>1, <1>2, <2>1, <2>2
<1>17. CASE Start
  BY <1>1, <1>2, <1>17 DEF Start, StartService
<1>18. CASE Succeed
  BY <1>1, <1>2, <1>18 DEF Succeed
<1>19. CASE Deadline
  BY <1>1, <1>2, <1>19 DEF Deadline
<1>20. CASE RestoreConfig
  <2>1. config' \in Configs
    <3>1. config' = Torn \/ config' = backup
      BY <1>20 DEF RestoreConfig
    <3>. HIDE DEF Configs, Servers
    <3>. QED  BY <1>1, <3>1, TornIsAConfig, <1>2 DEF TypeOK
  <2>2. /\ control' \in Steps
        /\ UNCHANGED <<identity, saved, backup, host, engines>>
    BY <1>20 DEF RestoreConfig
  <2>. HIDE DEF Configs, Steps
  <2>. QED  BY <1>1, <1>2, <2>1, <2>2
<1>21. CASE TestIdentity
  BY <1>1, <1>2, <1>21 DEF TestIdentity
<1>22. CASE RestoreIdentity
  BY <1>1, <1>2, <1>22 DEF RestoreIdentity
<1>23. CASE RestartService
  BY <1>1, <1>2, <1>23 DEF RestartService, StartService
<1>24. ASSUME NEW e \in Slots, Load(e) PROVE TypeOK' /\ control' \in Steps
  <2>1. engines' \in [Slots -> States]
    <3>1. CASE config.server = "torn"
      <4>1. engines' = [engines EXCEPT ![e] = Dead]
        BY <1>24, <3>1 DEF Load
      <4>. HIDE DEF Dead
      <4>. QED  BY <1>1, <4>1, DeadIsAState, OneEngine
    <3>2. CASE config.server # "torn"
      <4> DEFINE x == [engines[e] EXCEPT !.pc = "ensure", !.server = config.server,
                                         !.token = config.token]
      <4>1. x \in States
        BY <1>1, <1>2, Updates
      <4>2. engines' = [engines EXCEPT ![e] = x]
        BY <1>24, <3>2 DEF Load
      <4>. QED  BY <1>1, <4>1, <4>2, OneEngine
    <3>. QED  BY <3>1, <3>2
  <2>2. UNCHANGED <<files, control, host>>
    BY <1>24 DEF Load
  <2>. QED  BY <1>1, <1>2, <2>1, <2>2 DEF States
<1>25. ASSUME NEW e \in Slots, UseIdentity(e) PROVE TypeOK' /\ control' \in Steps
  <2> DEFINE x == [engines[e] EXCEPT !.pc = "run", !.id = identity]
  <2>1. x \in States
    BY <1>1, <1>2, <1>25, Updates DEF UseIdentity
  <2>2. engines' = [engines EXCEPT ![e] = x] /\ UNCHANGED <<files, control, host, leftover>>
    BY <1>25 DEF UseIdentity, past, files
  <2>3. engines' \in [Slots -> States]
    BY <1>1, <2>1, <2>2, OneEngine
  <2>. HIDE DEF x
  <2>. QED  BY <1>1, <1>2, <2>2, <2>3 DEF States
<1>26. ASSUME NEW e \in Slots, EnrollFails(e) PROVE TypeOK' /\ control' \in Steps
  <2>1. engines' \in [Slots -> States]
    BY <1>1, <1>2, <1>3, <1>26 DEF EnrollFails
  <2>. QED  BY <1>1, <1>2, <1>26, <2>1 DEF EnrollFails, States
<1>27. ASSUME NEW e \in Slots, Enroll(e) PROVE TypeOK' /\ control' \in Steps
  <2> DEFINE x == [engines[e] EXCEPT !.pc = "saveId"]
  <2>1. x \in States
    BY <1>1, <1>2, Updates DEF Enrolling
  <2>2. engines' = [engines EXCEPT ![e] = x] /\ UNCHANGED <<files, control, host>>
    BY <1>27 DEF Enroll
  <2>3. engines' \in [Slots -> States]
    BY <1>1, <2>1, <2>2, OneEngine
  <2>. HIDE DEF x
  <2>. QED  BY <1>1, <1>2, <2>2, <2>3 DEF States
<1>28. ASSUME NEW e \in Slots, TruncateIdentity(e) PROVE TypeOK' /\ control' \in Steps
  <2> DEFINE x == [engines[e] EXCEPT !.pc = "writeId"]
  <2>1. x \in States
    BY <1>1, <1>2, Updates DEF Enrolling
  <2>2. engines' = [engines EXCEPT ![e] = x] /\ identity' = "torn"
       /\ UNCHANGED <<config, saved, backup, control, host>>
    BY <1>28 DEF TruncateIdentity
  <2>3. engines' \in [Slots -> States]
    BY <1>1, <2>1, <2>2, OneEngine
  <2>. HIDE DEF x
  <2>. QED  BY <1>1, <1>2, <2>2, <2>3 DEF States, Identities
<1>29. ASSUME NEW e \in Slots, SaveIdentity(e) PROVE TypeOK' /\ control' \in Steps
  <2> DEFINE s == engines[e].server
             x == [engines[e] EXCEPT !.pc = "saveCfg", !.id = s, !.token = FALSE]
  <2>1. s \in Servers
    BY <1>2, <1>29 DEF SaveIdentity, Loaded
  <2>2. x \in States
    BY <1>1, <1>2, <2>1, Updates
  <2>3. /\ engines' = [engines EXCEPT ![e] = x] /\ identity' \in {s, "torn"}
        /\ UNCHANGED <<config, saved, backup, control, host>>
    BY <1>29 DEF SaveIdentity
  <2>4. engines' \in [Slots -> States]
    BY <1>1, <2>2, <2>3, OneEngine
  <2>. HIDE DEF s, x
  <2>. QED  BY <1>1, <1>2, <2>1, <2>3, <2>4 DEF States, Identities
<1>30. ASSUME NEW e \in Slots, TruncateConfig(e) PROVE TypeOK' /\ control' \in Steps
  <2> DEFINE x == [engines[e] EXCEPT !.pc = "writeCfg"]
  <2>1. x \in States
    BY <1>1, <1>2, Updates DEF Enrolling
  <2>2. engines' = [engines EXCEPT ![e] = x] /\ config' = Torn
       /\ UNCHANGED <<identity, saved, backup, control, host>>
    BY <1>30 DEF TruncateConfig
  <2>3. engines' \in [Slots -> States]
    BY <1>1, <2>1, <2>2, OneEngine
  <2>. HIDE DEF x, Configs
  <2>. QED  BY <1>1, <1>2, <2>2, <2>3, TornIsAConfig DEF States
<1>31. ASSUME NEW e \in Slots, SaveConfig(e) PROVE TypeOK' /\ control' \in Steps
  <2> DEFINE s == engines[e].server
             x == [engines[e] EXCEPT !.pc = "run"]
  <2>1. s \in Servers
    BY <1>2, <1>31 DEF SaveConfig, Loaded
  <2>2. x \in States
    BY <1>1, <1>2, Updates
  <2>3. engines' = [engines EXCEPT ![e] = x] /\ UNCHANGED <<identity, saved, backup, control, host>>
    BY <1>31 DEF SaveConfig
  <2>4. engines' \in [Slots -> States]
    BY <1>1, <2>2, <2>3, OneEngine
  <2>5. config' \in Configs
    <3>1. config' \in {[server |-> s, token |-> FALSE], Torn}
      BY <1>31 DEF SaveConfig
    <3>. HIDE DEF s, Configs, Servers
    <3>. QED  BY <2>1, <3>1, TornIsAConfig, WholeIsAConfig
  <2>. HIDE DEF s, x, Configs
  <2>. QED  BY <1>1, <1>2, <2>3, <2>4, <2>5 DEF States
<1>32. ASSUME NEW e \in Slots, Cycle(e) PROVE TypeOK' /\ control' \in Steps
  <2> DEFINE x == [engines[e] EXCEPT !.pc = "ensure"]
  <2>1. x \in States
    BY <1>1, <1>2, Updates
  <2>2. engines' = [engines EXCEPT ![e] = x] /\ UNCHANGED <<files, control, host>>
    BY <1>32 DEF Cycle
  <2>3. engines' \in [Slots -> States]
    BY <1>1, <2>1, <2>2, OneEngine
  <2>. HIDE DEF x
  <2>. QED  BY <1>1, <1>2, <2>2, <2>3 DEF States
<1>33. ASSUME NEW e \in Slots, SaveFails(e) PROVE TypeOK' /\ control' \in Steps
  <2>1. engines' \in [Slots -> States]
    <3>1. CASE AfterError(e)
      BY <1>3, <3>1
    <3>2. CASE engines' = [engines EXCEPT ![e].pc = "run"]
      BY <1>1, <1>2, <3>2, Updates, OneEngine
    <3>. QED  BY <1>33, <3>1, <3>2 DEF SaveFails
  <2>. QED  BY <1>1, <1>2, <1>33, <2>1 DEF SaveFails, States
<1>34. CASE StopTimesOut
  BY <1>1, <1>2, <1>34 DEF StopTimesOut, TimesOut
<1>35. CASE StepFails
  BY <1>1, <1>2, <1>35 DEF StepFails
<1>36. CASE CatchFails
  BY <1>1, <1>2, <1>36 DEF CatchFails
<1>37. CASE OperatorStops
  BY <1>1, <1>2, <1>37 DEF OperatorStops, StopService
<1>38. CASE OperatorStarts
  BY <1>1, <1>2, <1>38 DEF OperatorStarts, StartService
<1>39. CASE PowerLoss
  <2>1. engines' \in [Slots -> States]
    <3>1. engines' = [f \in Slots |-> Dead]
      BY <1>39 DEF PowerLoss
    <3>. HIDE DEF Dead
    <3>. QED  BY <3>1, DeadIsAState
  <2>2. control' \in Steps
    BY <1>1, <1>39 DEF PowerLoss, Ended
  <2>3. UNCHANGED files /\ UNCHANGED child /\ service' = "running"
    BY <1>39 DEF PowerLoss, StartService
  <2>. QED  BY <1>1, <1>2, <2>1, <2>2, <2>3 DEF States
<1>40. CASE UNCHANGED vars
  BY <1>1, <1>2, <1>40 DEF vars
<1>. QED
  BY <1>5, <1>6, <1>7, <1>8, <1>9, <1>10, <1>11, <1>12, <1>13, <1>14, <1>15, <1>16, <1>17,
     <1>18, <1>19, <1>20, <1>21, <1>22, <1>23, <1>24, <1>25, <1>26, <1>27, <1>28, <1>29,
     <1>30, <1>31, <1>32, <1>33, <1>34, <1>35, <1>36, <1>37, <1>38, <1>39, <1>40
  DEF Next, Host, Control, Engine

LEMMA LoadedStep == Inv /\ [Next]_vars => Loaded'
<1>. SUFFICES ASSUME Inv, [Next]_vars PROVE Loaded'
  OBVIOUS
<1>1. TypeOK /\ Loaded
  BY DEF Inv
<1>. USE DEF files, host, TypeOK, Dead, Loaded
<1>5. CASE KillEngine
  BY <1>1, <1>5 DEF KillEngine
<1>6. ASSUME NEW e \in Slots, Launch(e) PROVE Loaded'
  BY <1>1, <1>6 DEF Launch
<1>7. CASE Record
  BY <1>1, <1>7 DEF Record
<1>8. CASE Unwind
  BY <1>1, <1>8 DEF Unwind
<1>9. CASE Delay
  BY <1>1, <1>9 DEF Delay
<1>10. CASE Refuse
  BY <1>1, <1>10 DEF Refuse
<1>11. CASE Backup
  BY <1>1, <1>11 DEF Backup
<1>12. CASE AskStop
  BY <1>1, <1>12 DEF AskStop, StopService
<1>13. CASE Stopped
  BY <1>1, <1>13 DEF Stopped
<1>14. CASE StopUndone
  BY <1>1, <1>14 DEF StopUndone, TimesOut
<1>15. CASE MoveIdentity
  BY <1>1, <1>15 DEF MoveIdentity
<1>16. CASE WriteConfig
  BY <1>1, <1>16 DEF WriteConfig, Torn
<1>17. CASE Start
  BY <1>1, <1>17 DEF Start, StartService
<1>18. CASE Succeed
  BY <1>1, <1>18 DEF Succeed
<1>19. CASE Deadline
  BY <1>1, <1>19 DEF Deadline
<1>20. CASE RestoreConfig
  BY <1>1, <1>20 DEF RestoreConfig, Torn
<1>21. CASE TestIdentity
  BY <1>1, <1>21 DEF TestIdentity
<1>22. CASE RestoreIdentity
  BY <1>1, <1>22 DEF RestoreIdentity
<1>23. CASE RestartService
  BY <1>1, <1>23 DEF RestartService, StartService
<1>24. ASSUME NEW e \in Slots, Load(e) PROVE Loaded'
  BY <1>1, <1>24 DEF Load, Configs
<1>25. ASSUME NEW e \in Slots, UseIdentity(e) PROVE Loaded'
  BY <1>1, <1>25 DEF UseIdentity
<1>26. ASSUME NEW e \in Slots, EnrollFails(e) PROVE Loaded'
  BY <1>1, <1>26 DEF EnrollFails, AfterError
<1>27. ASSUME NEW e \in Slots, Enroll(e) PROVE Loaded'
  BY <1>1, <1>27 DEF Enroll, Unread
<1>28. ASSUME NEW e \in Slots, TruncateIdentity(e) PROVE Loaded'
  BY <1>1, <1>28 DEF TruncateIdentity
<1>29. ASSUME NEW e \in Slots, SaveIdentity(e) PROVE Loaded'
  BY <1>1, <1>29 DEF SaveIdentity
<1>30. ASSUME NEW e \in Slots, TruncateConfig(e) PROVE Loaded'
  BY <1>1, <1>30 DEF TruncateConfig, Torn
<1>31. ASSUME NEW e \in Slots, SaveConfig(e) PROVE Loaded'
  BY <1>1, <1>31 DEF SaveConfig, Torn
<1>32. ASSUME NEW e \in Slots, Cycle(e) PROVE Loaded'
  BY <1>1, <1>32 DEF Cycle
<1>33. ASSUME NEW e \in Slots, SaveFails(e) PROVE Loaded'
  BY <1>1, <1>33 DEF SaveFails, AfterError
<1>34. CASE StopTimesOut
  BY <1>1, <1>34 DEF StopTimesOut, TimesOut
<1>35. CASE StepFails
  BY <1>1, <1>35 DEF StepFails
<1>36. CASE CatchFails
  BY <1>1, <1>36 DEF CatchFails
<1>37. CASE OperatorStops
  BY <1>1, <1>37 DEF OperatorStops, StopService
<1>38. CASE OperatorStarts
  BY <1>1, <1>38 DEF OperatorStarts, StartService
<1>39. CASE PowerLoss
  BY <1>1, <1>39 DEF PowerLoss, StartService, Ended
<1>40. CASE UNCHANGED vars
  BY <1>1, <1>40 DEF vars
<1>. QED
  BY <1>5, <1>6, <1>7, <1>8, <1>9, <1>10, <1>11, <1>12, <1>13, <1>14, <1>15, <1>16, <1>17,
     <1>18, <1>19, <1>20, <1>21, <1>22, <1>23, <1>24, <1>25, <1>26, <1>27, <1>28, <1>29,
     <1>30, <1>31, <1>32, <1>33, <1>34, <1>35, <1>36, <1>37, <1>38, <1>39, <1>40
  DEF Next, Host, Control, Engine

LEMMA TokenStep == Inv /\ [Next]_vars /\ ~leftover => TokensAreNew'
<1>. SUFFICES ASSUME Inv, [Next]_vars, ~leftover PROVE TokensAreNew'
  OBVIOUS
<1>1. TypeOK /\ TokensAreNew /\ Kept
  BY DEF Inv
<1>. USE DEF files, host, TypeOK, Dead, Enrolling, TokensAreNew
<1>5. CASE KillEngine
  BY <1>1, <1>5 DEF KillEngine
<1>6. ASSUME NEW e \in Slots, Launch(e) PROVE TokensAreNew'
  BY <1>1, <1>6 DEF Launch
<1>7. CASE Record
  BY <1>1, <1>7 DEF Record
<1>8. CASE Unwind
  BY <1>1, <1>8 DEF Unwind
<1>9. CASE Delay
  BY <1>1, <1>9 DEF Delay
<1>10. CASE Refuse
  BY <1>1, <1>10 DEF Refuse
<1>11. CASE Backup
  BY <1>1, <1>11 DEF Backup, Kept, Tokenless
<1>12. CASE AskStop
  BY <1>1, <1>12 DEF AskStop, StopService
<1>13. CASE Stopped
  BY <1>1, <1>13 DEF Stopped
<1>14. CASE StopUndone
  BY <1>1, <1>14 DEF StopUndone, TimesOut
<1>15. CASE MoveIdentity
  BY <1>1, <1>15 DEF MoveIdentity
<1>16. CASE WriteConfig
  BY <1>1, <1>16 DEF WriteConfig, Torn
<1>17. CASE Start
  BY <1>1, <1>17 DEF Start, StartService
<1>18. CASE Succeed
  BY <1>1, <1>18 DEF Succeed
<1>19. CASE Deadline
  BY <1>1, <1>19 DEF Deadline
<1>20. CASE RestoreConfig
  BY <1>1, <1>20 DEF RestoreConfig, Torn
<1>21. CASE TestIdentity
  BY <1>1, <1>21 DEF TestIdentity
<1>22. CASE RestoreIdentity
  BY <1>1, <1>22 DEF RestoreIdentity
<1>23. CASE RestartService
  BY <1>1, <1>23 DEF RestartService, StartService
<1>24. ASSUME NEW e \in Slots, Load(e) PROVE TokensAreNew'
  BY <1>1, <1>24 DEF Load
<1>25. ASSUME NEW e \in Slots, UseIdentity(e) PROVE TokensAreNew'
  BY <1>1, <1>25 DEF UseIdentity
<1>26. ASSUME NEW e \in Slots, EnrollFails(e) PROVE TokensAreNew'
  BY <1>1, <1>26 DEF EnrollFails, AfterError
<1>27. ASSUME NEW e \in Slots, Enroll(e) PROVE TokensAreNew'
  BY <1>1, <1>27 DEF Enroll, Unread
<1>28. ASSUME NEW e \in Slots, TruncateIdentity(e) PROVE TokensAreNew'
  BY <1>1, <1>28 DEF TruncateIdentity
<1>29. ASSUME NEW e \in Slots, SaveIdentity(e) PROVE TokensAreNew'
  BY <1>1, <1>29 DEF SaveIdentity
<1>30. ASSUME NEW e \in Slots, TruncateConfig(e) PROVE TokensAreNew'
  BY <1>1, <1>30 DEF TruncateConfig, Torn
<1>31. ASSUME NEW e \in Slots, SaveConfig(e) PROVE TokensAreNew'
  BY <1>1, <1>31 DEF SaveConfig, Torn
<1>32. ASSUME NEW e \in Slots, Cycle(e) PROVE TokensAreNew'
  BY <1>1, <1>32 DEF Cycle
<1>33. ASSUME NEW e \in Slots, SaveFails(e) PROVE TokensAreNew'
  BY <1>1, <1>33 DEF SaveFails, AfterError
<1>34. CASE StopTimesOut
  BY <1>1, <1>34 DEF StopTimesOut, TimesOut
<1>35. CASE StepFails
  BY <1>1, <1>35 DEF StepFails
<1>36. CASE CatchFails
  BY <1>1, <1>36 DEF CatchFails
<1>37. CASE OperatorStops
  BY <1>1, <1>37 DEF OperatorStops, StopService
<1>38. CASE OperatorStarts
  BY <1>1, <1>38 DEF OperatorStarts, StartService
<1>39. CASE PowerLoss
  BY <1>1, <1>39 DEF PowerLoss, StartService, Ended
<1>40. CASE UNCHANGED vars
  BY <1>1, <1>40 DEF vars
<1>. QED
  BY <1>5, <1>6, <1>7, <1>8, <1>9, <1>10, <1>11, <1>12, <1>13, <1>14, <1>15, <1>16, <1>17,
     <1>18, <1>19, <1>20, <1>21, <1>22, <1>23, <1>24, <1>25, <1>26, <1>27, <1>28, <1>29,
     <1>30, <1>31, <1>32, <1>33, <1>34, <1>35, <1>36, <1>37, <1>38, <1>39, <1>40
  DEF Next, Host, Control, Engine

LEMMA KeptStep == Inv /\ [Next]_vars /\ ~leftover => Kept'
<1>. SUFFICES ASSUME Inv, [Next]_vars, ~leftover PROVE Kept'
  OBVIOUS
<1>1. TypeOK /\ TokensAreNew /\ Kept
  BY DEF Inv
<1>. USE DEF files, host, TypeOK, Dead, Enrolling, TokensAreNew, Kept, Tokenless
<1>5. CASE KillEngine
  BY <1>1, <1>5 DEF KillEngine
<1>6. ASSUME NEW e \in Slots, Launch(e) PROVE Kept'
  BY <1>1, <1>6 DEF Launch
<1>7. CASE Record
  BY <1>1, <1>7 DEF Record
<1>8. CASE Unwind
  BY <1>1, <1>8 DEF Unwind
<1>9. CASE Delay
  BY <1>1, <1>9 DEF Delay
<1>10. CASE Refuse
  BY <1>1, <1>10 DEF Refuse
<1>11. CASE Backup
  BY <1>1, <1>11 DEF Backup
<1>12. CASE AskStop
  BY <1>1, <1>12 DEF AskStop, StopService
<1>13. CASE Stopped
  BY <1>1, <1>13 DEF Stopped
<1>14. CASE StopUndone
  BY <1>1, <1>14 DEF StopUndone, TimesOut
<1>15. CASE MoveIdentity
  BY <1>1, <1>15 DEF MoveIdentity
<1>16. CASE WriteConfig
  BY <1>1, <1>16 DEF WriteConfig, Torn
<1>17. CASE Start
  BY <1>1, <1>17 DEF Start, StartService
<1>18. CASE Succeed
  BY <1>1, <1>18 DEF Succeed
<1>19. CASE Deadline
  BY <1>1, <1>19 DEF Deadline
<1>20. CASE RestoreConfig
  BY <1>1, <1>20 DEF RestoreConfig, Torn
<1>21. CASE TestIdentity
  BY <1>1, <1>21 DEF TestIdentity
<1>22. CASE RestoreIdentity
  BY <1>1, <1>22 DEF RestoreIdentity
<1>23. CASE RestartService
  BY <1>1, <1>23 DEF RestartService, StartService
<1>24. ASSUME NEW e \in Slots, Load(e) PROVE Kept'
  BY <1>1, <1>24 DEF Load
<1>25. ASSUME NEW e \in Slots, UseIdentity(e) PROVE Kept'
  BY <1>1, <1>25 DEF UseIdentity
<1>26. ASSUME NEW e \in Slots, EnrollFails(e) PROVE Kept'
  BY <1>1, <1>26 DEF EnrollFails, AfterError
<1>27. ASSUME NEW e \in Slots, Enroll(e) PROVE Kept'
  BY <1>1, <1>27 DEF Enroll, Unread
<1>28. ASSUME NEW e \in Slots, TruncateIdentity(e) PROVE Kept'
  BY <1>1, <1>28 DEF TruncateIdentity
<1>29. ASSUME NEW e \in Slots, SaveIdentity(e) PROVE Kept'
  BY <1>1, <1>29 DEF SaveIdentity
<1>30. ASSUME NEW e \in Slots, TruncateConfig(e) PROVE Kept'
  BY <1>1, <1>30 DEF TruncateConfig, Torn
<1>31. ASSUME NEW e \in Slots, SaveConfig(e) PROVE Kept'
  BY <1>1, <1>31 DEF SaveConfig, Torn
<1>32. ASSUME NEW e \in Slots, Cycle(e) PROVE Kept'
  BY <1>1, <1>32 DEF Cycle
<1>33. ASSUME NEW e \in Slots, SaveFails(e) PROVE Kept'
  BY <1>1, <1>33 DEF SaveFails, AfterError
<1>34. CASE StopTimesOut
  BY <1>1, <1>34 DEF StopTimesOut, TimesOut
<1>35. CASE StepFails
  BY <1>1, <1>35 DEF StepFails
<1>36. CASE CatchFails
  BY <1>1, <1>36 DEF CatchFails
<1>37. CASE OperatorStops
  BY <1>1, <1>37 DEF OperatorStops, StopService
<1>38. CASE OperatorStarts
  BY <1>1, <1>38 DEF OperatorStarts, StartService
<1>39. CASE PowerLoss
  BY <1>1, <1>39 DEF PowerLoss, StartService, Ended
<1>40. CASE UNCHANGED vars
  BY <1>1, <1>40 DEF vars
<1>. QED
  BY <1>5, <1>6, <1>7, <1>8, <1>9, <1>10, <1>11, <1>12, <1>13, <1>14, <1>15, <1>16, <1>17,
     <1>18, <1>19, <1>20, <1>21, <1>22, <1>23, <1>24, <1>25, <1>26, <1>27, <1>28, <1>29,
     <1>30, <1>31, <1>32, <1>33, <1>34, <1>35, <1>36, <1>37, <1>38, <1>39, <1>40
  DEF Next, Host, Control, Engine

LEMMA ChangedStep == Inv /\ [Next]_vars /\ ~leftover => Changed'
<1>. SUFFICES ASSUME Inv, [Next]_vars, ~leftover PROVE Changed'
  OBVIOUS
<1>1. TypeOK /\ TokensAreNew /\ Changed
  BY DEF Inv
<1>. USE DEF files, host, TypeOK, Dead, Enrolling, TokensAreNew, Changed
<1>5. CASE KillEngine
  BY <1>1, <1>5 DEF KillEngine
<1>6. ASSUME NEW e \in Slots, Launch(e) PROVE Changed'
  BY <1>1, <1>6 DEF Launch
<1>7. CASE Record
  BY <1>1, <1>7 DEF Record
<1>8. CASE Unwind
  BY <1>1, <1>8 DEF Unwind
<1>9. CASE Delay
  BY <1>1, <1>9 DEF Delay
<1>10. CASE Refuse
  BY <1>1, <1>10 DEF Refuse
<1>11. CASE Backup
  BY <1>1, <1>11 DEF Backup
<1>12. CASE AskStop
  BY <1>1, <1>12 DEF AskStop, StopService
<1>13. CASE Stopped
  BY <1>1, <1>13 DEF Stopped
<1>14. CASE StopUndone
  BY <1>1, <1>14 DEF StopUndone, TimesOut
<1>15. CASE MoveIdentity
  BY <1>1, <1>15 DEF MoveIdentity
<1>16. CASE WriteConfig
  BY <1>1, <1>16 DEF WriteConfig, Torn
<1>17. CASE Start
  BY <1>1, <1>17 DEF Start, StartService
<1>18. CASE Succeed
  BY <1>1, <1>18 DEF Succeed
<1>19. CASE Deadline
  BY <1>1, <1>19 DEF Deadline
<1>20. CASE RestoreConfig
  BY <1>1, <1>20 DEF RestoreConfig, Torn
<1>21. CASE TestIdentity
  BY <1>1, <1>21 DEF TestIdentity
<1>22. CASE RestoreIdentity
  BY <1>1, <1>22 DEF RestoreIdentity
<1>23. CASE RestartService
  BY <1>1, <1>23 DEF RestartService, StartService
<1>24. ASSUME NEW e \in Slots, Load(e) PROVE Changed'
  BY <1>1, <1>24 DEF Load
<1>25. ASSUME NEW e \in Slots, UseIdentity(e) PROVE Changed'
  BY <1>1, <1>25 DEF UseIdentity
<1>26. ASSUME NEW e \in Slots, EnrollFails(e) PROVE Changed'
  BY <1>1, <1>26 DEF EnrollFails, AfterError
<1>27. ASSUME NEW e \in Slots, Enroll(e) PROVE Changed'
  BY <1>1, <1>27 DEF Enroll, Unread
<1>28. ASSUME NEW e \in Slots, TruncateIdentity(e) PROVE Changed'
  BY <1>1, <1>28 DEF TruncateIdentity
<1>29. ASSUME NEW e \in Slots, SaveIdentity(e) PROVE Changed'
  BY <1>1, <1>29 DEF SaveIdentity
<1>30. ASSUME NEW e \in Slots, TruncateConfig(e) PROVE Changed'
  BY <1>1, <1>30 DEF TruncateConfig, Torn
<1>31. ASSUME NEW e \in Slots, SaveConfig(e) PROVE Changed'
  BY <1>1, <1>31 DEF SaveConfig, Torn
<1>32. ASSUME NEW e \in Slots, Cycle(e) PROVE Changed'
  BY <1>1, <1>32 DEF Cycle
<1>33. ASSUME NEW e \in Slots, SaveFails(e) PROVE Changed'
  BY <1>1, <1>33 DEF SaveFails, AfterError
<1>34. CASE StopTimesOut
  BY <1>1, <1>34 DEF StopTimesOut, TimesOut
<1>35. CASE StepFails
  BY <1>1, <1>35 DEF StepFails
<1>36. CASE CatchFails
  BY <1>1, <1>36 DEF CatchFails
<1>37. CASE OperatorStops
  BY <1>1, <1>37 DEF OperatorStops, StopService
<1>38. CASE OperatorStarts
  BY <1>1, <1>38 DEF OperatorStarts, StartService
<1>39. CASE PowerLoss
  BY <1>1, <1>39 DEF PowerLoss, StartService, Ended
<1>40. CASE UNCHANGED vars
  BY <1>1, <1>40 DEF vars
<1>. QED
  BY <1>5, <1>6, <1>7, <1>8, <1>9, <1>10, <1>11, <1>12, <1>13, <1>14, <1>15, <1>16, <1>17,
     <1>18, <1>19, <1>20, <1>21, <1>22, <1>23, <1>24, <1>25, <1>26, <1>27, <1>28, <1>29,
     <1>30, <1>31, <1>32, <1>33, <1>34, <1>35, <1>36, <1>37, <1>38, <1>39, <1>40
  DEF Next, Host, Control, Engine

LEMMA RestoredStep == Inv /\ [Next]_vars /\ ~leftover => Restored'
<1>. SUFFICES ASSUME Inv, [Next]_vars, ~leftover PROVE Restored'
  OBVIOUS
<1>1. TypeOK /\ TokensAreNew /\ Kept /\ Restored
  BY DEF Inv
<1>. USE DEF files, host, TypeOK, Dead, Enrolling, TokensAreNew, Restored
<1>5. CASE KillEngine
  BY <1>1, <1>5 DEF KillEngine
<1>6. ASSUME NEW e \in Slots, Launch(e) PROVE Restored'
  BY <1>1, <1>6 DEF Launch
<1>7. CASE Record
  BY <1>1, <1>7 DEF Record
<1>8. CASE Unwind
  BY <1>1, <1>8 DEF Unwind
<1>9. CASE Delay
  BY <1>1, <1>9 DEF Delay
<1>10. CASE Refuse
  BY <1>1, <1>10 DEF Refuse
<1>11. CASE Backup
  BY <1>1, <1>11 DEF Backup
<1>12. CASE AskStop
  BY <1>1, <1>12 DEF AskStop, StopService
<1>13. CASE Stopped
  BY <1>1, <1>13 DEF Stopped
<1>14. CASE StopUndone
  BY <1>1, <1>14 DEF StopUndone, TimesOut
<1>15. CASE MoveIdentity
  BY <1>1, <1>15 DEF MoveIdentity, Kept, Tokenless
<1>16. CASE WriteConfig
  BY <1>1, <1>16 DEF WriteConfig, Torn
<1>17. CASE Start
  BY <1>1, <1>17 DEF Start, StartService
<1>18. CASE Succeed
  BY <1>1, <1>18 DEF Succeed
<1>19. CASE Deadline
  BY <1>1, <1>19 DEF Deadline
<1>20. CASE RestoreConfig
  BY <1>1, <1>20 DEF RestoreConfig, Torn
<1>21. CASE TestIdentity
  BY <1>1, <1>21 DEF TestIdentity, Kept
<1>22. CASE RestoreIdentity
  BY <1>1, <1>22 DEF RestoreIdentity, Kept
<1>23. CASE RestartService
  BY <1>1, <1>23 DEF RestartService, StartService
<1>24. ASSUME NEW e \in Slots, Load(e) PROVE Restored'
  BY <1>1, <1>24 DEF Load
<1>25. ASSUME NEW e \in Slots, UseIdentity(e) PROVE Restored'
  BY <1>1, <1>25 DEF UseIdentity
<1>26. ASSUME NEW e \in Slots, EnrollFails(e) PROVE Restored'
  BY <1>1, <1>26 DEF EnrollFails, AfterError
<1>27. ASSUME NEW e \in Slots, Enroll(e) PROVE Restored'
  BY <1>1, <1>27 DEF Enroll, Unread
<1>28. ASSUME NEW e \in Slots, TruncateIdentity(e) PROVE Restored'
  BY <1>1, <1>28 DEF TruncateIdentity
<1>29. ASSUME NEW e \in Slots, SaveIdentity(e) PROVE Restored'
  BY <1>1, <1>29 DEF SaveIdentity
<1>30. ASSUME NEW e \in Slots, TruncateConfig(e) PROVE Restored'
  BY <1>1, <1>30 DEF TruncateConfig, Torn
<1>31. ASSUME NEW e \in Slots, SaveConfig(e) PROVE Restored'
  BY <1>1, <1>31 DEF SaveConfig, Torn
<1>32. ASSUME NEW e \in Slots, Cycle(e) PROVE Restored'
  BY <1>1, <1>32 DEF Cycle
<1>33. ASSUME NEW e \in Slots, SaveFails(e) PROVE Restored'
  BY <1>1, <1>33 DEF SaveFails, AfterError
<1>34. CASE StopTimesOut
  BY <1>1, <1>34 DEF StopTimesOut, TimesOut
<1>35. CASE StepFails
  BY <1>1, <1>35 DEF StepFails
<1>36. CASE CatchFails
  BY <1>1, <1>36 DEF CatchFails
<1>37. CASE OperatorStops
  BY <1>1, <1>37 DEF OperatorStops, StopService
<1>38. CASE OperatorStarts
  BY <1>1, <1>38 DEF OperatorStarts, StartService
<1>39. CASE PowerLoss
  BY <1>1, <1>39 DEF PowerLoss, StartService, Ended
<1>40. CASE UNCHANGED vars
  BY <1>1, <1>40 DEF vars
<1>. QED
  BY <1>5, <1>6, <1>7, <1>8, <1>9, <1>10, <1>11, <1>12, <1>13, <1>14, <1>15, <1>16, <1>17,
     <1>18, <1>19, <1>20, <1>21, <1>22, <1>23, <1>24, <1>25, <1>26, <1>27, <1>28, <1>29,
     <1>30, <1>31, <1>32, <1>33, <1>34, <1>35, <1>36, <1>37, <1>38, <1>39, <1>40
  DEF Next, Host, Control, Engine

LEMMA Invariance == Spec => []Inv
<1>1. Inv /\ [Next]_vars => Inv'
  BY Frozen, TypeStep, LoadedStep, TokenStep, KeptStep, ChangedStep, RestoredStep DEF Inv
<1>. QED  BY InvInit, <1>1, PTL DEF Spec

\* The type invariant: a supervisor runs only in a host process (Service/
\* Program.cs).
THEOREM TypeCorrect == Spec => []TypeOK
BY Invariance, PTL DEF Inv

\* Until a rollback has moved it back, the old identity is in place or saved, at
\* whatever step the helper fails, is disturbed or is cut off (ReconfigureAsync),
\* when the old configuration holds no token.
THEOREM OldIdentityIsKept == Spec => []OldIdentityKept
<1>1. Inv => OldIdentityKept
  BY DEF Inv, Kept, Steps, OldIdentityKept
<1>. QED  BY Invariance, <1>1, PTL

\* What the helper reports as OK is a new enrollment or one that has begun: neither
\* the old identity nor the old configuration comes back, whatever engines an
\* operator or a missed stop has left alive, unless they have a token of the old
\* server.
THEOREM SuccessIsReal == Spec => []Reconnected
<1>1. Inv => Reconnected
  BY DEF Inv, TypeOK, Identities, Servers, Changed, Reconnected
<1>. QED  BY Invariance, <1>1, PTL

\* A complete rollback ends with the old identity beside the old configuration,
\* unless an enrollment has overtaken it and written or torn identity.json (the
\* catch block of ReconfigureAsync), however many engines the stop has not reached.
THEOREM RollbackIsWhole == Spec => []RolledBack
<1>1. Inv => RolledBack
  BY DEF Inv, TypeOK, Restored, RolledBack, Servers, Identities
<1>. QED  BY Invariance, <1>1, PTL
=============================================================================
