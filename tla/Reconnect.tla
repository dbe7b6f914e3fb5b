----------------------------- MODULE Reconnect -----------------------------
(***************************************************************************)
(* Change connection on Windows: the elevated helper's ReconfigureAsync    *)
(* (windows-agent/Eits.Agent.Control/Program.cs) against the service host  *)
(* that supervises the engine (windows-agent/Eits.Agent.Service/           *)
(* Program.cs), the engines themselves (ensureIdentity of                  *)
(* native-agent/internal/agent/agent.go), and an operator who starts and   *)
(* stops the service from the Manager's tray menu, which is not disabled   *)
(* while the helper runs.                                                  *)
(*                                                                         *)
(* The device starts enrolled with the old server, possibly with an        *)
(* enrollment token left in config.json by a config.Save that failed.      *)
(* Every write truncates its file first, so that a kill or a power loss    *)
(* may leave it torn; what was written stays written.                      *)
(***************************************************************************)
EXTENDS Naturals

CONSTANTS MaxEngines,  \* bound on the engine processes alive at a time
          MaxFaults    \* bound on the operator's requests and on failures

ASSUME BoundsAssumption == MaxEngines \in Nat \ {0} /\ MaxFaults \in Nat

VARIABLES leftover,   \* whether the old config.json holds a token; never changes
          config,     \* config.json: the server and whether there is a token
          identity,   \* identity.json: "none", "torn" or the server that issued it
          saved,      \* the identity that was moved out of the way
          backup,     \* config.json.previous
          control,    \* the next step of ReconfigureAsync
          service,    \* the status of the service
          sup,        \* the next step of SuperviseAsync
          cancelled,  \* its cancellation token
          child,      \* the engine it has started last
          engines,    \* the engine processes
          faults      \* number of faults so far

files == <<config, identity, saved, backup>>
host == <<service, sup, cancelled, child>>
past == <<leftover, faults>>
vars == <<files, control, host, engines, past>>

Servers == {"old", "new"}
Identities == Servers \union {"none", "torn"}
Configs == [server : Servers \union {"torn"}, token : BOOLEAN]
Torn == [server |-> "torn", token |-> FALSE]
Slots == 1..MaxEngines

Dead == [pc |-> "dead", server |-> "torn", token |-> FALSE, id |-> "none"]
Running(t) == [pc |-> "run", server |-> "old", token |-> t, id |-> "old"]

\* The engine that enrolled has dropped the token from its memory, one that was
\* started since has read it again.
Init == /\ leftover \in BOOLEAN
        /\ config = [server |-> "old", token |-> leftover]
        /\ identity = "old" /\ saved = "none"
        /\ backup = config
        /\ control = "health"
        /\ service = "running" /\ sup = "wait" /\ cancelled = FALSE /\ child = 1
        /\ \E t \in {FALSE, leftover} :
               engines = [e \in Slots |-> IF e = 1 THEN Running(t) ELSE Dead]
        /\ faults = 0

Fault == faults < MaxFaults /\ faults' = faults + 1 /\ UNCHANGED leftover

Alive(e) == engines[e].pc # "dead"

-----------------------------------------------------------------------------
(* Plausible slips: variants of definitions below that the properties must  *)
(* tell from the code's.                                                    *)

\* The old identity stays in place.
MoveIdentityForgotten ==
    /\ control = "moveId"
    /\ control' = "writeCfg"
    /\ UNCHANGED <<files, host, engines, past>>

\* The old identity is deleted.
MoveIdentityAway ==
    /\ control = "moveId"
    /\ identity' = "none"
    /\ control' = "writeCfg"
    /\ UNCHANGED <<config, saved, backup, host, engines, past>>

\* The rollback leaves the new configuration.
RestoreConfigForgotten ==
    /\ control = "rollCfg"
    /\ control' = "rollId"
    /\ UNCHANGED <<files, host, engines, past>>

\* The helper waits for the identity without a deadline.
DeadlineForgotten == FALSE /\ UNCHANGED vars

\* The supervisor ends with its engine.
UnwindAndEnd ==
    /\ sup = "wait" /\ (cancelled \/ ~Alive(child))
    /\ sup' = "off"
    /\ UNCHANGED <<files, control, service, cancelled, child, engines, past>>

\* The old identity is moved back over whatever is there.
RestoreIdentityOverwrites ==
    /\ control = "rollMove"
    /\ identity' = saved /\ saved' = "none" /\ control' = "rollStart"
    /\ UNCHANGED <<config, backup, host, engines, past>>

-----------------------------------------------------------------------------
(* The service: what Start and Stop of a ServiceController set off.         *)

\* OnStart: a fresh cancellation token and a supervisor.
StartService == /\ service' = "running" /\ sup' = "check" /\ cancelled' = FALSE
                /\ UNCHANGED child

\* OnStop begins: the token is cancelled before the engine is killed.
StopService == /\ service' = "stopping" /\ cancelled' = TRUE
               /\ UNCHANGED <<sup, child>>

\* StopEngine kills the engine the supervisor has recorded, if it has not
\* dropped it yet, and the host process ends with its supervisor.
KillEngine ==
    /\ service = "stopping"
    /\ service' = "stopped" /\ sup' = "off"
    /\ engines' = IF sup = "wait" THEN [engines EXCEPT ![child] = Dead] ELSE engines
    /\ UNCHANGED <<files, control, cancelled, child, past>>

Launch(e) ==
    /\ sup = "check" /\ ~cancelled
    /\ ~Alive(e) /\ \A f \in Slots : f < e => Alive(f)
    /\ engines' = [engines EXCEPT ![e] = [Dead EXCEPT !.pc = "load"]]
    /\ child' = e /\ sup' = "record"
    /\ UNCHANGED <<files, control, service, cancelled, past>>

Record ==
    /\ sup = "record"
    /\ sup' = "wait"
    /\ UNCHANGED <<files, control, service, cancelled, child, engines, past>>

\* WaitForExitAsync returns or is cancelled, and the process is let go.
Unwind ==
    /\ sup = "wait" /\ (cancelled \/ ~Alive(child))
    /\ sup' = IF cancelled THEN "off" ELSE "delay"
    /\ UNCHANGED <<files, control, service, cancelled, child, engines, past>>

\* The delay of 30 seconds before the next attempt, or the end of the loop.
Delay ==
    /\ sup = "delay" \/ (sup = "check" /\ cancelled)
    /\ sup' = IF cancelled THEN "off" ELSE "check"
    /\ UNCHANGED <<files, control, service, cancelled, child, engines, past>>

Host == KillEngine \/ (\E e \in Slots : Launch(e)) \/ Record \/ Unwind \/ Delay

-----------------------------------------------------------------------------
(* An engine: config.Load, ensureIdentity and the cycles of agent.Run.      *)

\* config.Load ends an engine whose configuration does not parse.
Load(e) ==
    /\ engines[e].pc = "load"
    /\ engines' = [engines EXCEPT ![e] =
           IF config.server = "torn" THEN Dead
           ELSE [@ EXCEPT !.pc = "ensure", !.server = config.server,
                          !.token = config.token]]
    /\ UNCHANGED <<files, control, host, past>>

\* An error ends an engine that has no identity yet.
AfterError(e) == engines' = [engines EXCEPT ![e] =
                                 IF @.id = "none" THEN Dead ELSE [@ EXCEPT !.pc = "run"]]

UseIdentity(e) ==
    /\ engines[e].pc = "ensure" /\ identity \in Servers
    /\ engines' = [engines EXCEPT ![e].pc = "run", ![e].id = identity]
    /\ UNCHANGED <<files, control, host, past>>

\* loadIdentity returns an error: the file is missing or torn, or the read fails.
Unread == IF identity \in Servers THEN Fault ELSE UNCHANGED past

\* No token, or the server refuses it or cannot be reached.
EnrollFails(e) ==
    /\ engines[e].pc = "ensure" /\ Unread
    /\ AfterError(e)
    /\ UNCHANGED <<files, control, host>>

Enroll(e) ==
    /\ engines[e].pc = "ensure" /\ Unread /\ engines[e].token
    /\ engines' = [engines EXCEPT ![e].pc = "saveId"]
    /\ UNCHANGED <<files, control, host>>

\* os.WriteFile truncates the file, then writes it.
TruncateIdentity(e) ==
    /\ engines[e].pc = "saveId"
    /\ identity' = "torn"
    /\ engines' = [engines EXCEPT ![e].pc = "writeId"]
    /\ UNCHANGED <<config, saved, backup, control, host, past>>

\* What another process has written meanwhile may show behind the end.
SaveIdentity(e) ==
    /\ engines[e].pc = "writeId"
    /\ \/ identity' = engines[e].server
       \/ identity # "torn" /\ identity' = "torn"
    /\ engines' = [engines EXCEPT ![e].pc = "saveCfg", ![e].id = engines[e].server,
                                  ![e].token = FALSE]
    /\ UNCHANGED <<config, saved, backup, control, host, past>>

TruncateConfig(e) ==
    /\ engines[e].pc = "saveCfg"
    /\ config' = Torn
    /\ engines' = [engines EXCEPT ![e].pc = "writeCfg"]
    /\ UNCHANGED <<identity, saved, backup, control, host, past>>

SaveConfig(e) ==
    /\ engines[e].pc = "writeCfg"
    /\ \/ config' = [server |-> engines[e].server, token |-> FALSE]
       \/ config # Torn /\ config' = Torn
    /\ engines' = [engines EXCEPT ![e].pc = "run"]
    /\ UNCHANGED <<identity, saved, backup, control, host, past>>

\* A write fails, at once or half way: without an identity that is an error,
\* with the token still in config.json only a warning.
SaveFails(e) ==
    /\ Fault
    /\ \/ engines[e].pc \in {"saveId", "writeId"} /\ AfterError(e)
       \/ /\ engines[e].pc \in {"saveCfg", "writeCfg"}
          /\ engines' = [engines EXCEPT ![e].pc = "run"]
    /\ UNCHANGED <<files, control, host>>

Cycle(e) ==
    /\ engines[e].pc = "run"
    /\ engines' = [engines EXCEPT ![e].pc = "ensure"]
    /\ UNCHANGED <<files, control, host, past>>

Engine(e) == \/ Load(e) \/ UseIdentity(e) \/ EnrollFails(e) \/ Enroll(e) \/ Cycle(e)
             \/ TruncateIdentity(e) \/ SaveIdentity(e) \/ TruncateConfig(e) \/ SaveConfig(e)

-----------------------------------------------------------------------------
(* ReconfigureAsync.                                                        *)

\* The request is not valid, the server's health check fails or the backup
\* cannot be made: no change.
Refuse ==
    /\ control = "health"
    /\ control' = "refused"
    /\ UNCHANGED <<files, host, engines, past>>

Backup ==
    /\ control = "health"
    /\ backup' = config
    /\ control' = "stop"
    /\ UNCHANGED <<config, identity, saved, host, engines, past>>

\* SetService(false), here and in the rollback.
AskStop ==
    /\ control \in {"stop", "rollStop"}
    /\ control' = IF control = "stop" THEN "stopWait" ELSE "rollWait"
    /\ IF service = "running" THEN StopService ELSE UNCHANGED host
    /\ UNCHANGED <<files, engines, past>>

Stopped ==
    /\ control \in {"stopWait", "rollWait"} /\ service = "stopped"
    /\ control' = IF control = "stopWait" THEN "moveId" ELSE "rollCfg"
    /\ UNCHANGED <<files, host, engines, past>>

\* The 25 seconds of WaitForStatus run out.  Before the try block that ends
\* the helper; the rollback goes on with the service still there.
TimesOut == control' = IF control = "stopWait" THEN "refused" ELSE "rollCfg"

StopTimesOut ==
    /\ Fault
    /\ control \in {"stopWait", "rollWait"} /\ service = "stopping"
    /\ TimesOut
    /\ UNCHANGED <<files, host, engines>>

\* Someone has started the service again: the wait is in vain.
StopUndone ==
    /\ control \in {"stopWait", "rollWait"} /\ service = "running"
    /\ TimesOut
    /\ UNCHANGED <<files, host, engines, past>>

MoveIdentity ==
    /\ control = "moveId"
    /\ IF identity # "none" THEN saved' = identity /\ identity' = "none"
       ELSE UNCHANGED <<saved, identity>>
    /\ control' = "writeCfg"
    /\ UNCHANGED <<config, backup, host, engines, past>>

WriteConfig ==
    /\ \/ control = "writeCfg" /\ config' = Torn /\ control' = "fillCfg"
       \/ /\ control = "fillCfg"
          /\ config' = [server |-> "new", token |-> TRUE]
          /\ control' = "start"
    /\ UNCHANGED <<identity, saved, backup, host, engines, past>>

\* SetService(true): a service that is stopping cannot be started.
Start ==
    /\ control = "start"
    /\ IF service = "stopped" THEN StartService ELSE UNCHANGED host
    /\ control' = IF service = "stopping" THEN "rollStop" ELSE "poll"
    /\ UNCHANGED <<files, engines, past>>

\* An identity file within 35 seconds, whatever is in it, is the sign of a new
\* enrollment.
Succeed ==
    /\ control = "poll" /\ identity # "none"
    /\ control' = "ok"
    /\ UNCHANGED <<files, host, engines, past>>

Deadline ==
    /\ control = "poll"
    /\ control' = "rollStop"
    /\ UNCHANGED <<files, host, engines, past>>

\* A file operation of the try block or the start of the service throws.
StepFails ==
    /\ Fault
    /\ control \in {"moveId", "writeCfg", "fillCfg", "start"}
    /\ control' = "rollStop"
    /\ UNCHANGED <<files, host, engines>>

RestoreConfig ==
    /\ \/ control = "rollCfg" /\ config' = Torn /\ control' = "rollFill"
       \/ control = "rollFill" /\ config' = backup /\ control' = "rollId"
    /\ UNCHANGED <<identity, saved, backup, host, engines, past>>

\* Is the old identity to be moved back?
TestIdentity ==
    /\ control = "rollId"
    /\ control' = IF identity = "none" /\ saved # "none" THEN "rollMove" ELSE "rollStart"
    /\ UNCHANGED <<files, host, engines, past>>

\* The move throws when an engine has written the file since.
RestoreIdentity ==
    /\ control = "rollMove"
    /\ \/ /\ identity = "none"
          /\ identity' = saved /\ saved' = "none" /\ control' = "rollStart"
       \/ identity # "none" /\ control' = "broken" /\ UNCHANGED <<identity, saved>>
    /\ UNCHANGED <<config, backup, host, engines, past>>

\* A file operation of the catch block throws: the rest of it is skipped.
CatchFails ==
    /\ Fault
    /\ control \in {"rollCfg", "rollFill", "rollMove"}
    /\ control' = "broken"
    /\ UNCHANGED <<files, host, engines>>

RestartService ==
    /\ control = "rollStart"
    /\ IF service = "stopped" THEN StartService ELSE UNCHANGED host
    /\ control' = "failed"
    /\ UNCHANGED <<files, engines, past>>

Control == \/ Refuse \/ Backup \/ AskStop \/ Stopped \/ StopUndone
           \/ MoveIdentity \/ WriteConfig
           \/ Start \/ Succeed \/ Deadline \/ RestoreConfig \/ TestIdentity
           \/ RestoreIdentity \/ RestartService

-----------------------------------------------------------------------------
OperatorStops == /\ Fault /\ service = "running" /\ StopService
                 /\ UNCHANGED <<files, control, engines>>

OperatorStarts == /\ Fault /\ service = "stopped" /\ StartService
                  /\ UNCHANGED <<files, control, engines>>

Ended == {"ok", "refused", "failed", "broken", "lost"}

\* Every process ends, and the automatic service comes back without the helper.
PowerLoss ==
    /\ Fault
    /\ control' = IF control \in Ended THEN control ELSE "lost"
    /\ StartService
    /\ engines' = [e \in Slots |-> Dead]
    /\ UNCHANGED files

Next == \/ Host \/ Control \/ (\E e \in Slots : Engine(e) \/ SaveFails(e))
        \/ StopTimesOut \/ StepFails \/ CatchFails
        \/ OperatorStops \/ OperatorStarts \/ PowerLoss

Spec == Init /\ [][Next]_vars

\* The operating system runs the host, the helper and the engines; the waits
\* of the helper have deadlines.
FairSpec == /\ Spec
            /\ WF_vars(Host) /\ WF_vars(Control)
            /\ \A e \in Slots : WF_vars(Engine(e))

-----------------------------------------------------------------------------
\* A supervisor runs only in a host process, and the processes stay within
\* their bound.
TypeOK ==
    /\ leftover \in BOOLEAN
    /\ config \in Configs /\ backup \in Configs
    /\ identity \in Identities /\ saved \in Identities
    /\ child \in Slots
    /\ engines \in [Slots -> [pc : {"dead", "load", "ensure", "saveId", "writeId", "saveCfg",
                                    "writeCfg", "run"},
                              server : Servers \union {"torn"}, token : BOOLEAN,
                              id : Servers \union {"none"}]]
    /\ service = "stopped" => sup = "off"

\* docs/windows-agent.md:20 "backs up the configuration and identity": until
\* a rollback has moved it back, the old identity is in place or saved, at
\* whatever step the helper fails or is cut off and whatever the engines do,
\* unless the old configuration still held a token to enroll with.
OldIdentityKept ==
    ~leftover /\ "old" \notin {identity, saved} => control \in {"rollStart", "failed", "lost"}

\* What the helper reports as OK is a new enrollment, or one that has begun: the
\* old identity and the old configuration are gone and stay gone whatever engines
\* are still alive, unless they have a token of the old server.
Reconnected ==
    ~leftover /\ control = "ok" => identity \in {"new", "torn"} /\ config.server # "old"

\* What a complete rollback restores, whatever it met: config.json as it was
\* beside the old identity, or else a new enrollment has overtaken it, which may
\* have been cut off; never the old identity beside the new server's
\* configuration, and never no identity.
RolledBack ==
    ~leftover /\ control = "failed" =>
        identity \in {"new", "torn"} \/ (identity = "old" /\ config = backup)

\* An engine that reports to the server its identity comes from.
Reporting(s) == \E e \in Slots : engines[e] \in
    [pc : {"run"}, server : {s}, token : BOOLEAN, id : {s}]

\* The helper never waits for ever.
HelperEnds == <>(control \in Ended)

\* The device reports to the new server once the helper has reported success,
\* when nothing has disturbed it or the enrollment has left both files whole; and
\* to the old one after a rollback that no enrollment has overtaken.
ReportsAfterwards ==
    /\ <>[](~leftover /\ control = "ok" /\ faults = 0) => []<>Reporting("new")
    /\ <>[](control = "ok" /\ service = "running" /\ identity = "new" /\ config.server = "new")
          => []<>Reporting("new")
    /\ <>[](control = "failed" /\ faults = 0 /\ identity = "old" /\ ~leftover)
          => []<>Reporting("old")

\* While the service runs its supervisor has an engine, or starts one again
\* and again.
EngineSupervised ==
    <>[](service = "running") => []<>(sup # "off" /\ Alive(child))

\* docs/windows-agent.md:20 "rolls back on failure": after a rollback the
\* identity belongs to the server of the configuration, once no engine is in the
\* middle of an enrollment.
RollbackRestores ==
    control = "failed" /\ (\A e \in Slots : engines[e].pc \in {"dead", "load", "run"})
        => identity = config.server
=============================================================================
