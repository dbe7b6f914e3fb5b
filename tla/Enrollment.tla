----------------------------- MODULE Enrollment -----------------------------
(***************************************************************************)
(* How an agent gets the credential it reports with:                       *)
(* native-agent/internal/agent/agent.go (ensureIdentity and the files it   *)
(* reads and writes), internal/config/config.go (Load and Save) and the    *)
(* server's handler of POST /api/agent/enroll (server/app/main.py).        *)
(*                                                                         *)
(* Agents are the agent processes of one machine: the service, and the     *)
(* `eits-agent once` or `eits-agent diagnostics` an operator may run next  *)
(* to it.  They share config.json and identity.json.  os.WriteFile         *)
(* truncates the file and then writes it, so each save is two steps and a  *)
(* crash between them leaves a file that does not parse.  A request is     *)
(* named by its sequence number, which is also the name of the device row  *)
(* the server makes of it.                                                 *)
(***************************************************************************)
EXTENDS Naturals, FiniteSets

CONSTANTS Agents,      \* the agent processes that share the files
          MaxFaults    \* bound on crashes, failed requests and failed writes

ASSUME FaultsAssumption == MaxFaults \in Nat

NoId == 0

VARIABLES cfgFile,     \* config.json: with the token, without it, or torn
          idFile,      \* identity.json: NoId when missing, torn or incomplete
          proc,        \* the state of each agent process
          sent,        \* number of enrollment requests sent so far
          requests,    \* the requests in flight to the server
          devices,     \* the device rows of the server
          faults       \* number of faults so far

vars == <<cfgFile, idFile, proc, sent, requests, devices, faults>>

PCs == {"down", "ensure", "enroll", "await", "saveId", "writeId", "saveCfg",
        "writeCfg", "report", "idle"}

\* A process that is not running: it has no memory.
Down == [pc |-> "down", token |-> FALSE, id |-> NoId, req |-> 0]

Init == /\ cfgFile = "token"
        /\ idFile = NoId
        /\ proc = [p \in Agents |-> Down]
        /\ sent = 0
        /\ requests = {}
        /\ devices = {}
        /\ faults = 0

Goto(p, label) == proc' = [proc EXCEPT ![p].pc = label]

\* A plausible slip: the cycle goes on after an error of ensureIdentity.
AfterErrorReports(p) ==
    proc' = [proc EXCEPT ![p] = IF @.id = NoId THEN Down
                                ELSE [@ EXCEPT !.pc = "report"]]

\* An error of ensureIdentity ends a process that has just started (Run
\* returns it) and only skips a cycle of one that already has an identity.
AfterError(p) ==
    proc' = [proc EXCEPT ![p] = IF @.id = NoId THEN Down
                                ELSE [@ EXCEPT !.pc = "idle"]]

Fault == faults < MaxFaults /\ faults' = faults + 1

-----------------------------------------------------------------------------
\* Plausible slips in the code, which the properties below must tell from it.

\* A token in the configuration means that the agent enrolls.
UseIdentityAnyway(p) ==
    /\ proc[p].pc = "ensure" /\ idFile # NoId
    /\ proc' = [proc EXCEPT ![p].pc = IF proc[p].token THEN "enroll" ELSE "report",
                            ![p].id = idFile]
    /\ UNCHANGED <<cfgFile, idFile, sent, requests, devices, faults>>

\* The answer is used without a look at its status.
ReceiveAnything(p) ==
    /\ proc[p].pc = "await"
    /\ Goto(p, "saveId")
    /\ UNCHANGED <<cfgFile, idFile, sent, requests, devices, faults>>

\* The error of saveIdentity is ignored.
SaveIdentityIgnored(p) ==
    /\ Fault
    /\ proc[p].pc \in {"saveId", "writeId"}
    /\ proc' = [proc EXCEPT ![p].pc = "saveCfg", ![p].id = proc[p].req,
                            ![p].token = FALSE]
    /\ UNCHANGED <<cfgFile, idFile, sent, requests, devices>>

\* The token is not cleared, and so the configuration is saved with it.
WriteIdentityAlone(p) ==
    /\ proc[p].pc = "writeId"
    /\ idFile' = proc[p].req
    /\ proc' = [proc EXCEPT ![p].pc = "saveCfg", ![p].id = proc[p].req]
    /\ UNCHANGED <<cfgFile, sent, requests, devices, faults>>

\* A configuration without token is refused, enrolled or not.
StartWithToken(p) ==
    /\ proc[p].pc = "down" /\ cfgFile = "token"
    /\ proc' = [proc EXCEPT ![p].pc = "ensure", ![p].token = TRUE]
    /\ UNCHANGED <<cfgFile, idFile, sent, requests, devices, faults>>

\* An identity in memory is not read again.
UseCachedIdentity(p) ==
    /\ proc[p].pc = "ensure" /\ idFile # NoId
    /\ proc' = [proc EXCEPT ![p].pc = "report", ![p].id = IF @ = NoId THEN idFile ELSE @]
    /\ UNCHANGED <<cfgFile, idFile, sent, requests, devices, faults>>

-----------------------------------------------------------------------------
\* agent.New: config.Load refuses a file that does not parse.
Start(p) ==
    /\ proc[p].pc = "down"
    /\ cfgFile # "torn"
    /\ proc' = [proc EXCEPT ![p].pc = "ensure", ![p].token = (cfgFile = "token")]
    /\ UNCHANGED <<cfgFile, idFile, sent, requests, devices, faults>>

\* ensureIdentity with an identity on disk: it is used as it is.
UseIdentity(p) ==
    /\ proc[p].pc = "ensure"
    /\ idFile # NoId
    /\ proc' = [proc EXCEPT ![p].pc = "report", ![p].id = idFile]
    /\ UNCHANGED <<cfgFile, idFile, sent, requests, devices, faults>>

\* loadIdentity finds no identity, or one that is torn or incomplete.
NoIdentity(p) ==
    /\ proc[p].pc = "ensure"
    /\ idFile = NoId
    /\ Goto(p, "enroll")
    /\ UNCHANGED <<cfgFile, idFile, sent, requests, devices, faults>>

\* Any other error of os.ReadFile (a sharing violation, no free descriptor) passes
\* for a missing identity too, however good the file is.
ReadIdentityFails(p) ==
    /\ Fault
    /\ proc[p].pc = "ensure"
    /\ idFile # NoId
    /\ Goto(p, "enroll")
    /\ UNCHANGED <<cfgFile, idFile, sent, requests, devices>>

\* No identity could be loaded and there is no token.
NoToken(p) ==
    /\ proc[p].pc = "enroll"
    /\ ~proc[p].token
    /\ AfterError(p)
    /\ UNCHANGED <<cfgFile, idFile, sent, requests, devices, faults>>

SendEnroll(p) ==
    /\ proc[p].pc = "enroll"
    /\ proc[p].token
    /\ sent' = sent + 1
    /\ requests' = requests \union {sent + 1}
    /\ proc' = [proc EXCEPT ![p].pc = "await", ![p].req = sent + 1]
    /\ UNCHANGED <<cfgFile, idFile, devices, faults>>

\* The server commits a new device; the client may have given up by then.
ServerEnroll(n) ==
    /\ n \in requests
    /\ requests' = requests \ {n}
    /\ devices' = devices \union {n}
    /\ UNCHANGED <<cfgFile, idFile, proc, sent, faults>>

ReceiveIdentity(p) ==
    /\ proc[p].pc = "await"
    /\ proc[p].req \in devices
    /\ Goto(p, "saveId")
    /\ UNCHANGED <<cfgFile, idFile, sent, requests, devices, faults>>

\* Client.Enroll returns an error: the request or its answer is lost, the
\* server refuses it, or the timeout passes while it is still on its way.
EnrollFails(p) ==
    /\ Fault
    /\ proc[p].pc = "await"
    /\ AfterError(p)
    /\ requests' \in {requests, requests \ {proc[p].req}}
    /\ UNCHANGED <<cfgFile, idFile, sent, devices>>

\* saveIdentity: os.WriteFile opens the file with O_TRUNC, then writes it.
TruncateIdentity(p) ==
    /\ proc[p].pc = "saveId"
    /\ idFile' = NoId
    /\ Goto(p, "writeId")
    /\ UNCHANGED <<cfgFile, sent, requests, devices, faults>>

\* The write, and the two assignments in memory that follow it.
WriteIdentity(p) ==
    /\ proc[p].pc = "writeId"
    /\ idFile' = proc[p].req
    /\ proc' = [proc EXCEPT ![p].pc = "saveCfg", ![p].id = proc[p].req,
                            ![p].token = FALSE]
    /\ UNCHANGED <<cfgFile, sent, requests, devices, faults>>

SaveIdentityFails(p) ==
    /\ Fault
    /\ proc[p].pc \in {"saveId", "writeId"}
    /\ AfterError(p)
    /\ UNCHANGED <<cfgFile, idFile, sent, requests, devices>>

\* config.Save of the configuration whose token has been cleared.
TruncateConfig(p) ==
    /\ proc[p].pc = "saveCfg"
    /\ cfgFile' = "torn"
    /\ Goto(p, "writeCfg")
    /\ UNCHANGED <<idFile, sent, requests, devices, faults>>

WriteConfig(p) ==
    /\ proc[p].pc = "writeCfg"
    /\ cfgFile' = IF proc[p].token THEN "token" ELSE "clean"
    /\ Goto(p, "report")
    /\ UNCHANGED <<idFile, sent, requests, devices, faults>>

\* The error of config.Save is logged and ensureIdentity succeeds.
SaveConfigFails(p) ==
    /\ Fault
    /\ proc[p].pc \in {"saveCfg", "writeCfg"}
    /\ Goto(p, "report")
    /\ UNCHANGED <<cfgFile, idFile, sent, requests, devices>>

\* The rest of Once: the requests of the cycle carry the identity in memory.
Report(p) ==
    /\ proc[p].pc = "report"
    /\ Goto(p, "idle")
    /\ UNCHANGED <<cfgFile, idFile, sent, requests, devices, faults>>

\* The next tick of Run: Once begins with ensureIdentity again.
Cycle(p) ==
    /\ proc[p].pc = "idle"
    /\ Goto(p, "ensure")
    /\ UNCHANGED <<cfgFile, idFile, sent, requests, devices, faults>>

\* The service is stopped between two cycles, or a one-shot command ends.
Stop(p) ==
    /\ proc[p].pc = "idle"
    /\ proc' = [proc EXCEPT ![p] = Down]
    /\ UNCHANGED <<cfgFile, idFile, sent, requests, devices, faults>>

Crash(p) ==
    /\ Fault
    /\ proc[p].pc # "down"
    /\ proc' = [proc EXCEPT ![p] = Down]
    /\ UNCHANGED <<cfgFile, idFile, sent, requests, devices>>

\* The steps a running agent takes by itself, and its restart by systemd
\* (Restart=always) or by the service host.
Step(p) == \/ Start(p) \/ UseIdentity(p) \/ NoIdentity(p) \/ NoToken(p)
           \/ SendEnroll(p) \/ ReceiveIdentity(p) \/ TruncateIdentity(p)
           \/ WriteIdentity(p) \/ TruncateConfig(p) \/ WriteConfig(p)
           \/ Report(p) \/ Cycle(p)

Failure(p) == \/ ReadIdentityFails(p) \/ EnrollFails(p) \/ SaveIdentityFails(p)
              \/ SaveConfigFails(p) \/ Stop(p) \/ Crash(p)

ServerStep == \E n \in requests : ServerEnroll(n)

Next == ServerStep \/ \E p \in Agents : Step(p) \/ Failure(p)

Spec == Init /\ [][Next]_vars

FairSpec == /\ Spec
            /\ WF_vars(ServerStep)
            /\ \A p \in Agents : WF_vars(Step(p))

-----------------------------------------------------------------------------
\* Type invariant: every file, process and set holds a value of its type.
TypeOK ==
    /\ cfgFile \in {"token", "clean", "torn"}
    /\ idFile \in Nat
    /\ proc \in [Agents -> [pc : PCs, token : BOOLEAN, id : Nat, req : Nat]]
    /\ sent \in Nat
    /\ requests \subseteq 1..sent
    /\ devices \subseteq 1..sent
    /\ faults \in 0..MaxFaults

\* Whatever the processes do to the shared files, an identity on disk or in
\* memory is one the server has issued (the row is committed before the reply).
IssuedIdentity ==
    /\ idFile \in devices \union {NoId}
    /\ \A p \in Agents : proc[p].id \in devices \union {NoId}

\* The server has a device more than there are agent processes only where something
\* has failed: a process that has enrolled gives up the token, and whoever starts
\* after that finds none, however the processes overwrite each other's files.
DevicesBounded == Cardinality(devices) <= Cardinality(Agents) + faults

\* The token leaves config.json only when a whole identity is on disk, so a
\* machine with one agent process is never left without either, and a torn
\* config.json never costs the identity (order of saveIdentity and Save).
NeverStranded == cfgFile # "token" => idFile # NoId

\* A cycle of a lone agent reports only with the identity that is on disk, and so with
\* the one a restart would load: a save that failed, over a good file too, ends the
\* cycle before anything is sent with the identity that was received or replaced.
IdentityDurable ==
    \A p \in Agents : proc[p].pc = "report" => idFile # NoId /\ proc[p].id = idFile

\* A lone agent loses an identity that is on disk, or replaces it by another, only
\* where the token is still in config.json and two things have failed: one that kept
\* the token there after the enrollment (a crash, or the save of the configuration),
\* and a read of identity.json.  Without the token nothing can make it enroll again.
IdentityKept ==
    [][idFile # NoId /\ idFile' # idFile => cfgFile = "token" /\ faults >= 2]_vars

\* A lone agent comes to hold an identity for ever, and it goes on reporting
\* unless a crash has left a config.json it cannot read.
EventuallyReporting ==
    /\ <>[](idFile # NoId)
    /\ <>[](cfgFile = "torn") \/ (\A p \in Agents : []<>(proc[p].pc = "report"))

\* Processes that enrolled side by side end up with the one identity on disk
\* (ensureIdentity reads the file again in every cycle), or with no file at all.
AgentsConverge ==
    \/ <>[](idFile = NoId)
    \/ <>[](\A p \in Agents : proc[p].id \in {NoId, idFile})
=============================================================================
