---------------------------- MODULE DockerAgent ----------------------------
(***************************************************************************)
(* The Docker agent (agent/cmd/eits-agent/main.go): one loop without a     *)
(* queue.  It enrolls whenever it cannot read its identity, and a sample   *)
(* whose post fails is lost.  Docker starts it again when it ends          *)
(* (docker-compose.yml, restart: unless-stopped).                          *)
(*                                                                         *)
(* A request is named by its number, which is also the name of the device  *)
(* the server makes of it.  os.WriteFile truncates the state file before   *)
(* it writes it.  The CPU counters move on beside the agent; on Linux the  *)
(* time spent waiting for the disk may also go back (proc(5)), and both    *)
(* counters with it.                                                       *)
(***************************************************************************)
EXTENDS Naturals, FiniteSets, CpuShare

CONSTANTS MaxFaults,   \* bound on the faults of every kind
          MaxTicks     \* bound on the CPU counters

ASSUME BoundsAssumption == MaxFaults \in Nat /\ MaxTicks \in Nat /\ 2 * MaxTicks < Word

NoId == 0

VARIABLES stateFile,   \* the identity on disk: NoId when missing or torn
          pc,          \* where main is
          id,          \* the identity in memory
          inventoried, \* the last inventory is less than a day old
          lastCPU,     \* the reading the next share starts from
          reported,    \* the sample collected last was stored
          sent,        \* number of enrollment requests so far
          requests,    \* those on their way to the server
          devices,     \* the devices of the server
          cpu,         \* the counters of the operating system
          since,       \* the same when this process began to read them
          counted,     \* the busy time its samples have spoken of
          faults       \* number of faults so far

identity == <<stateFile, id>>
memory == <<inventoried, lastCPU, reported, since, counted>>
server == <<sent, requests, devices>>
vars == <<pc, identity, memory, server, cpu, faults>>

PCs == {"down", "await", "save", "write", "begin", "first", "inventory", "config",
        "collect", "post", "sleep"}
Machine == {c \in [idle : 0..MaxTicks, work : 0..MaxTicks, guest : 0..MaxTicks] :
                c.guest <= c.work /\ c.idle + c.work <= MaxTicks}
Ticks == {r \in [idle : 0..MaxTicks, total : 0..2 * MaxTicks] : r.idle <= r.total}

Init == /\ stateFile = NoId /\ pc = "down" /\ id = NoId
        /\ inventoried = FALSE /\ lastCPU = Unread /\ reported = FALSE
        /\ sent = 0 /\ requests = {} /\ devices = {}
        /\ cpu \in Machine /\ since = cpu /\ counted = 0
        /\ faults = 0

Fault == faults < MaxFaults /\ faults' = faults + 1
At(label) == pc = label
Goto(label) == pc' = label

\* The server knows the agent: otherwise it answers 401.
Known == id \in devices

-----------------------------------------------------------------------------
(* Plausible slips: variants of definitions below that the properties must  *)
(* tell from the code's.                                                    *)

\* The token is forgotten once it has been used, as the native agent does.
SendEnrollOnce ==
    /\ At("down") /\ stateFile = NoId /\ sent = 0
    /\ sent' = 1 /\ requests' = {1} /\ Goto("await")
    /\ UNCHANGED <<identity, memory, devices, cpu, faults>>

\* The identity is kept in memory only.
WriteForgotten ==
    /\ At("write") /\ Goto("begin") /\ id' = sent
    /\ UNCHANGED <<stateFile, memory, server, cpu, faults>>

-----------------------------------------------------------------------------
\* readIdentity succeeds.
Load == /\ At("down") /\ stateFile # NoId
        /\ id' = stateFile /\ Goto("begin")
        /\ UNCHANGED <<stateFile, memory, server, cpu, faults>>

SendEnroll == /\ At("down") /\ stateFile = NoId
              /\ sent' = sent + 1 /\ requests' = requests \union {sent'}
              /\ Goto("await")
              /\ UNCHANGED <<identity, memory, devices, cpu, faults>>

\* Any error of readIdentity passes for a missing identity.
ReadIdentityFails == /\ At("down") /\ stateFile # NoId /\ Fault
                     /\ sent' = sent + 1 /\ requests' = requests \union {sent'}
                     /\ Goto("await")
                     /\ UNCHANGED <<identity, memory, devices, cpu>>

\* The server commits a new device; the client may have given up by then.
ServerEnroll == /\ \E n \in requests : /\ requests' = requests \ {n}
                                       /\ devices' = devices \union {n}
                /\ UNCHANGED <<pc, identity, memory, sent, cpu, faults>>

ReceiveIdentity == /\ At("await") /\ sent \notin requests /\ Goto("save")
                   /\ UNCHANGED <<identity, memory, server, cpu, faults>>

\* log.Fatal: a refused or lost request, a lost answer, a timeout.
EnrollFails == /\ At("await") /\ Fault /\ Goto("down")
               /\ requests' \in {requests, requests \ {sent}}
               /\ UNCHANGED <<identity, memory, sent, devices, cpu>>

Truncate == /\ At("save") /\ stateFile' = NoId /\ Goto("write")
            /\ UNCHANGED <<id, memory, server, cpu, faults>>

Write == /\ At("write") /\ stateFile' = sent /\ id' = sent /\ Goto("begin")
         /\ UNCHANGED <<memory, server, cpu, faults>>

\* log.Fatal as well.
SaveFails == /\ pc \in {"save", "write"} /\ Fault /\ Goto("down")
             /\ UNCHANGED <<identity, memory, server, cpu>>

\* A new Client: it has sent no inventory and collected nothing.
NewClient(reading) ==
    /\ At("begin") /\ Goto("first")
    /\ inventoried' = FALSE /\ reported' = FALSE
    /\ lastCPU' = reading /\ since' = cpu /\ counted' = 0
    /\ UNCHANGED <<identity, server, cpu>>

Begin == NewClient(ReadCPU(cpu)) /\ UNCHANGED faults

\* The error of readCPU is ignored.
BeginUnread == NewClient(Unread) /\ Fault

AfterInventory == Goto(IF At("first") THEN "inventory" ELSE "config")

InventoryDue == At("first") \/ (At("inventory") /\ ~inventoried)

SendInventory == /\ InventoryDue /\ Known
                 /\ inventoried' = TRUE /\ AfterInventory
                 /\ UNCHANGED <<identity, lastCPU, reported, since, counted, server,
                                cpu, faults>>

\* The error is logged; the next turn of the loop tries again.
InventoryFails == /\ InventoryDue /\ Fault /\ AfterInventory
                  /\ UNCHANGED <<identity, memory, server, cpu>>

InventoryRefused == /\ InventoryDue /\ ~Known /\ AfterInventory
                    /\ UNCHANGED <<identity, memory, server, cpu, faults>>

InventoryNotDue == /\ At("inventory") /\ inventoried /\ AfterInventory
                   /\ UNCHANGED <<identity, memory, server, cpu, faults>>

\* With the checks of the answer, or with none after an error.
GetConfig == /\ At("config") /\ Goto("collect")
             /\ UNCHANGED <<identity, memory, server, cpu, faults>>

CollectFrom(reading) ==
    /\ At("collect") /\ Goto("post")
    /\ counted' = counted + CpuPercent(lastCPU, reading).busy
    /\ lastCPU' = reading /\ reported' = FALSE
    /\ UNCHANGED <<identity, inventoried, since, server, cpu>>

Collect == CollectFrom(ReadCPU(cpu)) /\ UNCHANGED faults

\* The error of readCPU is ignored.
CollectUnread == CollectFrom(Unread) /\ Fault

PostStored == /\ At("post") /\ Known /\ reported' = TRUE /\ Goto("sleep")
              /\ UNCHANGED <<identity, inventoried, lastCPU, since, counted, server,
                             cpu, faults>>

\* The sample, or the answer to it, is lost: it is not posted again.
PostFails == /\ At("post") /\ Fault /\ Goto("sleep")
             /\ UNCHANGED <<identity, memory, server, cpu>>

PostRefused == /\ At("post") /\ ~Known /\ Goto("sleep")
               /\ UNCHANGED <<identity, memory, server, cpu, faults>>

Wake == /\ At("sleep") /\ Goto("inventory")
        /\ UNCHANGED <<identity, memory, server, cpu, faults>>

\* The container is stopped or replaced while the agent sleeps.
Stop == /\ At("sleep") /\ Goto("down") /\ id' = NoId
        /\ UNCHANGED <<stateFile, memory, server, cpu, faults>>

Crash == /\ ~At("down") /\ Fault /\ Goto("down") /\ id' = NoId
         /\ UNCHANGED <<stateFile, memory, server, cpu>>

DayPasses == /\ inventoried /\ inventoried' = FALSE
             /\ UNCHANGED <<pc, identity, lastCPU, reported, since, counted, server, cpu,
                            faults>>

\* The CPU idles, or works, in a guest or not.
Tick == /\ cpu.idle + cpu.work < MaxTicks
        /\ \E work, guest \in 0..1 :
               /\ guest <= work
               /\ cpu' = [idle |-> cpu.idle + 1 - work, work |-> cpu.work + work,
                          guest |-> cpu.guest + guest]
        /\ UNCHANGED <<pc, identity, memory, server, faults>>

\* Time that was counted as spent waiting for the disk is taken back.
WaitGoesBack == /\ cpu.idle > 0 /\ Fault
                /\ cpu' = [cpu EXCEPT !.idle = @ - 1]
                /\ UNCHANGED <<pc, identity, memory, server>>

\* An operator deletes the device.
DeleteDevice == /\ \E n \in devices : devices' = devices \ {n}
                /\ UNCHANGED <<pc, identity, memory, sent, requests, cpu, faults>>

AgentStep == \/ Load \/ SendEnroll \/ ReceiveIdentity \/ Truncate \/ Write \/ Begin
             \/ SendInventory \/ InventoryRefused \/ InventoryNotDue \/ GetConfig
             \/ Collect \/ PostStored \/ PostRefused \/ Wake

AgentFault == \/ ReadIdentityFails \/ EnrollFails \/ SaveFails \/ BeginUnread
              \/ InventoryFails \/ CollectUnread \/ PostFails \/ Stop \/ Crash

Environment == DayPasses \/ Tick \/ WaitGoesBack \/ DeleteDevice

Next == AgentStep \/ AgentFault \/ ServerEnroll \/ Environment

Spec == Init /\ [][Next]_vars

FairSpec == Spec /\ WF_vars(AgentStep) /\ WF_vars(ServerEnroll)

-----------------------------------------------------------------------------
\* Type invariant; the devices are among those the agent has asked for.
TypeOK ==
    /\ stateFile \in 0..sent /\ id \in 0..sent /\ pc \in PCs
    /\ inventoried \in BOOLEAN /\ reported \in BOOLEAN
    /\ lastCPU \in Ticks /\ cpu \in Machine
    /\ sent \in Nat /\ requests \union devices \subseteq 1..sent
    /\ since \in Machine /\ counted \in Nat /\ faults \in 0..MaxFaults

\* The agent reports as the device whose identity is on disk, so a restart goes
\* on with it: main returns before the loop when saveIdentity fails.
IdentityDurable ==
    pc \in {"begin", "first", "inventory", "config", "collect", "post", "sleep"} =>
        id = stateFile /\ id # NoId

\* However often the agent is restarted, every device the server has beyond the
\* one is explained by a fault: a lost answer, a crash or a failed write during
\* the enrollment, or an identity that could not be read for a moment.
OrphansBounded == Cardinality(devices) <= 1 + faults

\* The samples of a process never speak of more work than has been done since it
\* began, but for the work in guests, which readCPU adds twice: no time enters two
\* samples, and none from before the process enters one, also when a reading fails,
\* a post is lost or the time spent waiting for the disk goes back.
WorkCountedOnce ==
    counted <= (cpu.work - since.work) + (cpu.guest - since.guest)

\* The agent reports again and again, and its inventory once more after a day,
\* unless an operator has deleted the device it goes on reporting as.
KeepsReporting ==
    \/ []<>reported /\ []<>inventoried
    \/ <>[](stateFile \in 1..sent \ devices)
=============================================================================
