---------------------------- MODULE NativeAgent ----------------------------
(***************************************************************************)
(* The reporting loop of an enrolled agent and the metric queue on its     *)
(* disk: native-agent/internal/agent/agent.go (Run, Once, flushQueue,      *)
(* sendInventory, collectPayload), internal/queue/queue.go and the posts   *)
(* of internal/transport/client.go, against the server's handlers of       *)
(* /api/agent/metrics and /api/agent/inventory (server/app/main.py).       *)
(*                                                                         *)
(* A sample is its number in the order of collection.  The process can     *)
(* crash between any two steps.  A request the client has given up on can  *)
(* still reach the handler later.  Replace is one step: it writes a file   *)
(* beside the queue and renames it, so a crash leaves the old queue.       *)
(***************************************************************************)
EXTENDS Naturals, Sequences

CONSTANTS MaximumRecords,   \* queue.maximum_records of config.json
          MaxSamples,       \* bound on the samples collected
          MaxFaults,        \* bound on crashes, timeouts, failed reads and writes
          Rejected          \* samples the server answers with an error for ever

ASSUME ConstantsAssumption == /\ MaximumRecords \in Nat \ {0}
                              /\ MaxSamples \in Nat
                              /\ MaxFaults \in Nat

Samples == 1..MaxSamples
NoSample == 0

VARIABLES pc,        \* where the process is in Once
          queue,     \* the queue file
          rows,      \* flushQueue's copy of the queue
          acked,     \* flushQueue's `sent`: rows the server has acknowledged
          cur,       \* the payload Once has in hand
          due,       \* the inventory is due (lastInventory is 24 h old or zero)
          next,      \* number of samples collected so far
          req,       \* the request the client waits for
          up,        \* the server can be reached
          late,      \* requests given up by the client that may still arrive
          copies,    \* the metric rows the server holds of each sample
          listed,    \* the server has the inventory of the current day
          faults     \* number of faults so far

agentVars == <<pc, queue, rows, acked, cur, due, next>>
netVars == <<req, up, late>>
serverVars == <<copies, listed>>
vars == <<agentVars, netVars, serverVars, faults>>

PCs == {"down", "flush", "upload", "replace", "inventory", "config", "collect",
        "post", "add", "idle"}

Elements(q) == {q[i] : i \in DOMAIN q}

\* Plausible slips in the code, which the properties below must tell from it.

\* Add trims one record too late.
NewestOffByOne(q) == IF Len(q) > MaximumRecords + 1
                     THEN SubSeq(q, Len(q) - MaximumRecords, Len(q)) ELSE q

\* A tick of Run reports without flushing the queue first.
TickWithoutFlush ==
    /\ pc = "idle"
    /\ pc' = "inventory"
    /\ UNCHANGED <<queue, rows, acked, cur, due, next, netVars, serverVars, faults>>

\* The counter of sent rows outlives the call.
EndFlushKeepsCount == pc' = "inventory" /\ rows' = <<>> /\ acked' = acked

\* The queue file is rewritten only after a complete upload.
ReplaceWhenComplete ==
    /\ pc = "replace"
    /\ queue' = IF acked = Len(rows) THEN <<>> ELSE queue
    /\ pc' = "inventory" /\ rows' = <<>> /\ acked' = 0
    /\ UNCHANGED <<cur, due, next, netVars, serverVars, faults>>

\* The queue file is removed after a partial upload.
ReplaceAlways ==
    /\ pc = "replace"
    /\ queue' = IF acked > 0 THEN <<>> ELSE queue
    /\ pc' = "inventory" /\ rows' = <<>> /\ acked' = 0
    /\ UNCHANGED <<cur, due, next, netVars, serverVars, faults>>

\* lastInventory is set before the post.
SendInventoryOnce ==
    /\ pc = "inventory"
    /\ due' = FALSE
    /\ listed' = (listed \/ (due /\ up))
    /\ pc' = "config"
    /\ UNCHANGED <<queue, rows, acked, cur, next, netVars, copies, faults>>

-----------------------------------------------------------------------------
\* Add's trim: the newest MaximumRecords lines.
Newest(q) == IF Len(q) > MaximumRecords
             THEN SubSeq(q, Len(q) - MaximumRecords + 1, Len(q)) ELSE q

Init == /\ pc = "down"
        /\ queue = <<>> /\ rows = <<>> /\ acked = 0
        /\ cur = NoSample /\ due = TRUE /\ next = 0
        /\ req = "none" /\ up = TRUE /\ late = {}
        /\ copies = [s \in Samples |-> 0]
        /\ listed = FALSE /\ faults = 0

Fault == faults < MaxFaults /\ faults' = faults + 1

Posting == pc \in {"upload", "post"}

\* The sample of the request that is being made.
Outgoing == IF pc = "upload" THEN rows[acked + 1] ELSE cur

\* The client gives up its request, which may be on its way to the handler.
GiveUp == /\ req' = "none"
          /\ late' \in IF req = "sent"
                       THEN {late, late \union {[n |-> faults, sample |-> Outgoing]}}
                       ELSE {late}

-----------------------------------------------------------------------------
\* Run, from the start of the process to its first Once.
Start == /\ pc = "down"
         /\ pc' = "flush"
         /\ due' = TRUE
         /\ UNCHANGED <<queue, rows, acked, cur, next, netVars, serverVars, faults>>

\* The next tick of Run.
Tick == /\ pc = "idle"
        /\ pc' = "flush"
        /\ UNCHANGED <<queue, rows, acked, cur, due, next, netVars, serverVars, faults>>

\* 24 hours have passed since the last inventory.
DayPasses == /\ pc = "idle"
             /\ ~due
             /\ due' = TRUE /\ listed' = FALSE
             /\ UNCHANGED <<pc, queue, rows, acked, cur, next, netVars, copies, faults>>

\* flushQueue reads the whole queue and uploads it row by row.
ReadQueue == /\ pc = "flush"
             /\ rows' = queue /\ acked' = 0
             /\ pc' = "upload"
             /\ UNCHANGED <<queue, cur, due, next, netVars, serverVars, faults>>

ReadQueueFails ==
    /\ Fault
    /\ pc = "flush"
    /\ pc' = "inventory"
    /\ UNCHANGED <<queue, rows, acked, cur, due, next, netVars, serverVars>>

\* PostMetrics: of the next queued row, or of the payload just collected.
SendRequest ==
    /\ Posting /\ req = "none" /\ up
    /\ pc = "upload" => acked < Len(rows)
    /\ req' = "sent"
    /\ UNCHANGED <<agentVars, up, late, serverVars, faults>>

\* What ingest commits: one metric row more (ServerStore has its other rows).
Ingest(s) == /\ copies' = [copies EXCEPT ![s] = @ + 1]
             /\ UNCHANGED listed

ServerIngest ==
    /\ Posting /\ req = "sent" /\ up
    /\ IF Outgoing \in Rejected
       THEN req' = "refused" /\ UNCHANGED serverVars
       ELSE req' = "applied" /\ Ingest(Outgoing)
    /\ UNCHANGED <<agentVars, up, late, faults>>

ServerIngestLate(r) ==
    /\ r \in late /\ up
    /\ late' = late \ {r}
    /\ IF r.sample \in Rejected THEN UNCHANGED serverVars ELSE Ingest(r.sample)
    /\ UNCHANGED <<agentVars, req, up, faults>>

RowAcked == /\ pc = "upload" /\ req = "applied"
            /\ acked' = acked + 1 /\ req' = "none"
            /\ UNCHANGED <<pc, queue, rows, cur, due, next, up, late, serverVars, faults>>

SampleAcked == /\ pc = "post" /\ req = "applied"
               /\ cur' = NoSample /\ req' = "none" /\ pc' = "idle"
               /\ UNCHANGED <<queue, rows, acked, due, next, up, late, serverVars, faults>>

\* A failed row ends the upload, a failed payload goes to the queue.
PostFails == /\ Posting
             /\ pc' = IF pc = "upload" THEN "replace" ELSE "add"
             /\ UNCHANGED <<queue, rows, acked, cur, due, next, up, serverVars>>

\* The server answers with an error, or cannot be reached.
PostRefused == /\ PostFails
               /\ pc = "upload" => acked < Len(rows)
               /\ req = "refused" \/ ~up
               /\ req' = "none"
               /\ UNCHANGED <<late, faults>>

\* RequestTimeoutSeconds pass before the answer arrives.
PostTimesOut == /\ Fault
                /\ req \in {"sent", "applied"}
                /\ PostFails
                /\ GiveUp

UploadDone == /\ pc = "upload" /\ acked = Len(rows) /\ req = "none"
              /\ pc' = "replace"
              /\ UNCHANGED <<queue, rows, acked, cur, due, next, netVars, serverVars, faults>>

\* flushQueue returns: its locals are gone.
EndFlush == pc' = "inventory" /\ rows' = <<>> /\ acked' = 0

\* The end of flushQueue: the acknowledged rows leave the queue file.
ReplaceQueue == /\ pc = "replace"
                /\ queue' = IF acked > 0 THEN SubSeq(rows, acked + 1, Len(rows))
                            ELSE queue
                /\ EndFlush
                /\ UNCHANGED <<cur, due, next, netVars, serverVars, faults>>

\* flushQueue ignores the error of Replace.
ReplaceQueueFails ==
    /\ Fault
    /\ pc = "replace" /\ acked > 0
    /\ EndFlush
    /\ UNCHANGED <<queue, cur, due, next, netVars, serverVars>>

\* sendInventory(false); its error is logged and Once goes on.
SendInventory == /\ pc = "inventory"
                 /\ due' = (due /\ ~up)
                 /\ listed' = (listed \/ (due /\ up))
                 /\ pc' = "config"
                 /\ UNCHANGED <<queue, rows, acked, cur, next, netVars, copies, faults>>

\* The post fails, or its answer is lost after the server has committed it.
SendInventoryFails ==
    /\ Fault
    /\ pc = "inventory" /\ due
    /\ listed' \in {listed, TRUE}
    /\ pc' = "config"
    /\ UNCHANGED <<queue, rows, acked, cur, due, next, netVars, copies>>

\* collectPayload asks for the port checks before it collects anything.
GetConfig == /\ pc = "config"
             /\ pc' = IF up THEN "collect" ELSE "idle"
             /\ UNCHANGED <<queue, rows, acked, cur, due, next, netVars, serverVars, faults>>

GetConfigFails == /\ Fault
                  /\ pc = "config"
                  /\ pc' = "idle"
                  /\ UNCHANGED <<queue, rows, acked, cur, due, next, netVars, serverVars>>

Collect == /\ pc = "collect" /\ next < MaxSamples
           /\ next' = next + 1 /\ cur' = next + 1
           /\ pc' = "post"
           /\ UNCHANGED <<queue, rows, acked, due, netVars, serverVars, faults>>

CollectFails ==
    /\ pc = "collect"
    /\ pc' = "idle"
    /\ UNCHANGED <<queue, rows, acked, cur, due, next, netVars, serverVars, faults>>

\* Queue.Add of the payload whose upload failed.
AddToQueue == /\ pc = "add"
              /\ queue' = Newest(Append(queue, cur))
              /\ cur' = NoSample /\ pc' = "idle"
              /\ UNCHANGED <<rows, acked, due, next, netVars, serverVars, faults>>

\* Add ignores the error of ReadAll and keeps the rows read before it.
AddUnread == /\ Fault
             /\ pc = "add"
             /\ \E k \in 0..Len(queue) :
                    queue' = Newest(Append(SubSeq(queue, 1, k), cur))
             /\ cur' = NoSample /\ pc' = "idle"
             /\ UNCHANGED <<rows, acked, due, next, netVars, serverVars>>

AddFails == /\ Fault
            /\ pc = "add"
            /\ cur' = NoSample /\ pc' = "idle"
            /\ UNCHANGED <<queue, rows, acked, due, next, netVars, serverVars>>

\* The stop channel is read between two cycles.
Stop == /\ pc = "idle"
        /\ pc' = "down"
        /\ UNCHANGED <<queue, rows, acked, cur, due, next, netVars, serverVars, faults>>

Crash == /\ Fault
         /\ pc # "down"
         /\ pc' = "down"
         /\ rows' = <<>> /\ acked' = 0 /\ cur' = NoSample
         /\ IF Posting THEN GiveUp ELSE UNCHANGED <<req, late>>
         /\ UNCHANGED <<queue, due, next, up, serverVars>>

ServerDown == /\ Fault
              /\ up /\ up' = FALSE
              /\ UNCHANGED <<agentVars, req, late, serverVars>>

ServerUp == /\ ~up /\ up' = TRUE
            /\ UNCHANGED <<agentVars, req, late, serverVars, faults>>

\* The steps the agent takes by itself, with its restart by the supervisor.
AgentStep == \/ Start \/ Tick \/ ReadQueue \/ SendRequest \/ RowAcked \/ SampleAcked
             \/ PostRefused \/ UploadDone \/ ReplaceQueue \/ SendInventory \/ GetConfig
             \/ Collect \/ CollectFails \/ AddToQueue

AgentFault == \/ ReadQueueFails \/ PostTimesOut \/ ReplaceQueueFails
              \/ SendInventoryFails \/ GetConfigFails \/ AddUnread \/ AddFails
              \/ Crash

ServerStep == ServerIngest \/ ServerUp

Next == \/ AgentStep \/ AgentFault \/ ServerStep \/ ServerDown
        \/ DayPasses \/ Stop
        \/ \E r \in late : ServerIngestLate(r)

Spec == Init /\ [][Next]_vars

FairSpec == Spec /\ WF_vars(AgentStep) /\ WF_vars(ServerStep)

-----------------------------------------------------------------------------
\* Type invariant.
TypeOK ==
    /\ pc \in PCs
    /\ queue \in Seq(Samples) /\ rows \in Seq(Samples)
    /\ acked \in 0..Len(rows)
    /\ cur \in Samples \union {NoSample}
    /\ due \in BOOLEAN
    /\ next \in 0..MaxSamples
    /\ req \in {"none", "sent", "applied", "refused"}
    /\ up \in BOOLEAN
    /\ late \subseteq [n : 0..MaxFaults, sample : Samples]
    /\ copies \in [Samples -> Nat]
    /\ listed \in BOOLEAN
    /\ faults \in 0..MaxFaults

Ascending(q) == \A i, j \in 1..Len(q) : i < j => q[i] < q[j]

\* The queue file is bounded and holds every sample at most once, oldest first,
\* whatever crashes, retries and failed writes came before.
QueueInOrder ==
    /\ Len(queue) <= MaximumRecords
    /\ Ascending(queue)

\* A sample is stored twice only when a fault separated its acknowledgement
\* from its removal: one copy, and at most one more for each fault.
DuplicatesBounded == \A s \in Samples : copies[s] <= 1 + faults

\* The refinement mapping: the agent holds the queue file and the payload in hand.
Outbox == IF cur = NoSample THEN queue ELSE Append(queue, cur)

Stored == {s \in Samples : copies[s] > 0}

Delivery == INSTANCE ReportDelivery WITH
    Capacity <- MaximumRecords, outbox <- Outbox, stored <- Stored

\* The store-and-forward promise of ReportDelivery: a sample that was collected
\* leaves the agent only when the server has it, when it is the oldest one of a
\* full queue, or through a fault.
DeliverySpec == Delivery!Spec

\* A queued sample leaves the queue sooner or later once the server can be
\* reached, unless a sample the server refuses is at or ahead of it.
QueueDrains ==
    \A s \in {x \in Samples : \A r \in Rejected : x < r} :
        (s \in Elements(queue)) ~> (s \notin Elements(queue))

\* The server gets the inventory of every day, although Once and Run only log a
\* post that failed: lastInventory is set after a success alone.
InventorySent == ~listed ~> listed

\* CHANGELOG.md:92 "Offline metric queue in the native agent": a cycle whose last
\* exchange with the server fails because the server is out of reach leaves its
\* sample in the queue, if no fault of the agent itself comes between.
OfflineSamplesQueued ==
    [][(~up /\ pc \in {"config", "add"} /\ pc' = "idle" /\ faults' = faults)
        => cur # NoSample /\ cur \in Elements(queue')]_vars
=============================================================================
