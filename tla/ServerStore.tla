---------------------------- MODULE ServerStore ----------------------------
(***************************************************************************)
(* The requests about one device, handled side by side by the server       *)
(* (server/app/main.py): ingest, ingest_inventory, delete_port_check,      *)
(* delete_device and thresholds.  FastAPI runs the handlers in a thread    *)
(* pool, each in a session and so in a transaction of its own; a step here *)
(* is one SQL statement.  PostgreSQL runs them at READ COMMITTED: a        *)
(* statement sees what was committed when it began, waits for the row      *)
(* locks of other transactions, and an error rolls the transaction back.   *)
(*                                                                         *)
(* A request is named by what it carries: a report, an inventory, the      *)
(* thresholds it sets; several may ask to delete the same check.  One row  *)
(* in metrics stands for the metric and disk rows of a report, one row in  *)
(* procs for its rows of running_processes.                                *)
(***************************************************************************)
EXTENDS Naturals, FiniteSets

CONSTANTS Reports,       \* the reports the agent posts
          Inventories,   \* the inventories the agent posts
          Checks,        \* the port checks of the device
          Removals,      \* the deletions of checks by operators
          Target(_),     \* the check that a removal deletes
          Patches,       \* the threshold updates of operators
          DropDevice,    \* the deletion of the device
          Drops,         \* {DropDevice}, or {} for a device that is kept
          Batches,       \* the sets of requests that may come together
          Warning(_), Critical(_)  \* the thresholds of a patch

DefaultWarning == 80     \* the defaults of the device row
DefaultCritical == 90

ASSUME ThresholdsAssumption ==
    \A p \in Patches : Warning(p) \in Nat /\ Critical(p) \in Nat

ASSUME JobsAssumption ==
    /\ Drops \subseteq {DropDevice} /\ \A c \in Removals : Target(c) \in Checks
    /\ Reports \intersect (Inventories \union Removals \union Patches \union {DropDevice}) = {}
    /\ Inventories \intersect (Removals \union Patches \union {DropDevice}) = {}
    /\ Removals \intersect (Patches \union {DropDevice}) = {}
    /\ DropDevice \notin Patches

\* A row of one table is not taken for a row of another.
ASSUME RowsAssumption ==
    /\ (Checks \X Reports) \intersect (Checks \union Reports \union Inventories) = {}
    /\ Checks \intersect (Reports \union Inventories) = {}

Requests == Reports \union Inventories \union Removals \union Patches \union Drops

ASSUME BatchesAssumption == Batches \subseteq SUBSET Requests

VARIABLES device,      \* the device row exists
          thresholds,  \* its warning and critical threshold
          checks,      \* port_checks
          results,     \* port_results: <<check, report>>
          metrics,     \* metrics and disk_metrics, by report
          procs,       \* running_processes, by report
          inventory,   \* device_inventory
          tx           \* the transaction of each request

tables == <<device, thresholds, checks, results, metrics, procs, inventory>>
vars == <<device, thresholds, checks, results, metrics, procs, inventory, tx>>

(* A transaction: the next statement, what its last SELECT or DELETE saw,   *)
(* the thresholds in the device object it has loaded, and what it has       *)
(* locked: the device row for an update, the checks it has inserted results *)
(* for, and the rows it has deleted.                                        *)
Fresh == [pc |-> "begin", seen |-> {}, old |-> [warning |-> 0, critical |-> 0],
          dev |-> FALSE, shared |-> {}, gone |-> {}]

Init == /\ device = TRUE
        /\ thresholds = [warning |-> DefaultWarning, critical |-> DefaultCritical]
        /\ checks = Checks /\ results = {} /\ metrics = {} /\ procs = {}
        /\ inventory = {}
        /\ \E batch \in Batches :
              tx = [t \in Requests |->
                       IF t \in batch THEN Fresh ELSE [Fresh EXCEPT !.pc = "absent"]]

\* Commit or rollback: the request is answered and its locks are released.
Answer(t, a) == tx' = [tx EXCEPT ![t] = [Fresh EXCEPT !.pc = a]]

Goto(t, label) == tx' = [tx EXCEPT ![t].pc = label]

Others(t) == Requests \ {t}

Deleted(t) == tx[t].gone

\* ON DELETE CASCADE: the results of the checks t has deleted.
Cascaded(t) == {x \in results : x[1] \in tx[t].gone}

\* The transactions that hold a row lock the next statement of t needs.  A cascade
\* deletes its rows as any DELETE does, and so it waits for them too.
Blockers(t) ==
    {u \in Others(t) :
        CASE tx[t].pc \in {"update", "device"} -> tx[u].dev
          [] tx[t].pc \in {"results", "clear"} -> tx[t].seen \intersect Deleted(u) # {}
          [] tx[t].pc = "checks" -> \/ checks \intersect tx[u].shared # {}
                                    \/ checks \intersect Deleted(u) # {}
          [] tx[t].pc = "check" -> Target(t) \in tx[u].shared \union Deleted(u)
          [] tx[t].pc = "cascade" -> Cascaded(t) \intersect Deleted(u) # {}
          [] tx[t].pc = "store" -> tx[t].seen \intersect Deleted(u) # {}
          [] OTHER -> FALSE}

CanRun(t, label) == tx[t].pc = label /\ Blockers(t) = {}

Answered == {"absent", "ok", "unknown", "refused", "error"}

-----------------------------------------------------------------------------
(* Plausible slips: variants of definitions below that the properties must  *)
(* tell from the code's.                                                    *)

\* last_seen is kept elsewhere, so a report does not touch the device row.
IngestUpdateUnlocked(r) ==
    /\ CanRun(r, "update") /\ device
    /\ Goto(r, "select")
    /\ UNCHANGED tables

\* Every column of the device row is written back.
IngestCommitWholeRow(r) ==
    /\ tx[r].pc = "commit"
    /\ metrics' = metrics \union {r}
    /\ results' = results \union (tx[r].shared \X {r})
    /\ procs' = (procs \ tx[r].gone) \union {r}
    /\ thresholds' = tx[r].old
    /\ Answer(r, "ok")
    /\ UNCHANGED <<device, checks, inventory>>

\* The results are selected by the device and not by the check.
CheckBeginWholeDevice(c) ==
    /\ tx[c].pc = "begin" /\ device /\ Target(c) \in checks
    /\ tx' = [tx EXCEPT ![c].pc = "clear", ![c].seen = results]
    /\ UNCHANGED tables

\* The SELECT passes over a check that a transaction has locked.
CheckBeginSkipsLocked(c) ==
    /\ tx[c].pc = "begin" /\ device /\ Target(c) \in checks
    /\ IF \E u \in Others(c) : Target(c) \in tx[u].shared \union Deleted(u)
       THEN Answer(c, "unknown")
       ELSE tx' = [tx EXCEPT ![c].pc = "clear", ![c].seen = {x \in results : x[1] = Target(c)}]
    /\ UNCHANGED tables

\* The foreign key of port_results has no ON DELETE CASCADE.
CheckCommitNoCascade(c) ==
    /\ CanRun(c, "cascade")
    /\ IF \E x \in results \ tx[c].gone : x[1] = Target(c)
       THEN Answer(c, "error") /\ UNCHANGED tables
       ELSE /\ checks' = checks \ {Target(c)}
            /\ results' = results \ tx[c].gone
            /\ Answer(c, "ok")
            /\ UNCHANGED <<device, thresholds, metrics, procs, inventory>>

\* The foreign keys to the device are not enforced.
DropCommitUnchecked(d) ==
    /\ CanRun(d, "device")
    /\ device' = FALSE /\ checks' = {} /\ results' = {}
    /\ metrics' = metrics \ tx[d].seen
    /\ procs' = {} /\ inventory' = {} /\ UNCHANGED thresholds
    /\ Answer(d, "ok")

\* The old processes are deleted in a transaction of their own.
IngestClearAtOnce(r) ==
    /\ CanRun(r, "clear")
    /\ procs' = procs \ tx[r].seen
    /\ tx' = [tx EXCEPT ![r].pc = "commit", ![r].gone = tx[r].seen]
    /\ UNCHANGED <<device, thresholds, checks, results, metrics, inventory>>

\* Nothing ends a deadlock.
DeadlockIgnored(t) == FALSE

-----------------------------------------------------------------------------
\* thresholds refuses a warning that is not below the critical threshold.
Refused(t) == t \in Patches /\ Warning(t) >= Critical(t)

\* authenticate_agent, or the SELECT an operator's request begins with.
Unknown(t) ==
    /\ tx[t].pc = "begin"
    /\ ~device \/ (t \in Removals /\ Target(t) \notin checks)
    /\ ~Refused(t)
    /\ Answer(t, "unknown")
    /\ UNCHANGED tables

\* ingest: the device it has authenticated, with the columns it does not set.
IngestBegin(r) ==
    /\ tx[r].pc = "begin" /\ device
    /\ tx' = [tx EXCEPT ![r].pc = "update", ![r].old = thresholds]
    /\ UNCHANGED tables

\* The SELECT of valid_ids flushes first: UPDATE devices, INSERT metrics.
\* The update of a row that is gone raises StaleDataError.
IngestUpdate(r) ==
    /\ CanRun(r, "update")
    /\ IF device THEN tx' = [tx EXCEPT ![r].pc = "select", ![r].dev = TRUE]
       ELSE Answer(r, "error")
    /\ UNCHANGED tables

IngestSelect(r) ==
    /\ tx[r].pc = "select"
    /\ tx' = [tx EXCEPT ![r].pc = "results", ![r].seen = checks]
    /\ UNCHANGED tables

\* The DELETE flushes first: INSERT port_results, whose foreign keys must exist.
IngestResults(r) ==
    /\ CanRun(r, "results")
    /\ IF tx[r].seen \subseteq checks
       THEN tx' = [tx EXCEPT ![r].pc = "read", ![r].shared = tx[r].seen]
       ELSE Answer(r, "error")
    /\ UNCHANGED tables

\* DELETE FROM running_processes: the rows its snapshot holds, once unlocked.
IngestRead(r) ==
    /\ tx[r].pc = "read"
    /\ tx' = [tx EXCEPT ![r].pc = "clear", ![r].seen = procs]
    /\ UNCHANGED tables

IngestClear(r) ==
    /\ CanRun(r, "clear")
    /\ tx' = [tx EXCEPT ![r].pc = "commit", ![r].gone = tx[r].seen]
    /\ UNCHANGED tables

\* The commit flushes the new process rows: (device_id, pid) is unique, and
\* rows of another report that are left may clash with them or not.
IngestCommit(r) ==
    /\ tx[r].pc = "commit"
    /\ \E clash \in BOOLEAN :
         IF clash /\ ~(procs \subseteq tx[r].gone)
         THEN Answer(r, "error") /\ UNCHANGED tables
         ELSE /\ metrics' = metrics \union {r}
              /\ results' = results \union (tx[r].shared \X {r})
              /\ procs' = (procs \ tx[r].gone) \union {r}
              /\ Answer(r, "ok")
              /\ UNCHANGED <<device, thresholds, checks, inventory>>

-----------------------------------------------------------------------------
\* ingest_inventory: SELECT the row of the device.
InventoryBegin(v) ==
    /\ tx[v].pc = "begin" /\ device
    /\ tx' = [tx EXCEPT ![v].pc = "store", ![v].seen = inventory]
    /\ UNCHANGED tables

\* UPDATE the row that was there, or INSERT one: device_id is unique and a
\* foreign key, and the update of a row that is gone raises StaleDataError.
InventoryStore(v) ==
    /\ CanRun(v, "store")
    /\ IF device /\ (tx[v].seen = {} <=> inventory = {})
       THEN inventory' = {v} /\ Answer(v, "ok")
       ELSE Answer(v, "error") /\ UNCHANGED inventory
    /\ UNCHANGED <<device, thresholds, checks, results, metrics, procs>>

-----------------------------------------------------------------------------
\* delete_port_check: SELECT the check, then DELETE its results.
CheckBegin(c) ==
    /\ tx[c].pc = "begin" /\ device /\ Target(c) \in checks
    /\ tx' = [tx EXCEPT ![c].pc = "clear", ![c].seen = {x \in results : x[1] = Target(c)}]
    /\ UNCHANGED tables

CheckClear(c) ==
    /\ CanRun(c, "clear")
    /\ tx' = [tx EXCEPT ![c].pc = "check", ![c].gone = tx[c].seen]
    /\ UNCHANGED tables

\* The commit flushes the DELETE of the check; no row to delete is only a warning.
CheckDelete(c) ==
    /\ CanRun(c, "check")
    /\ tx' = [tx EXCEPT ![c].pc = "cascade", ![c].gone = @ \union (checks \intersect {Target(c)})]
    /\ UNCHANGED tables

\* Its foreign key deletes the results that were stored since, and the commit ends.
CheckCommit(c) ==
    /\ CanRun(c, "cascade")
    /\ checks' = checks \ {Target(c)}
    /\ results' = {x \in results \ tx[c].gone : x[1] # Target(c)}
    /\ Answer(c, "ok")
    /\ UNCHANGED <<device, thresholds, metrics, procs, inventory>>

-----------------------------------------------------------------------------
\* delete_device: its DELETEs in order, the device row last.
DropBegin(d) ==
    /\ tx[d].pc = "begin" /\ device
    /\ tx' = [tx EXCEPT ![d].pc = "results", ![d].seen = results]
    /\ UNCHANGED tables

DropResults(d) ==
    /\ CanRun(d, "results")
    /\ tx' = [tx EXCEPT ![d].pc = "checks", ![d].gone = tx[d].seen]
    /\ UNCHANGED tables

DropChecks(d) ==
    /\ CanRun(d, "checks")
    /\ tx' = [tx EXCEPT ![d].pc = "cascade", ![d].gone = @ \union checks]
    /\ UNCHANGED tables

\* Deleting the checks deletes the results that were committed since.
DropCascade(d) ==
    /\ CanRun(d, "cascade")
    /\ tx' = [tx EXCEPT ![d].pc = "clear", ![d].gone = @ \union Cascaded(d), ![d].seen = procs]
    /\ UNCHANGED tables

DropProcesses(d) ==
    /\ CanRun(d, "clear")
    /\ tx' = [tx EXCEPT ![d].pc = "device",
                        ![d].gone = @ \union tx[d].seen \union inventory,
                        ![d].seen = metrics]
    /\ UNCHANGED tables

\* DELETE the device: the process rows and the inventory cascade, but metrics
\* that were committed since they were deleted violate their foreign key.
DropCommit(d) ==
    /\ CanRun(d, "device")
    /\ IF metrics \subseteq tx[d].seen /\ checks \union results \subseteq tx[d].gone
       THEN /\ device' = FALSE /\ checks' = {} /\ results' = {} /\ metrics' = {}
            /\ procs' = {} /\ inventory' = {} /\ UNCHANGED thresholds
            /\ Answer(d, "ok")
       ELSE Answer(d, "error") /\ UNCHANGED tables

-----------------------------------------------------------------------------
\* thresholds: SELECT the device.
PatchBegin(p) ==
    /\ tx[p].pc = "begin" /\ device /\ ~Refused(p)
    /\ tx' = [tx EXCEPT ![p].pc = "update", ![p].old = thresholds]
    /\ UNCHANGED tables

PatchRefused(p) ==
    /\ tx[p].pc = "begin" /\ Refused(p)
    /\ Answer(p, "refused")
    /\ UNCHANGED tables

\* UPDATE the columns whose value differs from the one that was read; without
\* one there is no statement at all.
PatchCommit(p) ==
    LET old == tx[p].old
        changed == old # [warning |-> Warning(p), critical |-> Critical(p)]
    IN /\ tx[p].pc = "update" /\ (changed => Blockers(p) = {})
       /\ IF changed /\ ~device
          THEN Answer(p, "error") /\ UNCHANGED thresholds
          ELSE /\ thresholds' =
                    [warning  |-> IF Warning(p) = old.warning
                                  THEN thresholds.warning ELSE Warning(p),
                     critical |-> IF Critical(p) = old.critical
                                  THEN thresholds.critical ELSE Critical(p)]
               /\ Answer(p, "ok")
       /\ UNCHANGED <<device, checks, results, metrics, procs, inventory>>

-----------------------------------------------------------------------------
\* PostgreSQL's deadlock detection ends one of two transactions that wait for
\* each other.
Deadlocked(t) == \E u \in Blockers(t) : t \in Blockers(u)

Victim(t) == /\ Deadlocked(t)
             /\ Answer(t, "error")
             /\ UNCHANGED tables

\* The agent posts again what was answered with an error.
Retry(t) == /\ t \in Reports \union Inventories
            /\ tx[t].pc = "error"
            /\ Answer(t, "begin")
            /\ UNCHANGED tables

Ingest(r) == \/ IngestBegin(r) \/ IngestUpdate(r) \/ IngestSelect(r)
             \/ IngestResults(r) \/ IngestRead(r) \/ IngestClear(r) \/ IngestCommit(r)

IngestInventory(v) == InventoryBegin(v) \/ InventoryStore(v)

DeletePortCheck(c) == \/ CheckBegin(c) \/ CheckClear(c)
                      \/ CheckDelete(c) \/ CheckCommit(c)

DeleteDevice(d) == \/ DropBegin(d) \/ DropResults(d) \/ DropChecks(d)
                   \/ DropCascade(d) \/ DropProcesses(d) \/ DropCommit(d)

UpdateThresholds(p) == PatchBegin(p) \/ PatchRefused(p) \/ PatchCommit(p)

Step(t) == \/ Unknown(t) \/ Victim(t) \/ Retry(t)
           \/ t \in Reports /\ Ingest(t)
           \/ t \in Inventories /\ IngestInventory(t)
           \/ t \in Removals /\ DeletePortCheck(t)
           \/ t \in Drops /\ DeleteDevice(t)
           \/ t \in Patches /\ UpdateThresholds(t)

Next == \E t \in Requests : Step(t)

Spec == Init /\ [][Next]_vars

\* PostgreSQL grants row locks in the order they were asked for: a request that
\* can go on again and again does go on.
FairSpec == Spec /\ \A t \in Requests : SF_vars(Step(t))

-----------------------------------------------------------------------------
\* The tables hold rows of their kind, and a transaction that has not begun or
\* has ended holds no lock.
TypeOK ==
    /\ device \in BOOLEAN
    /\ thresholds \in [warning : Nat, critical : Nat]
    /\ checks \subseteq Checks
    /\ results \subseteq Checks \X Reports
    /\ metrics \subseteq Reports
    /\ procs \subseteq Reports
    /\ inventory \subseteq Inventories
    /\ \A t \in Requests : tx[t].pc \in Answered \union {"begin"} =>
           tx[t] = [Fresh EXCEPT !.pc = tx[t].pc]

\* The foreign keys of server/app/main.py:71-154 hold however a deletion meets
\* the reports: no result outlives its check, no row outlives the device.
NoOrphans ==
    /\ results \subseteq checks \X metrics
    /\ ~device => checks \union results \union metrics \union procs \union inventory = {}

\* server/app/main.py:506 "Replace it atomically on each report": whatever
\* reports arrive together, running_processes holds the rows of one of them.
ProcessListWhole == Cardinality(procs) <= 1

\* A report that was answered with success is stored whole: its metric and a
\* result for every check it covers that has not been deleted since.
AckedStored ==
    \A r \in Reports : (tx[r].pc = "ok" /\ device) =>
        r \in metrics /\ (checks \X {r}) \subseteq results

\* Nobody else in the batch deletes the check c deletes, or the whole device.
Undisputed(c) ==
    \A u \in Others(c) : tx[u].pc # "absent" =>
        u \notin Drops /\ (u \in Removals => Target(u) # Target(c))

\* server/app/main.py:586 "avoids a 500 error": the deletion of a check does not fail,
\* with reports for that check arriving at any moment, unless another operator deletes
\* the same rows: it may then be the victim of a deadlock with that request.
CheckDeletionSucceeds ==
    \A c \in Removals : Undisputed(c) => tx[c].pc # "error"

\* On a device that is kept, the operators who delete a check get rid of it, however
\* their requests are answered: when one of them has been answered, even with an error,
\* the check is gone or another of them is still under way.
DeletionTakesEffect ==
    \A c \in Removals :
        /\ \A d \in Drops : tx[d].pc = "absent"
        /\ tx[c].pc \in Answered \ {"absent"}
        => \/ Target(c) \notin checks
           \/ \E u \in Removals : Target(u) = Target(c) /\ tx[u].pc \notin Answered

\* An update of the thresholds that was answered with success is not undone by
\* the reports that update the same row.
ThresholdsKept ==
    \A p \in Patches : (tx[p].pc = "ok" /\ device) =>
        thresholds = [warning |-> Warning(p), critical |-> Critical(p)]

Succeeded == {t \in Requests : tx[t].pc = "ok"}

Store == INSTANCE DeviceStore WITH succeeded <- Succeeded

\* Statement by statement and side by side, the requests have the effect of whole
\* requests, one after the other, and those that fail have none.
StoreSpec == Store!Spec

\* Nothing waits for ever, and the agent's retries get every report and every
\* inventory stored unless the device is deleted.
Settled == /\ \A t \in Requests : tx[t].pc \in Answered
           /\ \A t \in Reports \union Inventories : tx[t].pc \in {"absent", "ok", "unknown"}

EverythingAnswered == <>[]Settled

\* server/app/main.py:565 "Warning threshold must be below critical threshold".
ThresholdsOrdered == thresholds.warning < thresholds.critical
=============================================================================
