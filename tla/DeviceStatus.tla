---------------------------- MODULE DeviceStatus ----------------------------
(***************************************************************************)
(* What the dashboard says of a device (server/app/main.py): the rows that *)
(* ingest stores and cleanup_metrics deletes, the port checks and process  *)
(* monitors an operator adds and deletes, and the status that              *)
(* serialise_device and device_health make of them.                        *)
(*                                                                         *)
(* Three notions of "latest" meet there: the disks of the report that was  *)
(* recorded last, the port results that were stored last, and the          *)
(* processes of the report that arrived last.  Reports are numbered in the *)
(* order they were recorded in and may arrive late, out of order or twice  *)
(* (NativeAgent has the reasons).  A row is named by its report; the       *)
(* requests are atomic here (ServerStore takes them apart).  Time runs in  *)
(* steps of 90 seconds.                                                    *)
(***************************************************************************)
EXTENDS Integers, Sequences, FiniteSets

CONSTANTS Contents,    \* what a device may be like: [disks, answers, silent, procs]
          Checks,      \* the port checks an operator may add
          Lenient,     \* those over UDP that do not expect a response
          Names,       \* the processes an operator may monitor, case-folded
          Retention,   \* metric_retention_days, in steps
          Skews,       \* by how much the agent's clock may differ from the server's
          MaxReports,  \* bound on the reports recorded
          MaxArrivals, \* bound on the reports that arrive
          MaxTime      \* bound on the clock

WarningDisk == 80      \* warning_disk_percent
CriticalDisk == 90     \* critical_disk_percent
DelayedAfter == 1      \* 90 seconds
OfflineAfter == 2      \* 180 seconds

ASSUME ContentsAssumption ==
    /\ Lenient \subseteq Checks
    /\ \A c \in Contents : /\ c.disks \subseteq 0..100
                           /\ c.answers \union c.silent \subseteq Checks
                           /\ c.answers \intersect c.silent = {}
                           /\ c.procs \subseteq Names

ASSUME ClocksAssumption == Skews \subseteq Int /\ Retention \in Int

ASSUME BoundsAssumption == {MaxReports, MaxArrivals, MaxTime} \subseteq Nat

VARIABLES now,       \* the server's clock
          skew,      \* how far the agent's clock is ahead of it
          reports,   \* the reports recorded so far, with their time by the agent's clock
          arrived,   \* their numbers, in the order they were stored
          lastSeen,  \* when the last one was stored
          disks,     \* disk_metrics: the reports whose rows are there
          results,   \* port_results: <<report, check>>
          checks,    \* port_checks
          unused,    \* the checks that have not been added yet
          monitors   \* process_monitors

vars == <<now, skew, reports, arrived, lastSeen, disks, results, checks, unused, monitors>>

Init == /\ now = 0 /\ skew \in Skews /\ reports = <<>> /\ arrived = <<>> /\ lastSeen = 0
        /\ disks = {} /\ results = {} /\ checks = {} /\ unused = Checks /\ monitors = {}

Greatest(S) == CHOOSE x \in S : \A y \in S : y <= x

-----------------------------------------------------------------------------
(* serialise_device and device_health.                                      *)

\* Plausible slip: every row that is stored.
StoredDisks == UNION {reports[n].disks : n \in disks}

\* latest_disks: the rows with the greatest recorded_at.
LatestDisks == IF disks = {} THEN {} ELSE reports[Greatest(disks)].disks

\* Plausible slip: any failure that is stored.
FailedEver == {c \in checks : \E x \in results : x[2] = c /\ c \in reports[x[1]].down}

\* failed_ports: the result with the greatest id of each enabled check.
FailedPorts ==
    {c \in checks : LET ids == {i \in DOMAIN arrived : <<arrived[i], c>> \in results}
                    IN ids # {} /\ c \in reports[arrived[Greatest(ids)]].down}

\* get_device: the result with the greatest recorded_at of each check.
ShownDown ==
    {c \in checks : LET rows == {n \in 1..Len(reports) : <<n, c>> \in results}
                    IN rows # {} /\ c \in reports[Greatest(rows)].down}

\* running_processes holds those of the report that was stored last.
RunningNames == IF arrived = <<>> THEN {} ELSE reports[arrived[Len(arrived)]].procs

FailedProcesses == monitors \ RunningNames

DeviceHealth(age, percents, ports, processes) ==
    IF arrived = <<>> THEN "unknown"
    ELSE IF age > OfflineAfter THEN "offline"
    ELSE IF \/ \E p \in percents : p >= CriticalDisk
            \/ processes # {}
            \/ Cardinality(ports) >= 2
         THEN "critical"
    ELSE IF \/ Cardinality(ports) = 1
            \/ \E p \in percents : WarningDisk <= p /\ p < CriticalDisk
            \/ age > DelayedAfter
         THEN "warning"
    ELSE "healthy"

Status == DeviceHealth(now - lastSeen, LatestDisks, FailedPorts, FailedProcesses)

-----------------------------------------------------------------------------
Tick == /\ now < MaxTime
        /\ now' = now + 1
        /\ UNCHANGED <<skew, reports, arrived, lastSeen, disks, results, checks, unused, monitors>>

\* CheckPort: a port is up when it answers, or when it keeps silent until the
\* timeout and no response is expected; any other error means it is down.
PortsUp(c) == c.answers \union (c.silent \intersect Lenient)

\* collectPayload: the agent records a report about the checks there are.
Record(c) ==
    /\ Len(reports) < MaxReports
    /\ reports' = Append(reports, [at |-> now + skew, disks |-> c.disks, procs |-> c.procs,
                                   up |-> checks \intersect PortsUp(c),
                                   down |-> checks \ PortsUp(c)])
    /\ UNCHANGED <<now, skew, arrived, lastSeen, disks, results, checks, unused, monitors>>

\* ingest: results of checks that are gone are dropped.
Ingest(n) ==
    /\ Len(arrived) < MaxArrivals
    /\ arrived' = Append(arrived, n) /\ lastSeen' = now
    /\ disks' = IF reports[n].disks = {} THEN disks ELSE disks \union {n}
    /\ results' = results \union
                  {<<n, c>> : c \in (reports[n].up \union reports[n].down) \intersect checks}
    /\ UNCHANGED <<now, skew, reports, checks, unused, monitors>>

Expired == {n \in 1..Len(reports) : reports[n].at < now - Retention}

\* Plausible slip: a cutoff that is as near as a device may be silent.
CleanupTooSoon ==
    LET old == {n \in 1..Len(reports) : reports[n].at < now - OfflineAfter + 1}
    IN /\ disks' = disks \ old
       /\ results' = {x \in results : x[1] \notin old}
       /\ UNCHANGED <<now, skew, reports, arrived, lastSeen, checks, unused, monitors>>

\* cleanup_metrics.
Cleanup ==
    /\ disks' = disks \ Expired
    /\ results' = {x \in results : x[1] \notin Expired}
    /\ UNCHANGED <<now, skew, reports, arrived, lastSeen, checks, unused, monitors>>

AddCheck(c) ==
    /\ c \in unused
    /\ checks' = checks \union {c} /\ unused' = unused \ {c}
    /\ UNCHANGED <<now, skew, reports, arrived, lastSeen, disks, results, monitors>>

\* delete_port_check: the results go with the check.
DeleteCheck(c) ==
    /\ c \in checks
    /\ checks' = checks \ {c} /\ results' = {x \in results : x[2] # c}
    /\ UNCHANGED <<now, skew, reports, arrived, lastSeen, disks, unused, monitors>>

AddMonitor(m) ==
    /\ m \notin monitors
    /\ monitors' = monitors \union {m}
    /\ UNCHANGED <<now, skew, reports, arrived, lastSeen, disks, results, checks, unused>>

DeleteMonitor(m) ==
    /\ m \in monitors
    /\ monitors' = monitors \ {m}
    /\ UNCHANGED <<now, skew, reports, arrived, lastSeen, disks, results, checks, unused>>

Next == \/ Tick \/ Cleanup
        \/ \E c \in Contents : Record(c)
        \/ \E n \in DOMAIN reports : Ingest(n)
        \/ \E c \in Checks : AddCheck(c) \/ DeleteCheck(c)
        \/ \E m \in Names : AddMonitor(m) \/ DeleteMonitor(m)

Spec == Init /\ [][Next]_vars

-----------------------------------------------------------------------------
\* Rows are of reports that were stored and, the results, of checks there are.
TypeOK ==
    /\ now \in 0..MaxTime /\ lastSeen \in 0..now /\ skew \in Skews
    /\ \A i \in DOMAIN arrived : arrived[i] \in DOMAIN reports
    /\ disks \subseteq {arrived[i] : i \in DOMAIN arrived}
    /\ results \subseteq {arrived[i] : i \in DOMAIN arrived} \X checks
    /\ checks \intersect unused = {} /\ monitors \subseteq Names

\* No report has been overtaken by another.
InOrder == \A i, j \in DOMAIN arrived : i < j => arrived[i] <= arrived[j]

Last == reports[arrived[Len(arrived)]]

\* A report that says something about the disks and about every check.
Complete(r) == r.disks # {} /\ checks \subseteq r.up \union r.down

\* By its own time, which is the agent's, a report is within the retention.
Retained(r) == now - r.at <= Retention

\* The last report is the newest one that was stored: whatever was overtaken
\* before, a newer report has come since.  It is complete and has not expired.
UpToDate == /\ arrived # <<>> /\ Complete(Last) /\ Retained(Last)
            /\ \A i \in DOMAIN arrived : arrived[i] <= arrived[Len(arrived)]

\* The status is a verdict on one report: unless the last one overtook a newer
\* one, the disks, ports and processes it weighs are all those of the last report,
\* and no older row decides, whatever has come late or twice before and whatever
\* has been deleted or cleaned up meanwhile.
StatusOfLastReport ==
    UpToDate => Status = DeviceHealth(now - lastSeen, Last.disks, Last.down \intersect checks,
                                      monitors \ Last.procs)

\* The list of devices (serialise_device, by id) and the page of one device
\* (get_device, by time) name the same failing checks as long as no report was
\* overtaken, results that were stored twice included, and again as soon as a
\* newer report is complete.
ViewsAgree == InOrder \/ UpToDate => FailedPorts = ShownDown

\* cleanup_metrics does not change the verdict on a device whose last report was
\* complete and is within the retention by its own time, whatever else it deletes,
\* nor that on a device which is offline anyway.
CleanupKeepsStatus ==
    [][Cleanup /\ arrived # <<>> /\ Complete(Last)
           /\ (Retained(Last) \/ now - lastSeen > OfflineAfter) => Status' = Status]_vars
=============================================================================
