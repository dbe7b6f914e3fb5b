# EITS Monitor: specifications

TLA+ specifications of EITS Monitor: the agents that run on the monitored machines
(the native one and the older Docker one), the server that stores and judges their
reports, and the programs that run, reconfigure and replace the agent on Windows. TLC
checks them on small instances; TLAPS proves the safety properties for every value of
the constants.
`PROJECT.json` lists the components, the runs, the mutants that every property
tells from the code, the source lines of every definition, the disagreements
between code and documents, and the hazards the properties are aimed at.

## The system

| Part | Source | State | Operations |
|---|---|---|---|
| Agent: enrollment | `native-agent/internal/agent`, `config` | `config.json` (with the enrollment token), `identity.json`, the identity in memory | start, load or enroll, save, drop the token |
| Agent: reporting | `agent`, `queue`, `transport`, `collector` | `metrics.queue`, the sample in hand, the time of the last inventory | flush the queue, send the inventory, fetch the checks, collect, post, queue |
| Server: requests | `server/app/main.py` | tables of devices, thresholds, checks, results, metrics, disks, processes, monitors, inventory | enroll, config, ingest, inventory, add and delete checks, monitors and devices, thresholds |
| Server: status | `server/app/main.py` | none of its own | the verdict on a device, its page, daily clean-up |
| Windows service host | `windows-agent/Eits.Agent.Service` | the engine it supervises, a cancellation | start, stop, supervise |
| Windows control helper | `windows-agent/Eits.Agent.Control` | `config.json.previous`, the identity that was moved away | start, stop, restart, install, change connection |
| Windows Manager | `windows-agent/Eits.Agent.Manager` | none | shows the status, asks for a helper |
| Native updater | `native-agent/cmd/eits-agent-updater` | programs and their backups | stop, replace, start, roll back |
| Update scripts | `native-agent/updater`, `server-maintenance` | the program, its `.bak`, the agent's task | compare, download, stop, back up, replace, start, restore |
| Docker agent | `agent` | an identity file, the last CPU reading, the time of the last inventory | enroll, collect, post |
| CPU share | `agent`, `native-agent/internal/collector` | none | the percentage two readings of the counters make |
| Web dashboard | `web` | what it fetched last | poll, show |

The agent talks to the server over HTTP with a credential of its own; a request
may be lost, time out while the server goes on with it, or arrive after a newer
one. The processes of one machine share its files without locks. The server's
handlers run side by side in threads, each in a database transaction at READ
COMMITTED, and meet in row locks and foreign keys. On Windows the helper, the
service host, the engine and the operator share the service and two files.

What is hard: crashes between two writes; a non-atomic write of a file that
another process reads; duplicates and reordering by retries; handlers that act
on rows they read earlier; locks taken in opposite orders; deadlines that race
with late success; errors that are ignored.

What makes each part correct:

- *Enrollment*: a machine never loses both its token and its identity, reports only with
  the identity on disk, which the server issued, and gets one in the end. With the token
  gone it never replaces it; while the token is still there, a failed read does.
- *Reporting*: a sample is stored or still held, unless it was evicted from a
  full queue or a fault took it; it is not duplicated without a fault; the queue
  drains; the inventory arrives.
- *Requests*: foreign keys hold, acknowledged reports are whole, a deletion of a check
  succeeds unless another operator deletes the same rows, and takes effect even then;
  concurrent updates do not undo each other, everything is answered.
- *Status*: the verdict is about the last report, both views agree, and the
  clean-up does not change it while that report is within the retention.
- *Change of connection*: the device reports to the new server or, after a
  rollback, to the old one, as far as an enrollment that has begun lets it; the old
  identity is not lost; the helper ends.
- *Native update*: all programs or none; a rollback brings back what there was.
- *Update script*: after an error it brings back the program it has found; a torn program
  has a backup from which a later run can start, and is whole again after some run.
- *Docker agent*: it reports as the device whose identity is on disk; however
  often it is started it makes no more devices than faults explain; it speaks of no work
  twice but that in guests; it goes on reporting.

## Modules

| Module | Models | Checked by |
|---|---|---|
| `Enrollment` | `ensureIdentity` in every agent process of a machine, `enroll` | runs `enrollment_one`, `enrollment_two` |
| `ReportDelivery` | what the reporting loop promises: an outbox whose samples leave when they are stored | implemented by `NativeAgent` |
| `NativeAgent` | `Run`, `Once`, `flushQueue`, `sendInventory`, `collectPayload`, the queue, the posts, `ingest` as the agent sees it | `agent_delivery`, `offline_queue` |
| `DeviceStore` | what the handlers promise together: requests that take effect one at a time, each as a whole | implemented by `ServerStore` |
| `ServerStore` (`MCServerStore`) | five handlers, one step per SQL statement | `server_requests`, `thresholds` |
| `DeviceStatus` (`MCDeviceStatus`) | `device_health`, the queries behind it, `get_device`, `cleanup_metrics`, checks and monitors | `device_status` |
| `Reconnect` | `ReconfigureAsync`, the service host, its engines, the operator, a power loss | `reconnect_change`, `rollback` |
| `Updater` (`MCUpdater`) | the native updater | `updater_replace` |
| `CpuShare` | `readCPU` and `cpuPercent` of the Docker agent, `calculateCPU` of the native one | through `DockerAgent` |
| `DockerAgent` | `main` of the Docker agent with its restarts, the device it enrolls, the CPU counters | `docker_agent` |
| `ScriptUpdater` | `update-agent.ps1`, run day after day, the agent's task, the copy of `install-agent.ps1` by hand | `script_updater` |
| `EnrollmentProofs`, `NativeAgentProofs`, `ServerStoreProofs`, `DeviceStatusProofs`, `ReconnectProofs`, `UpdaterProofs`, `DockerAgentProofs`, `ScriptUpdaterProofs` | theorems | the proof system |

A handler that can be interrupted is one action per step that others can see:
one per write or truncation of a file in `Enrollment`, one per SQL statement in
`ServerStore`, one per call that changes a file or the service in `Reconnect`.
`pc` (or the field `pc` of a process, an engine or a transaction) says which step
is next. A definition whose comment says *plausible slip* is a variant of a
definition below it, as a bug would make it; no specification uses it, and the
mutants of `PROJECT.json` put it in the definition's place.

**Enrollment.** `cfgFile` and `idFile` are the two files: an identity is the
number of the request it was issued for, `NoId` a file that is missing or does
not parse. `proc` holds what a process remembers: its step, its copy of the
token, its identity. A save truncates and then writes, with a crash possible in
between. Any error of `os.ReadFile` passes for a missing identity (`ReadIdentityFails`): a
process that still has the token then enrolls over a good identity. `Report` is the rest of
a cycle, which sends what is in memory. The device rows are numbered by their requests, so
an answer that was lost leaves a row that no identity names.

**NativeAgent.** A sample is its number in the order of collection. `queue` is
the file, `rows` and `acked` are the local variables of `flushQueue`, `cur` is
the payload in hand. `req` is the request the client waits for; one it has given
up moves to `late` and may be applied at any later time. `Queue.Replace` renames
a complete file into place, so it is one step. A sample in `Rejected` is answered
with an error for ever (a payload that validation refuses), which stops every
flush there, as the code does.

**ReportDelivery.** Its outbox is the queue followed by the payload in hand. Its
steps are to take a sample, to store one, perhaps again, to release stored ones
from an end, to evict the oldest above the capacity, and to forfeit samples
through one of `MaxFaults` faults.

**ServerStore.** A request is named by what it carries. The `tx` record of a
request holds its next statement, what its last query saw, the device object
SQLAlchemy loaded, and its locks. `Blockers` gives PostgreSQL's conflicts: an
update of the device row with another, the insertion of results (which locks
their checks) with the deletion of those checks, deletions of the same rows. The DELETE
of a check, alone or with the device, is two steps: the row of the check, and then
(`"cascade"`) the result rows the foreign key takes along, which another deletion may have
locked. Otherwise a statement takes all its row locks at once. A deadlock rolls one of two requests
back; the agent posts its request again. Foreign
keys are checked where PostgreSQL does: `ingest` fails for a check that is gone,
`delete_device` for rows that were inserted behind it.

**DeviceStore.** The tables again, with one step for a whole request: a report with a
result for every check there is, an inventory, a deletion, an update of the thresholds.
`succeeded` are the requests that were answered with success; one that fails or is
refused takes no step. The refinement maps the tables to themselves and `succeeded` to
the requests of `ServerStore` whose `pc` is `"ok"`. One thing is weaker than one would
like, because the code is: threshold updates that come together may mix
(`MixThresholds`, the run `thresholds`). A check that another operator has deleted
meanwhile is deleted again with success, as the handler does.

**DeviceStatus.** Rows are named by the report they came with, in the order the
reports were recorded in; `arrived` is the order they were stored in, so
"latest by time" and "latest by id" differ exactly when reports overtake each
other. Time runs in steps of 90 seconds, the unit of `device_health`,
on the server's clock; a report carries the agent's, which is off by `skew`. A report may be
of any age when it arrives.
`PortsUp` is `CheckPort`: a UDP check may take silence for an answer. Requests are
atomic here, which the refinement of `DeviceStore` by `ServerStore` allows.

**Reconnect.** `identity` says which server issued `identity.json`, or that it is missing or
torn, and `config` which server `config.json` names and whether it holds a token. An engine
reads both as `ensureIdentity` does, where a failed read passes for a missing identity.
Engines and helper truncate a file before they write it, so a kill or a power loss leaves
it torn, and what two of them write at once may be a mixture, which is torn too. The helper
tests only that `identity.json` exists. `sup` is the step of the supervisor, `child` the
engine it started last, and an engine that the stop does not reach keeps its
slot: it goes on with what it has read. An engine killed by the host takes its
own children with it; one that loses its supervisor does not end. `leftover` says whether
the old `config.json` still holds a token, as it does when `config.Save` failed after the
enrollment: an engine that survives the stop then enrolls with the old server once its
identity has been moved away, and the helper takes that identity for the new one. A catch
block that fails is the end `"broken"`, one of which nothing is promised.

**Updater.** `installed` and `backup` give the version of each program; `busy`
are the programs that run and so cannot be overwritten; `ignored` records that
the error of a backup or a restore was dropped, as `_ = copyFile` does.

**CpuShare.** A reading is the idle and the total counter, a word each; a difference that
is negative wraps, as `uint64` does. `ReadCPU` makes one of the CPU line of `/proc/stat`:
it sums all fields, the two of guests included, which `user` and `nice` already contain. A
percentage is kept as the fraction it is computed from, so that nothing is rounded.
`CpuPercent` and `CalculateCPU` differ in one guard: the native agent reports nothing when
the idle time grew by more than the total.

**DockerAgent.** `stateFile` is the file of `saveIdentity`, torn or missing as `NoId`, and
`id` what `main` holds. A device has the number of the request it was enrolled by, so that
a device no agent knows of can be counted. `lastCPU` is the reading the next share starts
from; a `readCPU` that fails leaves `Unread` there, since its error is ignored. The
counters `cpu` of the machine (idle, work, and the part of it done in guests) move on
beside the agent; iowait may go back on Linux. `since` and `counted` are history: the
counters when this process began, and the busy time its samples have spoken of. The agent
keeps no queue: a post that fails is a lost sample. After `log.Fatal` or a stop Docker
starts the process again.

**ScriptUpdater.** A program is the number of its release or, where a copy was cut short,
torn: `Refused`, which Windows does not start, so that line 20 throws, or `Crashing`,
which starts and ends without an answer; its exit code is not looked at, and the script
takes it for an old version. `agent` is its task: to end it takes time, and the script
waits two seconds before it replaces the program but not before it restores it, and the
installer not at all, so a program may still run and refuse to be overwritten. Between
`idle` and `idle` lies a run, or a run of the installer; the catch block is entered from
every step that can throw, also with a `.bak` of an earlier run in the directory. `latest`
is the release GitHub lists first, which may be withdrawn: only inequality is tested, so
the script also goes back, and over a newer program installed by hand. `found`, `dirty`
and `cut` are history: the program this run has found, a run that ended without removing
its backup, and whose copies were cut short. `bad` are the releases whose agent does not
stay up. Downloading, checking and unpacking a release are one step that may fail.

## Runs

Runs that pass:

- `enrollment_one` (one process, four faults; 4 thousand states): `NeverStranded`,
  `IdentityDurable`, `IdentityKept` and `EventuallyReporting` hold wherever the
  faults strike. Four faults are enough for a failure in each of the two saves,
  the request and the answer of one enrollment, or for a save of the configuration that
  fails, a read that fails and two failures in the enrollment that follows.
- `enrollment_two` (service and command, two faults; 71 thousand states): two processes
  may both enroll, and the second overwrites the first one's file. `IdentityKept` and
  `IdentityDurable` are then false, and what the code does ensure is stated instead: every
  identity in use was issued (`IssuedIdentity`) and the processes come to use the one on
  disk, because every cycle loads the file again (`AgentsConverge`). `DevicesBounded`: the
  server has no more devices than processes and faults explain.
- `agent_delivery` (a queue of two, five samples, the second refused, three faults; 162
  thousand states): the queue overflows and blocks at the refused sample; what was
  collected before it drains, what comes after waits until it is evicted. `NativeAgent`
  implements `ReportDelivery`; `DuplicatesBounded`, `QueueInOrder`, `QueueDrains`,
  `InventorySent`.
- `server_requests` (six batches of at most six requests; 29 thousand states):
  `NoOrphans`, `ProcessListWhole`, `AckedStored`, `CheckDeletionSucceeds`,
  `ThresholdsKept`, `EverythingAnswered`, `StoreSpec` (the requests implement
  `DeviceStore`) and `DeletionTakesEffect`. The batches
  put every pair of handlers side by side, two reports, two inventories and two
  deletions of one check among them. The comment in `main.py:586`, that a deletion "avoids a
  500 error", holds beside reports (`CheckDeletionSucceeds`); beside a deletion of the same
  check, or of the device, each may wait for a row of the other, and one is answered 500.
  The check goes all the same (`DeletionTakesEffect`). Deadlocks are rings of two;
  requests that waited for each other in a longer one would violate `EverythingAnswered`.
- `device_status` (two reports that arrive up to three times, two checks, one monitor, an
  agent's clock that is behind or ahead, clock and retention just long enough for a report
  to expire; 5.6 million states): `StatusOfLastReport`, `ViewsAgree`,
  `CleanupKeepsStatus`. The first two need reports that came in order, or (`UpToDate`) a
  last report that is complete and the newest there is: whatever a late report has upset,
  the next complete one sets right. `StatusOfLastReport` and `CleanupKeepsStatus` are about
  a last report that is within the retention by the agent's clock, the latter also about a
  device that is offline. Nothing in the code sees to that: the queue is bounded in number and not in age, the agent's clock
  may be wrong, and `METRIC_RETENTION_DAYS` has no minimum. Without it a clean-up can turn
  a critical device that is online into a healthy one.
- `reconnect_change` (three engines, one fault; 559 thousand states): a fault is a failed
  step or read, a request of the operator or a power loss, at any moment, on top of the
  engines that the stop kills in the middle of a write, and of a token that was left in
  the old `config.json` or not. Three slots are enough: the supervisor never waits for a
  free one. `OldIdentityKept`, `Reconnected`, `RolledBack`, `HelperEnds`,
  `ReportsAfterwards`, `EngineSupervised`; the first three are proved for any number of
  faults. `Reconnected` is what the helper's OK means: it tests that `identity.json`
  exists, so the file may be one that an engine is still writing. A power loss then makes
  the engine enroll again, with the token that is still there; one that cuts off the save
  of `config.json` after it leaves a file with which no engine starts (`ReportsAfterwards`
  is about whole files). With a token left in the old `config.json` not even that holds:
  an engine that has survived the stop enrolls with the old server, and OK is reported.
  `RolledBack` is what remains of the document's "rolls back on failure", which the run
  `rollback` refutes: the old identity is beside the old configuration unless a new
  enrollment has overtaken the rollback, or was cut off by its stop.
- `updater_replace` (five programs, any package, two faults; 42 thousand states):
  `UpdateIsWhole`, `RollbackIsWhole`, `StartsUnmixed`.
- `docker_agent` (words of three bits, two faults, counters up to three; 554 thousand
  states): `OrphansBounded`, `WorkCountedOnce`, `KeepsReporting`. Two faults are
  enough for an enrollment that is lost and an identity that cannot be read, or for a
  reading that fails and an idle time that goes back. `WorkCountedOnce` allows for
  the guests' work what the code does: to count it twice.
- `script_updater` (three releases, any of them bad, four faults; 362 thousand states):
  `RestoresFound`, `TornIsBackedUp`, `Heals`. Three releases let a stale backup be two
  releases old when it is restored over one that was installed by hand; four faults tear
  the program, its backup and their restoration. The exceptions the properties make are
  the code's: a backup that an earlier run left, a copy to `.bak` that was cut short over
  the last whole program, and the installer, which makes no backup.

The type invariants are proved for every value of the constants; only the runs in which
one says more than types (`agent_delivery`, `updater_replace`) check them too.

Runs that end in a violation, each of a statement that a document or a comment
makes and the code does not keep (`PROJECT.json`, "findings"):

- `offline_queue`: the "offline metric queue" stays empty while the server cannot
  be reached, because `collectPayload` fetches the configuration before it collects.
- `thresholds`: two threshold updates at once leave warning above critical.
- `rollback`: an engine that the stop kills while it writes `identity.json` leaves a torn
  one beside the old server's configuration, while the old identity stays where it was
  moved to; one that enrolls just after the deadline leaves the new server's identity
  there.

Some things the models show are no property of a run, since no document says otherwise:
the enrollment token stays in `config.json` for good when the one save that removes it
fails, and then a failed read of `identity.json` replaces a good identity; a report that
comes late replaces the process list of a newer one until the next report comes;
`update-agent.ps1` installs an older release when the newest one is withdrawn.

Deadlock is checked in the runs of the two agents and of the update script. The others
switch it off, because their systems do stop: an agent does not start with a
`config.json` that was cut off, all requests are answered, the clock of
`DeviceStatus` and the numbers of reports end, the helper and the updater end with
the service stopped.

## Fairness

- `Enrollment`, `NativeAgent`: weak fairness of each agent process's steps (the
  operating system runs it, the service manager starts it again, every request has
  a timeout) and of the server's steps (it answers what it received, and comes back
  when it was down). No fault is fair, and the operator's stop and the
  passing of a day are not either.
- `ServerStore`: strong fairness of each request. PostgreSQL queues the waiters for a
  row lock and grants it in order, so a request that can run again and again does;
  weak fairness would let others take the lock for ever between two of its turns.
- `DockerAgent`: weak fairness of the agent's steps, of which `Load` and `SendEnroll`
  are also Docker's restart (`restart: unless-stopped` in `docker-compose.yml`), and of
  the server's enrollment. Faults, the counters, the day and the operator who
  deletes a device are not fair.
- `ScriptUpdater`: weak fairness of the script, which the task scheduler runs every day
  and Windows goes on running, of an installer that was started, and of an agent that was
  told to end. Releases, installations by hand and failures are not fair.
- `Reconnect`: weak fairness of the host, of the helper (its waits have deadlines)
  and of each engine. Operators and failures are not fair.
- `DeviceStatus`, `Updater`: safety only.

## Bounds

`MaxFaults` (faults of every kind together), `MaxSamples`, `MaxReports`, `MaxArrivals`,
`MaxTime`, `MaxEngines`, `MaxTicks` and `MaxRelease` are bounds of the model, in the
guards of the actions they bound; the code has none of them. `MaximumRecords`, `Retention`
and the thresholds are settings of the code, `Skews` is how far the agent's clock may be
off, and `Word` is the number of values of a machine word, 2^64 in the code and 8 in the
run. The theorems hold for every value of them.

## Proofs

Assumptions are the named `ASSUME`s of the modules, nothing else: natural numbers as
bounds; a queue of at least one record (`config.Load` sees to that); names of requests
and rows that do not collide, and no two operators who delete the device at once;
thresholds that are numbers; programs that are listed once;
CPU counters that stay within their word, the guests' time counted twice;
reports about checks that exist; a word of at least two values. TLC
evaluates each of them.

- `EnrollmentProofs`: the types and `IssuedIdentity` for any set of processes.
  For a machine with one process, `NeverStranded`, `IdentityDurable` and
  `IdentityKept`. The invariant relates what the process holds at each step to the
  files: what it reports with is on disk; a process that can still get a token finds it
  in `config.json` (`TokenOnDisk`), and one that saves the configuration has written the
  identity before (`IdentityFirst`). `FailuresExplain` counts: an identity beside a token
  has cost one fault, and an enrollment while there is an identity another one, the failed
  read. `DevicesBounded` holds for every finite
  set of processes: while `config.json` has the token, every request that nothing befell
  is still under way (`Enrolling`), since it ends by taking the token away; from then on
  nobody gets a token, and each process that has one in memory (`Eager`) asks once more
  (`Accounted`).
- `NativeAgentProofs`: the types, `QueueInOrder`, `DuplicatesBounded`, and
  `AgentDelivers`: every step of `NativeAgent` is a step of `ReportDelivery` or leaves
  its variables alone. The invariant `Inv` adds that `rows` is the queue while it is
  uploaded (so that what `Replace` keeps is what was not acknowledged), that the sample
  in hand is newer than every queued one, and that every acknowledged row is stored.
  `DuplicatesBounded` alone says nothing of the copies that are still to come;
  `Weighed` counts the stored copies of a sample, its requests that may still be
  handled, and one more while the agent is going to post it: this weight is at most
  one above the number of faults, and only a fault makes it grow.
- `ServerStoreProofs`, for any requests: the types, `ProcessListWhole`, `NoOrphans`,
  `AckedStored`, `CheckDeletionSucceeds`, `DeletionTakesEffect`, and `ThresholdsKept` where
  at most one update of the thresholds is in a batch (`Lone`; two are the run
  `thresholds`). A report holds the lock of the device row from its first UPDATE to its
  commit (`Locked`, `Exclusive`), so the rows it found and deleted are all there are
  (`Cleared`). `Local` says for each kind of request what a transaction holds at each
  statement. `Whole` adds what a report relies on: past its insertion of results it has
  share locks on all checks there are (`Covers`), so that none of them goes until it
  commits. `Held`: no report has locked a check while it is being deleted. `Disputes` shows
  why the deletion of a check is not the victim of a deadlock beside reports: of those it
  waits for, its cascade's waits included, only a deletion of the same check or of the
  device ever waits for it. And the check goes all the same, since of the deletions of one
  check that have begun the last one to be answered finds nobody to wait for that waits for
  it (`TakesStep`). `RequestsAreAtomic` is the refinement of `DeviceStore`: a request takes
  effect in the step that answers it with success (`Success`), and its other steps change
  no row that others see (`Invisible`). What it commits is then what `DeviceStore` does in
  one step because of `Cleared` and `Covers`, and because (`Begun`) the device is still
  there for its deletion and an update that goes on is in order.
- `DeviceStatusProofs`, for any reports, checks, monitors and clocks, and any retention:
  the types, `StatusOfLastReport`, `ViewsAgree` and `CleanupKeepsStatus`. The invariant
  says that reports are numbered in the order of their times, that a check that is to be
  added was never reported about, and (`Stored`) that whatever a report that has not
  expired says of disks and of existing checks is in the tables. "Latest by time" and
  "latest by id" then choose the same row; that a latest one exists is an argument by
  well-foundedness (`GreatestExists`). For reports out of order, what `InOrder` gives of
  all reports is needed of the last one alone when it is the newest (`UpToDateIsRecent`,
  `UpToDateAgrees`).
- `ReconnectProofs`, for any number of engines and faults: the types, `OldIdentityKept`,
  `Reconnected` and `RolledBack`, the three where the old `config.json` holds no token,
  which no step changes (`Frozen`). The argument is about tokens: only a configuration for
  the new server holds one (`TokensAreNew`), so an engine that enrolls, however late,
  enrolls there; as long as there is no token nobody writes the identity (`Tokenless`),
  and once there is, the old identity has been moved away (`Kept`), and what is written in
  its place is new or torn (`Changed`). Only an engine that has truncated the identity
  writes the configuration (`Restored`).
- `UpdaterProofs`: the types, `UpdateIsWhole`, `RollbackIsWhole` and the action
  property `StartsUnmixed` for any list of programs, any package and any number of
  faults. Programs before the loop's index
  are replaced and backed up, those after it untouched; a rollback has restored those
  before its index.
- `DockerAgentProofs`, for words of any width and any counters: the types,
  `OrphansBounded`, `WorkCountedOnce`, and `IdentityDurable` (the agent reports as the
  device on disk, which no run checks by itself). The invariant says how many requests the
  faults explain at each step, and that the busy time counted so far ends where the last
  reading was taken, with the guests' part in it twice. `NativeShareInRange` and
  `DockerShareOutOfRange` are about `CpuShare` alone: the native agent's share is never
  above the whole, the Docker agent's is exactly where the native one's guard makes a
  difference.
- `ScriptUpdaterProofs`, for any number of releases and faults: the types, `RestoresFound`
  and `TornIsBackedUp`. The invariant says (`Explained`) that any backup there is is the
  program this run has found, or one that was cut short or that an earlier run has left,
  and (`Kept`) that the program is overwritten only while its backup is one to start from.

Every safety property of the passing runs is proved so. Left to TLC is what this prover
does not reach: liveness (`EventuallyReporting`, `AgentsConverge`, `QueueDrains`,
`InventorySent`, `EverythingAnswered`, `HelperEnds`, `ReportsAfterwards`,
`EngineSupervised`, `KeepsReporting`, `Heals`), since the prover does not do ENABLED,
which fairness needs. No module uses a RECURSIVE operator; induction over data, which
these proofs would need for what a fold computes, is not needed either.

## Not modelled

The web dashboard, the Manager's window, login and sessions, log rotation and the
installers; `PROJECT.json` gives the reason for each. Of the collectors only the
CPU share is modelled: everything else reads the operating system.

- `native-agent/updater/update-agent.sh`: line 10 redirects the standard input of
  `python3` twice, so the list of releases is read as the program; Python
  refuses it and `set -e` ends the script. Nothing behind that line runs.
- `server-maintenance/update-server.sh`: git and docker compose in a row; it keeps no state.
- `eits-agent-service`, the superseded Go wrapper. When `Runtime.Run` returns an
  error its service stays running without an agent.
- In the modelled parts: a disabled queue; two processes over one queue file; a
  configuration answer that changes the checks of a running agent (`DeviceStatus` has the
  checks); a server that restarts in the middle of a transaction (PostgreSQL rolls it
  back, as any error); two deletions of one device at once (each of the tables they lock
  would have to be taken apart); the lists of past metrics; reads that span several
  statements of a status page; the crash of the native updater; the channels and the
  notify mode of the update script; the number of restarts the task scheduler grants a
  failing agent.
- An error in the catch block of `update-agent.ps1` may leave a current, whole
  program stopped, and the next runs find it current and do not start it: it waits for the
  next start of the machine. `ScriptUpdater` has these states; no property forbids them.

## Plan

Done: every component of the first plan but the dashboard, proofs of all safety properties
of the passing runs, and two refinements of abstract specifications (`ReportDelivery`,
`DeviceStore`). What would add most next:

1. The rest of the server over `DeviceStore`: `DeviceStatus` with its tables, so that the
   verdict is one about interleaved requests too.
2. A second process over one queue file in `NativeAgent`, and the change of checks
   between configuration and report.
3. The crash of the native updater, which no code cleans up after.
4. The channels of the update script (a machine that moves from one channel to another),
   and the dashboard's polling.
