------------------------------ MODULE Updater ------------------------------
(***************************************************************************)
(* The native updater (native-agent/cmd/eits-agent-updater/main.go): it    *)
(* asks Windows to stop the service without waiting for it, backs up and   *)
(* replaces one program after the other, starts the service again, and     *)
(* rolls back what it has done when a replacement or the start fails.      *)
(*                                                                         *)
(* Windows does not let a program that is running be overwritten: the      *)
(* service's programs until it has stopped, the Manager while it is open,  *)
(* and always the updater itself.  copyFile truncates its target, so a     *)
(* copy that fails halfway leaves a torn file.                             *)
(***************************************************************************)
EXTENDS Naturals, Sequences

CONSTANTS Names,      \* the programs, in the order they are replaced in
          Present,    \* those that are installed
          Service,    \* those the service runs
          Opened,     \* the sets of the others that may be running
          Packages,   \* the sets of programs a package may hold
          MaxFaults   \* bound on the copies and service requests that fail

Programs == {Names[i] : i \in DOMAIN Names}

ASSUME NamesAssumption ==
    /\ Names \in Seq(Programs)
    /\ \A i, j \in DOMAIN Names : Names[i] = Names[j] => i = j
    /\ Present \union Service \subseteq Programs
    /\ Opened \union Packages \subseteq SUBSET Programs
    /\ MaxFaults \in Nat

VARIABLES pc,         \* where main is
          step,       \* the index of its loops over names
          installed,  \* the version of each program in the install directory
          backup,     \* and in the backup directory
          package,    \* the programs in the package
          busy,       \* the programs that are running
          service,    \* the status of the service
          ignored,    \* the error of a backup or a restore has been ignored
          faults      \* number of faults so far

vars == <<pc, step, installed, backup, package, busy, service, ignored, faults>>
disk == <<installed, backup, ignored>>

Versions == {"none", "old", "new", "torn"}
Original == [n \in Programs |-> IF n \in Present THEN "old" ELSE "none"]

Init == /\ pc = "check" /\ step = 1
        /\ installed = Original /\ backup = [n \in Programs |-> "none"]
        /\ package \in Packages
        /\ \E others \in Opened : busy = Service \union others
        /\ service = "running" /\ ignored = FALSE /\ faults = 0

Fault == faults < MaxFaults /\ faults' = faults + 1

AtName(label) == pc = label /\ step \in DOMAIN Names
AtEnd(label) == pc = label /\ step \notin DOMAIN Names
Current == Names[step]
Goto(label) == pc' = label /\ UNCHANGED step
Rewind(label) == pc' = label /\ step' = 1
Advance(label) == pc' = label /\ step' = step + 1
Restores == AtName("restore") \/ AtName("undo")

-----------------------------------------------------------------------------
(* Plausible slips: variants of definitions below that the properties must  *)
(* tell from the code's.                                                    *)

\* The errors of copyFile are ignored as those of the backup are.
ReplaceUnchecked ==
    /\ AtName("replace") /\ Current \in package \intersect busy
    /\ Advance("backup")
    /\ UNCHANGED <<disk, package, busy, service, faults>>

\* A copy that was refused has written nothing: main just returns.
ReplaceRefusedReturns ==
    /\ AtName("replace") /\ Current \in package \intersect busy
    /\ Goto("rolledBack")
    /\ UNCHANGED <<disk, package, busy, service, faults>>

\* The new program is in place before the old one is backed up.
BackUpLate ==
    /\ AtName("backup") /\ installed[Current] # "none"
    /\ backup' = [backup EXCEPT ![Current] =
                     IF Current \in package THEN "new" ELSE installed[Current]]
    /\ Goto("replace")
    /\ UNCHANGED <<installed, ignored, package, busy, service, faults>>

\* The rollback ends at the first program that has no backup.
NothingToRestoreReturns ==
    /\ Restores /\ backup[Current] = "none"
    /\ pc' = pc /\ step' = Len(Names) + 1
    /\ UNCHANGED <<disk, package, busy, service, faults>>

-----------------------------------------------------------------------------
\* The manifest, the download, the checksum or the archive is refused, or
\* the version is current.
Refuse == /\ pc = "check" /\ Goto("refused")
          /\ UNCHANGED <<disk, package, busy, service, faults>>

\* The stop is requested: sc.exe does not wait for it.
AskStop == /\ pc = "check" /\ service' = "stopping" /\ Goto("backup")
           /\ UNCHANGED <<disk, package, busy, faults>>

\* The error of the stop request is ignored.
AskStopFails == /\ pc = "check" /\ Fault /\ Goto("backup")
                /\ UNCHANGED <<disk, package, busy, service>>

\* The service has stopped and its programs have ended.
HostStops == /\ service = "stopping" /\ service' = "stopped"
             /\ busy' = busy \ Service
             /\ UNCHANGED <<pc, step, disk, package, faults>>

BackUp == /\ AtName("backup") /\ installed[Current] # "none"
          /\ backup' = [backup EXCEPT ![Current] = installed[Current]]
          /\ Goto("replace")
          /\ UNCHANGED <<installed, ignored, package, busy, service, faults>>

BackUpFails == /\ AtName("backup") /\ installed[Current] # "none"
               /\ Fault /\ ignored' = TRUE
               /\ \E v \in {"none", "torn"} : backup' = [backup EXCEPT ![Current] = v]
               /\ Goto("replace")
               /\ UNCHANGED <<installed, package, busy, service>>

NothingToBackUp == /\ AtName("backup") /\ installed[Current] = "none"
                   /\ Goto("replace")
                   /\ UNCHANGED <<disk, package, busy, service, faults>>

Replace == /\ AtName("replace") /\ Current \in package \ busy
           /\ installed' = [installed EXCEPT ![Current] = "new"]
           /\ Advance("backup")
           /\ UNCHANGED <<backup, ignored, package, busy, service, faults>>

\* A package need not hold every program.
Skip == /\ AtName("replace") /\ Current \notin package
        /\ Advance("backup")
        /\ UNCHANGED <<disk, package, busy, service, faults>>

\* A running program cannot be created anew: nothing is written.
ReplaceRefused == /\ AtName("replace") /\ Current \in package \intersect busy
                  /\ Rewind("restore")
                  /\ UNCHANGED <<disk, package, busy, service, faults>>

ReplaceFails == /\ AtName("replace") /\ Current \in package \ busy /\ Fault
                /\ installed' = [installed EXCEPT ![Current] = "torn"]
                /\ Rewind("restore")
                /\ UNCHANGED <<backup, ignored, package, busy, service>>

StartService == /\ AtEnd("backup") /\ service = "stopped"
                /\ service' = "running" /\ busy' = busy \union Service
                /\ Goto("updated")
                /\ UNCHANGED <<disk, package, faults>>

\* sc.exe refuses to start a service that has not stopped yet; or the new
\* service does not start.
StartFails == /\ AtEnd("backup")
              /\ \/ service # "stopped" /\ UNCHANGED faults
                 \/ service = "stopped" /\ Fault
              /\ Rewind("undo")
              /\ UNCHANGED <<disk, package, busy, service>>

\* rollback: what has no backup is left alone, errors are ignored.
Restore == /\ Restores /\ backup[Current] # "none" /\ Current \notin busy
           /\ installed' = [installed EXCEPT ![Current] = backup[Current]]
           /\ Advance(pc)
           /\ UNCHANGED <<backup, ignored, package, busy, service, faults>>

NothingToRestore == /\ Restores /\ (backup[Current] = "none" \/ Current \in busy)
                    /\ Advance(pc)
                    /\ UNCHANGED <<disk, package, busy, service, faults>>

RestoreFails == /\ Restores /\ backup[Current] # "none" /\ Current \notin busy
                /\ Fault /\ ignored' = TRUE
                /\ installed' = [installed EXCEPT ![Current] = "torn"]
                /\ Advance(pc)
                /\ UNCHANGED <<backup, package, busy, service>>

\* After a failed replacement main returns without starting the service.
GiveUp == /\ AtEnd("restore") /\ Goto("rolledBack")
          /\ UNCHANGED <<disk, package, busy, service, faults>>

\* After a failed start it tries once more and ignores the error.
StartOld == /\ AtEnd("undo") /\ Goto("restored")
            /\ IF service = "stopped"
               THEN service' = "running" /\ busy' = busy \union Service
               ELSE UNCHANGED <<service, busy>>
            /\ UNCHANGED <<disk, package, faults>>

Update == \/ AskStop \/ BackUp \/ NothingToBackUp \/ Replace \/ Skip \/ StartService
Rollback == \/ ReplaceRefused \/ ReplaceFails \/ StartFails \/ Restore
            \/ NothingToRestore \/ RestoreFails \/ GiveUp \/ StartOld

Next == Refuse \/ Update \/ Rollback \/ AskStopFails \/ BackUpFails \/ HostStops

Spec == Init /\ [][Next]_vars

-----------------------------------------------------------------------------
\* A backup is never made of a program that has been replaced.
TypeOK ==
    /\ pc \in {"check", "backup", "replace", "restore", "undo", "refused", "updated",
               "rolledBack", "restored"}
    /\ step \in 1..Len(Names) + 1
    /\ installed \in [Programs -> Versions]
    /\ backup \in [Programs -> Versions \ {"new"}]
    /\ package \in Packages /\ busy \subseteq Programs
    /\ service \in {"running", "stopping", "stopped"}
    /\ ignored \in BOOLEAN /\ faults \in 0..MaxFaults

\* An update that reports success has replaced every program of the package
\* and nothing else, whichever of them were running when it came to them.
UpdateIsWhole ==
    pc = "updated" => installed = [n \in Programs |-> IF n \in package THEN "new"
                                                      ELSE Original[n]]

\* A rollback brings back the old version of every program there was,
\* wherever the update failed and whenever the service stopped, unless the
\* error of a backup or of a restore was ignored on the way.
RollbackIsWhole ==
    (pc \in {"rolledBack", "restored"} /\ ~ignored) =>
        \A n \in Present : installed[n] = "old"

\* The service never starts on a mixture of old and new programs.
StartsUnmixed ==
    [][(service # "running" /\ service' = "running" /\ ~ignored) =>
            \/ \A n \in Present : installed[n] = "old"
            \/ \A n \in package : installed[n] = "new"]_vars
=============================================================================
