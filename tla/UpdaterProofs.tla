--------------------------- MODULE UpdaterProofs ---------------------------
(***************************************************************************)
(* Proofs about Updater for any list of programs, any package, whichever   *)
(* programs are running, and any number of faults: an update that succeeds *)
(* is whole, a rollback brings everything back, and the service never      *)
(* starts on a mixture.                                                    *)
(***************************************************************************)
EXTENDS Updater, TLAPS

Goal(n) == IF n \in package THEN "new" ELSE Original[n]

Updating == pc \in {"check", "backup", "replace"}
RollingBack == pc \in {"restore", "undo"}

\* The loop over names has replaced what is before its index and not touched
\* the rest.
Progress ==
    Updating => \A i \in DOMAIN Names :
        installed[Names[i]] = IF i < step THEN Goal(Names[i]) ELSE Original[Names[i]]

\* What it has passed is backed up, and so is the program it is about to
\* replace.
BackedUp ==
    (Updating /\ ~ignored) => \A i \in DOMAIN Names :
        (i < step \/ (i = step /\ pc = "replace")) => backup[Names[i]] = Original[Names[i]]

\* A backup is nothing else than the old program.
Faithful ==
    ~ignored => \A n \in Programs : backup[n] \in {"none", Original[n]}

\* A program that runs has not been written to, before the service starts.
BusyUntouched ==
    pc \notin {"updated", "restored"} => \A n \in busy : installed[n] = Original[n]

\* During a rollback a program is the old one or will be when the loop has
\* come to it.
Restorable ==
    (RollingBack /\ ~ignored) => \A i \in DOMAIN Names : Names[i] \in Present =>
        \/ installed[Names[i]] = "old"
        \/ i >= step /\ backup[Names[i]] = "old" /\ Names[i] \notin busy

\* The inductive invariant: the two conclusions hold in the last states only,
\* the other parts carry them there through the two loops.
Inv == /\ TypeOK /\ Progress /\ BackedUp /\ Faithful /\ BusyUntouched /\ Restorable
       /\ UpdateIsWhole /\ RollbackIsWhole

-----------------------------------------------------------------------------
LEMMA NamesFacts ==
    /\ Len(Names) \in Nat /\ DOMAIN Names = 1..Len(Names)
    /\ \A i \in DOMAIN Names : Names[i] \in Programs
    /\ \A n \in Programs : \E i \in DOMAIN Names : Names[i] = n
    /\ \A i, j \in DOMAIN Names : Names[i] = Names[j] => i = j
    /\ Present \subseteq Programs /\ Service \subseteq Programs
    /\ \A p \in Packages : p \subseteq Programs
    /\ \A o \in Opened : o \subseteq Programs
    /\ MaxFaults \in Nat
    /\ Original \in [Programs -> {"none", "old"}]
    /\ \A n \in Programs : Original[n] = "old" <=> n \in Present
<1>1. /\ Len(Names) \in Nat /\ DOMAIN Names = 1..Len(Names)
      /\ \A i, j \in DOMAIN Names : Names[i] = Names[j] => i = j
      /\ MaxFaults \in Nat
  BY NamesAssumption DEF NamesAssumption
<1>2. /\ \A i \in DOMAIN Names : Names[i] \in Programs
      /\ \A n \in Programs : \E i \in DOMAIN Names : Names[i] = n
  BY DEF Programs
<1>3. /\ Present \subseteq Programs /\ Service \subseteq Programs
      /\ \A p \in Packages : p \subseteq Programs
      /\ \A o \in Opened : o \subseteq Programs
  BY NamesAssumption DEF NamesAssumption
<1>4. /\ Original \in [Programs -> {"none", "old"}]
      /\ \A n \in Programs : Original[n] = "old" <=> n \in Present
  BY DEF Original
<1>5. QED
  BY <1>1, <1>2, <1>3, <1>4

\* At the end of a loop its index is past every program.
LEMMA AtEndFacts ==
    ASSUME TypeOK, step \notin DOMAIN Names
    PROVE  \A i \in DOMAIN Names : i < step
  BY NamesFacts DEF TypeOK

\* An index of a loop goes on to one past the end at most.
LEMMA StepFacts ==
    ASSUME TypeOK, step \in DOMAIN Names
    PROVE  /\ step \in Nat /\ step + 1 \in 1..Len(Names) + 1
           /\ 1 \in 1..Len(Names) + 1
           /\ Current \in Programs
           /\ \A i \in DOMAIN Names : i < step + 1 <=> (i < step \/ i = step)
           /\ \A i \in DOMAIN Names : i # step => Names[i] # Current
  BY NamesFacts DEF TypeOK, Current

LEMMA InvInit == Init => Inv
<1> SUFFICES ASSUME Init PROVE Inv
  OBVIOUS
<1> USE NamesFacts
<1>1. TypeOK
  <2>1. PICK others \in Opened : busy = Service \union others
    BY DEF Init
  <2>2. busy \subseteq Programs /\ package \in Packages
    BY <2>1 DEF Init
  <2>3. /\ installed \in [Programs -> Versions]
        /\ backup \in [Programs -> Versions \ {"new"}]
    BY DEF Init, Versions
  <2>4. step \in 1..Len(Names) + 1 /\ faults \in 0..MaxFaults
    BY DEF Init
  <2>5. QED
    BY <2>2, <2>3, <2>4 DEF Init, TypeOK
<1>2. \A i \in DOMAIN Names : ~(i < step)
  BY DEF Init
<1>3. Progress /\ BackedUp
  BY <1>2 DEF Init, Progress, BackedUp, Updating
<1>4. Faithful /\ BusyUntouched /\ Restorable /\ UpdateIsWhole /\ RollbackIsWhole
  BY <1>1 DEF Init, TypeOK, Faithful, BusyUntouched, Restorable, RollingBack,
              UpdateIsWhole, RollbackIsWhole
<1>5. QED
  BY <1>1, <1>3, <1>4 DEF Inv

-----------------------------------------------------------------------------
(* The loop of the update: one lemma per action.                            *)

LEMMA BackUpStep ==
    ASSUME Inv, BackUp \/ BackUpFails \/ NothingToBackUp
    PROVE  Inv'
<1> USE NamesFacts
<1> USE DEF Inv
<1>1. /\ pc = "backup" /\ pc' = "replace" /\ step \in DOMAIN Names /\ step' = step
      /\ UNCHANGED <<installed, package, busy, service>>
  BY DEF BackUp, BackUpFails, NothingToBackUp, AtName, Goto, disk
<1>2. /\ Current \in Programs /\ Current = Names[step]
      /\ installed[Current] = Original[Current]
  BY <1>1, StepFacts DEF Progress, Updating, Current, TypeOK
<1>3. /\ backup' \in [Programs -> {"none", "old", "torn"}]
      /\ ignored' \in BOOLEAN /\ (ignored => ignored') /\ faults' \in 0..MaxFaults
      /\ ~ignored' => backup'[Current] = Original[Current]
      /\ \A n \in Programs : n # Current => backup'[n] = backup[n]
  <2>1. CASE BackUp
    BY <2>1, <1>2 DEF BackUp, TypeOK, Versions
  <2>2. CASE BackUpFails
    BY <2>2, <1>2 DEF BackUpFails, Fault, TypeOK, Versions
  <2>3. CASE NothingToBackUp
    <3>1. installed[Current] = "none" /\ UNCHANGED <<backup, ignored, faults>>
      BY <2>3 DEF NothingToBackUp, disk
    <3>2. ~ignored => backup[Current] = "none"
      BY <3>1, <1>2 DEF Faithful
    <3>3. QED
      BY <3>1, <3>2, <1>2 DEF TypeOK, Versions
  <2>4. QED
    BY <2>1, <2>2, <2>3
<1>4. TypeOK'
  BY <1>1, <1>3 DEF TypeOK, Versions
<1>5. Progress' /\ BusyUntouched'
  BY <1>1 DEF Progress, Updating, BusyUntouched, Goal
<1>6. BackedUp' /\ Faithful'
  BY <1>1, <1>2, <1>3, StepFacts DEF BackedUp, Faithful, Updating
<1>7. Restorable' /\ UpdateIsWhole' /\ RollbackIsWhole'
  BY <1>1 DEF Restorable, RollingBack, UpdateIsWhole, RollbackIsWhole
<1>8. QED
  BY <1>4, <1>5, <1>6, <1>7

LEMMA ReplaceStep ==
    ASSUME Inv, Replace \/ Skip
    PROVE  Inv'
<1> USE NamesFacts
<1> USE DEF Inv
<1>1. /\ pc = "replace" /\ pc' = "backup" /\ step \in DOMAIN Names /\ step' = step + 1
      /\ UNCHANGED <<backup, ignored, package, busy, service, faults>>
  BY DEF Replace, Skip, AtName, Advance, disk
<1>2. /\ Current \in Programs /\ Current = Names[step]
      /\ installed[Current] = Original[Current]
  BY <1>1, StepFacts DEF Progress, Updating, Current, TypeOK
<1>3. /\ installed' \in [Programs -> Versions]
      /\ installed'[Current] = Goal(Current)
      /\ \A n \in Programs : n # Current => installed'[n] = installed[n]
      /\ Current \in busy => installed'[Current] = Original[Current]
  <2>1. CASE Replace
    BY <2>1, <1>2 DEF Replace, TypeOK, Versions, Goal
  <2>2. CASE Skip
    BY <2>2, <1>2 DEF Skip, disk, TypeOK, Versions, Goal
  <2>3. QED
    BY <2>1, <2>2
<1>4. TypeOK'
  BY <1>1, <1>3, StepFacts DEF TypeOK
<1>5. Progress'
  BY <1>1, <1>2, <1>3, StepFacts DEF Progress, Updating, Goal
<1>6. BusyUntouched'
  BY <1>1, <1>2, <1>3 DEF BusyUntouched, TypeOK
<1>7. BackedUp' /\ Faithful'
  BY <1>1, StepFacts DEF BackedUp, Faithful, Updating
<1>8. Restorable' /\ UpdateIsWhole' /\ RollbackIsWhole'
  BY <1>1 DEF Restorable, RollingBack, UpdateIsWhole, RollbackIsWhole
<1>9. QED
  BY <1>4, <1>5, <1>6, <1>7, <1>8

\* Where the update fails, every program is old or backed up.
LEMMA FailStep ==
    ASSUME Inv, ReplaceRefused \/ ReplaceFails \/ StartFails
    PROVE  Inv'
<1> USE NamesFacts
<1> USE DEF Inv
<1>1. /\ Updating /\ pc' \in {"restore", "undo"} /\ step' = 1
      /\ UNCHANGED <<backup, ignored, package, busy, service>>
      /\ faults' \in 0..MaxFaults
  BY DEF ReplaceRefused, ReplaceFails, StartFails, AtName, AtEnd, Rewind, disk, Updating,
         Fault, TypeOK
<1>2. /\ installed' \in [Programs -> Versions]
      /\ \A n \in busy : installed'[n] = installed[n]
      /\ \A i \in DOMAIN Names :
            i < step \/ (i = step /\ pc = "replace") \/ installed'[Names[i]] = installed[Names[i]]
  <2>1. CASE ReplaceFails
    <3>1. /\ step \in DOMAIN Names /\ pc = "replace" /\ Current \notin busy
          /\ installed' = [installed EXCEPT ![Current] = "torn"]
      BY <2>1 DEF ReplaceFails, AtName
    <3>2. QED
      BY <3>1, StepFacts DEF TypeOK, Versions
  <2>2. CASE ReplaceRefused \/ StartFails
    BY <2>2 DEF ReplaceRefused, StartFails, disk, TypeOK
  <2>3. QED
    BY <2>1, <2>2
<1>3. TypeOK'
  BY <1>1, <1>2 DEF TypeOK
<1>4. BusyUntouched'
  BY <1>1, <1>2 DEF BusyUntouched, Updating, TypeOK
<1>5. Restorable'
  <2>1. SUFFICES ASSUME ~ignored, NEW i \in DOMAIN Names, Names[i] \in Present
                 PROVE  \/ installed'[Names[i]] = "old"
                        \/ backup[Names[i]] = "old" /\ Names[i] \notin busy
    BY <1>1 DEF Restorable
  <2>2. Original[Names[i]] = "old" /\ Names[i] \in Programs
    BY <2>1
  <2>3. CASE Names[i] \in busy
    BY <1>1, <1>2, <2>2, <2>3 DEF BusyUntouched, Updating
  <2>4. CASE Names[i] \notin busy
    <3>1. CASE i < step \/ (i = step /\ pc = "replace")
      BY <1>1, <2>1, <2>2, <2>4, <3>1 DEF BackedUp
    <3>2. CASE ~(i < step) /\ ~(i = step /\ pc = "replace")
      BY <1>1, <1>2, <2>2, <3>2 DEF Progress
    <3>3. QED
      BY <3>1, <3>2
  <2>5. QED
    BY <2>3, <2>4
<1>6. /\ Progress' /\ BackedUp' /\ Faithful' /\ UpdateIsWhole' /\ RollbackIsWhole'
  BY <1>1 DEF Progress, BackedUp, Faithful, Updating, UpdateIsWhole, RollbackIsWhole
<1>7. QED
  BY <1>3, <1>4, <1>5, <1>6

-----------------------------------------------------------------------------
(* The loop of the rollback.                                                *)

LEMMA RestoreStep ==
    ASSUME Inv, Restore \/ NothingToRestore \/ RestoreFails
    PROVE  Inv'
<1> USE NamesFacts
<1> USE DEF Inv
<1>1. /\ RollingBack /\ pc' = pc /\ step \in DOMAIN Names /\ step' = step + 1
      /\ UNCHANGED <<backup, package, busy, service>>
      /\ faults' \in 0..MaxFaults /\ ignored' \in BOOLEAN /\ (ignored => ignored')
  <2>1. /\ RollingBack /\ pc' = pc /\ step \in DOMAIN Names /\ step' = step + 1
        /\ UNCHANGED <<backup, package, busy, service>>
    BY DEF Restore, NothingToRestore, RestoreFails, Restores, AtName, Advance, disk,
           RollingBack
  <2>2. \/ faults' = faults /\ ignored' = ignored
        \/ Fault /\ ignored' = TRUE
    BY DEF Restore, NothingToRestore, RestoreFails, disk
  <2>3. faults' \in 0..MaxFaults
    BY <2>2 DEF Fault, TypeOK
  <2>4. ignored' \in BOOLEAN /\ (ignored => ignored')
    BY <2>2, ZenonT(30) DEF TypeOK
  <2>5. QED
    BY <2>1, <2>3, <2>4
<1>2. Current \in Programs /\ Current = Names[step]
  BY <1>1, StepFacts DEF Current
<1>3. /\ installed' \in [Programs -> Versions]
      /\ \A n \in Programs : n # Current => installed'[n] = installed[n]
      /\ Current \in busy => installed'[Current] = installed[Current]
      /\ ~ignored' => \/ installed'[Current] = backup[Current] /\ backup[Current] # "none"
                      \/ /\ installed'[Current] = installed[Current]
                         /\ backup[Current] = "none" \/ Current \in busy
  <2>1. CASE Restore
    BY <2>1, <1>2 DEF Restore, TypeOK, Versions
  <2>2. CASE NothingToRestore
    BY <2>2, <1>2 DEF NothingToRestore, disk, TypeOK, Versions
  <2>3. CASE RestoreFails
    BY <2>3, <1>2 DEF RestoreFails, TypeOK, Versions
  <2>4. QED
    BY <2>1, <2>2, <2>3
<1>4. TypeOK'
  BY <1>1, <1>3, StepFacts DEF TypeOK, RollingBack
<1>5. BusyUntouched'
  BY <1>1, <1>2, <1>3 DEF BusyUntouched, TypeOK
<1>6. Faithful'
  BY <1>1 DEF Faithful
<1>7. Restorable'
  <2>1. SUFFICES ASSUME ~ignored', NEW i \in DOMAIN Names, Names[i] \in Present
                 PROVE  \/ installed'[Names[i]] = "old"
                        \/ /\ i >= step + 1 /\ backup[Names[i]] = "old"
                           /\ Names[i] \notin busy
    BY <1>1 DEF Restorable
  <2>2. /\ ~ignored
        /\ \/ installed[Names[i]] = "old"
           \/ i >= step /\ backup[Names[i]] = "old" /\ Names[i] \notin busy
    BY <1>1, <2>1 DEF Restorable
  <2>3. CASE i = step
    <3>1. Current = Names[i] /\ Original[Current] = "old"
      BY <1>2, <2>1, <2>3
    <3>2. backup[Current] \in {"none", "old"}
      BY <1>2, <2>2, <3>1 DEF Faithful
    <3>3. QED
      BY <1>3, <2>1, <2>2, <3>1, <3>2
  <2>4. CASE i # step
    <3>1. Names[i] # Current /\ Names[i] \in Programs
      BY <1>1, <2>4, StepFacts
    <3>2. i >= step => i >= step + 1
      BY <1>1, <2>4
    <3>3. QED
      BY <1>3, <2>2, <3>1, <3>2
  <2>5. QED
    BY <2>3, <2>4
<1>8. Progress' /\ BackedUp' /\ UpdateIsWhole' /\ RollbackIsWhole'
  BY <1>1 DEF Progress, BackedUp, Updating, RollingBack, UpdateIsWhole, RollbackIsWhole
<1>9. QED
  BY <1>4, <1>5, <1>6, <1>7, <1>8

\* At the end of a rollback every program there was is the old one.
LEMMA AllRestored ==
    ASSUME Inv, AtEnd("restore") \/ AtEnd("undo"), ~ignored
    PROVE  \A n \in Present : installed[n] = "old"
<1>1. RollingBack /\ \A i \in DOMAIN Names : i < step
  BY AtEndFacts DEF AtEnd, RollingBack, Inv
<1>2. \A i \in DOMAIN Names : Names[i] \in Present => installed[Names[i]] = "old"
  <2>1. TAKE i \in DOMAIN Names
  <2>2. ~(i >= step)
    BY <1>1, NamesFacts DEF Inv, TypeOK
  <2>3. QED
    BY <1>1, <2>2 DEF Inv, Restorable
<1>3. QED
  BY <1>2, NamesFacts

LEMMA EndStep ==
    ASSUME Inv, GiveUp \/ StartOld
    PROVE  Inv'
<1> USE NamesFacts
<1> USE DEF Inv
<1>1. /\ AtEnd("restore") \/ AtEnd("undo")
      /\ pc' \in {"rolledBack", "restored"} /\ step' = step
      /\ UNCHANGED <<disk, package, faults>>
      /\ service' \in {service, "running"}
      /\ busy' \in {busy, busy \union Service}
      /\ pc' = "rolledBack" => UNCHANGED busy
  BY DEF GiveUp, StartOld, Goto
<1>2. TypeOK'
  BY <1>1 DEF TypeOK, disk
<1>3. BusyUntouched'
  BY <1>1 DEF BusyUntouched, AtEnd, disk
<1>4. RollbackIsWhole'
  BY <1>1, AllRestored DEF RollbackIsWhole, disk
<1>5. /\ Progress' /\ BackedUp' /\ Faithful' /\ Restorable' /\ UpdateIsWhole'
  BY <1>1 DEF Progress, BackedUp, Faithful, Restorable, Updating, RollingBack,
              UpdateIsWhole, disk
<1>6. QED
  BY <1>2, <1>3, <1>4, <1>5

-----------------------------------------------------------------------------
\* At the end of the loop of the update every program of the package is new.
LEMMA AllReplaced ==
    ASSUME Inv, AtEnd("backup")
    PROVE  installed = [n \in Programs |-> Goal(n)]
<1>1. Updating /\ \A i \in DOMAIN Names : i < step
  BY AtEndFacts DEF AtEnd, Updating, Inv
<1>2. \A i \in DOMAIN Names : installed[Names[i]] = Goal(Names[i])
  BY <1>1 DEF Inv, Progress
<1>3. \A n \in Programs : installed[n] = Goal(n)
  BY <1>2, NamesFacts
<1>4. QED
  BY <1>3 DEF Inv, TypeOK

LEMMA StartStep ==
    ASSUME Inv, StartService
    PROVE  Inv'
<1> USE NamesFacts
<1> USE DEF Inv
<1>1. /\ AtEnd("backup") /\ pc' = "updated" /\ step' = step
      /\ UNCHANGED <<disk, package, faults>>
      /\ service' = "running" /\ busy' = busy \union Service
  BY DEF StartService, Goto
<1>2. TypeOK'
  BY <1>1 DEF TypeOK, disk
<1>3. UpdateIsWhole'
  BY <1>1, AllReplaced DEF UpdateIsWhole, Goal, disk
<1>4. /\ Progress' /\ BackedUp' /\ Faithful' /\ Restorable' /\ BusyUntouched'
      /\ RollbackIsWhole'
  BY <1>1 DEF Progress, BackedUp, Faithful, Restorable, BusyUntouched, Updating,
              RollingBack, RollbackIsWhole, disk
<1>5. QED
  BY <1>2, <1>3, <1>4

\* The steps that touch no file.
LEMMA QuietStep ==
    ASSUME Inv, Refuse \/ AskStop \/ AskStopFails \/ HostStops \/ UNCHANGED vars
    PROVE  Inv'
<1> USE NamesFacts
<1> USE DEF Inv
<1>1. /\ UNCHANGED <<disk, package, step>> /\ busy' \subseteq busy
      /\ faults' \in 0..MaxFaults /\ service' \in {service, "stopping", "stopped"}
      /\ \/ pc' = pc
         \/ pc = "check" /\ pc' \in {"refused", "backup"}
  BY DEF Refuse, AskStop, AskStopFails, HostStops, Goto, Fault, vars, disk, TypeOK
<1>2. TypeOK'
  BY <1>1 DEF TypeOK, disk
<1>3. /\ Progress' /\ BackedUp' /\ Faithful' /\ Restorable' /\ BusyUntouched'
  BY <1>1 DEF Progress, BackedUp, Faithful, Restorable, BusyUntouched, Updating,
              RollingBack, Goal, disk
<1>4. UpdateIsWhole' /\ RollbackIsWhole'
  BY <1>1 DEF UpdateIsWhole, RollbackIsWhole, disk
<1>5. QED
  BY <1>2, <1>3, <1>4

LEMMA InvStep == Inv /\ [Next]_vars => Inv'
<1> SUFFICES ASSUME Inv, [Next]_vars PROVE Inv'
  OBVIOUS
<1>1. CASE BackUp \/ BackUpFails \/ NothingToBackUp
  BY <1>1, BackUpStep
<1>2. CASE Replace \/ Skip
  BY <1>2, ReplaceStep
<1>3. CASE ReplaceRefused \/ ReplaceFails \/ StartFails
  BY <1>3, FailStep
<1>4. CASE Restore \/ NothingToRestore \/ RestoreFails
  BY <1>4, RestoreStep
<1>5. CASE GiveUp \/ StartOld
  BY <1>5, EndStep
<1>6. CASE StartService
  BY <1>6, StartStep
<1>7. CASE Refuse \/ AskStop \/ AskStopFails \/ HostStops \/ UNCHANGED vars
  BY <1>7, QuietStep
<1>8. QED
  BY <1>1, <1>2, <1>3, <1>4, <1>5, <1>6, <1>7 DEF Next, Update, Rollback

LEMMA Invariance == Spec => []Inv
<1>1. QED
  BY InvInit, InvStep, PTL DEF Spec

-----------------------------------------------------------------------------
\* The types, and that no backup is made of a program that was replaced.
THEOREM TypeCorrect == Spec => []TypeOK
<1>1. Inv => TypeOK
  BY DEF Inv
<1>2. QED
  BY <1>1, Invariance, PTL

\* main.go:185 reports success only when every program of the package, and no
\* other, has been replaced.
THEOREM UpdatesAreWhole == Spec => []UpdateIsWhole
<1>1. Inv => UpdateIsWhole
  BY DEF Inv
<1>2. QED
  BY <1>1, Invariance, PTL

\* main.go:173 and 180 bring back every program there was, unless the error of
\* a backup (line 168) or of a restore (line 208) was ignored.
THEOREM RollbacksAreWhole == Spec => []RollbackIsWhole
<1>1. Inv => RollbackIsWhole
  BY DEF Inv
<1>2. QED
  BY <1>1, Invariance, PTL

\* The service starts on programs of one version (main.go:179 and 181).
THEOREM ServiceStartsUnmixed == Spec => StartsUnmixed
<1> DEFINE Unmixed ==
        (service # "running" /\ service' = "running" /\ ~ignored) =>
            \/ \A n \in Present : installed[n] = "old"
            \/ \A n \in package : installed[n] = "new"
<1>1. ASSUME Inv, [Next]_vars PROVE Unmixed
  <2>1. SUFFICES ASSUME service # "running", service' = "running", ~ignored
                 PROVE  \/ \A n \in Present : installed[n] = "old"
                        \/ \A n \in package : installed[n] = "new"
    OBVIOUS
  <2>2. StartService \/ StartOld
    BY <1>1, <2>1 DEF Next, Update, Rollback, Refuse, AskStop, AskStopFails, HostStops,
                      BackUp, BackUpFails, NothingToBackUp, Replace, Skip, ReplaceRefused,
                      ReplaceFails, StartFails, Restore, NothingToRestore, RestoreFails,
                      GiveUp, vars
  <2>3. CASE StartService
    <3>1. installed = [n \in Programs |-> Goal(n)] /\ package \subseteq Programs
      BY <1>1, <2>3, AllReplaced, NamesFacts DEF StartService, Inv, TypeOK
    <3>2. QED
      BY <3>1 DEF Goal
  <2>4. CASE StartOld
    BY <1>1, <2>1, <2>4, AllRestored DEF StartOld
  <2>5. QED
    BY <2>2, <2>3, <2>4
<1>2. QED
  BY <1>1, Invariance, PTL DEF Spec, StartsUnmixed
=============================================================================
