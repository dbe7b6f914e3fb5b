--------------------------- MODULE ScriptUpdater ---------------------------
(***************************************************************************)
(* The update script of the agent on Windows (native-agent/updater/        *)
(* update-agent.ps1), which the task scheduler runs every day.  It backs   *)
(* the program up as .bak, replaces it, starts the agent, and removes      *)
(* .bak; after any error it restores .bak when there is one.               *)
(*                                                                         *)
(* A program is the number of its release.  A copy that was cut short      *)
(* leaves a program that Windows refuses to start, or one that starts and  *)
(* ends without an answer.  The agent's task is ended, not asked to end:   *)
(* the script waits two seconds before it replaces the program, and not at *)
(* all before it restores it; neither does install-agent.ps1, which is run *)
(* by hand between two runs.  A program that runs cannot be overwritten.   *)
(***************************************************************************)
EXTENDS Naturals

CONSTANTS MaxRelease,   \* bound on the releases
          MaxFaults     \* bound on failed calls and power losses

ASSUME BoundsAssumption == MaxRelease \in Nat \ {0} /\ MaxFaults \in Nat

Releases == 1..MaxRelease
Missing == 0
Refused == MaxRelease + 1
Crashing == MaxRelease + 2
Torn == {Refused, Crashing}

VARIABLES pc,       \* where the script is; "idle" between two runs
          exe,      \* the program
          bak,      \* its backup
          latest,   \* the release GitHub lists first
          bad,      \* the releases whose agent ends with an error
          new,      \* the release this run has downloaded
          agent,    \* whether the agent runs
          found,    \* the program this run has found
          dirty,    \* a run has ended without removing the backup
          cut,      \* who made a copy that was cut short: "backup", "installer"
          faults    \* number of faults so far

vars == <<pc, exe, bak, latest, bad, new, agent, found, dirty, cut, faults>>
files == <<exe, bak>>
releases == <<latest, bad>>
history == <<found, dirty, cut>>

Init == /\ pc = "idle" /\ exe = 1 /\ bak = Missing
        /\ latest = 1 /\ bad \in SUBSET (Releases \ {1}) /\ new = 1
        /\ agent = "running"
        /\ found = 1 /\ dirty = FALSE /\ cut = {}
        /\ faults = 0

Fault == faults < MaxFaults /\ faults' = faults + 1
Starts(program) == IF program \in Releases \ bad THEN "running" ELSE "stopped"
StopTask == agent' = IF agent = "running" THEN "stopping" ELSE agent

-----------------------------------------------------------------------------
(* Plausible slips: variants of definitions below that the properties must  *)
(* tell from the code's.                                                    *)

\* The backup is kept after a successful update.
RemoveForgotten == /\ pc = "remove" /\ pc' = "idle"
                   /\ UNCHANGED <<files, releases, new, agent, history, faults>>

\* Only a backup this run has made is restored.
CatchOwn == /\ pc = "catch" /\ bak # Missing
            /\ StopTask /\ pc' = IF bak = found THEN "restore" ELSE "idle"
            /\ UNCHANGED <<files, releases, new, history, faults>>

\* The program is not asked for its version.
DownloadAnyway == /\ pc = "check" /\ exe # latest
                  /\ new' = latest /\ pc' = "stop"
                  /\ UNCHANGED <<files, releases, agent, history, faults>>

-----------------------------------------------------------------------------
\* The task scheduler starts the script.
Run == /\ pc = "idle" /\ pc' = "check" /\ found' = exe
       /\ UNCHANGED <<files, releases, new, agent, dirty, cut, faults>>

AlreadyCurrent == /\ pc = "check" /\ exe = latest /\ pc' = "idle"
                  /\ UNCHANGED <<files, releases, new, agent, history, faults>>

\* Any other version, also a newer one or none, is replaced: the release is
\* downloaded, checked and run once to ask for its version.
Download == /\ pc = "check" /\ exe \notin {Refused, latest}
            /\ new' = latest /\ pc' = "stop"
            /\ UNCHANGED <<files, releases, agent, history, faults>>

\* The program cannot be started, there is no answer, or a check of the package
\* fails: all of it throws.
CheckFails == /\ pc = "check" /\ pc' = "catch"
              /\ IF exe = Refused THEN UNCHANGED faults ELSE Fault
              /\ UNCHANGED <<files, releases, new, agent, history>>

Stop == /\ pc = "stop" /\ StopTask /\ pc' = "backup"
        /\ UNCHANGED <<files, releases, new, history, faults>>

BackUp == /\ pc = "backup" /\ bak' = exe /\ pc' = "replace"
          /\ UNCHANGED <<exe, releases, new, agent, history, faults>>

BackUpCut == cut' = IF bak' = bak THEN cut ELSE cut \union {"backup"}

BackUpFails == /\ pc = "backup" /\ Fault /\ pc' = "catch"
               /\ bak' \in {bak, Missing} \union Torn /\ BackUpCut
               /\ UNCHANGED <<exe, releases, new, agent, found, dirty>>

Replace == /\ pc = "replace" /\ agent = "stopped" /\ exe' = new /\ pc' = "start"
           /\ UNCHANGED <<bak, releases, new, agent, history, faults>>

\* Two seconds were not enough.
ReplaceRefused == /\ pc = "replace" /\ agent # "stopped" /\ pc' = "catch"
                  /\ UNCHANGED <<files, releases, new, agent, history, faults>>

ReplaceFails == /\ pc = "replace" /\ agent = "stopped" /\ Fault /\ pc' = "catch"
                /\ exe' \in {exe} \union Torn
                /\ UNCHANGED <<bak, releases, new, agent, history>>

Start == /\ pc = "start" /\ agent' = Starts(exe) /\ pc' = "watch"
         /\ UNCHANGED <<files, releases, new, history, faults>>

\* The result of the task after eight seconds.
Watch == /\ pc = "watch" /\ agent = "running" /\ pc' = "remove"
         /\ UNCHANGED <<files, releases, new, agent, history, faults>>

WatchFails == /\ pc = "watch" /\ pc' = "catch" /\ agent' = "stopped"
              /\ IF agent = "running" THEN Fault ELSE UNCHANGED faults
              /\ UNCHANGED <<files, releases, new, history>>

Remove == /\ pc = "remove" /\ bak' = Missing /\ dirty' = FALSE /\ pc' = "idle"
          /\ UNCHANGED <<exe, releases, new, agent, found, cut, faults>>

\* The error is ignored.
RemoveFails == /\ pc = "remove" /\ Fault /\ dirty' = TRUE /\ pc' = "idle"
               /\ UNCHANGED <<files, releases, new, agent, found, cut>>

Catch == /\ pc = "catch" /\ bak # Missing
         /\ StopTask /\ pc' = "restore"
         /\ UNCHANGED <<files, releases, new, history, faults>>

NothingToRestore == /\ pc = "catch" /\ bak = Missing /\ pc' = "idle"
                    /\ UNCHANGED <<files, releases, new, agent, history, faults>>

Restore == /\ pc = "restore" /\ agent = "stopped" /\ exe' = bak /\ pc' = "restart"
           /\ UNCHANGED <<bak, releases, new, agent, history, faults>>

\* An error of the catch block ends the script: nothing starts the agent.
RestoreFails == /\ pc = "restore" /\ dirty' = TRUE /\ pc' = "idle"
                /\ IF agent = "stopped" THEN Fault /\ exe' \in {exe} \union Torn
                   ELSE UNCHANGED <<exe, faults>>
                /\ UNCHANGED <<bak, releases, new, agent, found, cut>>

\* The backup is not removed.
Restart == /\ pc = "restart" /\ agent' = Starts(exe)
           /\ dirty' = TRUE /\ pc' = "idle"
           /\ UNCHANGED <<files, releases, new, found, cut, faults>>

AgentEnds == /\ agent = "stopping" /\ agent' = "stopped"
             /\ UNCHANGED <<pc, files, releases, new, history, faults>>

\* install-agent.ps1 is run by hand, with a package of any release.  It does not
\* know of the backup, and it does not wait for the agent to end.
InstallByHand == /\ pc = "idle" /\ StopTask /\ pc' = "install"
                 /\ UNCHANGED <<files, releases, new, history, faults>>

Install == /\ pc = "install" /\ agent = "stopped"
           /\ exe' \in Releases /\ agent' = Starts(exe') /\ pc' = "idle"
           /\ UNCHANGED <<bak, releases, new, history, faults>>

InstallRefused == /\ pc = "install" /\ agent # "stopped" /\ pc' = "idle"
                  /\ UNCHANGED <<files, releases, new, agent, history, faults>>

InstallerCut == cut' = IF exe' = exe THEN cut ELSE cut \union {"installer"}

InstallFails == /\ pc = "install" /\ agent = "stopped" /\ Fault /\ pc' = "idle"
                /\ exe' \in {exe} \union Torn /\ InstallerCut
                /\ UNCHANGED <<bak, releases, new, agent, found, dirty>>

\* A power loss tears the file that is being copied; the task of the agent
\* starts with the machine.
PowerLoss ==
    /\ Fault /\ pc' = "idle" /\ dirty' = (dirty \/ pc \notin {"idle", "install"})
    /\ bak' \in {bak} \union (IF pc = "backup" THEN Torn ELSE {})
    /\ exe' \in {exe} \union (IF pc \in {"replace", "restore", "install"} /\ agent = "stopped"
                              THEN Torn ELSE {})
    /\ IF pc = "install" THEN InstallerCut ELSE BackUpCut
    /\ agent' = Starts(exe')
    /\ UNCHANGED <<releases, new, found>>

\* A release is published, or the newest one is withdrawn.
Publish == /\ latest' \in Releases
           /\ UNCHANGED <<pc, files, bad, new, agent, history, faults>>

Script == \/ Run \/ AlreadyCurrent \/ Download \/ (exe = Refused /\ CheckFails) \/ Stop
          \/ BackUp \/ Replace \/ ReplaceRefused \/ Start \/ Watch
          \/ (agent # "running" /\ WatchFails) \/ Remove \/ Catch \/ NothingToRestore
          \/ Restore \/ (agent # "stopped" /\ RestoreFails) \/ Restart

Installer == Install \/ InstallRefused

Failure == \/ CheckFails \/ BackUpFails \/ ReplaceFails \/ WatchFails \/ RemoveFails
           \/ RestoreFails \/ InstallFails \/ PowerLoss

Next == Script \/ Installer \/ Failure \/ AgentEnds \/ Publish \/ InstallByHand

Spec == Init /\ [][Next]_vars

FairSpec == Spec /\ WF_vars(Script) /\ WF_vars(Installer) /\ WF_vars(AgentEnds)

-----------------------------------------------------------------------------
\* Type invariant.
TypeOK ==
    /\ pc \in {"idle", "check", "stop", "backup", "replace", "start", "watch", "remove",
               "catch", "restore", "restart", "install"}
    /\ exe \in Torn \union Releases /\ bak \in {Missing} \union Torn \union Releases
    /\ latest \in Releases /\ new \in Releases /\ bad \subseteq Releases
    /\ agent \in {"running", "stopping", "stopped"}
    /\ found \in Torn \union Releases /\ dirty \in BOOLEAN
    /\ cut \subseteq {"backup", "installer"} /\ faults \in 0..MaxFaults

\* After an error the script brings back the program this run has found, unless an
\* earlier run has ended in its catch block, was cut off or could not remove its
\* backup, or a copy to the backup was cut short: then whatever is in .bak replaces
\* a program that may be newer.
RestoresFound ==
    [][pc = "restore" /\ pc' = "restart" => exe' = found \/ dirty \/ "backup" \in cut]_vars

\* Whatever tears the program, there is a backup beside it that a later run can
\* start from: a whole release, which the catch block restores, or a torn program
\* that still starts, which the script takes for an old version; unless that backup
\* was torn by its own copy, or the installer, which makes none, was cut short.
TornIsBackedUp == exe \in Torn => bak \in {Crashing} \union Releases \/ cut # {}

\* A program that was torn, by a failed copy or a power loss, is whole again after
\* some later run, under the same exceptions.
Heals == exe \in Torn ~> (exe \notin Torn \/ cut # {})
=============================================================================
