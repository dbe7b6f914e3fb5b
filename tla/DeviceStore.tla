---------------------------- MODULE DeviceStore ----------------------------
(***************************************************************************)
(* What the server promises about the requests of one device: a request    *)
(* that is answered with success has taken effect once, as a whole and in  *)
(* a single step, and one that is answered otherwise has had no effect.    *)
(* Only threshold updates that come together may mix.                      *)
(*                                                                         *)
(* A request is named by what it carries, and a row by the report or the   *)
(* inventory it came with.                                                 *)
(***************************************************************************)
EXTENDS Naturals

CONSTANTS Reports,       \* the reports the agent posts
          Inventories,   \* the inventories it posts
          Checks,        \* the port checks of the device
          Removals,      \* the deletions of checks by operators
          Target(_),     \* the check that a removal deletes
          Patches,       \* the threshold updates of operators
          Drops,         \* the deletions of the device
          Warning(_), Critical(_)  \* the thresholds of a patch

VARIABLES device,      \* the device exists
          thresholds,  \* its warning and critical threshold
          checks,      \* its port checks
          results,     \* their results: <<check, report>>
          metrics,     \* the reports whose metrics are stored
          procs,       \* the reports whose processes are stored
          inventory,   \* the inventories that are stored
          succeeded    \* the requests that were answered with success

rows == <<results, metrics, procs, inventory>>
storeVars == <<device, thresholds, checks, rows, succeeded>>

Init == /\ device = TRUE /\ checks = Checks
        /\ thresholds = [warning |-> 80, critical |-> 90]
        /\ results = {} /\ metrics = {} /\ procs = {} /\ inventory = {}
        /\ succeeded = {}

Succeed(t) == t \notin succeeded /\ succeeded' = succeeded \union {t}

\* A report is stored with a result for every check there is, and its processes
\* take the place of those there were.
StoreReport(r) == /\ device /\ Succeed(r)
                  /\ metrics' = metrics \union {r}
                  /\ results' = results \union (checks \X {r})
                  /\ procs' = {r}
                  /\ UNCHANGED <<device, thresholds, checks, inventory>>

StoreInventory(v) == /\ device /\ Succeed(v)
                     /\ inventory' = {v}
                     /\ UNCHANGED <<device, thresholds, checks, results, metrics, procs>>

\* A check goes with its results, if somebody has not deleted it before.
DeleteCheck(c) == /\ Succeed(c)
                  /\ checks' = checks \ {Target(c)}
                  /\ results' = {x \in results : x[1] # Target(c)}
                  /\ UNCHANGED <<device, thresholds, metrics, procs, inventory>>

\* The device goes with everything that belongs to it.
DeleteDevice(d) == /\ device /\ Succeed(d)
                   /\ device' = FALSE /\ checks' = {}
                   /\ results' = {} /\ metrics' = {} /\ procs' = {} /\ inventory' = {}
                   /\ UNCHANGED thresholds

\* An update in order; one whose warning is not below its critical threshold is
\* refused.
Valid(p) == Warning(p) < Critical(p)
Requested(p) == [warning |-> Warning(p), critical |-> Critical(p)]

SetThresholds(p) == /\ Valid(p) /\ Succeed(p)
                    /\ thresholds' = Requested(p)
                    /\ UNCHANGED <<device, checks, rows>>

\* Beside other updates, each of the two thresholds may stay as it is.
MixThresholds(p) == /\ \E q \in Patches \ {p} : Valid(q)
                    /\ Valid(p) /\ Succeed(p)
                    /\ thresholds' \in [warning  : {thresholds.warning, Warning(p)},
                                       critical : {thresholds.critical, Critical(p)}]
                    /\ UNCHANGED <<device, checks, rows>>

Next == \/ \E r \in Reports : StoreReport(r)
        \/ \E v \in Inventories : StoreInventory(v)
        \/ \E c \in Removals : DeleteCheck(c)
        \/ \E d \in Drops : DeleteDevice(d)
        \/ \E p \in Patches : SetThresholds(p) \/ MixThresholds(p)

Spec == Init /\ [][Next]_storeVars
=============================================================================
