------------------------- MODULE DeviceStatusProofs -------------------------
(***************************************************************************)
(* What is said of a device is about its last report, and the clean-up     *)
(* does not change it while that report is retained, for any reports,      *)
(* checks and monitors, any disorder, any retention and any difference     *)
(* between the two clocks; a report that was overtaken upsets it only      *)
(* until the next complete one.                                            *)
(***************************************************************************)
EXTENDS DeviceStatus, WellFoundedInduction, TLAPS

Report == [at : Int, disks : SUBSET (0..100), procs : SUBSET Names,
           up : SUBSET Checks, down : SUBSET Checks]

Shape == reports \in Seq(Report) /\ arrived \in Seq(Nat) /\ checks \subseteq Checks

\* Reports are numbered in the order of their times, which are past.
InTime == /\ \A m, n \in DOMAIN reports : m <= n => reports[m].at <= reports[n].at
          /\ \A n \in DOMAIN reports : reports[n].at <= now + skew

\* A check that is to be added was never reported about.
NeverReported == \A n \in DOMAIN reports : (reports[n].up \union reports[n].down)
                                               \intersect unused = {}

\* What a report that has not expired says of its disks and of the checks there
\* still are is stored.
Stored == \A i \in DOMAIN arrived :
    LET n == arrived[i]
    IN reports[n].at >= now - Retention =>
           /\ reports[n].disks # {} => n \in disks
           /\ \A c \in checks \intersect (reports[n].up \union reports[n].down) :
                  <<n, c>> \in results

\* The inductive invariant.
Inv == TypeOK /\ Shape /\ InTime /\ NeverReported /\ Stored

-----------------------------------------------------------------------------
\* The greatest of a set of numbers is the one that is not below another.
LEMMA GreatestIs ==
    ASSUME NEW S \in SUBSET Nat, NEW x \in S, \A y \in S : y <= x
    PROVE  Greatest(S) = x
<1>1. \A z \in S : (\A y \in S : y <= z) => z = x
  OBVIOUS
<1>. QED  BY <1>1 DEF Greatest

\* A bounded set of numbers has a greatest one: the distances from the bound
\* have a least one.
LEMMA GreatestExists ==
    ASSUME NEW m \in Nat, NEW S \in SUBSET (0..m), S # {}
    PROVE  Greatest(S) \in S /\ \A y \in S : y <= Greatest(S)
<1> DEFINE D == {m - y : y \in S}
<1>1. D \subseteq Nat /\ D # {}
  <2>1. ASSUME NEW y \in S PROVE m - y \in Nat
    BY <2>1
  <2>. QED  BY <2>1
<1>2. PICK d \in D : \A e \in D : <<e, d>> \notin OpToRel(<, Nat)
  BY <1>1, NatLessThanWellFounded, WFMin
<1>3. \A e \in D : ~(e < d)
  BY <1>1, <1>2 DEF OpToRel
<1>4. PICK x \in S : d = m - x
  OBVIOUS
<1>5. \A y \in S : y <= x
  <2>1. ASSUME NEW y \in S PROVE y <= x
    <3>1. ~(m - y < m - x)
      BY <1>3, <1>4
    <3>. QED  BY <3>1
  <2>. QED  BY <2>1
<1>. QED  BY <1>5, GreatestIs

LEMMA TimeOfReport ==
    ASSUME Shape, NEW n \in DOMAIN reports
    PROVE  reports[n].at \in Int
<1>1. DOMAIN reports = 1..Len(reports) /\ reports[n] \in Report
  BY DEF Shape
<1>. QED  BY <1>1 DEF Report

\* What Append does to a sequence.
LEMMA Appended ==
    ASSUME NEW S, NEW q \in Seq(S), NEW x \in S
    PROVE  /\ Append(q, x) \in Seq(S) /\ Len(Append(q, x)) = Len(q) + 1
           /\ DOMAIN Append(q, x) = DOMAIN q \union {Len(q) + 1}
           /\ \A i \in DOMAIN q : Append(q, x)[i] = q[i] /\ i <= Len(q)
           /\ Append(q, x)[Len(q) + 1] = x
OBVIOUS

LEMMA InvInit == Init => Inv
BY BoundsAssumption
   DEF Init, Inv, TypeOK, Shape, InTime, NeverReported, Stored

LEMMA InvStep == Inv /\ [Next]_vars => Inv'
<1>. SUFFICES ASSUME Inv, [Next]_vars PROVE Inv'
  OBVIOUS
<1>. USE BoundsAssumption, ClocksAssumption DEF Inv
<1>1. CASE Tick
  <2>1. /\ now' = now + 1 /\ now < MaxTime
        /\ UNCHANGED <<skew, reports, arrived, lastSeen, disks, results, checks, unused, monitors>>
    BY <1>1 DEF Tick
  <2>2. TypeOK' /\ Shape' /\ NeverReported'
    BY <2>1 DEF TypeOK, Shape, NeverReported
  <2>3. \A n \in DOMAIN reports : reports[n].at \in Int
    BY TimeOfReport
  <2>4. InTime'
    BY <2>1, <2>3 DEF InTime, TypeOK
  <2>5. Stored'
    BY <2>1, <2>3 DEF Stored, TypeOK
  <2>. QED  BY <2>2, <2>4, <2>5
<1>2. CASE Cleanup
  <2>1. /\ disks' = disks \ Expired /\ results' = {x \in results : x[1] \notin Expired}
        /\ UNCHANGED <<now, skew, reports, arrived, lastSeen, checks, unused, monitors>>
    BY <1>2 DEF Cleanup
  <2>2. TypeOK' /\ Shape' /\ InTime' /\ NeverReported'
    BY <2>1 DEF TypeOK, Shape, InTime, NeverReported
  <2>3. \A n \in Expired : ~(reports[n].at >= now - Retention)
    <3>1. ASSUME NEW n \in Expired PROVE ~(reports[n].at >= now - Retention)
      <4>1. n \in DOMAIN reports /\ reports[n].at < now - Retention
        BY DEF Expired, Shape
      <4>2. reports[n].at \in Int /\ now - Retention \in Int
        BY <4>1, TimeOfReport DEF TypeOK
      <4>. QED  BY <4>1, <4>2
    <3>. QED  BY <3>1
  <2>4. Stored'
    BY <2>1, <2>3 DEF Stored
  <2>. QED  BY <2>2, <2>4
<1>3. ASSUME NEW c \in Contents, Record(c) PROVE Inv'
  <2> DEFINE r == [at |-> now + skew, disks |-> c.disks, procs |-> c.procs,
                   up |-> checks \intersect PortsUp(c), down |-> checks \ PortsUp(c)]
  <2>1. /\ reports' = Append(reports, r)
        /\ UNCHANGED <<now, skew, arrived, lastSeen, disks, results, checks, unused, monitors>>
    BY <1>3 DEF Record
  <2>2. r \in Report
    <3>1. c.disks \in SUBSET (0..100) /\ c.procs \in SUBSET Names
      BY ContentsAssumption
    <3>2. checks \intersect PortsUp(c) \in SUBSET Checks /\ checks \ PortsUp(c) \in SUBSET Checks
      BY DEF Shape
    <3>3. now + skew \in Int
      BY ClocksAssumption DEF TypeOK
    <3>. QED  BY <3>1, <3>2, <3>3 DEF Report
  <2>3. r.at = now + skew /\ r.up \union r.down = checks
    OBVIOUS
  <2>. HIDE DEF r
  <2>4. /\ DOMAIN reports' = DOMAIN reports \union {Len(reports) + 1}
        /\ \A n \in DOMAIN reports : reports'[n] = reports[n] /\ n <= Len(reports)
        /\ reports'[Len(reports) + 1] = r
        /\ reports' \in Seq(Report)
    <3>1. reports \in Seq(Report)
      BY DEF Shape
    <3>. QED  BY <2>1, <2>2, <3>1, Appended
  <2>5. TypeOK' /\ Shape'
    BY <2>1, <2>4 DEF TypeOK, Shape
  <2>6. InTime'
    BY <2>1, <2>3, <2>4 DEF InTime, TypeOK, Shape
  <2>7. NeverReported'
    BY <2>1, <2>3, <2>4 DEF NeverReported, TypeOK
  <2>8. \A i \in DOMAIN arrived : reports'[arrived[i]] = reports[arrived[i]]
    BY <2>4 DEF TypeOK
  <2>9. Stored'
    BY <2>1, <2>8 DEF Stored
  <2>. QED  BY <2>5, <2>6, <2>7, <2>9
<1>4. ASSUME NEW n \in DOMAIN reports, Ingest(n) PROVE Inv'
  <2>1. /\ arrived' = Append(arrived, n) /\ lastSeen' = now
        /\ disks' = IF reports[n].disks = {} THEN disks ELSE disks \union {n}
        /\ results' = results \union
                      {<<n, c>> : c \in (reports[n].up \union reports[n].down) \intersect checks}
        /\ UNCHANGED <<now, skew, reports, checks, unused, monitors>>
    BY <1>4 DEF Ingest
  <2>2. /\ DOMAIN arrived' = DOMAIN arrived \union {Len(arrived) + 1}
        /\ \A i \in DOMAIN arrived : arrived'[i] = arrived[i]
        /\ arrived'[Len(arrived) + 1] = n /\ Len(arrived') = Len(arrived) + 1
        /\ arrived' \in Seq(Nat)
    <3>1. arrived \in Seq(Nat) /\ n \in Nat
      BY DEF Shape
    <3>. QED  BY <2>1, <3>1, Appended
  <2>3. TypeOK'
    <3>1. {arrived[i] : i \in DOMAIN arrived} \union {n}
              = {arrived'[i] : i \in DOMAIN arrived'}
      <4>1. Len(arrived) + 1 \notin DOMAIN arrived
        BY DEF Shape
      <4>. QED  BY <2>2, <4>1
    <3>2. disks' \subseteq {arrived'[i] : i \in DOMAIN arrived'}
      BY <2>1, <3>1 DEF TypeOK
    <3>3. results' \subseteq {arrived'[i] : i \in DOMAIN arrived'} \X checks'
      <4>1. results \subseteq ({arrived[i] : i \in DOMAIN arrived} \union {n}) \X checks
        BY DEF TypeOK
      <4>2. \A c \in checks : <<n, c>> \in ({arrived[i] : i \in DOMAIN arrived} \union {n})
                                             \X checks
        OBVIOUS
      <4>. QED  BY <2>1, <3>1, <4>1, <4>2
    <3>4. \A i \in DOMAIN arrived' : arrived'[i] \in DOMAIN reports'
      BY <2>1, <2>2 DEF TypeOK
    <3>5. /\ now' \in 0..MaxTime /\ lastSeen' \in 0..now'
          /\ skew' \in Skews /\ checks' \intersect unused' = {} /\ monitors' \subseteq Names
      BY <2>1 DEF TypeOK
    <3>. QED  BY <3>2, <3>3, <3>4, <3>5 DEF TypeOK
  <2>4. Shape' /\ InTime' /\ NeverReported'
    BY <2>1, <2>2 DEF Shape, InTime, NeverReported
  <2>5. Stored'
    <3>1. disks \subseteq disks' /\ results \subseteq results'
          /\ UNCHANGED <<now, skew, reports, checks>>
      BY <2>1
    <3>2. (reports[n].disks # {} => n \in disks')
          /\ \A c \in checks \intersect (reports[n].up \union reports[n].down) :
                 <<n, c>> \in results'
      BY <2>1
    <3>. QED  BY <2>2, <3>1, <3>2 DEF Stored
  <2>. QED  BY <2>3, <2>4, <2>5
<1>5. ASSUME NEW c \in Checks, AddCheck(c) PROVE Inv'
  <2>1. /\ c \in unused /\ checks' = checks \union {c} /\ unused' = unused \ {c}
        /\ UNCHANGED <<now, skew, reports, arrived, lastSeen, disks, results, monitors>>
    BY <1>5 DEF AddCheck
  <2>2. TypeOK' /\ Shape' /\ InTime' /\ NeverReported'
    BY <2>1 DEF TypeOK, Shape, InTime, NeverReported
  <2>3. \A i \in DOMAIN arrived :
            c \notin reports[arrived[i]].up \union reports[arrived[i]].down
    BY <2>1 DEF NeverReported, TypeOK
  <2>4. Stored'
    BY <2>1, <2>3 DEF Stored
  <2>. QED  BY <2>2, <2>4
<1>6. ASSUME NEW c \in Checks, DeleteCheck(c) PROVE Inv'
  <2>1. /\ checks' = checks \ {c} /\ results' = {x \in results : x[2] # c}
        /\ UNCHANGED <<now, skew, reports, arrived, lastSeen, disks, unused, monitors>>
    BY <1>6 DEF DeleteCheck
  <2>2. TypeOK'
    BY <2>1 DEF TypeOK
  <2>3. Shape' /\ InTime' /\ NeverReported'
    BY <2>1 DEF Shape, InTime, NeverReported
  <2>4. Stored'
    BY <2>1 DEF Stored
  <2>. QED  BY <2>2, <2>3, <2>4
<1>7. ASSUME NEW m \in Names, AddMonitor(m) \/ DeleteMonitor(m) PROVE Inv'
  BY <1>7 DEF AddMonitor, DeleteMonitor, TypeOK, Shape, InTime, NeverReported,
     Stored
<1>8. CASE UNCHANGED vars
  BY <1>8 DEF vars, TypeOK, Shape, InTime, NeverReported, Stored
<1>. QED  BY <1>1, <1>2, <1>3, <1>4, <1>5, <1>6, <1>7, <1>8 DEF Next

LEMMA Invariance == Spec => []Inv
BY InvInit, InvStep, PTL DEF Spec

-----------------------------------------------------------------------------
\* Rows are named by reports and by places in the order of arrival.
LEMMA Places ==
    ASSUME Inv
    PROVE  /\ DOMAIN reports = 1..Len(reports) /\ Len(reports) \in Nat
           /\ DOMAIN arrived = 1..Len(arrived) /\ Len(arrived) \in Nat
           /\ \A i \in DOMAIN arrived : arrived[i] \in 1..Len(reports)
           /\ disks \subseteq 1..Len(reports)
BY DEF Inv, TypeOK, Shape

\* While the last report has not expired and is complete, it decides about the
\* ports: its results are those that were stored last.
LEMMA LastDecidesPorts ==
    Inv /\ arrived # <<>> /\ Complete(Last) /\ Last.at >= now - Retention
        => FailedPorts = Last.down \intersect checks
<1>. SUFFICES ASSUME Inv, arrived # <<>>, Complete(Last), Last.at >= now - Retention
              PROVE  FailedPorts = Last.down \intersect checks
  OBVIOUS
<1>1. Len(arrived) \in DOMAIN arrived /\ \A i \in DOMAIN arrived : i <= Len(arrived)
  BY Places DEF Inv, Shape
<1>2. ASSUME NEW c \in checks PROVE c \in FailedPorts <=> c \in Last.down
  <2> DEFINE ids == {i \in DOMAIN arrived : <<arrived[i], c>> \in results}
  <2>1. Len(arrived) \in ids
    BY <1>1 DEF Inv, Stored, Complete, Last
  <2>2. ids \subseteq Nat /\ \A i \in ids : i <= Len(arrived)
    BY <1>1, Places
  <2>3. Greatest(ids) = Len(arrived)
    BY <2>1, <2>2, GreatestIs
  <2>. QED  BY <2>1, <2>3 DEF FailedPorts, Last
<1>. QED  BY <1>2 DEF FailedPorts

\* The disks are those of a report that is not older than the last one.
LEMMA LatestIsNotOlder ==
    ASSUME Inv, arrived # <<>>, Complete(Last), Last.at >= now - Retention
    PROVE  /\ Greatest(disks) \in disks /\ \A n \in disks : n <= Greatest(disks)
           /\ reports[Greatest(disks)].at >= now - Retention
           /\ arrived[Len(arrived)] \in disks
<1>1. Len(arrived) \in DOMAIN arrived
  BY Places DEF Inv, Shape
<1>2. arrived[Len(arrived)] \in disks
  BY <1>1 DEF Inv, Stored, Complete, Last
<1>3. Greatest(disks) \in disks /\ \A n \in disks : n <= Greatest(disks)
  <2>1. disks \in SUBSET (0..Len(reports)) /\ disks # {} /\ Len(reports) \in Nat
    BY <1>2, Places
  <2>. QED  BY <2>1, GreatestExists
<1>4. reports[arrived[Len(arrived)]].at <= reports[Greatest(disks)].at
  BY <1>2, <1>3, Places DEF Inv, InTime
<1>5. now \in Int /\ \A n \in DOMAIN reports : reports[n].at \in Int
  BY TimeOfReport DEF Inv, TypeOK
<1>6. Greatest(disks) \in DOMAIN reports /\ arrived[Len(arrived)] \in DOMAIN reports
  BY <1>2, <1>3, Places
<1>. QED  BY <1>2, <1>3, <1>4, <1>5, <1>6, ClocksAssumption DEF Last

LEMMA UpToDateIsRecent ==
    ASSUME Inv, UpToDate
    PROVE  Last.at >= now - Retention
<1>1. arrived[Len(arrived)] \in DOMAIN reports
  BY Places DEF Inv, Shape, UpToDate
<1>2. Last.at \in Int /\ now \in Int
  BY <1>1, TimeOfReport DEF Inv, TypeOK, Last
<1>. QED  BY <1>2, ClocksAssumption DEF UpToDate, Retained

\* Its results are also those of the newest report.
LEMMA UpToDateAgrees ==
    ASSUME Inv, UpToDate
    PROVE  FailedPorts = ShownDown
<1> DEFINE n == arrived[Len(arrived)]
<1>1. arrived # <<>> /\ Complete(Last) /\ Last.at >= now - Retention
  BY UpToDateIsRecent DEF UpToDate
<1>2. FailedPorts = Last.down \intersect checks
  BY <1>1, LastDecidesPorts
<1>3. ASSUME NEW c \in checks PROVE c \in ShownDown <=> c \in Last.down
  <2> DEFINE rows == {m \in 1..Len(reports) : <<m, c>> \in results}
  <2>1. Len(arrived) \in DOMAIN arrived
    BY <1>1, Places DEF Inv, Shape
  <2>2. n \in rows
    BY <1>1, <2>1, Places DEF Inv, Stored, Complete, Last
  <2>3. \A m \in rows : m <= n
    BY DEF Inv, TypeOK, UpToDate
  <2>4. Greatest(rows) = n
    <3>1. rows \in SUBSET Nat
      BY Places
    <3>. HIDE DEF rows, n
    <3>. QED  BY <2>2, <2>3, <3>1, GreatestIs
  <2>. QED  BY <2>2, <2>4 DEF ShownDown, Last
<1>. QED  BY <1>2, <1>3 DEF ShownDown

\* As long as no report was overtaken, the last place is that of the newest report,
\* for each check by itself.
LEMMA InOrderAgrees ==
    ASSUME Inv, InOrder
    PROVE  FailedPorts = ShownDown
<1>1. ASSUME NEW c \in checks PROVE c \in FailedPorts <=> c \in ShownDown
  <2> DEFINE ids == {i \in DOMAIN arrived : <<arrived[i], c>> \in results}
             rows == {n \in 1..Len(reports) : <<n, c>> \in results}
  <2>1. \A n \in rows : \E i \in ids : arrived[i] = n
    BY DEF Inv, TypeOK
  <2>2. \A i \in ids : arrived[i] \in rows
    BY Places
  <2>3. CASE ids = {}
    BY <2>1, <2>3 DEF FailedPorts, ShownDown
  <2>4. CASE ids # {}
    <3>1. PICK g \in ids : g = Greatest(ids) /\ \A i \in ids : i <= g
      <4>1. ids \in SUBSET (0..Len(arrived)) /\ Len(arrived) \in Nat
        BY Places
      <4>. HIDE DEF ids
      <4>. QED  BY <2>4, <4>1, GreatestExists
    <3>2. ASSUME NEW i \in ids PROVE arrived[i] <= arrived[g]
      <4>1. i \in 1..Len(arrived) /\ g \in 1..Len(arrived) /\ Len(arrived) \in Nat
        BY Places
      <4>2. arrived[g] \in Nat
        BY Places
      <4>3. i < g => arrived[i] <= arrived[g]
        BY DEF InOrder
      <4>4. i < g \/ i = g
        <5>1. i <= g
          BY <3>1
        <5>. HIDE DEF ids
        <5>. QED  BY <4>1, <5>1
      <4>. QED  BY <4>2, <4>3, <4>4
    <3>3. rows \subseteq Nat /\ arrived[g] \in rows
      BY <2>2
    <3>4. \A n \in rows : n <= arrived[g]
      BY <2>1, <3>2
    <3>5. Greatest(rows) = arrived[g]
      <4>. HIDE DEF ids, rows
      <4>. QED  BY <3>3, <3>4, GreatestIs
    <3>. QED  BY <2>4, <3>1, <3>3, <3>5 DEF FailedPorts, ShownDown
  <2>. QED  BY <2>3, <2>4
<1>. QED  BY <1>1 DEF FailedPorts, ShownDown

-----------------------------------------------------------------------------
\* The type invariant: rows are of reports that were stored and of checks there
\* are (ingest, cleanup_metrics, delete_port_check).
THEOREM TypeCorrect == Spec => []TypeOK
BY Invariance, PTL DEF Inv

\* device_health judges the disks, ports and processes of the last report, unless
\* it overtook a newer one, whatever came late before, was deleted or cleaned up.
THEOREM StatusIsOfLastReport == Spec => []StatusOfLastReport
<1>1. Inv => StatusOfLastReport
  <2>. SUFFICES ASSUME Inv, UpToDate
                PROVE  /\ LatestDisks = Last.disks /\ FailedPorts = Last.down \intersect checks
                       /\ FailedProcesses = monitors \ Last.procs
    BY DEF StatusOfLastReport, Status
  <2> DEFINE n == arrived[Len(arrived)]
  <2>1. arrived # <<>> /\ Complete(Last)
    BY DEF UpToDate
  <2>2. Last.at >= now - Retention
    BY UpToDateIsRecent
  <2>3. n \in disks
    BY <2>1, <2>2, LatestIsNotOlder
  <2>4. \A m \in disks : m <= n
    BY DEF Inv, TypeOK, UpToDate
  <2>5. Greatest(disks) = n
    BY <2>3, <2>4, Places, GreatestIs
  <2>6. LatestDisks = Last.disks
    BY <2>3, <2>5 DEF LatestDisks, Last
  <2>7. FailedPorts = Last.down \intersect checks
    BY <2>1, <2>2, LastDecidesPorts
  <2>8. FailedProcesses = monitors \ Last.procs
    BY <2>1 DEF FailedProcesses, RunningNames, Last
  <2>. QED  BY <2>6, <2>7, <2>8
<1>. QED  BY <1>1, Invariance, PTL

\* serialise_device and get_device name the same failing checks as long as no report
\* was overtaken, results that were stored twice included, and again with the next
\* complete report.
THEOREM TheViewsAgree == Spec => []ViewsAgree
<1>1. Inv => ViewsAgree
  BY InOrderAgrees, UpToDateAgrees DEF ViewsAgree
<1>. QED  BY <1>1, Invariance, PTL

\* cleanup_metrics does not change the verdict on a device whose last report was
\* complete and is within the retention by its own time, or which is offline anyway:
\* for any retention, and any difference between the two clocks.
THEOREM CleanupIsHarmless == Spec => CleanupKeepsStatus
<1>1. ASSUME Inv, Inv', Cleanup, arrived # <<>>, Complete(Last),
             Retained(Last) \/ now - lastSeen > OfflineAfter
      PROVE  Status' = Status
  <2>1. /\ disks' = disks \ Expired
        /\ UNCHANGED <<now, skew, reports, arrived, lastSeen, checks, unused, monitors>>
    BY <1>1 DEF Cleanup
  <2>2. now \in Int /\ Last.at \in Int
    <3>1. arrived[Len(arrived)] \in DOMAIN reports
      BY <1>1, Places DEF Inv, Shape
    <3>. QED  BY <1>1, <3>1, TimeOfReport DEF Inv, TypeOK, Last
  <2>3. CASE Retained(Last)
    <3>0. Last.at >= now - Retention
      BY <2>2, <2>3, ClocksAssumption DEF Retained
    <3>1. Last' = Last /\ Complete(Last)' /\ Last'.at >= now' - Retention
      BY <1>1, <2>1, <3>0 DEF Last, Complete
    <3>2. FailedPorts = Last.down \intersect checks
      BY <1>1, <3>0, LastDecidesPorts
    <3>3. FailedPorts' = Last.down \intersect checks
      <4>1. (arrived # <<>> /\ Complete(Last) /\ Last.at >= now - Retention)'
        BY <1>1, <2>1, <3>0, <3>1
      <4>2. (FailedPorts = Last.down \intersect checks)'
        BY <1>1, <4>1, LastDecidesPorts, PTL
      <4>. QED  BY <2>1, <3>1, <4>2
    <3>4. LatestDisks' = LatestDisks
      <4> DEFINE g == Greatest(disks)
      <4>1. g \in disks /\ (\A n \in disks : n <= g) /\ reports[g].at >= now - Retention
        BY <1>1, <3>0, LatestIsNotOlder
      <4>2. g \in DOMAIN reports
        BY <1>1, <4>1, Places
      <4>3. g \notin Expired
        BY <1>1, <2>2, <4>1, <4>2, TimeOfReport, ClocksAssumption DEF Expired, Inv
      <4>4. g \in disks' /\ (\A n \in disks' : n <= g) /\ disks' \subseteq Nat
        BY <1>1, <2>1, <4>1, <4>3, Places
      <4>5. Greatest(disks') = g
        BY <4>4, GreatestIs
      <4>. QED  BY <2>1, <4>1, <4>4, <4>5 DEF LatestDisks
    <3>5. FailedProcesses' = FailedProcesses
      BY <2>1 DEF FailedProcesses, RunningNames
    <3>. QED  BY <2>1, <3>2, <3>3, <3>4, <3>5 DEF Status, DeviceHealth
  <2>4. CASE now - lastSeen > OfflineAfter
    <3>1. Status = "offline"
      BY <1>1, <2>4 DEF Status, DeviceHealth
    <3>2. Status' = "offline"
      BY <1>1, <2>1, <2>4 DEF Status, DeviceHealth
    <3>. QED  BY <3>1, <3>2
  <2>. QED  BY <1>1, <2>3, <2>4
<1>2. Inv /\ Inv' /\ [Next]_vars
          => [Cleanup /\ arrived # <<>> /\ Complete(Last)
                  /\ (Retained(Last) \/ now - lastSeen > OfflineAfter) => Status' = Status]_vars
  BY <1>1
<1>. QED  BY <1>2, Invariance, PTL DEF Spec, CleanupKeepsStatus
=============================================================================
