------------------------- MODULE ServerStoreProofs -------------------------
(***************************************************************************)
(* What holds of a device's rows for any number of requests about it.  The *)
(* row lock that a report takes when it updates the device row             *)
(* (server/app/main.py:500-504) lasts until its commit, and so serialises  *)
(* the deletion and insertion of the processes of all reports; the share   *)
(* locks it takes on the checks it inserts results for keep these checks   *)
(* from being deleted until then.  So the requests take effect one at a    *)
(* time (DeviceStore).                                                     *)
(***************************************************************************)
EXTENDS ServerStore, FiniteSetTheorems, TLAPS

Rows == Checks \union (Checks \X Reports) \union Reports \union Inventories

Levels == [warning : Nat, critical : Nat]

Labels == Answered \union
    {"begin", "update", "select", "results", "read", "clear", "commit", "store",
     "check", "checks", "cascade", "device"}

Transaction == [pc : Labels, seen : SUBSET Rows, old : Levels, dev : BOOLEAN,
                shared : SUBSET Checks, gone : SUBSET Rows]

\* The types, which TypeOK leaves open for the transactions.
Types == /\ TypeOK
         /\ tx \in [Requests -> Transaction]

\* A report that is past its first UPDATE holds the lock of the device row.
Locked == \A r \in Reports :
    tx[r].pc \in {"select", "results", "read", "clear", "commit"} => tx[r].dev

\* One transaction at a time holds that lock.
Exclusive == \A t, u \in Requests : tx[t].dev /\ tx[u].dev => t = u

\* Under the lock, the rows a report has found, and then deleted, are all the
\* rows there are.
Cleared == \A r \in Reports :
    /\ tx[r].pc = "clear" => procs \subseteq tx[r].seen
    /\ tx[r].pc = "commit" => procs \subseteq tx[r].gone

Single == procs = {} \/ \E r \in Reports : procs = {r}

\* The inductive invariant: Single alone does not survive a commit that has
\* not deleted the rows of another report, which Cleared, and the lock it
\* needs, exclude.
Inv == Types /\ Locked /\ Exclusive /\ Cleared /\ Single

-----------------------------------------------------------------------------
(* A transaction that the UPDATE of the device row does not block finds no  *)
(* other transaction with the row lock.                                     *)
LEMMA LockFree ==
  ASSUME NEW t \in Requests, tx[t].pc \in {"update", "device"}, Blockers(t) = {}
  PROVE  \A u \in Requests : u # t => ~tx[u].dev
BY DEF Blockers, Others

(* A request of one kind is not of another, and all are requests.           *)
LEMMA Kinds ==
  /\ Reports \subseteq Requests /\ Inventories \subseteq Requests
  /\ Removals \subseteq Requests /\ \A c \in Removals : Target(c) \in Checks
  /\ Drops \subseteq Requests /\ Patches \subseteq Requests
  /\ Reports \intersect Inventories = {} /\ Reports \intersect Removals = {}
  /\ Reports \intersect Drops = {} /\ Reports \intersect Patches = {}
BY JobsAssumption DEF Requests

LEMMA FreshType == \A a \in Labels : [Fresh EXCEPT !.pc = a] \in Transaction
BY DEF Fresh, Transaction, Levels

(* A statement that changes the transaction t alone keeps the invariant if  *)
(* it takes the lock of the device row when nobody has it, and if it holds  *)
(* the lock where the code relies on it.                                    *)
LEMMA Move ==
  ASSUME Inv, NEW t \in Requests, NEW e \in Transaction,
         tx' = [tx EXCEPT ![t] = e], UNCHANGED tables,
         e.pc \in Answered \union {"begin"} => e = [Fresh EXCEPT !.pc = e.pc],
         e.dev => tx[t].dev \/ \A u \in Requests : u # t => ~tx[u].dev,
         t \in Reports =>
            /\ e.pc \in {"select", "results", "read", "clear", "commit"} => e.dev
            /\ e.pc = "clear" => procs \subseteq e.seen
            /\ e.pc = "commit" => procs \subseteq e.gone
  PROVE  Inv'
<1> USE Kinds DEF Inv
<1>1. \A u \in Requests : tx'[u] = IF u = t THEN e ELSE tx[u]
  BY DEF Types
<1>2. Types'
  BY <1>1 DEF Types, TypeOK, tables
<1>3. Locked'
  BY <1>1 DEF Locked
<1>4. Exclusive'
  BY <1>1 DEF Exclusive
<1>5. Cleared'
  BY <1>1 DEF Cleared, tables
<1>6. Single'
  BY DEF Single, tables
<1> QED
  BY <1>2, <1>3, <1>4, <1>5, <1>6

(* An answer that changes no table.                                         *)
LEMMA Answers ==
  ASSUME Inv, NEW t \in Requests, NEW a \in Answered \union {"begin"},
         Answer(t, a), UNCHANGED tables
  PROVE  Inv'
<1> DEFINE e == [Fresh EXCEPT !.pc = a]
<1>1. e \in Transaction
  BY FreshType DEF Labels
<1>2. e.pc = a /\ e.dev = FALSE
  BY DEF Fresh
<1>3. tx' = [tx EXCEPT ![t] = e]
  BY DEF Answer
<1> HIDE DEF e
<1>4. a \notin {"select", "results", "read", "clear", "commit"}
  BY DEF Answered
<1>5. e.pc \in Answered \union {"begin"} => e = [Fresh EXCEPT !.pc = e.pc]
  BY <1>2 DEF e
<1> QED
  BY <1>1, <1>2, <1>3, <1>4, <1>5, Move

(* The updates that the statements make of a transaction keep its type.     *)
LEMMA Updates ==
  ASSUME NEW x \in Transaction, NEW l \in Labels
  PROVE  /\ \A o \in Levels : [x EXCEPT !.pc = l, !.old = o] \in Transaction
         /\ [x EXCEPT !.pc = l, !.dev = TRUE] \in Transaction
         /\ \A S \in SUBSET Checks : [x EXCEPT !.pc = l, !.shared = S] \in Transaction
         /\ \A S \in SUBSET Rows : [x EXCEPT !.pc = l, !.seen = S] \in Transaction
         /\ \A S \in SUBSET Rows : [x EXCEPT !.pc = l, !.gone = S] \in Transaction
         /\ \A S, T \in SUBSET Rows :
                [x EXCEPT !.pc = l, !.gone = S, !.seen = T] \in Transaction
BY DEF Transaction

(* The rows of every table are among the rows a transaction can see.        *)
LEMMA TypesOfRows ==
  ASSUME Inv
  PROVE  /\ checks \subseteq Rows /\ results \subseteq Rows /\ metrics \subseteq Rows
         /\ procs \subseteq Rows /\ inventory \subseteq Rows /\ thresholds \in Levels
         /\ \A t \in Requests : /\ tx[t] \in Transaction
                                /\ tx[t].seen \subseteq Rows /\ tx[t].gone \subseteq Rows
BY DEF Inv, Types, TypeOK, Transaction, Rows, Levels

(* An answer that comes with a commit: what is left to show is about the    *)
(* tables.                                                                   *)
LEMMA Commits ==
  ASSUME Inv, NEW t \in Requests, NEW a \in Answered, Answer(t, a)
  PROVE  /\ tx' \in [Requests -> Transaction] /\ Locked' /\ Exclusive'
         /\ \A u \in Requests : tx'[u] = IF u = t THEN [Fresh EXCEPT !.pc = a] ELSE tx[u]
         /\ \A u \in Requests : tx'[u].pc \in Answered \union {"begin"} =>
                tx'[u] = [Fresh EXCEPT !.pc = tx'[u].pc]
<1> DEFINE e == [Fresh EXCEPT !.pc = a]
<1>1. e \in Transaction
  BY FreshType DEF Labels
<1>2. e.pc = a /\ e.dev = FALSE /\ e = [Fresh EXCEPT !.pc = e.pc]
  BY DEF Fresh
<1>3. tx' = [tx EXCEPT ![t] = e]
  BY DEF Answer
<1> HIDE DEF e
<1>4. a \notin {"select", "results", "read", "clear", "commit"}
  BY DEF Answered
<1>5. \A u \in Requests : tx'[u] = IF u = t THEN e ELSE tx[u]
  BY <1>3 DEF Inv, Types
<1>6. tx' \in [Requests -> Transaction]
  BY <1>1, <1>3 DEF Inv, Types
<1>7. Locked'
  BY <1>2, <1>4, <1>5, Kinds DEF Inv, Locked
<1>8. Exclusive'
  BY <1>2, <1>5 DEF Inv, Exclusive
<1>9. \A u \in Requests : tx'[u].pc \in Answered \union {"begin"} =>
                tx'[u] = [Fresh EXCEPT !.pc = tx'[u].pc]
  BY <1>2, <1>5 DEF Inv, Types, TypeOK
<1> QED
  BY <1>5, <1>6, <1>7, <1>8, <1>9 DEF e

LEMMA InitInv == Init => Inv
<1> SUFFICES ASSUME Init PROVE Inv
  OBVIOUS
<1>1. PICK batch \in Batches :
          tx = [t \in Requests |->
                   IF t \in batch THEN Fresh ELSE [Fresh EXCEPT !.pc = "absent"]]
  BY DEF Init
<1>2. Fresh = [Fresh EXCEPT !.pc = "begin"]
  BY DEF Fresh
<1>3. \A t \in Requests : \E a \in {"begin", "absent"} : tx[t] = [Fresh EXCEPT !.pc = a]
  BY <1>1, <1>2
<1>4. tx \in [Requests -> Transaction]
  BY <1>1, <1>3, FreshType DEF Labels, Answered
<1>5. \A t \in Requests : /\ tx[t] = [Fresh EXCEPT !.pc = tx[t].pc]
                        /\ tx[t].pc \in {"begin", "absent"}
                        /\ ~tx[t].dev
  BY <1>3 DEF Fresh
<1>6. TypeOK
  BY <1>5 DEF Init, TypeOK, DefaultWarning, DefaultCritical
<1> QED
  BY <1>4, <1>5, <1>6, Kinds
  DEF Init, Inv, Types, Locked, Exclusive, Cleared, Single

LEMMA StepKeepsInv == Inv /\ [Next]_vars => Inv'
<1> SUFFICES ASSUME Inv, [Next]_vars PROVE Inv'
  OBVIOUS
<1> USE Kinds
<1>1. CASE UNCHANGED vars
  BY <1>1 DEF vars, Inv, Types, TypeOK, Locked, Exclusive, Cleared, Single
<1>2. ASSUME NEW t \in Requests, Unknown(t) PROVE Inv'
  BY <1>2, Answers DEF Unknown, Answered
<1>3. ASSUME NEW t \in Requests, Victim(t) PROVE Inv'
  BY <1>3, Answers DEF Victim, Answered
<1>4. ASSUME NEW t \in Requests, Retry(t) PROVE Inv'
  BY <1>4, Answers DEF Retry, Answered
<1>5. ASSUME NEW r \in Reports, IngestBegin(r) PROVE Inv'
  <2> DEFINE e == [tx[r] EXCEPT !.pc = "update", !.old = thresholds]
  <2>1. tx' = [tx EXCEPT ![r] = e] /\ UNCHANGED tables
    BY <1>5 DEF Inv, Types, IngestBegin, Goto
  <2>2. e \in Transaction
    BY Updates, TypesOfRows DEF Labels
  <2>3. e.dev = tx[r].dev /\ e.pc = "update"
    BY DEF Inv, Types, Transaction
  <2>4. e.pc \in {"select", "results", "read", "clear", "commit"} => e.dev
    BY <1>5, <2>3 DEF Inv, Locked, IngestBegin, CanRun
  <2>5. (e.pc = "clear" => procs \subseteq e.seen) /\ (e.pc = "commit" => procs \subseteq e.gone)
    BY <1>5 DEF Inv, Types, Transaction, Cleared, IngestBegin, CanRun
  <2> QED
    BY <2>1, <2>2, <2>3, <2>4, <2>5, Move DEF Answered
<1>6. ASSUME NEW r \in Reports, IngestUpdate(r) PROVE Inv'
  <2>1. CASE ~device
    BY <1>6, <2>1, Answers DEF IngestUpdate, Answered
  <2>2. CASE device
    <3> DEFINE e == [tx[r] EXCEPT !.pc = "select", !.dev = TRUE]
    <3>1. tx' = [tx EXCEPT ![r] = e] /\ UNCHANGED tables
      BY <1>6, <2>2 DEF Inv, Types, IngestUpdate
    <3>2. e \in Transaction
      BY Updates, TypesOfRows DEF Labels
    <3>3. e.pc = "select" /\ e.dev
      BY DEF Inv, Types, Transaction
    <3>4. \A u \in Requests : u # r => ~tx[u].dev
      BY <1>6, LockFree DEF IngestUpdate, CanRun
    <3> QED
      BY <3>1, <3>2, <3>3, <3>4, Move DEF Answered
  <2> QED
    BY <2>1, <2>2
<1>7. ASSUME NEW r \in Reports, IngestSelect(r) PROVE Inv'
  <2> DEFINE e == [tx[r] EXCEPT !.pc = "results", !.seen = checks]
  <2>1. tx' = [tx EXCEPT ![r] = e] /\ UNCHANGED tables
    BY <1>7 DEF Inv, Types, IngestSelect, Goto
  <2>2. e \in Transaction
    BY Updates, TypesOfRows DEF Labels
  <2>3. e.dev = tx[r].dev /\ e.pc = "results"
    BY DEF Inv, Types, Transaction
  <2>4. e.pc \in {"select", "results", "read", "clear", "commit"} => e.dev
    BY <1>7, <2>3 DEF Inv, Locked, IngestSelect, CanRun
  <2>5. (e.pc = "clear" => procs \subseteq e.seen) /\ (e.pc = "commit" => procs \subseteq e.gone)
    BY <1>7 DEF Inv, Types, Transaction, Cleared, IngestSelect, CanRun
  <2> QED
    BY <2>1, <2>2, <2>3, <2>4, <2>5, Move DEF Answered
<1>8. ASSUME NEW r \in Reports, IngestResults(r) PROVE Inv'
  <2>1. CASE ~(tx[r].seen \subseteq checks)
    BY <1>8, <2>1, Answers DEF IngestResults, Answered
  <2>2. CASE tx[r].seen \subseteq checks
    <3> DEFINE e == [tx[r] EXCEPT !.pc = "read", !.shared = tx[r].seen]
    <3>1. tx' = [tx EXCEPT ![r] = e] /\ UNCHANGED tables
      BY <1>8, <2>2 DEF Inv, Types, IngestResults
    <3>2. e \in Transaction
      BY <2>2, Updates, TypesOfRows DEF Labels, Inv, Types, TypeOK
    <3>3. e.pc = "read" /\ e.dev = tx[r].dev
      BY DEF Inv, Types, Transaction
    <3>4. tx[r].dev
      BY <1>8 DEF Inv, Locked, IngestResults, CanRun
    <3> QED
      BY <3>1, <3>2, <3>3, <3>4, Move DEF Answered
  <2> QED
    BY <2>1, <2>2
<1>9. ASSUME NEW r \in Reports, IngestRead(r) PROVE Inv'
  <2> DEFINE e == [tx[r] EXCEPT !.pc = "clear", !.seen = procs]
  <2>1. tx' = [tx EXCEPT ![r] = e] /\ UNCHANGED tables
    BY <1>9 DEF Inv, Types, IngestRead, Goto
  <2>2. e \in Transaction
    BY Updates, TypesOfRows DEF Labels
  <2>3. e.dev = tx[r].dev /\ e.pc = "clear"
    BY DEF Inv, Types, Transaction
  <2>4. e.pc \in {"select", "results", "read", "clear", "commit"} => e.dev
    BY <1>9, <2>3 DEF Inv, Locked, IngestRead, CanRun
  <2>5. (e.pc = "clear" => procs \subseteq e.seen) /\ (e.pc = "commit" => procs \subseteq e.gone)
    BY <1>9 DEF Inv, Types, Transaction, Cleared, IngestRead, CanRun
  <2> QED
    BY <2>1, <2>2, <2>3, <2>4, <2>5, Move DEF Answered
<1>10. ASSUME NEW r \in Reports, IngestClear(r) PROVE Inv'
  <2> DEFINE e == [tx[r] EXCEPT !.pc = "commit", !.gone = tx[r].seen]
  <2>1. tx' = [tx EXCEPT ![r] = e] /\ UNCHANGED tables
    BY <1>10 DEF Inv, Types, IngestClear, Goto
  <2>2. e \in Transaction
    BY Updates, TypesOfRows DEF Labels
  <2>3. e.dev = tx[r].dev /\ e.pc = "commit"
    BY DEF Inv, Types, Transaction
  <2>4. e.pc \in {"select", "results", "read", "clear", "commit"} => e.dev
    BY <1>10, <2>3 DEF Inv, Locked, IngestClear, CanRun
  <2>5. (e.pc = "clear" => procs \subseteq e.seen) /\ (e.pc = "commit" => procs \subseteq e.gone)
    BY <1>10 DEF Inv, Types, Transaction, Cleared, IngestClear, CanRun
  <2> QED
    BY <2>1, <2>2, <2>3, <2>4, <2>5, Move DEF Answered
<1>11. ASSUME NEW r \in Reports, IngestCommit(r) PROVE Inv'
  <2>1. CASE UNCHANGED tables /\ Answer(r, "error")
    BY <2>1, Answers DEF Answered
  <2>2. CASE /\ metrics' = metrics \union {r}
             /\ results' = results \union (tx[r].shared \X {r})
             /\ procs' = (procs \ tx[r].gone) \union {r}
             /\ Answer(r, "ok")
             /\ UNCHANGED <<device, thresholds, checks, inventory>>
    <3>1. tx[r].pc = "commit"
      BY <1>11 DEF IngestCommit
    <3>2. tx[r].dev /\ procs \subseteq tx[r].gone
      BY <3>1 DEF Inv, Locked, Cleared
    <3>3. procs' = {r}
      BY <2>2, <3>2
    <3>4. tx[r].shared \subseteq Checks
      BY DEF Inv, Types, Transaction
    <3>5. /\ tx' \in [Requests -> Transaction] /\ Locked' /\ Exclusive'
          /\ \A u \in Requests : tx'[u] = IF u = r THEN [Fresh EXCEPT !.pc = "ok"] ELSE tx[u]
          /\ \A u \in Requests : tx'[u].pc \in Answered \union {"begin"} =>
                tx'[u] = [Fresh EXCEPT !.pc = tx'[u].pc]
      BY <2>2, Commits DEF Answered
    <3>6. Types'
      BY <2>2, <3>3, <3>4, <3>5 DEF Inv, Types, TypeOK
    <3>7. Cleared'
      <4>1. \A u \in Reports : u # r => tx[u].pc \notin {"clear", "commit"}
        BY <3>2 DEF Inv, Locked, Exclusive
      <4>2. tx'[r].pc = "ok"
        BY <3>5 DEF Fresh
      <4> QED
        BY <3>5, <4>1, <4>2 DEF Cleared
    <3> QED
      BY <3>3, <3>5, <3>6, <3>7 DEF Inv, Single
  <2> QED
    BY <1>11, <2>1, <2>2 DEF IngestCommit
<1>12. ASSUME NEW v \in Inventories, InventoryBegin(v) PROVE Inv'
  <2> DEFINE e == [tx[v] EXCEPT !.pc = "store", !.seen = inventory]
  <2>1. tx' = [tx EXCEPT ![v] = e] /\ UNCHANGED tables
    BY <1>12 DEF Inv, Types, InventoryBegin, Goto
  <2>2. e \in Transaction
    BY Updates, TypesOfRows DEF Labels
  <2>3. e.dev = tx[v].dev /\ e.pc = "store"
    BY DEF Inv, Types, Transaction
  <2> QED
    BY <2>1, <2>2, <2>3, Move DEF Answered
<1>13. ASSUME NEW v \in Inventories, InventoryStore(v) PROVE Inv'
  <2>1. CASE ~(device /\ (tx[v].seen = {} <=> inventory = {}))
    BY <1>13, <2>1, Answers DEF InventoryStore, Answered, tables
  <2>2. CASE device /\ (tx[v].seen = {} <=> inventory = {})
    <3>1. /\ tx' \in [Requests -> Transaction] /\ Locked' /\ Exclusive'
          /\ \A u \in Requests : tx'[u] = IF u = v THEN [Fresh EXCEPT !.pc = "ok"] ELSE tx[u]
          /\ \A u \in Requests : tx'[u].pc \in Answered \union {"begin"} =>
                tx'[u] = [Fresh EXCEPT !.pc = tx'[u].pc]
      BY <1>13, <2>2, Commits DEF Answered, InventoryStore
    <3>2. procs' \subseteq procs
      BY <1>13, <2>2 DEF InventoryStore
    <3>3. TypeOK'
      BY <1>13, <2>2, <3>1, ThresholdsAssumption DEF Inv, Types, TypeOK, InventoryStore
    <3>4. Cleared'
      BY <3>1, <3>2 DEF Inv, Cleared, Fresh
    <3>5. Single'
      BY <3>2 DEF Inv, Single
    <3> QED
      BY <3>1, <3>3, <3>4, <3>5 DEF Inv, Types
  <2> QED
    BY <2>1, <2>2
<1>14. ASSUME NEW c \in Removals, CheckBegin(c) PROVE Inv'
  <2> DEFINE e == [tx[c] EXCEPT !.pc = "clear", !.seen = {x \in results : x[1] = Target(c)}]
  <2>1. tx' = [tx EXCEPT ![c] = e] /\ UNCHANGED tables
    BY <1>14 DEF Inv, Types, CheckBegin, Goto
  <2>2. e \in Transaction
    BY Updates, TypesOfRows DEF Labels
  <2>3. e.dev = tx[c].dev /\ e.pc = "clear"
    BY DEF Inv, Types, Transaction
  <2> QED
    BY <2>1, <2>2, <2>3, Move DEF Answered
<1>15. ASSUME NEW c \in Removals, CheckClear(c) PROVE Inv'
  <2> DEFINE e == [tx[c] EXCEPT !.pc = "check", !.gone = tx[c].seen]
  <2>1. tx' = [tx EXCEPT ![c] = e] /\ UNCHANGED tables
    BY <1>15 DEF Inv, Types, CheckClear, Goto
  <2>2. e \in Transaction
    BY Updates, TypesOfRows DEF Labels
  <2>3. e.dev = tx[c].dev /\ e.pc = "check"
    BY DEF Inv, Types, Transaction
  <2> QED
    BY <2>1, <2>2, <2>3, Move DEF Answered
<1>16. ASSUME NEW c \in Removals, CheckCommit(c) PROVE Inv'
  <2>1. /\ tx' \in [Requests -> Transaction] /\ Locked' /\ Exclusive'
        /\ \A u \in Requests : tx'[u] = IF u = c THEN [Fresh EXCEPT !.pc = "ok"] ELSE tx[u]
        /\ \A u \in Requests : tx'[u].pc \in Answered \union {"begin"} =>
              tx'[u] = [Fresh EXCEPT !.pc = tx'[u].pc]
    BY <1>16, Commits DEF Answered, CheckCommit
  <2>2. procs' \subseteq procs
    BY <1>16 DEF CheckCommit
  <2>3. TypeOK'
    BY <1>16, <2>1, ThresholdsAssumption DEF Inv, Types, TypeOK, CheckCommit
  <2>4. Cleared'
    BY <2>1, <2>2 DEF Inv, Cleared, Fresh
  <2>5. Single'
    BY <2>2 DEF Inv, Single
  <2> QED
    BY <2>1, <2>3, <2>4, <2>5 DEF Inv, Types
<1>17. ASSUME NEW d \in Drops, DropBegin(d) PROVE Inv'
  <2> DEFINE e == [tx[d] EXCEPT !.pc = "results", !.seen = results]
  <2>1. tx' = [tx EXCEPT ![d] = e] /\ UNCHANGED tables
    BY <1>17 DEF Inv, Types, DropBegin, Goto
  <2>2. e \in Transaction
    BY Updates, TypesOfRows DEF Labels
  <2>3. e.dev = tx[d].dev /\ e.pc = "results"
    BY DEF Inv, Types, Transaction
  <2> QED
    BY <2>1, <2>2, <2>3, Move DEF Answered
<1>18. ASSUME NEW d \in Drops, DropResults(d) PROVE Inv'
  <2> DEFINE e == [tx[d] EXCEPT !.pc = "checks", !.gone = tx[d].seen]
  <2>1. tx' = [tx EXCEPT ![d] = e] /\ UNCHANGED tables
    BY <1>18 DEF Inv, Types, DropResults, Goto
  <2>2. e \in Transaction
    BY Updates, TypesOfRows DEF Labels
  <2>3. e.dev = tx[d].dev /\ e.pc = "checks"
    BY DEF Inv, Types, Transaction
  <2> QED
    BY <2>1, <2>2, <2>3, Move DEF Answered
<1>19. ASSUME NEW d \in Drops, DropChecks(d) PROVE Inv'
  <2> DEFINE e == [tx[d] EXCEPT !.pc = "cascade", !.gone = tx[d].gone \union checks]
  <2>1. tx' = [tx EXCEPT ![d] = e] /\ UNCHANGED tables
    BY <1>19 DEF Inv, Types, DropChecks, Goto
  <2>2. e \in Transaction
    BY Updates, TypesOfRows DEF Labels
  <2>3. e.dev = tx[d].dev /\ e.pc = "cascade"
    BY DEF Inv, Types, Transaction
  <2> QED
    BY <2>1, <2>2, <2>3, Move DEF Answered
<1>25. ASSUME NEW d \in Drops, DropCascade(d) PROVE Inv'
  <2> DEFINE e == [tx[d] EXCEPT !.pc = "clear", !.gone = tx[d].gone \union Cascaded(d),
                                !.seen = procs]
  <2>1. tx' = [tx EXCEPT ![d] = e] /\ UNCHANGED tables
    BY <1>25 DEF Inv, Types, DropCascade, Goto
  <2>2. e \in Transaction
    BY Updates, TypesOfRows DEF Labels, Cascaded
  <2>3. e.dev = tx[d].dev /\ e.pc = "clear"
    BY DEF Inv, Types, Transaction
  <2> QED
    BY <2>1, <2>2, <2>3, Move DEF Answered
<1>26. ASSUME NEW c \in Removals, CheckDelete(c) PROVE Inv'
  <2> DEFINE e == [tx[c] EXCEPT !.pc = "cascade",
                                !.gone = tx[c].gone \union (checks \intersect {Target(c)})]
  <2>1. tx' = [tx EXCEPT ![c] = e] /\ UNCHANGED tables
    BY <1>26 DEF Inv, Types, CheckDelete, Goto
  <2>2. e \in Transaction
    BY Updates, TypesOfRows DEF Labels
  <2>3. e.dev = tx[c].dev /\ e.pc = "cascade"
    BY DEF Inv, Types, Transaction
  <2> QED
    BY <2>1, <2>2, <2>3, Move DEF Answered
<1>20. ASSUME NEW d \in Drops, DropProcesses(d) PROVE Inv'
  <2> DEFINE e == [tx[d] EXCEPT !.pc = "device",
                                !.gone = tx[d].gone \union tx[d].seen \union inventory,
                                !.seen = metrics]
  <2>1. tx' = [tx EXCEPT ![d] = e] /\ UNCHANGED tables
    BY <1>20 DEF Inv, Types, DropProcesses, Goto
  <2>2. e \in Transaction
    BY Updates, TypesOfRows DEF Labels
  <2>3. e.dev = tx[d].dev /\ e.pc = "device"
    BY DEF Inv, Types, Transaction
  <2> QED
    BY <2>1, <2>2, <2>3, Move DEF Answered
<1>21. ASSUME NEW d \in Drops, DropCommit(d) PROVE Inv'
  <2>1. CASE ~(metrics \subseteq tx[d].seen /\ checks \union results \subseteq tx[d].gone)
    BY <1>21, <2>1, Answers DEF DropCommit, Answered, tables
  <2>2. CASE metrics \subseteq tx[d].seen /\ checks \union results \subseteq tx[d].gone
    <3>1. /\ tx' \in [Requests -> Transaction] /\ Locked' /\ Exclusive'
          /\ \A u \in Requests : tx'[u] = IF u = d THEN [Fresh EXCEPT !.pc = "ok"] ELSE tx[u]
          /\ \A u \in Requests : tx'[u].pc \in Answered \union {"begin"} =>
                tx'[u] = [Fresh EXCEPT !.pc = tx'[u].pc]
      BY <1>21, <2>2, Commits DEF Answered, DropCommit
    <3>2. procs' \subseteq procs
      BY <1>21, <2>2 DEF DropCommit
    <3>3. TypeOK'
      BY <1>21, <2>2, <3>1, ThresholdsAssumption DEF Inv, Types, TypeOK, DropCommit
    <3>4. Cleared'
      BY <3>1, <3>2 DEF Inv, Cleared, Fresh
    <3>5. Single'
      BY <3>2 DEF Inv, Single
    <3> QED
      BY <3>1, <3>3, <3>4, <3>5 DEF Inv, Types
  <2> QED
    BY <2>1, <2>2
<1>22. ASSUME NEW p \in Patches, PatchBegin(p) PROVE Inv'
  <2> DEFINE e == [tx[p] EXCEPT !.pc = "update", !.old = thresholds]
  <2>1. tx' = [tx EXCEPT ![p] = e] /\ UNCHANGED tables
    BY <1>22 DEF Inv, Types, PatchBegin, Goto
  <2>2. e \in Transaction
    BY Updates, TypesOfRows DEF Labels
  <2>3. e.dev = tx[p].dev /\ e.pc = "update"
    BY DEF Inv, Types, Transaction
  <2> QED
    BY <2>1, <2>2, <2>3, Move DEF Answered
<1>23. ASSUME NEW p \in Patches, PatchRefused(p) PROVE Inv'
  BY <1>23, Answers DEF PatchRefused, Answered
<1>24. ASSUME NEW p \in Patches, PatchCommit(p) PROVE Inv'
  <2>1. CASE tx[p].old # [warning |-> Warning(p), critical |-> Critical(p)] /\ ~device
    BY <1>24, <2>1, Answers DEF PatchCommit, Answered, tables
  <2>2. CASE ~(tx[p].old # [warning |-> Warning(p), critical |-> Critical(p)] /\ ~device)
    <3>1. /\ tx' \in [Requests -> Transaction] /\ Locked' /\ Exclusive'
          /\ \A u \in Requests : tx'[u] = IF u = p THEN [Fresh EXCEPT !.pc = "ok"] ELSE tx[u]
          /\ \A u \in Requests : tx'[u].pc \in Answered \union {"begin"} =>
                tx'[u] = [Fresh EXCEPT !.pc = tx'[u].pc]
      BY <1>24, <2>2, Commits DEF Answered, PatchCommit
    <3>2. procs' \subseteq procs
      BY <1>24, <2>2 DEF PatchCommit
    <3>3. TypeOK'
      BY <1>24, <2>2, <3>1, ThresholdsAssumption DEF Inv, Types, TypeOK, PatchCommit
    <3>4. Cleared'
      BY <3>1, <3>2 DEF Inv, Cleared, Fresh
    <3>5. Single'
      BY <3>2 DEF Inv, Single
    <3> QED
      BY <3>1, <3>3, <3>4, <3>5 DEF Inv, Types
  <2> QED
    BY <2>1, <2>2
<1> QED
  BY <1>1, <1>2, <1>3, <1>4, <1>5, <1>6, <1>7, <1>8, <1>9, <1>10, <1>11,
     <1>12, <1>13, <1>14, <1>15, <1>16, <1>17, <1>18, <1>19, <1>20, <1>21,
     <1>22, <1>23, <1>24, <1>25, <1>26
  DEF Next, Step, Ingest, IngestInventory, DeletePortCheck, DeleteDevice, UpdateThresholds

-----------------------------------------------------------------------------
(* What each request has seen, locked and deleted at each of its steps.      *)

RowsOf(c) == {x \in Checks \X Reports : x[1] = c}

Fits(t, x) ==
    /\ x.pc \in Answered \union {"begin"} => ~x.dev /\ x.shared = {} /\ x.gone = {}
    /\ t \in Reports =>
          /\ x.pc \in Answered \union
                 {"begin", "update", "select", "results", "read", "clear", "commit"}
          /\ x.pc = "update" => ~x.dev
          /\ x.pc = "results" => x.seen \subseteq Checks
          /\ x.pc = "clear" => x.seen \subseteq Reports
          /\ x.pc \notin {"read", "clear", "commit"} => x.shared = {}
          /\ IF x.pc = "commit" THEN x.gone \subseteq Reports ELSE x.gone = {}
    /\ t \in Inventories => /\ x.pc \in Answered \union {"begin", "store"}
                            /\ ~x.dev /\ x.shared = {} /\ x.gone = {}
                            /\ x.pc = "store" => x.seen \subseteq Inventories
    /\ t \in Removals =>
          /\ x.pc \in Answered \union {"begin", "clear", "check", "cascade"}
          /\ ~x.dev /\ x.shared = {}
          /\ x.pc = "clear" => x.seen \subseteq RowsOf(Target(t))
          /\ x.pc \notin {"check", "cascade"} => x.gone = {}
          /\ x.pc = "check" => x.gone \subseteq RowsOf(Target(t))
          /\ x.pc = "cascade" => x.gone \subseteq RowsOf(Target(t)) \union {Target(t)}
    /\ t \in Drops =>
          /\ x.pc \in Answered \union {"begin", "results", "checks", "cascade", "clear",
                                      "device"}
          /\ ~x.dev /\ x.shared = {}
          /\ x.pc \in {"begin", "results"} => x.gone = {}
          /\ x.pc = "results" => x.seen \subseteq Checks \X Reports
          /\ x.pc = "checks" => x.gone \subseteq Checks \X Reports
          /\ x.pc \in {"cascade", "clear"} =>
                 x.gone \subseteq Checks \union (Checks \X Reports)
          /\ x.pc = "clear" => x.seen \subseteq Reports
    /\ t \in Patches => /\ x.pc \in Answered \union {"begin", "update"}
                        /\ ~x.dev /\ x.shared = {} /\ x.gone = {}

Local == \A t \in Requests : Fits(t, tx[t])

LEMMA Distinct ==
  /\ Reports \intersect (Inventories \union Removals \union Drops \union Patches) = {}
  /\ Inventories \intersect (Removals \union Drops \union Patches) = {}
  /\ Removals \intersect (Drops \union Patches) = {} /\ Drops \intersect Patches = {}
BY JobsAssumption

(* An answer leaves nothing that has been seen, locked or deleted.           *)
LEMMA AnswerFits ==
  ASSUME NEW t \in Requests, NEW a \in Answered \union {"begin"}
  PROVE  Fits(t, [Fresh EXCEPT !.pc = a])
BY DEF Fits, Fresh, Answered

LEMMA LocalMove ==
  ASSUME Types, Local, NEW t \in Requests, NEW e, Fits(t, e), tx' = [tx EXCEPT ![t] = e]
  PROVE  Local'
<1>1. \A u \in Requests : tx'[u] = IF u = t THEN e ELSE tx[u]
  BY DEF Types
<1>. QED  BY <1>1 DEF Local

LEMMA LocalAnswer ==
  ASSUME Types, Local, NEW t \in Requests, NEW a \in Answered \union {"begin"}, Answer(t, a)
  PROVE  Local'
BY AnswerFits, LocalMove DEF Answer

LEMMA LocalInit == Init => Local
<1>. SUFFICES ASSUME Init, NEW t \in Requests PROVE Fits(t, tx[t])
  BY DEF Local
<1>1. \E a \in {"begin", "absent"} : tx[t] = [Fresh EXCEPT !.pc = a]
  BY DEF Init, Fresh
<1>. QED  BY <1>1, AnswerFits DEF Answered

LEMMA LocalStep == Inv /\ Local /\ [Next]_vars => Local'
<1>. SUFFICES ASSUME Inv, Local, [Next]_vars PROVE Local'
  OBVIOUS
<1>. USE Kinds
<1>0. Types /\ TypeOK
  BY DEF Inv, Types
<1>1. ASSUME NEW t \in Requests, Unknown(t) PROVE Local'
  BY <1>0, <1>1, LocalAnswer DEF Unknown, Answered
<1>2. ASSUME NEW t \in Requests, Victim(t) PROVE Local'
  BY <1>0, <1>2, LocalAnswer DEF Victim, Answered
<1>3. ASSUME NEW t \in Requests, Retry(t) PROVE Local'
  BY <1>0, <1>3, LocalAnswer DEF Retry, Answered
<1>4. ASSUME NEW r \in Reports, IngestBegin(r) PROVE Local'
  <2> DEFINE e == [tx[r] EXCEPT !.pc = "update", !.old = thresholds]
  <2>1. tx' = [tx EXCEPT ![r] = e] /\ tx[r] \in Transaction /\ Fits(r, tx[r])
    BY <1>0, <1>4 DEF Types, IngestBegin, Goto, CanRun, Local
  <2>2. Fits(r, e)
    BY <1>0, <1>4, <2>1, Distinct DEF IngestBegin, CanRun, Fits, Transaction, RowsOf,
       TypeOK, Answered
  <2>. QED  BY <1>0, <2>1, <2>2, LocalMove
<1>5. ASSUME NEW r \in Reports, IngestUpdate(r) PROVE Local'
  <2>1. CASE ~(device)
    BY <1>0, <1>5, <2>1, LocalAnswer DEF IngestUpdate, Answered
  <2>2. CASE device
    <3> DEFINE e == [tx[r] EXCEPT !.pc = "select", !.dev = TRUE]
    <3>1. tx' = [tx EXCEPT ![r] = e] /\ tx[r] \in Transaction
      BY <1>0, <1>5, <2>2 DEF Types, IngestUpdate
    <3>2. Fits(r, e)
      BY <1>5, <3>1, Distinct DEF Fits, Transaction, Local, IngestUpdate, CanRun, Answered
    <3>. QED  BY <1>0, <3>1, <3>2, LocalMove
  <2>. QED  BY <2>1, <2>2
<1>6. ASSUME NEW r \in Reports, IngestSelect(r) PROVE Local'
  <2> DEFINE e == [tx[r] EXCEPT !.pc = "results", !.seen = checks]
  <2>1. tx' = [tx EXCEPT ![r] = e] /\ tx[r] \in Transaction /\ Fits(r, tx[r])
    BY <1>0, <1>6 DEF Types, IngestSelect, Goto, CanRun, Local
  <2>2. Fits(r, e)
    BY <1>0, <1>6, <2>1, Distinct DEF IngestSelect, CanRun, Fits, Transaction, RowsOf,
       TypeOK, Answered
  <2>. QED  BY <1>0, <2>1, <2>2, LocalMove
<1>7. ASSUME NEW r \in Reports, IngestResults(r) PROVE Local'
  <2>1. CASE ~(tx[r].seen \subseteq checks)
    BY <1>0, <1>7, <2>1, LocalAnswer DEF IngestResults, Answered
  <2>2. CASE tx[r].seen \subseteq checks
    <3> DEFINE e == [tx[r] EXCEPT !.pc = "read", !.shared = tx[r].seen]
    <3>1. tx' = [tx EXCEPT ![r] = e] /\ tx[r] \in Transaction
      BY <1>0, <1>7, <2>2 DEF Types, IngestResults
    <3>2. Fits(r, e)
      BY <1>7, <3>1, Distinct DEF Fits, Transaction, Local, IngestResults, CanRun, Answered
    <3>. QED  BY <1>0, <3>1, <3>2, LocalMove
  <2>. QED  BY <2>1, <2>2
<1>8. ASSUME NEW r \in Reports, IngestRead(r) PROVE Local'
  <2> DEFINE e == [tx[r] EXCEPT !.pc = "clear", !.seen = procs]
  <2>1. tx' = [tx EXCEPT ![r] = e] /\ tx[r] \in Transaction /\ Fits(r, tx[r])
    BY <1>0, <1>8 DEF Types, IngestRead, Goto, CanRun, Local
  <2>2. Fits(r, e)
    BY <1>0, <1>8, <2>1, Distinct DEF IngestRead, CanRun, Fits, Transaction, RowsOf,
       TypeOK, Answered
  <2>. QED  BY <1>0, <2>1, <2>2, LocalMove
<1>9. ASSUME NEW r \in Reports, IngestClear(r) PROVE Local'
  <2> DEFINE e == [tx[r] EXCEPT !.pc = "commit", !.gone = tx[r].seen]
  <2>1. tx' = [tx EXCEPT ![r] = e] /\ tx[r] \in Transaction /\ Fits(r, tx[r])
    BY <1>0, <1>9 DEF Types, IngestClear, Goto, CanRun, Local
  <2>2. Fits(r, e)
    BY <1>0, <1>9, <2>1, Distinct DEF IngestClear, CanRun, Fits, Transaction, RowsOf,
       TypeOK, Answered
  <2>. QED  BY <1>0, <2>1, <2>2, LocalMove
<1>10. ASSUME NEW r \in Reports, IngestCommit(r) PROVE Local'
  BY <1>0, <1>10, LocalAnswer DEF IngestCommit, Answered
<1>11. ASSUME NEW v \in Inventories, InventoryBegin(v) PROVE Local'
  <2> DEFINE e == [tx[v] EXCEPT !.pc = "store", !.seen = inventory]
  <2>1. tx' = [tx EXCEPT ![v] = e] /\ tx[v] \in Transaction /\ Fits(v, tx[v])
    BY <1>0, <1>11 DEF Types, InventoryBegin, Goto, CanRun, Local
  <2>2. Fits(v, e)
    BY <1>0, <1>11, <2>1, Distinct DEF InventoryBegin, CanRun, Fits, Transaction, RowsOf,
       TypeOK, Answered
  <2>. QED  BY <1>0, <2>1, <2>2, LocalMove
<1>12. ASSUME NEW v \in Inventories, InventoryStore(v) PROVE Local'
  BY <1>0, <1>12, LocalAnswer DEF InventoryStore, Answered
<1>13. ASSUME NEW c \in Removals, CheckBegin(c) PROVE Local'
  <2> DEFINE e == [tx[c] EXCEPT !.pc = "clear", !.seen = {x \in results : x[1] = Target(c)}]
  <2>1. tx' = [tx EXCEPT ![c] = e] /\ tx[c] \in Transaction /\ Fits(c, tx[c])
    BY <1>0, <1>13 DEF Types, CheckBegin, Goto, CanRun, Local
  <2>2. Fits(c, e)
    BY <1>0, <1>13, <2>1, Distinct DEF CheckBegin, CanRun, Fits, Transaction, RowsOf,
       TypeOK, Answered
  <2>. QED  BY <1>0, <2>1, <2>2, LocalMove
<1>14. ASSUME NEW c \in Removals, CheckClear(c) PROVE Local'
  <2> DEFINE e == [tx[c] EXCEPT !.pc = "check", !.gone = tx[c].seen]
  <2>1. tx' = [tx EXCEPT ![c] = e] /\ tx[c] \in Transaction /\ Fits(c, tx[c])
    BY <1>0, <1>14 DEF Types, CheckClear, Goto, CanRun, Local
  <2>2. Fits(c, e)
    BY <1>0, <1>14, <2>1, Distinct DEF CheckClear, CanRun, Fits, Transaction, RowsOf,
       TypeOK, Answered
  <2>. QED  BY <1>0, <2>1, <2>2, LocalMove
<1>15. ASSUME NEW c \in Removals, CheckCommit(c) PROVE Local'
  BY <1>0, <1>15, LocalAnswer DEF CheckCommit, Answered
<1>16. ASSUME NEW d \in Drops, DropBegin(d) PROVE Local'
  <2> DEFINE e == [tx[d] EXCEPT !.pc = "results", !.seen = results]
  <2>1. tx' = [tx EXCEPT ![d] = e] /\ tx[d] \in Transaction /\ Fits(d, tx[d])
    BY <1>0, <1>16 DEF Types, DropBegin, Goto, CanRun, Local
  <2>2. Fits(d, e)
    BY <1>0, <1>16, <2>1, Distinct DEF DropBegin, CanRun, Fits, Transaction, RowsOf,
       TypeOK, Answered
  <2>. QED  BY <1>0, <2>1, <2>2, LocalMove
<1>17. ASSUME NEW d \in Drops, DropResults(d) PROVE Local'
  <2> DEFINE e == [tx[d] EXCEPT !.pc = "checks", !.gone = tx[d].seen]
  <2>1. tx' = [tx EXCEPT ![d] = e] /\ tx[d] \in Transaction /\ Fits(d, tx[d])
    BY <1>0, <1>17 DEF Types, DropResults, Goto, CanRun, Local
  <2>2. Fits(d, e)
    BY <1>0, <1>17, <2>1, Distinct DEF DropResults, CanRun, Fits, Transaction, RowsOf,
       TypeOK, Answered
  <2>. QED  BY <1>0, <2>1, <2>2, LocalMove
<1>18. ASSUME NEW d \in Drops, DropChecks(d) PROVE Local'
  <2> DEFINE e == [tx[d] EXCEPT !.pc = "cascade", !.gone = tx[d].gone \union checks]
  <2>1. tx' = [tx EXCEPT ![d] = e] /\ tx[d] \in Transaction /\ Fits(d, tx[d])
    BY <1>0, <1>18 DEF Types, DropChecks, Goto, CanRun, Local
  <2>2. Fits(d, e)
    BY <1>0, <1>18, <2>1, Distinct DEF DropChecks, CanRun, Fits, Transaction, RowsOf,
       TypeOK, Answered
  <2>. QED  BY <1>0, <2>1, <2>2, LocalMove
<1>25. ASSUME NEW d \in Drops, DropCascade(d) PROVE Local'
  <2> DEFINE e == [tx[d] EXCEPT !.pc = "clear", !.gone = tx[d].gone \union Cascaded(d),
                                !.seen = procs]
  <2>1. tx' = [tx EXCEPT ![d] = e] /\ tx[d] \in Transaction /\ Fits(d, tx[d])
    BY <1>0, <1>25 DEF Types, DropCascade, Goto, CanRun, Local
  <2>2. Fits(d, e)
    BY <1>0, <1>25, <2>1, Distinct DEF DropCascade, CanRun, Fits, Transaction, RowsOf,
       TypeOK, Answered, Cascaded
  <2>. QED  BY <1>0, <2>1, <2>2, LocalMove
<1>26. ASSUME NEW c \in Removals, CheckDelete(c) PROVE Local'
  <2> DEFINE e == [tx[c] EXCEPT !.pc = "cascade",
                                !.gone = tx[c].gone \union (checks \intersect {Target(c)})]
  <2>1. tx' = [tx EXCEPT ![c] = e] /\ tx[c] \in Transaction /\ Fits(c, tx[c])
    BY <1>0, <1>26 DEF Types, CheckDelete, Goto, CanRun, Local
  <2>2. Fits(c, e)
    BY <1>0, <1>26, <2>1, Distinct DEF CheckDelete, CanRun, Fits, Transaction, RowsOf,
       TypeOK, Answered
  <2>. QED  BY <1>0, <2>1, <2>2, LocalMove
<1>19. ASSUME NEW d \in Drops, DropProcesses(d) PROVE Local'
  <2> DEFINE e == [tx[d] EXCEPT !.pc = "device",
                                !.gone = tx[d].gone \union tx[d].seen \union inventory,
                                !.seen = metrics]
  <2>1. tx' = [tx EXCEPT ![d] = e] /\ tx[d] \in Transaction /\ Fits(d, tx[d])
    BY <1>0, <1>19 DEF Types, DropProcesses, Goto, CanRun, Local
  <2>2. Fits(d, e)
    BY <1>0, <1>19, <2>1, Distinct DEF DropProcesses, CanRun, Fits, Transaction, RowsOf,
       TypeOK, Answered
  <2>. QED  BY <1>0, <2>1, <2>2, LocalMove
<1>20. ASSUME NEW d \in Drops, DropCommit(d) PROVE Local'
  BY <1>0, <1>20, LocalAnswer DEF DropCommit, Answered
<1>21. ASSUME NEW p \in Patches, PatchBegin(p) PROVE Local'
  <2> DEFINE e == [tx[p] EXCEPT !.pc = "update", !.old = thresholds]
  <2>1. tx' = [tx EXCEPT ![p] = e] /\ tx[p] \in Transaction /\ Fits(p, tx[p])
    BY <1>0, <1>21 DEF Types, PatchBegin, Goto, CanRun, Local
  <2>2. Fits(p, e)
    BY <1>0, <1>21, <2>1, Distinct DEF PatchBegin, CanRun, Fits, Transaction, RowsOf,
       TypeOK, Answered
  <2>. QED  BY <1>0, <2>1, <2>2, LocalMove
<1>22. ASSUME NEW p \in Patches, PatchRefused(p) PROVE Local'
  BY <1>0, <1>22, LocalAnswer DEF PatchRefused, Answered
<1>23. ASSUME NEW p \in Patches, PatchCommit(p) PROVE Local'
  BY <1>0, <1>23, LocalAnswer DEF PatchCommit, Answered
<1>24. CASE UNCHANGED vars
  BY <1>24 DEF vars, Local
<1>. QED
  BY <1>1, <1>2, <1>3, <1>4, <1>5, <1>6, <1>7, <1>8, <1>9, <1>10, <1>11, <1>12, <1>13,
     <1>14,
     <1>15, <1>16, <1>17, <1>18, <1>19, <1>20, <1>21, <1>22, <1>23, <1>24,
     <1>25, <1>26
  DEF Next, Step, Ingest, IngestInventory, DeletePortCheck, DeleteDevice, UpdateThresholds

-----------------------------------------------------------------------------
(* What a request does to its own transaction, and to the checks.            *)

\* A step is one of a single request.
LEMMA OneTransaction ==
  ASSUME NEW t \in Requests, Step(t)
  PROVE  \E e : tx' = [tx EXCEPT ![t] = e]
BY DEF Step, Unknown, Victim, Retry, Ingest, IngestInventory, DeletePortCheck,
   DeleteDevice, UpdateThresholds, IngestBegin, IngestUpdate, IngestSelect, IngestResults,
   IngestRead, IngestClear, IngestCommit, InventoryBegin, InventoryStore, CheckBegin,
   CheckClear, CheckDelete, CheckCommit, DropBegin, DropResults, DropChecks, DropCascade,
   DropProcesses, DropCommit, PatchBegin, PatchRefused, PatchCommit, Answer, Goto

\* No check is added here.
LEMMA ChecksShrink ==
  ASSUME NEW t \in Requests, Step(t)
  PROVE  checks' \subseteq checks
BY DEF Step, Unknown, Victim, Retry, Ingest, IngestInventory, DeletePortCheck,
   DeleteDevice, UpdateThresholds, IngestBegin, IngestUpdate, IngestSelect, IngestResults,
   IngestRead, IngestClear, IngestCommit, InventoryBegin, InventoryStore, CheckBegin,
   CheckClear, CheckDelete, CheckCommit, DropBegin, DropResults, DropChecks, DropCascade,
   DropProcesses, DropCommit, PatchBegin, PatchRefused, PatchCommit, tables

\* A request that has deleted a check keeps every report from storing results for it:
\* one that has locked the check was waited for, another one waits.
Held == \A c \in Removals : tx[c].pc = "cascade" =>
            /\ checks \intersect {Target(c)} \subseteq tx[c].gone
            /\ \A r \in Reports : Target(c) \notin tx[r].shared

LEMMA HeldInit == Init => Held
<1>. SUFFICES ASSUME Init PROVE Held
  OBVIOUS
<1>1. \A t \in Requests : tx[t].pc \in {"begin", "absent"}
  BY DEF Init, Fresh
<1>. QED  BY <1>1, Kinds DEF Held

LEMMA AnswerGives ==
  ASSUME Types, NEW t \in Requests, NEW a \in Answered \union {"begin"}, Answer(t, a)
  PROVE  tx'[t].pc = a /\ tx'[t].shared = {}
<1>1. [Fresh EXCEPT !.pc = a].pc = a /\ [Fresh EXCEPT !.pc = a].shared = {}
  BY DEF Fresh
<1>. QED  BY <1>1 DEF Answer, Types

\* A report locks checks only when it stores its results.
LEMMA LocksChecks ==
  ASSUME Types, NEW r \in Reports, Step(r)
  PROVE  \/ tx'[r].shared \subseteq tx[r].shared
         \/ /\ IngestResults(r)
            /\ tx'[r].shared = tx[r].seen
            /\ tx[r].seen \subseteq checks
<1>. USE Kinds, Distinct
<1>0. tx[r] \in Transaction
  BY DEF Types
<1>1. ASSUME NEW a \in Answered \union {"begin"}, Answer(r, a)
      PROVE  tx'[r].shared \subseteq tx[r].shared
  BY <1>1, AnswerGives
<1>2. CASE Unknown(r) \/ Victim(r) \/ Retry(r)
  BY <1>1, <1>2 DEF Unknown, Victim, Retry, Answered
<1>3. CASE IngestBegin(r) \/ IngestSelect(r) \/ IngestRead(r) \/ IngestClear(r)
  BY <1>0, <1>3 DEF IngestBegin, IngestSelect, IngestRead, IngestClear, Types, Transaction
<1>4. CASE IngestUpdate(r)
  <2>1. CASE device
    BY <1>0, <1>4, <2>1 DEF IngestUpdate, Types, Transaction
  <2>2. CASE ~device
    BY <1>1, <1>4, <2>2 DEF IngestUpdate, Answered
  <2>. QED  BY <2>1, <2>2
<1>5. CASE IngestResults(r)
  <2>1. CASE tx[r].seen \subseteq checks
    BY <1>0, <1>5, <2>1 DEF IngestResults, Types, Transaction
  <2>2. CASE ~(tx[r].seen \subseteq checks)
    BY <1>1, <1>5, <2>2 DEF IngestResults, Answered
  <2>. QED  BY <2>1, <2>2
<1>6. CASE IngestCommit(r)
  BY <1>1, <1>6 DEF IngestCommit, Answered
<1>. QED
  BY <1>2, <1>3, <1>4, <1>5, <1>6 DEF Step, Ingest

\* A deletion of a check that goes on to the cascade has just deleted the check.
LEMMA Deletes ==
  ASSUME Types, NEW c \in Removals, Step(c), tx'[c].pc \notin Answered
  PROVE  \/ tx'[c].pc \in {"clear", "check"}
         \/ CheckDelete(c) /\ tx'[c].pc = "cascade"
            /\ tx'[c].gone = tx[c].gone \union (checks \intersect {Target(c)})
<1>. USE Kinds, Distinct
<1>0. tx[c] \in Transaction
  BY DEF Types
<1>1. \A a \in Answered : ~Answer(c, a)
  BY AnswerGives
<1>2. CASE Unknown(c) \/ Victim(c) \/ Retry(c)
  BY <1>1, <1>2 DEF Unknown, Victim, Retry, Answered
<1>3. CASE CheckBegin(c) \/ CheckClear(c)
  BY <1>0, <1>3 DEF CheckBegin, CheckClear, Types, Transaction
<1>4. CASE CheckDelete(c)
  BY <1>0, <1>4 DEF CheckDelete, Types, Transaction
<1>5. CASE CheckCommit(c)
  BY <1>1, <1>5 DEF CheckCommit, Answered
<1>. QED  BY <1>2, <1>3, <1>4, <1>5 DEF Step, DeletePortCheck

LEMMA HeldStep == Types /\ Held /\ [Next]_vars => Held'
<1>. SUFFICES ASSUME Types, Held, [Next]_vars, NEW c \in Removals, tx'[c].pc = "cascade"
              PROVE  /\ checks' \intersect {Target(c)} \subseteq tx'[c].gone
                     /\ \A r \in Reports : Target(c) \notin tx'[r].shared
  BY DEF Held
<1>. USE Kinds, Distinct
<1>1. CASE UNCHANGED vars
  BY <1>1 DEF vars, Held
<1>2. ASSUME NEW t \in Requests, Step(t)
      PROVE  \A u \in Requests : u # t => tx'[u] = tx[u]
  BY <1>2, OneTransaction DEF Types
<1>3. CASE Step(c)
  <2>1. /\ CheckDelete(c)
        /\ tx'[c].gone = tx[c].gone \union (checks \intersect {Target(c)})
    BY <1>3, Deletes DEF Answered
  <2>2. checks' = checks /\ \A r \in Reports : Target(c) \notin tx[r].shared
    BY <2>1 DEF CheckDelete, CanRun, Blockers, Others, tables
  <2>. QED  BY <1>2, <1>3, <2>1, <2>2
<1>4. ASSUME NEW t \in Requests, t # c, Step(t)
      PROVE  /\ checks' \intersect {Target(c)} \subseteq tx'[c].gone
             /\ \A r \in Reports : Target(c) \notin tx'[r].shared
  <2>1. tx'[c] = tx[c] /\ checks' \subseteq checks
    BY <1>2, <1>4, ChecksShrink
  <2>2. /\ checks \intersect {Target(c)} \subseteq tx[c].gone
        /\ \A r \in Reports : Target(c) \notin tx[r].shared
    BY <2>1 DEF Held
  <2>3. ASSUME t \in Reports PROVE Target(c) \notin tx'[t].shared
    <3>1. CASE tx'[t].shared \subseteq tx[t].shared
      BY <2>2, <2>3, <3>1
    <3>2. CASE IngestResults(t) /\ tx'[t].shared = tx[t].seen /\ tx[t].seen \subseteq checks
      <4>1. tx[t].seen \intersect tx[c].gone = {}
        BY <1>4, <3>2 DEF IngestResults, CanRun, Blockers, Others, Deleted
      <4>. QED  BY <2>2, <3>2, <4>1
    <3>. QED  BY <1>4, <2>3, <3>1, <3>2, LocksChecks
  <2>. QED  BY <1>2, <1>4, <2>1, <2>2, <2>3
<1>. QED  BY <1>1, <1>3, <1>4 DEF Next

-----------------------------------------------------------------------------
(* The tables.  A report past its first UPDATE keeps the device, and the     *)
(* checks it has inserted results for, from being deleted.                   *)

Covers(x) ==
    /\ x.pc \in {"select", "results", "read", "clear", "commit"} => device
    /\ x.pc = "results" => checks \subseteq x.seen
    /\ x.pc \in {"read", "clear", "commit"} => x.shared = checks

Whole == NoOrphans /\ AckedStored /\ \A r \in Reports : Covers(tx[r])

LEMMA WholeInit == Init => Whole
<1>. SUFFICES ASSUME Init PROVE Whole
  OBVIOUS
<1>1. \A t \in Requests : tx[t].pc \in {"begin", "absent"}
  BY DEF Init, Fresh
<1>. QED  BY <1>1, Kinds DEF Init, Whole, NoOrphans, AckedStored, Covers

\* A statement that changes no table.
LEMMA WholeMove ==
  ASSUME Types, Whole, NEW t \in Requests, NEW e, tx' = [tx EXCEPT ![t] = e], UNCHANGED tables,
         t \in Reports => Covers(e) /\ e.pc # "ok"
  PROVE  Whole'
<1>. USE Kinds DEF Whole
<1>1. \A u \in Requests : tx'[u] = IF u = t THEN e ELSE tx[u]
  BY DEF Types
<1>2. NoOrphans'
  BY DEF NoOrphans, tables
<1>3. AckedStored'
  BY <1>1 DEF AckedStored, tables
<1>4. \A r \in Reports : Covers(tx[r])'
  BY <1>1 DEF Covers, tables
<1>. QED  BY <1>2, <1>3, <1>4

LEMMA WholeAnswer ==
  ASSUME Types, Whole, NEW t \in Requests, NEW a \in Answered \union {"begin"},
         Answer(t, a), UNCHANGED tables, t \in Reports => a # "ok"
  PROVE  Whole'
<1> DEFINE e == [Fresh EXCEPT !.pc = a]
<1>1. e.pc = a
  BY DEF Fresh
<1>2. tx' = [tx EXCEPT ![t] = e]
  BY DEF Answer
<1>. HIDE DEF e
<1>3. Covers(e)
  BY <1>1 DEF Covers, Answered
<1>. QED  BY <1>1, <1>2, <1>3, WholeMove

\* What the commit of another request leaves of the reports' transactions.
LEMMA OthersStay ==
  ASSUME Types, NEW t \in Requests, NEW a \in Answered, Answer(t, a)
  PROVE  \A u \in Requests : IF u = t THEN tx'[u].pc = a ELSE tx'[u] = tx[u]
<1>1. [Fresh EXCEPT !.pc = a].pc = a
  BY DEF Fresh
<1>. QED  BY <1>1 DEF Types, Answer

LEMMA WholeStep == Inv /\ Local /\ Held /\ Whole /\ [Next]_vars => Whole'
<1>. SUFFICES ASSUME Inv, Local, Held, Whole, [Next]_vars PROVE Whole'
  OBVIOUS
<1>. USE Kinds
<1>0. Types /\ TypeOK /\ Locked
  BY DEF Inv, Types
<1>1. ASSUME NEW t \in Requests, Unknown(t) PROVE Whole'
  BY <1>0, <1>1, WholeAnswer DEF Unknown, Answered
<1>2. ASSUME NEW t \in Requests, Victim(t) PROVE Whole'
  BY <1>0, <1>2, WholeAnswer DEF Victim, Answered
<1>3. ASSUME NEW t \in Requests, Retry(t) PROVE Whole'
  BY <1>0, <1>3, WholeAnswer DEF Retry, Answered
<1>4. ASSUME NEW r \in Reports, IngestBegin(r) PROVE Whole'
  <2> DEFINE e == [tx[r] EXCEPT !.pc = "update", !.old = thresholds]
  <2>1. tx' = [tx EXCEPT ![r] = e] /\ tx[r] \in Transaction /\ UNCHANGED tables
    BY <1>0, <1>4 DEF Types, IngestBegin, Goto, CanRun
  <2>2. Covers(e) /\ e.pc # "ok"
    BY <1>0, <1>4, <2>1 DEF IngestBegin, CanRun, Whole, Covers, Transaction
  <2>. QED  BY <1>0, <2>1, <2>2, WholeMove
<1>5. ASSUME NEW r \in Reports, IngestUpdate(r) PROVE Whole'
  <2>1. CASE ~(device)
    BY <1>0, <1>5, <2>1, WholeAnswer DEF IngestUpdate, Answered
  <2>2. CASE device
    <3> DEFINE e == [tx[r] EXCEPT !.pc = "select", !.dev = TRUE]
    <3>1. tx' = [tx EXCEPT ![r] = e] /\ tx[r] \in Transaction /\ UNCHANGED tables
      BY <1>0, <1>5, <2>2 DEF Types, IngestUpdate
    <3>2. Covers(e) /\ e.pc # "ok"
      BY <1>5, <2>2, <3>1 DEF Whole, Covers, Transaction, IngestUpdate, CanRun
    <3>. QED  BY <1>0, <3>1, <3>2, WholeMove
  <2>. QED  BY <2>1, <2>2
<1>6. ASSUME NEW r \in Reports, IngestSelect(r) PROVE Whole'
  <2> DEFINE e == [tx[r] EXCEPT !.pc = "results", !.seen = checks]
  <2>1. tx' = [tx EXCEPT ![r] = e] /\ tx[r] \in Transaction /\ UNCHANGED tables
    BY <1>0, <1>6 DEF Types, IngestSelect, Goto, CanRun
  <2>2. Covers(e) /\ e.pc # "ok"
    BY <1>0, <1>6, <2>1 DEF IngestSelect, CanRun, Whole, Covers, Transaction
  <2>. QED  BY <1>0, <2>1, <2>2, WholeMove
<1>7. ASSUME NEW r \in Reports, IngestResults(r) PROVE Whole'
  <2>1. CASE ~(tx[r].seen \subseteq checks)
    BY <1>0, <1>7, <2>1, WholeAnswer DEF IngestResults, Answered
  <2>2. CASE tx[r].seen \subseteq checks
    <3> DEFINE e == [tx[r] EXCEPT !.pc = "read", !.shared = tx[r].seen]
    <3>1. tx' = [tx EXCEPT ![r] = e] /\ tx[r] \in Transaction /\ UNCHANGED tables
      BY <1>0, <1>7, <2>2 DEF Types, IngestResults
    <3>2. Covers(e) /\ e.pc # "ok"
      BY <1>7, <2>2, <3>1 DEF Whole, Covers, Transaction, IngestResults, CanRun
    <3>. QED  BY <1>0, <3>1, <3>2, WholeMove
  <2>. QED  BY <2>1, <2>2
<1>8. ASSUME NEW r \in Reports, IngestRead(r) PROVE Whole'
  <2> DEFINE e == [tx[r] EXCEPT !.pc = "clear", !.seen = procs]
  <2>1. tx' = [tx EXCEPT ![r] = e] /\ tx[r] \in Transaction /\ UNCHANGED tables
    BY <1>0, <1>8 DEF Types, IngestRead, Goto, CanRun
  <2>2. Covers(e) /\ e.pc # "ok"
    BY <1>0, <1>8, <2>1 DEF IngestRead, CanRun, Whole, Covers, Transaction
  <2>. QED  BY <1>0, <2>1, <2>2, WholeMove
<1>9. ASSUME NEW r \in Reports, IngestClear(r) PROVE Whole'
  <2> DEFINE e == [tx[r] EXCEPT !.pc = "commit", !.gone = tx[r].seen]
  <2>1. tx' = [tx EXCEPT ![r] = e] /\ tx[r] \in Transaction /\ UNCHANGED tables
    BY <1>0, <1>9 DEF Types, IngestClear, Goto, CanRun
  <2>2. Covers(e) /\ e.pc # "ok"
    BY <1>0, <1>9, <2>1 DEF IngestClear, CanRun, Whole, Covers, Transaction
  <2>. QED  BY <1>0, <2>1, <2>2, WholeMove
<1>10. ASSUME NEW r \in Reports, IngestCommit(r) PROVE Whole'
  <2>1. CASE UNCHANGED tables /\ Answer(r, "error")
    BY <1>0, <2>1, WholeAnswer DEF Answered
  <2>2. CASE /\ metrics' = metrics \union {r}
             /\ results' = results \union (tx[r].shared \X {r})
             /\ procs' = (procs \ tx[r].gone) \union {r}
             /\ Answer(r, "ok")
             /\ UNCHANGED <<device, thresholds, checks, inventory>>
    <3>1. device /\ tx[r].shared = checks
      BY <1>10 DEF IngestCommit, Whole, Covers
    <3>2. \A u \in Requests : IF u = r THEN tx'[u].pc = "ok" ELSE tx'[u] = tx[u]
      BY <1>0, <2>2, OthersStay DEF Answered
    <3>3. NoOrphans'
      BY <2>2, <3>1 DEF Whole, NoOrphans
    <3>4. AckedStored'
      BY <2>2, <3>1, <3>2 DEF Whole, AckedStored
    <3>5. ASSUME NEW s \in Reports PROVE Covers(tx[s])'
      <4>1. CASE s = r
        BY <3>2, <4>1 DEF Covers
      <4>2. CASE s # r
        BY <2>2, <3>2, <4>2 DEF Whole, Covers
      <4>. QED  BY <4>1, <4>2
    <3>. QED  BY <3>3, <3>4, <3>5 DEF Whole
  <2>. QED  BY <1>10, <2>1, <2>2 DEF IngestCommit
<1>11. ASSUME NEW v \in Inventories, InventoryBegin(v) PROVE Whole'
  <2> DEFINE e == [tx[v] EXCEPT !.pc = "store", !.seen = inventory]
  <2>1. tx' = [tx EXCEPT ![v] = e] /\ tx[v] \in Transaction /\ UNCHANGED tables
    BY <1>0, <1>11 DEF Types, InventoryBegin, Goto, CanRun
  <2>2. v \notin Reports
    BY Distinct
  <2>. QED  BY <1>0, <2>1, <2>2, WholeMove
<1>12. ASSUME NEW v \in Inventories, InventoryStore(v) PROVE Whole'
  <2>0. v \notin Reports
    BY Distinct
  <2>1. CASE ~(device /\ (tx[v].seen = {} <=> inventory = {}))
    BY <1>0, <1>12, <2>0, <2>1, WholeAnswer DEF InventoryStore, Answered, tables
  <2>2. CASE device /\ (tx[v].seen = {} <=> inventory = {})
    <3>1. \A u \in Requests : IF u = v THEN tx'[u].pc = "ok" ELSE tx'[u] = tx[u]
      BY <1>0, <1>12, <2>2, OthersStay DEF InventoryStore, Answered
    <3>2. \A r \in Reports : tx'[r] = tx[r]
      BY <2>0, <3>1
    <3>3. NoOrphans'
      BY <1>12, <2>2 DEF InventoryStore, Whole, NoOrphans
    <3>4. AckedStored' /\ \A r \in Reports : Covers(tx[r])'
      BY <1>12, <2>2, <3>2 DEF InventoryStore, Whole, AckedStored, Covers
    <3>. QED  BY <3>3, <3>4 DEF Whole
  <2>. QED  BY <2>1, <2>2
<1>13. ASSUME NEW c \in Removals, CheckBegin(c) PROVE Whole'
  <2> DEFINE e == [tx[c] EXCEPT !.pc = "clear", !.seen = {x \in results : x[1] = Target(c)}]
  <2>1. tx' = [tx EXCEPT ![c] = e] /\ tx[c] \in Transaction /\ UNCHANGED tables
    BY <1>0, <1>13 DEF Types, CheckBegin, Goto, CanRun
  <2>2. c \notin Reports
    BY Distinct
  <2>. QED  BY <1>0, <2>1, <2>2, WholeMove
<1>14. ASSUME NEW c \in Removals, CheckClear(c) PROVE Whole'
  <2> DEFINE e == [tx[c] EXCEPT !.pc = "check", !.gone = tx[c].seen]
  <2>1. tx' = [tx EXCEPT ![c] = e] /\ tx[c] \in Transaction /\ UNCHANGED tables
    BY <1>0, <1>14 DEF Types, CheckClear, Goto, CanRun
  <2>2. c \notin Reports
    BY Distinct
  <2>. QED  BY <1>0, <2>1, <2>2, WholeMove
<1>15. ASSUME NEW c \in Removals, CheckCommit(c) PROVE Whole'
  <2>1. \A u \in Requests : IF u = c THEN tx'[u].pc = "ok" ELSE tx'[u] = tx[u]
    BY <1>0, <1>15, OthersStay DEF CheckCommit, Answered
  <2>2. c \notin Reports /\ tx[c].gone \subseteq RowsOf(Target(c)) \union {Target(c)}
    BY <1>15, Distinct DEF Local, Fits, CheckCommit, CanRun
  <2>3. \A r \in Reports : tx'[r] = tx[r] /\ Target(c) \notin tx[r].shared
    BY <1>15, <2>1, <2>2 DEF CheckCommit, CanRun, Held
  <2>7. Target(c) \in Checks /\ (Checks \X Reports) \intersect Checks = {}
    BY RowsAssumption
  <2>4. NoOrphans'
    BY <1>15 DEF CheckCommit, Whole, NoOrphans
  <2>5. AckedStored'
    BY <1>15, <2>2, <2>3, <2>7, <1>0 DEF CheckCommit, Whole, AckedStored, RowsOf, TypeOK
  <2>6. \A r \in Reports : Covers(tx[r])'
    BY <1>15, <2>3 DEF CheckCommit, Whole, Covers
  <2>. QED  BY <2>4, <2>5, <2>6 DEF Whole
<1>16. ASSUME NEW d \in Drops, DropBegin(d) PROVE Whole'
  <2> DEFINE e == [tx[d] EXCEPT !.pc = "results", !.seen = results]
  <2>1. tx' = [tx EXCEPT ![d] = e] /\ tx[d] \in Transaction /\ UNCHANGED tables
    BY <1>0, <1>16 DEF Types, DropBegin, Goto, CanRun
  <2>2. d \notin Reports
    BY Distinct
  <2>. QED  BY <1>0, <2>1, <2>2, WholeMove
<1>17. ASSUME NEW d \in Drops, DropResults(d) PROVE Whole'
  <2> DEFINE e == [tx[d] EXCEPT !.pc = "checks", !.gone = tx[d].seen]
  <2>1. tx' = [tx EXCEPT ![d] = e] /\ tx[d] \in Transaction /\ UNCHANGED tables
    BY <1>0, <1>17 DEF Types, DropResults, Goto, CanRun
  <2>2. d \notin Reports
    BY Distinct
  <2>. QED  BY <1>0, <2>1, <2>2, WholeMove
<1>18. ASSUME NEW d \in Drops, DropChecks(d) PROVE Whole'
  <2> DEFINE e == [tx[d] EXCEPT !.pc = "cascade", !.gone = tx[d].gone \union checks]
  <2>1. tx' = [tx EXCEPT ![d] = e] /\ tx[d] \in Transaction /\ UNCHANGED tables
    BY <1>0, <1>18 DEF Types, DropChecks, Goto, CanRun
  <2>2. d \notin Reports
    BY Distinct
  <2>. QED  BY <1>0, <2>1, <2>2, WholeMove
<1>25. ASSUME NEW d \in Drops, DropCascade(d) PROVE Whole'
  <2> DEFINE e == [tx[d] EXCEPT !.pc = "clear", !.gone = tx[d].gone \union Cascaded(d),
                                !.seen = procs]
  <2>1. tx' = [tx EXCEPT ![d] = e] /\ tx[d] \in Transaction /\ UNCHANGED tables
    BY <1>0, <1>25 DEF Types, DropCascade, Goto, CanRun
  <2>2. d \notin Reports
    BY Distinct
  <2>. QED  BY <1>0, <2>1, <2>2, WholeMove
<1>26. ASSUME NEW c \in Removals, CheckDelete(c) PROVE Whole'
  <2> DEFINE e == [tx[c] EXCEPT !.pc = "cascade",
                                !.gone = tx[c].gone \union (checks \intersect {Target(c)})]
  <2>1. tx' = [tx EXCEPT ![c] = e] /\ tx[c] \in Transaction /\ UNCHANGED tables
    BY <1>0, <1>26 DEF Types, CheckDelete, Goto, CanRun
  <2>2. c \notin Reports
    BY Distinct
  <2>. QED  BY <1>0, <2>1, <2>2, WholeMove
<1>19. ASSUME NEW d \in Drops, DropProcesses(d) PROVE Whole'
  <2> DEFINE e == [tx[d] EXCEPT !.pc = "device",
                                !.gone = tx[d].gone \union tx[d].seen \union inventory,
                                !.seen = metrics]
  <2>1. tx' = [tx EXCEPT ![d] = e] /\ tx[d] \in Transaction /\ UNCHANGED tables
    BY <1>0, <1>19 DEF Types, DropProcesses, Goto, CanRun
  <2>2. d \notin Reports
    BY Distinct
  <2>. QED  BY <1>0, <2>1, <2>2, WholeMove
<1>20. ASSUME NEW d \in Drops, DropCommit(d) PROVE Whole'
  <2>1. CASE ~(metrics \subseteq tx[d].seen /\ checks \union results \subseteq tx[d].gone)
    BY <1>0, <1>20, <2>1, WholeAnswer, Distinct DEF DropCommit, Answered, tables
  <2>2. CASE metrics \subseteq tx[d].seen /\ checks \union results \subseteq tx[d].gone
    <3>1. \A u \in Requests : IF u = d THEN tx'[u].pc = "ok" ELSE tx'[u] = tx[u]
      BY <1>0, <1>20, <2>2, OthersStay DEF DropCommit, Answered
    <3>2. d \notin Reports
      BY Distinct
    <3>3. \A r \in Reports : tx'[r] = tx[r] /\ ~tx[r].dev
      BY <1>20, <3>1, <3>2, LockFree DEF DropCommit, CanRun
    <3>4. \A r \in Reports : tx[r].pc \notin {"select", "results", "read", "clear", "commit"}
      BY <1>0, <3>3 DEF Locked
    <3>5. NoOrphans' /\ AckedStored'
      BY <1>20, <2>2 DEF DropCommit, NoOrphans, AckedStored
    <3>6. \A r \in Reports : Covers(tx[r])'
      BY <3>3, <3>4 DEF Covers
    <3>. QED  BY <3>5, <3>6 DEF Whole
  <2>. QED  BY <2>1, <2>2
<1>21. ASSUME NEW p \in Patches, PatchBegin(p) PROVE Whole'
  <2> DEFINE e == [tx[p] EXCEPT !.pc = "update", !.old = thresholds]
  <2>1. tx' = [tx EXCEPT ![p] = e] /\ tx[p] \in Transaction /\ UNCHANGED tables
    BY <1>0, <1>21 DEF Types, PatchBegin, Goto, CanRun
  <2>2. p \notin Reports
    BY Distinct
  <2>. QED  BY <1>0, <2>1, <2>2, WholeMove
<1>22. ASSUME NEW p \in Patches, PatchRefused(p) PROVE Whole'
  BY <1>0, <1>22, WholeAnswer DEF PatchRefused, Answered
<1>23. ASSUME NEW p \in Patches, PatchCommit(p) PROVE Whole'
  <2>0. p \notin Reports
    BY Distinct
  <2>1. CASE ~(~(tx[p].old # [warning |-> Warning(p), critical |-> Critical(p)] /\ ~device))
    BY <1>0, <1>23, <2>0, <2>1, WholeAnswer DEF PatchCommit, Answered, tables
  <2>2. CASE ~(tx[p].old # [warning |-> Warning(p), critical |-> Critical(p)] /\ ~device)
    <3>1. \A u \in Requests : IF u = p THEN tx'[u].pc = "ok" ELSE tx'[u] = tx[u]
      BY <1>0, <1>23, <2>2, OthersStay DEF PatchCommit, Answered
    <3>2. \A r \in Reports : tx'[r] = tx[r]
      BY <2>0, <3>1
    <3>3. NoOrphans'
      BY <1>23, <2>2 DEF PatchCommit, Whole, NoOrphans
    <3>4. AckedStored' /\ \A r \in Reports : Covers(tx[r])'
      BY <1>23, <2>2, <3>2 DEF PatchCommit, Whole, AckedStored, Covers
    <3>. QED  BY <3>3, <3>4 DEF Whole
  <2>. QED  BY <2>1, <2>2
<1>24. CASE UNCHANGED vars
  BY <1>24 DEF vars, Whole, NoOrphans, AckedStored, Covers
<1>. QED
  BY <1>1, <1>2, <1>3, <1>4, <1>5, <1>6, <1>7, <1>8, <1>9, <1>10, <1>11, <1>12, <1>13,
     <1>14,
     <1>15, <1>16, <1>17, <1>18, <1>19, <1>20, <1>21, <1>22, <1>23, <1>24,
     <1>25, <1>26
  DEF Next, Step, Ingest, IngestInventory, DeletePortCheck, DeleteDevice, UpdateThresholds

-----------------------------------------------------------------------------
(* A deletion of a check waits for others, but of those it waits for only    *)
(* another deletion of the same rows ever waits for it: the results of its   *)
(* check, and the check, are all it has locked.                              *)
LEMMA Disputes ==
  ASSUME Types, Local, NEW c \in Removals, NEW u \in Requests,
         u \in Blockers(c), c \in Blockers(u)
  PROVE  /\ tx[u].pc \notin Answered
         /\ u # c /\ (u \in Drops \/ (u \in Removals /\ Target(u) = Target(c)))
<1>. USE Kinds, Distinct
<1>0. /\ u # c /\ tx[u].pc \notin Answered
      /\ Fits(c, tx[c]) /\ Fits(u, tx[u]) /\ TypeOK
  BY DEF Blockers, Others, Answered, Local, Types
<1>1. /\ ~tx[c].dev /\ tx[c].shared = {}
      /\ tx[c].gone \subseteq RowsOf(Target(c)) \union {Target(c)}
      /\ Target(c) \in tx[c].gone => tx[c].pc = "cascade"
  <2>1. Target(c) \notin RowsOf(Target(c))
    BY RowsAssumption DEF RowsOf
  <2>. QED  BY <1>0, <2>1 DEF Fits
<1>2. /\ (Checks \X Reports) \intersect (Checks \union Reports \union Inventories) = {}
      /\ Checks \intersect (Reports \union Inventories) = {}
      /\ Target(c) \in Checks /\ RowsOf(Target(c)) \subseteq Checks \X Reports
  BY RowsAssumption DEF RowsOf
<1>3. u \notin Inventories /\ u \notin Patches
  <2>1. ASSUME u \in Inventories PROVE FALSE
    <3>1. tx[u].pc = "store" /\ tx[u].seen \subseteq Inventories
      BY <1>0, <2>1 DEF Fits, Blockers
    <3>2. tx[u].seen \intersect tx[c].gone # {}
      BY <3>1 DEF Blockers, Deleted
    <3>. QED  BY <1>1, <1>2, <3>1, <3>2
  <2>2. ASSUME u \in Patches PROVE FALSE
    <3>1. tx[u].pc = "update"
      BY <1>0, <2>2 DEF Fits, Blockers
    <3>. QED  BY <1>1, <3>1 DEF Blockers
  <2>. QED  BY <2>1, <2>2
<1>4. u \notin Reports
  <2>. SUFFICES ASSUME u \in Reports PROVE FALSE
    OBVIOUS
  <2>1. tx[u].pc \in {"update", "results", "clear"}
    BY <1>0 DEF Fits, Blockers
  <2>2. tx[u].pc # "update"
    BY <1>1 DEF Blockers
  <2>3. tx[u].seen \intersect tx[c].gone # {}
    BY <2>1, <2>2 DEF Blockers, Deleted
  <2>4. tx[u].pc # "clear"
    <3>1. tx[u].pc = "clear" => tx[u].seen \subseteq Reports
      BY <1>0 DEF Fits
    <3>. QED  BY <1>1, <1>2, <2>3, <3>1
  <2>5. tx[u].pc = "results" /\ tx[u].seen \subseteq Checks
    BY <1>0, <2>1, <2>2, <2>4 DEF Fits
  <2>6. tx[c].pc = "cascade"
    BY <1>1, <1>2, <2>3, <2>5
  <2>7. tx[u].gone = {}
    BY <1>0, <2>5 DEF Fits
  <2>. QED  BY <2>6, <2>7 DEF Blockers, Deleted
<1>5. ASSUME u \in Removals PROVE Target(u) = Target(c)
  <2>0. Target(u) \in Checks
    BY <1>5
  <2>1. tx[u].pc \in {"clear", "check", "cascade"}
    BY <1>0, <1>5 DEF Fits, Blockers
  <2>2. CASE tx[u].pc = "clear"
    <3>1. tx[u].seen \subseteq RowsOf(Target(u)) /\ tx[u].seen \intersect tx[c].gone # {}
      BY <1>0, <1>5, <2>2 DEF Fits, Blockers, Deleted
    <3>. QED  BY <1>1, <1>2, <3>1 DEF RowsOf
  <2>3. CASE tx[u].pc = "check"
    <3>1. Target(u) \in tx[c].gone
      BY <1>1, <2>3 DEF Blockers, Deleted
    <3>. QED  BY <1>1, <1>2, <2>0, <3>1
  <2>4. CASE tx[u].pc = "cascade"
    <3>1. PICK x \in results : x[1] \in tx[u].gone /\ x \in tx[c].gone
      BY <2>4 DEF Blockers, Deleted, Cascaded
    <3>2. x \in Checks \X Reports /\ x[1] \in Checks
      BY <1>0, <3>1 DEF TypeOK
    <3>3. tx[u].gone \subseteq RowsOf(Target(u)) \union {Target(u)}
      BY <1>0, <1>5, <2>4 DEF Fits
    <3>4. x[1] = Target(u)
      BY <1>2, <3>1, <3>2, <3>3 DEF RowsOf
    <3>5. x[1] = Target(c)
      BY <1>1, <1>2, <3>1, <3>2 DEF RowsOf
    <3>. QED  BY <3>4, <3>5
  <2>. QED  BY <2>1, <2>2, <2>3, <2>4
<1>. QED  BY <1>0, <1>3, <1>4, <1>5 DEF Requests

\* A request that has come is never taken back.
LEMMA Comes ==
  ASSUME Types, NEW t \in Requests, tx[t].pc # "absent", [Next]_vars
  PROVE  tx'[t].pc # "absent"
<1>. USE Kinds, Distinct
<1>0. tx[t] \in Transaction
  BY DEF Types
<1>1. ASSUME NEW a \in (Answered \union {"begin"}) \ {"absent"}, Answer(t, a)
      PROVE  tx'[t].pc # "absent"
  BY <1>1, AnswerGives
<1>2. CASE UNCHANGED vars
  BY <1>2 DEF vars
<1>3. ASSUME NEW u \in Requests, u # t, Step(u) PROVE tx'[t].pc # "absent"
  BY <1>3, OneTransaction DEF Types
<1>4. CASE Unknown(t) \/ Victim(t) \/ Retry(t)
  BY <1>1, <1>4 DEF Unknown, Victim, Retry, Answered
<1>5. CASE Ingest(t)
  BY <1>0, <1>1, <1>5 DEF Ingest, IngestBegin, IngestUpdate, IngestSelect, IngestResults,
     IngestRead, IngestClear, IngestCommit, Goto, Types, Transaction, Answered
<1>6. CASE IngestInventory(t)
  BY <1>0, <1>1, <1>6 DEF IngestInventory, InventoryBegin, InventoryStore, Types,
     Transaction, Answered
<1>7. CASE DeletePortCheck(t)
  BY <1>0, <1>1, <1>7 DEF DeletePortCheck, CheckBegin, CheckClear, CheckDelete, CheckCommit,
     Types, Transaction, Answered
<1>8. CASE DeleteDevice(t)
  BY <1>0, <1>1, <1>8 DEF DeleteDevice, DropBegin, DropResults, DropChecks, DropCascade,
     DropProcesses, DropCommit, Types, Transaction, Answered
<1>9. CASE UpdateThresholds(t)
  BY <1>0, <1>1, <1>9 DEF UpdateThresholds, PatchBegin, PatchRefused, PatchCommit, Types,
     Transaction, Answered
<1>. QED
  BY <1>2, <1>3, <1>4, <1>5, <1>6, <1>7, <1>8, <1>9 DEF Next, Step

LEMMA SucceedsInit == Init => CheckDeletionSucceeds
<1>. SUFFICES ASSUME Init, NEW c \in Removals PROVE tx[c].pc # "error"
  BY DEF CheckDeletionSucceeds
<1>. QED  BY Kinds DEF Init, Fresh

LEMMA SucceedsStep == Types /\ Local /\ CheckDeletionSucceeds /\ [Next]_vars
                          => CheckDeletionSucceeds'
<1>. SUFFICES ASSUME Types, Local, CheckDeletionSucceeds, [Next]_vars, NEW c \in Removals,
                     Undisputed(c)'
              PROVE  tx'[c].pc # "error"
  BY DEF CheckDeletionSucceeds
<1>. USE Kinds, Distinct
<1>0. Undisputed(c)
  <2>1. \A u \in Requests : tx[u].pc # "absent" => tx'[u].pc # "absent"
    BY Comes
  <2>. QED  BY <2>1 DEF Undisputed, Others
<1>1. CASE UNCHANGED vars
  BY <1>0, <1>1 DEF vars, CheckDeletionSucceeds
<1>2. ASSUME NEW t \in Requests, t # c, Step(t) PROVE tx'[c] = tx[c]
  <2>1. \E e : tx' = [tx EXCEPT ![t] = e]
    BY <1>2, OneTransaction
  <2>. QED  BY <1>2, <2>1 DEF Types
<1>3. ASSUME Step(c) PROVE tx'[c].pc # "error"
  <2>0. tx[c] \in Transaction
    BY DEF Types
  <2>1. CASE Unknown(c)
    BY <2>1, AnswerGives DEF Unknown, Answered
  <2>2. ~Victim(c)
    <3>. SUFFICES ASSUME NEW u \in Requests, u \in Blockers(c), c \in Blockers(u) PROVE FALSE
      BY DEF Victim, Deadlocked, Blockers, Others
    <3>1. /\ tx[u].pc \notin Answered
          /\ u # c /\ (u \in Drops \/ (u \in Removals /\ Target(u) = Target(c)))
      BY Disputes
    <3>. QED  BY <1>0, <3>1 DEF Undisputed, Others, Answered
  <2>3. CASE CheckBegin(c)
    BY <2>0, <2>3 DEF CheckBegin, Types, Transaction
  <2>4. CASE CheckClear(c)
    BY <2>0, <2>4 DEF CheckClear, Types, Transaction
  <2>5. CASE CheckDelete(c)
    BY <2>0, <2>5 DEF CheckDelete, Types, Transaction
  <2>6. CASE CheckCommit(c)
    BY <2>6, AnswerGives DEF CheckCommit, Answered
  <2>. QED  BY <1>3, <2>1, <2>2, <2>3, <2>4, <2>5, <2>6 DEF Step, Retry, DeletePortCheck
<1>. QED  BY <1>0, <1>1, <1>2, <1>3 DEF Next, CheckDeletionSucceeds

-----------------------------------------------------------------------------
(* On a device that is kept, the last of the deletions of a check to be      *)
(* answered is not the victim of a deadlock: whoever ends it goes on.        *)
Kept == \A d \in Drops : tx[d].pc = "absent"

DeviceKept == Kept => device

LEMMA TakesInit == Init => DeviceKept /\ DeletionTakesEffect
<1>. SUFFICES ASSUME Init PROVE DeviceKept /\ DeletionTakesEffect
  OBVIOUS
<1>1. \A t \in Requests : tx[t].pc \in {"begin", "absent"}
  BY DEF Init, Fresh
<1>. QED  BY <1>1, Kinds DEF Init, DeviceKept, DeletionTakesEffect, Answered

\* What is left of a deletion that takes a step.
LEMMA TakesOne ==
  ASSUME Types, Local, DeviceKept, Kept, NEW c \in Removals, Step(c)
  PROVE  \/ tx'[c].pc \notin Answered
         \/ Target(c) \notin checks'
         \/ \E u \in Removals : u # c /\ Target(u) = Target(c) /\ tx[u].pc \notin Answered
<1>. SUFFICES ASSUME tx'[c].pc \in Answered
              PROVE  \/ Target(c) \notin checks'
                     \/ \E u \in Removals : /\ u # c /\ Target(u) = Target(c)
                                             /\ tx[u].pc \notin Answered
  OBVIOUS
<1>. USE Kinds, Distinct
<1>0. device /\ tx[c] \in Transaction
  BY DEF DeviceKept, Types
<1>1. CASE Unknown(c)
  BY <1>0, <1>1 DEF Unknown, tables
<1>2. CASE Victim(c)
  <2>1. PICK u \in Requests : u \in Blockers(c) /\ c \in Blockers(u)
    BY <1>2 DEF Victim, Deadlocked, Blockers, Others
  <2>2. /\ tx[u].pc \notin Answered
        /\ u # c /\ (u \in Drops \/ (u \in Removals /\ Target(u) = Target(c)))
    BY <2>1, Disputes
  <2>. QED  BY <2>2 DEF Kept, Answered
<1>3. CASE CheckBegin(c) \/ CheckClear(c) \/ CheckDelete(c)
  BY <1>0, <1>3 DEF CheckBegin, CheckClear, CheckDelete, Types, Transaction, Answered
<1>4. CASE CheckCommit(c)
  BY <1>4 DEF CheckCommit
<1>. QED  BY <1>1, <1>2, <1>3, <1>4 DEF Step, Retry, DeletePortCheck

LEMMA TakesStep ==
  Types /\ Local /\ DeviceKept /\ DeletionTakesEffect /\ [Next]_vars
      => DeviceKept' /\ DeletionTakesEffect'
<1>. SUFFICES ASSUME Types, Local, DeviceKept, DeletionTakesEffect, [Next]_vars, Kept'
              PROVE  device' /\ DeletionTakesEffect'
  BY DEF DeviceKept, DeletionTakesEffect, Kept
<1>. USE Kinds, Distinct
<1>0. Kept /\ device
  <2>1. Kept
    BY Comes DEF Kept
  <2>. QED  BY <2>1 DEF DeviceKept
<1>1. CASE UNCHANGED vars
  BY <1>0, <1>1 DEF vars, DeletionTakesEffect
<1>2. ASSUME NEW t \in Requests, Step(t)
      PROVE  \A u \in Requests : u # t => tx'[u] = tx[u]
  BY <1>2, OneTransaction DEF Types
<1>3. ASSUME NEW t \in Requests, Step(t) PROVE device'
  <2>1. t \notin Drops
    <3>1. ASSUME t \in Drops PROVE FALSE
      <4>1. tx[t].pc = "absent"
        BY <1>0, <3>1 DEF Kept
      <4>2. Blockers(t) = {}
        BY <4>1 DEF Blockers
      <4>. QED
        BY <1>3, <3>1, <4>1, <4>2 DEF Step, Unknown, Victim, Deadlocked, Retry, DeleteDevice,
           DropBegin, DropResults, DropChecks, DropCascade, DropProcesses, DropCommit, CanRun
    <3>. QED  BY <3>1
  <2>. QED
    BY <1>0, <1>3, <2>1 DEF Step, Unknown, Victim, Retry, Ingest, IngestInventory,
       DeletePortCheck, UpdateThresholds, IngestBegin, IngestUpdate, IngestSelect,
       IngestResults, IngestRead, IngestClear, IngestCommit, InventoryBegin, InventoryStore,
       CheckBegin, CheckClear, CheckDelete, CheckCommit, PatchBegin, PatchRefused,
       PatchCommit, tables
<1>4. ASSUME NEW t \in Requests, Step(t) PROVE DeletionTakesEffect'
  <2>. SUFFICES ASSUME NEW c \in Removals, tx'[c].pc \in Answered \ {"absent"},
                       Target(c) \in checks'
                PROVE  \E u \in Removals : Target(u) = Target(c) /\ tx'[u].pc \notin Answered
    BY DEF DeletionTakesEffect
  <2>1. Target(c) \in checks
    BY <1>4, ChecksShrink
  <2>2. PICK u \in Removals : /\ Target(u) = Target(c)
                             /\ (tx[u].pc \notin Answered \/ (u = c /\ t = c))
    <3>1. CASE t = c
      BY <3>1
    <3>2. CASE t # c
      <4>1. tx'[c] = tx[c]
        BY <1>2, <1>4, <3>2
      <4>. QED  BY <1>0, <2>1, <4>1 DEF DeletionTakesEffect, Kept
    <3>. QED  BY <3>1, <3>2
  <2>3. CASE u # t
    BY <1>2, <1>4, <2>2, <2>3
  <2>4. CASE u = t
    <3>1. \/ tx'[u].pc \notin Answered
          \/ \E w \in Removals : w # u /\ Target(w) = Target(c) /\ tx[w].pc \notin Answered
      BY <1>0, <1>4, <2>2, <2>4, TakesOne
    <3>. QED  BY <1>2, <1>4, <2>2, <2>4, <3>1
  <2>. QED  BY <2>3, <2>4
<1>. QED  BY <1>1, <1>3, <1>4, <1>0 DEF Next, vars

-----------------------------------------------------------------------------
(* A lone update of the thresholds: no two of them that are not refused.     *)
Lone == \A p, q \in Patches : p # q => Refused(p) \/ Refused(q)

\* What it has read is still there when it writes, and what it has written stays.
Alone == \A p \in Patches :
    IF Refused(p) THEN tx[p].pc \in {"absent", "begin", "refused"}
    ELSE /\ tx[p].pc = "update" => tx[p].old = thresholds
         /\ tx[p].pc = "ok" => thresholds = [warning |-> Warning(p), critical |-> Critical(p)]

LEMMA AloneInit == Init => Alone
<1>. SUFFICES ASSUME Init PROVE Alone
  OBVIOUS
<1>1. \A t \in Requests : tx[t].pc \in {"begin", "absent"}
  BY DEF Init, Fresh
<1>. QED  BY <1>1, Kinds DEF Alone

LEMMA AloneStep == Lone /\ Types /\ Local /\ Alone /\ [Next]_vars => Alone'
<1>. SUFFICES ASSUME Lone, Types, Local, Alone, [Next]_vars PROVE Alone'
  OBVIOUS
<1>. USE Kinds, Distinct
<1>1. CASE UNCHANGED vars
  BY <1>1 DEF vars, Alone
<1>2. ASSUME NEW t \in Requests, t \notin Patches, Step(t) PROVE Alone'
  <2>1. \E e : tx' = [tx EXCEPT ![t] = e]
    BY <1>2, OneTransaction
  <2>2. UNCHANGED thresholds
    BY <1>2 DEF Step, Unknown, Victim, Retry, Ingest, IngestInventory, DeletePortCheck,
       DeleteDevice, IngestBegin, IngestUpdate, IngestSelect, IngestResults,
       IngestRead, IngestClear, IngestCommit, InventoryBegin, InventoryStore, CheckBegin,
       CheckClear, CheckDelete, CheckCommit, DropBegin, DropResults, DropChecks, DropCascade,
       DropProcesses, DropCommit, tables
  <2>3. \A p \in Patches : tx'[p] = tx[p]
    BY <1>2, <2>1 DEF Types
  <2>. QED  BY <2>2, <2>3 DEF Alone
<1>3. ASSUME NEW p \in Patches, Step(p) PROVE Alone'
  <2>1. \A q \in Patches : q # p => tx'[q] = tx[q]
    BY <1>3, OneTransaction DEF Types
  <2>2. CASE Unknown(p) \/ Victim(p)
    <3>1. ~Refused(p)
      <4>1. tx[p].pc \in {"absent", "begin", "refused"} => Blockers(p) = {}
        BY DEF Blockers
      <4>. QED  BY <2>2, <4>1 DEF Unknown, Victim, Deadlocked, Alone
    <3>2. tx'[p].pc \in {"unknown", "error"} /\ UNCHANGED thresholds
      BY <2>2 DEF Unknown, Victim, Answer, Fresh, Types, tables
    <3>. QED  BY <2>1, <3>1, <3>2 DEF Alone
  <2>3. CASE PatchBegin(p)
    <3>1. ~Refused(p) /\ UNCHANGED thresholds
      BY <2>3 DEF PatchBegin, tables
    <3>2. tx'[p].pc = "update" /\ tx'[p].old = thresholds
      BY <2>3 DEF PatchBegin, Types, Transaction
    <3>. QED  BY <2>1, <3>1, <3>2 DEF Alone
  <2>4. CASE PatchRefused(p)
    <3>1. Refused(p) /\ tx'[p].pc = "refused" /\ UNCHANGED thresholds
      BY <2>4 DEF PatchRefused, Answer, Fresh, Types, tables
    <3>. QED  BY <2>1, <3>1 DEF Alone
  <2>5. CASE PatchCommit(p)
    <3>1. tx[p].pc = "update" /\ ~Refused(p)
      BY <2>5 DEF PatchCommit, Alone
    <3>2. \A q \in Patches : q # p => Refused(q)
      BY <3>1 DEF Lone
    <3>3. tx[p].old = thresholds
      BY <3>1 DEF Alone
    <3>4. CASE tx'[p].pc = "error"
      BY <2>1, <3>1, <3>2, <3>4 DEF Alone
    <3>5. CASE tx'[p].pc # "error"
      <4>1. thresholds' = [warning  |-> IF Warning(p) = thresholds.warning
                                        THEN thresholds.warning ELSE Warning(p),
                           critical |-> IF Critical(p) = thresholds.critical
                                        THEN thresholds.critical ELSE Critical(p)]
        BY <2>5, <3>3, <3>5 DEF PatchCommit, Answer, Fresh, Types
      <4>2. tx'[p].pc = "ok"
        BY <2>5, <3>5 DEF PatchCommit, Answer, Fresh, Types
      <4>3. thresholds' = [warning |-> Warning(p), critical |-> Critical(p)]
        BY <4>1
      <4>. QED  BY <2>1, <3>1, <3>2, <4>2, <4>3 DEF Alone
    <3>. QED  BY <3>4, <3>5
  <2>. QED  BY <1>3, <2>2, <2>3, <2>4, <2>5 DEF Step, Retry, UpdateThresholds
<1>. QED  BY <1>1, <1>2, <1>3 DEF Next

-----------------------------------------------------------------------------
(* The requests take effect as DeviceStore promises: a statement that does   *)
(* not commit is invisible, and the one that commits does in one step what   *)
(* the whole request is for.                                                 *)

\* What its first SELECT has told a request still holds: the device is there for
\* its only deletion, and an update that goes on is in order.
Begun ==
    /\ \A d \in Drops : tx[d].pc \in {"results", "checks", "cascade", "clear", "device"} => device
    /\ \A p \in Patches : tx[p].pc = "update" => ~Refused(p)

LEMMA BegunInit == Init => Begun
<1>. SUFFICES ASSUME Init PROVE Begun
  OBVIOUS
<1>1. \A t \in Requests : tx[t].pc \in {"begin", "absent"}
  BY DEF Init, Fresh
<1>. QED  BY <1>1, Kinds DEF Begun

LEMMA BegunStep == Inv /\ Begun /\ [Next]_vars => Begun'
<1>. SUFFICES ASSUME Types, Begun, [Next]_vars PROVE Begun'
  BY DEF Inv
<1>. USE Kinds, Distinct
<1>1. CASE UNCHANGED vars
  BY <1>1 DEF vars, Begun, Refused
<1>2. ASSUME NEW t \in Requests, Step(t)
      PROVE  \A u \in Requests : u # t => tx'[u] = tx[u]
  BY <1>2, OneTransaction DEF Types
<1>3. ASSUME NEW t \in Requests, t \notin Drops, Step(t) PROVE UNCHANGED device
  BY <1>3 DEF Step, Unknown, Victim, Retry, Ingest, IngestInventory, DeletePortCheck,
     UpdateThresholds, IngestBegin, IngestUpdate, IngestSelect, IngestResults,
     IngestRead, IngestClear, IngestCommit, InventoryBegin, InventoryStore, CheckBegin,
     CheckClear, CheckDelete, CheckCommit, PatchBegin, PatchRefused, PatchCommit, tables
<1>4. ASSUME NEW t \in Requests, NEW a \in Answered \union {"begin"}, Answer(t, a)
      PROVE  tx'[t].pc = a
  BY <1>4 DEF Answer, Fresh, Types
<1>5. ASSUME NEW d \in Drops, Step(d)
      PROVE  tx'[d].pc \in {"results", "checks", "cascade", "clear", "device"} => device'
  <2>1. CASE Unknown(d) \/ Victim(d) \/ Retry(d)
    BY <1>4, <2>1 DEF Unknown, Victim, Retry, Answered
  <2>2. CASE DropBegin(d)
    BY <2>2 DEF DropBegin, tables
  <2>3. CASE DropResults(d) \/ DropChecks(d) \/ DropCascade(d) \/ DropProcesses(d)
    BY <2>3 DEF DropResults, DropChecks, DropCascade, DropProcesses, CanRun, tables, Begun
  <2>4. CASE DropCommit(d)
    <3>1. Answer(d, "ok") \/ Answer(d, "error")
      BY <2>4 DEF DropCommit
    <3>. QED  BY <1>4, <3>1 DEF Answered
  <2>. QED  BY <1>5, <2>1, <2>2, <2>3, <2>4 DEF Step, DeleteDevice
<1>6. ASSUME NEW p \in Patches, Step(p) PROVE tx'[p].pc = "update" => ~Refused(p)
  <2>1. CASE Unknown(p) \/ Victim(p) \/ Retry(p)
    BY <1>4, <2>1 DEF Unknown, Victim, Retry, Answered
  <2>2. CASE PatchBegin(p)
    BY <2>2 DEF PatchBegin
  <2>3. CASE PatchRefused(p)
    BY <1>4, <2>3 DEF PatchRefused, Answered
  <2>4. CASE PatchCommit(p)
    <3>1. Answer(p, "ok") \/ Answer(p, "error")
      BY <2>4 DEF PatchCommit
    <3>. QED  BY <1>4, <3>1 DEF Answered
  <2>. QED  BY <1>6, <2>1, <2>2, <2>3, <2>4 DEF Step, UpdateThresholds
<1>7. ASSUME NEW t \in Requests, Step(t) PROVE Begun'
  <2>1. ASSUME NEW d \in Drops
        PROVE  tx'[d].pc \in {"results", "checks", "cascade", "clear", "device"} => device'
    <3>1. CASE t \in Drops
      BY <1>5, <1>7, <3>1, JobsAssumption
    <3>2. CASE t \notin Drops
      BY <1>2, <1>3, <1>7, <3>2 DEF Begun
    <3>. QED  BY <3>1, <3>2
  <2>2. ASSUME NEW p \in Patches PROVE tx'[p].pc = "update" => ~Refused(p)
    BY <1>2, <1>6, <1>7 DEF Begun
  <2>. QED  BY <2>1, <2>2 DEF Begun, Refused
<1>. QED  BY <1>1, <1>7 DEF Next

\* A statement that leaves the tables as they are, of a request that is then not
\* answered with success.
LEMMA Invisible ==
  ASSUME Types, NEW t \in Requests, tx[t].pc # "ok", NEW e, e.pc # "ok",
         tx' = [tx EXCEPT ![t] = e], UNCHANGED tables
  PROVE  UNCHANGED Store!storeVars
<1>1. \A u \in Requests : tx'[u] = IF u = t THEN e ELSE tx[u]
  BY DEF Types
<1>2. Succeeded' = Succeeded
  BY <1>1 DEF Succeeded
<1>. QED  BY <1>2 DEF Store!storeVars, Store!rows, tables

LEMMA InvisibleAnswer ==
  ASSUME Types, NEW t \in Requests, tx[t].pc # "ok", NEW a \in (Answered \union {"begin"}) \ {"ok"},
         Answer(t, a), UNCHANGED tables
  PROVE  UNCHANGED Store!storeVars
<1> DEFINE e == [Fresh EXCEPT !.pc = a]
<1>1. e.pc # "ok"
  BY DEF Fresh
<1>2. tx' = [tx EXCEPT ![t] = e]
  BY DEF Answer
<1>. HIDE DEF e
<1>. QED  BY <1>1, <1>2, Invisible

LEMMA Success ==
  ASSUME Types, NEW t \in Requests, tx[t].pc # "ok", Answer(t, "ok")
  PROVE  Store!Succeed(t)
<1>1. \A u \in Requests : IF u = t THEN tx'[u].pc = "ok" ELSE tx'[u] = tx[u]
  BY OthersStay DEF Answered
<1>. QED  BY <1>1 DEF Succeeded, Store!Succeed

\* The statements before the last.
Before(t) ==
    \/ Unknown(t) \/ Victim(t) \/ Retry(t)
    \/ t \in Reports /\ \/ IngestBegin(t) \/ IngestUpdate(t) \/ IngestSelect(t)
                        \/ IngestResults(t) \/ IngestRead(t) \/ IngestClear(t)
    \/ t \in Inventories /\ InventoryBegin(t)
    \/ t \in Removals /\ (CheckBegin(t) \/ CheckClear(t) \/ CheckDelete(t))
    \/ t \in Drops /\ \/ DropBegin(t) \/ DropResults(t) \/ DropChecks(t)
                      \/ DropCascade(t) \/ DropProcesses(t)
    \/ t \in Patches /\ (PatchBegin(t) \/ PatchRefused(t))

LEMMA BeforeInvisible ==
  ASSUME Types, NEW t \in Requests, Before(t)
  PROVE  UNCHANGED Store!storeVars
<1>1. tx[t].pc # "ok"
  <2>1. tx[t].pc = "ok" => ~Deadlocked(t)
    BY DEF Deadlocked, Blockers
  <2>. QED
    BY <2>1 DEF Before, Unknown, Victim, Retry, IngestBegin, IngestUpdate, IngestSelect,
       IngestResults, IngestRead, IngestClear, InventoryBegin, CheckBegin, CheckClear,
       CheckDelete, DropBegin, DropResults, DropChecks, DropCascade, DropProcesses, PatchBegin,
       PatchRefused, CanRun
<1>2. UNCHANGED tables
  BY DEF Before, Unknown, Victim, Retry, IngestBegin, IngestUpdate, IngestSelect,
     IngestResults, IngestRead, IngestClear, InventoryBegin, CheckBegin, CheckClear,
     CheckDelete, DropBegin, DropResults, DropChecks, DropCascade, DropProcesses, PatchBegin,
     PatchRefused
<1>3. \/ \E a \in (Answered \union {"begin"}) \ {"ok"} : Answer(t, a)
      \/ \E e : tx' = [tx EXCEPT ![t] = e] /\ e.pc # "ok"
  <2>0. tx[t] \in Transaction
    BY DEF Types
  <2>1. CASE Unknown(t) \/ Victim(t) \/ Retry(t) \/ PatchRefused(t)
    BY <2>1 DEF Unknown, Victim, Retry, PatchRefused, Answered
  <2>2. CASE IngestBegin(t) \/ PatchBegin(t)
    <3>1. [tx[t] EXCEPT !.pc = "update", !.old = thresholds].pc # "ok"
      BY <2>0 DEF Transaction
    <3>2. tx' = [tx EXCEPT ![t] = [tx[t] EXCEPT !.pc = "update", !.old = thresholds]]
      BY <2>2 DEF IngestBegin, PatchBegin, Types
    <3>. QED  BY <3>1, <3>2
  <2>3. CASE IngestUpdate(t)
    <3>1. [tx[t] EXCEPT !.pc = "select", !.dev = TRUE].pc # "ok"
      BY <2>0 DEF Transaction
    <3>2. tx' = [tx EXCEPT ![t] = [tx[t] EXCEPT !.pc = "select", !.dev = TRUE]]
            \/ Answer(t, "error")
      BY <2>3 DEF IngestUpdate, Types
    <3>. QED  BY <3>1, <3>2 DEF Answered
  <2>4. CASE IngestSelect(t)
    <3>1. [tx[t] EXCEPT !.pc = "results", !.seen = checks].pc # "ok"
      BY <2>0 DEF Transaction
    <3>2. tx' = [tx EXCEPT ![t] = [tx[t] EXCEPT !.pc = "results", !.seen = checks]]
      BY <2>4 DEF IngestSelect, Types
    <3>. QED  BY <3>1, <3>2
  <2>5. CASE IngestResults(t)
    <3>1. [tx[t] EXCEPT !.pc = "read", !.shared = tx[t].seen].pc # "ok"
      BY <2>0 DEF Transaction
    <3>2. tx' = [tx EXCEPT ![t] = [tx[t] EXCEPT !.pc = "read", !.shared = tx[t].seen]]
            \/ Answer(t, "error")
      BY <2>5 DEF IngestResults, Types
    <3>. QED  BY <3>1, <3>2 DEF Answered
  <2>6. ASSUME NEW label \in Labels, label # "ok", NEW seen,
               tx' = [tx EXCEPT ![t].pc = label, ![t].seen = seen]
        PROVE  \E e : tx' = [tx EXCEPT ![t] = e] /\ e.pc # "ok"
    <3>1. [tx[t] EXCEPT !.pc = label, !.seen = seen].pc # "ok"
      BY <2>0, <2>6 DEF Transaction
    <3>2. tx' = [tx EXCEPT ![t] = [tx[t] EXCEPT !.pc = label, !.seen = seen]]
      BY <2>6 DEF Types
    <3>. QED  BY <3>1, <3>2
  <2>7. ASSUME NEW label \in Labels, label # "ok", NEW gone,
               tx' = [tx EXCEPT ![t].pc = label, ![t].gone = gone]
        PROVE  \E e : tx' = [tx EXCEPT ![t] = e] /\ e.pc # "ok"
    <3>1. [tx[t] EXCEPT !.pc = label, !.gone = gone].pc # "ok"
      BY <2>0, <2>7 DEF Transaction
    <3>2. tx' = [tx EXCEPT ![t] = [tx[t] EXCEPT !.pc = label, !.gone = gone]]
      BY <2>7 DEF Types
    <3>. QED  BY <3>1, <3>2
  <2>8. CASE IngestRead(t) \/ InventoryBegin(t) \/ CheckBegin(t) \/ DropBegin(t)
    BY <2>6, <2>8 DEF IngestRead, InventoryBegin, CheckBegin, DropBegin, Labels
  <2>9. CASE IngestClear(t) \/ CheckClear(t) \/ DropResults(t)
    BY <2>7, <2>9 DEF IngestClear, CheckClear, DropResults, Labels
  <2>10. CASE DropChecks(t)
    <3>1. tx' = [tx EXCEPT ![t].pc = "cascade", ![t].gone = tx[t].gone \union checks]
      BY <2>10 DEF DropChecks
    <3>. QED  BY <2>7, <3>1 DEF Labels
  <2>12. CASE CheckDelete(t)
    <3>1. tx' = [tx EXCEPT ![t].pc = "cascade",
                           ![t].gone = tx[t].gone \union (checks \intersect {Target(t)})]
      BY <2>12 DEF CheckDelete
    <3>. QED  BY <2>7, <3>1 DEF Labels
  <2>13. CASE DropCascade(t)
    <3> DEFINE e == [tx[t] EXCEPT !.pc = "clear", !.gone = tx[t].gone \union Cascaded(t),
                                  !.seen = procs]
    <3>1. e.pc # "ok"
      BY <2>0 DEF Transaction
    <3>2. tx' = [tx EXCEPT ![t] = e]
      BY <2>13 DEF DropCascade, Types
    <3>. QED  BY <3>1, <3>2
  <2>11. CASE DropProcesses(t)
    <3> DEFINE e == [tx[t] EXCEPT !.pc = "device",
                         !.gone = tx[t].gone \union tx[t].seen \union inventory,
                         !.seen = metrics]
    <3>1. e.pc # "ok"
      BY <2>0 DEF Transaction
    <3>2. tx' = [tx EXCEPT ![t] = e]
      BY <2>11 DEF DropProcesses, Types
    <3>. QED  BY <3>1, <3>2
  <2>. QED
    BY <2>1, <2>2, <2>3, <2>4, <2>5, <2>8, <2>9, <2>10, <2>11, <2>12, <2>13 DEF Before
<1>. QED  BY <1>1, <1>2, <1>3, Invisible, InvisibleAnswer

LEMMA StoreInit == Init => Store!Init
<1>. SUFFICES ASSUME Init PROVE Store!Init
  OBVIOUS
<1>1. \A t \in Requests : tx[t].pc \in {"begin", "absent"}
  BY DEF Init, Fresh
<1>2. Succeeded = {}
  BY <1>1 DEF Succeeded
<1>. QED  BY <1>2 DEF Init, Store!Init, DefaultWarning, DefaultCritical

LEMMA StoreStep ==
  Inv /\ Local /\ Whole /\ Begun /\ (Lone => Alone) /\ [Next]_vars
      => [Store!Next]_(Store!storeVars)
<1>. SUFFICES ASSUME Inv, Local, Whole, Begun, Lone => Alone, [Next]_vars
              PROVE  [Store!Next]_(Store!storeVars)
  OBVIOUS
<1>. USE Kinds
<1>0. Types /\ TypeOK
  BY DEF Inv, Types
<1>1. CASE UNCHANGED vars
  BY <1>1 DEF vars, Store!storeVars, Store!rows, Succeeded
<1>2. ASSUME NEW t \in Requests, Before(t) PROVE UNCHANGED Store!storeVars
  BY <1>0, <1>2, BeforeInvisible
<1>3. ASSUME NEW r \in Reports, IngestCommit(r)
      PROVE  Store!StoreReport(r) \/ UNCHANGED Store!storeVars
  <2>1. /\ tx[r].pc = "commit" /\ device
        /\ tx[r].shared = checks /\ procs \subseteq tx[r].gone
    BY <1>3 DEF IngestCommit, Whole, Covers, Inv, Cleared
  <2>2. /\ metrics' = metrics \union {r}
        /\ results' = results \union (checks \X {r})
        /\ procs' = {r}
        /\ Answer(r, "ok")
        /\ UNCHANGED <<device, thresholds, checks, inventory>>
    BY <1>3, <2>1 DEF IngestCommit
  <2>3. Store!Succeed(r)
    BY <1>0, <2>1, <2>2, Success
  <2>. QED  BY <2>1, <2>2, <2>3 DEF Store!StoreReport
<1>4. ASSUME NEW v \in Inventories, InventoryStore(v)
      PROVE  Store!StoreInventory(v) \/ UNCHANGED Store!storeVars
  <2>1. tx[v].pc = "store"
    BY <1>4 DEF InventoryStore, CanRun
  <2>2. CASE ~(device /\ (tx[v].seen = {} <=> inventory = {}))
    <3>1. Answer(v, "error") /\ UNCHANGED tables
      BY <1>4, <2>2 DEF InventoryStore, tables
    <3>. QED  BY <1>0, <2>1, <3>1, InvisibleAnswer DEF Answered
  <2>3. CASE device /\ (tx[v].seen = {} <=> inventory = {})
    <3>1. /\ inventory' = {v} /\ Answer(v, "ok")
          /\ UNCHANGED <<device, thresholds, checks, results, metrics, procs>>
      BY <1>4, <2>3 DEF InventoryStore
    <3>2. Store!Succeed(v)
      BY <1>0, <2>1, <3>1, Success
    <3>. QED  BY <2>3, <3>1, <3>2 DEF Store!StoreInventory
  <2>. QED  BY <2>2, <2>3
<1>5. ASSUME NEW c \in Removals, CheckCommit(c) PROVE Store!DeleteCheck(c)
  <2>1. /\ tx[c].pc = "cascade"
        /\ tx[c].gone \subseteq RowsOf(Target(c)) \union {Target(c)}
    BY <1>5 DEF CheckCommit, CanRun, Local, Fits
  <2>2. results' = {x \in results : x[1] # Target(c)}
    <3>1. Target(c) \notin results
      BY <1>0, RowsAssumption DEF TypeOK
    <3>. QED  BY <1>5, <2>1, <3>1 DEF CheckCommit, RowsOf
  <2>3. Store!Succeed(c)
    BY <1>0, <1>5, <2>1, Success DEF CheckCommit
  <2>. QED  BY <1>5, <2>2, <2>3 DEF CheckCommit, Store!DeleteCheck
<1>6. ASSUME NEW d \in Drops, DropCommit(d)
      PROVE  Store!DeleteDevice(d) \/ UNCHANGED Store!storeVars
  <2>1. tx[d].pc = "device" /\ device
    BY <1>6 DEF DropCommit, CanRun, Begun
  <2>2. CASE ~(metrics \subseteq tx[d].seen /\ checks \union results \subseteq tx[d].gone)
    <3>1. Answer(d, "error") /\ UNCHANGED tables
      BY <1>6, <2>2 DEF DropCommit
    <3>. QED  BY <1>0, <2>1, <3>1, InvisibleAnswer DEF Answered
  <2>3. CASE metrics \subseteq tx[d].seen /\ checks \union results \subseteq tx[d].gone
    <3>1. /\ device' = FALSE /\ checks' = {} /\ results' = {} /\ metrics' = {}
          /\ procs' = {} /\ inventory' = {} /\ UNCHANGED thresholds
          /\ Answer(d, "ok")
      BY <1>6, <2>3 DEF DropCommit
    <3>2. Store!Succeed(d)
      BY <1>0, <2>1, <3>1, Success
    <3>. QED  BY <2>1, <3>1, <3>2 DEF Store!DeleteDevice
  <2>. QED  BY <2>2, <2>3
<1>7. ASSUME NEW p \in Patches, PatchCommit(p)
      PROVE  Store!SetThresholds(p) \/ Store!MixThresholds(p) \/ UNCHANGED Store!storeVars
  <2> DEFINE old == tx[p].old
             wanted == [warning |-> Warning(p), critical |-> Critical(p)]
  <2>1. tx[p].pc = "update" /\ ~Refused(p)
    BY <1>7 DEF PatchCommit, Begun
  <2>2. Store!Valid(p)
    BY <2>1, ThresholdsAssumption DEF Refused, Store!Valid
  <2>3. CASE old # wanted /\ ~device
    <3>1. Answer(p, "error") /\ UNCHANGED tables
      BY <1>7, <2>3 DEF PatchCommit, tables
    <3>. QED  BY <1>0, <2>1, <3>1, InvisibleAnswer DEF Answered
  <2>4. CASE ~(old # wanted /\ ~device)
    <3>1. /\ thresholds' = [warning  |-> IF Warning(p) = old.warning
                                         THEN thresholds.warning ELSE Warning(p),
                            critical |-> IF Critical(p) = old.critical
                                         THEN thresholds.critical ELSE Critical(p)]
          /\ Answer(p, "ok")
          /\ UNCHANGED <<device, checks, results, metrics, procs, inventory>>
      BY <1>7, <2>4 DEF PatchCommit
    <3>2. Store!Succeed(p)
      BY <1>0, <2>1, <3>1, Success
    <3>3. CASE Lone
      <4>1. old = thresholds
        BY <2>1, <3>3 DEF Alone
      <4>2. thresholds' = wanted
        BY <3>1, <4>1
      <4>. QED  BY <2>2, <3>1, <3>2, <4>2 DEF Store!SetThresholds, Store!Requested, Store!rows
    <3>4. CASE ~Lone
      <4>1. PICK q \in Patches \ {p} : ~Refused(q)
        BY <3>4 DEF Lone
      <4>2. Store!Valid(q)
        BY <4>1, ThresholdsAssumption DEF Refused, Store!Valid
      <4>3. thresholds' \in [warning  : {thresholds.warning, Warning(p)},
                             critical : {thresholds.critical, Critical(p)}]
        BY <3>1
      <4>. QED  BY <2>2, <3>1, <3>2, <4>2, <4>3 DEF Store!MixThresholds, Store!rows
    <3>. QED  BY <3>3, <3>4
  <2>. QED  BY <2>3, <2>4
<1>8. ASSUME NEW t \in Requests, Step(t) PROVE [Store!Next]_(Store!storeVars)
  <2>1. \/ Before(t)
        \/ t \in Reports /\ IngestCommit(t)
        \/ t \in Inventories /\ InventoryStore(t)
        \/ t \in Removals /\ CheckCommit(t)
        \/ t \in Drops /\ DropCommit(t)
        \/ t \in Patches /\ PatchCommit(t)
    BY <1>8 DEF Step, Before, Ingest, IngestInventory, DeletePortCheck, DeleteDevice,
       UpdateThresholds
  <2>. QED  BY <1>2, <1>3, <1>4, <1>5, <1>6, <1>7, <2>1 DEF Store!Next
<1>. QED  BY <1>1, <1>8 DEF Next

-----------------------------------------------------------------------------
LEMMA Invariance == Spec => []Inv
BY InitInv, StepKeepsInv, PTL DEF Spec

LEMMA StoreInvariance == Spec => [](Inv /\ Local /\ Held /\ Whole)
<1>1. Inv => Types
  BY DEF Inv
<1>. QED
  BY <1>1, InitInv, StepKeepsInv, LocalInit, LocalStep, HeldInit, HeldStep, WholeInit,
     WholeStep, PTL DEF Spec

(* The types of the tables, and that a request that has not begun or has     *)
(* been answered holds no lock.                                              *)
THEOREM TypeCorrect == Spec => []TypeOK
<1>1. Inv => TypeOK
  BY DEF Inv, Types
<1> QED
  BY <1>1, Invariance, PTL

(* Whatever requests arrive together, running_processes holds the rows of at *)
(* most one report: "Replace it atomically on each report" (main.py:506).    *)
THEOREM ProcessListIsWhole == Spec => []ProcessListWhole
<1>1. Inv => ProcessListWhole
  <2> SUFFICES ASSUME Inv PROVE ProcessListWhole
    OBVIOUS
  <2>1. CASE procs = {}
    BY <2>1, FS_EmptySet DEF ProcessListWhole
  <2>2. CASE \E r \in Reports : procs = {r}
    <3>1. Cardinality(procs) = 1
      BY <2>2, FS_Singleton
    <3> QED
      BY <3>1 DEF ProcessListWhole
  <2> QED
    BY <2>1, <2>2 DEF Inv, Single
<1> QED
  BY <1>1, Invariance, PTL

(* Whatever requests meet, no result outlives its check and no row the       *)
(* device: the foreign keys of main.py:71-154 hold at every commit.          *)
THEOREM NothingIsOrphaned == Spec => []NoOrphans
<1>1. Whole => NoOrphans
  BY DEF Whole
<1> QED
  BY <1>1, StoreInvariance, PTL

(* A report that ingest has answered with success is stored with a result    *)
(* for every check that still exists.                                        *)
THEOREM AckedIsStored == Spec => []AckedStored
<1>1. Whole => AckedStored
  BY DEF Whole
<1> QED
  BY <1>1, StoreInvariance, PTL

(* delete_port_check does not fail, whatever reports, inventories, updates   *)
(* and deletions of other checks it meets (main.py:586).                     *)
THEOREM CheckDeletionsSucceed == Spec => []CheckDeletionSucceeds
<1>1. Inv => Types
  BY DEF Inv
<1> QED
  BY <1>1, StoreInvariance, SucceedsInit, SucceedsStep, PTL DEF Spec

(* However many operators delete one check of a device that is kept, and     *)
(* whichever of them end as victims of a deadlock, the check goes.           *)
THEOREM DeletionsTakeEffect == Spec => []DeletionTakesEffect
<1>1. Inv => Types
  BY DEF Inv
<1> QED
  BY <1>1, StoreInvariance, TakesInit, TakesStep, PTL DEF Spec

(* An update of the thresholds that was answered with success stays, against *)
(* any reports and deletions, if no other update comes with it (two at once  *)
(* are the run thresholds).                                                  *)
THEOREM LoneUpdateIsKept == Lone => (Spec => []ThresholdsKept)
<1>. SUFFICES ASSUME Lone PROVE Spec => []ThresholdsKept
  OBVIOUS
<1>1. Inv => Types
  BY DEF Inv
<1>2. Inv /\ Local /\ Alone /\ [Next]_vars => Alone'
  BY <1>1, AloneStep
<1>3. Alone => ThresholdsKept
  BY Kinds DEF Alone, ThresholdsKept
<1> QED
  BY <1>2, <1>3, StoreInvariance, AloneInit, PTL DEF Spec

(* The handlers implement DeviceStore: whatever requests come together, each *)
(* that is answered with success takes effect once, whole and in one step,   *)
(* and one that fails has no effect, statement by statement as they run.     *)
THEOREM RequestsAreAtomic == Spec => StoreSpec
<1>1. Inv => Types
  BY DEF Inv
<1>2. Inv /\ Local /\ (Lone => Alone) /\ [Next]_vars => (Lone => Alone)'
  <2>1. Lone' <=> Lone
    BY DEF Lone, Refused
  <2>. QED  BY <1>1, <2>1, AloneStep
<1>3. Spec => [](Inv /\ Local /\ Whole /\ Begun /\ (Lone => Alone))
  BY <1>2, StoreInvariance, BegunInit, BegunStep, AloneInit, PTL DEF Spec
<1>. QED
  BY <1>3, StoreInit, StoreStep, PTL DEF Spec, StoreSpec, Store!Spec
=============================================================================
