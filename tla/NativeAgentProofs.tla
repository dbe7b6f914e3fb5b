------------------------- MODULE NativeAgentProofs -------------------------
(***************************************************************************)
(* Proofs about NativeAgent for every queue size, every number of samples  *)
(* and faults and every set of refused samples: the types, the order and   *)
(* the bound of the queue file, how often a sample is stored, and that the *)
(* agent keeps the promise of ReportDelivery.                              *)
(***************************************************************************)
EXTENDS NativeAgent, FiniteSetTheorems, TLAPS

-----------------------------------------------------------------------------
\* The program counter determines which variables of Once are in use.
Control ==
    /\ req # "none" => Posting
    /\ (pc = "upload" /\ req # "none") => acked < Len(rows)
    /\ (cur # NoSample) <=> (pc \in {"post", "add"})
    /\ cur # NoSample => cur = next
    /\ IF pc \in {"upload", "replace"} THEN rows = queue
       ELSE rows = <<>> /\ acked = 0

\* The queue is sorted, and older than the sample in hand.
Order ==
    /\ QueueInOrder
    /\ \A i \in 1..Len(queue) : queue[i] <= next
    /\ cur # NoSample => \A i \in 1..Len(queue) : queue[i] < cur
    /\ \A r \in late : r.sample <= next

\* What the agent counts as acknowledged is stored.
Acknowledged ==
    /\ \A i \in 1..acked : copies[rows[i]] > 0
    /\ req = "applied" => copies[Outgoing] > 0

-----------------------------------------------------------------------------
\* What a stored sample does to the numbers of copies.
LEMMA OneMore ==
    ASSUME copies \in [Samples -> Nat], NEW s \in Samples,
           copies' = [copies EXCEPT ![s] = @ + 1]
    PROVE  /\ copies' \in [Samples -> Nat] /\ copies'[s] > 0
           /\ \A x \in Samples : copies'[x] >= copies[x]
  OBVIOUS

\* Add's trim keeps a suffix of the lines, of at most MaximumRecords.
LEMMA NewestIsSuffix ==
    ASSUME NEW S, NEW q \in Seq(S)
    PROVE  /\ Newest(q) \in Seq(S)
           /\ Len(Newest(q)) <= MaximumRecords
           /\ Len(Newest(q)) <= Len(q)
           /\ \A i \in 1..Len(Newest(q)) :
                  /\ i + (Len(q) - Len(Newest(q))) \in 1..Len(q)
                  /\ Newest(q)[i] = q[i + (Len(q) - Len(Newest(q)))]
<1> USE ConstantsAssumption
<1>1. CASE Len(q) > MaximumRecords
  <2>1. Newest(q) = SubSeq(q, Len(q) - MaximumRecords + 1, Len(q))
    BY <1>1 DEF Newest
  <2>2. Len(q) \in Nat /\ Len(Newest(q)) = MaximumRecords
    BY <1>1, <2>1
  <2>3. QED
    BY <1>1, <2>1, <2>2
<1>2. CASE ~(Len(q) > MaximumRecords)
  BY <1>2 DEF Newest
<1>3. QED
  BY <1>1, <1>2

LEMMA NewestInOrder ==
    ASSUME NEW q \in Seq(Samples), Ascending(q), NEW n \in Nat,
           \A i \in 1..Len(q) : q[i] <= n
    PROVE  Ascending(Newest(q)) /\ \A i \in 1..Len(Newest(q)) : Newest(q)[i] <= n
<1> DEFINE d == Len(q) - Len(Newest(q))
<1>1. /\ d \in Nat /\ Len(Newest(q)) \in Nat
      /\ \A i \in 1..Len(Newest(q)) : i + d \in 1..Len(q) /\ Newest(q)[i] = q[i + d]
  BY NewestIsSuffix
<1> HIDE DEF d
<1>2. QED
  BY <1>1 DEF Ascending

LEMMA NewestOfSamples ==
    ASSUME NEW q \in Seq(Samples), Ascending(q), NEW n \in Nat,
           \A i \in 1..Len(q) : q[i] <= n
    PROVE  /\ Ascending(Newest(q)) /\ Len(Newest(q)) <= MaximumRecords
           /\ \A i \in 1..Len(Newest(q)) : Newest(q)[i] <= n
  BY NewestIsSuffix, NewestInOrder

LEMMA AppendInOrder ==
    ASSUME NEW q \in Seq(Samples), Ascending(q), NEW s \in Samples,
           \A i \in 1..Len(q) : q[i] < s
    PROVE  /\ Append(q, s) \in Seq(Samples)
           /\ Ascending(Append(q, s))
           /\ \A i \in 1..Len(Append(q, s)) : Append(q, s)[i] <= s
<1> USE ConstantsAssumption
<1>1. /\ Append(q, s) \in Seq(Samples) /\ Len(Append(q, s)) = Len(q) + 1
      /\ \A i \in 1..Len(q) : Append(q, s)[i] = q[i]
      /\ Append(q, s)[Len(q) + 1] = s
  OBVIOUS
<1>2. Len(q) \in Nat /\ s \in Nat /\ \A i \in 1..Len(q) : q[i] \in Nat
  BY DEF Samples
<1>3. \A i \in 1..Len(Append(q, s)) : i \in 1..Len(q) \/ i = Len(q) + 1
  BY <1>1, <1>2
<1>4. \A i \in 1..Len(Append(q, s)) : Append(q, s)[i] <= s
  BY <1>1, <1>2, <1>3
<1>5. Ascending(Append(q, s))
  BY <1>1, <1>2, <1>3 DEF Ascending
<1>6. QED
  BY <1>1, <1>4, <1>5

LEMMA OutgoingIsSample ==
    ASSUME TypeOK, Control, Posting, pc = "upload" => acked < Len(rows)
    PROVE  Outgoing \in Samples
  BY DEF TypeOK, Control, Posting, Outgoing

LEMMA GiveUpTypes ==
    ASSUME TypeOK, Outgoing \in Samples, GiveUp
    PROVE  /\ late' \subseteq [n : 0..MaxFaults, sample : Samples]
           /\ req' = "none"
<1>1. [n |-> faults, sample |-> Outgoing] \in [n : 0..MaxFaults, sample : Samples]
  BY DEF TypeOK
<1>2. QED
  BY <1>1 DEF GiveUp, TypeOK

-----------------------------------------------------------------------------
\* Every step keeps the types.
LEMMA TypeStep == TypeOK /\ Control /\ [Next]_vars => TypeOK'
<1> SUFFICES ASSUME TypeOK, Control, [Next]_vars PROVE TypeOK'
  OBVIOUS
<1> USE ConstantsAssumption
<1>1. ASSUME Start PROVE TypeOK'
  BY <1>1 DEF Start, agentVars, netVars, serverVars, TypeOK, PCs, Samples,
     NoSample
<1>2. ASSUME Tick PROVE TypeOK'
  BY <1>2 DEF Tick, agentVars, netVars, serverVars, TypeOK, PCs, Samples,
     NoSample
<1>3. ASSUME ReadQueue PROVE TypeOK'
  BY <1>3 DEF ReadQueue, agentVars, netVars, serverVars, TypeOK, PCs, Samples,
     NoSample
<1>4. ASSUME SendRequest PROVE TypeOK'
  BY <1>4 DEF SendRequest, Posting, agentVars, netVars, serverVars, TypeOK,
     PCs, Samples, NoSample
<1>5. ASSUME RowAcked PROVE TypeOK'
  BY <1>5 DEF RowAcked, Control, agentVars, netVars, serverVars, TypeOK
<1>6. ASSUME SampleAcked PROVE TypeOK'
  BY <1>6 DEF SampleAcked, agentVars, netVars, serverVars, TypeOK, PCs,
     Samples, NoSample
<1>7. ASSUME PostRefused PROVE TypeOK'
  BY <1>7 DEF PostRefused, PostFails, Posting, agentVars, netVars, serverVars,
     TypeOK, PCs, Samples, NoSample
<1>8. ASSUME UploadDone PROVE TypeOK'
  BY <1>8 DEF UploadDone, agentVars, netVars, serverVars, TypeOK, PCs,
     Samples, NoSample
<1>9. ASSUME ReplaceQueue PROVE TypeOK'
  <2>1. queue' \in Seq(Samples)
    BY <1>9 DEF ReplaceQueue, TypeOK
  <2>2. rows' = <<>> /\ acked' = 0 /\ pc' = "inventory"
    BY <1>9 DEF ReplaceQueue, EndFlush
  <2>3. QED
    BY <1>9, <2>1, <2>2 DEF ReplaceQueue, netVars, serverVars, TypeOK, PCs
<1>10. ASSUME SendInventory PROVE TypeOK'
  BY <1>10 DEF SendInventory, agentVars, netVars, serverVars, TypeOK, PCs,
     Samples, NoSample
<1>11. ASSUME GetConfig PROVE TypeOK'
  BY <1>11 DEF GetConfig, agentVars, netVars, serverVars, TypeOK, PCs,
     Samples, NoSample
<1>12. ASSUME Collect PROVE TypeOK'
  BY <1>12 DEF Collect, agentVars, netVars, serverVars, TypeOK, PCs, Samples,
     NoSample
<1>13. ASSUME CollectFails PROVE TypeOK'
  BY <1>13 DEF CollectFails, agentVars, netVars, serverVars, TypeOK, PCs,
     Samples, NoSample
<1>14. ASSUME AddToQueue PROVE TypeOK'
  <2>1. cur \in Samples
    BY <1>14 DEF AddToQueue, TypeOK, Control
  <2>2. Append(queue, cur) \in Seq(Samples)
    BY <2>1 DEF TypeOK
  <2>3. queue' \in Seq(Samples)
    BY <1>14, <2>2, NewestIsSuffix DEF AddToQueue
  <2>4. QED
    BY <1>14, <2>3 DEF AddToQueue, netVars, serverVars, TypeOK, PCs
<1>15. ASSUME ReadQueueFails PROVE TypeOK'
  BY <1>15 DEF ReadQueueFails, Fault, agentVars, netVars, serverVars, TypeOK,
     PCs, Samples, NoSample
<1>16. ASSUME PostTimesOut PROVE TypeOK'
  <2>1. Outgoing \in Samples
    BY <1>16, OutgoingIsSample DEF PostTimesOut, PostFails, Control
  <2>2. late' \subseteq [n : 0..MaxFaults, sample : Samples] /\ req' = "none"
    BY <1>16, <2>1, GiveUpTypes DEF PostTimesOut
  <2>3. QED
    BY <1>16, <2>2 DEF PostTimesOut, PostFails, Fault, serverVars, TypeOK, PCs
<1>17. ASSUME ReplaceQueueFails PROVE TypeOK'
  BY <1>17 DEF ReplaceQueueFails, EndFlush, Fault, agentVars, netVars,
     serverVars, TypeOK, PCs, Samples, NoSample
<1>18. ASSUME SendInventoryFails PROVE TypeOK'
  <2>1. listed' \in BOOLEAN
    BY <1>18, Zenon DEF SendInventoryFails, TypeOK
  <2>2. QED
    BY <1>18, <2>1 DEF SendInventoryFails, Fault, netVars, TypeOK, PCs
<1>19. ASSUME GetConfigFails PROVE TypeOK'
  BY <1>19 DEF GetConfigFails, Fault, agentVars, netVars, serverVars, TypeOK,
     PCs, Samples, NoSample
<1>20. ASSUME AddUnread PROVE TypeOK'
  <2>1. cur \in Samples
    BY <1>20 DEF AddUnread, TypeOK, Control
  <2>2. PICK k \in 0..Len(queue) : queue' = Newest(Append(SubSeq(queue, 1, k), cur))
    BY <1>20 DEF AddUnread
  <2>3. Append(SubSeq(queue, 1, k), cur) \in Seq(Samples)
    BY <2>1 DEF TypeOK
  <2>4. queue' \in Seq(Samples)
    BY <2>2, <2>3, NewestIsSuffix
  <2>5. QED
    BY <1>20, <2>4 DEF AddUnread, Fault, netVars, serverVars, TypeOK, PCs
<1>21. ASSUME AddFails PROVE TypeOK'
  BY <1>21 DEF AddFails, Fault, agentVars, netVars, serverVars, TypeOK, PCs,
     Samples, NoSample
<1>22. ASSUME Crash PROVE TypeOK'
  <2>1. late' \subseteq [n : 0..MaxFaults, sample : Samples]
        /\ req' \in {"none", "sent", "applied", "refused"}
    <3>1. CASE Posting /\ req = "sent"
      <4>1. Outgoing \in Samples
        BY <3>1, OutgoingIsSample DEF Control
      <4>2. QED
        BY <1>22, <3>1, <4>1, GiveUpTypes DEF Crash
    <3>2. CASE Posting /\ req # "sent"
      BY <1>22, <3>2 DEF Crash, GiveUp, TypeOK
    <3>3. CASE ~Posting
      BY <1>22, <3>3 DEF Crash, TypeOK
    <3>4. QED
      BY <3>1, <3>2, <3>3
  <2>2. QED
    BY <1>22, <2>1 DEF Crash, Fault, serverVars, TypeOK, PCs
<1>23. ASSUME ServerIngest PROVE TypeOK'
  <2>1. Outgoing \in Samples
    BY <1>23, OutgoingIsSample DEF ServerIngest, Control
  <2>2. req' \in {"refused", "applied"}
        /\ copies' \in [Samples -> Nat] /\ listed' = listed
    <3>1. CASE Outgoing \in Rejected
      BY <1>23, <3>1 DEF ServerIngest, serverVars, TypeOK
    <3>2. CASE Outgoing \notin Rejected
      <4>1. /\ copies' = [copies EXCEPT ![Outgoing] = @ + 1]
            /\ listed' = listed /\ req' = "applied"
        BY <1>23, <3>2, Zenon DEF ServerIngest, Ingest
      <4>2. copies \in [Samples -> Nat]
        BY DEF TypeOK
      <4>3. copies' \in [Samples -> Nat]
        BY <2>1, <4>1, <4>2, OneMore
      <4>4. QED
        BY <2>1, <4>1, <4>3
    <3>3. QED
      BY <3>1, <3>2
  <2>3. QED
    BY <1>23, <2>2 DEF ServerIngest, agentVars, TypeOK
<1>24. ASSUME ServerUp PROVE TypeOK'
  BY <1>24 DEF ServerUp, agentVars, netVars, serverVars, TypeOK, PCs, Samples,
     NoSample
<1>25. ASSUME ServerDown PROVE TypeOK'
  <2>1. up' \in BOOLEAN
    BY <1>25, Zenon DEF ServerDown
  <2>2. faults' \in 0..MaxFaults
    BY <1>25 DEF ServerDown, Fault, TypeOK
  <2>3. QED
    BY <1>25, <2>1, <2>2 DEF ServerDown, agentVars, serverVars, TypeOK
<1>26. ASSUME DayPasses PROVE TypeOK'
  BY <1>26 DEF DayPasses, agentVars, netVars, serverVars, TypeOK, PCs,
     Samples, NoSample
<1>27. ASSUME Stop PROVE TypeOK'
  BY <1>27 DEF Stop, agentVars, netVars, serverVars, TypeOK, PCs, Samples,
     NoSample
<1>28. ASSUME NEW r \in late, ServerIngestLate(r) PROVE TypeOK'
  <2>1. r.sample \in Samples /\ late' \subseteq late
    BY <1>28 DEF ServerIngestLate, TypeOK
  <2>2. copies' \in [Samples -> Nat] /\ listed' = listed
    <3>1. CASE r.sample \in Rejected
      BY <1>28, <3>1 DEF ServerIngestLate, serverVars, TypeOK
    <3>2. CASE r.sample \notin Rejected
      <4>1. /\ copies' = [copies EXCEPT ![r.sample] = @ + 1]
            /\ listed' = listed
        BY <1>28, <3>2, Zenon DEF ServerIngestLate, Ingest
      <4>2. copies \in [Samples -> Nat]
        BY DEF TypeOK
      <4>3. copies' \in [Samples -> Nat]
        BY <2>1, <4>1, <4>2, OneMore
      <4>4. QED
        BY <2>1, <4>1, <4>3
    <3>3. QED
      BY <3>1, <3>2
  <2>3. QED
    BY <1>28, <2>1, <2>2 DEF ServerIngestLate, agentVars, TypeOK
<1>29. CASE UNCHANGED vars
  BY <1>29 DEF vars, agentVars, netVars, serverVars, TypeOK, PCs, Samples,
     NoSample
<1>30. QED
  BY <1>1, <1>2, <1>3, <1>4, <1>5, <1>6, <1>7, <1>8, <1>9, <1>10, <1>11,
     <1>12, <1>13, <1>14, <1>15, <1>16, <1>17, <1>18, <1>19, <1>20, <1>21,
     <1>22, <1>23, <1>24, <1>25, <1>26, <1>27, <1>28, <1>29
  DEF Next, AgentStep, AgentFault, ServerStep

LEMMA ControlStep == TypeOK /\ Control /\ [Next]_vars => Control'
<1> SUFFICES ASSUME TypeOK, Control, [Next]_vars PROVE Control'
  OBVIOUS
<1>1. ASSUME Start PROVE Control'
  BY <1>1 DEF Start, agentVars, netVars, serverVars, TypeOK, Control, Posting,
     PCs, Samples, NoSample
<1>2. ASSUME Tick PROVE Control'
  BY <1>2 DEF Tick, agentVars, netVars, serverVars, TypeOK, Control, Posting,
     PCs, Samples, NoSample
<1>3. ASSUME ReadQueue PROVE Control'
  BY <1>3 DEF ReadQueue, agentVars, netVars, serverVars, TypeOK, Control,
     Posting, PCs, Samples, NoSample
<1>4. ASSUME SendRequest PROVE Control'
  BY <1>4 DEF SendRequest, Posting, agentVars, netVars, serverVars, TypeOK,
     Control, Posting, PCs, Samples, NoSample
<1>5. ASSUME RowAcked PROVE Control'
  BY <1>5 DEF RowAcked, agentVars, netVars, serverVars, TypeOK, Control,
     Posting, PCs, Samples, NoSample
<1>6. ASSUME SampleAcked PROVE Control'
  BY <1>6 DEF SampleAcked, agentVars, netVars, serverVars, TypeOK, Control,
     Posting, PCs, Samples, NoSample
<1>7. ASSUME PostRefused PROVE Control'
  BY <1>7 DEF PostRefused, PostFails, Posting, agentVars, netVars, serverVars,
     TypeOK, Control, Posting, PCs, Samples, NoSample
<1>8. ASSUME UploadDone PROVE Control'
  BY <1>8 DEF UploadDone, agentVars, netVars, serverVars, TypeOK, Control,
     Posting, PCs, Samples, NoSample
<1>9. ASSUME ReplaceQueue PROVE Control'
  BY <1>9 DEF ReplaceQueue, EndFlush, agentVars, netVars, serverVars, TypeOK,
     Control, Posting, PCs, Samples, NoSample
<1>10. ASSUME SendInventory PROVE Control'
  BY <1>10 DEF SendInventory, agentVars, netVars, serverVars, TypeOK, Control,
     Posting, PCs, Samples, NoSample
<1>11. ASSUME GetConfig PROVE Control'
  BY <1>11 DEF GetConfig, agentVars, netVars, serverVars, TypeOK, Control,
     Posting, PCs, Samples, NoSample
<1>12. ASSUME Collect PROVE Control'
  BY <1>12 DEF Collect, agentVars, netVars, serverVars, TypeOK, Control,
     Posting, PCs, Samples, NoSample
<1>13. ASSUME CollectFails PROVE Control'
  BY <1>13 DEF CollectFails, agentVars, netVars, serverVars, TypeOK, Control,
     Posting, PCs, Samples, NoSample
<1>14. ASSUME AddToQueue PROVE Control'
  BY <1>14 DEF AddToQueue, agentVars, netVars, serverVars, TypeOK, Control,
     Posting, PCs, Samples, NoSample
<1>15. ASSUME ReadQueueFails PROVE Control'
  BY <1>15 DEF ReadQueueFails, Fault, agentVars, netVars, serverVars, TypeOK,
     Control, Posting, PCs, Samples, NoSample
<1>16. ASSUME PostTimesOut PROVE Control'
  BY <1>16 DEF PostTimesOut, PostFails, Posting, GiveUp, Outgoing, Fault,
     agentVars, netVars, serverVars, TypeOK, Control, Posting, PCs, Samples,
     NoSample
<1>17. ASSUME ReplaceQueueFails PROVE Control'
  BY <1>17 DEF ReplaceQueueFails, EndFlush, Fault, agentVars, netVars,
     serverVars, TypeOK, Control, Posting, PCs, Samples, NoSample
<1>18. ASSUME SendInventoryFails PROVE Control'
  BY <1>18 DEF SendInventoryFails, Fault, agentVars, netVars, serverVars,
     TypeOK, Control, Posting, PCs, Samples, NoSample
<1>19. ASSUME GetConfigFails PROVE Control'
  BY <1>19 DEF GetConfigFails, Fault, agentVars, netVars, serverVars, TypeOK,
     Control, Posting, PCs, Samples, NoSample
<1>20. ASSUME AddUnread PROVE Control'
  BY <1>20 DEF AddUnread, Fault, agentVars, netVars, serverVars, TypeOK,
     Control, Posting, PCs, Samples, NoSample
<1>21. ASSUME AddFails PROVE Control'
  BY <1>21 DEF AddFails, Fault, agentVars, netVars, serverVars, TypeOK,
     Control, Posting, PCs, Samples, NoSample
<1>22. ASSUME Crash PROVE Control'
  BY <1>22 DEF Crash, GiveUp, Posting, Outgoing, Fault, agentVars, netVars,
     serverVars, TypeOK, Control, Posting, PCs, Samples, NoSample
<1>23. ASSUME ServerIngest PROVE Control'
  BY <1>23 DEF ServerIngest, Ingest, Outgoing, Posting, agentVars, netVars,
     serverVars, TypeOK, Control, Posting, PCs, Samples, NoSample
<1>24. ASSUME ServerUp PROVE Control'
  BY <1>24 DEF ServerUp, agentVars, netVars, serverVars, TypeOK, Control,
     Posting, PCs, Samples, NoSample
<1>25. ASSUME ServerDown PROVE Control'
  BY <1>25 DEF ServerDown, Fault, agentVars, netVars, serverVars, TypeOK,
     Control, Posting, PCs, Samples, NoSample
<1>26. ASSUME DayPasses PROVE Control'
  BY <1>26 DEF DayPasses, agentVars, netVars, serverVars, TypeOK, Control,
     Posting, PCs, Samples, NoSample
<1>27. ASSUME Stop PROVE Control'
  BY <1>27 DEF Stop, agentVars, netVars, serverVars, TypeOK, Control, Posting,
     PCs, Samples, NoSample
<1>28. ASSUME NEW r \in late, ServerIngestLate(r) PROVE Control'
  BY <1>28 DEF ServerIngestLate, Ingest, agentVars, netVars, serverVars,
     TypeOK, Control, Posting, PCs, Samples, NoSample
<1>29. CASE UNCHANGED vars
  BY <1>29 DEF vars, agentVars, netVars, serverVars, TypeOK, Control, Posting,
     PCs, Samples, NoSample
<1>30. QED
  BY <1>1, <1>2, <1>3, <1>4, <1>5, <1>6, <1>7, <1>8, <1>9, <1>10, <1>11,
     <1>12, <1>13, <1>14, <1>15, <1>16, <1>17, <1>18, <1>19, <1>20, <1>21,
     <1>22, <1>23, <1>24, <1>25, <1>26, <1>27, <1>28, <1>29
  DEF Next, AgentStep, AgentFault, ServerStep

LEMMA OutgoingIsOld ==
    ASSUME TypeOK, Control, Order, Posting, pc = "upload" => acked < Len(rows)
    PROVE  Outgoing <= next
  BY DEF TypeOK, Control, Order, Posting, Outgoing

LEMMA GiveUpAge ==
    ASSUME TypeOK, Outgoing <= next, GiveUp, \A r \in late : r.sample <= next
    PROVE  \A r \in late' : r.sample <= next
  BY DEF GiveUp

\* Every step keeps the queue sorted and bounded.
LEMMA OrderStep == TypeOK /\ Control /\ Order /\ [Next]_vars => Order'
<1> SUFFICES ASSUME TypeOK, Control, Order, [Next]_vars PROVE Order'
  OBVIOUS
<1> USE ConstantsAssumption
<1>1. ASSUME Start PROVE Order'
  BY <1>1 DEF Start, agentVars, netVars, serverVars, Order, QueueInOrder,
     Ascending, NoSample
<1>2. ASSUME Tick PROVE Order'
  BY <1>2 DEF Tick, agentVars, netVars, serverVars, Order, QueueInOrder,
     Ascending, NoSample
<1>3. ASSUME ReadQueue PROVE Order'
  BY <1>3 DEF ReadQueue, agentVars, netVars, serverVars, Order, QueueInOrder,
     Ascending, NoSample
<1>4. ASSUME SendRequest PROVE Order'
  BY <1>4 DEF SendRequest, Posting, agentVars, netVars, serverVars, Order,
     QueueInOrder, Ascending, NoSample
<1>5. ASSUME RowAcked PROVE Order'
  BY <1>5 DEF RowAcked, agentVars, netVars, serverVars, Order, QueueInOrder,
     Ascending, NoSample
<1>6. ASSUME SampleAcked PROVE Order'
  BY <1>6 DEF SampleAcked, agentVars, netVars, serverVars, Order,
     QueueInOrder, Ascending, NoSample
<1>7. ASSUME PostRefused PROVE Order'
  BY <1>7 DEF PostRefused, PostFails, Posting, agentVars, netVars, serverVars,
     Order, QueueInOrder, Ascending, NoSample
<1>8. ASSUME UploadDone PROVE Order'
  BY <1>8 DEF UploadDone, agentVars, netVars, serverVars, Order, QueueInOrder,
     Ascending, NoSample
<1>9. ASSUME ReplaceQueue PROVE Order'
  <2>1. CASE acked > 0
    <3>1. queue' = SubSeq(queue, acked + 1, Len(queue)) /\ next' = next /\ cur' = cur
          /\ late' = late
      BY <1>9, <2>1 DEF ReplaceQueue, Control, netVars
    <3>2. acked \in 0..Len(queue) /\ cur = NoSample
      BY <1>9 DEF ReplaceQueue, Control, TypeOK
    <3>3. /\ Len(queue') = Len(queue) - acked
          /\ \A i \in 1..Len(queue') : queue'[i] = queue[acked + i]
      <4>1. queue \in Seq(Samples) /\ Len(queue) \in Nat /\ acked \in Nat
        BY <3>2 DEF TypeOK
      <4>2. Len(queue') = Len(queue) - acked
        BY <3>1, <3>2, <4>1
      <4>3. QED
        BY <3>1, <3>2, <4>1, <4>2, SMTT(30)
    <3>4. Len(queue') <= MaximumRecords
      BY <3>2, <3>3 DEF Order, QueueInOrder, TypeOK
    <3>5. Ascending(queue')
      <4>1. SUFFICES ASSUME NEW i \in 1..Len(queue'), NEW j \in 1..Len(queue'), i < j
                     PROVE  queue'[i] < queue'[j]
        BY DEF Ascending
      <4>2. /\ acked + i \in 1..Len(queue) /\ acked + j \in 1..Len(queue)
            /\ acked + i < acked + j
        BY <3>2, <3>3, <4>1 DEF TypeOK
      <4>3. queue[acked + i] < queue[acked + j]
        BY <4>2 DEF Order, QueueInOrder, Ascending
      <4>4. QED
        BY <3>3, <4>3
    <3>6. QED
      BY <3>1, <3>2, <3>3, <3>4, <3>5 DEF Order, QueueInOrder, TypeOK
  <2>2. CASE ~(acked > 0)
    BY <1>9, <2>2 DEF ReplaceQueue, netVars, Order, QueueInOrder, Ascending
  <2>3. QED
    BY <2>1, <2>2
<1>10. ASSUME SendInventory PROVE Order'
  BY <1>10 DEF SendInventory, agentVars, netVars, serverVars, Order,
     QueueInOrder, Ascending, NoSample
<1>11. ASSUME GetConfig PROVE Order'
  BY <1>11 DEF GetConfig, agentVars, netVars, serverVars, Order, QueueInOrder,
     Ascending, NoSample
<1>12. ASSUME Collect PROVE Order'
  <2>1. /\ queue' = queue /\ late' = late /\ next' = next + 1 /\ cur' = next + 1
        /\ next \in Nat
    BY <1>12 DEF Collect, netVars, TypeOK
  <2>2. /\ \A i \in 1..Len(queue) : queue[i] \in Nat /\ queue[i] <= next
        /\ \A r \in late : r.sample \in Nat /\ r.sample <= next
    <3>1. Samples \subseteq Nat
      BY DEF Samples
    <3>2. \A r \in late : r.sample \in Samples
      BY DEF TypeOK
    <3>3. \A i \in 1..Len(queue) : queue[i] \in Samples
      BY DEF TypeOK
    <3>4. QED
      BY <3>1, <3>2, <3>3 DEF Order
  <2>3. QED
    BY <2>1, <2>2 DEF Order, QueueInOrder
<1>13. ASSUME CollectFails PROVE Order'
  BY <1>13 DEF CollectFails, agentVars, netVars, serverVars, Order,
     QueueInOrder, Ascending, NoSample
<1>14. ASSUME AddToQueue PROVE Order'
  <2>1. /\ cur \in Samples /\ cur \in Nat /\ cur = next
        /\ \A i \in 1..Len(queue) : queue[i] < cur
    BY <1>14 DEF AddToQueue, TypeOK, Control, Order, Samples
  <2>2. /\ Ascending(Append(queue, cur)) /\ Append(queue, cur) \in Seq(Samples)
        /\ \A i \in 1..Len(Append(queue, cur)) : Append(queue, cur)[i] <= cur
    BY <2>1, AppendInOrder DEF Order, QueueInOrder, TypeOK
  <2>3. /\ Ascending(queue') /\ Len(queue') <= MaximumRecords
        /\ \A i \in 1..Len(queue') : queue'[i] <= cur
    <3> DEFINE a == Append(queue, cur)
    <3>1. queue' = Newest(a)
      BY <1>14 DEF AddToQueue
    <3>2. a \in Seq(Samples) /\ Ascending(a) /\ \A i \in 1..Len(a) : a[i] <= cur
      BY <2>2
    <3> HIDE DEF a
    <3>3. QED
      BY <2>1, <3>1, <3>2, NewestOfSamples
  <2>4. next' = next /\ cur' = NoSample /\ late' = late
    BY <1>14 DEF AddToQueue, netVars
  <2>5. QED
    BY <2>1, <2>3, <2>4 DEF Order, QueueInOrder
<1>15. ASSUME ReadQueueFails PROVE Order'
  BY <1>15 DEF ReadQueueFails, Fault, agentVars, netVars, serverVars, Order,
     QueueInOrder, Ascending, NoSample
<1>16. ASSUME PostTimesOut PROVE Order'
  <2>1. Outgoing <= next
    BY <1>16, OutgoingIsOld DEF PostTimesOut, PostFails, Control
  <2>2. \A r \in late' : r.sample <= next
    BY <1>16, <2>1, GiveUpAge DEF PostTimesOut, Order
  <2>3. QED
    BY <1>16, <2>2 DEF PostTimesOut, PostFails, Order, QueueInOrder, Ascending
<1>17. ASSUME ReplaceQueueFails PROVE Order'
  BY <1>17 DEF ReplaceQueueFails, EndFlush, Fault, agentVars, netVars,
     serverVars, Order, QueueInOrder, Ascending, NoSample
<1>18. ASSUME SendInventoryFails PROVE Order'
  BY <1>18 DEF SendInventoryFails, Fault, agentVars, netVars, serverVars,
     Order, QueueInOrder, Ascending, NoSample
<1>19. ASSUME GetConfigFails PROVE Order'
  BY <1>19 DEF GetConfigFails, Fault, agentVars, netVars, serverVars, Order,
     QueueInOrder, Ascending, NoSample
<1>20. ASSUME AddUnread PROVE Order'
  <2>1. /\ cur \in Samples /\ cur \in Nat /\ cur = next
        /\ \A i \in 1..Len(queue) : queue[i] < cur
    BY <1>20 DEF AddUnread, TypeOK, Control, Order, Samples
  <2>2. PICK k \in 0..Len(queue) : queue' = Newest(Append(SubSeq(queue, 1, k), cur))
    BY <1>20 DEF AddUnread
  <2> DEFINE q == SubSeq(queue, 1, k)
  <2>3. /\ q \in Seq(Samples) /\ Len(q) = k
        /\ \A i \in 1..k : q[i] = queue[i]
    BY DEF TypeOK
  <2> HIDE DEF q
  <2>4. Ascending(q) /\ \A i \in 1..Len(q) : q[i] < cur
    <3>1. 1..k \subseteq 1..Len(queue) /\ Ascending(queue)
      BY DEF Order, QueueInOrder, TypeOK
    <3>2. Ascending(q)
      BY <2>3, <3>1 DEF Ascending
    <3>3. QED
      BY <2>1, <2>3, <3>1, <3>2
  <2>5. /\ Ascending(Append(q, cur)) /\ Append(q, cur) \in Seq(Samples)
        /\ \A i \in 1..Len(Append(q, cur)) : Append(q, cur)[i] <= cur
    BY <2>1, <2>3, <2>4, AppendInOrder
  <2>6. /\ Ascending(queue') /\ Len(queue') <= MaximumRecords
        /\ \A i \in 1..Len(queue') : queue'[i] <= cur
    <3> DEFINE a == Append(q, cur)
    <3>1. queue' = Newest(a)
      BY <2>2 DEF q
    <3>2. a \in Seq(Samples) /\ Ascending(a) /\ \A i \in 1..Len(a) : a[i] <= cur
      BY <2>5
    <3> HIDE DEF a
    <3>3. QED
      BY <2>1, <3>1, <3>2, NewestOfSamples
  <2>7. next' = next /\ cur' = NoSample /\ late' = late
    BY <1>20 DEF AddUnread, netVars
  <2>8. QED
    BY <2>1, <2>6, <2>7 DEF Order, QueueInOrder
<1>21. ASSUME AddFails PROVE Order'
  BY <1>21 DEF AddFails, Fault, agentVars, netVars, serverVars, Order,
     QueueInOrder, Ascending, NoSample
<1>22. ASSUME Crash PROVE Order'
  <2>1. \A r \in late' : r.sample <= next
    <3>1. CASE Posting /\ req = "sent"
      <4>1. Outgoing <= next
        BY <3>1, OutgoingIsOld DEF Control
      <4>2. QED
        BY <1>22, <3>1, <4>1, GiveUpAge DEF Crash, Order
    <3>2. CASE ~(Posting /\ req = "sent")
      BY <1>22, <3>2 DEF Crash, GiveUp, Order
    <3>3. QED
      BY <3>1, <3>2
  <2>2. QED
    BY <1>22, <2>1 DEF Crash, Order, QueueInOrder, Ascending
<1>23. ASSUME ServerIngest PROVE Order'
  BY <1>23 DEF ServerIngest, Ingest, Outgoing, Posting, agentVars, netVars,
     serverVars, Order, QueueInOrder, Ascending, NoSample
<1>24. ASSUME ServerUp PROVE Order'
  BY <1>24 DEF ServerUp, agentVars, netVars, serverVars, Order, QueueInOrder,
     Ascending, NoSample
<1>25. ASSUME ServerDown PROVE Order'
  BY <1>25 DEF ServerDown, Fault, agentVars, netVars, serverVars, Order,
     QueueInOrder, Ascending, NoSample
<1>26. ASSUME DayPasses PROVE Order'
  BY <1>26 DEF DayPasses, agentVars, netVars, serverVars, Order, QueueInOrder,
     Ascending, NoSample
<1>27. ASSUME Stop PROVE Order'
  BY <1>27 DEF Stop, agentVars, netVars, serverVars, Order, QueueInOrder,
     Ascending, NoSample
<1>28. ASSUME NEW r \in late, ServerIngestLate(r) PROVE Order'
  BY <1>28 DEF ServerIngestLate, Ingest, agentVars, netVars, serverVars,
     Order, QueueInOrder, Ascending, NoSample
<1>29. CASE UNCHANGED vars
  BY <1>29 DEF vars, agentVars, netVars, serverVars, Order, QueueInOrder,
     Ascending, NoSample
<1>30. QED
  BY <1>1, <1>2, <1>3, <1>4, <1>5, <1>6, <1>7, <1>8, <1>9, <1>10, <1>11,
     <1>12, <1>13, <1>14, <1>15, <1>16, <1>17, <1>18, <1>19, <1>20, <1>21,
     <1>22, <1>23, <1>24, <1>25, <1>26, <1>27, <1>28, <1>29
  DEF Next, AgentStep, AgentFault, ServerStep

\* Every step keeps what is acknowledged stored.
LEMMA AcknowledgedStep ==
    TypeOK /\ Control /\ Acknowledged /\ [Next]_vars => Acknowledged'
<1> SUFFICES ASSUME TypeOK, Control, Acknowledged, [Next]_vars PROVE Acknowledged'
  OBVIOUS
<1>1. ASSUME Start PROVE Acknowledged'
  BY <1>1 DEF Start, agentVars, netVars, serverVars, TypeOK, Control,
     Acknowledged, Outgoing, Posting
<1>2. ASSUME Tick PROVE Acknowledged'
  BY <1>2 DEF Tick, agentVars, netVars, serverVars, TypeOK, Control,
     Acknowledged, Outgoing, Posting
<1>3. ASSUME ReadQueue PROVE Acknowledged'
  BY <1>3 DEF ReadQueue, agentVars, netVars, serverVars, TypeOK, Control,
     Acknowledged, Outgoing, Posting
<1>4. ASSUME SendRequest PROVE Acknowledged'
  BY <1>4 DEF SendRequest, Posting, agentVars, netVars, serverVars, TypeOK,
     Control, Acknowledged, Outgoing, Posting
<1>5. ASSUME RowAcked PROVE Acknowledged'
  BY <1>5 DEF RowAcked, serverVars, Acknowledged, Outgoing, TypeOK
<1>6. ASSUME SampleAcked PROVE Acknowledged'
  BY <1>6 DEF SampleAcked, agentVars, netVars, serverVars, TypeOK, Control,
     Acknowledged, Outgoing, Posting
<1>7. ASSUME PostRefused PROVE Acknowledged'
  BY <1>7 DEF PostRefused, PostFails, Posting, agentVars, netVars, serverVars,
     TypeOK, Control, Acknowledged, Outgoing, Posting
<1>8. ASSUME UploadDone PROVE Acknowledged'
  BY <1>8 DEF UploadDone, agentVars, netVars, serverVars, TypeOK, Control,
     Acknowledged, Outgoing, Posting
<1>9. ASSUME ReplaceQueue PROVE Acknowledged'
  BY <1>9 DEF ReplaceQueue, EndFlush, agentVars, netVars, serverVars, TypeOK,
     Control, Acknowledged, Outgoing, Posting
<1>10. ASSUME SendInventory PROVE Acknowledged'
  BY <1>10 DEF SendInventory, agentVars, netVars, serverVars, TypeOK, Control,
     Acknowledged, Outgoing, Posting
<1>11. ASSUME GetConfig PROVE Acknowledged'
  BY <1>11 DEF GetConfig, agentVars, netVars, serverVars, TypeOK, Control,
     Acknowledged, Outgoing, Posting
<1>12. ASSUME Collect PROVE Acknowledged'
  BY <1>12 DEF Collect, agentVars, netVars, serverVars, TypeOK, Control,
     Acknowledged, Outgoing, Posting
<1>13. ASSUME CollectFails PROVE Acknowledged'
  BY <1>13 DEF CollectFails, agentVars, netVars, serverVars, TypeOK, Control,
     Acknowledged, Outgoing, Posting
<1>14. ASSUME AddToQueue PROVE Acknowledged'
  BY <1>14 DEF AddToQueue, agentVars, netVars, serverVars, TypeOK, Control,
     Acknowledged, Outgoing, Posting
<1>15. ASSUME ReadQueueFails PROVE Acknowledged'
  BY <1>15 DEF ReadQueueFails, Fault, agentVars, netVars, serverVars, TypeOK,
     Control, Acknowledged, Outgoing, Posting
<1>16. ASSUME PostTimesOut PROVE Acknowledged'
  BY <1>16 DEF PostTimesOut, PostFails, Posting, GiveUp, Outgoing, Fault,
     agentVars, netVars, serverVars, TypeOK, Control, Acknowledged, Outgoing,
     Posting
<1>17. ASSUME ReplaceQueueFails PROVE Acknowledged'
  BY <1>17 DEF ReplaceQueueFails, EndFlush, Fault, agentVars, netVars,
     serverVars, TypeOK, Control, Acknowledged, Outgoing, Posting
<1>18. ASSUME SendInventoryFails PROVE Acknowledged'
  BY <1>18 DEF SendInventoryFails, Fault, agentVars, netVars, serverVars,
     TypeOK, Control, Acknowledged, Outgoing, Posting
<1>19. ASSUME GetConfigFails PROVE Acknowledged'
  BY <1>19 DEF GetConfigFails, Fault, agentVars, netVars, serverVars, TypeOK,
     Control, Acknowledged, Outgoing, Posting
<1>20. ASSUME AddUnread PROVE Acknowledged'
  BY <1>20 DEF AddUnread, Fault, agentVars, netVars, serverVars, TypeOK,
     Control, Acknowledged, Outgoing, Posting
<1>21. ASSUME AddFails PROVE Acknowledged'
  BY <1>21 DEF AddFails, Fault, agentVars, netVars, serverVars, TypeOK,
     Control, Acknowledged, Outgoing, Posting
<1>22. ASSUME Crash PROVE Acknowledged'
  BY <1>22 DEF Crash, GiveUp, Posting, Outgoing, Fault, agentVars, netVars,
     serverVars, TypeOK, Control, Acknowledged, Outgoing, Posting
<1>23. ASSUME ServerIngest PROVE Acknowledged'
  <2>1. Outgoing \in Samples /\ Outgoing' = Outgoing
    BY <1>23, OutgoingIsSample DEF ServerIngest, Control, Outgoing, agentVars
  <2>2. CASE Outgoing \in Rejected
    BY <1>23, <2>2 DEF ServerIngest, agentVars, serverVars, Acknowledged
  <2>3. CASE Outgoing \notin Rejected
    <3>0. copies \in [Samples -> Nat]
      BY DEF TypeOK
    <3>1. copies' = [copies EXCEPT ![Outgoing] = @ + 1]
      BY <1>23, <2>3 DEF ServerIngest, Ingest
    <3>2. \A s \in Samples : copies'[s] >= copies[s]
      BY <2>1, <3>0, <3>1, OneMore
    <3>3. copies'[Outgoing'] > 0
      BY <2>1, <3>0, <3>1, OneMore
    <3>4. acked' = acked /\ rows' = rows /\ \A i \in 1..acked : rows[i] \in Samples
      BY <1>23 DEF ServerIngest, agentVars, TypeOK
    <3>5. copies' \in [Samples -> Nat]
      BY <2>1, <3>0, <3>1, OneMore
    <3>6. \A i \in 1..acked' : copies'[rows'[i]] > 0
      <4>1. SUFFICES ASSUME NEW i \in 1..acked PROVE copies'[rows[i]] > 0
        BY <3>4
      <4>2. rows[i] \in Samples /\ copies[rows[i]] > 0
        BY <3>4 DEF Acknowledged
      <4>3. copies[rows[i]] \in Nat /\ copies'[rows[i]] \in Nat
        BY <3>5, <4>2 DEF TypeOK
      <4>4. QED
        BY <3>2, <4>2, <4>3
    <3>7. QED
      BY <3>3, <3>6 DEF Acknowledged
  <2>4. QED
    BY <2>2, <2>3
<1>24. ASSUME ServerUp PROVE Acknowledged'
  BY <1>24 DEF ServerUp, agentVars, netVars, serverVars, TypeOK, Control,
     Acknowledged, Outgoing, Posting
<1>25. ASSUME ServerDown PROVE Acknowledged'
  BY <1>25 DEF ServerDown, Fault, agentVars, netVars, serverVars, TypeOK,
     Control, Acknowledged, Outgoing, Posting
<1>26. ASSUME DayPasses PROVE Acknowledged'
  BY <1>26 DEF DayPasses, agentVars, netVars, serverVars, TypeOK, Control,
     Acknowledged, Outgoing, Posting
<1>27. ASSUME Stop PROVE Acknowledged'
  BY <1>27 DEF Stop, agentVars, netVars, serverVars, TypeOK, Control,
     Acknowledged, Outgoing, Posting
<1>28. ASSUME NEW r \in late, ServerIngestLate(r) PROVE Acknowledged'
  <2>1. r.sample \in Samples /\ Outgoing' = Outgoing /\ req' = req
    BY <1>28 DEF ServerIngestLate, Outgoing, agentVars, TypeOK
  <2>2. CASE r.sample \in Rejected
    BY <1>28, <2>1, <2>2 DEF ServerIngestLate, agentVars, serverVars,
       Acknowledged
  <2>3. CASE r.sample \notin Rejected
    <3>0. copies \in [Samples -> Nat]
      BY DEF TypeOK
    <3>1. copies' = [copies EXCEPT ![r.sample] = @ + 1]
      BY <1>28, <2>3 DEF ServerIngestLate, Ingest
    <3>2. copies' \in [Samples -> Nat] /\ \A s \in Samples : copies'[s] >= copies[s]
      BY <2>1, <3>0, <3>1, OneMore
    <3>3. acked' = acked /\ rows' = rows /\ \A i \in 1..acked : rows[i] \in Samples
      BY <1>28 DEF ServerIngestLate, agentVars, TypeOK
    <3>4. req = "applied" => Outgoing \in Samples
      BY OutgoingIsSample DEF Control
    <3>5. \A s \in Samples : copies[s] \in Nat /\ copies'[s] \in Nat
      BY <3>2 DEF TypeOK
    <3>6. \A i \in 1..acked' : copies'[rows'[i]] > 0
      BY <3>2, <3>3, <3>5 DEF Acknowledged
    <3>7. req' = "applied" => copies'[Outgoing'] > 0
      BY <2>1, <3>2, <3>4, <3>5 DEF Acknowledged
    <3>8. QED
      BY <3>6, <3>7 DEF Acknowledged
  <2>4. QED
    BY <2>2, <2>3
<1>29. CASE UNCHANGED vars
  BY <1>29 DEF vars, agentVars, netVars, serverVars, TypeOK, Control,
     Acknowledged, Outgoing, Posting
<1>30. QED
  BY <1>1, <1>2, <1>3, <1>4, <1>5, <1>6, <1>7, <1>8, <1>9, <1>10, <1>11,
     <1>12, <1>13, <1>14, <1>15, <1>16, <1>17, <1>18, <1>19, <1>20, <1>21,
     <1>22, <1>23, <1>24, <1>25, <1>26, <1>27, <1>28, <1>29
  DEF Next, AgentStep, AgentFault, ServerStep

\* The inductive invariant: types, where each variable is in use, the order of
\* the queue and of what was read of it, and that acknowledged rows are stored.
Inv == TypeOK /\ Control /\ Order /\ Acknowledged

LEMMA InvInit == Init => Inv
<1> USE ConstantsAssumption
<1>1. Init => TypeOK
  <2> SUFFICES ASSUME Init PROVE TypeOK
    OBVIOUS
  <2>1. <<>> \in Seq(Samples) /\ Len(<<>>) = 0
    OBVIOUS
  <2>2. copies \in [Samples -> Nat]
    BY DEF Init
  <2>3. due \in BOOLEAN /\ up \in BOOLEAN /\ listed \in BOOLEAN
    BY Zenon DEF Init
  <2>4. QED
    BY <2>1, <2>2, <2>3 DEF Init, TypeOK, PCs, NoSample
<1>2. Init => Control
  BY DEF Init, Control, Posting, NoSample
<1>3. Init => Order
  BY DEF Init, Order, QueueInOrder, Ascending, NoSample
<1>4. Init => Acknowledged
  BY DEF Init, Acknowledged
<1>5. QED
  BY <1>1, <1>2, <1>3, <1>4 DEF Inv

LEMMA Invariance == Spec => []Inv
<1>1. Inv /\ [Next]_vars => Inv'
  BY TypeStep, ControlStep, OrderStep, AcknowledgedStep DEF Inv
<1>2. QED
  BY <1>1, InvInit, PTL DEF Spec

\* The type invariant of the agent, the network and the server, for every queue
\* size, number of samples, number of faults and set of refused samples.
THEOREM TypeCorrect == Spec => []TypeOK
<1>1. Inv => TypeOK
  BY DEF Inv
<1>2. QED
  BY <1>1, Invariance, PTL

\* Queue.Add and flushQueue keep the queue file within maximum_records and in
\* the order of collection, without a sample twice, through every crash, failed
\* read, failed write and timeout.
THEOREM QueueStaysInOrder == Spec => []QueueInOrder
<1>1. Inv => QueueInOrder
  BY DEF Inv, Order
<1>2. QED
  BY <1>1, Invariance, PTL

-----------------------------------------------------------------------------
\* How the steps of the agent map to those of ReportDelivery.
LEMMA Stutter ==
    ASSUME queue' = queue, cur' = cur, next' = next, copies' = copies,
           faults' = faults
    PROVE  UNCHANGED Delivery!deliveryVars
  BY DEF Delivery!deliveryVars, Outbox, Stored

LEMMA FaultShrinksOutbox ==
    ASSUME faults < MaxFaults, faults' = faults + 1, next' = next,
           copies' = copies,
           Delivery!Elements(Outbox') \subseteq Delivery!Elements(Outbox)
    PROVE  Delivery!Next
<1>1. Stored' = Stored
  BY DEF Stored
<1>2. QED
  BY <1>1 DEF Delivery!Forfeit, Delivery!Next

LEMMA FaultKeepsOutbox ==
    ASSUME faults < MaxFaults, faults' = faults + 1, next' = next,
           copies' = copies, queue' = queue, cur' = cur
    PROVE  Delivery!Next
<1>1. Outbox' = Outbox
  BY DEF Outbox
<1>2. QED
  BY <1>1, FaultShrinksOutbox

LEMMA ElementsIncluded ==
    ASSUME NEW p \in Seq(Samples), NEW q \in Seq(Samples),
           \A i \in 1..Len(p) : \E j \in 1..Len(q) : p[i] = q[j]
    PROVE  Delivery!Elements(p) \subseteq Delivery!Elements(q)
<1>1. DOMAIN p = 1..Len(p) /\ DOMAIN q = 1..Len(q)
  OBVIOUS
<1>2. QED
  BY <1>1 DEF Delivery!Elements

LEMMA QueueInOutbox ==
    ASSUME Inv, queue' = queue, cur' = NoSample
    PROVE  Delivery!Elements(Outbox') \subseteq Delivery!Elements(Outbox)
<1>1. Outbox' = queue
  BY DEF Outbox
<1>2. \A i \in DOMAIN queue : i \in DOMAIN Outbox /\ Outbox[i] = queue[i]
  BY DEF Outbox, Inv, TypeOK, NoSample
<1>3. QED
  BY <1>1, <1>2 DEF Delivery!Elements

LEMMA DeliveryInit == Init => Delivery!Init
<1> SUFFICES ASSUME Init PROVE Delivery!Init
  OBVIOUS
<1>1. Outbox = <<>>
  BY DEF Init, Outbox
<1>2. Stored = {}
  BY DEF Init, Stored
<1>3. QED
  BY <1>1, <1>2 DEF Init, Delivery!Init

LEMMA DeliveryStep ==
    Inv /\ [Next]_vars => [Delivery!Next]_(Delivery!deliveryVars)
<1> SUFFICES ASSUME Inv, [Next]_vars
             PROVE  [Delivery!Next]_(Delivery!deliveryVars)
  OBVIOUS
<1> USE ConstantsAssumption
<1>1. ASSUME Start PROVE [Delivery!Next]_(Delivery!deliveryVars)
  BY <1>1, Stutter DEF Start, agentVars, netVars, serverVars
<1>2. ASSUME Tick PROVE [Delivery!Next]_(Delivery!deliveryVars)
  BY <1>2, Stutter DEF Tick, netVars, serverVars
<1>3. ASSUME ReadQueue PROVE [Delivery!Next]_(Delivery!deliveryVars)
  BY <1>3, Stutter DEF ReadQueue, netVars, serverVars
<1>4. ASSUME SendRequest PROVE [Delivery!Next]_(Delivery!deliveryVars)
  BY <1>4, Stutter DEF SendRequest, agentVars, serverVars
<1>5. ASSUME RowAcked PROVE [Delivery!Next]_(Delivery!deliveryVars)
  BY <1>5, Stutter DEF RowAcked, serverVars
<1>6. ASSUME SampleAcked PROVE [Delivery!Next]_(Delivery!deliveryVars)
  <2>1. /\ cur \in Samples /\ cur # NoSample /\ copies[cur] > 0
        /\ cur' = NoSample /\ queue' = queue /\ next' = next /\ copies' = copies
        /\ faults' = faults
    BY <1>6 DEF SampleAcked, Inv, TypeOK, Control, Acknowledged, Outgoing,
       serverVars
  <2>2. /\ Outbox = Append(queue, cur) /\ Outbox' = queue
        /\ Len(Outbox) = Len(queue) + 1 /\ Len(queue) \in Nat
    BY <2>1 DEF Outbox, Inv, TypeOK
  <2>3. queue = SubSeq(Outbox, 1, Len(queue))
    BY <2>1, <2>2 DEF Inv, TypeOK
  <2>4. Delivery!Elements(Outbox) \ Delivery!Elements(queue) \subseteq Stored
    BY <2>1, <2>2 DEF Delivery!Elements, Stored, Inv, TypeOK
  <2>5. Stored' = Stored
    BY <2>1 DEF Stored
  <2>6. Delivery!Release(1, Len(queue))
    BY <2>1, <2>2, <2>3, <2>4, <2>5 DEF Delivery!Release
  <2>7. 1 \in 1..(Len(Outbox) + 1) /\ Len(queue) \in 0..Len(Outbox)
    BY <2>2
  <2>8. QED
    BY <2>6, <2>7 DEF Delivery!Next
<1>7. ASSUME PostRefused PROVE [Delivery!Next]_(Delivery!deliveryVars)
  BY <1>7, Stutter DEF PostRefused, PostFails, serverVars
<1>8. ASSUME UploadDone PROVE [Delivery!Next]_(Delivery!deliveryVars)
  BY <1>8, Stutter DEF UploadDone, serverVars
<1>9. ASSUME ReplaceQueue PROVE [Delivery!Next]_(Delivery!deliveryVars)
  <2>1. /\ rows = queue /\ cur = NoSample /\ cur' = NoSample /\ next' = next
        /\ copies' = copies /\ faults' = faults /\ acked \in 0..Len(queue)
    BY <1>9 DEF ReplaceQueue, Inv, TypeOK, Control, serverVars
  <2>2. CASE acked > 0
    <3>1. queue' = SubSeq(queue, acked + 1, Len(queue))
      BY <1>9, <2>1, <2>2 DEF ReplaceQueue
    <3>2. Outbox = queue /\ Outbox' = queue' /\ Stored' = Stored
      BY <2>1 DEF Outbox, Stored
    <3>3. /\ Len(queue') = Len(queue) - acked
          /\ \A i \in 1..Len(queue') : queue'[i] = queue[acked + i]
      BY <2>1, <3>1 DEF Inv, TypeOK
    <3>4. Delivery!Elements(queue) \ Delivery!Elements(queue') \subseteq Stored
      <4> SUFFICES ASSUME NEW i \in 1..Len(queue),
                          \A j \in 1..Len(queue') : queue[i] # queue'[j]
                   PROVE  queue[i] \in Stored
        <5>1. queue \in Seq(Samples) /\ queue' \in Seq(Samples)
          BY <2>1, <3>1 DEF Inv, TypeOK
        <5>2. DOMAIN queue = 1..Len(queue) /\ DOMAIN queue' = 1..Len(queue')
          BY <5>1
        <5>3. QED
          BY <5>2 DEF Delivery!Elements
      <4>1. CASE i <= acked
        BY <2>1, <4>1 DEF Stored, Inv, Acknowledged, TypeOK
      <4>2. CASE i > acked
        <5>1. i - acked \in 1..Len(queue') /\ acked + (i - acked) = i
          BY <2>1, <3>3, <4>2 DEF Inv, TypeOK
        <5>2. queue'[i - acked] = queue[i]
          BY <3>3, <5>1
        <5>3. QED
          BY <5>1, <5>2
      <4>3. QED
        BY <2>1, <4>1, <4>2
    <3>5. Delivery!Release(acked + 1, Len(queue))
      BY <2>1, <3>1, <3>2, <3>4 DEF Delivery!Release
    <3>6. acked + 1 \in 1..(Len(Outbox) + 1) /\ Len(queue) \in 0..Len(Outbox)
      BY <2>1, <3>2 DEF Inv, TypeOK
    <3>7. QED
      BY <3>5, <3>6 DEF Delivery!Next
  <2>3. CASE ~(acked > 0)
    BY <1>9, <2>1, <2>3, Stutter DEF ReplaceQueue
  <2>4. QED
    BY <2>2, <2>3
<1>10. ASSUME SendInventory PROVE [Delivery!Next]_(Delivery!deliveryVars)
  BY <1>10, Stutter DEF SendInventory
<1>11. ASSUME GetConfig PROVE [Delivery!Next]_(Delivery!deliveryVars)
  BY <1>11, Stutter DEF GetConfig, serverVars
<1>12. ASSUME Collect PROVE [Delivery!Next]_(Delivery!deliveryVars)
  <2>1. /\ cur = NoSample /\ next \in Nat /\ next' = next + 1 /\ cur' = next + 1
        /\ queue' = queue /\ copies' = copies /\ faults' = faults
    BY <1>12 DEF Collect, Inv, TypeOK, Control, serverVars
  <2>2. Outbox' = Append(Outbox, next + 1) /\ Stored' = Stored
    BY <2>1 DEF Outbox, Stored, NoSample
  <2>3. QED
    BY <2>1, <2>2 DEF Delivery!Take, Delivery!Next
<1>13. ASSUME CollectFails PROVE [Delivery!Next]_(Delivery!deliveryVars)
  BY <1>13, Stutter DEF CollectFails, serverVars
<1>14. ASSUME AddToQueue PROVE [Delivery!Next]_(Delivery!deliveryVars)
  <2>1. /\ cur # NoSample /\ cur \in Samples /\ cur' = NoSample /\ next' = next
        /\ copies' = copies /\ faults' = faults
          /\ queue' = Newest(Append(queue, cur))
        /\ queue \in Seq(Samples) /\ Len(queue) <= MaximumRecords
    BY <1>14 DEF AddToQueue, Inv, TypeOK, Control, Order, QueueInOrder,
       serverVars
  <2>2. /\ Outbox = Append(queue, cur) /\ Outbox' = Newest(Outbox)
        /\ Outbox \in Seq(Samples) /\ Len(Outbox) = Len(queue) + 1
        /\ Stored' = Stored
    BY <2>1 DEF Outbox, Stored
  <2>3. CASE Len(Outbox) > MaximumRecords
    <3>1. Len(Outbox) = MaximumRecords + 1
      BY <2>1, <2>2, <2>3
    <3>2. Outbox' = SubSeq(Outbox, 2, Len(Outbox))
      <4>1. Len(Outbox) - MaximumRecords + 1 = 2
        BY <3>1
      <4>2. QED
        BY <2>2, <2>3, <4>1 DEF Newest
    <3>3. Outbox' = Tail(Outbox)
      BY <2>2, <2>3, <3>2
    <3>4. QED
      BY <2>1, <2>2, <2>3, <3>3 DEF Delivery!Evict, Delivery!Next
  <2>4. CASE ~(Len(Outbox) > MaximumRecords)
    BY <2>1, <2>2, <2>4 DEF Newest, Delivery!deliveryVars
  <2>5. QED
    BY <2>3, <2>4
<1>15. ASSUME ReadQueueFails PROVE [Delivery!Next]_(Delivery!deliveryVars)
  BY <1>15, FaultKeepsOutbox DEF ReadQueueFails, Fault, serverVars
<1>16. ASSUME PostTimesOut PROVE [Delivery!Next]_(Delivery!deliveryVars)
  BY <1>16, FaultKeepsOutbox DEF PostTimesOut, Fault, PostFails, serverVars
<1>17. ASSUME ReplaceQueueFails PROVE [Delivery!Next]_(Delivery!deliveryVars)
  BY <1>17, FaultKeepsOutbox DEF ReplaceQueueFails, Fault, serverVars
<1>18. ASSUME SendInventoryFails PROVE [Delivery!Next]_(Delivery!deliveryVars)
  BY <1>18, FaultKeepsOutbox DEF SendInventoryFails, Fault
<1>19. ASSUME GetConfigFails PROVE [Delivery!Next]_(Delivery!deliveryVars)
  BY <1>19, FaultKeepsOutbox DEF GetConfigFails, Fault, serverVars
<1>20. ASSUME AddUnread PROVE [Delivery!Next]_(Delivery!deliveryVars)
  <2>1. /\ cur # NoSample /\ cur \in Samples /\ cur' = NoSample /\ next' = next
        /\ copies' = copies /\ queue \in Seq(Samples) /\ Outbox = Append(queue, cur)
    BY <1>20 DEF AddUnread, Inv, TypeOK, Control, serverVars, Outbox
  <2>2. PICK k \in 0..Len(queue) : queue' = Newest(Append(SubSeq(queue, 1, k), cur))
    BY <1>20 DEF AddUnread
  <2> DEFINE a == Append(SubSeq(queue, 1, k), cur)
  <2>3. /\ a \in Seq(Samples) /\ Len(a) = k + 1
        /\ \A i \in 1..k : a[i] = queue[i]
        /\ a[k + 1] = cur
    BY <2>1
  <2> HIDE DEF a
  <2>4. \A i \in 1..Len(a) : \E j \in 1..Len(Outbox) : a[i] = Outbox[j]
    <3> SUFFICES ASSUME NEW i \in 1..Len(a)
                 PROVE  \E j \in 1..Len(Outbox) : a[i] = Outbox[j]
      OBVIOUS
    <3>1. /\ Len(Outbox) = Len(queue) + 1 /\ Len(queue) \in Nat
          /\ Outbox[Len(queue) + 1] = cur
          /\ \A j \in 1..Len(queue) : Outbox[j] = queue[j]
      BY <2>1
    <3>2. CASE i = k + 1
      <4>1. Len(queue) + 1 \in 1..Len(Outbox) /\ a[i] = Outbox[Len(queue) + 1]
        BY <2>3, <3>1, <3>2
      <4>2. QED
        BY <4>1
    <3>3. CASE i \in 1..k
      BY <2>3, <3>1, <3>3
    <3>4. QED
      BY <2>3, <3>2, <3>3
  <2>5. Outbox' = Newest(a)
    BY <2>1, <2>2 DEF Outbox, a
  <2>6. \A i \in 1..Len(Outbox') : \E j \in 1..Len(a) : Outbox'[i] = a[j]
    BY <2>3, <2>5, NewestIsSuffix
  <2>7. Outbox' \in Seq(Samples) /\ Outbox \in Seq(Samples)
    BY <2>1, <2>3, <2>5, NewestIsSuffix
  <2>8. Delivery!Elements(Outbox') \subseteq Delivery!Elements(Outbox)
    <3>1. \A i \in 1..Len(Outbox') : \E j \in 1..Len(Outbox) : Outbox'[i] = Outbox[j]
      BY <2>4, <2>6
    <3>2. QED
      BY <2>7, <3>1, ElementsIncluded
  <2>9. QED
    BY <1>20, <2>1, <2>8, FaultShrinksOutbox DEF AddUnread, Fault
<1>21. ASSUME AddFails PROVE [Delivery!Next]_(Delivery!deliveryVars)
  <2>1. /\ cur' = NoSample /\ queue' = queue /\ next' = next /\ copies' = copies
    BY <1>21 DEF AddFails, serverVars
  <2>2. Delivery!Elements(Outbox') \subseteq Delivery!Elements(Outbox)
    BY <2>1, QueueInOutbox
  <2>3. QED
    BY <1>21, <2>1, <2>2, FaultShrinksOutbox DEF AddFails, Fault
<1>22. ASSUME Crash PROVE [Delivery!Next]_(Delivery!deliveryVars)
  <2>1. /\ cur' = NoSample /\ queue' = queue /\ next' = next /\ copies' = copies
    BY <1>22 DEF Crash, serverVars
  <2>2. Delivery!Elements(Outbox') \subseteq Delivery!Elements(Outbox)
    BY <2>1, QueueInOutbox
  <2>3. QED
    BY <1>22, <2>1, <2>2, FaultShrinksOutbox DEF Crash, Fault
<1>23. ASSUME ServerIngest PROVE [Delivery!Next]_(Delivery!deliveryVars)
  <2>1. /\ cur' = cur /\ queue' = queue /\ next' = next /\ faults' = faults
        /\ Outgoing \in Samples /\ Outgoing <= next
    BY <1>23, OutgoingIsSample, OutgoingIsOld
       DEF ServerIngest, agentVars, Inv, TypeOK, Order, Control
  <2>2. CASE Outgoing \in Rejected
    BY <1>23, <2>1, <2>2, Stutter DEF ServerIngest, serverVars
  <2>3. CASE Outgoing \notin Rejected
    <3>1. copies' = [copies EXCEPT ![Outgoing] = @ + 1]
      BY <1>23, <2>3 DEF ServerIngest, Ingest
    <3>2. Stored' = Stored \union {Outgoing}
      BY <2>1, <3>1 DEF Stored, Inv, TypeOK
    <3>3. Outbox' = Outbox
      BY <2>1 DEF Outbox
    <3>4. Delivery!Store(Outgoing)
      BY <2>1, <2>3, <3>2, <3>3 DEF Delivery!Store
    <3>5. Outgoing \in 1..next
      BY <2>1 DEF Samples, Inv, TypeOK
    <3>6. QED
      BY <3>4, <3>5 DEF Delivery!Next
  <2>4. QED
    BY <2>2, <2>3
<1>24. ASSUME ServerUp PROVE [Delivery!Next]_(Delivery!deliveryVars)
  BY <1>24, Stutter DEF ServerUp, agentVars, serverVars
<1>25. ASSUME ServerDown PROVE [Delivery!Next]_(Delivery!deliveryVars)
  BY <1>25, FaultKeepsOutbox DEF ServerDown, Fault, agentVars, serverVars
<1>26. ASSUME DayPasses PROVE [Delivery!Next]_(Delivery!deliveryVars)
  BY <1>26, Stutter DEF DayPasses
<1>27. ASSUME Stop PROVE [Delivery!Next]_(Delivery!deliveryVars)
  BY <1>27, Stutter DEF Stop, serverVars
<1>28. ASSUME NEW r \in late, ServerIngestLate(r) PROVE [Delivery!Next]_(Delivery!deliveryVars)
  <2>1. /\ cur' = cur /\ queue' = queue /\ next' = next /\ faults' = faults
        /\ r.sample \in Samples /\ r.sample <= next
    BY <1>28 DEF ServerIngestLate, agentVars, Inv, TypeOK, Order, Control
  <2>2. CASE r.sample \in Rejected
    BY <1>28, <2>1, <2>2, Stutter DEF ServerIngestLate, serverVars
  <2>3. CASE r.sample \notin Rejected
    <3>1. copies' = [copies EXCEPT ![r.sample] = @ + 1]
      BY <1>28, <2>3 DEF ServerIngestLate, Ingest
    <3>2. Stored' = Stored \union {r.sample}
      BY <2>1, <3>1 DEF Stored, Inv, TypeOK
    <3>3. Outbox' = Outbox
      BY <2>1 DEF Outbox
    <3>4. Delivery!Store(r.sample)
      BY <2>1, <2>3, <3>2, <3>3 DEF Delivery!Store
    <3>5. r.sample \in 1..next
      BY <2>1 DEF Samples, Inv, TypeOK
    <3>6. QED
      BY <3>4, <3>5 DEF Delivery!Next
  <2>4. QED
    BY <2>2, <2>3
<1>29. CASE UNCHANGED vars
  BY <1>29, Stutter DEF vars, agentVars, serverVars
<1>30. QED
  BY <1>1, <1>2, <1>3, <1>4, <1>5, <1>6, <1>7, <1>8, <1>9, <1>10, <1>11,
     <1>12, <1>13, <1>14, <1>15, <1>16, <1>17, <1>18, <1>19, <1>20, <1>21,
     <1>22, <1>23, <1>24, <1>25, <1>26, <1>27, <1>28, <1>29
  DEF Next, AgentStep, AgentFault, ServerStep

\* The agent implements ReportDelivery: whatever crashes, times out or is
\* refused, a collected sample is only ever dropped when the server has it, when
\* newer samples fill the queue, or by a fault that the history counts.
THEOREM AgentDelivers == Spec => DeliverySpec
<1>1. Inv /\ [Next]_vars => [Delivery!Next]_(Delivery!deliveryVars)
  BY DeliveryStep
<1>2. QED
  BY <1>1, DeliveryInit, Invariance, PTL DEF Spec, DeliverySpec, Delivery!Spec

-----------------------------------------------------------------------------
(* How often a sample is stored.                                             *)

\* The rows whose answer has come, or is on its way and will not be lost.
Got == IF pc = "upload" /\ req = "applied" /\ up THEN acked + 1 ELSE acked

InHand(s) == s = cur /\ ~(pc = "post" /\ req = "applied" /\ up)

\* The agent will post the sample once more.
Pending(s) == \/ s > next
              \/ InHand(s)
              \/ \E i \in 1..Len(queue) : i > Got /\ queue[i] = s

LateOf(s) == {r \in late : r.sample = s}

\* The copies there are, the ones on their way, and the one to come.
Weight(s) == copies[s] + Cardinality(LateOf(s)) + (IF Pending(s) THEN 1 ELSE 0)

\* A copy beyond the first takes a fault.
Weighed == IsFiniteSet(late) /\ \A s \in Samples : Weight(s) <= 1 + faults

LEMMA LateCount ==
    ASSUME IsFiniteSet(late), NEW s
    PROVE  IsFiniteSet(LateOf(s)) /\ Cardinality(LateOf(s)) \in Nat
<1>1. LateOf(s) \in SUBSET late
  BY DEF LateOf
<1>2. QED
  BY <1>1, FS_Subset, FS_CardinalityType

LEMMA LateAdded ==
    ASSUME IsFiniteSet(late), NEW r, late' \in {late, late \union {r}}, NEW s
    PROVE  /\ IsFiniteSet(late')
           /\ Cardinality(LateOf(s)') <= Cardinality(LateOf(s)) + 1
           /\ r.sample # s => LateOf(s)' = LateOf(s)
<1>1. IsFiniteSet(late')
  BY FS_AddElement
<1>2. LateOf(s)' \in {LateOf(s), LateOf(s) \union {r}}
  BY DEF LateOf
<1>3. Cardinality(LateOf(s) \union {r}) <= Cardinality(LateOf(s)) + 1
  <2>1. IsFiniteSet(LateOf(s)) /\ Cardinality(LateOf(s)) \in Nat
    BY LateCount
  <2>2. Cardinality(LateOf(s) \union {r})
            = IF r \in LateOf(s) THEN Cardinality(LateOf(s)) ELSE Cardinality(LateOf(s)) + 1
    BY <2>1, FS_AddElement
  <2>3. QED
    BY <2>1, <2>2
<1>4. r.sample # s => LateOf(s)' = LateOf(s)
  BY DEF LateOf
<1>5. Cardinality(LateOf(s)') <= Cardinality(LateOf(s)) + 1
  <2>1. Cardinality(LateOf(s)) \in Nat
    BY LateCount
  <2>2. CASE LateOf(s)' = LateOf(s)
    BY <2>1, <2>2
  <2>3. CASE LateOf(s)' = LateOf(s) \union {r}
    BY <1>3, <2>3
  <2>4. QED
    BY <1>2, <2>2, <2>3
<1>6. QED
  BY <1>1, <1>4, <1>5

LEMMA LateRemoved ==
    ASSUME IsFiniteSet(late), NEW r \in late, late' = late \ {r}, NEW s
    PROVE  /\ IsFiniteSet(late')
           /\ IF r.sample = s THEN Cardinality(LateOf(s)') = Cardinality(LateOf(s)) - 1
              ELSE LateOf(s)' = LateOf(s)
<1>1. IsFiniteSet(late')
  BY FS_RemoveElement
<1>2. CASE r.sample = s
  <2>1. LateOf(s)' = LateOf(s) \ {r} /\ r \in LateOf(s)
    BY <1>2 DEF LateOf
  <2>2. QED
    BY <1>1, <1>2, <2>1, LateCount, FS_RemoveElement
<1>3. CASE r.sample # s
  BY <1>1, <1>3 DEF LateOf
<1>4. QED
  BY <1>2, <1>3

\* Nothing is stored and nothing is given up: only a fault makes the agent post
\* a sample again.
LEMMA WeighSame ==
    ASSUME TypeOK, Weighed, copies' = copies, late' = late,
           \/ faults' = faults /\ \A s \in Samples : Pending(s)' => Pending(s)
           \/ faults' = faults + 1
    PROVE  Weighed'
<1>1. ASSUME NEW s \in Samples PROVE Weight(s)' <= 1 + faults'
  <2>1. Cardinality(LateOf(s)') = Cardinality(LateOf(s)) /\ Cardinality(LateOf(s)) \in Nat
    BY LateCount DEF LateOf, Weighed
  <2>2. copies[s] \in Nat /\ copies'[s] = copies[s] /\ faults \in Nat
    BY ConstantsAssumption DEF TypeOK
  <2>3. Weight(s) <= 1 + faults
    BY DEF Weighed
  <2>4. QED
    BY <2>1, <2>2, <2>3 DEF Weight
<1>2. QED
  BY <1>1 DEF Weighed

\* A request that is given up may still arrive; its sample was pending already.
LEMMA WeighGivenUp ==
    ASSUME TypeOK, Weighed, copies' = copies, Pending(Outgoing), req = "sent",
           GiveUp, faults' = faults + 1
    PROVE  Weighed'
<1> DEFINE r == [n |-> faults, sample |-> Outgoing]
<1>1. late' \in {late, late \union {r}} /\ r.sample = Outgoing
  BY DEF GiveUp
<1> HIDE DEF r
<1>2. ASSUME NEW s \in Samples PROVE Weight(s)' <= 1 + faults'
  <2>1. Cardinality(LateOf(s)') <= Cardinality(LateOf(s)) + 1
        /\ (Outgoing # s => LateOf(s)' = LateOf(s))
    BY <1>1, LateAdded DEF Weighed
  <2>2. Cardinality(LateOf(s)) \in Nat /\ Cardinality(LateOf(s)') \in Nat
    <3>1. IsFiniteSet(late) /\ IsFiniteSet(late')
      BY <1>1, LateAdded DEF Weighed
    <3>2. LateOf(s)' \in SUBSET late'
      BY DEF LateOf
    <3>3. QED
      BY <3>1, <3>2, LateCount, FS_Subset, FS_CardinalityType
  <2>3. copies[s] \in Nat /\ copies'[s] = copies[s] /\ faults \in Nat
    BY ConstantsAssumption DEF TypeOK
  <2>4. Weight(s) <= 1 + faults
    BY DEF Weighed
  <2>5. CASE s = Outgoing
    BY <2>1, <2>2, <2>3, <2>4, <2>5 DEF Weight
  <2>6. CASE s # Outgoing
    BY <2>1, <2>2, <2>3, <2>4, <2>6 DEF Weight
  <2>7. QED
    BY <2>5, <2>6
<1>3. IsFiniteSet(late')
  BY <1>1, FS_AddElement DEF Weighed
<1>4. QED
  BY <1>2, <1>3 DEF Weighed

\* The sample of a request that has not been answered is pending.
LEMMA OutgoingPending ==
    ASSUME Inv, Posting, req = "sent"
    PROVE  Pending(Outgoing)
<1>1. CASE pc = "upload"
  <2>1. acked + 1 \in 1..Len(queue) /\ Outgoing = queue[acked + 1] /\ Got = acked
    BY <1>1 DEF Inv, TypeOK, Control, Outgoing, Got
  <2>2. acked + 1 > acked
    BY DEF Inv, TypeOK
  <2>3. QED
    BY <2>1, <2>2 DEF Pending
<1>2. CASE pc = "post"
  BY <1>2 DEF Outgoing, Pending, InHand
<1>3. QED
  BY <1>1, <1>2 DEF Posting

\* Once it is stored, it is not.
LEMMA AppliedNotPending ==
    ASSUME Inv, ServerIngest, req' = "applied"
    PROVE  /\ ~Pending(Outgoing)'
           /\ \A s \in Samples : Pending(s)' => Pending(s)
<1>1. /\ UNCHANGED agentVars /\ up' = up /\ up /\ req = "sent" /\ Posting /\ Outgoing' = Outgoing
  BY DEF ServerIngest, Outgoing, agentVars
<1>2. Outgoing <= next /\ Outgoing \in Samples /\ Outgoing \in Nat /\ next \in Nat
  BY <1>1, OutgoingIsOld, OutgoingIsSample DEF Inv, Control, TypeOK, Samples
<1>3. CASE pc = "upload"
  <2>1. /\ acked \in Nat /\ acked + 1 \in 1..Len(queue) /\ Outgoing = queue[acked + 1]
        /\ cur = NoSample /\ Len(queue) \in Nat
    BY <1>1, <1>3 DEF Inv, TypeOK, Control, Outgoing
  <2>2. Got' = acked + 1 /\ Got = acked
    BY <1>1, <1>3 DEF Got, agentVars
  <2>3. \A i \in 1..Len(queue) : i > acked + 1 => queue[i] # Outgoing
    <3>1. ASSUME NEW i \in 1..Len(queue), i > acked + 1 PROVE queue[i] # Outgoing
      <4>1. queue[acked + 1] < queue[i]
        BY <2>1, <3>1 DEF Inv, Order, QueueInOrder, Ascending
      <4>2. QED
        BY <1>2, <2>1, <4>1
    <3>2. QED
      BY <3>1
  <2>4. Outgoing # cur
    BY <1>2, <2>1 DEF Samples, NoSample
  <2>5. ~Pending(Outgoing)'
    BY <1>1, <1>2, <2>2, <2>3, <2>4 DEF Pending, InHand, agentVars
  <2>6. ASSUME NEW s \in Samples, Pending(s)' PROVE Pending(s)
    BY <1>1, <1>3, <2>1, <2>2, <2>6 DEF Pending, InHand, agentVars
  <2>7. QED
    BY <2>5, <2>6
<1>4. CASE pc = "post"
  <2>1. Outgoing = cur /\ cur # NoSample /\ Got' = Got
    BY <1>1, <1>4 DEF Inv, Control, Outgoing, Got, agentVars
  <2>2. \A i \in 1..Len(queue) : queue[i] # Outgoing
    BY <2>1 DEF Inv, TypeOK, Order, Samples
  <2>3. ~Pending(Outgoing)'
    BY <1>1, <1>2, <1>4, <2>2 DEF Pending, InHand, agentVars
  <2>4. ASSUME NEW s \in Samples, Pending(s)' PROVE Pending(s)
    BY <1>1, <1>4, <2>1, <2>4 DEF Pending, InHand, agentVars
  <2>5. QED
    BY <2>3, <2>4
<1>5. QED
  BY <1>1, <1>3, <1>4 DEF Posting

LEMMA WeighInit == Init => Weighed
<1> SUFFICES ASSUME Init PROVE Weighed
  OBVIOUS
<1>1. IsFiniteSet(late) /\ \A s \in Samples : LateOf(s) = {}
  BY FS_EmptySet DEF Init, LateOf
<1>2. ASSUME NEW s \in Samples PROVE Weight(s) <= 1 + faults
  <2>1. copies[s] = 0 /\ faults = 0 /\ Cardinality(LateOf(s)) = 0
    BY <1>1, FS_EmptySet DEF Init
  <2>2. QED
    BY <2>1 DEF Weight
<1>3. QED
  BY <1>1, <1>2 DEF Weighed

LEMMA WeighStep == Inv /\ Weighed /\ [Next]_vars => Weighed'
<1> SUFFICES ASSUME Inv, Weighed, [Next]_vars PROVE Weighed'
  OBVIOUS
<1> DEFINE Less == \A s \in Samples : Pending(s)' => Pending(s)
<1>0. TypeOK
  BY DEF Inv
<1>1. CASE Start
  <2>1. Less
    BY <1>1 DEF Start, Pending, InHand, Got, Inv, TypeOK, Control, Samples, NoSample,
       agentVars, netVars, serverVars
  <2>2. copies' = copies /\ late' = late /\ faults' = faults
    BY <1>1 DEF Start, agentVars, netVars, serverVars
  <2>3. QED
    BY <1>0, <2>1, <2>2, WeighSame
<1>2. CASE Tick
  <2>1. Less
    BY <1>2 DEF Tick, Pending, InHand, Got, Inv, TypeOK, Control, Samples, NoSample,
       agentVars, netVars, serverVars
  <2>2. copies' = copies /\ late' = late /\ faults' = faults
    BY <1>2 DEF Tick, agentVars, netVars, serverVars
  <2>3. QED
    BY <1>0, <2>1, <2>2, WeighSame
<1>3. CASE SendRequest
  <2>1. Less
    BY <1>3 DEF SendRequest, Posting, Pending, InHand, Got, Inv, TypeOK, Control, Samples,
       NoSample, agentVars, netVars, serverVars
  <2>2. copies' = copies /\ late' = late /\ faults' = faults
    BY <1>3 DEF SendRequest, agentVars, netVars, serverVars
  <2>3. QED
    BY <1>0, <2>1, <2>2, WeighSame
<1>4. CASE UploadDone
  <2>1. Less
    BY <1>4 DEF UploadDone, Pending, InHand, Got, Inv, TypeOK, Control, Samples, NoSample,
       agentVars, netVars, serverVars
  <2>2. copies' = copies /\ late' = late /\ faults' = faults
    BY <1>4 DEF UploadDone, agentVars, netVars, serverVars
  <2>3. QED
    BY <1>0, <2>1, <2>2, WeighSame
<1>5. CASE SendInventory
  <2>1. Less
    BY <1>5 DEF SendInventory, Pending, InHand, Got, Inv, TypeOK, Control, Samples,
       NoSample, agentVars, netVars, serverVars
  <2>2. copies' = copies /\ late' = late /\ faults' = faults
    BY <1>5 DEF SendInventory, agentVars, netVars, serverVars
  <2>3. QED
    BY <1>0, <2>1, <2>2, WeighSame
<1>6. CASE GetConfig
  <2>1. Less
    BY <1>6 DEF GetConfig, Pending, InHand, Got, Inv, TypeOK, Control, Samples, NoSample,
       agentVars, netVars, serverVars
  <2>2. copies' = copies /\ late' = late /\ faults' = faults
    BY <1>6 DEF GetConfig, agentVars, netVars, serverVars
  <2>3. QED
    BY <1>0, <2>1, <2>2, WeighSame
<1>7. CASE CollectFails
  <2>1. Less
    BY <1>7 DEF CollectFails, Pending, InHand, Got, Inv, TypeOK, Control, Samples,
       NoSample, agentVars, netVars, serverVars
  <2>2. copies' = copies /\ late' = late /\ faults' = faults
    BY <1>7 DEF CollectFails, agentVars, netVars, serverVars
  <2>3. QED
    BY <1>0, <2>1, <2>2, WeighSame
<1>8. CASE ServerUp
  <2>1. Less
    <3>1. /\ acked \in Nat /\ Got = acked /\ Got' \in {acked, acked + 1} /\ ~up
          /\ UNCHANGED <<queue, cur, next, pc>>
      BY <1>0, <1>8 DEF ServerUp, Got, TypeOK, agentVars
    <3>2. \A i \in 1..Len(queue) : i > Got' => i > Got
      BY <3>1
    <3>3. QED
      BY <3>1, <3>2 DEF Pending, InHand
  <2>2. copies' = copies /\ late' = late /\ faults' = faults
    BY <1>8 DEF ServerUp, agentVars, netVars, serverVars
  <2>3. QED
    BY <1>0, <2>1, <2>2, WeighSame
<1>9. CASE DayPasses
  <2>1. Less
    BY <1>9 DEF DayPasses, Pending, InHand, Got, Inv, TypeOK, Control, Samples, NoSample,
       agentVars, netVars, serverVars
  <2>2. copies' = copies /\ late' = late /\ faults' = faults
    BY <1>9 DEF DayPasses, agentVars, netVars, serverVars
  <2>3. QED
    BY <1>0, <2>1, <2>2, WeighSame
<1>10. CASE Stop
  <2>1. Less
    BY <1>10 DEF Stop, Pending, InHand, Got, Inv, TypeOK, Control, Samples, NoSample,
       agentVars, netVars, serverVars
  <2>2. copies' = copies /\ late' = late /\ faults' = faults
    BY <1>10 DEF Stop, agentVars, netVars, serverVars
  <2>3. QED
    BY <1>0, <2>1, <2>2, WeighSame
<1>11. CASE ReadQueue
  <2>1. Less
    BY <1>11 DEF ReadQueue, Pending, InHand, Got, Inv, TypeOK, Control, Samples, NoSample,
       agentVars, netVars, serverVars
  <2>2. copies' = copies /\ late' = late /\ faults' = faults
    BY <1>11 DEF ReadQueue, agentVars, netVars, serverVars
  <2>3. QED
    BY <1>0, <2>1, <2>2, WeighSame
<1>12. CASE RowAcked
  <2>1. Less
    <3>1. /\ acked \in Nat /\ Len(queue) \in Nat /\ Got \in {acked, acked + 1} /\ Got' = acked + 1
          /\ UNCHANGED <<queue, cur, next, pc>> /\ pc = "upload"
      BY <1>0, <1>12 DEF RowAcked, Got, TypeOK
    <3>2. \A i \in 1..Len(queue) : i > Got' => i > Got
      BY <3>1
    <3>3. QED
      BY <3>1, <3>2 DEF Pending, InHand
  <2>2. copies' = copies /\ late' = late /\ faults' = faults
    BY <1>12 DEF RowAcked, agentVars, netVars, serverVars
  <2>3. QED
    BY <1>0, <2>1, <2>2, WeighSame
<1>13. CASE SampleAcked
  <2>1. Less
    BY <1>13 DEF SampleAcked, Pending, InHand, Got, Inv, TypeOK, Control, Samples,
       NoSample, agentVars, netVars, serverVars
  <2>2. copies' = copies /\ late' = late /\ faults' = faults
    BY <1>13 DEF SampleAcked, agentVars, netVars, serverVars
  <2>3. QED
    BY <1>0, <2>1, <2>2, WeighSame
<1>14. CASE PostRefused
  <2>1. Less
    BY <1>14 DEF PostRefused, PostFails, Posting, Pending, InHand, Got, Inv, TypeOK,
       Control, Samples, NoSample, agentVars, netVars, serverVars
  <2>2. copies' = copies /\ late' = late /\ faults' = faults
    BY <1>14 DEF PostRefused, PostFails, agentVars, netVars, serverVars
  <2>3. QED
    BY <1>0, <2>1, <2>2, WeighSame
<1>15. CASE ReplaceQueue
  <2>1. Less
    <3>1. /\ rows = queue /\ acked \in 0..Len(queue) /\ queue \in Seq(Samples) /\ cur = NoSample
          /\ next' = next /\ cur' = cur /\ acked' = 0 /\ pc = "replace" /\ pc' = "inventory"
          /\ queue' = IF acked > 0 THEN SubSeq(rows, acked + 1, Len(rows)) ELSE queue
      BY <1>15 DEF ReplaceQueue, EndFlush, Inv, TypeOK, Control
    <3>2. Got = acked /\ Got' = 0
      BY <3>1 DEF Got
    <3>3. \A j \in 1..Len(queue') : j + acked \in 1..Len(queue) /\ queue'[j] = queue[j + acked]
      BY <3>1
    <3>4. ASSUME NEW s \in Samples, NEW j \in 1..Len(queue'), queue'[j] = s PROVE Pending(s)
      <4>1. j + acked \in 1..Len(queue) /\ j + acked > acked /\ queue[j + acked] = s
        BY <3>1, <3>3, <3>4
      <4>2. QED
        BY <3>2, <4>1 DEF Pending
    <3>5. ASSUME NEW s \in Samples, Pending(s)' PROVE Pending(s)
      BY <3>1, <3>4, <3>5 DEF Pending, InHand
    <3>6. QED
      BY <3>5
  <2>2. copies' = copies /\ late' = late /\ faults' = faults
    BY <1>15 DEF ReplaceQueue, agentVars, netVars, serverVars
  <2>3. QED
    BY <1>0, <2>1, <2>2, WeighSame
<1>16. CASE Collect
  <2>1. Less
    <3>1. next' = next + 1 /\ cur' = next + 1 /\ queue' = queue /\ acked' = acked /\ next \in Nat
          /\ pc = "collect" /\ pc' = "post"
      BY <1>0, <1>16 DEF Collect, TypeOK
    <3>2. Got' = Got
      BY <3>1 DEF Got
    <3>3. ASSUME NEW s \in Samples, Pending(s)' PROVE Pending(s)
      BY <3>1, <3>2, <3>3 DEF Pending, InHand, Samples
    <3>4. QED
      BY <3>3
  <2>2. copies' = copies /\ late' = late /\ faults' = faults
    BY <1>16 DEF Collect, agentVars, netVars, serverVars
  <2>3. QED
    BY <1>0, <2>1, <2>2, WeighSame
<1>17. CASE AddToQueue
  <2>1. Less
    <3>1. /\ pc = "add" /\ cur \in Samples /\ queue \in Seq(Samples) /\ acked = 0 /\ next' = next
          /\ acked' = acked /\ cur' = NoSample /\ pc' = "idle"
          /\ queue' = Newest(Append(queue, cur))
      BY <1>17 DEF AddToQueue, Inv, TypeOK, Control
    <3>2. Got = 0 /\ Got' = 0
      BY <3>1 DEF Got
    <3>3. \A j \in 1..Len(queue') : \E i \in 1..Len(queue) + 1 : queue'[j] = Append(queue, cur)[i]
      <4>1. Append(queue, cur) \in Seq(Samples) /\ Len(Append(queue, cur)) = Len(queue) + 1
        BY <3>1
      <4>2. \A j \in 1..Len(Newest(Append(queue, cur))) :
                LET i == j + (Len(Append(queue, cur)) - Len(Newest(Append(queue, cur))))
                IN  /\ i \in 1..Len(Append(queue, cur))
                    /\ Newest(Append(queue, cur))[j] = Append(queue, cur)[i]
        BY <4>1, NewestIsSuffix
      <4>3. QED
        BY <3>1, <4>1, <4>2
    <3>4. \A i \in 1..Len(queue) + 1 : Append(queue, cur)[i] =
              IF i \in 1..Len(queue) THEN queue[i] ELSE cur
      BY <3>1
    <3>5. ASSUME NEW s \in Samples, NEW j \in 1..Len(queue'), queue'[j] = s PROVE Pending(s)
      <4>1. s = cur \/ \E i \in 1..Len(queue) : queue[i] = s
        BY <3>3, <3>4, <3>5
      <4>2. \A i \in 1..Len(queue) : i > 0
        OBVIOUS
      <4>3. QED
        BY <3>1, <3>2, <4>1, <4>2 DEF Pending, InHand
    <3>6. ASSUME NEW s \in Samples, Pending(s)' PROVE Pending(s)
      BY <3>1, <3>5, <3>6 DEF Pending, InHand, Samples, NoSample
    <3>7. QED
      BY <3>6
  <2>2. copies' = copies /\ late' = late /\ faults' = faults
    BY <1>17 DEF AddToQueue, agentVars, netVars, serverVars
  <2>3. QED
    BY <1>0, <2>1, <2>2, WeighSame
<1>18. CASE ReadQueueFails
  <2>1. copies' = copies /\ late' = late /\ faults' = faults + 1
    BY <1>18 DEF ReadQueueFails, Fault, agentVars, netVars, serverVars
  <2>2. QED
    BY <1>0, <2>1, WeighSame
<1>19. CASE ReplaceQueueFails
  <2>1. copies' = copies /\ late' = late /\ faults' = faults + 1
    BY <1>19 DEF ReplaceQueueFails, Fault, agentVars, netVars, serverVars
  <2>2. QED
    BY <1>0, <2>1, WeighSame
<1>20. CASE SendInventoryFails
  <2>1. copies' = copies /\ late' = late /\ faults' = faults + 1
    BY <1>20 DEF SendInventoryFails, Fault, agentVars, netVars, serverVars
  <2>2. QED
    BY <1>0, <2>1, WeighSame
<1>21. CASE GetConfigFails
  <2>1. copies' = copies /\ late' = late /\ faults' = faults + 1
    BY <1>21 DEF GetConfigFails, Fault, agentVars, netVars, serverVars
  <2>2. QED
    BY <1>0, <2>1, WeighSame
<1>22. CASE AddUnread
  <2>1. copies' = copies /\ late' = late /\ faults' = faults + 1
    BY <1>22 DEF AddUnread, Fault, agentVars, netVars, serverVars
  <2>2. QED
    BY <1>0, <2>1, WeighSame
<1>23. CASE AddFails
  <2>1. copies' = copies /\ late' = late /\ faults' = faults + 1
    BY <1>23 DEF AddFails, Fault, agentVars, netVars, serverVars
  <2>2. QED
    BY <1>0, <2>1, WeighSame
<1>24. CASE ServerDown
  <2>1. copies' = copies /\ late' = late /\ faults' = faults + 1
    BY <1>24 DEF ServerDown, Fault, agentVars, netVars, serverVars
  <2>2. QED
    BY <1>0, <2>1, WeighSame
<1>25. CASE PostTimesOut
  <2>1. copies' = copies /\ faults' = faults + 1 /\ Posting /\ GiveUp
    BY <1>25 DEF PostTimesOut, PostFails, Fault, serverVars
  <2>2. CASE req = "sent"
    BY <1>0, <2>1, <2>2, OutgoingPending, WeighGivenUp
  <2>3. CASE req # "sent"
    <3>1. late' = late
      BY <2>1, <2>3 DEF GiveUp
    <3>2. QED
      BY <1>0, <2>1, <3>1, WeighSame
  <2>4. QED
    BY <2>2, <2>3
<1>26. CASE Crash
  <2>1. copies' = copies /\ faults' = faults + 1
        /\ IF Posting THEN GiveUp ELSE UNCHANGED <<req, late>>
    BY <1>26 DEF Crash, Fault, serverVars
  <2>2. CASE Posting /\ req = "sent"
    BY <1>0, <2>1, <2>2, OutgoingPending, WeighGivenUp
  <2>3. CASE ~(Posting /\ req = "sent")
    <3>1. late' = late
      BY <2>1, <2>3 DEF GiveUp
    <3>2. QED
      BY <1>0, <2>1, <3>1, WeighSame
  <2>4. QED
    BY <2>2, <2>3
<1>27. CASE ServerIngest
  <2>1. Outgoing \in Samples /\ late' = late /\ faults' = faults /\ req = "sent" /\ Posting
    BY <1>27, OutgoingIsSample DEF ServerIngest, Inv, Control
  <2>2. CASE Outgoing \in Rejected
    <3>1. copies' = copies /\ req' = "refused" /\ UNCHANGED agentVars /\ up' = up
      BY <1>27, <2>2 DEF ServerIngest, serverVars
    <3>2. Less
      BY <2>1, <3>1 DEF Pending, InHand, Got, agentVars
    <3>3. QED
      BY <1>0, <2>1, <3>1, <3>2, WeighSame
  <2>3. CASE Outgoing \notin Rejected
    <3>1. copies' = [copies EXCEPT ![Outgoing] = @ + 1] /\ req' = "applied"
      BY <1>27, <2>3 DEF ServerIngest, Ingest
    <3>2. ~Pending(Outgoing)' /\ Less
      BY <1>27, <3>1, AppliedNotPending
    <3>3. Pending(Outgoing)
      BY <2>1, OutgoingPending
    <3>4. ASSUME NEW s \in Samples PROVE Weight(s)' <= 1 + faults'
      <4>1. LateOf(s)' = LateOf(s) /\ Cardinality(LateOf(s)) \in Nat
        BY <2>1, LateCount DEF LateOf, Weighed
      <4>2. copies[s] \in Nat /\ faults \in Nat
        BY <1>0, ConstantsAssumption DEF TypeOK
      <4>3. Weight(s) <= 1 + faults
        BY DEF Weighed
      <4>4. copies'[s] = IF s = Outgoing THEN copies[s] + 1 ELSE copies[s]
        BY <1>0, <3>1 DEF TypeOK
      <4>5. CASE s = Outgoing
        <5>1. copies'[s] = copies[s] + 1 /\ Pending(s) /\ ~Pending(s)'
          BY <2>1, <3>2, <3>3, <4>4, <4>5, <1>27 DEF ServerIngest, Outgoing, agentVars
        <5>2. QED
          BY <2>1, <4>1, <4>2, <4>3, <5>1 DEF Weight
      <4>6. CASE s # Outgoing
        <5>1. copies'[s] = copies[s] /\ (Pending(s)' => Pending(s))
          BY <3>2, <4>4, <4>6
        <5>2. QED
          BY <2>1, <4>1, <4>2, <4>3, <5>1 DEF Weight
      <4>7. QED
        BY <4>5, <4>6
    <3>5. QED
      BY <2>1, <3>4 DEF Weighed
  <2>4. QED
    BY <2>2, <2>3
<1>28. ASSUME NEW r \in late, ServerIngestLate(r) PROVE Weighed'
  <2>1. late' = late \ {r} /\ faults' = faults /\ UNCHANGED agentVars /\ req' = req /\ up' = up
        /\ r.sample \in Samples
    BY <1>0, <1>28 DEF ServerIngestLate, TypeOK
  <2>2. \A s \in Samples : copies'[s] = copies[s] \/ (s = r.sample /\ copies'[s] = copies[s] + 1)
    BY <1>0, <1>28 DEF ServerIngestLate, Ingest, serverVars, TypeOK
  <2>3. ASSUME NEW s \in Samples PROVE Weight(s)' <= 1 + faults'
    <3>1. Pending(s)' <=> Pending(s)
      BY <2>1 DEF Pending, InHand, Got, agentVars
    <3>2. /\ Cardinality(LateOf(s)) \in Nat
          /\ IF r.sample = s THEN Cardinality(LateOf(s)') = Cardinality(LateOf(s)) - 1
             ELSE LateOf(s)' = LateOf(s)
      BY <2>1, LateCount, LateRemoved DEF Weighed
    <3>3. copies[s] \in Nat /\ faults \in Nat
      BY <1>0, ConstantsAssumption DEF TypeOK
    <3>4. Weight(s) <= 1 + faults
      BY DEF Weighed
    <3>5. CASE s = r.sample
      <4>1. copies'[s] <= copies[s] + 1 /\ copies'[s] \in Nat
        BY <2>2, <3>3
      <4>2. QED
        BY <2>1, <3>1, <3>2, <3>3, <3>4, <3>5, <4>1 DEF Weight
    <3>6. CASE s # r.sample
      <4>1. copies'[s] = copies[s] /\ LateOf(s)' = LateOf(s)
        BY <2>2, <3>2, <3>6
      <4>2. QED
        BY <2>1, <3>1, <3>2, <3>3, <3>4, <4>1 DEF Weight
    <3>7. QED
      BY <3>5, <3>6
  <2>4. IsFiniteSet(late')
    BY <2>1, FS_RemoveElement DEF Weighed
  <2>5. QED
    BY <2>3, <2>4 DEF Weighed
<1>29. CASE UNCHANGED vars
  <2>1. copies' = copies /\ late' = late /\ faults' = faults /\ Less
    BY <1>29 DEF Pending, InHand, Got, vars, agentVars, netVars, serverVars
  <2>2. QED
    BY <1>0, <2>1, WeighSame
<1>30. QED
  BY <1>1, <1>2, <1>3, <1>4, <1>5, <1>6, <1>7, <1>8, <1>9, <1>10, <1>11, <1>12,
     <1>13, <1>14, <1>15, <1>16, <1>17, <1>18, <1>19, <1>20, <1>21, <1>22, <1>23,
     <1>24, <1>25, <1>26, <1>27, <1>28, <1>29
  DEF Next, AgentStep, AgentFault, ServerStep

\* A sample is stored once, and at most once more for each crash, timeout, failed
\* write or outage (flushQueue, PostMetrics, ingest).
THEOREM DuplicatesAreBounded == Spec => []DuplicatesBounded
<1>1. Inv /\ Weighed => DuplicatesBounded
  <2> SUFFICES ASSUME Inv, Weighed, NEW s \in Samples PROVE copies[s] <= 1 + faults
    BY DEF DuplicatesBounded
  <2>1. copies[s] \in Nat /\ faults \in Nat /\ Cardinality(LateOf(s)) \in Nat
    BY LateCount, ConstantsAssumption DEF Inv, TypeOK, Weighed
  <2>2. Weight(s) <= 1 + faults
    BY DEF Weighed
  <2>3. QED
    BY <2>1, <2>2 DEF Weight
<1>2. QED
  BY <1>1, WeighInit, WeighStep, Invariance, PTL DEF Spec
=============================================================================
