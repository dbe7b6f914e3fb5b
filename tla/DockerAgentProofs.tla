------------------------- MODULE DockerAgentProofs -------------------------
(***************************************************************************)
(* Proofs about CpuShare, for every width of a word, and about             *)
(* DockerAgent, for any number of faults and any counters: the agent       *)
(* reports as the device on disk, every other device is explained by a     *)
(* fault, and no work is counted twice but that in guests.                 *)
(***************************************************************************)
EXTENDS DockerAgent, FiniteSetTheorems, TLAPS

-----------------------------------------------------------------------------
(* The shares of CPU time.                                                  *)

Word01 == 0..Word - 1

LEMMA MinusType ==
    ASSUME NEW a \in Word01, NEW b \in Word01
    PROVE  Minus(a, b) \in Word01
BY WordAssumption DEF Minus, Word01

LEMMA ReadingsType ==
    ASSUME NEW r \in Readings
    PROVE  r.total \in Word01 /\ r.idle \in Word01 /\ Busy(r) \in Word01
BY WordAssumption DEF Readings, Word01, Busy

LEMMA NoShareInRange == NoShare \in Share /\ NoShare.busy <= NoShare.total
BY WordAssumption DEF NoShare, Share

\* A fraction of wrapped differences is a proper one exactly when the idle time
\* has grown by no more than the total.
LEMMA WrappedShare ==
    ASSUME NEW t \in Word01, NEW i \in Word01
    PROVE  Minus(t, i) <= t <=> i <= t
BY WordAssumption DEF Minus, Word01

\* The share the native agent reports is a word, and never above the whole,
\* whatever the operating system has counted (the guard on idleDelta in
\* calculateCPU).
THEOREM NativeShareInRange ==
    ASSUME NEW previous \in Readings, NEW current \in Readings
    PROVE  /\ CalculateCPU(previous, current) \in Share
           /\ CalculateCPU(previous, current).busy <= CalculateCPU(previous, current).total
<1> DEFINE t == Minus(current.total, previous.total)
           i == Minus(current.idle, previous.idle)
<1>1. t \in Word01 /\ i \in Word01
  BY ReadingsType, MinusType
<1>2. Minus(t, i) \in Word01
  BY <1>1, MinusType
<1>3. t \in Nat /\ i \in Nat
  BY <1>1, WordAssumption DEF Word01
<1>4. CASE FirstOrStill(previous, current) \/ i > t
  BY <1>4, NoShareInRange DEF CalculateCPU
<1>5. CASE ~FirstOrStill(previous, current) /\ i <= t
  <2> DEFINE s == [busy |-> Minus(t, i), total |-> t]
  <2>1. CalculateCPU(previous, current) = s
    BY <1>3, <1>5 DEF CalculateCPU
  <2>2. s \in Share
    BY <1>1, <1>2 DEF Share, Word01
  <2>3. s.busy <= s.total
    BY <1>1, <1>5, WrappedShare
  <2>. QED  BY <2>1, <2>2, <2>3
<1>. QED  BY <1>3, <1>4, <1>5

\* The Docker agent, which lacks that guard, reports more than the whole exactly
\* where the native agent would report nothing instead.
THEOREM DockerShareOutOfRange ==
    ASSUME NEW previous \in Readings, NEW current \in Readings
    PROVE  CpuPercent(previous, current).busy > CpuPercent(previous, current).total
              <=> CpuPercent(previous, current) # CalculateCPU(previous, current)
<1> DEFINE t == Minus(current.total, previous.total)
           i == Minus(current.idle, previous.idle)
<1>1. t \in Word01 /\ i \in Word01
  BY ReadingsType, MinusType
<1>2. Minus(t, i) \in Word01
  BY <1>1, MinusType
<1>3. t \in Nat /\ i \in Nat /\ Minus(t, i) \in Nat
  BY <1>1, <1>2, WordAssumption DEF Word01
<1>4. CASE FirstOrStill(previous, current)
  BY <1>4, NoShareInRange DEF CalculateCPU, CpuPercent, NoShare
<1>5. CASE ~FirstOrStill(previous, current)
  <2> DEFINE s == [busy |-> Minus(t, i), total |-> t]
  <2>1. CpuPercent(previous, current) = s
    BY <1>5 DEF CpuPercent
  <2>2. CalculateCPU(previous, current) = IF i > t THEN NoShare ELSE s
    BY <1>5 DEF CalculateCPU
  <2>3. s.busy > s.total <=> i > t
    BY <1>1, <1>3, WrappedShare
  <2>4. i > t => s # NoShare
    BY <2>3, <1>3 DEF NoShare
  <2>. QED  BY <2>1, <2>2, <2>3, <2>4
<1>. QED  BY <1>4, <1>5

\* Between two readings the busy time is right, also when the idle time has gone
\* back and its difference has wrapped; otherwise nothing is reported.
LEMMA DockerShareIsBusyTime ==
    ASSUME NEW previous \in Readings, NEW current \in Readings,
           Busy(previous) <= Busy(current)
    PROVE  CpuPercent(previous, current).busy =
               IF FirstOrStill(previous, current) THEN 0 ELSE Busy(current) - Busy(previous)
<1> DEFINE t == Minus(current.total, previous.total)
           i == Minus(current.idle, previous.idle)
<1>1. CASE FirstOrStill(previous, current)
  BY <1>1 DEF CpuPercent, NoShare
<1>2. CASE ~FirstOrStill(previous, current)
  <2>1. CpuPercent(previous, current).busy = Minus(t, i)
    BY <1>2 DEF CpuPercent
  <2>2. /\ previous.total \in Nat /\ previous.idle \in Nat
        /\ current.total \in Nat /\ current.idle \in Nat
        /\ Busy(current) \in Nat /\ Busy(current) < Word
        /\ Busy(previous) \in Nat
    BY ReadingsType, WordAssumption DEF Word01
  <2>3. previous.total < current.total
    BY <1>2, <2>2 DEF FirstOrStill
  <2>4. t = current.total - previous.total
    BY <2>2, <2>3 DEF Minus
  <2>5. i = IF previous.idle <= current.idle THEN current.idle - previous.idle
            ELSE current.idle - previous.idle + Word
    BY DEF Minus
  <2>6. Minus(t, i) = IF i <= t THEN t - i ELSE t - i + Word
    BY DEF Minus
  <2>7. /\ Busy(current) = current.total - current.idle
        /\ Busy(previous) = previous.total - previous.idle
    BY DEF Busy
  <2>. HIDE DEF t, i
  <2>8. Minus(t, i) = Busy(current) - Busy(previous)
    BY <2>2, <2>3, <2>4, <2>5, <2>6, <2>7, WordAssumption
  <2>. QED  BY <1>2, <2>1, <2>8
<1>. QED  BY <1>1, <1>2

-----------------------------------------------------------------------------
(* The agent.                                                               *)

Reporting == pc \in {"begin", "first", "inventory", "config", "collect", "post", "sleep"}
Enrolling == pc \in {"await", "save", "write"}

\* An enrollment that is not under way and has left no identity on disk is
\* explained by a fault.
Asked == /\ Enrolling => sent # 0
         /\ sent <= faults + (IF stateFile # NoId \/ Enrolling THEN 1 ELSE 0)

\* What readCPU takes for busy time.
Done(c) == c.work + c.guest

\* The samples have spoken of no time beyond the last reading, when there is one.
Counted == /\ Done(since) + counted <= Done(cpu)
           /\ Busy(lastCPU) <= Done(cpu)
           /\ lastCPU.total # 0 => Done(since) + counted <= Busy(lastCPU)

\* The inductive invariant.
Inv == TypeOK /\ IdentityDurable /\ Asked /\ Counted

LEMMA TicksType ==
    ASSUME NEW r \in Ticks
    PROVE  /\ r.idle \in Nat /\ r.total \in Nat /\ r.idle <= r.total /\ Busy(r) \in Nat
           /\ r \in Readings
BY BoundsAssumption, WordAssumption DEF Ticks, Busy, Readings

LEMMA MachineType ==
    ASSUME NEW c \in Machine
    PROVE  /\ c.idle \in Nat /\ c.work \in Nat /\ c.guest \in Nat /\ Done(c) \in Nat
           /\ ReadCPU(c) \in Ticks /\ Busy(ReadCPU(c)) = Done(c)
BY BoundsAssumption DEF Machine, Ticks, ReadCPU, Done, Busy

LEMMA UnreadType == Unread \in Ticks /\ Busy(Unread) = 0 /\ Unread.total = 0
BY BoundsAssumption, WordAssumption DEF Unread, Ticks, Busy

LEMMA InvInit == Init => Inv
<1>. SUFFICES ASSUME Init PROVE Inv
  OBVIOUS
<1>. USE DEF Init
<1>1. lastCPU \in Ticks /\ cpu \in Machine
  BY UnreadType
<1>2. /\ stateFile \in 0..sent /\ id \in 0..sent /\ sent \in Nat
      /\ since \in Machine /\ counted \in Nat /\ faults \in 0..MaxFaults
      /\ requests \union devices \subseteq 1..sent
  BY BoundsAssumption DEF NoId
<1>3. TypeOK
  BY <1>1, <1>2 DEF TypeOK, PCs
<1>4. IdentityDurable /\ Asked
  BY DEF IdentityDurable, Asked, Enrolling, NoId
<1>5. Counted
  BY UnreadType, MachineType DEF Counted
<1>. QED  BY <1>3, <1>4, <1>5 DEF Inv

LEMMA ShareType ==
    ASSUME NEW previous \in Ticks, NEW current \in Ticks
    PROVE  CpuPercent(previous, current).busy \in Nat
<1>1. previous \in Readings /\ current \in Readings
  BY TicksType
<1>2. \A a, b \in Word01 : Minus(a, b) \in Word01
  BY MinusType
<1>3. CASE FirstOrStill(previous, current)
  BY <1>3 DEF CpuPercent, NoShare
<1>4. CASE ~FirstOrStill(previous, current)
  <2>1. CpuPercent(previous, current).busy \in Word01
    BY <1>1, <1>2, <1>4, ReadingsType DEF CpuPercent
  <2>. QED  BY <2>1, WordAssumption DEF Word01
<1>. QED  BY <1>3, <1>4

\* The steps that leave the readings and the samples alone.
LEMMA CountedKept ==
    Counted /\ UNCHANGED <<since, counted, cpu, lastCPU>> => Counted'
BY DEF Counted

\* A fault is bounded, and explains one more enrollment.
LEMMA FaultFacts ==
    TypeOK => /\ faults \in Nat /\ sent \in Nat
              /\ Fault => faults' = faults + 1 /\ faults' \in 0..MaxFaults
BY BoundsAssumption DEF TypeOK, Fault

LEMMA TypeStep == Inv /\ [Next]_vars => TypeOK'
<1>. SUFFICES ASSUME Inv, [Next]_vars PROVE TypeOK'
  OBVIOUS
<1>1. TypeOK
  BY DEF Inv
<1>2. /\ faults \in Nat /\ sent \in Nat
      /\ Fault => faults' \in 0..MaxFaults
  BY <1>1, FaultFacts
<1>3. cpu \in Machine /\ lastCPU \in Ticks /\ Unread \in Ticks /\ ReadCPU(cpu) \in Ticks
  BY <1>1, UnreadType, MachineType DEF TypeOK
<1>. USE DEF At, Goto, identity, memory, server, TypeOK, PCs
<1>4. CASE Load
  BY <1>1, <1>2, <1>4 DEF Load
<1>5. CASE SendEnroll
  BY <1>1, <1>2, <1>5 DEF SendEnroll
<1>6. CASE ReadIdentityFails
  BY <1>1, <1>2, <1>6 DEF ReadIdentityFails
<1>7. CASE ServerEnroll
  BY <1>1, <1>2, <1>7 DEF ServerEnroll
<1>8. CASE ReceiveIdentity
  BY <1>1, <1>2, <1>8 DEF ReceiveIdentity
<1>9. CASE EnrollFails
  BY <1>1, <1>2, <1>9 DEF EnrollFails
<1>10. CASE Truncate
  BY <1>1, <1>2, <1>10 DEF Truncate, NoId
<1>11. CASE Write
  BY <1>1, <1>2, <1>11 DEF Write
<1>12. CASE SaveFails
  BY <1>1, <1>2, <1>12 DEF SaveFails
<1>13. CASE Stop
  BY <1>1, <1>2, <1>13 DEF Stop, NoId
<1>14. CASE Crash
  BY <1>1, <1>2, <1>14 DEF Crash, NoId
<1>15. CASE Begin
  <2>1. since' = cpu /\ counted' = 0 /\ lastCPU' = ReadCPU(cpu)
    BY <1>15 DEF Begin, NewClient
  <2>2. /\ UNCHANGED <<identity, server, cpu, faults>>
        /\ pc' \in PCs /\ inventoried' \in BOOLEAN /\ reported' \in BOOLEAN
    BY <1>15 DEF Begin, NewClient, Goto, PCs
  <2>. QED  BY <1>1, <1>3, <2>1, <2>2 DEF identity, server, TypeOK
<1>16. CASE BeginUnread
  <2>1. faults' \in 0..MaxFaults
    <3>1. Fault
      BY <1>16 DEF BeginUnread
    <3>. QED  BY <1>2, <3>1
  <2>2. since' = cpu /\ counted' = 0 /\ lastCPU' = Unread
    BY <1>16 DEF BeginUnread, NewClient
  <2>3. /\ UNCHANGED <<identity, server, cpu>>
        /\ pc' \in PCs /\ inventoried' \in BOOLEAN /\ reported' \in BOOLEAN
    BY <1>16 DEF BeginUnread, NewClient, Goto, PCs
  <2>. QED  BY <1>1, <1>3, <2>1, <2>2, <2>3 DEF identity, server, TypeOK
<1>17. CASE SendInventory
  BY <1>1, <1>2, <1>17 DEF SendInventory, InventoryDue, AfterInventory
<1>18. CASE InventoryFails
  BY <1>1, <1>2, <1>18 DEF InventoryFails, InventoryDue, AfterInventory
<1>19. CASE InventoryRefused
  BY <1>1, <1>2, <1>19 DEF InventoryRefused, InventoryDue, AfterInventory
<1>20. CASE InventoryNotDue
  BY <1>1, <1>2, <1>20 DEF InventoryNotDue, AfterInventory
<1>21. CASE GetConfig
  BY <1>1, <1>2, <1>21 DEF GetConfig
<1>22. CASE Collect
  <2>1. counted' \in Nat
    BY <1>1, <1>3, <1>22, ShareType DEF Collect, CollectFrom, TypeOK
  <2>2. /\ lastCPU' \in Ticks /\ faults' \in 0..MaxFaults
        /\ UNCHANGED <<identity, inventoried, since, server, cpu>>
    BY <1>1, <1>2, <1>3, <1>22 DEF Collect, CollectFrom, TypeOK
  <2>3. pc' \in PCs /\ reported' \in BOOLEAN
    BY <1>22 DEF Collect, CollectFrom, Goto, PCs
  <2>. QED  BY <1>1, <2>1, <2>2, <2>3 DEF identity, server, TypeOK
<1>23. CASE CollectUnread
  <2>1. Unread \in Ticks /\ counted' \in Nat
    BY <1>1, <1>3, <1>23, ShareType DEF CollectUnread, CollectFrom, TypeOK
  <2>2. /\ lastCPU' \in Ticks /\ faults' \in 0..MaxFaults
        /\ UNCHANGED <<identity, inventoried, since, server, cpu>>
    BY <1>1, <1>2, <1>3, <1>23 DEF CollectUnread, CollectFrom, TypeOK
  <2>3. pc' \in PCs /\ reported' \in BOOLEAN
    BY <1>23 DEF CollectUnread, CollectFrom, Goto, PCs
  <2>. QED  BY <1>1, <2>1, <2>2, <2>3 DEF identity, server, TypeOK
<1>24. CASE PostStored
  BY <1>1, <1>2, <1>24 DEF PostStored
<1>25. CASE PostFails
  BY <1>1, <1>2, <1>25 DEF PostFails
<1>26. CASE PostRefused
  BY <1>1, <1>2, <1>26 DEF PostRefused
<1>27. CASE Wake
  BY <1>1, <1>2, <1>27 DEF Wake
<1>28. CASE DayPasses
  BY <1>1, <1>2, <1>28 DEF DayPasses
<1>29. CASE Tick
  <2>1. cpu' \in Machine
    BY <1>1, <1>29, BoundsAssumption DEF Tick, Machine, TypeOK
  <2>. QED  BY <1>1, <1>2, <2>1, <1>29 DEF Tick
<1>30. CASE WaitGoesBack
  <2>1. cpu' \in Machine
    BY <1>1, <1>30, BoundsAssumption DEF WaitGoesBack, Machine, TypeOK
  <2>. QED  BY <1>1, <1>2, <2>1, <1>30 DEF WaitGoesBack
<1>31. CASE DeleteDevice
  BY <1>1, <1>2, <1>31 DEF DeleteDevice
<1>32. CASE UNCHANGED vars
  BY <1>1, <1>2, <1>32 DEF vars
<1>. QED
  BY <1>4, <1>5, <1>6, <1>7, <1>8, <1>9, <1>10, <1>11, <1>12, <1>13, <1>14, <1>15, <1>16,
     <1>17, <1>18, <1>19, <1>20, <1>21, <1>22, <1>23, <1>24, <1>25, <1>26, <1>27, <1>28,
     <1>29, <1>30, <1>31, <1>32
  DEF Next, AgentStep, AgentFault, Environment

LEMMA IdentityStep == Inv /\ [Next]_vars => IdentityDurable' /\ Asked'
<1>. SUFFICES ASSUME Inv, [Next]_vars PROVE IdentityDurable' /\ Asked'
  OBVIOUS
<1>1. IdentityDurable /\ Asked
  BY DEF Inv
<1>2. /\ faults \in Nat /\ sent \in Nat /\ stateFile \in Nat
      /\ Fault => faults' = faults + 1
  BY FaultFacts DEF Inv, TypeOK
<1>. USE DEF At, Goto, identity, memory, server, IdentityDurable, Asked, Enrolling, NoId
<1>4. CASE Load
  BY <1>1, <1>2, <1>4 DEF Load
<1>5. CASE SendEnroll
  BY <1>1, <1>2, <1>5 DEF SendEnroll
<1>6. CASE ReadIdentityFails
  BY <1>1, <1>2, <1>6 DEF ReadIdentityFails
<1>7. CASE ServerEnroll
  BY <1>1, <1>2, <1>7 DEF ServerEnroll
<1>8. CASE ReceiveIdentity
  BY <1>1, <1>2, <1>8 DEF ReceiveIdentity
<1>9. CASE EnrollFails
  BY <1>1, <1>2, <1>9 DEF EnrollFails
<1>10. CASE Truncate
  BY <1>1, <1>2, <1>10 DEF Truncate
<1>11. CASE Write
  BY <1>1, <1>2, <1>11 DEF Write
<1>12. CASE SaveFails
  BY <1>1, <1>2, <1>12 DEF SaveFails
<1>13. CASE Stop
  BY <1>1, <1>2, <1>13 DEF Stop
<1>14. CASE Crash
  BY <1>1, <1>2, <1>14 DEF Crash
<1>15. CASE Begin
  BY <1>1, <1>2, <1>15 DEF Begin, NewClient
<1>16. CASE BeginUnread
  BY <1>1, <1>2, <1>16 DEF BeginUnread, NewClient
<1>17. CASE SendInventory
  BY <1>1, <1>2, <1>17 DEF SendInventory, InventoryDue, AfterInventory
<1>18. CASE InventoryFails
  BY <1>1, <1>2, <1>18 DEF InventoryFails, InventoryDue, AfterInventory
<1>19. CASE InventoryRefused
  BY <1>1, <1>2, <1>19 DEF InventoryRefused, InventoryDue, AfterInventory
<1>20. CASE InventoryNotDue
  BY <1>1, <1>2, <1>20 DEF InventoryNotDue, AfterInventory
<1>21. CASE GetConfig
  BY <1>1, <1>2, <1>21 DEF GetConfig
<1>22. CASE Collect
  BY <1>1, <1>2, <1>22 DEF Collect, CollectFrom
<1>23. CASE CollectUnread
  BY <1>1, <1>2, <1>23 DEF CollectUnread, CollectFrom
<1>24. CASE PostStored
  BY <1>1, <1>2, <1>24 DEF PostStored
<1>25. CASE PostFails
  BY <1>1, <1>2, <1>25 DEF PostFails
<1>26. CASE PostRefused
  BY <1>1, <1>2, <1>26 DEF PostRefused
<1>27. CASE Wake
  BY <1>1, <1>2, <1>27 DEF Wake
<1>28. CASE DayPasses
  BY <1>1, <1>2, <1>28 DEF DayPasses
<1>29. CASE Tick
  BY <1>1, <1>2, <1>29 DEF Tick
<1>30. CASE WaitGoesBack
  BY <1>1, <1>2, <1>30 DEF WaitGoesBack
<1>31. CASE DeleteDevice
  BY <1>1, <1>2, <1>31 DEF DeleteDevice
<1>32. CASE UNCHANGED vars
  BY <1>1, <1>2, <1>32 DEF vars
<1>. QED
  BY <1>4, <1>5, <1>6, <1>7, <1>8, <1>9, <1>10, <1>11, <1>12, <1>13, <1>14, <1>15, <1>16,
     <1>17, <1>18, <1>19, <1>20, <1>21, <1>22, <1>23, <1>24, <1>25, <1>26, <1>27, <1>28,
     <1>29, <1>30, <1>31, <1>32
  DEF Next, AgentStep, AgentFault, Environment

LEMMA CountedStep == Inv /\ [Next]_vars => Counted'
<1>. SUFFICES ASSUME Inv, [Next]_vars PROVE Counted'
  OBVIOUS
<1>1. Counted /\ counted \in Nat
  BY DEF Inv, TypeOK
<1>2. cpu \in Machine /\ since \in Machine /\ lastCPU \in Ticks
  BY DEF Inv, TypeOK
<1> DEFINE now == ReadCPU(cpu)
<1>3. /\ now \in Readings /\ lastCPU \in Readings
      /\ Busy(now) = Done(cpu) /\ Done(cpu) \in Nat /\ Done(since) \in Nat
      /\ Busy(lastCPU) \in Nat /\ lastCPU.total \in Nat
  BY <1>2, TicksType, MachineType
<1>4. CASE UNCHANGED <<since, counted, cpu, lastCPU>>
  BY <1>1, <1>4, CountedKept
<1>5. CASE Begin
  <2>1. since' = cpu /\ counted' = 0 /\ lastCPU' = now /\ cpu' = cpu
    BY <1>5 DEF Begin, NewClient
  <2>. HIDE DEF now
  <2>. QED  BY <1>3, <2>1 DEF Counted
<1>6. CASE BeginUnread
  <2>1. since' = cpu /\ counted' = 0 /\ lastCPU' = Unread /\ cpu' = cpu
    BY <1>6 DEF BeginUnread, NewClient
  <2>. QED  BY <1>3, <2>1, UnreadType DEF Counted
<1>7. CASE Collect
  <2> DEFINE s == CpuPercent(lastCPU, now).busy
  <2>1. counted' = counted + s /\ lastCPU' = now /\ cpu' = cpu /\ since' = since
    BY <1>7 DEF Collect, CollectFrom
  <2>. HIDE DEF now
  <2>2. s = IF FirstOrStill(lastCPU, now) THEN 0 ELSE Busy(now) - Busy(lastCPU)
    BY <1>1, <1>3, DockerShareIsBusyTime DEF Counted
  <2>. HIDE DEF s
  <2>3. Done(since) + counted + s <= Done(cpu)
    <3>1. CASE FirstOrStill(lastCPU, now)
      BY <1>1, <1>3, <2>2, <3>1 DEF Counted
    <3>2. CASE ~FirstOrStill(lastCPU, now)
      <4>1. Done(since) + counted <= Busy(lastCPU) /\ s = Done(cpu) - Busy(lastCPU)
        BY <1>1, <1>3, <2>2, <3>2 DEF Counted, FirstOrStill
      <4>. QED  BY <1>1, <1>3, <4>1
    <3>. QED  BY <3>1, <3>2
  <2>4. s \in Nat
    BY <1>1, <1>3, <2>2 DEF Counted
  <2>. QED  BY <1>1, <1>3, <2>1, <2>3, <2>4 DEF Counted
<1>8. CASE CollectUnread
  <2>1. CpuPercent(lastCPU, Unread).busy = 0
    BY <1>3, UnreadType DEF CpuPercent, FirstOrStill, NoShare
  <2>2. counted' = counted + 0 /\ lastCPU' = Unread /\ cpu' = cpu /\ since' = since
    BY <1>8, <2>1 DEF CollectUnread, CollectFrom
  <2>. QED  BY <1>1, <1>3, <2>2, UnreadType DEF Counted
<1>9. CASE Tick \/ WaitGoesBack
  <2>1. UNCHANGED <<since, counted, lastCPU>>
    BY <1>9 DEF Tick, WaitGoesBack, memory
  <2>2. Done(cpu') >= Done(cpu) /\ Done(cpu') \in Nat
    BY <1>2, <1>9, MachineType DEF Tick, WaitGoesBack, Done, Machine
  <2>. QED  BY <1>1, <1>3, <2>1, <2>2 DEF Counted
<1>10. QED
  <2>1. Load \/ SendEnroll \/ ReadIdentityFails \/ ServerEnroll \/ ReceiveIdentity
          \/ EnrollFails \/ Truncate \/ Write \/ SaveFails \/ Stop \/ Crash
          => UNCHANGED <<since, counted, cpu, lastCPU>>
    BY DEF Load, SendEnroll, ReadIdentityFails, ServerEnroll, ReceiveIdentity, EnrollFails,
           Truncate, Write, SaveFails, Stop, Crash, memory
  <2>2. SendInventory \/ InventoryFails \/ InventoryRefused \/ InventoryNotDue \/ GetConfig
          \/ PostStored \/ PostFails \/ PostRefused \/ Wake \/ DayPasses \/ DeleteDevice
          \/ UNCHANGED vars => UNCHANGED <<since, counted, cpu, lastCPU>>
    BY DEF SendInventory, InventoryFails, InventoryRefused, InventoryNotDue, GetConfig,
           PostStored, PostFails, PostRefused, Wake, DayPasses, DeleteDevice, vars, memory
  <2>. QED  BY <1>4, <1>5, <1>6, <1>7, <1>8, <1>9, <2>1, <2>2
            DEF Next, AgentStep, AgentFault, Environment

LEMMA Invariance == Spec => []Inv
<1>1. Inv /\ [Next]_vars => Inv'
  BY TypeStep, IdentityStep, CountedStep DEF Inv
<1>. QED  BY InvInit, <1>1, PTL DEF Spec

\* Every file, counter and set of the agent and of the server holds a value of
\* its type, and the devices are among those that were asked for.
THEOREM TypeCorrect == Spec => []TypeOK
BY Invariance, PTL DEF Inv

\* The agent reports as the device whose identity is on disk, so that a restart
\* goes on with it (main saves the identity before it makes the client).
THEOREM ReportsAsOnDisk == Spec => []IdentityDurable
BY Invariance, PTL DEF Inv

\* Every device beyond the one the agent uses is explained by a fault, however
\* often the container is started (readIdentity, enroll and saveIdentity).
THEOREM OrphansExplained == Spec => []OrphansBounded
<1>1. Inv => OrphansBounded
  <2>. SUFFICES ASSUME Inv PROVE OrphansBounded
    OBVIOUS
  <2>1. sent \in Nat /\ faults \in Nat /\ devices \subseteq 1..sent
    BY DEF Inv, TypeOK
  <2>2. sent <= 1 + faults
    BY <2>1 DEF Inv, Asked
  <2>3. IsFiniteSet(1..sent) /\ Cardinality(1..sent) = sent
    BY <2>1, FS_Interval
  <2>4. IsFiniteSet(devices) /\ Cardinality(devices) <= sent
    BY <2>1, <2>3, FS_Subset
  <2>5. Cardinality(devices) \in Nat
    BY <2>4, FS_CardinalityType
  <2>. QED  BY <2>1, <2>2, <2>4, <2>5 DEF OrphansBounded
<1>. QED  BY Invariance, <1>1, PTL

\* No work enters two samples of a process, and none from before it began enters
\* one, for any width of a word, but for that in guests, which readCPU adds twice
\* (readCPU, cpuPercent and collect): the counters of work never go back.
THEOREM WorkIsCountedOnce == Spec => []WorkCountedOnce
<1>1. Inv => WorkCountedOnce
  <2>. SUFFICES ASSUME Inv PROVE WorkCountedOnce
    OBVIOUS
  <2>1. /\ since \in Machine /\ cpu \in Machine /\ counted \in Nat
        /\ Done(since) + counted <= Done(cpu)
    BY DEF Inv, TypeOK, Counted
  <2>2. /\ since.work \in Nat /\ since.guest \in Nat
        /\ cpu.work \in Nat /\ cpu.guest \in Nat
    BY <2>1, MachineType
  <2>. QED  BY <2>1, <2>2 DEF WorkCountedOnce, Done
<1>. QED  BY Invariance, <1>1, PTL
=============================================================================
