-------------------------- MODULE EnrollmentProofs --------------------------
(***************************************************************************)
(* Proofs about Enrollment for any set of agent processes and any number   *)
(* of faults: the types, that only identities the server has issued are    *)
(* used, how many devices there can be, and, for a machine with one agent  *)
(* process, that it is never without identity and token, that it reports   *)
(* only with the identity on disk, and what has to fail before a good      *)
(* identity is replaced.                                                   *)
(***************************************************************************)
EXTENDS Enrollment, FiniteSetTheorems, TLAPS

-----------------------------------------------------------------------------
\* Every step of every process keeps the types.
LEMMA TypeStep == TypeOK /\ [Next]_vars => TypeOK'
<1> SUFFICES ASSUME TypeOK, [Next]_vars PROVE TypeOK'
  OBVIOUS
<1> USE FaultsAssumption
<1>0. proc \in [Agents -> [pc : PCs, token : BOOLEAN, id : Nat, req : Nat]]
  BY DEF TypeOK
<1>1. CASE ServerStep
  BY <1>1 DEF ServerStep, ServerEnroll, TypeOK, PCs, NoId
<1>2. ASSUME NEW p \in Agents, Start(p) PROVE TypeOK'
  <2>0. "ensure" \in PCs
    BY DEF PCs
  <2>1. PICK b \in BOOLEAN : proc' = [proc EXCEPT ![p].pc = "ensure", ![p].token = b]
    <3>1. (cfgFile = "token") \in BOOLEAN
      OBVIOUS
    <3>2. QED
      BY <1>2, <3>1, Zenon DEF Start
  <2>2. proc' \in [Agents -> [pc : PCs, token : BOOLEAN, id : Nat, req : Nat]]
    BY <1>0, <2>0, <2>1
  <2>3. QED
    BY <1>2, <2>2, Zenon DEF Start, TypeOK
<1>3. ASSUME NEW p \in Agents, UseIdentity(p) PROVE TypeOK'
  <2>1. /\ proc' = [proc EXCEPT ![p].pc = "report", ![p].id = idFile]
        /\ "report" \in PCs /\ idFile \in Nat
    BY <1>3 DEF UseIdentity, PCs, TypeOK
  <2>2. proc' \in [Agents -> [pc : PCs, token : BOOLEAN, id : Nat, req : Nat]]
    BY <1>0, <2>1
  <2>3. QED
    BY <1>3, <2>2, Zenon DEF UseIdentity, TypeOK
<1>4. ASSUME NEW p \in Agents, NoToken(p) PROVE TypeOK'
  BY <1>4 DEF NoToken, AfterError, Down, TypeOK, PCs, NoId
<1>5. ASSUME NEW p \in Agents, SendEnroll(p) PROVE TypeOK'
  <2>1. /\ sent \in Nat /\ sent' = sent + 1
        /\ requests' = requests \union {sent + 1} /\ devices' = devices
    BY <1>5 DEF SendEnroll, TypeOK
  <2>2. requests' \subseteq 1..sent' /\ devices' \subseteq 1..sent'
    <3>1. 1..sent \subseteq 1..(sent + 1) /\ sent + 1 \in 1..(sent + 1)
      BY <2>1
    <3>2. QED
      BY <2>1, <3>1 DEF TypeOK
  <2>3. proc' \in [Agents -> [pc : PCs, token : BOOLEAN, id : Nat, req : Nat]]
    <3>1. sent + 1 \in Nat
      BY <2>1
    <3>2. PICK n \in Nat : proc' = [proc EXCEPT ![p].pc = "await", ![p].req = n]
      BY <1>5, <3>1 DEF SendEnroll
    <3>3. "await" \in PCs
      BY DEF PCs
    <3>4. QED
      BY <1>0, <3>2, <3>3
  <2>4. QED
    BY <1>5, <2>1, <2>2, <2>3 DEF SendEnroll, TypeOK
<1>6. ASSUME NEW p \in Agents, ReceiveIdentity(p) PROVE TypeOK'
  BY <1>6 DEF ReceiveIdentity, Goto, TypeOK, PCs, NoId
<1>7. ASSUME NEW p \in Agents, TruncateIdentity(p) PROVE TypeOK'
  BY <1>7 DEF TruncateIdentity, Goto, TypeOK, PCs, NoId
<1>8. ASSUME NEW p \in Agents, WriteIdentity(p) PROVE TypeOK'
  <2>1. PICK n \in Nat : n = proc[p].req
    BY DEF TypeOK
  <2>2. /\ idFile' = n
        /\ proc' = [proc EXCEPT ![p].pc = "saveCfg", ![p].id = n, ![p].token = FALSE]
    BY <1>8, <2>1, Zenon DEF WriteIdentity
  <2>3. proc' \in [Agents -> [pc : PCs, token : BOOLEAN, id : Nat, req : Nat]]
    <3>1. "saveCfg" \in PCs /\ FALSE \in BOOLEAN
      BY DEF PCs
    <3>2. QED
      BY <1>0, <2>2, <3>1
  <2>4. QED
    BY <1>8, <2>2, <2>3, Zenon DEF WriteIdentity, TypeOK
<1>9. ASSUME NEW p \in Agents, TruncateConfig(p) PROVE TypeOK'
  BY <1>9 DEF TruncateConfig, Goto, TypeOK, PCs, NoId
<1>10. ASSUME NEW p \in Agents, WriteConfig(p) PROVE TypeOK'
  BY <1>10 DEF WriteConfig, Goto, TypeOK, PCs, NoId
<1>11. ASSUME NEW p \in Agents, Cycle(p) PROVE TypeOK'
  BY <1>11 DEF Cycle, Goto, TypeOK, PCs, NoId
<1>12. ASSUME NEW p \in Agents, EnrollFails(p) PROVE TypeOK'
  BY <1>12 DEF EnrollFails, AfterError, Down, Fault, TypeOK, PCs, NoId
<1>13. ASSUME NEW p \in Agents, SaveIdentityFails(p) PROVE TypeOK'
  BY <1>13 DEF SaveIdentityFails, AfterError, Down, Fault, TypeOK, PCs, NoId
<1>14. ASSUME NEW p \in Agents, SaveConfigFails(p) PROVE TypeOK'
  BY <1>14 DEF SaveConfigFails, Goto, Fault, TypeOK, PCs, NoId
<1>15. ASSUME NEW p \in Agents, Stop(p) PROVE TypeOK'
  BY <1>15 DEF Stop, Down, TypeOK, PCs, NoId
<1>16. ASSUME NEW p \in Agents, Crash(p) PROVE TypeOK'
  BY <1>16 DEF Crash, Down, Fault, TypeOK, PCs, NoId
<1>20. ASSUME NEW p \in Agents, NoIdentity(p) PROVE TypeOK'
  BY <1>20 DEF NoIdentity, Goto, TypeOK, PCs, NoId
<1>21. ASSUME NEW p \in Agents, ReadIdentityFails(p) PROVE TypeOK'
  BY <1>21 DEF ReadIdentityFails, Goto, Fault, TypeOK, PCs, NoId
<1>22. ASSUME NEW p \in Agents, Report(p) PROVE TypeOK'
  BY <1>22 DEF Report, Goto, TypeOK, PCs, NoId
<1>17. CASE UNCHANGED vars
  BY <1>17 DEF vars, TypeOK, PCs, NoId
<1>18. QED
  BY <1>1, <1>2, <1>3, <1>4, <1>5, <1>6, <1>7, <1>8, <1>9, <1>10, <1>11, <1>12, <1>13,
     <1>14, <1>15, <1>16, <1>17, <1>20, <1>21, <1>22 DEF Next, Step, Failure

\* The type invariant of the files, the processes and the server's rows, for
\* every set of processes and every number of faults.
THEOREM TypeCorrect == Spec => []TypeOK
<1>1. Init => TypeOK
  BY FaultsAssumption DEF Init, TypeOK, Down, PCs, NoId
<1>2. QED
  BY <1>1, TypeStep, PTL DEF Spec

-----------------------------------------------------------------------------
\* A process saves the identity of an answer it has received.
AnswerReceived ==
    \A p \in Agents : proc[p].pc \in {"saveId", "writeId"} => proc[p].req \in devices

IssuedInv == IssuedIdentity /\ AnswerReceived

LEMMA IssuedStep == TypeOK /\ IssuedInv /\ [Next]_vars => IssuedInv'
<1> SUFFICES ASSUME TypeOK, IssuedInv, [Next]_vars PROVE IssuedInv'
  OBVIOUS
<1>1. CASE ServerStep
  BY <1>1 DEF ServerStep, ServerEnroll, IssuedInv, IssuedIdentity, AnswerReceived, TypeOK,
     NoId
<1>2. ASSUME NEW p \in Agents, Start(p) PROVE IssuedInv'
  BY <1>2 DEF Start, IssuedInv, IssuedIdentity, AnswerReceived, TypeOK, NoId
<1>3. ASSUME NEW p \in Agents, UseIdentity(p) PROVE IssuedInv'
  BY <1>3 DEF UseIdentity, IssuedInv, IssuedIdentity, AnswerReceived, TypeOK, NoId
<1>4. ASSUME NEW p \in Agents, NoToken(p) PROVE IssuedInv'
  BY <1>4 DEF NoToken, AfterError, Down, IssuedInv, IssuedIdentity, AnswerReceived, TypeOK,
     NoId
<1>5. ASSUME NEW p \in Agents, SendEnroll(p) PROVE IssuedInv'
  BY <1>5 DEF SendEnroll, IssuedInv, IssuedIdentity, AnswerReceived, TypeOK, NoId
<1>6. ASSUME NEW p \in Agents, ReceiveIdentity(p) PROVE IssuedInv'
  BY <1>6 DEF ReceiveIdentity, Goto, IssuedInv, IssuedIdentity, AnswerReceived, TypeOK, NoId
<1>7. ASSUME NEW p \in Agents, TruncateIdentity(p) PROVE IssuedInv'
  BY <1>7 DEF TruncateIdentity, Goto, IssuedInv, IssuedIdentity, AnswerReceived, TypeOK,
     NoId
<1>8. ASSUME NEW p \in Agents, WriteIdentity(p) PROVE IssuedInv'
  BY <1>8 DEF WriteIdentity, IssuedInv, IssuedIdentity, AnswerReceived, TypeOK, NoId
<1>9. ASSUME NEW p \in Agents, TruncateConfig(p) PROVE IssuedInv'
  BY <1>9 DEF TruncateConfig, Goto, IssuedInv, IssuedIdentity, AnswerReceived, TypeOK, NoId
<1>10. ASSUME NEW p \in Agents, WriteConfig(p) PROVE IssuedInv'
  BY <1>10 DEF WriteConfig, Goto, IssuedInv, IssuedIdentity, AnswerReceived, TypeOK, NoId
<1>11. ASSUME NEW p \in Agents, Cycle(p) PROVE IssuedInv'
  BY <1>11 DEF Cycle, Goto, IssuedInv, IssuedIdentity, AnswerReceived, TypeOK, NoId
<1>12. ASSUME NEW p \in Agents, EnrollFails(p) PROVE IssuedInv'
  BY <1>12 DEF EnrollFails, AfterError, Down, Fault, IssuedInv, IssuedIdentity,
     AnswerReceived, TypeOK, NoId
<1>13. ASSUME NEW p \in Agents, SaveIdentityFails(p) PROVE IssuedInv'
  BY <1>13 DEF SaveIdentityFails, AfterError, Down, Fault, IssuedInv, IssuedIdentity,
     AnswerReceived, TypeOK, NoId
<1>14. ASSUME NEW p \in Agents, SaveConfigFails(p) PROVE IssuedInv'
  BY <1>14 DEF SaveConfigFails, Goto, Fault, IssuedInv, IssuedIdentity, AnswerReceived,
     TypeOK, NoId
<1>15. ASSUME NEW p \in Agents, Stop(p) PROVE IssuedInv'
  BY <1>15 DEF Stop, Down, IssuedInv, IssuedIdentity, AnswerReceived, TypeOK, NoId
<1>16. ASSUME NEW p \in Agents, Crash(p) PROVE IssuedInv'
  BY <1>16 DEF Crash, Down, Fault, IssuedInv, IssuedIdentity, AnswerReceived, TypeOK, NoId
<1>20. ASSUME NEW p \in Agents, NoIdentity(p) PROVE IssuedInv'
  BY <1>20 DEF NoIdentity, Goto, IssuedInv, IssuedIdentity, AnswerReceived, TypeOK, NoId
<1>21. ASSUME NEW p \in Agents, ReadIdentityFails(p) PROVE IssuedInv'
  BY <1>21 DEF ReadIdentityFails, Goto, Fault, IssuedInv, IssuedIdentity, AnswerReceived,
     TypeOK, NoId
<1>22. ASSUME NEW p \in Agents, Report(p) PROVE IssuedInv'
  BY <1>22 DEF Report, Goto, IssuedInv, IssuedIdentity, AnswerReceived, TypeOK, NoId
<1>17. CASE UNCHANGED vars
  BY <1>17 DEF vars, IssuedInv, IssuedIdentity, AnswerReceived, TypeOK, NoId
<1>18. QED
  BY <1>1, <1>2, <1>3, <1>4, <1>5, <1>6, <1>7, <1>8, <1>9, <1>10, <1>11, <1>12, <1>13,
     <1>14, <1>15, <1>16, <1>17, <1>20, <1>21, <1>22 DEF Next, Step, Failure

\* However the processes interleave on the shared files, and whatever fails, an
\* identity on disk or in memory names a device row the server has committed.
THEOREM IdentityIsIssued == Spec => []IssuedIdentity
<1>1. Init => IssuedInv
  BY DEF Init, IssuedInv, IssuedIdentity, AnswerReceived, Down, NoId
<1>2. IssuedInv => IssuedIdentity
  BY DEF IssuedInv
<1>3. QED
  BY <1>1, <1>2, IssuedStep, TypeCorrect, PTL DEF Spec

-----------------------------------------------------------------------------
\* Who has asked for an identity and not yet given up the token on the disk, and
\* who has the token in memory and may still ask.
Enrolling == {p \in Agents : proc[p].pc \in {"await", "saveId", "writeId", "saveCfg"}}
Eager == {p \in Agents : proc[p].token /\ proc[p].pc \notin {"await", "saveId", "writeId"}}

\* Every request is explained.  While config.json has the token, one that nothing
\* befell is still under way: it would have taken the token away.  From then on
\* nobody gets a token, and each process asks once for the one it may have.
Accounted ==
    IF cfgFile = "token" THEN sent <= faults + Cardinality(Enrolling)
    ELSE sent + Cardinality(Eager) <= faults + Cardinality(Agents)

TokenGivenUp == \A p \in Agents : proc[p].pc \in {"saveCfg", "writeCfg"} => ~proc[p].token

BoundInv == Accounted /\ TokenGivenUp

\* What a step of p adds to a set of processes, or takes from it, is p.
LEMMA OneMore ==
    ASSUME NEW S, IsFiniteSet(S), NEW T, NEW p
    PROVE  /\ T \subseteq S => Cardinality(T) <= Cardinality(S)
           /\ T \subseteq S \union {p} => Cardinality(T) <= Cardinality(S) + 1
           /\ T \subseteq S \ {p} /\ p \in S => Cardinality(T) + 1 <= Cardinality(S)
           /\ Cardinality(S) \in Nat
           /\ T \subseteq S \union {p} => IsFiniteSet(T) /\ Cardinality(T) \in Nat
<1>1. Cardinality(S) \in Nat
  BY FS_CardinalityType
<1>2. T \subseteq S => Cardinality(T) <= Cardinality(S)
  BY FS_Subset
<1>3. /\ IsFiniteSet(S \union {p}) /\ Cardinality(S \union {p}) \in Nat
      /\ Cardinality(S \union {p}) <= Cardinality(S) + 1
  BY <1>1, FS_AddElement, FS_CardinalityType
<1>4. T \subseteq S \union {p} => /\ IsFiniteSet(T) /\ Cardinality(T) \in Nat
                                  /\ Cardinality(T) <= Cardinality(S \union {p})
  BY <1>3, FS_Subset, FS_CardinalityType
<1>5. T \subseteq S \union {p} => Cardinality(T) <= Cardinality(S) + 1
  BY <1>1, <1>3, <1>4
<1>6. ASSUME T \subseteq S \ {p}, p \in S PROVE Cardinality(T) + 1 <= Cardinality(S)
  <2>1. /\ IsFiniteSet(S \ {p}) /\ Cardinality(S \ {p}) = Cardinality(S) - 1
    BY <1>6, FS_RemoveElement
  <2>2. Cardinality(T) <= Cardinality(S \ {p}) /\ Cardinality(T) \in Nat
    BY <1>6, <2>1, FS_Subset, FS_CardinalityType
  <2>. QED  BY <1>1, <2>1, <2>2
<1>. QED  BY <1>1, <1>2, <1>4, <1>5, <1>6

\* Two sets of processes that have none in common.
LEMMA Apart ==
    ASSUME IsFiniteSet(Agents), NEW S \in SUBSET Agents, NEW T \in SUBSET Agents,
           S \intersect T = {}
    PROVE  Cardinality(S) + Cardinality(T) <= Cardinality(Agents)
<1>1. IsFiniteSet(S) /\ IsFiniteSet(T) /\ IsFiniteSet(S \union T)
  BY FS_Subset, FS_Union
<1>2. Cardinality(S \union T) <= Cardinality(Agents)
  BY FS_Subset
<1>3. Cardinality(S \union T) = Cardinality(S) + Cardinality(T)
  <2>1. Cardinality(S \union T)
            = Cardinality(S) + Cardinality(T) - Cardinality(S \intersect T)
    BY <1>1, FS_Union
  <2>2. Cardinality(S \intersect T) = 0
    BY FS_EmptySet
  <2>. QED  BY <1>1, <2>1, <2>2, FS_CardinalityType
<1>. QED  BY <1>2, <1>3

LEMMA BoundStep ==
    ASSUME IsFiniteSet(Agents)
    PROVE  TypeOK /\ BoundInv /\ [Next]_vars => BoundInv'
<1> SUFFICES ASSUME TypeOK, BoundInv, [Next]_vars PROVE BoundInv'
  OBVIOUS
<1>0. /\ sent \in Nat /\ faults \in Nat
      /\ IsFiniteSet(Enrolling) /\ Cardinality(Enrolling) \in Nat
      /\ IsFiniteSet(Eager) /\ Cardinality(Eager) \in Nat
      /\ Cardinality(Agents) \in Nat
  BY FaultsAssumption, FS_Subset, FS_CardinalityType DEF TypeOK, Enrolling, Eager
<1>1. ASSUME UNCHANGED <<cfgFile, proc, sent, faults>> PROVE BoundInv'
  BY <1>1 DEF BoundInv, Accounted, TokenGivenUp, Enrolling, Eager
<1>2. CASE ServerStep
  BY <1>1, <1>2 DEF ServerStep, ServerEnroll
<1>3. ASSUME NEW p \in Agents,
             \A q \in Agents : q # p => proc'[q] = proc[q],
             cfgFile' = cfgFile, sent' = sent,
             faults' \in {faults, faults + 1},
             faults' = faults => /\ p \in Enrolling => p \in Enrolling'
                                 /\ cfgFile # "token" /\ p \in Eager' => p \in Eager,
             proc'[p].pc \in {"saveCfg", "writeCfg"} => ~proc'[p].token
      PROVE  BoundInv'
  <2>1. TokenGivenUp'
    BY <1>3 DEF BoundInv, TokenGivenUp
  <2>2. CASE faults' = faults
    <3>1. Enrolling \subseteq Enrolling' /\ Enrolling' \subseteq Enrolling \union {p}
      BY <1>3, <2>2 DEF Enrolling
    <3>2. Cardinality(Enrolling) <= Cardinality(Enrolling') /\ Cardinality(Enrolling') \in Nat
      BY <1>0, <3>1, OneMore
    <3>3. cfgFile # "token" => Eager' \subseteq Eager
      BY <1>3, <2>2 DEF Eager
    <3>4. cfgFile # "token" => Cardinality(Eager') <= Cardinality(Eager)
                               /\ Cardinality(Eager') \in Nat
      BY <1>0, <3>3, OneMore
    <3>. QED  BY <1>0, <1>3, <2>1, <2>2, <3>2, <3>4 DEF BoundInv, Accounted
  <2>3. CASE faults' = faults + 1
    <3>1. Enrolling \subseteq Enrolling' \union {p} /\ Enrolling' \subseteq Enrolling \union {p}
          /\ Eager' \subseteq Eager \union {p}
      BY <1>3 DEF Enrolling, Eager
    <3>2. IsFiniteSet(Enrolling')
      BY <1>0, <3>1, OneMore
    <3>3. Cardinality(Enrolling) <= Cardinality(Enrolling') + 1 /\ Cardinality(Enrolling') \in Nat
      BY <3>1, <3>2, OneMore
    <3>4. Cardinality(Eager') <= Cardinality(Eager) + 1 /\ Cardinality(Eager') \in Nat
      BY <1>0, <3>1, OneMore
    <3>. QED  BY <1>0, <1>3, <2>1, <2>3, <3>3, <3>4 DEF BoundInv, Accounted
  <2>. QED  BY <1>3, <2>2, <2>3
<1>4. ASSUME NEW p \in Agents, Start(p) PROVE BoundInv'
  BY <1>3, <1>4 DEF Start, TypeOK, Enrolling, Eager
<1>5. ASSUME NEW p \in Agents, UseIdentity(p) PROVE BoundInv'
  BY <1>3, <1>5 DEF UseIdentity, TypeOK, Enrolling, Eager
<1>6. ASSUME NEW p \in Agents, NoToken(p) PROVE BoundInv'
  BY <1>3, <1>6 DEF NoToken, AfterError, Down, TypeOK, Enrolling, Eager
<1>7. ASSUME NEW p \in Agents, ReceiveIdentity(p) PROVE BoundInv'
  BY <1>3, <1>7 DEF ReceiveIdentity, Goto, TypeOK, Enrolling, Eager
<1>8. ASSUME NEW p \in Agents, TruncateIdentity(p) PROVE BoundInv'
  BY <1>3, <1>8 DEF TruncateIdentity, Goto, TypeOK, Enrolling, Eager
<1>9. ASSUME NEW p \in Agents, WriteIdentity(p) PROVE BoundInv'
  <2>1. /\ \A q \in Agents : q # p => proc'[q] = proc[q]
        /\ UNCHANGED <<cfgFile, sent, faults>>
        /\ proc[p].pc = "writeId" /\ proc'[p].pc = "saveCfg"
    BY <1>9 DEF WriteIdentity, TypeOK
  <2>2. ~proc'[p].token
    BY <1>9, Zenon DEF WriteIdentity, TypeOK
  <2>. QED  BY <1>3, <2>1, <2>2 DEF Enrolling, Eager
<1>10. ASSUME NEW p \in Agents, Cycle(p) PROVE BoundInv'
  BY <1>3, <1>10 DEF Cycle, Goto, TypeOK, Enrolling, Eager
<1>11. ASSUME NEW p \in Agents, Stop(p) PROVE BoundInv'
  BY <1>3, <1>11 DEF Stop, Down, TypeOK, Enrolling, Eager
<1>12. ASSUME NEW p \in Agents, EnrollFails(p) PROVE BoundInv'
  BY <1>3, <1>12 DEF EnrollFails, AfterError, Down, Fault, TypeOK, Enrolling, Eager
<1>13. ASSUME NEW p \in Agents, SaveIdentityFails(p) PROVE BoundInv'
  BY <1>3, <1>13 DEF SaveIdentityFails, AfterError, Down, Fault, TypeOK, Enrolling, Eager
<1>14. ASSUME NEW p \in Agents, SaveConfigFails(p) PROVE BoundInv'
  BY <1>3, <1>14 DEF SaveConfigFails, Fault, Goto, TypeOK, Enrolling, Eager
<1>15. ASSUME NEW p \in Agents, Crash(p) PROVE BoundInv'
  BY <1>3, <1>15 DEF Crash, Down, Fault, TypeOK, Enrolling, Eager
<1>16. ASSUME NEW p \in Agents, SendEnroll(p) PROVE BoundInv'
  <2>1. /\ sent' = sent + 1 /\ faults' = faults /\ cfgFile' = cfgFile
        /\ \A q \in Agents : q # p => proc'[q] = proc[q]
        /\ proc[p].pc = "enroll" /\ proc[p].token /\ proc'[p].pc = "await"
    BY <1>16 DEF SendEnroll, TypeOK
  <2>2. TokenGivenUp'
    BY <2>1 DEF BoundInv, TokenGivenUp
  <2>3. Cardinality(Enrolling') = Cardinality(Enrolling) + 1
    <3>1. Enrolling' = Enrolling \union {p} /\ p \notin Enrolling
      BY <2>1 DEF Enrolling
    <3>. QED  BY <1>0, <3>1, FS_AddElement
  <2>4. Cardinality(Eager') = Cardinality(Eager) - 1
    <3>1. Eager' = Eager \ {p} /\ p \in Eager
      BY <2>1 DEF Eager
    <3>. QED  BY <1>0, <3>1, FS_RemoveElement
  <2>. QED  BY <1>0, <2>1, <2>2, <2>3, <2>4 DEF BoundInv, Accounted
<1>17. ASSUME NEW p \in Agents, TruncateConfig(p) \/ WriteConfig(p) PROVE BoundInv'
  <2>1. /\ sent' = sent /\ faults' = faults /\ cfgFile' # "token"
        /\ \A q \in Agents : q # p => proc'[q] = proc[q]
        /\ ~proc[p].token /\ ~proc'[p].token
    BY <1>17 DEF TruncateConfig, WriteConfig, Goto, TypeOK, BoundInv, TokenGivenUp
  <2>2. TokenGivenUp'
    BY <2>1 DEF BoundInv, TokenGivenUp
  <2>3. Eager' = Eager
    BY <2>1 DEF Eager
  <2>4. cfgFile = "token" => sent + Cardinality(Eager) <= faults + Cardinality(Agents)
    <3>1. Enrolling \intersect Eager = {}
      BY DEF Enrolling, Eager, BoundInv, TokenGivenUp
    <3>2. Cardinality(Enrolling) + Cardinality(Eager) <= Cardinality(Agents)
      BY <3>1, Apart DEF Enrolling, Eager
    <3>. QED  BY <1>0, <3>2 DEF BoundInv, Accounted
  <2>. QED  BY <1>0, <2>1, <2>2, <2>3, <2>4 DEF BoundInv, Accounted
<1>20. ASSUME NEW p \in Agents, NoIdentity(p) PROVE BoundInv'
  BY <1>3, <1>20 DEF NoIdentity, Goto, TypeOK, Enrolling, Eager
<1>21. ASSUME NEW p \in Agents, ReadIdentityFails(p) PROVE BoundInv'
  BY <1>3, <1>21 DEF ReadIdentityFails, Goto, Fault, TypeOK, Enrolling, Eager
<1>22. ASSUME NEW p \in Agents, Report(p) PROVE BoundInv'
  BY <1>3, <1>22 DEF Report, Goto, TypeOK, Enrolling, Eager
<1>18. CASE UNCHANGED vars
  BY <1>1, <1>18 DEF vars
<1>. QED
  BY <1>2, <1>4, <1>5, <1>6, <1>7, <1>8, <1>9, <1>10, <1>11, <1>12, <1>13, <1>14, <1>15,
     <1>16, <1>17, <1>18, <1>20, <1>21, <1>22 DEF Next, Step, Failure

LEMMA BoundInit ==
    ASSUME IsFiniteSet(Agents)
    PROVE  Init => BoundInv
<1>. SUFFICES ASSUME Init PROVE BoundInv
  OBVIOUS
<1>1. Cardinality(Enrolling) \in Nat
  BY FS_Subset, FS_CardinalityType DEF Enrolling
<1>. QED  BY <1>1 DEF Init, Down, BoundInv, Accounted, TokenGivenUp

\* The server has at most one device for each agent process and each fault,
\* however many processes enroll at once and overwrite each other's files.
THEOREM DevicesAreBounded == ASSUME IsFiniteSet(Agents) PROVE Spec => []DevicesBounded
<1>1. TypeOK /\ BoundInv => DevicesBounded
  <2>. SUFFICES ASSUME TypeOK, BoundInv PROVE DevicesBounded
    OBVIOUS
  <2>1. sent \in Nat /\ faults \in Nat
    BY FaultsAssumption DEF TypeOK
  <2>2. Cardinality(devices) <= sent /\ Cardinality(devices) \in Nat
    <3>1. IsFiniteSet(1..sent) /\ Cardinality(1..sent) = sent
      BY <2>1, FS_Interval
    <3>. QED  BY <3>1, FS_Subset, FS_CardinalityType DEF TypeOK
  <2>3. /\ Cardinality(Enrolling) <= Cardinality(Agents) /\ Cardinality(Enrolling) \in Nat
        /\ Cardinality(Eager) \in Nat /\ Cardinality(Agents) \in Nat
    BY FS_Subset, FS_CardinalityType DEF Enrolling, Eager
  <2>. QED  BY <2>1, <2>2, <2>3 DEF BoundInv, Accounted, DevicesBounded
<1>. QED  BY <1>1, BoundInit, BoundStep, TypeCorrect, PTL DEF Spec

-----------------------------------------------------------------------------
\* A machine with one agent process: the service alone.
LoneAgent == \A p, q \in Agents : p = q

\* A lone agent has the token in memory only while it is on disk, and it asks for an
\* identity with it.  When it saves the configuration, the identity is on disk.
TokenOnDisk ==
    \A p \in Agents : /\ proc[p].token => cfgFile = "token"
                      /\ proc[p].pc \in {"await", "saveId", "writeId"} => proc[p].token
IdentityFirst ==
    \A p \in Agents : proc[p].pc \in {"saveCfg", "writeCfg"} =>
                        ~proc[p].token /\ idFile # NoId /\ proc[p].id = idFile

\* The token stays beside an identity only where something failed after the
\* enrollment, and it is used again only where the identity could not be read.
FailuresExplain ==
    cfgFile = "token" /\ idFile # NoId =>
        \A p \in Agents :
            /\ proc[p].pc # "saveCfg" => faults >= 1
            /\ proc[p].token /\ proc[p].pc \in {"enroll", "await", "saveId", "writeId"}
                   => faults >= 2

LoneInv == NeverStranded /\ IdentityDurable /\ TokenOnDisk /\ IdentityFirst /\ FailuresExplain

LEMMA LoneStep ==
    ASSUME LoneAgent
    PROVE  TypeOK /\ IssuedInv /\ LoneInv /\ [Next]_vars => LoneInv'
<1> SUFFICES ASSUME TypeOK, IssuedInv, LoneInv, [Next]_vars PROVE LoneInv'
  OBVIOUS
<1> USE FaultsAssumption
<1>0. faults \in Nat /\ idFile \in Nat /\ NoId \notin devices
  BY DEF TypeOK, NoId
<1>1. CASE ServerStep
    BY <1>0, <1>1 DEF ServerStep, ServerEnroll, LoneAgent, LoneInv, NeverStranded,
     IdentityDurable, TokenOnDisk, IdentityFirst, FailuresExplain, IssuedInv,
     AnswerReceived, TypeOK, NoId
<1>2. ASSUME NEW p \in Agents, Start(p) PROVE LoneInv'
    BY <1>0, <1>2 DEF Start, LoneAgent, LoneInv, NeverStranded, IdentityDurable,
     TokenOnDisk, IdentityFirst, FailuresExplain, IssuedInv, AnswerReceived, TypeOK,
     NoId
<1>3. ASSUME NEW p \in Agents, UseIdentity(p) PROVE LoneInv'
    BY <1>0, <1>3 DEF UseIdentity, LoneAgent, LoneInv, NeverStranded, IdentityDurable,
     TokenOnDisk, IdentityFirst, FailuresExplain, IssuedInv, AnswerReceived, TypeOK,
     NoId
<1>4. ASSUME NEW p \in Agents, NoIdentity(p) PROVE LoneInv'
    BY <1>0, <1>4 DEF NoIdentity, Goto, LoneAgent, LoneInv, NeverStranded,
     IdentityDurable, TokenOnDisk, IdentityFirst, FailuresExplain, IssuedInv,
     AnswerReceived, TypeOK, NoId
<1>5. ASSUME NEW p \in Agents, ReadIdentityFails(p) PROVE LoneInv'
    BY <1>0, <1>5 DEF ReadIdentityFails, Goto, Fault, LoneAgent, LoneInv, NeverStranded,
     IdentityDurable, TokenOnDisk, IdentityFirst, FailuresExplain, IssuedInv,
     AnswerReceived, TypeOK, NoId
<1>6. ASSUME NEW p \in Agents, NoToken(p) PROVE LoneInv'
    BY <1>0, <1>6 DEF NoToken, AfterError, Down, LoneAgent, LoneInv, NeverStranded,
     IdentityDurable, TokenOnDisk, IdentityFirst, FailuresExplain, IssuedInv,
     AnswerReceived, TypeOK, NoId
<1>7. ASSUME NEW p \in Agents, SendEnroll(p) PROVE LoneInv'
    BY <1>0, <1>7 DEF SendEnroll, LoneAgent, LoneInv, NeverStranded, IdentityDurable,
     TokenOnDisk, IdentityFirst, FailuresExplain, IssuedInv, AnswerReceived, TypeOK,
     NoId
<1>8. ASSUME NEW p \in Agents, ReceiveIdentity(p) PROVE LoneInv'
    BY <1>0, <1>8 DEF ReceiveIdentity, Goto, LoneAgent, LoneInv, NeverStranded,
     IdentityDurable, TokenOnDisk, IdentityFirst, FailuresExplain, IssuedInv,
     AnswerReceived, TypeOK, NoId
<1>9. ASSUME NEW p \in Agents, TruncateIdentity(p) PROVE LoneInv'
    BY <1>0, <1>9 DEF TruncateIdentity, Goto, LoneAgent, LoneInv, NeverStranded,
     IdentityDurable, TokenOnDisk, IdentityFirst, FailuresExplain, IssuedInv,
     AnswerReceived, TypeOK, NoId
<1>10. ASSUME NEW p \in Agents, WriteIdentity(p) PROVE LoneInv'
    BY <1>0, <1>10 DEF WriteIdentity, LoneAgent, LoneInv, NeverStranded,
     IdentityDurable, TokenOnDisk, IdentityFirst, FailuresExplain, IssuedInv,
     AnswerReceived, TypeOK, NoId
<1>11. ASSUME NEW p \in Agents, TruncateConfig(p) PROVE LoneInv'
    BY <1>0, <1>11 DEF TruncateConfig, Goto, LoneAgent, LoneInv, NeverStranded,
     IdentityDurable, TokenOnDisk, IdentityFirst, FailuresExplain, IssuedInv,
     AnswerReceived, TypeOK, NoId
<1>12. ASSUME NEW p \in Agents, WriteConfig(p) PROVE LoneInv'
    BY <1>0, <1>12 DEF WriteConfig, Goto, LoneAgent, LoneInv, NeverStranded,
     IdentityDurable, TokenOnDisk, IdentityFirst, FailuresExplain, IssuedInv,
     AnswerReceived, TypeOK, NoId
<1>13. ASSUME NEW p \in Agents, Report(p) PROVE LoneInv'
    BY <1>0, <1>13 DEF Report, Goto, LoneAgent, LoneInv, NeverStranded, IdentityDurable,
     TokenOnDisk, IdentityFirst, FailuresExplain, IssuedInv, AnswerReceived, TypeOK,
     NoId
<1>14. ASSUME NEW p \in Agents, Cycle(p) PROVE LoneInv'
    BY <1>0, <1>14 DEF Cycle, Goto, LoneAgent, LoneInv, NeverStranded, IdentityDurable,
     TokenOnDisk, IdentityFirst, FailuresExplain, IssuedInv, AnswerReceived, TypeOK,
     NoId
<1>15. ASSUME NEW p \in Agents, EnrollFails(p) PROVE LoneInv'
    BY <1>0, <1>15 DEF EnrollFails, AfterError, Down, Fault, LoneAgent, LoneInv,
     NeverStranded, IdentityDurable, TokenOnDisk, IdentityFirst, FailuresExplain,
     IssuedInv, AnswerReceived, TypeOK, NoId
<1>16. ASSUME NEW p \in Agents, SaveIdentityFails(p) PROVE LoneInv'
    BY <1>0, <1>16 DEF SaveIdentityFails, AfterError, Down, Fault, LoneAgent, LoneInv,
     NeverStranded, IdentityDurable, TokenOnDisk, IdentityFirst, FailuresExplain,
     IssuedInv, AnswerReceived, TypeOK, NoId
<1>17. ASSUME NEW p \in Agents, SaveConfigFails(p) PROVE LoneInv'
    BY <1>0, <1>17 DEF SaveConfigFails, Goto, Fault, LoneAgent, LoneInv, NeverStranded,
     IdentityDurable, TokenOnDisk, IdentityFirst, FailuresExplain, IssuedInv,
     AnswerReceived, TypeOK, NoId
<1>18. ASSUME NEW p \in Agents, Stop(p) PROVE LoneInv'
    BY <1>0, <1>18 DEF Stop, Down, LoneAgent, LoneInv, NeverStranded, IdentityDurable,
     TokenOnDisk, IdentityFirst, FailuresExplain, IssuedInv, AnswerReceived, TypeOK,
     NoId
<1>19. ASSUME NEW p \in Agents, Crash(p) PROVE LoneInv'
    BY <1>0, <1>19 DEF Crash, Down, Fault, LoneAgent, LoneInv, NeverStranded,
     IdentityDurable, TokenOnDisk, IdentityFirst, FailuresExplain, IssuedInv,
     AnswerReceived, TypeOK, NoId
<1>20. CASE UNCHANGED vars
    BY <1>0, <1>20 DEF vars, LoneAgent, LoneInv, NeverStranded, IdentityDurable,
     TokenOnDisk, IdentityFirst, FailuresExplain, IssuedInv, AnswerReceived, TypeOK,
     NoId
<1>. QED
    BY <1>1, <1>2, <1>3, <1>4, <1>5, <1>6, <1>7, <1>8, <1>9, <1>10, <1>11, <1>12, <1>13,
     <1>14, <1>15, <1>16, <1>17, <1>18, <1>19, <1>20 DEF Next, Step, Failure

LEMMA LoneInvariant == ASSUME LoneAgent PROVE Spec => [](TypeOK /\ IssuedInv /\ LoneInv)
<1>1. Init => TypeOK /\ IssuedInv /\ LoneInv
  BY FaultsAssumption DEF Init, TypeOK, IssuedInv, IssuedIdentity, AnswerReceived, LoneInv,
     NeverStranded, IdentityDurable, TokenOnDisk, IdentityFirst, FailuresExplain, Down,
     PCs, NoId
<1>2. TypeOK /\ IssuedInv /\ LoneInv /\ [Next]_vars
        => (TypeOK /\ IssuedInv /\ LoneInv)'
  BY TypeStep, IssuedStep, LoneStep
<1>3. QED
  BY <1>1, <1>2, PTL DEF Spec

\* A lone agent always has the token on disk until a whole identity is there:
\* no crash between saveIdentity and config.Save leaves it unable to report.
THEOREM LoneAgentNeverStranded == ASSUME LoneAgent PROVE Spec => []NeverStranded
<1>1. LoneInv => NeverStranded
  BY DEF LoneInv
<1>2. QED
  BY <1>1, LoneInvariant, PTL

\* What a lone agent reports as is always the identity a restart would load, whatever
\* read or write of a file has failed before.
THEOREM LoneAgentDurable == ASSUME LoneAgent PROVE Spec => []IdentityDurable
<1>1. LoneInv => IdentityDurable
  BY DEF LoneInv
<1>2. QED
  BY <1>1, LoneInvariant, PTL

\* A good identity is overwritten only by an agent that has a token, and LoneInv
\* says what has failed by then.
LEMMA KeptStep ==
    ASSUME LoneAgent
    PROVE  TypeOK /\ LoneInv /\ [Next]_vars =>
           [idFile # NoId /\ idFile' # idFile => cfgFile = "token" /\ faults >= 2]_vars
<1> SUFFICES ASSUME TypeOK, LoneInv, [Next]_vars, idFile # NoId, idFile' # idFile
             PROVE  cfgFile = "token" /\ faults >= 2
  OBVIOUS
<1>1. PICK p \in Agents : TruncateIdentity(p) \/ WriteIdentity(p)
  BY DEF Next, Step, Failure, ServerStep, ServerEnroll, Start, UseIdentity, NoIdentity,
     ReadIdentityFails, NoToken, SendEnroll, ReceiveIdentity, TruncateConfig, WriteConfig,
     Report, Cycle, EnrollFails, SaveIdentityFails, SaveConfigFails, Stop, Crash, vars
<1>2. proc[p].pc \in {"saveId", "writeId"}
  BY <1>1 DEF TruncateIdentity, WriteIdentity
<1>3. proc[p].token /\ cfgFile = "token"
  BY <1>2 DEF LoneInv, TokenOnDisk
<1>. QED
  BY <1>2, <1>3 DEF LoneInv, FailuresExplain

\* A machine with one agent goes on as the device it has enrolled as, late answers and
\* crashes included, unless two things fail while its token is still on disk.
THEOREM LoneAgentKeepsIdentity == ASSUME LoneAgent PROVE Spec => IdentityKept
<1>1. Spec => [][idFile # NoId /\ idFile' # idFile => cfgFile = "token" /\ faults >= 2]_vars
  BY LoneInvariant, KeptStep, PTL DEF Spec
<1>2. QED
  BY <1>1 DEF IdentityKept
=============================================================================
