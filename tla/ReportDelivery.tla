--------------------------- MODULE ReportDelivery ---------------------------
(***************************************************************************)
(* What the reporting loop of an enrolled agent promises about the metric  *)
(* samples it collects: bounded store and forward, at least once, in       *)
(* order.  A sample is held until the server has it, or until newer        *)
(* samples push it out of a full outbox as the oldest one; only a fault    *)
(* (crash, failed write or read of the queue file) forfeits a sample       *)
(* otherwise.  Samples are numbered in the order they are collected.       *)
(***************************************************************************)
EXTENDS Naturals, Sequences

CONSTANTS Capacity,    \* samples the outbox keeps
          Rejected,    \* samples the server never accepts
          MaxFaults    \* bound on the faults

VARIABLES next,        \* number of samples collected so far
          outbox,      \* the samples held, oldest first
          stored,      \* the samples the server has stored
          faults       \* number of faults so far

deliveryVars == <<next, outbox, stored, faults>>

Elements(q) == {q[i] : i \in DOMAIN q}

Init == next = 0 /\ outbox = <<>> /\ stored = {} /\ faults = 0

Take == /\ next' = next + 1
        /\ outbox' = Append(outbox, next + 1)
        /\ UNCHANGED <<stored, faults>>

\* The server stores any sample collected so far, perhaps once more.
Store(s) == /\ s \notin Rejected
            /\ stored' = stored \union {s}
            /\ UNCHANGED <<next, outbox, faults>>

\* Samples leave the outbox at one of its ends once they are stored.
Release(i, j) ==
    /\ outbox' = SubSeq(outbox, i, j)
    /\ Elements(outbox) \ Elements(outbox') \subseteq stored
    /\ UNCHANGED <<next, stored, faults>>

Evict == /\ Len(outbox) > Capacity
         /\ outbox' = Tail(outbox)
         /\ UNCHANGED <<next, stored, faults>>

Forfeit == /\ faults < MaxFaults
           /\ faults' = faults + 1
           /\ Elements(outbox') \subseteq Elements(outbox)
           /\ UNCHANGED <<next, stored>>

Next == \/ Take
        \/ \E s \in 1..next : Store(s)
        \/ \E i \in 1..(Len(outbox) + 1), j \in 0..Len(outbox) : Release(i, j)
        \/ Evict
        \/ Forfeit

Spec == Init /\ [][Next]_deliveryVars
=============================================================================
