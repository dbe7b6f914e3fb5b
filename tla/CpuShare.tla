------------------------------ MODULE CpuShare ------------------------------
(***************************************************************************)
(* What the agents make of the CPU counters of the operating system:       *)
(* cpuPercent of the Docker agent (agent/cmd/eits-agent/main.go) and       *)
(* calculateCPU of the native agent (internal/collector/common.go).        *)
(*                                                                         *)
(* The sums are unsigned words of the program: a difference that is        *)
(* negative wraps.  A percentage is the fraction it is computed from.      *)
(***************************************************************************)
EXTENDS Naturals

CONSTANT Word      \* the number of values of an unsigned word, 2^64 in Go

ASSUME WordAssumption == Word \in Nat \ {0, 1}

\* What a reading may hold: the time spent idle (with that spent waiting for
\* the disk) is part of the total.
Readings == {r \in [idle : 0..Word - 1, total : 0..Word - 1] : r.idle <= r.total}
Unread == [idle |-> 0, total |-> 0]
Busy(r) == r.total - r.idle

\* The cpu line of /proc/stat: its counters of work (user, nice, system, irq,
\* softirq, steal) contain the time spent in the guests of virtual machines, which
\* its last two fields (guest, guest_nice) repeat.  The total is the sum of all.
ReadCPU(c) == [idle |-> c.idle, total |-> c.idle + c.work + c.guest]

Share == [busy : 0..Word - 1, total : 0..Word - 1]
NoShare == [busy |-> 0, total |-> 1]

Minus(a, b) == IF b <= a THEN a - b ELSE a - b + Word

FirstOrStill(previous, current) ==
    previous.total = 0 \/ current.total <= previous.total

\* A plausible slip: the first reading is not told from any other.
CpuPercentOfAny(previous, current) ==
    IF current.total <= previous.total THEN NoShare
    ELSE LET totalDelta == Minus(current.total, previous.total)
             idleDelta == Minus(current.idle, previous.idle)
         IN  [busy |-> Minus(totalDelta, idleDelta), total |-> totalDelta]

\* The Docker agent's.
CpuPercent(previous, current) ==
    IF FirstOrStill(previous, current) THEN NoShare
    ELSE LET totalDelta == Minus(current.total, previous.total)
             idleDelta == Minus(current.idle, previous.idle)
         IN  [busy |-> Minus(totalDelta, idleDelta), total |-> totalDelta]

\* The native agent's: nothing is reported when the idle time cannot be right.
CalculateCPU(previous, current) ==
    IF FirstOrStill(previous, current) THEN NoShare
    ELSE LET totalDelta == Minus(current.total, previous.total)
             idleDelta == Minus(current.idle, previous.idle)
         IN  IF idleDelta > totalDelta THEN NoShare
             ELSE [busy |-> Minus(totalDelta, idleDelta), total |-> totalDelta]
=============================================================================
