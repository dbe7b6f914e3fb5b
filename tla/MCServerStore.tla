---------------------------- MODULE MCServerStore ----------------------------
(* Instances of ServerStore for TLC: the thresholds of the two updates, each *)
(* of which is in order, and of a third one that is not.                     *)
EXTENDS ServerStore

CONSTANTS lower, raise, wrong, r1, r2, v1, v2, c1, c2, x1, y1, x2, drop

\* Two reports with every operator's request; a report with two inventories; a
\* device that may lose all its checks; two operators who delete one check, or a check each,
\* while reports come in.
MCBatches == {{r1, r2, x1, lower, wrong, drop}, {r1, v1, v2, x1, drop},
              {r1, x1, x2, drop}, {r1, x1, y1, drop}, {r1, r2, x1, x2}, {r1, r2, x1, y1}}

MCPair == {{lower, raise}}

MCTarget(x) == IF x = x2 THEN c2 ELSE c1

MCWarning(p) == CASE p = lower -> 60 [] p = raise -> 85 [] p = wrong -> 95
MCCritical(p) == CASE p = lower -> 70 [] p = raise -> 90 [] p = wrong -> 95
=============================================================================
