--------------------------- MODULE MCDeviceStatus ---------------------------
(* An instance of DeviceStatus for TLC: a healthy device, one with a full    *)
(* disk, a failing check and a stopped process, one with two failing checks, *)
(* and one whose collector finds no disk.  c2 is a UDP check that expects no *)
(* response.                                                                 *)
EXTENDS DeviceStatus

CONSTANTS c1, c2, proc

MCContents ==
    {[disks |-> {40}, answers |-> {c1}, silent |-> {c2}, procs |-> {proc}],
     [disks |-> {80, 90}, answers |-> {c1}, silent |-> {}, procs |-> {}],
     [disks |-> {40}, answers |-> {}, silent |-> {c1}, procs |-> {proc}],
     [disks |-> {}, answers |-> {c1, c2}, silent |-> {}, procs |-> {proc}]}

\* The agent's clock is behind or ahead.
MCSkews == {-1, 1}
=============================================================================
