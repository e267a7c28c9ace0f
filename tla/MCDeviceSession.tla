--------------------------- MODULE MCDeviceSession ---------------------------
(* Instances of DeviceSession for TLC. *)
EXTENDS DeviceSession

Budget(presses, crashes, faults, dials) ==
    [presses |-> presses, crashes |-> crashes, faults |-> faults, dials |-> dials]

\* Any two events, two of a kind or not, but two crashes; and in one session
\* two presses beside a fault.
MCBudgets ==
    {Budget(2, 0, 0, 3), Budget(1, 1, 0, 2), Budget(1, 0, 1, 3),
     Budget(0, 1, 1, 3), Budget(0, 0, 2, 3), Budget(2, 0, 1, 1)}
==============================================================================
