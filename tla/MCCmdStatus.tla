---------------------------- MODULE MCCmdStatus ----------------------------
(* Instances of CmdStatus for TLC. *)
EXTENDS CmdStatus, TLC

CONSTANTS p1, p2, d1, d2

MCDeviceDir == <<d1, d2>>

\* The processes are all alike.
MCSymmetry == Permutations({p1, p2})

\* Codes of the driver and of the hardware: one beyond the first table, one
\* whose low bits count and one that names a hole of the second.
MCCode == {Status(TRUE, 15, 0), Status(TRUE, 0, 16), Status(FALSE, 0, 48)}
=============================================================================
