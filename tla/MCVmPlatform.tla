----------------------------- MODULE MCVmPlatform -----------------------------
(* Instances of VmPlatform for TLC.                                        *)
EXTENDS VmPlatform

CONSTANTS t1, t2

MCTasks == {t1, t2}
AllModes == {"before", "on", "after"}
=============================================================================
