----------------------------- MODULE MCVmTimers -----------------------------
(* An instance of VmTimers for TLC.                                        *)
EXTENDS VmTimers

MCDelay == {0, 2}
MCCode == {2}
=============================================================================
