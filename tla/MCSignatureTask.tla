-------------------------- MODULE MCSignatureTask --------------------------
(* An instance of SignatureTask for TLC.                                   *)
EXTENDS SignatureTask

CONSTANTS i1, i2

MCId == {i1, i2}
=============================================================================
