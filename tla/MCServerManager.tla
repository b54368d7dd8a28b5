-------------------------- MODULE MCServerManager --------------------------
(* An instance of ServerManager for TLC. *)
EXTENDS ServerManager

CONSTANTS k1, k2

TwoStops == {k1, k2}
=============================================================================
