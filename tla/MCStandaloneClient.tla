------------------------ MODULE MCStandaloneClient ------------------------
(* Instances of StandaloneClient for TLC. *)
EXTENDS StandaloneClient, TLC

CONSTANTS a, b, i1, i2

TwoCalls == {a, b}
TwoIds == {i1, i2}
OneOversize == {b}
OwnIds == a :> i1 @@ b :> i2
=============================================================================
