-------------------------- MODULE MCEventDispatch --------------------------
(* An instance of EventDispatch for TLC.                                   *)
EXTENDS EventDispatch, TLC

CONSTANTS fn1, fn2, e1, e2

MCFn == {fn1, fn2}
MCOptions == [fn : {fn1}, capture : BOOLEAN, once : {FALSE}] \cup
             [fn : {fn2}, capture : {FALSE}, once : {TRUE}]
MCTarget == {1, 2}
MCEvent == {e1, e2}
MCBubbles == {e1}
=============================================================================
