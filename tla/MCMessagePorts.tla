--------------------------- MODULE MCMessagePorts ---------------------------
(* The instance of MessagePorts for TLC: one channel with two listeners or *)
(* two channels whose ports have onmessage only.                           *)
EXTENDS MessagePorts, TLC

CONSTANTS c1, c2, l1, l2

MCChannel == {c1, c2}
MCListener == {l1, l2}
MCSymmetry == Permutations(MCListener)
Bounded ==
  \/ /\ made \subseteq {c1}
     /\ Len(listeners[<<c1, 1>>]) + Len(listeners[<<c1, 2>>]) <= 2
  \/ /\ c1 \in made
     /\ \A p \in Port : listeners[p] = <<>> /\ \A g \in ToSet(given[p]) : g.to \notin Listener
=============================================================================
