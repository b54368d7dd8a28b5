------------------------------ MODULE MCDomTree ------------------------------
(* The instance of DomTree for TLC: two documents while the tree is intact;  *)
(* a damaged tree goes on being used as long as it has few links.           *)
EXTENDS DomTree, TLC

CONSTANTS d1, d2, h1, h2, e1, f1, x1, t0, t1

MCTask == {t0, t1}
MCText == {x1}
MCFragment == {f1}
MCNone == {}

MCDocument == {d1, d2}
MCHtml == {h1, h2}
MCElement == {e1}
MCSymmetry == Permutations(MCDocument) \cup Permutations(MCHtml)
Listed == {<<p, i>> \in Parents \X (1 .. 4) : i \in DOMAIN kids[p]}
FewLinks == intact \/ (Cardinality(Listed) <= 2 /\ Cardinality(born) <= 4)
=============================================================================
