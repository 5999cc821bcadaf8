----------------------------- MODULE MCLocalRemoval -----------------------------
(* Instances of LocalRemoval for TLC.                                           *)

EXTENDS LocalRemoval

\* Removals, notes and requests of one behaviour: not all there may be of each. Those
\* actions that have to happen make none.
FewEvents == epoch' + written' + requests' <= 4

MCSpec == Init /\ [][Next /\ FewEvents]_vars /\ Fairness

================================================================================
