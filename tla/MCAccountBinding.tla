--------------------------- MODULE MCAccountBinding ---------------------------
(* Two accounts, one with two folders. *)

EXTENDS AccountBinding

MCOwner == [r \in Root |-> IF r = "b" THEN "B" ELSE "A"]

\* Bound: after both notes nothing the properties excuse is followed any further.
FewExcuses == written + Cardinality(excused) <= MaxNotes

================================================================================
