--------------------------- MODULE MCDiscoveryCatalog ---------------------------
(* Two papers, which are interchangeable in each of the regimes. *)

EXTENDS DiscoveryCatalog, TLC

Symmetry == Permutations(Paper)

\* The page reloads and no local copy is removed, or it stays open and one may be.
Apart ==
    {[removable |-> {}, reloads |-> TRUE]} \cup
    {[removable |-> {p}, reloads |-> FALSE] : p \in Paper}

Together == {[removable |-> Paper, reloads |-> TRUE]}

=================================================================================
