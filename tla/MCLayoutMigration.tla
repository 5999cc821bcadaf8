--------------------------- MODULE MCLayoutMigration ---------------------------
(* Papers and control folders are interchangeable.  Devices are not: of two
   baselines of one paper one is the first. *)

EXTENDS LayoutMigration, TLC

Symmetry == Permutations(Paper) \union Permutations(Control)

\* Two devices at once, or a library others change: no property speaks of both.
OneDisturbance == ~(overlapped /\ changes > 0)

================================================================================
