---------------------------- MODULE MCPaperPresence ----------------------------
(* PaperPresence on a small instance: two browsers, one paper.                 *)
EXTENDS PaperPresence, TLC

Symmetry == Permutations(Device) \cup Permutations(Folder) \cup Permutations(GenId)

================================================================================
