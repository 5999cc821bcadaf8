----------------------------- MODULE SnapshotMerge -----------------------------
(* The reconciliation of two snapshots of one paper: src/sync/merge.ts, and the *)
(* fold of the current heads of a paper: foldLoadedHeads in                     *)
(* paperDriveRepository.ts.                                                     *)
(*                                                                              *)
(* A snapshot holds, by entity key, the live entities and the tombstones. An    *)
(* entity is its version: when it was updated, on which device, and its value,  *)
(* which stands for the value and its hash. Device ids and hashes are compared  *)
(* as text in the code and are numbers here. The original PDF has one hash per  *)
(* paper and is left out, as are generatedAt and generatedBy.                   *)

EXTENDS Integers, FiniteSets, Sequences

CONSTANTS Key,         \* entity keys of one paper
          Paper,       \* the key of its document entity, parent of the others
          Preserving,  \* keys whose kind keeps the losing value as a conflict
          None

ASSUME KeyAssumption == Paper \in Key /\ Preserving \subseteq Key

Version == [at : Int, dev : Nat, val : Nat]

Tombstone == [at : Int, dev : Nat]

ASSUME NoneIsNoEntity == None \notin Version /\ None \notin Tombstone /\ None \notin Nat

EmptySnapshot == [live |-> [k \in Key |-> None], tomb |-> [k \in Key |-> None]]

\* Mutant: the device no longer breaks a tie of two clocks.
AtLeastByClock(v, w) == v.at >= w.at

\* compareVersions(v, w) >= 0
AtLeast(v, w) ==
    \/ v.at > w.at
    \/ v.at = w.at /\ v.dev > w.dev
    \/ v.at = w.at /\ v.dev = w.dev /\ v.val >= w.val

\* compareTombstones(t, u) > 0; the keys are equal
LaterDeletion(t, u) == t.at > u.at \/ (t.at = u.at /\ t.dev > u.dev)

\* compareDeletionToVersion(t, v) >= 0
Deletes(t, v) == t.at > v.at \/ (t.at = v.at /\ t.dev >= v.dev)

\* Mutant: the local entity wins whenever there is one.
ChooseLocal(l, r) == IF l = None THEN r ELSE l

ChooseEntity(l, r) ==
    CASE l = None -> r
      [] r = None -> l
      [] OTHER -> IF AtLeast(l, r) THEN l ELSE r

MergeTombstone(t, u) ==
    CASE t = None -> u
      [] u = None -> t
      [] OTHER -> IF LaterDeletion(u, t) THEN u ELSE t

Surviving(v, t) == IF v # None /\ t # None /\ Deletes(t, v) THEN None ELSE v

\* Mutant: the entities of a deleted paper stay behind.
KeepChildren(live, tomb) == live

\* A paper that is deleted takes all its entities with it, tombstone or not.
DropChildren(live, tomb) ==
    IF tomb[Paper] # None /\ live[Paper] = None THEN [k \in Key |-> None] ELSE live

MergeSnapshots(l, r) ==
    LET tomb == [k \in Key |-> MergeTombstone(l.tomb[k], r.tomb[k])]
        live == [k \in Key |-> Surviving(ChooseEntity(l.live[k], r.live[k]), tomb[k])]
    IN  [live |-> DropChildren(live, tomb), tomb |-> tomb]

\* assertPaperSnapshot: no key is both live and deleted. What is not publishable is
\* refused before anything is uploaded.
Publishable(s) == \A k \in Key : s.live[k] = None \/ s.tomb[k] = None

Loser(v, w) == IF ChooseEntity(v, w) = v THEN w ELSE v

\* Mutant: a key without a baseline is no conflict.
ConflictsOfBaseline(l, r, baseline) ==
    LET Clash(k) == /\ l.live[k] # None /\ r.live[k] # None
                    /\ l.live[k].val # r.live[k].val
                    /\ baseline[k] \notin {None, l.live[k].val, r.live[k].val}
    IN  {[key |-> k, winner |-> ChooseEntity(l.live[k], r.live[k]).val,
          loser |-> Loser(l.live[k], r.live[k]).val] : k \in {k \in Preserving : Clash(k)}}

\* baseline is the value each key had when this device last agreed with Drive. Two
\* values that both differ from it are a conflict, of which the loser is kept.
Conflicts(l, r, baseline) ==
    LET tomb(k) == MergeTombstone(l.tomb[k], r.tomb[k])
        Clash(k) == /\ l.live[k] # None /\ r.live[k] # None
                    /\ l.live[k].val # r.live[k].val
                    /\ Surviving(ChooseEntity(l.live[k], r.live[k]), tomb(k)) # None
                    /\ baseline[k] \notin {l.live[k].val, r.live[k].val}
    IN  {[key |-> k, winner |-> ChooseEntity(l.live[k], r.live[k]).val,
          loser |-> Loser(l.live[k], r.live[k]).val] : k \in {k \in Preserving : Clash(k)}}

NoBaseline == [k \in Key |-> None]

JoinHead(acc, h) ==
    [snap |-> MergeSnapshots(acc.snap, h.snap),
     conf |-> acc.conf \cup h.conf \cup Conflicts(acc.snap, h.snap, NoBaseline)]

\* Mutant: the conflicts the first head already carries are left behind.
FoldHeadsForgetting(heads) ==
    LET folded[i \in DOMAIN heads] ==
            IF i = 1 THEN [snap |-> heads[1].snap, conf |-> {}]
            ELSE JoinHead(folded[i - 1], heads[i])
    IN  folded[Len(heads)]

\* foldLoadedHeads: the heads, in the order of their ids, merged from left to right.
FoldHeads(heads) ==
    LET folded[i \in DOMAIN heads] ==
            IF i = 1 THEN [snap |-> heads[1].snap, conf |-> heads[1].conf]
            ELSE JoinHead(folded[i - 1], heads[i])
    IN  folded[Len(heads)]

================================================================================
