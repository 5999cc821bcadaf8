------------------------------ MODULE SnapshotFold ------------------------------
(* The heads of one paper as they pile up in Drive, each published by a device  *)
(* that had not seen the others, and what folding them gives: those the devices *)
(* of PaperSync leave there, and any few that a reader accepts. The algorithm   *)
(* of SnapshotMerge against what every device needs of it: the result must not  *)
(* depend on who folds, nor in which order.                                     *)

EXTENDS PaperSync

CONSTANTS Versions(_),   \* versions the entity of a key may have
          Tombstones(_), \* tombstones it may have
          MaxHeads       \* bound: heads of which nothing else is known

ASSUME HeadAssumption ==
    /\ \A k \in Key : Versions(k) \subseteq Version /\ Tombstones(k) \subseteq Tombstone
    /\ MaxHeads \in Nat

Snapshots == [live : [Key -> (UNION {Versions(k) : k \in Key}) \cup {None}],
              tomb : [Key -> (UNION {Tombstones(k) : k \in Key}) \cup {None}]]

\* The paper is live or deleted; nothing is live that was deleted later or is part of
\* a deleted paper.
Consistent(s) ==
    /\ \A k \in Key : Surviving(s.live[k], s.tomb[k]) = s.live[k]
    /\ s.live[Paper] # None \/ s.tomb[Paper] # None
    /\ s.live[Paper] = None => \A k \in Key : s.live[k] = None

\* What a publication can leave in Drive.
Published ==
    {s \in Snapshots :
        /\ \A k \in Key : /\ s.live[k] \in Versions(k) \cup {None}
                          /\ s.tomb[k] \in Tombstones(k) \cup {None}
        /\ Publishable(s)
        /\ Consistent(s)}

\* Nothing is known of the devices: only what they may have left in Drive.
HeadsInit ==
    /\ gens = <<>> /\ edits = <<>> /\ exposed = {}
    /\ local = [d \in Device |-> [k \in Key |-> None]]
    /\ unmarked = [d \in Device |-> FALSE]
    /\ sync = [d \in Device |-> FreshSync]
    /\ op = [d \in Device |-> Idle]

\* A head of which nothing else is known, the device that published it included.
PublishHead ==
    /\ Len(gens) < MaxHeads
    /\ \E s \in Published :
           gens' = Append(gens, [snap |-> s, conf |-> {}, parents |-> {},
                                 kind |-> "upload", by |-> 1])
    /\ UNCHANGED <<local, unmarked, sync, op, edits, exposed>>

HeadsSpec == HeadsInit /\ [][PublishHead]_vars

--------------------------------------------------------------------------------

Forked == Cardinality(Heads) > 1

InOrder(ids) == FoldHeads([i \in 1..Len(ids) |-> gens[ids[i]]])

PaperDeletedSomewhere == \E g \in Heads : gens[g].snap.live[Paper] = None

\* Two devices that reconcile the same two heads, each from its own side, publish the
\* same content and report the same conflicts. Several heads are folded in the order of
\* their hashes, which means nothing: while no head deletes the paper it does not matter.
FoldIgnoresOrder ==
    Forked =>
        /\ \A g, h \in Heads :
               LET a == gens[g].snap
                   b == gens[h].snap
               IN  /\ MergeSnapshots(a, b) = MergeSnapshots(b, a)
                   /\ Conflicts(a, b, NoBaseline) = Conflicts(b, a, NoBaseline)
        /\ ~PaperDeletedSomewhere =>
               \A p \in SetToSeqs(Heads) : InOrder(p).snap = FoldOf(Heads).snap

\* A fold deletes what it should, parts of a deleted paper included. It is refused for
\* publication only if a device edited what another one had deleted, and (while no head
\* deletes the paper) it already holds every head it came from.
FoldIsConsistent ==
    Forked =>
        LET folded == FoldOf(Heads).snap
            EditedAndDeleted(k) == \E g, h \in Heads :
                gens[g].snap.live[k] # None /\ gens[h].snap.tomb[k] # None
        IN  /\ Consistent(folded)
            /\ (~\E k \in Key : EditedAndDeleted(k)) => Publishable(folded)
            /\ ~PaperDeletedSomewhere =>
                   \A g \in Heads : MergeSnapshots(folded, gens[g].snap) = folded

\* Of the values two heads hold of one entity, the fold keeps the newer, live, and
\* the older in its conflicts, unless one of the heads deleted the entity.
FoldLosesNoValue ==
    Forked =>
        LET folded == FoldOf(Heads)
        IN  \A g \in Heads, k \in Preserving :
                LET v == gens[g].snap.live[k]
                IN  v # None =>
                      \/ folded.snap.live[k] # None /\ folded.snap.live[k].val = v.val
                      \/ \E c \in folded.conf : c.key = k /\ c.loser = v.val
                      \/ \E h \in Heads : \E q \in {k, Paper} : gens[h].snap.tomb[q] # None

================================================================================
