------------------------------ MODULE MCPaperSync ------------------------------
(* Two devices, the clock of the second running ahead of the first. *)

EXTENDS SnapshotFold

VARIABLE start  \* where the behaviour began, the same throughout

MCSkew == [d \in Device |-> IF d = 1 THEN 0 ELSE 2]

\* The paper is on both devices and nothing is pending: deeper runs start here.
AgreedInit ==
    LET v == [at |-> UpdatedAt(1), dev |-> 1, val |-> 1]
        snap == [live |-> [k \in Key |-> v], tomb |-> [k \in Key |-> None]]
    IN  /\ edits = <<[dev |-> 1, key |-> Paper, deletion |-> FALSE]>>
        /\ gens = <<[snap |-> snap, conf |-> {}, parents |-> {}, kind |-> "upload", by |-> 1]>>
        /\ local = [d \in Device |-> ValuesOf(snap)]
        /\ unmarked = [d \in Device |-> FALSE]
        /\ sync = [d \in Device |-> [FreshSync EXCEPT !.entities = snap.live,
                                                     !.baseline = ValuesOf(snap),
                                                     !.incorporated = {1}]]
        /\ op = [d \in Device |-> Idle]
        /\ exposed = {}

\* Device 1 has since published a newer note, which device 2 has not seen.
BehindInit ==
    LET old == [at |-> UpdatedAt(1), dev |-> 1, val |-> 1]
        new == [at |-> UpdatedAt(2), dev |-> 1, val |-> 2]
        first == [live |-> [k \in Key |-> old], tomb |-> [k \in Key |-> None]]
        second == [first EXCEPT !.live = [k \in Key |-> IF k = Paper THEN old ELSE new]]
        Synced(snap, heads) == [FreshSync EXCEPT !.entities = snap.live,
                                             !.baseline = ValuesOf(snap),
                                             !.incorporated = heads]
    IN  /\ edits = [n \in 1..2 |-> [dev |-> 1, key |-> IF n = 1 THEN Paper ELSE CHOOSE k \in Key : k # Paper,
                                    deletion |-> FALSE]]
        /\ gens = <<[snap |-> first, conf |-> {}, parents |-> {}, kind |-> "upload", by |-> 1],
                    [snap |-> second, conf |-> {}, parents |-> {1}, kind |-> "upload", by |-> 1]>>
        /\ local = [d \in Device |-> ValuesOf(IF d = 1 THEN second ELSE first)]
        /\ unmarked = [d \in Device |-> FALSE]
        /\ sync = [d \in Device |-> IF d = 1 THEN Synced(second, {2}) ELSE Synced(first, {1})]
        /\ op = [d \in Device |-> Idle]
        /\ exposed = {}

BehindSpec == BehindInit /\ start = "behind" /\ [][Next /\ UNCHANGED start]_<<vars, start>>

AgreedSpec == AgreedInit /\ start = "agreed" /\ [][Next /\ UNCHANGED start]_<<vars, start>>

MCVersions(k) ==
    IF k = Paper THEN [at : 1..2, dev : {1}, val : {1}]
    ELSE [at : 1..2, dev : {1}, val : {1}] \cup [at : 1..2, dev : {2}, val : {2, 3}]

MCTombstones(k) ==
    IF k = Paper THEN [at : 1..2, dev : {1}] ELSE [at : 1..2, dev : {1, 2}]

MCInit ==
    \/ start = "heads" /\ HeadsInit
    \/ start \in {"agreed", "losing"} /\ AgreedInit
    \/ start = "import" /\ Init

Loses(d) == RollbackApplication(d) \/ RollbackSettlement(d) \/ ClosePage(d)

Uploads(d) == op'[d].kind = "upload"

\* From the first import on one more edit, and "keep local". A paper both devices have is
\* edited more, but never kept local: until a join of two heads is published on top of,
\* or with losses and one publication.
Continue ==
    /\ Next
    /\ start # "losing" => ~(\E d \in Device : Loses(d))
    /\ start # "import" => \A d \in Device : Uploads(d)
    /\ start = "import" => Len(edits') <= 2
    /\ start = "losing" => Len(gens') <= 2

MCNext ==
    /\ UNCHANGED start
    /\ \/ start = "heads" /\ PublishHead
       \/ start # "heads" /\ Continue

MCSpec == MCInit /\ [][MCNext]_<<vars, start>>

================================================================================
