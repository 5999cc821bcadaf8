-------------------------- MODULE SnapshotMerge_proofs --------------------------
(* What merging two snapshots, and folding any number of heads, gives for any     *)
(* keys, clocks, devices and values. Induction over the heads of a fold is over   *)
(* the set of indices for which a claim holds.                                     *)

EXTENDS SnapshotMerge, TLAPS, FiniteSetTheorems

Snapshot == [live : [Key -> Version \cup {None}], tomb : [Key -> Tombstone \cup {None}]]

Conflict == [key : Preserving, winner : Nat, loser : Nat]

Folded == [snap : Snapshot, conf : SUBSET Conflict]

\* No head deletes the paper: the merge then looks at each key for itself.
Undeleted(s) == s.tomb[Paper] = None

MergedTomb(l, r, k) == MergeTombstone(l.tomb[k], r.tomb[k])

MergedLive(l, r, k) == Surviving(ChooseEntity(l.live[k], r.live[k]), MergedTomb(l, r, k))

--------------------------------------------------------------------------------
(* The orders of versions and deletions *)

\* compareVersions is a total order of versions.
LEMMA VersionOrder ==
    /\ \A v \in Version : AtLeast(v, v)
    /\ \A v, w \in Version : AtLeast(v, w) \/ AtLeast(w, v)
    /\ \A v, w \in Version : AtLeast(v, w) /\ AtLeast(w, v) => v = w
    /\ \A u, v, w \in Version : AtLeast(u, v) /\ AtLeast(v, w) => AtLeast(u, w)
<1>1. \A v \in Version : v.at \in Int /\ v.dev \in Int /\ v.val \in Int
  BY DEF Version
<1>2. \A v, w \in Version : AtLeast(v, w) /\ AtLeast(w, v) => v = w
  <2> SUFFICES ASSUME NEW v \in Version, NEW w \in Version, AtLeast(v, w), AtLeast(w, v)
               PROVE  v = w
    OBVIOUS
  <2>1. v.at = w.at /\ v.dev = w.dev /\ v.val = w.val
    BY <1>1 DEF AtLeast
  <2>2. v = [at |-> v.at, dev |-> v.dev, val |-> v.val]
        /\ w = [at |-> w.at, dev |-> w.dev, val |-> w.val]
    BY DEF Version
  <2> QED
    BY <2>1, <2>2
<1>3. \A u, v, w \in Version : AtLeast(u, v) /\ AtLeast(v, w) => AtLeast(u, w)
  BY <1>1 DEF AtLeast
<1> QED
  BY <1>1, <1>2, <1>3 DEF AtLeast

\* compareTombstones is a total order of the deletions of one key.
LEMMA DeletionOrder ==
    /\ \A t \in Tombstone : ~LaterDeletion(t, t)
    /\ \A t, u \in Tombstone : LaterDeletion(t, u) => ~LaterDeletion(u, t)
    /\ \A t, u \in Tombstone : ~LaterDeletion(t, u) /\ ~LaterDeletion(u, t) => t = u
    /\ \A t, u, x \in Tombstone : ~LaterDeletion(t, u) /\ ~LaterDeletion(u, x) => ~LaterDeletion(t, x)
<1>1. \A t \in Tombstone : t.at \in Int /\ t.dev \in Int
  BY DEF Tombstone
<1>2. \A t, u \in Tombstone : ~LaterDeletion(t, u) /\ ~LaterDeletion(u, t) => t = u
  <2> SUFFICES ASSUME NEW t \in Tombstone, NEW u \in Tombstone,
                      ~LaterDeletion(t, u), ~LaterDeletion(u, t)
               PROVE  t = u
    OBVIOUS
  <2>1. t.at = u.at /\ t.dev = u.dev
    BY <1>1 DEF LaterDeletion
  <2>2. t = [at |-> t.at, dev |-> t.dev] /\ u = [at |-> u.at, dev |-> u.dev]
    BY DEF Tombstone
  <2> QED
    BY <2>1, <2>2
<1>3. \A t, u, x \in Tombstone : ~LaterDeletion(t, u) /\ ~LaterDeletion(u, x) => ~LaterDeletion(t, x)
  BY <1>1 DEF LaterDeletion
<1> QED
  BY <1>1, <1>2, <1>3 DEF LaterDeletion

\* A deletion of a version deletes all older ones, and a later deletion does as well.
LEMMA DeletionsReach ==
    /\ \A t \in Tombstone, v, w \in Version : Deletes(t, w) /\ AtLeast(w, v) => Deletes(t, v)
    /\ \A t, u \in Tombstone, v \in Version :
           Deletes(t, v) /\ ~LaterDeletion(t, u) => Deletes(u, v)
<1>1. \A v \in Version : v.at \in Int /\ v.dev \in Int /\ v.val \in Int
  BY DEF Version
<1>2. \A t \in Tombstone : t.at \in Int /\ t.dev \in Int
  BY DEF Tombstone
<1> QED
  BY <1>1, <1>2 DEF Deletes, AtLeast, LaterDeletion

LEMMA NoneIsApart == None \notin Version /\ None \notin Tombstone
BY NoneIsNoEntity

--------------------------------------------------------------------------------
(* One merge *)

LEMMA MergeTypes ==
    ASSUME NEW v \in Version \cup {None}, NEW w \in Version \cup {None},
           NEW t \in Tombstone \cup {None}, NEW u \in Tombstone \cup {None}
    PROVE  /\ ChooseEntity(v, w) \in Version \cup {None}
           /\ MergeTombstone(t, u) \in Tombstone \cup {None}
           /\ Surviving(v, t) \in Version \cup {None}
BY DEF ChooseEntity, MergeTombstone, Surviving

LEMMA ChooseSymmetric ==
    ASSUME NEW v \in Version \cup {None}, NEW w \in Version \cup {None}
    PROVE  ChooseEntity(v, w) = ChooseEntity(w, v)
BY VersionOrder, NoneIsApart DEF ChooseEntity

LEMMA TombstoneSymmetric ==
    ASSUME NEW t \in Tombstone \cup {None}, NEW u \in Tombstone \cup {None}
    PROVE  MergeTombstone(t, u) = MergeTombstone(u, t)
BY DeletionOrder, NoneIsApart DEF MergeTombstone

\* mergeSyncSnapshots gives two devices that merge the same two snapshots, each from its
\* own side, the same content and the same conflicts.
THEOREM MergeSymmetric ==
    ASSUME NEW l \in Snapshot, NEW r \in Snapshot
    PROVE  /\ MergeSnapshots(l, r) = MergeSnapshots(r, l)
           /\ Conflicts(l, r, NoBaseline) = Conflicts(r, l, NoBaseline)
<1>1. ASSUME NEW k \in Key
      PROVE  /\ l.live[k] \in Version \cup {None} /\ r.live[k] \in Version \cup {None}
             /\ l.tomb[k] \in Tombstone \cup {None} /\ r.tomb[k] \in Tombstone \cup {None}
  BY <1>1 DEF Snapshot
<1>2. \A k \in Key : /\ ChooseEntity(l.live[k], r.live[k]) = ChooseEntity(r.live[k], l.live[k])
                     /\ MergeTombstone(l.tomb[k], r.tomb[k]) = MergeTombstone(r.tomb[k], l.tomb[k])
  BY <1>1, ChooseSymmetric, TombstoneSymmetric
<1>3. MergeSnapshots(l, r) = MergeSnapshots(r, l)
  BY <1>2 DEF MergeSnapshots
<1>4. Preserving \subseteq Key
  BY KeyAssumption
<1>5. ASSUME NEW k \in Preserving, l.live[k] # None, r.live[k] # None,
             l.live[k].val # r.live[k].val
      PROVE  Loser(l.live[k], r.live[k]) = Loser(r.live[k], l.live[k])
  BY <1>1, <1>2, <1>4, <1>5 DEF Loser, ChooseEntity
<1>6. ASSUME NEW c \in Conflicts(l, r, NoBaseline) PROVE c \in Conflicts(r, l, NoBaseline)
  BY <1>2, <1>4, <1>5, <1>6 DEF Conflicts
<1>7. ASSUME NEW c \in Conflicts(r, l, NoBaseline) PROVE c \in Conflicts(l, r, NoBaseline)
  BY <1>2, <1>4, <1>5, <1>7 DEF Conflicts
<1> QED
  BY <1>3, <1>6, <1>7

LEMMA MergeSnapshotType ==
    ASSUME NEW l \in Snapshot, NEW r \in Snapshot
    PROVE  MergeSnapshots(l, r) \in Snapshot
<1>1. \A k \in Key : /\ MergedTomb(l, r, k) \in Tombstone \cup {None}
                     /\ MergedLive(l, r, k) \in Version \cup {None}
  <2> TAKE k \in Key
  <2>1. /\ l.live[k] \in Version \cup {None} /\ r.live[k] \in Version \cup {None}
        /\ l.tomb[k] \in Tombstone \cup {None} /\ r.tomb[k] \in Tombstone \cup {None}
    BY DEF Snapshot
  <2>2. MergedTomb(l, r, k) \in Tombstone \cup {None}
    BY <2>1, MergeTypes DEF MergedTomb
  <2>3. ChooseEntity(l.live[k], r.live[k]) \in Version \cup {None}
    BY <2>1, MergeTypes
  <2> QED
    BY <2>2, <2>3, MergeTypes DEF MergedLive
<1>2. [k \in Key |-> MergedTomb(l, r, k)] \in [Key -> Tombstone \cup {None}]
  BY <1>1
<1>3. [k \in Key |-> MergedLive(l, r, k)] \in [Key -> Version \cup {None}]
  BY <1>1
<1>4. [k \in Key |-> None] \in [Key -> Version \cup {None}]
  OBVIOUS
<1> QED
  BY <1>2, <1>3, <1>4 DEF MergeSnapshots, DropChildren, Snapshot, MergedTomb, MergedLive

LEMMA MergeByKey ==
    ASSUME NEW l \in Snapshot, NEW r \in Snapshot, NEW k \in Key
    PROVE  /\ MergeSnapshots(l, r).tomb[k] = MergedTomb(l, r, k)
           /\ \/ MergeSnapshots(l, r).live[k] = MergedLive(l, r, k)
              \/ /\ MergedTomb(l, r, Paper) # None /\ MergedLive(l, r, Paper) = None
                 /\ MergeSnapshots(l, r).live[k] = None
           /\ Undeleted(MergeSnapshots(l, r)) => MergeSnapshots(l, r).live[k] = MergedLive(l, r, k)
<1>1. Paper \in Key
  BY KeyAssumption
<1> QED
  BY <1>1 DEF MergeSnapshots, DropChildren, MergedTomb, MergedLive, Undeleted

LEMMA MergeUndeleted ==
    ASSUME NEW l \in Snapshot, NEW r \in Snapshot, Undeleted(l), Undeleted(r)
    PROVE  Undeleted(MergeSnapshots(l, r))
BY MergeByKey, KeyAssumption DEF Undeleted, MergedTomb, MergeTombstone

LEMMA ConflictTypes ==
    ASSUME NEW l \in Snapshot, NEW r \in Snapshot, NEW baseline
    PROVE  Conflicts(l, r, baseline) \in SUBSET Conflict
<1> SUFFICES ASSUME NEW c \in Conflicts(l, r, baseline) PROVE c \in Conflict
  OBVIOUS
<1>1. PICK k \in Preserving :
          /\ l.live[k] # None /\ r.live[k] # None
          /\ c = [key |-> k, winner |-> ChooseEntity(l.live[k], r.live[k]).val,
                  loser |-> Loser(l.live[k], r.live[k]).val]
  BY DEF Conflicts
<1>2. k \in Key /\ l.live[k] \in Version /\ r.live[k] \in Version
  BY <1>1, KeyAssumption DEF Snapshot
<1>3. ChooseEntity(l.live[k], r.live[k]) \in Version /\ Loser(l.live[k], r.live[k]) \in Version
  BY <1>1, <1>2 DEF ChooseEntity, Loser
<1> QED
  BY <1>1, <1>3 DEF Conflict, Version

--------------------------------------------------------------------------------
(* A fold of any number of heads *)

LEMMA NatByInduction ==
    ASSUME NEW S, 0 \in S, \A n \in Nat : n \in S => n + 1 \in S
    PROVE  Nat \subseteq S
<1> DEFINE R == {ss \in Nat \X Nat : ss[1] < ss[2]}
           T == Nat \ S
<1>1. IsWellFoundedOn(R, Nat)
  BY NatLessThanWellFounded DEF OpToRel
<1> SUFFICES ASSUME T # {} PROVE FALSE
  OBVIOUS
<1>2. T \subseteq Nat
  OBVIOUS
<1> HIDE DEF R, T
<1>3. PICK x \in T : \A y \in T : <<y, x>> \notin R
  BY <1>1, <1>2, WFMin
<1>4. x \in Nat /\ x # 0 /\ x - 1 \in T
  BY <1>3 DEF T
<1>5. <<x - 1, x>> \in R
  BY <1>4 DEF R
<1> QED
  BY <1>3, <1>4, <1>5

LEMMA IndexByInduction ==
    ASSUME NEW n \in Nat \ {0}, NEW S, 1 \in S,
           \A i \in 1..n : i < n /\ i \in S => i + 1 \in S
    PROVE  1..n \subseteq S
<1> DEFINE U == {i \in Nat : i \in 1..n => i \in S}
<1>1. 0 \in U
  OBVIOUS
<1>2. \A i \in Nat : i \in U => i + 1 \in U
  OBVIOUS
<1> HIDE DEF U
<1>3. Nat \subseteq U
  BY <1>1, <1>2, NatByInduction
<1> QED
  BY <1>3 DEF U

FirstHead(heads) == [snap |-> heads[1].snap, conf |-> heads[1].conf]

\* "run" holds what foldLoadedHeads has after each head.
IsFold(run, heads) ==
    /\ run \in [DOMAIN heads -> Folded]
    /\ run[1] = FirstHead(heads)
    /\ \A i \in DOMAIN heads : i + 1 \in DOMAIN heads => run[i + 1] = JoinHead(run[i], heads[i + 1])
    /\ FoldHeads(heads) = run[Len(heads)]

IsHeads(heads) ==
    /\ DOMAIN heads = 1..Len(heads) /\ Len(heads) \in Nat \ {0}
    /\ \A i \in DOMAIN heads : heads[i].snap \in Snapshot /\ heads[i].conf \in SUBSET Conflict

LEMMA JoinType ==
    ASSUME NEW acc \in Folded, NEW h, h.snap \in Snapshot, h.conf \in SUBSET Conflict
    PROVE  JoinHead(acc, h) \in Folded
<1>1. acc.snap \in Snapshot /\ acc.conf \in SUBSET Conflict
  BY DEF Folded
<1>2. /\ MergeSnapshots(acc.snap, h.snap) \in Snapshot
      /\ Conflicts(acc.snap, h.snap, NoBaseline) \in SUBSET Conflict
  BY <1>1, MergeSnapshotType, ConflictTypes
<1> QED
  BY <1>1, <1>2 DEF JoinHead, Folded

\* The recursion of FoldHeads has a solution.
LEMMA FoldRuns ==
    ASSUME NEW heads, IsHeads(heads)
    PROVE  \E run : IsFold(run, heads)
<1> DEFINE N == Len(heads)
           Step(f, i) == IF i = 1 THEN FirstHead(heads) ELSE JoinHead(f[i - 1], heads[i])
           Ran(n, f) == f \in [1..n -> Folded] /\ \A i \in 1..n : f[i] = Step(f, i)
           S == {n \in 1..N : \E f : Ran(n, f)}
<1>1. N \in Nat \ {0} /\ DOMAIN heads = 1..N
  BY DEF IsHeads
<1>2. \A i \in 1..N : heads[i].snap \in Snapshot /\ heads[i].conf \in SUBSET Conflict
  BY <1>1 DEF IsHeads
<1>3. 1 \in S
  <2>1. FirstHead(heads) \in Folded
    BY <1>1, <1>2 DEF FirstHead, Folded
  <2>2. Ran(1, [i \in 1..1 |-> FirstHead(heads)])
    BY <2>1
  <2> HIDE DEF Ran
  <2>3. \E f : Ran(1, f)
    BY <2>2
  <2> QED
    BY <2>3, <1>1
<1>4. ASSUME NEW n \in 1..N, n < N, n \in S PROVE n + 1 \in S
  <2>1. PICK f : Ran(n, f)
    BY <1>4
  <2> DEFINE g == [i \in 1..(n + 1) |-> IF i = n + 1 THEN JoinHead(f[n], heads[n + 1]) ELSE f[i]]
  <2>2. n \in 1..n /\ n + 1 \in 1..N /\ n \in Nat /\ n >= 1
    BY <1>1, <1>4
  <2>3. JoinHead(f[n], heads[n + 1]) \in Folded
    BY <2>1, <2>2, <1>2, JoinType
  <2>4. g \in [1..(n + 1) -> Folded]
    BY <2>1, <2>2, <2>3
  <2>5. \A i \in 1..n : g[i] = f[i]
    BY <2>2
  <2>6. g[n + 1] = JoinHead(g[n], heads[n + 1])
    BY <2>2
  <2> HIDE DEF g
  <2>7. \A i \in 1..(n + 1) : g[i] = Step(g, i)
    <3> SUFFICES ASSUME NEW i \in 1..(n + 1) PROVE g[i] = Step(g, i)
      OBVIOUS
    <3>1. CASE i = n + 1
      BY <3>1, <2>2, <2>6
    <3>2. CASE i \in 1..n
      <4>1. i # 1 => i - 1 \in 1..n
        BY <3>2, <2>2
      <4>2. f[i] = Step(f, i)
        BY <3>2, <2>1
      <4> QED
        BY <4>1, <4>2, <2>5, <3>2
    <3> QED
      BY <3>1, <3>2, <2>2
  <2>8. Ran(n + 1, g)
    BY <2>4, <2>7
  <2> QED
    BY <2>2, <2>8
<1> HIDE DEF S
<1>5. N \in S
  <2>1. \A i \in 1..N : i < N /\ i \in S => i + 1 \in S
    BY <1>4
  <2> HIDE DEF N
  <2>2. 1..N \subseteq S
    BY <1>1, <1>3, <2>1, IndexByInduction
  <2> QED
    BY <1>1, <2>2
<1>6. PICK f : Ran(N, f)
  BY <1>5 DEF S
<1> DEFINE run == CHOOSE g : g = [i \in DOMAIN heads |-> IF i = 1 THEN FirstHead(heads)
                                                        ELSE JoinHead(g[i - 1], heads[i])]
<1>7. f = [i \in DOMAIN heads |-> IF i = 1 THEN FirstHead(heads) ELSE JoinHead(f[i - 1], heads[i])]
  BY <1>1, <1>6
<1>8. run = [i \in DOMAIN heads |-> IF i = 1 THEN FirstHead(heads) ELSE JoinHead(run[i - 1], heads[i])]
  BY <1>7
<1>9. FoldHeads(heads) = run[Len(heads)]
  BY DEF FoldHeads, FirstHead
<1> HIDE DEF run
<1>10. \A i \in 1..N : run[i] = Step(run, i)
  BY <1>8, <1>1
<1>11. 1..N \subseteq {i \in 1..N : run[i] \in Folded}
  <2> DEFINE W == {i \in 1..N : run[i] \in Folded}
  <2>1. 1 \in W
    BY <1>1, <1>2, <1>10 DEF FirstHead, Folded
  <2>2. \A i \in 1..N : i < N /\ i \in W => i + 1 \in W
    <3> SUFFICES ASSUME NEW i \in 1..N, i < N, run[i] \in Folded PROVE i + 1 \in W
      OBVIOUS
    <3>1. i + 1 \in 1..N /\ i + 1 # 1 /\ (i + 1) - 1 = i
      BY <1>1
    <3>2. run[i + 1] = JoinHead(run[i], heads[i + 1])
      BY <3>1, <1>10
    <3> QED
      BY <3>1, <3>2, <1>2, JoinType
  <2> HIDE DEF W
  <2>3. 1..N \subseteq W
    BY <1>1, <2>1, <2>2, IndexByInduction
  <2> QED
    BY <2>3 DEF W
<1>12. run \in [DOMAIN heads -> Folded]
  BY <1>8, <1>1, <1>11
<1>13. \A i \in 1..N : i + 1 \in 1..N => run[i + 1] = JoinHead(run[i], heads[i + 1])
  <2> SUFFICES ASSUME NEW i \in 1..N, i + 1 \in 1..N PROVE run[i + 1] = JoinHead(run[i], heads[i + 1])
    OBVIOUS
  <2>1. i + 1 # 1 /\ (i + 1) - 1 = i
    BY <1>1
  <2> QED
    BY <2>1, <1>10
<1>14. run[1] = FirstHead(heads)
  BY <1>1, <1>10
<1> QED
  BY <1>1, <1>9, <1>12, <1>13, <1>14 DEF IsFold

LEMMA FoldTypes ==
    ASSUME NEW heads, IsHeads(heads), NEW run, IsFold(run, heads)
    PROVE  /\ FoldHeads(heads) \in Folded /\ FoldHeads(heads).snap \in Snapshot
           /\ \A i \in DOMAIN heads : run[i].snap \in Snapshot /\ run[i].conf \in SUBSET Conflict
BY DEF IsHeads, IsFold, Folded

\* No conflict of a head is left behind.
LEMMA FoldKeepsConflicts ==
    ASSUME NEW heads, IsHeads(heads)
    PROVE  \A j \in DOMAIN heads : heads[j].conf \subseteq FoldHeads(heads).conf
<1> DEFINE N == Len(heads)
<1>1. PICK run : IsFold(run, heads)
  BY FoldRuns
<1> DEFINE S == {i \in 1..N : \A j \in 1..i : heads[j].conf \subseteq run[i].conf}
<1>2. N \in Nat \ {0} /\ DOMAIN heads = 1..N
  BY DEF IsHeads
<1>3. 1 \in S
  BY <1>1, <1>2 DEF IsFold, FirstHead
<1>4. \A i \in 1..N : i < N /\ i \in S => i + 1 \in S
  <2> SUFFICES ASSUME NEW i \in 1..N, i < N, \A j \in 1..i : heads[j].conf \subseteq run[i].conf
               PROVE  i + 1 \in S
    OBVIOUS
  <2>1. i + 1 \in 1..N
    BY <1>2
  <2>2. run[i + 1] = JoinHead(run[i], heads[i + 1])
    BY <1>1, <1>2, <2>1 DEF IsFold
  <2>3. run[i].conf \subseteq run[i + 1].conf /\ heads[i + 1].conf \subseteq run[i + 1].conf
    BY <2>2 DEF JoinHead
  <2>4. \A j \in 1..(i + 1) : j \in 1..i \/ j = i + 1
    BY <1>2
  <2> QED
    BY <2>1, <2>3, <2>4
<1> HIDE DEF S
<1>5. 1..N \subseteq S
  BY <1>2, <1>3, <1>4, IndexByInduction
<1>6. N \in S
  BY <1>2, <1>5
<1>7. \A j \in 1..N : heads[j].conf \subseteq run[N].conf
  BY <1>6 DEF S
<1> QED
  BY <1>1, <1>2, <1>7 DEF IsFold

IsLatest(t, heads, n, k) ==
    /\ t \in Tombstone \cup {None}
    /\ \A j \in 1..n : LET u == heads[j].snap.tomb[k]
                       IN  u # None => t # None /\ ~LaterDeletion(u, t)
    /\ t # None => \E j \in 1..n : heads[j].snap.tomb[k] = t

IsNewest(v, heads, n, k) ==
    /\ v \in Version \cup {None}
    /\ \A j \in 1..n : LET w == heads[j].snap.live[k]
                       IN  w # None => v # None /\ AtLeast(v, w)
    /\ v # None => \E j \in 1..n : heads[j].snap.live[k] = v

\* Of several deletions of a key the fold has the latest.
LEMMA LatestStep ==
    ASSUME NEW heads, NEW n \in Nat, NEW k, NEW t, IsLatest(t, heads, n, k),
           heads[n + 1].snap.tomb[k] \in Tombstone \cup {None},
           \A j \in 1..n : heads[j].snap.tomb[k] \in Tombstone \cup {None}
    PROVE  IsLatest(MergeTombstone(t, heads[n + 1].snap.tomb[k]), heads, n + 1, k)
<1> DEFINE h == heads[n + 1].snap.tomb[k]
           m == MergeTombstone(t, h)
<1>1. t \in Tombstone \cup {None} /\ m \in Tombstone \cup {None}
  BY DEF IsLatest, MergeTombstone
<1>2. m = t \/ m = h
  BY DEF MergeTombstone
<1>3. t # None => m # None /\ ~LaterDeletion(t, m)
  BY <1>1, DeletionOrder, NoneIsApart DEF MergeTombstone
<1>4. h # None => m # None /\ ~LaterDeletion(h, m)
  BY <1>1, DeletionOrder, NoneIsApart DEF MergeTombstone
<1> HIDE DEF m
<1>5. \A j \in 1..(n + 1) : j \in 1..n \/ j = n + 1
  OBVIOUS
<1>6. ASSUME NEW j \in 1..(n + 1), heads[j].snap.tomb[k] # None
      PROVE  m # None /\ ~LaterDeletion(heads[j].snap.tomb[k], m)
  <2>1. CASE j = n + 1
    BY <1>4, <1>6, <2>1
  <2>2. CASE j \in 1..n
    <3>1. t # None /\ ~LaterDeletion(heads[j].snap.tomb[k], t)
      BY <1>6, <2>2 DEF IsLatest
    <3>2. heads[j].snap.tomb[k] \in Tombstone /\ t \in Tombstone /\ m \in Tombstone
      BY <1>1, <1>3, <1>6, <2>2, <3>1
    <3> QED
      BY <1>3, <3>1, <3>2, DeletionOrder
  <2> QED
    BY <1>5, <2>1, <2>2
<1>7. m # None => \E j \in 1..(n + 1) : heads[j].snap.tomb[k] = m
  <2>1. CASE m = h
    BY <2>1
  <2>2. CASE m = t
    <3>1. \A j \in 1..n : j \in 1..(n + 1)
      OBVIOUS
    <3> QED
      BY <2>2, <3>1 DEF IsLatest
  <2> QED
    BY <1>2, <2>1, <2>2
<1> QED
  BY <1>1, <1>6, <1>7 DEF IsLatest, m

\* The same of versions.
LEMMA NewestStep ==
    ASSUME NEW heads, NEW n \in Nat, NEW k, NEW v, IsNewest(v, heads, n, k),
           heads[n + 1].snap.live[k] \in Version \cup {None},
           \A j \in 1..n : heads[j].snap.live[k] \in Version \cup {None}
    PROVE  IsNewest(ChooseEntity(v, heads[n + 1].snap.live[k]), heads, n + 1, k)
<1> DEFINE h == heads[n + 1].snap.live[k]
           m == ChooseEntity(v, h)
<1>1. v \in Version \cup {None} /\ m \in Version \cup {None}
  BY MergeTypes DEF IsNewest
<1>2. m = v \/ m = h
  BY DEF ChooseEntity
<1>3. v # None => m # None /\ AtLeast(m, v)
  BY <1>1, VersionOrder, NoneIsApart DEF ChooseEntity
<1>4. h # None => m # None /\ AtLeast(m, h)
  BY <1>1, VersionOrder, NoneIsApart DEF ChooseEntity
<1> HIDE DEF m
<1>5. \A j \in 1..(n + 1) : j \in 1..n \/ j = n + 1
  OBVIOUS
<1>6. ASSUME NEW j \in 1..(n + 1), heads[j].snap.live[k] # None
      PROVE  m # None /\ AtLeast(m, heads[j].snap.live[k])
  <2>1. CASE j = n + 1
    BY <1>4, <1>6, <2>1
  <2>2. CASE j \in 1..n
    <3>1. v # None /\ AtLeast(v, heads[j].snap.live[k])
      BY <1>6, <2>2 DEF IsNewest
    <3>2. heads[j].snap.live[k] \in Version /\ v \in Version /\ m \in Version
      BY <1>1, <1>3, <1>6, <2>2, <3>1
    <3> QED
      BY <1>3, <3>1, <3>2, VersionOrder
  <2> QED
    BY <1>5, <2>1, <2>2
<1>7. m # None => \E j \in 1..(n + 1) : heads[j].snap.live[k] = m
  <2>1. CASE m = h
    BY <2>1
  <2>2. CASE m = v
    <3>1. \A j \in 1..n : j \in 1..(n + 1)
      OBVIOUS
    <3> QED
      BY <2>2, <3>1 DEF IsNewest
  <2> QED
    BY <1>2, <2>1, <2>2
<1> QED
  BY <1>1, <1>6, <1>7 DEF IsNewest, m

LEMMA FoldDeletions ==
    ASSUME NEW heads, IsHeads(heads), NEW run, IsFold(run, heads)
    PROVE  \A i \in DOMAIN heads, k \in Key : IsLatest(run[i].snap.tomb[k], heads, i, k)
<1> DEFINE N == Len(heads)
           S == {i \in 1..N : \A k \in Key : IsLatest(run[i].snap.tomb[k], heads, i, k)}
<1>1. N \in Nat \ {0} /\ DOMAIN heads = 1..N
  BY DEF IsHeads
<1>2. \A i \in 1..N, k \in Key : heads[i].snap.tomb[k] \in Tombstone \cup {None}
  BY <1>1 DEF IsHeads, Snapshot
<1>3. 1 \in S
  <2>1. run[1].snap = heads[1].snap
    BY DEF IsFold, FirstHead
  <2>2. \A k \in Key : IsLatest(heads[1].snap.tomb[k], heads, 1, k)
    <3> TAKE k \in Key
    <3>1. heads[1].snap.tomb[k] \in Tombstone \cup {None}
      BY <1>1, <1>2
    <3>2. \A j \in 1..1 : j = 1
      OBVIOUS
    <3> QED
      BY <3>1, <3>2, DeletionOrder DEF IsLatest
  <2> QED
    BY <1>1, <2>1, <2>2
<1>4. \A i \in 1..N : i < N /\ i \in S => i + 1 \in S
  <2> SUFFICES ASSUME NEW i \in 1..N, i < N,
                      \A k \in Key : IsLatest(run[i].snap.tomb[k], heads, i, k),
                      NEW k \in Key
               PROVE  IsLatest(run[i + 1].snap.tomb[k], heads, i + 1, k)
    BY <1>1
  <2>1. i + 1 \in 1..N /\ i \in Nat
    BY <1>1
  <2>2. run[i + 1] = JoinHead(run[i], heads[i + 1])
    BY <1>1, <2>1 DEF IsFold
  <2>3. run[i + 1].snap.tomb[k] = MergeTombstone(run[i].snap.tomb[k], heads[i + 1].snap.tomb[k])
    BY <2>2 DEF JoinHead, MergeSnapshots
  <2>4. \A j \in 1..i : heads[j].snap.tomb[k] \in Tombstone \cup {None}
    BY <1>1, <1>2
  <2> QED
    BY <1>2, <2>1, <2>3, <2>4, LatestStep
<1> HIDE DEF S
<1>5. 1..N \subseteq S
  BY <1>1, <1>3, <1>4, IndexByInduction
<1> QED
  BY <1>1, <1>5 DEF S

\* While no head deletes the paper, a key is live in the fold exactly if no head deleted
\* the newest of its versions.
LEMMA FoldVersions ==
    ASSUME NEW heads, IsHeads(heads), NEW run, IsFold(run, heads),
           \A i \in DOMAIN heads : Undeleted(heads[i].snap),
           \A i \in DOMAIN heads : \A k \in Key :
               LET s == heads[i].snap IN Surviving(s.live[k], s.tomb[k]) = s.live[k]
    PROVE  /\ \A i \in DOMAIN heads : Undeleted(run[i].snap)
           /\ \A i \in DOMAIN heads, k \in Key :
                  \E v : /\ IsNewest(v, heads, i, k)
                         /\ run[i].snap.live[k] = Surviving(v, run[i].snap.tomb[k])
<1> DEFINE N == Len(heads)
           Sums(i, k) == \E v : /\ IsNewest(v, heads, i, k)
                                /\ run[i].snap.live[k] = Surviving(v, run[i].snap.tomb[k])
           S == {i \in 1..N : \A k \in Key : Sums(i, k)}
<1>1. N \in Nat \ {0} /\ DOMAIN heads = 1..N
  BY DEF IsHeads
<1>2. \A i \in 1..N, k \in Key : /\ heads[i].snap.live[k] \in Version \cup {None}
                                 /\ heads[i].snap.tomb[k] \in Tombstone \cup {None}
  BY <1>1 DEF IsHeads, Snapshot
<1>3. \A i \in 1..N : Undeleted(run[i].snap)
  BY <1>1, FoldDeletions, KeyAssumption DEF IsLatest, Undeleted
<1>4. 1 \in S
  <2>1. run[1].snap = heads[1].snap
    BY DEF IsFold, FirstHead
  <2>2. \A k \in Key : Sums(1, k)
    <3> TAKE k \in Key
    <3>1. heads[1].snap.live[k] \in Version \cup {None}
      BY <1>1, <1>2
    <3>2. \A j \in 1..1 : j = 1
      OBVIOUS
    <3>3. IsNewest(heads[1].snap.live[k], heads, 1, k)
      BY <3>1, <3>2, VersionOrder DEF IsNewest
    <3> QED
      BY <1>1, <2>1, <3>3
  <2> QED
    BY <1>1, <2>2
<1>5. \A i \in 1..N : i < N /\ i \in S => i + 1 \in S
  <2> HIDE DEF Sums
  <2> SUFFICES ASSUME NEW i \in 1..N, i < N, \A k \in Key : Sums(i, k), NEW k \in Key
               PROVE  Sums(i + 1, k)
    BY <1>1
  <2> USE DEF Sums
  <2>1. i + 1 \in 1..N /\ i \in Nat
    BY <1>1
  <2>2. run[i + 1] = JoinHead(run[i], heads[i + 1])
    BY <1>1, <2>1 DEF IsFold
  <2> DEFINE h == heads[i + 1].snap.live[k]
             t == run[i].snap.tomb[k]
             u == run[i + 1].snap.tomb[k]
  <2>3. PICK v : IsNewest(v, heads, i, k) /\ run[i].snap.live[k] = Surviving(v, t)
    OBVIOUS
  <2>4. run[i].snap \in Snapshot /\ heads[i + 1].snap \in Snapshot /\ run[i + 1].snap \in Snapshot
    BY <1>1, <2>1, FoldTypes DEF IsHeads
  <2>5. run[i + 1].snap = MergeSnapshots(run[i].snap, heads[i + 1].snap)
    BY <2>2 DEF JoinHead
  <2>6. /\ run[i + 1].snap.live[k] = MergedLive(run[i].snap, heads[i + 1].snap, k)
        /\ u = MergedTomb(run[i].snap, heads[i + 1].snap, k)
    BY <1>3, <2>1, <2>4, <2>5, MergeByKey
  <2>7. run[i + 1].snap.live[k] = Surviving(ChooseEntity(Surviving(v, t), h), u)
    BY <2>3, <2>6 DEF MergedLive
  <2>8. u = MergeTombstone(t, heads[i + 1].snap.tomb[k])
    BY <2>6 DEF MergedTomb
  <2>9. IsNewest(ChooseEntity(v, h), heads, i + 1, k)
    <3>1. \A j \in 1..i : heads[j].snap.live[k] \in Version \cup {None}
      BY <1>1, <1>2
    <3> QED
      BY <1>2, <2>1, <2>3, <3>1, NewestStep
  <2>10. t # None => u # None /\ ~LaterDeletion(t, u)
    <3>1. t \in Tombstone \cup {None} /\ u \in Tombstone \cup {None}
      BY <2>4 DEF Snapshot
    <3> QED
      BY <2>8, <3>1, <1>2, <2>1, DeletionOrder, NoneIsApart DEF MergeTombstone
  <2>11. Surviving(ChooseEntity(Surviving(v, t), h), u) = Surviving(ChooseEntity(v, h), u)
    <3>1. /\ t \in Tombstone \cup {None} /\ u \in Tombstone \cup {None}
          /\ v \in Version \cup {None} /\ h \in Version \cup {None}
      BY <2>1, <2>3, <2>4, <1>2 DEF Snapshot, IsNewest
    <3> HIDE DEF t, u, h
    <3>2. CASE Surviving(v, t) = v
      BY <3>2
    <3>3. CASE Surviving(v, t) # v
      <4>1. v # None /\ t # None /\ Deletes(t, v) /\ Surviving(v, t) = None
        BY <3>3 DEF Surviving
      <4>2. v \in Version /\ t \in Tombstone /\ u \in Tombstone
        BY <2>10, <3>1, <4>1
      <4>3. Deletes(u, v)
        BY <2>10, <4>1, <4>2, DeletionsReach
      <4>4. CASE h = None
        <5>1. ChooseEntity(None, h) = None /\ ChooseEntity(v, h) = v
          BY <4>1, <4>4 DEF ChooseEntity
        <5> QED
          BY <4>1, <4>2, <4>3, <5>1, NoneIsApart DEF Surviving
      <4>5. CASE h # None /\ AtLeast(v, h)
        <5>1. Deletes(u, h)
          BY <3>1, <4>2, <4>3, <4>5, DeletionsReach
        <5>2. ChooseEntity(None, h) = h /\ ChooseEntity(v, h) = v
          BY <4>1, <4>5 DEF ChooseEntity
        <5> QED
          BY <4>1, <4>2, <4>3, <4>5, <5>1, <5>2, NoneIsApart DEF Surviving
      <4>6. CASE h # None /\ ~AtLeast(v, h)
        <5>1. ChooseEntity(None, h) = h /\ ChooseEntity(v, h) = h
          BY <4>1, <4>6 DEF ChooseEntity
        <5> QED
          BY <4>1, <5>1
      <4> QED
        BY <4>4, <4>5, <4>6
    <3> QED
      BY <3>2, <3>3
  <2> QED
    BY <2>7, <2>9, <2>11
<1> HIDE DEF S
<1>6. 1..N \subseteq S
  BY <1>1, <1>4, <1>5, IndexByInduction
<1> QED
  BY <1>1, <1>3, <1>6 DEF S

\* What a fold of undeleted heads holds follows from the set of its heads.
LEMMA FoldSums ==
    ASSUME NEW heads, IsHeads(heads),
           \A i \in DOMAIN heads : Undeleted(heads[i].snap),
           \A i \in DOMAIN heads : \A k \in Key :
               LET s == heads[i].snap IN Surviving(s.live[k], s.tomb[k]) = s.live[k]
    PROVE  LET s == FoldHeads(heads).snap
           IN  /\ s \in Snapshot /\ Undeleted(s)
               /\ \A k \in Key : IsLatest(s.tomb[k], heads, Len(heads), k)
               /\ \A k \in Key : \E v : /\ IsNewest(v, heads, Len(heads), k)
                                        /\ s.live[k] = Surviving(v, s.tomb[k])
<1>1. PICK run : IsFold(run, heads)
  BY FoldRuns
<1>2. Len(heads) \in DOMAIN heads /\ FoldHeads(heads) = run[Len(heads)]
  BY <1>1 DEF IsHeads, IsFold
<1> QED
  BY <1>1, <1>2, FoldTypes, FoldDeletions, FoldVersions

\* What is live in a fold was live in a head.
LEMMA FoldLiveFrom ==
    ASSUME NEW heads, IsHeads(heads), NEW k \in Key, FoldHeads(heads).snap.live[k] # None
    PROVE  \E j \in DOMAIN heads : heads[j].snap.live[k] # None
<1> DEFINE N == Len(heads)
<1> SUFFICES ASSUME \A j \in DOMAIN heads : heads[j].snap.live[k] = None
             PROVE  FALSE
  OBVIOUS
<1>1. PICK run : IsFold(run, heads)
  BY FoldRuns
<1> DEFINE U == {i \in 1..N : run[i].snap.live[k] = None}
<1>2. N \in Nat \ {0} /\ DOMAIN heads = 1..N
  BY DEF IsHeads
<1>3. 1 \in U
  BY <1>1, <1>2 DEF IsFold, FirstHead
<1>4. \A i \in 1..N : i < N /\ i \in U => i + 1 \in U
  <2> SUFFICES ASSUME NEW i \in 1..N, i < N, run[i].snap.live[k] = None
               PROVE  i + 1 \in U
    OBVIOUS
  <2>1. i + 1 \in 1..N
    BY <1>2
  <2>2. run[i + 1].snap = MergeSnapshots(run[i].snap, heads[i + 1].snap)
    <3>1. run[i + 1] = JoinHead(run[i], heads[i + 1])
      BY <1>1, <1>2, <2>1 DEF IsFold
    <3> QED
      BY <3>1 DEF JoinHead
  <2>3. run[i].snap \in Snapshot /\ heads[i + 1].snap \in Snapshot
    BY <1>1, <1>2, <2>1, FoldTypes DEF IsHeads
  <2>4. heads[i + 1].snap.live[k] = None
    BY <1>2, <2>1
  <2>5. MergedLive(run[i].snap, heads[i + 1].snap, k) = None
    BY <2>4 DEF MergedLive, ChooseEntity, Surviving
  <2> QED
    BY <2>1, <2>2, <2>3, <2>5, MergeByKey
<1> HIDE DEF U
<1>5. 1..N \subseteq U
  BY <1>2, <1>3, <1>4, IndexByInduction
<1>6. run[N].snap.live[k] = None
  BY <1>2, <1>5 DEF U
<1> QED
  BY <1>1, <1>6 DEF IsFold

Kept(value, conf, k) == \E c \in conf : c.key = k /\ value \in {c.winner, c.loser}

Lost(value, conf, k) == \E c \in conf : c.key = k /\ c.loser = value

\* Two values of a key that is not deleted: one is live after a merge, the other a loser.
LEMMA MergeKeepsValues ==
    ASSUME NEW l \in Snapshot, NEW r \in Snapshot, NEW k \in Preserving,
           Undeleted(l), Undeleted(r), l.tomb[k] = None, r.tomb[k] = None
    PROVE  LET m == MergeSnapshots(l, r)
               conf == Conflicts(l, r, NoBaseline)
               v == l.live[k]
               w == r.live[k]
           IN  /\ m.tomb[k] = None
               /\ m.live[k] \in {v, w}
               /\ v # None \/ w # None => m.live[k] # None
               /\ (v # None /\ w # None /\ v.val # w.val) =>
                      /\ Kept(v.val, conf, k) /\ Kept(w.val, conf, k)
                      /\ m.live[k].val = v.val => Lost(w.val, conf, k)
                      /\ m.live[k].val = w.val => Lost(v.val, conf, k)
<1> DEFINE m == MergeSnapshots(l, r)
           conf == Conflicts(l, r, NoBaseline)
           v == l.live[k]
           w == r.live[k]
<1>1. k \in Key /\ v \in Version \cup {None} /\ w \in Version \cup {None}
  BY KeyAssumption DEF Snapshot
<1>2. MergedTomb(l, r, k) = None
  BY DEF MergedTomb, MergeTombstone
<1>3. MergedLive(l, r, k) = ChooseEntity(v, w)
  BY <1>2 DEF MergedLive, Surviving
<1>4. m.tomb[k] = None /\ m.live[k] = ChooseEntity(v, w)
  BY <1>1, <1>2, <1>3, MergeByKey, MergeUndeleted
<1>5. ChooseEntity(v, w) \in {v, w} /\ (v # None \/ w # None => ChooseEntity(v, w) # None)
  BY DEF ChooseEntity
<1>6. ASSUME v # None, w # None, v.val # w.val
      PROVE  \E c \in conf : /\ c.key = k /\ c.winner = ChooseEntity(v, w).val
                             /\ c.loser = Loser(v, w).val
  <2>1. NoBaseline[k] \notin {v.val, w.val}
    BY <1>1, <1>6, NoneIsNoEntity DEF NoBaseline, Version
  <2>2. Surviving(ChooseEntity(v, w), MergeTombstone(l.tomb[k], r.tomb[k])) # None
    BY <1>2, <1>5, <1>6 DEF Surviving, MergedTomb
  <2> DEFINE c == [key |-> k, winner |-> ChooseEntity(v, w).val, loser |-> Loser(v, w).val]
  <2>3. c \in conf
    BY <1>6, <2>1, <2>2 DEF Conflicts
  <2> QED
    BY <2>3
<1>7. ASSUME v # None, w # None, v.val # w.val
      PROVE  /\ Kept(v.val, conf, k) /\ Kept(w.val, conf, k)
             /\ m.live[k].val = v.val => Lost(w.val, conf, k)
             /\ m.live[k].val = w.val => Lost(v.val, conf, k)
  <2>1. PICK c \in conf : /\ c.key = k /\ c.winner = ChooseEntity(v, w).val
                          /\ c.loser = Loser(v, w).val
    BY <1>6, <1>7
  <2>2. CASE ChooseEntity(v, w) = v
    <3>1. Loser(v, w) = w
      BY <2>2 DEF Loser
    <3> QED
      BY <1>4, <1>7, <2>1, <2>2, <3>1 DEF Kept, Lost
  <2>3. CASE ChooseEntity(v, w) = w /\ v # w
    <3>1. Loser(v, w) = v
      BY <2>3 DEF Loser
    <3> QED
      BY <1>4, <1>7, <2>1, <2>3, <3>1 DEF Kept, Lost
  <2> QED
    BY <1>5, <1>7, <2>2, <2>3
<1> QED
  BY <1>4, <1>5, <1>7

\* Of the values the heads hold of a key that none deleted, the fold has one live and the
\* others as losers of conflicts; if there is more than one, each is in a conflict.
LEMMA FoldKeepsValues ==
    ASSUME NEW heads, IsHeads(heads), NEW k \in Preserving,
           \A i \in DOMAIN heads : Undeleted(heads[i].snap) /\ heads[i].snap.tomb[k] = None
    PROVE  LET f == FoldHeads(heads)
           IN  /\ \A j \in DOMAIN heads :
                      LET v == heads[j].snap.live[k]
                      IN  v # None => /\ f.snap.live[k] # None
                                      /\ f.snap.live[k].val = v.val \/ Lost(v.val, f.conf, k)
               /\ \A i, j \in DOMAIN heads :
                      LET v == heads[i].snap.live[k]
                          w == heads[j].snap.live[k]
                      IN  v # None /\ w # None /\ v.val # w.val =>
                              Kept(v.val, f.conf, k) /\ Kept(w.val, f.conf, k)
<1> DEFINE N == Len(heads)
           V(j) == heads[j].snap.live[k]
<1>1. PICK run : IsFold(run, heads)
  BY FoldRuns
<1> DEFINE L(i) == run[i].snap.live[k]
           C(i) == run[i].conf
           Has(i, j) == V(j) # None => /\ L(i) # None
                                       /\ \/ L(i).val = V(j).val
                                          \/ /\ Lost(V(j).val, C(i), k)
                                             /\ Kept(L(i).val, C(i), k)
           Good(i) == /\ Undeleted(run[i].snap) /\ run[i].snap.tomb[k] = None
                      /\ \A j \in 1..i : Has(i, j)
           S == {i \in 1..N : Good(i)}
<1>2. N \in Nat \ {0} /\ DOMAIN heads = 1..N
  BY DEF IsHeads
<1>3. 1 \in S
  BY <1>1, <1>2 DEF IsFold, FirstHead
<1>4. \A i \in 1..N : i < N /\ i \in S => i + 1 \in S
  <2> SUFFICES ASSUME NEW i \in 1..N, i < N, Good(i) PROVE Good(i + 1)
    BY <1>2
  <2>1. i + 1 \in 1..N
    BY <1>2
  <2>2. run[i + 1] = JoinHead(run[i], heads[i + 1])
    BY <1>1, <1>2, <2>1 DEF IsFold
  <2> DEFINE l == run[i].snap
             r == heads[i + 1].snap
             conf == Conflicts(l, r, NoBaseline)
  <2>3. run[i + 1].snap = MergeSnapshots(l, r) /\ C(i) \cup conf \subseteq C(i + 1)
    BY <2>2 DEF JoinHead
  <2>4. l \in Snapshot /\ r \in Snapshot
    BY <1>1, <1>2, <2>1, FoldTypes DEF IsHeads
  <2>5. Undeleted(l) /\ Undeleted(r) /\ l.tomb[k] = None /\ r.tomb[k] = None
    BY <1>2, <2>1
  <2>6. Undeleted(run[i + 1].snap) /\ run[i + 1].snap.tomb[k] = None
    BY <2>3, <2>4, <2>5, MergeUndeleted, MergeKeepsValues
  <2>7. /\ L(i + 1) \in {L(i), V(i + 1)}
        /\ L(i) # None \/ V(i + 1) # None => L(i + 1) # None
        /\ (L(i) # None /\ V(i + 1) # None /\ L(i).val # V(i + 1).val) =>
               /\ Kept(L(i).val, conf, k) /\ Kept(V(i + 1).val, conf, k)
               /\ L(i + 1).val = L(i).val => Lost(V(i + 1).val, conf, k)
               /\ L(i + 1).val = V(i + 1).val => Lost(L(i).val, conf, k)
    BY <2>3, <2>4, <2>5, MergeKeepsValues
  <2>8. \A x : /\ Kept(x, C(i), k) \/ Kept(x, conf, k) => Kept(x, C(i + 1), k)
               /\ Lost(x, C(i), k) \/ Lost(x, conf, k) => Lost(x, C(i + 1), k)
    BY <2>3 DEF Kept, Lost
  <2>9. Has(i + 1, i + 1)
    <3> HIDE DEF L, V, C, conf
    <3> QED
      BY <2>7, <2>8
  <2>10. ASSUME NEW j \in 1..i PROVE Has(i + 1, j)
    <3>1. Has(i, j)
      OBVIOUS
    <3> HIDE DEF L, V, C, conf
    <3> QED
      BY <2>7, <2>8, <3>1
  <2>11. \A j \in 1..(i + 1) : j \in 1..i \/ j = i + 1
    BY <1>2
  <2> HIDE DEF Has
  <2> QED
    BY <2>6, <2>9, <2>10, <2>11
<1> HIDE DEF S
<1>5. 1..N \subseteq S
  BY <1>2, <1>3, <1>4, IndexByInduction
<1>6. Good(N)
  BY <1>2, <1>5 DEF S
<1>7. FoldHeads(heads) = run[N]
  BY <1>1 DEF IsFold
<1>8. \A x : Lost(x, C(N), k) => Kept(x, C(N), k)
  BY DEF Lost, Kept
<1>9. ASSUME NEW i \in 1..N, NEW j \in 1..N, V(i) # None, V(j) # None, V(i).val # V(j).val
      PROVE  Kept(V(i).val, C(N), k) /\ Kept(V(j).val, C(N), k)
  <2>1. Has(N, i) /\ Has(N, j)
    BY <1>6
  <2> HIDE DEF L, V, C
  <2> QED
    BY <1>8, <1>9, <2>1
<1>10. ASSUME NEW j \in 1..N, V(j) # None
       PROVE  L(N) # None /\ (L(N).val = V(j).val \/ Lost(V(j).val, C(N), k))
  BY <1>6, <1>10
<1> QED
  BY <1>2, <1>7, <1>9, <1>10

================================================================================
