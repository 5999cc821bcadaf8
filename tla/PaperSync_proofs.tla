---------------------------- MODULE PaperSync_proofs ----------------------------
(* A present paper on any number of devices, and what its heads in Drive fold to. *)

EXTENDS SnapshotFold, SnapshotMerge_proofs

Gen == [snap : Snapshot, conf : SUBSET Conflict, parents : SUBSET Nat, kind : Kinds, by : Nat]

\* What every reader accepts, whoever published it.
GensOK ==
    /\ gens \in Seq(Gen)
    /\ \A g \in DOMAIN gens : /\ Publishable(gens[g].snap)
                              /\ Consistent(gens[g].snap)
                              /\ gens[g].parents \subseteq 1..(g - 1)

--------------------------------------------------------------------------------
(* The heads of a paper, in the order of a fold *)

LEMMA OrderOf ==
    ASSUME NEW ids, IsFiniteSet(ids), NEW order \in [1..Cardinality(ids) -> ids],
           \A i, j \in 1..Cardinality(ids) : order[i] = order[j] => i = j
    PROVE  /\ Cardinality(ids) \in Nat
           /\ Len(order) = Cardinality(ids)
           /\ \A x \in ids : \E i \in 1..Cardinality(ids) : order[i] = x
<1>1. Cardinality(ids) \in Nat
  BY FS_CardinalityType
<1>2. Cardinality(1..Cardinality(ids)) = Cardinality(ids)
  BY <1>1, FS_Interval
<1>3. order \in Injection(1..Cardinality(ids), ids)
  BY DEF Injection, IsInjective
<1>4. order \in Surjection(1..Cardinality(ids), ids)
  BY <1>2, <1>3, FS_Injection
<1>5. \A x \in ids : \E i \in 1..Cardinality(ids) : order[i] = x
  BY <1>4 DEF Surjection
<1>6. order \in Seq(ids)
  BY <1>1
<1> QED
  BY <1>1, <1>5, <1>6

LEMMA SetToSeqIsOrder ==
    ASSUME NEW ids, IsFiniteSet(ids)
    PROVE  /\ SetToSeq(ids) \in [1..Cardinality(ids) -> ids]
           /\ \A i, j \in 1..Cardinality(ids) : SetToSeq(ids)[i] = SetToSeq(ids)[j] => i = j
<1>1. PICK f : f \in Bijection(1..Cardinality(ids), ids)
  BY FS_CardinalityType DEF ExistsBijection
<1>2. \E g \in [1..Cardinality(ids) -> ids] : IsInjective(g)
  BY <1>1 DEF Bijection, Injection, IsInjective
<1>3. /\ SetToSeq(ids) \in [1..Cardinality(ids) -> ids] /\ IsInjective(SetToSeq(ids))
  BY <1>2 DEF SetToSeq
<1> QED
  BY <1>3 DEF IsInjective

\* "heads" are the generations "ids", in some order.
AreHeads(heads, ids) ==
    /\ IsHeads(heads)
    /\ \A g \in ids : \E i \in DOMAIN heads : heads[i] = gens[g]
    /\ \A i \in DOMAIN heads : \E g \in ids : heads[i] = gens[g]

LEMMA FinitelyMany ==
    ASSUME GensOK, NEW ids \in SUBSET DOMAIN gens
    PROVE  IsFiniteSet(ids)
<1>1. Len(gens) \in Int /\ DOMAIN gens = 1..Len(gens)
  BY DEF GensOK
<1>2. IsFiniteSet(1..Len(gens))
  BY <1>1, FS_Interval
<1> QED
  BY <1>1, <1>2, FS_Subset

LEMMA OrderedHeads ==
    ASSUME GensOK, NEW ids \in SUBSET DOMAIN gens, ids # {},
           NEW order \in [1..Cardinality(ids) -> ids],
           \A i, j \in 1..Cardinality(ids) : order[i] = order[j] => i = j
    PROVE  AreHeads([i \in 1..Len(order) |-> gens[order[i]]], ids)
<1> DEFINE heads == [i \in 1..Len(order) |-> gens[order[i]]]
<1>1. IsFiniteSet(ids)
  BY FinitelyMany
<1>2. /\ Len(order) = Cardinality(ids) /\ Cardinality(ids) \in Nat
      /\ \A x \in ids : \E i \in 1..Cardinality(ids) : order[i] = x
  BY <1>1, OrderOf
<1>3. Cardinality(ids) # 0
  BY <1>1, FS_EmptySet
<1>4. heads \in Seq(Gen)
  <2>1. \A g \in ids : gens[g] \in Gen
    BY DEF GensOK
  <2> QED
    BY <1>2, <2>1
<1>5. DOMAIN heads = 1..Cardinality(ids) /\ Len(heads) = Cardinality(ids)
  BY <1>2
<1>6. IsHeads(heads)
  <2>1. \A i \in DOMAIN heads : heads[i] \in Gen
    BY <1>4
  <2> HIDE DEF heads
  <2> QED
    BY <1>2, <1>3, <1>5, <2>1 DEF IsHeads, Gen
<1> QED
  BY <1>2, <1>5, <1>6 DEF AreHeads

LEMMA FoldOfHeads ==
    ASSUME GensOK, NEW ids \in SUBSET DOMAIN gens, ids # {}
    PROVE  \E heads : AreHeads(heads, ids) /\ FoldOf(ids) = FoldHeads(heads)
<1>1. IsFiniteSet(ids)
  BY FinitelyMany
<1>2. AreHeads([i \in 1..Len(SetToSeq(ids)) |-> gens[SetToSeq(ids)[i]]], ids)
  BY <1>1, SetToSeqIsOrder, OrderedHeads
<1> QED
  BY <1>2 DEF FoldOf

--------------------------------------------------------------------------------
(* What the heads fold to *)

\* The latest deletion and the newest version of a key in some generations.
LatestOf(t, ids, k) ==
    /\ t \in Tombstone \cup {None}
    /\ \A g \in ids : LET u == gens[g].snap.tomb[k]
                      IN  u # None => t # None /\ ~LaterDeletion(u, t)
    /\ t # None => \E g \in ids : gens[g].snap.tomb[k] = t

NewestOf(v, ids, k) ==
    /\ v \in Version \cup {None}
    /\ \A g \in ids : LET w == gens[g].snap.live[k]
                      IN  w # None => v # None /\ AtLeast(v, w)
    /\ v # None => \E g \in ids : gens[g].snap.live[k] = v

LEMMA GenTypes ==
    ASSUME GensOK, NEW g \in DOMAIN gens
    PROVE  /\ gens[g] \in Gen /\ gens[g].snap \in Snapshot /\ gens[g].conf \in SUBSET Conflict
           /\ \A k \in Key : /\ gens[g].snap.live[k] \in Version \cup {None}
                             /\ gens[g].snap.tomb[k] \in Tombstone \cup {None}
<1>1. gens[g] \in Gen
  BY DEF GensOK
<1>2. gens[g].snap \in Snapshot /\ gens[g].conf \in SUBSET Conflict
  BY <1>1 DEF Gen
<1>3. \A k \in Key : /\ gens[g].snap.live[k] \in Version \cup {None}
                     /\ gens[g].snap.tomb[k] \in Tombstone \cup {None}
  BY <1>2 DEF Snapshot
<1> QED
  BY <1>1, <1>2, <1>3

LEMMA NewestUnique ==
    ASSUME GensOK, NEW ids \in SUBSET DOMAIN gens, NEW k \in Key,
           NEW v, NewestOf(v, ids, k), NEW w, NewestOf(w, ids, k)
    PROVE  v = w
<1>1. v # None => w # None /\ AtLeast(w, v)
  BY DEF NewestOf
<1>2. w # None => v # None /\ AtLeast(v, w)
  BY DEF NewestOf
<1> QED
  BY <1>1, <1>2, VersionOrder DEF NewestOf

LEMMA LatestUnique ==
    ASSUME GensOK, NEW ids \in SUBSET DOMAIN gens, NEW k \in Key,
           NEW t, LatestOf(t, ids, k), NEW u, LatestOf(u, ids, k)
    PROVE  t = u
<1>1. t # None => u # None /\ ~LaterDeletion(t, u)
  BY DEF LatestOf
<1>2. u # None => t # None /\ ~LaterDeletion(u, t)
  BY DEF LatestOf
<1> QED
  BY <1>1, <1>2, DeletionOrder DEF LatestOf

LEMMA FoldLatest ==
    ASSUME GensOK, NEW ids \in SUBSET DOMAIN gens, NEW heads, AreHeads(heads, ids)
    PROVE  /\ FoldHeads(heads).snap \in Snapshot
           /\ \A k \in Key : LatestOf(FoldHeads(heads).snap.tomb[k], ids, k)
<1>1. IsHeads(heads)
  BY DEF AreHeads
<1>2. PICK run : IsFold(run, heads)
  BY <1>1, FoldRuns
<1>3. /\ Len(heads) \in DOMAIN heads /\ DOMAIN heads = 1..Len(heads)
      /\ FoldHeads(heads) = run[Len(heads)]
  BY <1>1, <1>2 DEF IsHeads, IsFold
<1>4. ASSUME NEW k \in Key PROVE LatestOf(FoldHeads(heads).snap.tomb[k], ids, k)
  <2>1. IsLatest(FoldHeads(heads).snap.tomb[k], heads, Len(heads), k)
    BY <1>1, <1>2, <1>3, FoldDeletions
  <2> QED
    BY <1>3, <2>1 DEF IsLatest, LatestOf, AreHeads
<1> QED
  BY <1>1, <1>2, <1>4, FoldTypes

LEMMA FoldNewest ==
    ASSUME GensOK, NEW ids \in SUBSET DOMAIN gens, NEW heads, AreHeads(heads, ids),
           \A g \in ids : Undeleted(gens[g].snap)
    PROVE  LET s == FoldHeads(heads).snap
           IN  /\ Undeleted(s)
               /\ \A k \in Key : \E v : /\ NewestOf(v, ids, k)
                                        /\ s.live[k] = Surviving(v, s.tomb[k])
<1> DEFINE s == FoldHeads(heads).snap
<1>1. IsHeads(heads)
  BY DEF AreHeads
<1>2. \A i \in DOMAIN heads : Undeleted(heads[i].snap)
  BY DEF AreHeads
<1>3. \A i \in DOMAIN heads : \A k \in Key :
          LET x == heads[i].snap IN Surviving(x.live[k], x.tomb[k]) = x.live[k]
  BY DEF AreHeads, GensOK, Consistent
<1>4. /\ Undeleted(s)
      /\ \A k \in Key : \E v : /\ IsNewest(v, heads, Len(heads), k)
                               /\ s.live[k] = Surviving(v, s.tomb[k])
  BY <1>1, <1>2, <1>3, FoldSums
<1>5. DOMAIN heads = 1..Len(heads)
  BY <1>1 DEF IsHeads
<1> HIDE DEF s
<1>6. ASSUME NEW k \in Key
      PROVE  \E v : NewestOf(v, ids, k) /\ s.live[k] = Surviving(v, s.tomb[k])
  <2>1. PICK v : IsNewest(v, heads, Len(heads), k) /\ s.live[k] = Surviving(v, s.tomb[k])
    BY <1>4
  <2>2. NewestOf(v, ids, k)
    BY <1>5, <2>1 DEF IsNewest, NewestOf, AreHeads
  <2> QED
    BY <2>1, <2>2
<1> QED
  BY <1>4, <1>6 DEF s

LEMMA SameFold ==
    ASSUME GensOK, NEW ids \in SUBSET DOMAIN gens, \A g \in ids : Undeleted(gens[g].snap),
           NEW one, AreHeads(one, ids), NEW two, AreHeads(two, ids)
    PROVE  FoldHeads(one).snap = FoldHeads(two).snap
<1> DEFINE s == FoldHeads(one).snap
           r == FoldHeads(two).snap
<1>1. s \in Snapshot /\ r \in Snapshot
  BY FoldLatest
<1>2. ASSUME NEW k \in Key PROVE s.tomb[k] = r.tomb[k]
  <2>1. LatestOf(s.tomb[k], ids, k) /\ LatestOf(r.tomb[k], ids, k)
    BY FoldLatest
  <2> QED
    BY <2>1, LatestUnique
<1>3. ASSUME NEW k \in Key PROVE s.live[k] = r.live[k]
  <2>1. PICK v : NewestOf(v, ids, k) /\ s.live[k] = Surviving(v, s.tomb[k])
    BY FoldNewest
  <2>2. PICK w : NewestOf(w, ids, k) /\ r.live[k] = Surviving(w, r.tomb[k])
    BY FoldNewest
  <2> QED
    BY <1>2, <2>1, <2>2, NewestUnique
<1> HIDE DEF s, r
<1>4. s.live = r.live /\ s.tomb = r.tomb
  BY <1>1, <1>2, <1>3 DEF Snapshot
<1>5. s = [live |-> s.live, tomb |-> s.tomb] /\ r = [live |-> r.live, tomb |-> r.tomb]
  BY <1>1 DEF Snapshot
<1> QED
  BY <1>4, <1>5 DEF s, r

LEMMA HeadsForked ==
    ASSUME GensOK, Forked
    PROVE  Heads \in SUBSET DOMAIN gens /\ Heads # {} /\ IsFiniteSet(Heads)
<1>1. Heads \in SUBSET DOMAIN gens
  BY DEF Heads
<1>2. IsFiniteSet(Heads)
  BY <1>1, FinitelyMany
<1>3. Heads # {}
  BY FS_EmptySet DEF Forked
<1> QED
  BY <1>1, <1>2, <1>3

LEMMA PaperIsUndeleted ==
    ASSUME GensOK, ~PaperDeletedSomewhere
    PROVE  \A g \in Heads : Undeleted(gens[g].snap)
BY KeyAssumption DEF GensOK, Heads, PaperDeletedSomewhere, Publishable, Undeleted

LEMMA IgnoresOrder ==
    ASSUME GensOK
    PROVE  FoldIgnoresOrder
<1> SUFFICES ASSUME Forked
             PROVE  /\ \A g, h \in Heads :
                           LET a == gens[g].snap
                               b == gens[h].snap
                           IN  /\ MergeSnapshots(a, b) = MergeSnapshots(b, a)
                               /\ Conflicts(a, b, NoBaseline) = Conflicts(b, a, NoBaseline)
                    /\ ~PaperDeletedSomewhere =>
                           \A p \in SetToSeqs(Heads) : InOrder(p).snap = FoldOf(Heads).snap
  BY DEF FoldIgnoresOrder
<1>1. Heads \in SUBSET DOMAIN gens /\ Heads # {} /\ IsFiniteSet(Heads)
  BY HeadsForked
<1>2. \A g \in Heads : gens[g].snap \in Snapshot
  BY <1>1, GenTypes
<1>3. ASSUME ~PaperDeletedSomewhere, NEW p \in SetToSeqs(Heads)
      PROVE  InOrder(p).snap = FoldOf(Heads).snap
  <2>1. /\ p \in [1..Cardinality(Heads) -> Heads]
        /\ \A i, j \in 1..Cardinality(Heads) : p[i] = p[j] => i = j
    BY DEF SetToSeqs
  <2>2. AreHeads([i \in 1..Len(p) |-> gens[p[i]]], Heads)
    BY <1>1, <2>1, OrderedHeads
  <2>3. PICK heads : AreHeads(heads, Heads) /\ FoldOf(Heads) = FoldHeads(heads)
    BY <1>1, FoldOfHeads
  <2>4. \A g \in Heads : Undeleted(gens[g].snap)
    BY <1>3, PaperIsUndeleted
  <2> QED
    BY <1>1, <2>2, <2>3, <2>4, SameFold DEF InOrder
<1> QED
  BY <1>2, <1>3, MergeSymmetric

\* What a merge has no place for, it deletes, the parts of a deleted paper included.
LEMMA MergeConsistent ==
    ASSUME NEW l \in Snapshot, NEW r \in Snapshot, Consistent(l)
    PROVE  Consistent(MergeSnapshots(l, r))
<1> DEFINE m == MergeSnapshots(l, r)
<1>1. \A k \in Key : m.tomb[k] = MergedTomb(l, r, k)
  BY MergeByKey
<1>2. \A k \in Key : \/ m.live[k] = MergedLive(l, r, k)
                     \/ /\ MergedTomb(l, r, Paper) # None /\ MergedLive(l, r, Paper) = None
                        /\ m.live[k] = None
  BY MergeByKey
<1>3. Paper \in Key
  BY KeyAssumption
<1>4. \A k \in Key : Surviving(m.live[k], m.tomb[k]) = m.live[k]
  BY <1>1, <1>2 DEF MergedLive, Surviving
<1>5. m.live[Paper] = MergedLive(l, r, Paper)
  BY <1>2, <1>3
<1>6. m.live[Paper] # None \/ m.tomb[Paper] # None
  BY <1>1, <1>3, <1>5 DEF Consistent, MergedLive, MergedTomb, Surviving, ChooseEntity, MergeTombstone
<1>7. m.live[Paper] = None => \A k \in Key : m.live[k] = None
  <2> SUFFICES ASSUME m.live[Paper] = None, NEW k \in Key PROVE m.live[k] = None
    OBVIOUS
  <2>1. MergedTomb(l, r, Paper) # None /\ MergedLive(l, r, Paper) = None
    BY <1>1, <1>3, <1>5, <1>6
  <2> QED
    BY <2>1, <1>3 DEF MergeSnapshots, DropChildren, MergedTomb, MergedLive
<1> QED
  BY <1>4, <1>6, <1>7 DEF Consistent

LEMMA FoldConsistent ==
    ASSUME NEW heads, IsHeads(heads), \A i \in DOMAIN heads : Consistent(heads[i].snap)
    PROVE  Consistent(FoldHeads(heads).snap)
<1> DEFINE N == Len(heads)
<1>1. PICK run : IsFold(run, heads)
  BY FoldRuns
<1> DEFINE S == {i \in 1..N : Consistent(run[i].snap)}
<1>2. N \in Nat \ {0} /\ DOMAIN heads = 1..N
  BY DEF IsHeads
<1>3. 1 \in S
  BY <1>1, <1>2 DEF IsFold, FirstHead
<1>4. \A i \in 1..N : i < N /\ i \in S => i + 1 \in S
  <2> SUFFICES ASSUME NEW i \in 1..N, i < N, Consistent(run[i].snap)
               PROVE  i + 1 \in S
    OBVIOUS
  <2>1. i + 1 \in 1..N
    BY <1>2
  <2>2. run[i + 1] = JoinHead(run[i], heads[i + 1])
    BY <1>1, <1>2, <2>1 DEF IsFold
  <2>3. run[i + 1].snap = MergeSnapshots(run[i].snap, heads[i + 1].snap)
    BY <2>2 DEF JoinHead
  <2>4. run[i].snap \in Snapshot /\ heads[i + 1].snap \in Snapshot
    BY <1>1, <1>2, <2>1, FoldTypes DEF IsHeads
  <2> QED
    BY <2>1, <2>3, <2>4, MergeConsistent
<1> HIDE DEF S
<1>5. 1..N \subseteq S
  BY <1>2, <1>3, <1>4, IndexByInduction
<1>6. Consistent(run[N].snap)
  BY <1>2, <1>5 DEF S
<1> QED
  BY <1>1, <1>6 DEF IsFold

\* A fold already holds what its heads hold.
LEMMA FoldHolds ==
    ASSUME GensOK, NEW ids \in SUBSET DOMAIN gens, \A g \in ids : Undeleted(gens[g].snap),
           NEW heads, AreHeads(heads, ids), NEW g \in ids
    PROVE  MergeSnapshots(FoldHeads(heads).snap, gens[g].snap) = FoldHeads(heads).snap
<1> DEFINE s == FoldHeads(heads).snap
           h == gens[g].snap
           m == MergeSnapshots(s, h)
<1>1. s \in Snapshot /\ h \in Snapshot /\ Undeleted(s) /\ Undeleted(h)
  BY FoldLatest, FoldNewest, GenTypes
<1>2. m \in Snapshot /\ Undeleted(m)
  BY <1>1, MergeSnapshotType, MergeUndeleted
<1>3. ASSUME NEW k \in Key PROVE m.tomb[k] = s.tomb[k] /\ m.live[k] = s.live[k]
  <2> DEFINE t == s.tomb[k]
             u == h.tomb[k]
             w == h.live[k]
  <2>1. LatestOf(t, ids, k)
    BY FoldLatest
  <2>2. PICK v : NewestOf(v, ids, k) /\ s.live[k] = Surviving(v, t)
    BY FoldNewest
  <2>3. /\ t \in Tombstone \cup {None} /\ u \in Tombstone \cup {None}
        /\ v \in Version \cup {None} /\ w \in Version \cup {None}
    BY <2>1, <2>2, GenTypes DEF LatestOf, NewestOf
  <2>4. u # None => t # None /\ ~LaterDeletion(u, t)
    BY <2>1 DEF LatestOf
  <2>5. w # None => v # None /\ AtLeast(v, w)
    BY <2>2 DEF NewestOf
  <2>6. m.tomb[k] = MergeTombstone(t, u) /\ m.live[k] = MergedLive(s, h, k)
    BY <1>1, <1>2, MergeByKey DEF MergedTomb
  <2>7. MergeTombstone(t, u) = t
    BY <2>4 DEF MergeTombstone
  <2>8. m.live[k] = Surviving(ChooseEntity(Surviving(v, t), w), t)
    BY <2>2, <2>6, <2>7 DEF MergedLive, MergedTomb
  <2> HIDE DEF s, h, m, t, u, w
  <2>9. CASE w = None
    <3>1. ChooseEntity(Surviving(v, t), w) = Surviving(v, t)
      BY <2>9 DEF ChooseEntity
    <3> QED
      BY <3>1, <2>2, <2>6, <2>7, <2>8 DEF Surviving, t
  <2>10. CASE w # None /\ Surviving(v, t) = v
    <3>1. ChooseEntity(v, w) = v
      BY <2>5, <2>10 DEF ChooseEntity
    <3> QED
      BY <3>1, <2>2, <2>6, <2>7, <2>8, <2>10 DEF t
  <2>11. CASE w # None /\ Surviving(v, t) # v
    <3>1. t # None /\ Deletes(t, v) /\ Surviving(v, t) = None
      BY <2>11 DEF Surviving
    <3>2. ChooseEntity(None, w) = w
      BY DEF ChooseEntity
    <3>3. Deletes(t, w)
      BY <2>3, <2>5, <2>11, <3>1, DeletionsReach
    <3>4. Surviving(w, t) = None
      BY <2>11, <3>1, <3>3 DEF Surviving
    <3> QED
      BY <3>1, <3>2, <3>4, <2>2, <2>6, <2>7, <2>8 DEF t
  <2> QED
    BY <2>9, <2>10, <2>11
<1> HIDE DEF s, h, m
<1>4. s.live = m.live /\ s.tomb = m.tomb
  BY <1>1, <1>2, <1>3 DEF Snapshot
<1>5. s = [live |-> s.live, tomb |-> s.tomb] /\ m = [live |-> m.live, tomb |-> m.tomb]
  BY <1>1, <1>2 DEF Snapshot
<1> QED
  BY <1>4, <1>5 DEF s, h, m

LEMMA IsConsistent ==
    ASSUME GensOK
    PROVE  FoldIsConsistent
<1> DEFINE folded == FoldOf(Heads).snap
           EditedAndDeleted(k) == \E g, h \in Heads :
               gens[g].snap.live[k] # None /\ gens[h].snap.tomb[k] # None
<1> SUFFICES ASSUME Forked
             PROVE  /\ Consistent(folded)
                    /\ (~\E k \in Key : EditedAndDeleted(k)) => Publishable(folded)
                    /\ ~PaperDeletedSomewhere =>
                           \A g \in Heads : MergeSnapshots(folded, gens[g].snap) = folded
  BY DEF FoldIsConsistent
<1>1. Heads \in SUBSET DOMAIN gens /\ Heads # {}
  BY HeadsForked
<1>2. PICK heads : AreHeads(heads, Heads) /\ FoldOf(Heads) = FoldHeads(heads)
  BY <1>1, FoldOfHeads
<1>3. Consistent(folded)
  BY <1>1, <1>2, FoldConsistent DEF AreHeads, GensOK
<1>4. ASSUME NEW k \in Key, folded.live[k] # None, folded.tomb[k] # None
      PROVE  EditedAndDeleted(k)
  <2>1. \E g \in Heads : gens[g].snap.live[k] # None
    BY <1>2, <1>4, FoldLiveFrom DEF AreHeads
  <2>2. \E h \in Heads : gens[h].snap.tomb[k] # None
    BY <1>1, <1>2, <1>4, FoldLatest DEF LatestOf
  <2> QED
    BY <2>1, <2>2
<1>5. ASSUME ~PaperDeletedSomewhere, NEW g \in Heads
      PROVE  MergeSnapshots(folded, gens[g].snap) = folded
  BY <1>1, <1>2, <1>5, PaperIsUndeleted, FoldHolds
<1> HIDE DEF folded
<1> QED
  BY <1>3, <1>4, <1>5 DEF Publishable

LEMMA LosesNoValue ==
    ASSUME GensOK
    PROVE  FoldLosesNoValue
<1> DEFINE folded == FoldOf(Heads)
<1> SUFFICES ASSUME Forked, NEW g \in Heads, NEW k \in Preserving,
                    gens[g].snap.live[k] # None,
                    ~\E h \in Heads : \E q \in {k, Paper} : gens[h].snap.tomb[q] # None
             PROVE  \/ /\ folded.snap.live[k] # None
                       /\ folded.snap.live[k].val = gens[g].snap.live[k].val
                    \/ \E c \in folded.conf : c.key = k /\ c.loser = gens[g].snap.live[k].val
  BY DEF FoldLosesNoValue
<1>1. Heads \in SUBSET DOMAIN gens /\ Heads # {}
  BY HeadsForked
<1>2. PICK heads : AreHeads(heads, Heads) /\ FoldOf(Heads) = FoldHeads(heads)
  BY <1>1, FoldOfHeads
<1>3. IsHeads(heads) /\ \A i \in DOMAIN heads : Undeleted(heads[i].snap) /\ heads[i].snap.tomb[k] = None
  BY <1>2 DEF AreHeads, Undeleted
<1>4. PICK i \in DOMAIN heads : heads[i] = gens[g]
  BY <1>2 DEF AreHeads
<1>5. LET v == heads[i].snap.live[k]
          f == FoldHeads(heads)
      IN  v # None => f.snap.live[k] # None /\ (f.snap.live[k].val = v.val \/ Lost(v.val, f.conf, k))
  BY <1>3, FoldKeepsValues
<1> QED
  BY <1>2, <1>4, <1>5 DEF Lost

--------------------------------------------------------------------------------
(* The invariant of the devices *)

\* The values written so far.
Wrote == 1..Len(edits)

SyncState == [entities : [Key -> Version \cup {None}], baseline : [Key -> Nat \cup {None}],
              tomb : [Key -> Tombstone \cup {None}], conf : SUBSET Conflict,
              incorporated : SUBSET Nat, dirty : BOOLEAN, generation : Nat]

Operation == [step : Steps, kind : Kinds, captured : Nat, heads : SUBSET Nat,
              snap : Snapshot, conf : SUBSET Conflict, merged : BOOLEAN,
              before : SyncState, old : [Key -> Nat \cup {None}], since : Nat]

EditOf == [dev : Device, key : Key, deletion : BOOLEAN]

\* Versions of values that were written, none from before its value.
Genuine(live, es) == \A k \in Key : live[k] # None =>
    live[k].val \in 1..Len(es) /\ live[k].at >= live[k].val + Skew[es[live[k].val].dev]

Merging == {"publish", "verify", "settle-noop"}

Downloading == {"apply", "settle"}

DriveOK ==
    /\ GensOK
    /\ edits \in Seq(EditOf)
    /\ exposed \subseteq Wrote
    /\ \A g \in DOMAIN gens : gens[g].snap.live[Paper] # None /\ Genuine(gens[g].snap.live, edits)

DeviceTypes(d) ==
    /\ local[d] \in [Key -> Wrote \cup {None}]
    /\ unmarked[d] \in BOOLEAN
    /\ sync[d] \in SyncState
    /\ op[d] \in Operation
    /\ op[d].old \in [Key -> Wrote \cup {None}]

\* The paper is never deleted, and what the device knows was written by some device.
Knowledge(d) ==
    /\ Genuine(sync[d].entities, edits) /\ Genuine(op[d].before.entities, edits)
    /\ Genuine(op[d].snap.live, edits)
    /\ sync[d].tomb[Paper] = None /\ op[d].before.tomb[Paper] = None /\ Undeleted(op[d].snap)
    /\ op[d].step \in Merging \cup {"settle"} => local[d][Paper] # None
    /\ op[d].step \in Merging \cup Downloading => op[d].snap.live[Paper] # None
    /\ op[d].step \in {"publish"} \cup Downloading => op[d].heads \subseteq DOMAIN gens
    /\ op[d].step \in Downloading => op[d].heads # {}

\* A snapshot says of a key nothing older than another one.
NotOlder(is, was, k) ==
    /\ was.live[k] # None =>
           \/ is.live[k] # None /\ AtLeast(is.live[k], was.live[k])
           \/ is.tomb[k] # None /\ Deletes(is.tomb[k], was.live[k])
    /\ was.tomb[k] # None => is.tomb[k] # None /\ ~LaterDeletion(was.tomb[k], is.tomb[k])

\* The conflicts hold both of two values that some heads have of a key none deleted.
BothKept(conf, ids, gs) ==
    \A p, q \in ids : \A k \in Preserving :
        LET v == gs[p].snap.live[k]
            w == gs[q].snap.live[k]
        IN  (/\ v # None /\ w # None /\ v.val # w.val
             /\ \A h \in ids : gs[h].snap.tomb[k] = None)
                => Kept(v.val, conf, k) /\ Kept(w.val, conf, k)

\* What is about to be published.
Reconciled(d) ==
    At(d, "publish") =>
        /\ Publishable(op[d].snap)
        /\ \A h \in op[d].heads : gens[h].conf \subseteq op[d].conf
        /\ op[d].kind = "upload" =>
               \A h \in op[d].heads, k \in Key : NotOlder(op[d].snap, gens[h].snap, k)
        /\ BothKept(op[d].conf, op[d].heads, gens)

DeviceOK(d) == DeviceTypes(d) /\ Knowledge(d) /\ Reconciled(d)

DevicesOK ==
    /\ local \in [Device -> [Key -> Nat \cup {None}]]
    /\ unmarked \in [Device -> BOOLEAN]
    /\ sync \in [Device -> SyncState]
    /\ op \in [Device -> Operation]
    /\ \A d \in Device : DeviceOK(d)

\* A change event that is not handled yet is that of the last edit.
EventOfLastEdit(d) == unmarked[d] => \E n \in EditsOf(d) : \A m \in EditsOf(d) : m <= n

PublicationInv ==
    /\ DriveOK /\ DevicesOK
    /\ \A d \in Device : EventOfLastEdit(d)
    /\ PublishedNeverRegresses /\ ForkKeepsBoth /\ ParentsArePreserved

--------------------------------------------------------------------------------
(* What a device takes from the heads *)

FoldIn(ids, gs) == LET order == SetToSeq(ids)
                   IN  FoldHeads([i \in 1..Len(order) |-> gs[order[i]]])

LEMMA NotOlderTransitive ==
    ASSUME NEW a \in Snapshot, NEW b \in Snapshot, NEW c \in Snapshot, NEW k \in Key,
           NotOlder(a, b, k), NotOlder(b, c, k)
    PROVE  NotOlder(a, c, k)
<1>1. \A s \in Snapshot : s.live[k] \in Version \cup {None} /\ s.tomb[k] \in Tombstone \cup {None}
  BY DEF Snapshot
<1> DEFINE at == a.live[k]
           bt == b.live[k]
           ct == c.live[k]
           au == a.tomb[k]
           bu == b.tomb[k]
           cu == c.tomb[k]
<1>2. /\ at \in Version \cup {None} /\ bt \in Version \cup {None} /\ ct \in Version \cup {None}
      /\ au \in Tombstone \cup {None} /\ bu \in Tombstone \cup {None} /\ cu \in Tombstone \cup {None}
  BY <1>1
<1>3. /\ bt # None => (at # None /\ AtLeast(at, bt)) \/ (au # None /\ Deletes(au, bt))
      /\ ct # None => (bt # None /\ AtLeast(bt, ct)) \/ (bu # None /\ Deletes(bu, ct))
      /\ bu # None => au # None /\ ~LaterDeletion(bu, au)
      /\ cu # None => bu # None /\ ~LaterDeletion(cu, bu)
  BY DEF NotOlder
<1> HIDE DEF at, bt, ct, au, bu, cu
<1>4. ct # None => (at # None /\ AtLeast(at, ct)) \/ (au # None /\ Deletes(au, ct))
  <2>1. CASE ct # None /\ bt # None /\ AtLeast(bt, ct) /\ at # None /\ AtLeast(at, bt)
    BY <1>2, <2>1, VersionOrder
  <2>2. CASE ct # None /\ bt # None /\ AtLeast(bt, ct) /\ au # None /\ Deletes(au, bt)
    BY <1>2, <2>2, DeletionsReach
  <2>3. CASE ct # None /\ bu # None /\ Deletes(bu, ct)
    BY <1>2, <1>3, <2>3, DeletionsReach
  <2> QED
    BY <1>3, <2>1, <2>2, <2>3
<1>5. cu # None => au # None /\ ~LaterDeletion(cu, au)
  BY <1>2, <1>3, DeletionOrder
<1> QED
  BY <1>4, <1>5 DEF NotOlder, at, ct, au, cu

LEMMA MergeNotOlder ==
    ASSUME NEW l \in Snapshot, NEW r \in Snapshot, Undeleted(l), Undeleted(r), NEW k \in Key
    PROVE  NotOlder(MergeSnapshots(l, r), r, k)
<1> DEFINE v == l.live[k]
           w == r.live[k]
           t == l.tomb[k]
           u == r.tomb[k]
           m == MergeTombstone(t, u)
<1>1. /\ v \in Version \cup {None} /\ w \in Version \cup {None}
      /\ t \in Tombstone \cup {None} /\ u \in Tombstone \cup {None}
  BY DEF Snapshot
<1>2. /\ MergeSnapshots(l, r).tomb[k] = m
      /\ MergeSnapshots(l, r).live[k] = Surviving(ChooseEntity(v, w), m)
  BY MergeByKey, MergeUndeleted DEF MergedTomb, MergedLive
<1>3. u # None => m # None /\ ~LaterDeletion(u, m)
  BY <1>1, DeletionOrder, NoneIsApart DEF MergeTombstone
<1>4. w # None => ChooseEntity(v, w) # None /\ AtLeast(ChooseEntity(v, w), w)
  BY <1>1, VersionOrder, NoneIsApart DEF ChooseEntity
<1>5. ChooseEntity(v, w) \in Version \cup {None} /\ m \in Tombstone \cup {None}
  BY <1>1, MergeTypes
<1>6. w # None => \/ /\ Surviving(ChooseEntity(v, w), m) # None
                     /\ AtLeast(Surviving(ChooseEntity(v, w), m), w)
                  \/ m # None /\ Deletes(m, w)
  <2> HIDE DEF m, v, w
  <2>1. CASE w # None /\ Surviving(ChooseEntity(v, w), m) = ChooseEntity(v, w)
    BY <1>4, <2>1
  <2>2. CASE w # None /\ Surviving(ChooseEntity(v, w), m) # ChooseEntity(v, w)
    <3>1. m # None /\ Deletes(m, ChooseEntity(v, w))
      BY <2>2 DEF Surviving
    <3> QED
      BY <1>1, <1>4, <1>5, <2>2, <3>1, DeletionsReach
  <2> QED
    BY <2>1, <2>2
<1> HIDE DEF m
<1> QED
  BY <1>2, <1>3, <1>6 DEF NotOlder

\* What merging with a live paper gives is live as well.
LEMMA MergeLives ==
    ASSUME NEW l \in Snapshot, NEW r \in Snapshot, Undeleted(l), Undeleted(r),
           NEW es, Genuine(l.live, es), Genuine(r.live, es), l.live[Paper] # None
    PROVE  LET m == MergeSnapshots(l, r)
           IN  m \in Snapshot /\ Undeleted(m) /\ m.live[Paper] # None /\ Genuine(m.live, es)
<1>1. Paper \in Key
  BY KeyAssumption
<1>2. Undeleted(MergeSnapshots(l, r)) /\ MergeSnapshots(l, r) \in Snapshot
  BY MergeUndeleted, MergeSnapshotType
<1>3. \A k \in Key : MergeSnapshots(l, r).live[k] = MergedLive(l, r, k)
  BY <1>2, MergeByKey
<1>4. MergedLive(l, r, Paper) # None
  BY <1>1 DEF MergedLive, MergedTomb, MergeTombstone, Surviving, ChooseEntity, Undeleted
<1>5. \A k \in Key : MergedLive(l, r, k) # None => MergedLive(l, r, k) \in {l.live[k], r.live[k]}
  BY DEF MergedLive, Surviving, ChooseEntity
<1>6. Genuine(MergeSnapshots(l, r).live, es)
  BY <1>3, <1>5 DEF Genuine
<1> QED
  BY <1>1, <1>2, <1>3, <1>4, <1>6

LEMMA RemoteFold ==
    ASSUME DriveOK, NEW ids \in SUBSET DOMAIN gens, ids # {}
    PROVE  LET r == FoldIn(ids, gens)
           IN  /\ r.snap \in Snapshot /\ r.conf \in SUBSET Conflict
               /\ Undeleted(r.snap) /\ r.snap.live[Paper] # None /\ Genuine(r.snap.live, edits)
               /\ \A h \in ids : gens[h].conf \subseteq r.conf
               /\ \A h \in ids, k \in Key : NotOlder(r.snap, gens[h].snap, k)
               /\ BothKept(r.conf, ids, gens)
               /\ \A k \in Key : r.snap.live[k] # None =>
                      \E g \in ids : gens[g].snap.live[k] = r.snap.live[k]
               /\ \A k \in Key : r.snap.tomb[k] # None =>
                      \E g \in ids : gens[g].snap.tomb[k] # None
<1> DEFINE r == FoldIn(ids, gens)
<1>1. GensOK
  BY DEF DriveOK
<1>2. PICK heads : AreHeads(heads, ids) /\ r = FoldHeads(heads)
  BY <1>1, FoldOfHeads DEF FoldOf, FoldIn
<1>3. IsHeads(heads)
  BY <1>2 DEF AreHeads
<1>4. \A g \in ids : Undeleted(gens[g].snap) /\ gens[g].snap.live[Paper] # None
  BY KeyAssumption DEF DriveOK, GensOK, Publishable, Undeleted
<1> HIDE DEF r
<1>5. r.snap \in Snapshot /\ r.conf \in SUBSET Conflict
  <2>1. r \in Folded
    BY <1>2, <1>3, FoldRuns, FoldTypes
  <2> QED
    BY <2>1 DEF Folded
<1>6. \A k \in Key : LatestOf(r.snap.tomb[k], ids, k)
  BY <1>1, <1>2, FoldLatest
<1>7. /\ Undeleted(r.snap)
      /\ \A k \in Key : \E v : NewestOf(v, ids, k) /\ r.snap.live[k] = Surviving(v, r.snap.tomb[k])
  BY <1>1, <1>2, <1>4, FoldNewest
<1>8. r.snap.live[Paper] # None
  <2>1. PICK v : NewestOf(v, ids, Paper) /\ r.snap.live[Paper] = Surviving(v, r.snap.tomb[Paper])
    BY <1>7, KeyAssumption
  <2>2. v # None
    BY <1>4, <2>1 DEF NewestOf
  <2> QED
    BY <1>7, <2>1, <2>2 DEF Undeleted, Surviving
<1>9. ASSUME NEW k \in Key, r.snap.live[k] # None
      PROVE  \E g \in ids : gens[g].snap.live[k] = r.snap.live[k]
  <2>1. PICK v : NewestOf(v, ids, k) /\ r.snap.live[k] = Surviving(v, r.snap.tomb[k])
    BY <1>7
  <2>2. v # None /\ r.snap.live[k] = v
    BY <1>9, <2>1 DEF Surviving
  <2> QED
    BY <2>1, <2>2 DEF NewestOf
<1>10. Genuine(r.snap.live, edits)
  <2>1. \A g \in ids : Genuine(gens[g].snap.live, edits)
    BY DEF DriveOK
  <2> QED
    BY <1>9, <2>1 DEF Genuine
<1>11. \A h \in ids : gens[h].conf \subseteq r.conf
  BY <1>2, <1>3, FoldKeepsConflicts DEF AreHeads
<1>12. ASSUME NEW h \in ids, NEW k \in Key PROVE NotOlder(r.snap, gens[h].snap, k)
  <2>1. PICK v : NewestOf(v, ids, k) /\ r.snap.live[k] = Surviving(v, r.snap.tomb[k])
    BY <1>7
  <2>2. LatestOf(r.snap.tomb[k], ids, k)
    BY <1>6
  <2> DEFINE t == r.snap.tomb[k]
             w == gens[h].snap.live[k]
  <2>3. /\ v \in Version \cup {None} /\ w \in Version \cup {None} /\ t \in Tombstone \cup {None}
    BY <1>1, <2>1, <2>2, GenTypes DEF NewestOf, LatestOf
  <2>4. w # None => v # None /\ AtLeast(v, w)
    BY <2>1 DEF NewestOf
  <2>5. w # None => (Surviving(v, t) # None /\ AtLeast(Surviving(v, t), w)) \/ (t # None /\ Deletes(t, w))
    <3> HIDE DEF t, w
    <3>1. CASE Surviving(v, t) = v
      BY <2>4, <3>1
    <3>2. CASE Surviving(v, t) # v
      <4>1. v # None /\ t # None /\ Deletes(t, v)
        BY <3>2 DEF Surviving
      <4> QED
        BY <2>3, <2>4, <4>1, DeletionsReach
    <3> QED
      BY <3>1, <3>2
  <2>6. gens[h].snap.tomb[k] # None => t # None /\ ~LaterDeletion(gens[h].snap.tomb[k], t)
    BY <2>2 DEF LatestOf
  <2> QED
    BY <2>1, <2>5, <2>6 DEF NotOlder
<1>13. BothKept(r.conf, ids, gens)
  <2> SUFFICES ASSUME NEW p \in ids, NEW q \in ids, NEW k \in Preserving,
                      gens[p].snap.live[k] # None, gens[q].snap.live[k] # None,
                      gens[p].snap.live[k].val # gens[q].snap.live[k].val,
                      \A h \in ids : gens[h].snap.tomb[k] = None
               PROVE  /\ Kept(gens[p].snap.live[k].val, r.conf, k)
                      /\ Kept(gens[q].snap.live[k].val, r.conf, k)
    BY DEF BothKept
  <2>1. PICK i \in DOMAIN heads, j \in DOMAIN heads : heads[i] = gens[p] /\ heads[j] = gens[q]
    BY <1>2 DEF AreHeads
  <2>2. \A x \in DOMAIN heads : Undeleted(heads[x].snap) /\ heads[x].snap.tomb[k] = None
    BY <1>2, <1>4 DEF AreHeads
  <2> QED
    BY <1>2, <1>3, <2>1, <2>2, FoldKeepsValues
<1>14. \A k \in Key : r.snap.tomb[k] # None => \E g \in ids : gens[g].snap.tomb[k] # None
  BY <1>6 DEF LatestOf
<1> QED
  BY <1>5, <1>7, <1>8, <1>9, <1>10, <1>11, <1>12, <1>13, <1>14 DEF r

--------------------------------------------------------------------------------
(* A package of the device *)

LEMMA PackageIs ==
    ASSUME DriveOK, NEW d \in Device, DeviceTypes(d), Knowledge(d), Present(d)
    PROVE  /\ Package(d) \in Snapshot /\ Undeleted(Package(d))
           /\ Package(d).live[Paper] # None /\ Genuine(Package(d).live, edits)
           /\ \A k \in Key : local[d][k] # None => /\ Package(d).live[k] # None
                                                   /\ Package(d).live[k].val = local[d][k]
                                                   /\ Package(d).tomb[k] = None
           /\ \A k \in Key : local[d][k] = None => Package(d).live[k] = None
<1>1. /\ Paper \in Key /\ None \notin Nat /\ None \notin Version /\ None \notin Tombstone
      /\ Device \subseteq Nat /\ d \in Nat /\ Skew \in [Device -> Nat]
  BY KeyAssumption, NoneIsNoEntity, DeviceAssumption
<1>2. \A n \in Wrote : n \in Nat /\ UpdatedAt(n) \in Nat
  <2> SUFFICES ASSUME NEW n \in Wrote PROVE n \in Nat /\ UpdatedAt(n) \in Nat
    OBVIOUS
  <2>1. edits[n] \in EditOf /\ n \in Nat
    BY DEF DriveOK, Wrote
  <2>2. edits[n].dev \in Device
    BY <2>1 DEF EditOf
  <2>3. Skew[edits[n].dev] \in Nat
    BY <1>1, <2>2
  <2> QED
    BY <2>1, <2>3 DEF UpdatedAt
<1>3. ASSUME NEW k \in Key
      PROVE  /\ local[d][k] \in Wrote \cup {None}
             /\ sync[d].entities[k] \in Version \cup {None} /\ sync[d].tomb[k] \in Tombstone \cup {None}
  BY DEF DeviceTypes, SyncState
<1>4. ASSUME NEW k \in Key, local[d][k] # None
      PROVE  /\ PackagedVersion(d, k) \in Version
             /\ PackagedVersion(d, k).val = local[d][k]
             /\ PackagedVersion(d, k).at >= UpdatedAt(local[d][k])
             /\ PackagedTombstone(d, k) = None
  <2> DEFINE known == sync[d].entities[k]
             value == local[d][k]
             at == Later(UpdatedAt(value), IF known = None THEN 0 ELSE known.at + 1)
  <2>1. value \in Wrote /\ value \in Nat /\ UpdatedAt(value) \in Nat
    BY <1>2, <1>3, <1>4
  <2>2. CASE known # None /\ known.val = value
    <3>1. PackagedVersion(d, k) = known
      BY <1>4, <2>2 DEF PackagedVersion
    <3>2. known.at >= UpdatedAt(value)
      BY <2>2 DEF Knowledge, Genuine, UpdatedAt
    <3> QED
      BY <1>3, <1>4, <2>2, <3>1, <3>2 DEF PackagedTombstone
  <2>3. CASE ~(known # None /\ known.val = value)
    <3>1. PackagedVersion(d, k) = [at |-> at, dev |-> d, val |-> value]
      BY <1>4, <2>3 DEF PackagedVersion
    <3>2. at \in Int /\ at >= UpdatedAt(value)
      <4>1. CASE known = None
        BY <2>1, <4>1 DEF Later
      <4>2. CASE known # None
        <5>1. known.at \in Int
          BY <1>3, <4>2 DEF Version
        <5> QED
          BY <2>1, <4>2, <5>1 DEF Later
      <4> QED
        BY <4>1, <4>2
    <3> HIDE DEF at
    <3> QED
      BY <1>1, <1>4, <2>1, <3>1, <3>2 DEF PackagedTombstone, Version
  <2> QED
    BY <2>2, <2>3
<1>5. ASSUME NEW k \in Key PROVE PackagedTombstone(d, k) \in Tombstone \cup {None}
  <2>1. CASE local[d][k] # None
    BY <1>4, <2>1
  <2>2. CASE local[d][k] = None /\ sync[d].tomb[k] # None
    <3>1. PackagedTombstone(d, k) = sync[d].tomb[k]
      BY <2>2 DEF PackagedTombstone
    <3> QED
      BY <1>3, <3>1
  <2>3. CASE local[d][k] = None /\ sync[d].tomb[k] = None /\ sync[d].entities[k] # None
    <3> DEFINE known == sync[d].entities[k]
               t == [at |-> Later(Now(d), known.at + 1), dev |-> known.dev]
    <3>1. PackagedTombstone(d, k) = t
      BY <2>3 DEF PackagedTombstone
    <3>2. Now(d) \in Int
      BY <1>1 DEF Now, DriveOK
    <3>3. known.at + 1 \in Int /\ known.dev \in Nat
      BY <1>3, <2>3 DEF Version
    <3>4. Later(Now(d), known.at + 1) \in Int
      BY <3>2, <3>3 DEF Later
    <3> QED
      BY <3>1, <3>3, <3>4 DEF Tombstone
  <2>4. CASE local[d][k] = None /\ sync[d].tomb[k] = None /\ sync[d].entities[k] = None
    BY <2>4 DEF PackagedTombstone
  <2> QED
    BY <2>1, <2>2, <2>3, <2>4
<1>6. \A k \in Key : local[d][k] = None => PackagedVersion(d, k) = None
  BY DEF PackagedVersion
<1>7. \A k \in Key : PackagedVersion(d, k) \in Version \cup {None}
  BY <1>4, <1>6
<1>8. Package(d) \in Snapshot
  <2>1. [k \in Key |-> PackagedVersion(d, k)] \in [Key -> Version \cup {None}]
    BY <1>7
  <2>2. [k \in Key |-> PackagedTombstone(d, k)] \in [Key -> Tombstone \cup {None}]
    BY <1>5
  <2> QED
    BY <2>1, <2>2 DEF Package, Snapshot
<1>9. \A k \in Key : /\ Package(d).live[k] = PackagedVersion(d, k)
                     /\ Package(d).tomb[k] = PackagedTombstone(d, k)
  BY DEF Package
<1>10. Genuine(Package(d).live, edits)
  <2> SUFFICES ASSUME NEW k \in Key, Package(d).live[k] # None
               PROVE  LET v == Package(d).live[k]
                      IN  v.val \in 1..Len(edits) /\ v.at >= v.val + Skew[edits[v.val].dev]
    BY DEF Genuine
  <2>1. local[d][k] # None /\ local[d][k] \in Wrote
    BY <1>3, <1>6, <1>9
  <2> QED
    BY <1>4, <1>9, <2>1 DEF Wrote, UpdatedAt
<1>11. Package(d).live[Paper] # None /\ Undeleted(Package(d))
  BY <1>1, <1>4, <1>9 DEF Present, Undeleted
<1> QED
  BY <1>1, <1>4, <1>6, <1>8, <1>9, <1>10, <1>11

--------------------------------------------------------------------------------
(* What a step of one device leaves alone *)

Grows ==
    /\ Len(gens) <= Len(gens') /\ \A g \in DOMAIN gens : g \in DOMAIN gens' /\ gens'[g] = gens[g]
    /\ Len(edits) <= Len(edits') /\ \A n \in Wrote : n \in Wrote' /\ edits'[n] = edits[n]
    /\ exposed \subseteq exposed'

Same(e) == /\ local'[e] = local[e] /\ unmarked'[e] = unmarked[e]
           /\ sync'[e] = sync[e] /\ op'[e] = op[e]

LEMMA OthersStay ==
    ASSUME DevicesOK, NEW d \in Device, Step(d), NEW e \in Device \ {d}
    PROVE  Same(e)
<1> USE DEF DevicesOK, Same
<1>1. ASSUME NEW k \in Key, Edit(d, k) PROVE Same(e)
  BY <1>1 DEF Edit, Write
<1>2. ASSUME NEW k \in Key, Delete(d, k) PROVE Same(e)
  BY <1>2 DEF Delete, Write
<1>3. CASE MarkDirty(d)
  BY <1>3 DEF MarkDirty
<1>4. CASE BeginUpload(d)
  BY <1>4 DEF BeginUpload
<1>5. CASE BeginKeepLocal(d)
  BY <1>5 DEF BeginKeepLocal
<1>6. CASE Reconcile(d)
  BY <1>6 DEF Reconcile
<1>7. CASE Publish(d)
  BY <1>7 DEF Publish
<1>8. CASE VerifyPublication(d) \/ SettleNoOp(d)
  BY <1>8 DEF VerifyPublication, SettleNoOp, ApplyPublishResult
<1>9. CASE Download(d)
  BY <1>9 DEF Download
<1>10. CASE ApplyDownload(d)
  BY <1>10 DEF ApplyDownload
<1>11. CASE SettleDownload(d)
  BY <1>11 DEF SettleDownload
<1>12. CASE RollbackApplication(d)
  BY <1>12 DEF RollbackApplication
<1>13. CASE RollbackSettlement(d)
  BY <1>13 DEF RollbackSettlement
<1>14. CASE Fail(d)
  BY <1>14 DEF Fail
<1>15. CASE ClosePage(d)
  BY <1>15 DEF ClosePage
<1> QED
  BY <1>1, <1>2, <1>3, <1>4, <1>5, <1>6, <1>7, <1>8, <1>9, <1>10, <1>11, <1>12, <1>13, <1>14,
     <1>15 DEF Step

LEMMA GenuineStays ==
    ASSUME DriveOK, Grows, NEW live, Genuine(live, edits)
    PROVE  Genuine(live, edits')
<1>1. \A n \in 1..Len(edits) : n \in 1..Len(edits') /\ edits'[n] = edits[n]
  BY DEF Grows, Wrote
<1> QED
  BY <1>1 DEF Genuine

LEMMA OtherDeviceOK ==
    ASSUME DriveOK, Grows, NEW e \in Device, DeviceOK(e), Same(e)
    PROVE  DeviceOK(e)'
<1>1. DeviceTypes(e)'
  <2>1. Wrote \subseteq Wrote'
    BY DEF Grows
  <2> QED
    BY <2>1 DEF DeviceOK, DeviceTypes, Same
<1>2. Knowledge(e)'
  <2>1. /\ Genuine(sync[e].entities, edits') /\ Genuine(op[e].before.entities, edits')
        /\ Genuine(op[e].snap.live, edits')
    BY GenuineStays DEF DeviceOK, Knowledge
  <2> QED
    BY <2>1 DEF DeviceOK, Knowledge, Same, Grows
<1>3. Reconciled(e)'
  <2> SUFFICES ASSUME op[e].step = "publish" PROVE Reconciled(e)'
    BY DEF Reconciled, At, Same
  <2>1. op[e].heads \subseteq DOMAIN gens
    BY DEF DeviceOK, Knowledge
  <2>2. \A h \in op[e].heads : gens'[h] = gens[h]
    BY <2>1 DEF Grows
  <2>3. BothKept(op[e].conf, op[e].heads, gens')
    BY <2>2 DEF BothKept, DeviceOK, Reconciled, At
  <2> QED
    BY <2>2, <2>3 DEF DeviceOK, Reconciled, At, Same
<1> QED
  BY <1>1, <1>2, <1>3 DEF DeviceOK

LEMMA DevicesStep ==
    ASSUME DriveOK, DevicesOK, NEW d \in Device, Step(d), Grows, DeviceOK(d)',
           local' \in [Device -> [Key -> Nat \cup {None}]], unmarked' \in [Device -> BOOLEAN],
           sync' \in [Device -> SyncState], op' \in [Device -> Operation]
    PROVE  DevicesOK'
<1>1. ASSUME NEW e \in Device PROVE DeviceOK(e)'
  <2>1. CASE e = d
    BY <2>1
  <2>2. CASE e # d
    BY <2>2, OthersStay, OtherDeviceOK DEF DevicesOK
  <2> QED
    BY <2>1, <2>2
<1> QED
  BY <1>1 DEF DevicesOK

--------------------------------------------------------------------------------
(* Each step keeps what a publication needs *)

LEMMA DriveStays ==
    ASSUME DriveOK, gens' = gens, edits' = edits, exposed \subseteq exposed', exposed' \subseteq Wrote
    PROVE  DriveOK' /\ Grows /\ Wrote' = Wrote
<1>1. GensOK'
  BY DEF DriveOK, GensOK
<1>2. Wrote' = Wrote
  BY DEF Wrote
<1>3. edits \in Seq(EditOf) /\ gens \in Seq(Gen)
  BY DEF DriveOK, GensOK
<1>4. Grows
  BY <1>2, <1>3 DEF Grows
<1> QED
  BY <1>1, <1>2, <1>4 DEF DriveOK

LEMMA IdleIsOK ==
    /\ Idle \in Operation /\ Idle.step = "idle"
    /\ Idle.old = [k \in Key |-> None]
    /\ Idle.before.entities = [k \in Key |-> None] /\ Idle.before.tomb = [k \in Key |-> None]
    /\ Idle.snap = EmptySnapshot /\ Undeleted(Idle.snap)
    /\ \A es : Genuine(Idle.snap.live, es) /\ Genuine(Idle.before.entities, es)
    /\ FreshSync \in SyncState
<1>1. FreshSync \in SyncState
  BY DEF FreshSync, SyncState
<1>2. EmptySnapshot \in Snapshot
  BY DEF EmptySnapshot, Snapshot
<1>3. Idle \in Operation
  BY <1>1, <1>2 DEF Idle, Operation, Steps, Kinds
<1>4. Undeleted(EmptySnapshot)
  BY KeyAssumption DEF EmptySnapshot, Undeleted
<1> QED
  BY <1>1, <1>3, <1>4 DEF Idle, FreshSync, EmptySnapshot, Genuine

LEMMA WriteOK ==
    ASSUME DriveOK, DevicesOK, NEW d \in Device, Step(d), NEW k \in Key, Edit(d, k) \/ Delete(d, k)
    PROVE  /\ DriveOK' /\ DevicesOK' /\ Grows
           /\ edits' \in Seq(EditOf) /\ Len(edits') = Len(edits) + 1
           /\ edits'[Len(edits) + 1].dev = d /\ edits'[Len(edits) + 1].key = k
           /\ ~edits'[Len(edits) + 1].deletion => local'[d][k] = Len(edits) + 1
           /\ \A j \in Key : j # k => local'[d][j] = local[d][j]
           /\ gens' = gens /\ sync' = sync /\ op' = op /\ exposed' = exposed
           /\ ~unmarked[d] /\ unmarked'[d] /\ Present(d) /\ local'[d][Paper] # None
<1>1. PICK value \in {Len(edits) + 1, None} : Write(d, k, value) /\ (value = None => k # Paper)
  <2>1. Len(edits) + 1 # None
    BY NoneIsNoEntity DEF DriveOK
  <2>2. CASE Edit(d, k)
    BY <2>1, <2>2 DEF Edit
  <2>3. CASE Delete(d, k)
    BY <2>3 DEF Delete
  <2> QED
    BY <2>2, <2>3
<1> DEFINE e == [dev |-> d, key |-> k, deletion |-> value = None]
<1>2. /\ edits' = Append(edits, e) /\ gens' = gens /\ sync' = sync /\ op' = op /\ exposed' = exposed
      /\ local' = [local EXCEPT ![d][k] = value] /\ unmarked' = [unmarked EXCEPT ![d] = TRUE]
      /\ ~unmarked[d] /\ Present(d)
  BY <1>1 DEF Write
<1>3. edits \in Seq(EditOf) /\ gens \in Seq(Gen)
  BY DEF DriveOK, GensOK
<1>4. e \in EditOf
  BY DEF EditOf
<1>5. /\ edits' \in Seq(EditOf) /\ Len(edits') = Len(edits) + 1 /\ Len(edits) \in Nat
      /\ \A n \in 1..Len(edits) : edits'[n] = edits[n]
      /\ edits'[Len(edits) + 1] = e
  BY <1>2, <1>3, <1>4
<1>6. Wrote \subseteq Wrote' /\ Len(edits) + 1 \in Wrote'
  BY <1>5 DEF Wrote
<1>7. Grows
  BY <1>2, <1>3, <1>5, <1>6 DEF Grows, Wrote
<1>8. DriveOK'
  <2>1. GensOK'
    BY <1>2 DEF DriveOK, GensOK
  <2>2. \A g \in DOMAIN gens : Genuine(gens[g].snap.live, edits')
    BY <1>7, GenuineStays DEF DriveOK
  <2> QED
    BY <1>2, <1>5, <1>6, <2>1, <2>2 DEF DriveOK
<1>9. /\ local' \in [Device -> [Key -> Nat \cup {None}]]
      /\ unmarked' \in [Device -> BOOLEAN]
  BY <1>2, <1>5 DEF DevicesOK
<1>10. /\ \A j \in Key : j # k => local'[d][j] = local[d][j]
       /\ local'[d][k] = value /\ unmarked'[d]
  BY <1>2 DEF DevicesOK
<1>15. local'[d][Paper] # None
  <2>1. value = Len(edits) + 1 => value # None
    BY <1>5, NoneIsNoEntity
  <2> QED
    BY <1>1, <1>2, <1>10, <2>1, KeyAssumption DEF Present
<1>11. DeviceOK(d)'
  <2>0. DeviceOK(d)
    BY DEF DevicesOK
  <2>1. DeviceTypes(d)'
    <3>1. local'[d] \in [Key -> Wrote' \cup {None}]
      <4>1. local[d] \in [Key -> Wrote \cup {None}]
        BY <2>0 DEF DeviceOK, DeviceTypes
      <4>2. local'[d] = [local[d] EXCEPT ![k] = value]
        BY <1>2 DEF DevicesOK
      <4> QED
        BY <1>6, <4>1, <4>2
    <3> QED
      BY <1>2, <1>6, <1>9, <2>0, <3>1 DEF DeviceOK, DeviceTypes
  <2>2. Knowledge(d)'
    <3>1. /\ Genuine(sync[d].entities, edits') /\ Genuine(op[d].before.entities, edits')
          /\ Genuine(op[d].snap.live, edits')
      BY <1>7, <2>0, GenuineStays DEF DeviceOK, Knowledge
    <3>2. local[d][Paper] # None => local'[d][Paper] # None
      BY <1>15
    <3> QED
      BY <1>2, <2>0, <3>1, <3>2 DEF DeviceOK, Knowledge
  <2>3. Reconciled(d)'
    BY <1>2, <2>0 DEF DeviceOK, Reconciled, At
  <2> QED
    BY <2>1, <2>2, <2>3 DEF DeviceOK
<1>12. DevicesOK'
  BY <1>2, <1>7, <1>9, <1>11, DevicesStep DEF DevicesOK
<1>13. ~e.deletion => value = Len(edits) + 1
  OBVIOUS
<1>14. e.dev = d /\ e.key = k
  OBVIOUS
<1> HIDE DEF e
<1> QED
  BY <1>2, <1>5, <1>7, <1>8, <1>10, <1>12, <1>13, <1>14, <1>15

LEMMA MarkDirtyOK ==
    ASSUME DriveOK, DevicesOK, NEW d \in Device, Step(d), MarkDirty(d)
    PROVE  DriveOK' /\ DevicesOK' /\ Grows
<1>1. DriveOK' /\ Grows /\ Wrote' = Wrote
  BY DriveStays DEF MarkDirty, DriveOK
<1>2. /\ sync'[d] = [sync[d] EXCEPT !.dirty = TRUE, !.generation = @ + 1]
      /\ gens' = gens /\ edits' = edits /\ local' = local /\ op' = op
      /\ unmarked'[d] = FALSE
  BY DEF MarkDirty, DevicesOK
<1>3. sync[d] \in SyncState
  BY DEF DevicesOK
<1>4. sync'[d] \in SyncState /\ sync'[d].entities = sync[d].entities /\ sync'[d].tomb = sync[d].tomb
  <2>1. sync[d].generation + 1 \in Nat
    BY <1>3 DEF SyncState
  <2> QED
    BY <1>2, <1>3, <2>1 DEF SyncState
<1>5. /\ unmarked' \in [Device -> BOOLEAN] /\ sync' \in [Device -> SyncState]
  BY <1>4 DEF MarkDirty, DevicesOK
<1>6. DeviceOK(d)'
  <2>0. DeviceOK(d)
    BY DEF DevicesOK
  <2>1. DeviceTypes(d)'
    BY <1>1, <1>2, <1>4, <2>0 DEF DeviceOK, DeviceTypes
  <2>2. Knowledge(d)'
    BY <1>2, <1>4, <2>0 DEF DeviceOK, Knowledge
  <2>3. Reconciled(d)'
    BY <1>2, <2>0 DEF DeviceOK, Reconciled, At
  <2> QED
    BY <2>1, <2>2, <2>3 DEF DeviceOK
<1>7. DevicesOK'
  BY <1>1, <1>2, <1>5, <1>6, DevicesStep DEF DevicesOK
<1> QED
  BY <1>1, <1>7

LEMMA BeginOK ==
    ASSUME DriveOK, DevicesOK, NEW d \in Device, Step(d), BeginUpload(d) \/ BeginKeepLocal(d)
    PROVE  /\ DriveOK' /\ DevicesOK' /\ Grows
           /\ op'[d].step = "reconcile" /\ op'[d].captured = sync[d].generation
<1>1. DriveOK' /\ Grows /\ Wrote' = Wrote
  BY DriveStays DEF BeginUpload, BeginKeepLocal, DriveOK
<1>2. PICK kind \in Kinds :
          op' = [op EXCEPT ![d] = [Idle EXCEPT !.step = "reconcile", !.kind = kind,
                                               !.captured = sync[d].generation]]
  <2>1. Idle.kind = "upload"
    BY DEF Idle
  <2>2. CASE BeginUpload(d)
    <3>1. [Idle EXCEPT !.step = "reconcile", !.captured = sync[d].generation]
            = [Idle EXCEPT !.step = "reconcile", !.kind = "upload", !.captured = sync[d].generation]
      BY <2>1 DEF Idle
    <3> QED
      BY <2>2, <3>1 DEF BeginUpload, Kinds
  <2>3. CASE BeginKeepLocal(d)
    BY <2>3 DEF BeginKeepLocal, Kinds
  <2> QED
    BY <2>2, <2>3
<1>3. gens' = gens /\ edits' = edits /\ local' = local /\ unmarked' = unmarked /\ sync' = sync
  BY DEF BeginUpload, BeginKeepLocal
<1>4. op'[d] = [Idle EXCEPT !.step = "reconcile", !.kind = kind, !.captured = sync[d].generation]
  BY <1>2 DEF DevicesOK
<1>5. sync[d].generation \in Nat
  BY DEF DevicesOK, SyncState
<1>6. /\ op'[d] \in Operation /\ op'[d].step = "reconcile" /\ op'[d].captured = sync[d].generation
      /\ op'[d].old = Idle.old /\ op'[d].before = Idle.before /\ op'[d].snap = Idle.snap
  BY <1>4, <1>5, IdleIsOK DEF Operation, Steps
<1>7. op' \in [Device -> Operation]
  BY <1>2, <1>4, <1>6 DEF DevicesOK
<1>8. DeviceOK(d)'
  <2>0. DeviceOK(d)
    BY DEF DevicesOK
  <2>1. DeviceTypes(d)'
    BY <1>1, <1>3, <1>6, <2>0, IdleIsOK DEF DeviceOK, DeviceTypes
  <2>2. Knowledge(d)'
    BY <1>3, <1>6, <2>0, IdleIsOK, KeyAssumption DEF DeviceOK, Knowledge, Merging, Downloading
  <2>3. Reconciled(d)'
    BY <1>6 DEF Reconciled, At
  <2> QED
    BY <2>1, <2>2, <2>3 DEF DeviceOK
<1>9. DevicesOK'
  BY <1>1, <1>3, <1>7, <1>8, DevicesStep DEF DevicesOK
<1> QED
  BY <1>1, <1>6, <1>9

LEMMA HeadsAre ==
    ASSUME DriveOK
    PROVE  Heads \in SUBSET DOMAIN gens /\ Heads \in SUBSET Nat /\ FoldOf(Heads) = FoldIn(Heads, gens)
<1>1. Heads \in SUBSET DOMAIN gens
  BY DEF Heads
<1>2. DOMAIN gens \subseteq Nat
  BY DEF DriveOK, GensOK
<1> QED
  BY <1>1, <1>2 DEF FoldOf, FoldIn

\* What Reconcile leaves for the publication.
LEMMA ReconcileIs ==
    ASSUME DriveOK, DevicesOK, NEW d \in Device, Reconcile(d)
    PROVE  \E snap, conf, step :
               /\ op' = [op EXCEPT ![d].step = step, ![d].heads = Heads,
                                   ![d].snap = snap, ![d].conf = conf]
               /\ step \in {"publish", "settle-noop"}
               /\ step = "settle-noop" => \E g \in Heads : gens[g].snap = snap /\ gens[g].conf = conf
               /\ Publishable(snap)
               /\ conf \in SUBSET Conflict /\ sync[d].conf \subseteq conf
               /\ Heads # {} => FoldIn(Heads, gens).conf \subseteq conf
               /\ \/ (Heads = {} \/ op[d].kind = "keep-local") /\ snap = Package(d)
                  \/ /\ Heads # {} /\ op[d].kind = "upload"
                     /\ snap = MergeSnapshots(Package(d), FoldIn(Heads, gens).snap)
                     /\ Conflicts(Package(d), FoldIn(Heads, gens).snap, sync[d].baseline) \subseteq conf
<1> DEFINE own == Package(d)
           remote == FoldOf(Heads)
           conf == IF Heads = {} THEN sync[d].conf
                   ELSE IF op[d].kind = "keep-local" THEN sync[d].conf \cup remote.conf
                   ELSE sync[d].conf \cup remote.conf
                            \cup Conflicts(own, remote.snap, sync[d].baseline)
           snap == IF Heads = {} \/ op[d].kind = "keep-local" THEN own
                   ELSE MergeSnapshots(own, remote.snap)
           noOp == /\ op[d].kind = "upload"
                   /\ \E g \in Heads : /\ Heads = {g}
                                       /\ gens[g].snap = snap /\ gens[g].conf = conf
           step == IF noOp THEN "settle-noop" ELSE "publish"
<1>1. /\ Publishable(snap)
      /\ op' = [op EXCEPT ![d].step = step, ![d].heads = Heads,
                          ![d].snap = snap, ![d].conf = conf]
  BY DEF Reconcile
<1>2. remote = FoldIn(Heads, gens) /\ Heads \in SUBSET DOMAIN gens
  BY HeadsAre
<1>3. op[d].kind \in {"upload", "keep-local"}
  BY DEF DevicesOK, Operation, Kinds
<1>4. conf \in SUBSET Conflict
  <2>1. sync[d].conf \in SUBSET Conflict
    BY DEF DevicesOK, SyncState
  <2>2. Heads # {} => remote.conf \in SUBSET Conflict /\ remote.snap \in Snapshot
    BY <1>2, RemoteFold
  <2>3. own \in Snapshot
    BY PackageIs DEF Reconcile, DevicesOK, DeviceOK
  <2>4. Heads # {} => Conflicts(own, remote.snap, sync[d].baseline) \in SUBSET Conflict
    BY <2>2, <2>3, ConflictTypes
  <2> HIDE DEF own, remote
  <2> QED
    BY <2>1, <2>2, <2>4
<1>5. step = "settle-noop" => \E g \in Heads : gens[g].snap = snap /\ gens[g].conf = conf
  OBVIOUS
<1>6. \/ (Heads = {} \/ op[d].kind = "keep-local") /\ snap = own
      \/ /\ Heads # {} /\ op[d].kind = "upload"
         /\ snap = MergeSnapshots(own, remote.snap)
         /\ Conflicts(own, remote.snap, sync[d].baseline) \subseteq conf
  BY <1>3
<1>7. sync[d].conf \subseteq conf /\ (Heads # {} => remote.conf \subseteq conf)
  OBVIOUS
<1>8. step \in {"publish", "settle-noop"}
  OBVIOUS
<1> HIDE DEF conf, snap, step, own, remote
<1> QED
  BY <1>1, <1>2, <1>4, <1>5, <1>6, <1>7, <1>8 DEF own, remote

LEMMA ReconcileOK ==
    ASSUME DriveOK, DevicesOK, NEW d \in Device, Step(d), Reconcile(d)
    PROVE  DriveOK' /\ DevicesOK' /\ Grows
<1>1. DriveOK' /\ Grows /\ Wrote' = Wrote
  BY DriveStays DEF Reconcile, DriveOK
<1>2. PICK snap, conf, step :
          /\ op' = [op EXCEPT ![d].step = step, ![d].heads = Heads,
                              ![d].snap = snap, ![d].conf = conf]
          /\ step \in {"publish", "settle-noop"}
          /\ Publishable(snap)
          /\ conf \in SUBSET Conflict
          /\ Heads # {} => FoldIn(Heads, gens).conf \subseteq conf
          /\ \/ (Heads = {} \/ op[d].kind = "keep-local") /\ snap = Package(d)
             \/ /\ Heads # {} /\ op[d].kind = "upload"
                /\ snap = MergeSnapshots(Package(d), FoldIn(Heads, gens).snap)
  BY ReconcileIs
<1>3. /\ gens' = gens /\ edits' = edits /\ local' = local /\ unmarked' = unmarked /\ sync' = sync
      /\ Present(d)
  BY DEF Reconcile
<1>4. DeviceOK(d)
  BY DEF DevicesOK
<1>5. Heads \in SUBSET DOMAIN gens /\ Heads \in SUBSET Nat
  BY HeadsAre
<1> DEFINE own == Package(d)
           remote == FoldIn(Heads, gens)
<1>6. /\ own \in Snapshot /\ Undeleted(own) /\ own.live[Paper] # None /\ Genuine(own.live, edits)
  BY <1>3, <1>4, PackageIs DEF DeviceOK
<1>7. Heads # {} => /\ remote.snap \in Snapshot /\ Undeleted(remote.snap)
                    /\ Genuine(remote.snap.live, edits)
                    /\ \A h \in Heads : gens[h].conf \subseteq remote.conf
                    /\ \A h \in Heads, k \in Key : NotOlder(remote.snap, gens[h].snap, k)
                    /\ BothKept(remote.conf, Heads, gens)
  BY <1>5, RemoteFold
<1>8. snap \in Snapshot /\ Undeleted(snap) /\ snap.live[Paper] # None /\ Genuine(snap.live, edits)
  BY <1>2, <1>6, <1>7, MergeLives
<1>9. /\ op'[d] = [op[d] EXCEPT !.step = step, !.heads = Heads, !.snap = snap, !.conf = conf]
      /\ op[d] \in Operation
  BY <1>2 DEF DevicesOK
<1>10. /\ op'[d] \in Operation /\ op'[d].step = step /\ op'[d].heads = Heads
       /\ op'[d].snap = snap /\ op'[d].conf = conf /\ op'[d].kind = op[d].kind
       /\ op'[d].before = op[d].before /\ op'[d].old = op[d].old
  <2>1. step \in Steps /\ Heads \in SUBSET Nat /\ snap \in Snapshot /\ conf \in SUBSET Conflict
    BY <1>2, <1>5, <1>8 DEF Steps
  <2> QED
    BY <1>9, <2>1 DEF Operation
<1>11. op' \in [Device -> Operation]
  BY <1>2, <1>9, <1>10 DEF DevicesOK
<1>12. DeviceTypes(d)'
  BY <1>1, <1>3, <1>4, <1>10 DEF DeviceOK, DeviceTypes
<1>13. Knowledge(d)'
  BY <1>2, <1>3, <1>4, <1>5, <1>8, <1>10 DEF DeviceOK, Knowledge, Present, Merging, Downloading
<1>14. Reconciled(d)'
  <2>1. \A h \in Heads : gens[h].conf \subseteq conf
    <3> HIDE DEF remote
    <3> QED
      BY <1>2, <1>7 DEF remote
  <2>2. ASSUME op[d].kind = "upload", NEW h \in Heads, NEW k \in Key
        PROVE  NotOlder(snap, gens[h].snap, k)
    <3>1. Heads # {} /\ snap = MergeSnapshots(own, remote.snap)
      BY <1>2, <2>2
    <3>2. NotOlder(snap, remote.snap, k)
      BY <1>6, <1>7, <3>1, MergeNotOlder
    <3>3. NotOlder(remote.snap, gens[h].snap, k)
      BY <1>7
    <3>4. gens[h].snap \in Snapshot
      BY <1>5, GenTypes DEF DriveOK
    <3> QED
      BY <1>7, <1>8, <3>1, <3>2, <3>3, <3>4, NotOlderTransitive
  <2>3. BothKept(conf, Heads, gens)
    <3>1. CASE Heads = {}
      BY <3>1 DEF BothKept
    <3>2. CASE Heads # {}
      <4>1. BothKept(remote.conf, Heads, gens) /\ remote.conf \subseteq conf
        BY <1>2, <1>7, <3>2
      <4> HIDE DEF remote
      <4> QED
        BY <4>1 DEF BothKept, Kept
    <3> QED
      BY <3>1, <3>2
  <2> QED
    BY <1>2, <1>3, <1>10, <2>1, <2>2, <2>3 DEF Reconciled
<1>15. DevicesOK'
  BY <1>1, <1>3, <1>11, <1>12, <1>13, <1>14, DevicesStep DEF DevicesOK, DeviceOK
<1> QED
  BY <1>1, <1>15

LEMMA PublishOK ==
    ASSUME DriveOK, DevicesOK, NEW d \in Device, Step(d), Publish(d)
    PROVE  /\ DriveOK' /\ DevicesOK' /\ Grows
           /\ Len(gens) \in Nat /\ Len(gens') = Len(gens) + 1
           /\ DOMAIN gens' = DOMAIN gens \cup {Len(gens) + 1}
           /\ gens'[Len(gens) + 1] = [snap |-> op[d].snap, conf |-> op[d].conf,
                                      parents |-> op[d].heads, kind |-> op[d].kind, by |-> d]
           /\ op'[d].step = "verify" /\ op'[d].snap = op[d].snap /\ op'[d].conf = op[d].conf
           /\ op'[d].captured = op[d].captured
<1> DEFINE new == [snap |-> op[d].snap, conf |-> op[d].conf,
                   parents |-> op[d].heads, kind |-> op[d].kind, by |-> d]
<1>1. /\ gens' = Append(gens, new) /\ op[d].step = "publish"
      /\ op' = [op EXCEPT ![d].step = "verify", ![d].heads = {Len(gens) + 1}]
      /\ local' = local /\ unmarked' = unmarked /\ sync' = sync /\ edits' = edits /\ exposed' = exposed
  BY DEF Publish, At
<1>2. DeviceOK(d) /\ op[d] \in Operation
  BY DEF DevicesOK
<1>3. /\ op[d].snap \in Snapshot /\ op[d].conf \in SUBSET Conflict /\ op[d].heads \in SUBSET Nat
      /\ op[d].kind \in Kinds
  BY <1>2 DEF Operation
<1>4. /\ Publishable(op[d].snap) /\ op[d].snap.live[Paper] # None /\ op[d].heads \subseteq DOMAIN gens
      /\ Genuine(op[d].snap.live, edits)
  BY <1>1, <1>2 DEF DeviceOK, Reconciled, Knowledge, At, Merging
<1>5. new \in Gen
  BY <1>3, DeviceAssumption DEF Gen
<1>6. gens \in Seq(Gen) /\ edits \in Seq(EditOf)
  BY DEF DriveOK, GensOK
<1>7. /\ gens' \in Seq(Gen) /\ Len(gens') = Len(gens) + 1 /\ Len(gens) \in Nat
      /\ DOMAIN gens = 1..Len(gens) /\ DOMAIN gens' = 1..(Len(gens) + 1)
      /\ \A g \in DOMAIN gens : gens'[g] = gens[g]
      /\ gens'[Len(gens) + 1] = new
  <2> HIDE DEF new
  <2> QED
    BY <1>1, <1>5, <1>6
<1>8. DOMAIN gens' = DOMAIN gens \cup {Len(gens) + 1}
  BY <1>7
<1>9. Consistent(op[d].snap)
  BY <1>4 DEF Publishable, Consistent, Surviving
<1>10. new.snap = op[d].snap /\ new.parents = op[d].heads
  OBVIOUS
<1> HIDE DEF new
<1>11. GensOK'
  <2>1. \A g \in DOMAIN gens : g <= Len(gens) /\ gens[g].parents \subseteq 1..(g - 1)
    BY <1>7 DEF DriveOK, GensOK
  <2>2. new.parents \subseteq 1..((Len(gens) + 1) - 1)
    BY <1>4, <1>7, <1>10
  <2> QED
    BY <1>4, <1>7, <1>8, <1>9, <1>10, <2>2 DEF DriveOK, GensOK
<1>12. Grows
  BY <1>1, <1>6, <1>7 DEF Grows, Wrote
<1>13. DriveOK'
  BY <1>1, <1>4, <1>7, <1>8, <1>10, <1>11 DEF DriveOK, Wrote
<1>14. /\ op'[d] \in Operation /\ op'[d].step = "verify" /\ op'[d].snap = op[d].snap
       /\ op'[d].conf = op[d].conf /\ op'[d].before = op[d].before /\ op'[d].old = op[d].old
       /\ op'[d].captured = op[d].captured
  <2>1. op'[d] = [op[d] EXCEPT !.step = "verify", !.heads = {Len(gens) + 1}]
    BY <1>1 DEF DevicesOK
  <2>2. "verify" \in Steps /\ {Len(gens) + 1} \in SUBSET Nat
    BY <1>7 DEF Steps
  <2> QED
    BY <1>2, <2>1, <2>2 DEF Operation
<1>15. op' \in [Device -> Operation]
  BY <1>1, <1>14 DEF DevicesOK
<1>16. DeviceOK(d)'
  <2>1. DeviceTypes(d)'
    BY <1>1, <1>2, <1>14 DEF DeviceOK, DeviceTypes, Wrote
  <2>2. Knowledge(d)'
    BY <1>1, <1>2, <1>14 DEF DeviceOK, Knowledge, Merging, Downloading
  <2>3. Reconciled(d)'
    BY <1>14 DEF Reconciled, At
  <2> QED
    BY <2>1, <2>2, <2>3 DEF DeviceOK
<1>17. DevicesOK'
  BY <1>1, <1>12, <1>15, <1>16, DevicesStep DEF DevicesOK
<1> QED
  BY <1>7, <1>8, <1>12, <1>13, <1>14, <1>17 DEF new

\* No other step adds to what is in Drive.
LEMMA PublicationsKeep ==
    ASSUME PublicationInv, DevicesOK', NEW d \in Device, Step(d), Publish(d)
    PROVE  PublishedNeverRegresses' /\ ForkKeepsBoth' /\ ParentsArePreserved'
<1> DEFINE g0 == Len(gens) + 1
<1>1. /\ DOMAIN gens' = DOMAIN gens \cup {g0} /\ g0 \notin DOMAIN gens
      /\ gens'[g0].snap = op[d].snap /\ gens'[g0].conf = op[d].conf
      /\ gens'[g0].parents = op[d].heads /\ gens'[g0].kind = op[d].kind
      /\ \A g \in DOMAIN gens : gens'[g] = gens[g]
  <2>1. DOMAIN gens = 1..Len(gens)
    BY DEF PublicationInv, DriveOK, GensOK
  <2>2. /\ Grows /\ Len(gens) \in Nat /\ DOMAIN gens' = DOMAIN gens \cup {g0}
        /\ gens'[g0] = [snap |-> op[d].snap, conf |-> op[d].conf,
                       parents |-> op[d].heads, kind |-> op[d].kind, by |-> d]
    BY PublishOK DEF PublicationInv
  <2>3. g0 \notin DOMAIN gens
    BY <2>1, <2>2
  <2> HIDE DEF g0
  <2> QED
    BY <2>2, <2>3 DEF Grows
<1>2. \A g \in DOMAIN gens : gens[g].parents \subseteq DOMAIN gens
  <2>1. DOMAIN gens = 1..Len(gens) /\ Len(gens) \in Nat
    BY DEF PublicationInv, DriveOK, GensOK
  <2>2. \A g \in DOMAIN gens : gens[g].parents \subseteq 1..(g - 1)
    BY DEF PublicationInv, DriveOK, GensOK
  <2> QED
    BY <2>1, <2>2
<1>3. op[d].step = "publish" /\ DeviceOK(d)
  BY DEF PublicationInv, DevicesOK, Publish, At
<1>4. op[d].heads \subseteq DOMAIN gens
  BY <1>3 DEF DeviceOK, Knowledge
<1>5. /\ \A h \in op[d].heads : gens[h].conf \subseteq op[d].conf
      /\ op[d].kind = "upload" =>
             \A h \in op[d].heads, k \in Key : NotOlder(op[d].snap, gens[h].snap, k)
      /\ BothKept(op[d].conf, op[d].heads, gens)
  BY <1>3 DEF DeviceOK, Reconciled, At
<1> HIDE DEF g0
<1>6. PublishedNeverRegresses'
  <2>1. ASSUME NEW g \in DOMAIN gens', gens'[g].kind = "upload", NEW p \in gens'[g].parents, NEW k \in Key
        PROVE  NotOlder(gens'[g].snap, gens'[p].snap, k)
    <3>1. CASE g = g0
      BY <1>1, <1>4, <1>5, <2>1, <3>1
    <3>2. CASE g \in DOMAIN gens
      BY <1>1, <1>2, <2>1, <3>2 DEF PublicationInv, PublishedNeverRegresses, NotOlder
    <3> QED
      BY <1>1, <3>1, <3>2
  <2> QED
    BY <2>1 DEF PublishedNeverRegresses, NotOlder
<1>7. ParentsArePreserved'
  <2>1. ASSUME NEW g \in DOMAIN gens', NEW p \in gens'[g].parents
        PROVE  gens'[p].conf \subseteq gens'[g].conf
    <3>1. CASE g = g0
      BY <1>1, <1>4, <1>5, <2>1, <3>1
    <3>2. CASE g \in DOMAIN gens
      BY <1>1, <1>2, <2>1, <3>2 DEF PublicationInv, ParentsArePreserved
    <3> QED
      BY <1>1, <3>1, <3>2
  <2> QED
    BY <2>1 DEF ParentsArePreserved
<1>8. ForkKeepsBoth'
  <2> SUFFICES ASSUME NEW g \in DOMAIN gens', NEW p \in gens'[g].parents, NEW q \in gens'[g].parents,
                      NEW k \in Preserving,
                      gens'[p].snap.live[k] # None, gens'[q].snap.live[k] # None,
                      gens'[p].snap.live[k].val # gens'[q].snap.live[k].val,
                      \A h \in gens'[g].parents : gens'[h].snap.tomb[k] = None
               PROVE  /\ Recorded(g, k, gens[p].snap.live[k].val)'
                      /\ Recorded(g, k, gens[q].snap.live[k].val)'
    BY DEF ForkKeepsBoth
  <2>1. CASE g = g0
    <3>1. \A h \in op[d].heads : gens'[h] = gens[h]
      BY <1>1, <1>4
    <3>2. /\ Kept(gens[p].snap.live[k].val, op[d].conf, k)
          /\ Kept(gens[q].snap.live[k].val, op[d].conf, k)
      BY <1>1, <1>5, <2>1, <3>1 DEF BothKept
    <3> QED
      BY <1>1, <2>1, <3>1, <3>2 DEF Recorded, Kept
  <2>2. CASE g \in DOMAIN gens
    <3>1. \A h \in gens[g].parents : gens'[h] = gens[h]
      BY <1>1, <1>2, <2>2
    <3>2. gens'[g] = gens[g]
      BY <1>1, <2>2
    <3>3. Recorded(g, k, gens[p].snap.live[k].val) /\ Recorded(g, k, gens[q].snap.live[k].val)
      BY <2>2, <3>1, <3>2 DEF PublicationInv, ForkKeepsBoth
    <3> QED
      BY <3>1, <3>2, <3>3 DEF Recorded
  <2> QED
    BY <1>1, <2>1, <2>2
<1> QED
  BY <1>6, <1>7, <1>8

LEMMA BackToIdle ==
    ASSUME DriveOK', NEW d \in Device, op'[d] = Idle,
           local'[d] \in [Key -> Wrote' \cup {None}], unmarked'[d] \in BOOLEAN,
           sync'[d] \in SyncState,
           Genuine(sync'[d].entities, edits'), sync'[d].tomb[Paper] = None
    PROVE  DeviceOK(d)'
<1>1. DeviceTypes(d)'
  BY IdleIsOK DEF DeviceTypes
<1>2. Knowledge(d)'
  BY IdleIsOK, KeyAssumption DEF Knowledge, Merging, Downloading
<1>3. Reconciled(d)'
  BY IdleIsOK DEF Reconciled, At
<1> QED
  BY <1>1, <1>2, <1>3 DEF DeviceOK

LEMMA ValuesType ==
    ASSUME NEW snap \in Snapshot, NEW es, Genuine(snap.live, es)
    PROVE  /\ ValuesOf(snap) \in [Key -> (1..Len(es)) \cup {None}]
           /\ \A k \in Key : ValuesOf(snap)[k] = IF snap.live[k] = None THEN None ELSE snap.live[k].val
BY DEF ValuesOf, Genuine

LEMMA PublishResultOK ==
    ASSUME DriveOK, DevicesOK, NEW d \in Device, Step(d), VerifyPublication(d) \/ SettleNoOp(d)
    PROVE  DriveOK' /\ DevicesOK' /\ Grows
<1> DEFINE new == [entities |-> op[d].snap.live, baseline |-> ValuesOf(op[d].snap),
                   tomb |-> op[d].snap.tomb, conf |-> op[d].conf,
                   incorporated |-> op[d].heads,
                   dirty |-> SettledDirty(d, op[d].captured),
                   generation |-> sync[d].generation]
<1>1. /\ sync' = [sync EXCEPT ![d] = new]
      /\ op' = [op EXCEPT ![d] = Idle]
      /\ gens' = gens /\ local' = local /\ unmarked' = unmarked /\ edits' = edits /\ exposed' = exposed
  BY DEF VerifyPublication, SettleNoOp, ApplyPublishResult
<1>2. DriveOK' /\ Grows /\ Wrote' = Wrote
  BY <1>1, DriveStays DEF DriveOK
<1>3. DeviceOK(d) /\ op[d] \in Operation /\ sync[d] \in SyncState
  BY DEF DevicesOK
<1>4. /\ op[d].snap \in Snapshot /\ op[d].conf \in SUBSET Conflict /\ op[d].heads \in SUBSET Nat
      /\ sync[d].dirty \in BOOLEAN /\ sync[d].generation \in Nat
  BY <1>3 DEF Operation, SyncState
<1>5. Genuine(op[d].snap.live, edits) /\ Undeleted(op[d].snap)
  BY <1>3 DEF DeviceOK, Knowledge
<1>6. ValuesOf(op[d].snap) \in [Key -> Nat \cup {None}]
  <2>1. ValuesOf(op[d].snap) \in [Key -> (1..Len(edits)) \cup {None}]
    BY <1>4, <1>5, ValuesType
  <2> QED
    BY <2>1
<1>7. new \in SyncState
  <2>1. op[d].snap.live \in [Key -> Version \cup {None}] /\ op[d].snap.tomb \in [Key -> Tombstone \cup {None}]
    BY <1>4 DEF Snapshot
  <2>2. SettledDirty(d, op[d].captured) \in BOOLEAN
    BY DEF SettledDirty
  <2> QED
    BY <1>4, <1>6, <2>1, <2>2 DEF SyncState
<1>8. new.entities = op[d].snap.live /\ new.tomb = op[d].snap.tomb
  OBVIOUS
<1> HIDE DEF new
<1>9. sync'[d] = new /\ op'[d] = Idle
  BY <1>1 DEF DevicesOK
<1>10. sync' \in [Device -> SyncState] /\ op' \in [Device -> Operation]
  BY <1>1, <1>7, IdleIsOK DEF DevicesOK
<1>11. DeviceOK(d)'
  BY <1>1, <1>2, <1>3, <1>5, <1>7, <1>8, <1>9, BackToIdle DEF DeviceOK, DeviceTypes, Undeleted
<1>12. DevicesOK'
  BY <1>1, <1>2, <1>10, <1>11, DevicesStep DEF DevicesOK
<1> QED
  BY <1>2, <1>12

LEMMA FirstUnmarkedIs ==
    ASSUME DriveOK, NEW d \in Device,
           EventOfLastEdit(d)
    PROVE  /\ FirstUnmarked(d) \in Nat /\ FirstUnmarked(d) <= Len(edits) + 1
           /\ unmarked[d] => /\ FirstUnmarked(d) \in EditsOf(d)
                             /\ \A m \in EditsOf(d) : m <= FirstUnmarked(d)
<1>1. DOMAIN edits = 1..Len(edits) /\ Len(edits) \in Nat
  BY DEF DriveOK
<1>2. CASE unmarked[d]
  <2>1. FirstUnmarked(d) = CHOOSE n \in EditsOf(d) : \A m \in EditsOf(d) : m <= n
    BY <1>2 DEF FirstUnmarked
  <2>2. FirstUnmarked(d) \in EditsOf(d) /\ \A m \in EditsOf(d) : m <= FirstUnmarked(d)
    BY <1>2, <2>1 DEF EventOfLastEdit
  <2>3. FirstUnmarked(d) \in 1..Len(edits)
    BY <1>1, <2>2 DEF EditsOf
  <2> QED
    BY <1>1, <2>2, <2>3
<1>3. CASE ~unmarked[d]
  BY <1>1, <1>3 DEF FirstUnmarked
<1> QED
  BY <1>2, <1>3

\* What Download leaves to be applied.
LEMMA DownloadIs ==
    ASSUME DriveOK, DevicesOK, NEW d \in Device, Download(d)
    PROVE  LET own == Package(d)
               remote == FoldIn(Heads, gens)
               changed == sync[d].dirty /\ Present(d)
           IN  /\ op[d].step = "idle" /\ Heads # {} /\ Heads \in SUBSET DOMAIN gens
               /\ op'[d].step = "apply" /\ op'[d].heads = Heads /\ op'[d].merged = changed
               /\ op'[d].captured = sync[d].generation /\ op'[d].before = sync[d]
               /\ op'[d].since = FirstUnmarked(d) /\ op'[d].old = Idle.old
               /\ changed => /\ op'[d].snap = MergeSnapshots(own, remote.snap)
                             /\ op'[d].conf = remote.conf \cup Conflicts(own, remote.snap, sync[d].baseline)
               /\ ~changed => op'[d].snap = remote.snap /\ op'[d].conf = remote.conf
<1> DEFINE own == Package(d)
           remote == FoldOf(Heads)
           changed == sync[d].dirty /\ Present(d)
           snap == IF changed THEN MergeSnapshots(own, remote.snap) ELSE remote.snap
           conf == IF changed THEN remote.conf \cup Conflicts(own, remote.snap, sync[d].baseline)
                   ELSE remote.conf
<1>1. /\ op[d].step = "idle" /\ Heads # {}
      /\ op' = [op EXCEPT ![d] =
                   [Idle EXCEPT !.step = "apply", !.heads = Heads, !.merged = changed,
                                !.snap = snap, !.conf = conf, !.captured = sync[d].generation,
                                !.before = sync[d], !.since = FirstUnmarked(d)]]
  BY DEF Download, At
<1>2. remote = FoldIn(Heads, gens) /\ Heads \in SUBSET DOMAIN gens
  BY HeadsAre
<1>3. /\ changed => /\ snap = MergeSnapshots(own, remote.snap)
                    /\ conf = remote.conf \cup Conflicts(own, remote.snap, sync[d].baseline)
      /\ ~changed => snap = remote.snap /\ conf = remote.conf
  OBVIOUS
<1> HIDE DEF snap, conf, changed, own, remote
<1>4. op'[d] = [Idle EXCEPT !.step = "apply", !.heads = Heads, !.merged = changed,
                            !.snap = snap, !.conf = conf, !.captured = sync[d].generation,
                            !.before = sync[d], !.since = FirstUnmarked(d)]
  BY <1>1 DEF DevicesOK
<1>5. /\ op'[d].step = "apply" /\ op'[d].heads = Heads /\ op'[d].merged = changed
      /\ op'[d].snap = snap /\ op'[d].conf = conf /\ op'[d].captured = sync[d].generation
      /\ op'[d].before = sync[d] /\ op'[d].since = FirstUnmarked(d) /\ op'[d].old = Idle.old
  BY <1>4 DEF Idle
<1> QED
  BY <1>1, <1>2, <1>3, <1>5 DEF own, remote, changed

LEMMA DownloadOK ==
    ASSUME DriveOK, DevicesOK, NEW d \in Device, Step(d), Download(d),
           EventOfLastEdit(d)
    PROVE  DriveOK' /\ DevicesOK' /\ Grows
<1> DEFINE own == Package(d)
           remote == FoldIn(Heads, gens)
           changed == sync[d].dirty /\ Present(d)
<1>1. /\ op[d].step = "idle" /\ Heads # {} /\ Heads \in SUBSET DOMAIN gens
      /\ op'[d].step = "apply" /\ op'[d].heads = Heads /\ op'[d].merged = changed
      /\ op'[d].captured = sync[d].generation /\ op'[d].before = sync[d]
      /\ op'[d].since = FirstUnmarked(d) /\ op'[d].old = Idle.old
      /\ changed => /\ op'[d].snap = MergeSnapshots(own, remote.snap)
                    /\ op'[d].conf = remote.conf \cup Conflicts(own, remote.snap, sync[d].baseline)
      /\ ~changed => op'[d].snap = remote.snap /\ op'[d].conf = remote.conf
  BY DownloadIs
<1>2. gens' = gens /\ local' = local /\ unmarked' = unmarked /\ sync' = sync /\ edits' = edits /\ exposed' = exposed
  BY DEF Download
<1>3. DriveOK' /\ Grows /\ Wrote' = Wrote
  BY <1>2, DriveStays DEF DriveOK
<1>4. DeviceOK(d) /\ op[d] \in Operation /\ sync[d] \in SyncState
  BY DEF DevicesOK
<1>5. /\ remote.snap \in Snapshot /\ remote.conf \in SUBSET Conflict
      /\ Undeleted(remote.snap) /\ remote.snap.live[Paper] # None /\ Genuine(remote.snap.live, edits)
  BY <1>1, RemoteFold
<1>6. changed => own \in Snapshot /\ Undeleted(own) /\ own.live[Paper] # None /\ Genuine(own.live, edits)
  BY <1>4, PackageIs DEF DeviceOK
<1>7. /\ op'[d].snap \in Snapshot /\ Undeleted(op'[d].snap) /\ op'[d].snap.live[Paper] # None
      /\ Genuine(op'[d].snap.live, edits)
  BY <1>1, <1>5, <1>6, MergeLives
<1>8. op'[d].conf \in SUBSET Conflict
  <2>1. changed => Conflicts(own, remote.snap, sync[d].baseline) \in SUBSET Conflict
    BY <1>5, <1>6, ConflictTypes
  <2> HIDE DEF own, remote, changed
  <2> QED
    BY <1>1, <1>5, <2>1
<1>9. FirstUnmarked(d) \in Nat
  BY FirstUnmarkedIs
<1>10. changed \in BOOLEAN /\ sync[d].generation \in Nat /\ Heads \in SUBSET Nat
  BY <1>4, HeadsAre DEF SyncState
<1> HIDE DEF own, remote, changed
<1>11. op'[d] \in Operation
  <2> DEFINE o == [Idle EXCEPT !.step = "apply", !.heads = Heads, !.merged = changed,
                               !.snap = op'[d].snap, !.conf = op'[d].conf,
                               !.captured = sync[d].generation,
                               !.before = sync[d], !.since = FirstUnmarked(d)]
  <2>1. op'[d] = o
    <3>1. PICK x, y, z : op' = [op EXCEPT ![d] = [Idle EXCEPT !.step = "apply", !.heads = Heads, !.merged = z,
                               !.snap = x, !.conf = y, !.captured = sync[d].generation,
                               !.before = sync[d], !.since = FirstUnmarked(d)]]
      BY DEF Download
    <3>2. op'[d] = [Idle EXCEPT !.step = "apply", !.heads = Heads, !.merged = z,
                               !.snap = x, !.conf = y, !.captured = sync[d].generation,
                               !.before = sync[d], !.since = FirstUnmarked(d)]
      BY <3>1 DEF DevicesOK
    <3>3. op'[d].snap = x /\ op'[d].conf = y /\ op'[d].merged = z
      BY <3>2 DEF Idle
    <3> QED
      BY <1>1, <3>2, <3>3
  <2>2. "apply" \in Steps
    BY DEF Steps
  <2>3. o \in Operation
    BY <1>4, <1>7, <1>8, <1>9, <1>10, <2>2, IdleIsOK DEF Operation
  <2> QED
    BY <2>1, <2>3
<1>12. op' \in [Device -> Operation]
  <2>1. \E o : op' = [op EXCEPT ![d] = o]
    BY DEF Download
  <2> QED
    BY <1>11, <2>1 DEF DevicesOK
<1>13. DeviceOK(d)'
  <2>1. DeviceTypes(d)'
    BY <1>1, <1>2, <1>3, <1>4, <1>11, IdleIsOK DEF DeviceOK, DeviceTypes
  <2>2. Knowledge(d)'
    BY <1>1, <1>2, <1>4, <1>7 DEF DeviceOK, Knowledge, Merging, Downloading
  <2>3. Reconciled(d)'
    BY <1>1 DEF Reconciled, At
  <2> QED
    BY <2>1, <2>2, <2>3 DEF DeviceOK
<1>14. DevicesOK'
  BY <1>2, <1>3, <1>12, <1>13, DevicesStep DEF DevicesOK
<1> QED
  BY <1>3, <1>14

LEMMA ApplyDownloadOK ==
    ASSUME DriveOK, DevicesOK, NEW d \in Device, Step(d), ApplyDownload(d)
    PROVE  /\ DriveOK' /\ DevicesOK' /\ Grows
           /\ op[d].step = "apply" /\ op'[d] = [op[d] EXCEPT !.step = "settle", !.old = local[d]]
           /\ local'[d] = ValuesOf(op[d].snap)
           /\ exposed' = exposed \cup EditsSinceMerge(d)
           /\ gens' = gens /\ edits' = edits /\ unmarked' = unmarked /\ sync' = sync
<1>1. /\ local' = [local EXCEPT ![d] = ValuesOf(op[d].snap)]
      /\ op' = [op EXCEPT ![d].step = "settle", ![d].old = local[d]]
      /\ op[d].step = "apply" /\ exposed' = exposed \cup EditsSinceMerge(d)
      /\ gens' = gens /\ edits' = edits /\ unmarked' = unmarked /\ sync' = sync
  BY DEF ApplyDownload, At
<1>2. EditsSinceMerge(d) \subseteq Wrote
  BY DEF EditsSinceMerge, EditsOf, Wrote, DriveOK
<1>3. DriveOK' /\ Grows /\ Wrote' = Wrote
  BY <1>1, <1>2, DriveStays DEF DriveOK
<1>4. DeviceOK(d) /\ op[d] \in Operation
  BY DEF DevicesOK
<1>5. /\ op[d].snap \in Snapshot /\ Genuine(op[d].snap.live, edits) /\ op[d].snap.live[Paper] # None
  BY <1>1, <1>4 DEF Operation, DeviceOK, Knowledge, Downloading
<1>6. local[d] \in [Key -> Wrote \cup {None}] /\ Wrote \subseteq Nat
  BY <1>4 DEF DeviceOK, DeviceTypes, Wrote
<1>7. /\ ValuesOf(op[d].snap) \in [Key -> Wrote \cup {None}]
      /\ ValuesOf(op[d].snap)[Paper] = op[d].snap.live[Paper].val
      /\ op[d].snap.live[Paper].val # None
  <2>1. op[d].snap.live[Paper].val \in Nat
    BY <1>5, KeyAssumption DEF Genuine
  <2> QED
    BY <1>5, <2>1, ValuesType, KeyAssumption, NoneIsNoEntity DEF Wrote
<1>8. /\ local'[d] = ValuesOf(op[d].snap)
      /\ op'[d] = [op[d] EXCEPT !.step = "settle", !.old = local[d]]
  BY <1>1 DEF DevicesOK
<1>9. /\ op'[d] \in Operation /\ op'[d].step = "settle" /\ op'[d].old = local[d]
      /\ op'[d].snap = op[d].snap /\ op'[d].heads = op[d].heads /\ op'[d].before = op[d].before
  <2>1. "settle" \in Steps /\ local[d] \in [Key -> Nat \cup {None}]
    BY <1>6 DEF Steps
  <2> QED
    BY <1>4, <1>8, <2>1 DEF Operation
<1>10. local' \in [Device -> [Key -> Nat \cup {None}]] /\ op' \in [Device -> Operation]
  <2>1. ValuesOf(op[d].snap) \in [Key -> Nat \cup {None}]
    BY <1>6, <1>7
  <2> QED
    BY <1>1, <1>9, <2>1 DEF DevicesOK
<1>11. DeviceOK(d)'
  <2>1. DeviceTypes(d)'
    BY <1>1, <1>3, <1>4, <1>6, <1>7, <1>8, <1>9 DEF DeviceOK, DeviceTypes
  <2>2. Knowledge(d)'
    BY <1>1, <1>4, <1>5, <1>7, <1>8, <1>9 DEF DeviceOK, Knowledge, Merging, Downloading
  <2>3. Reconciled(d)'
    BY <1>9 DEF Reconciled, At
  <2> QED
    BY <2>1, <2>2, <2>3 DEF DeviceOK
<1>12. DevicesOK'
  BY <1>1, <1>3, <1>10, <1>11, DevicesStep DEF DevicesOK
<1> QED
  BY <1>1, <1>3, <1>8, <1>12

LEMMA SettleDownloadOK ==
    ASSUME DriveOK, DevicesOK, NEW d \in Device, Step(d), SettleDownload(d)
    PROVE  /\ DriveOK' /\ DevicesOK' /\ Grows
           /\ op[d].step = "settle" /\ op'[d] = Idle /\ local' = local /\ unmarked' = unmarked
           /\ gens' = gens /\ edits' = edits
           /\ sync'[d].baseline = ValuesOf(FoldIn(op[d].heads, gens).snap)
           /\ sync'[d].conf = op[d].conf
           /\ sync'[d].dirty = IF op[d].merged THEN sync[d].dirty ELSE SettledDirty(d, op[d].captured)
<1> DEFINE new == [entities |-> op[d].snap.live,
                   baseline |-> ValuesOf(FoldIn(op[d].heads, gens).snap),
                   tomb |-> op[d].snap.tomb, conf |-> op[d].conf,
                   incorporated |-> op[d].heads,
                   dirty |-> IF op[d].merged THEN sync[d].dirty
                             ELSE SettledDirty(d, op[d].captured),
                   generation |-> sync[d].generation]
<1>1. /\ sync' = [sync EXCEPT ![d] = new]
      /\ op' = [op EXCEPT ![d] = Idle] /\ op[d].step = "settle"
      /\ gens' = gens /\ local' = local /\ unmarked' = unmarked /\ edits' = edits
      /\ exposed \subseteq exposed'
  BY DEF SettleDownload, At, FoldOf, FoldIn
<1>2. exposed' \subseteq Wrote
  BY DEF SettleDownload, EditsOf, DriveOK, Wrote
<1>3. DriveOK' /\ Grows /\ Wrote' = Wrote
  BY <1>1, <1>2, DriveStays
<1>4. DeviceOK(d) /\ op[d] \in Operation /\ sync[d] \in SyncState
  BY DEF DevicesOK
<1>5. /\ op[d].snap \in Snapshot /\ op[d].conf \in SUBSET Conflict /\ op[d].heads \in SUBSET Nat
      /\ sync[d].dirty \in BOOLEAN /\ sync[d].generation \in Nat /\ op[d].merged \in BOOLEAN
  BY <1>4 DEF Operation, SyncState
<1>6. /\ Genuine(op[d].snap.live, edits) /\ Undeleted(op[d].snap)
      /\ op[d].heads \in SUBSET DOMAIN gens /\ op[d].heads # {}
  BY <1>1, <1>4 DEF DeviceOK, Knowledge, Downloading
<1>7. ValuesOf(FoldIn(op[d].heads, gens).snap) \in [Key -> Nat \cup {None}]
  <2>1. ValuesOf(FoldIn(op[d].heads, gens).snap) \in [Key -> (1..Len(edits)) \cup {None}]
    BY <1>6, RemoteFold, ValuesType
  <2> QED
    BY <2>1
<1>8. new \in SyncState
  <2>1. op[d].snap.live \in [Key -> Version \cup {None}] /\ op[d].snap.tomb \in [Key -> Tombstone \cup {None}]
    BY <1>5 DEF Snapshot
  <2>2. (IF op[d].merged THEN sync[d].dirty ELSE SettledDirty(d, op[d].captured)) \in BOOLEAN
    BY <1>5 DEF SettledDirty
  <2> QED
    BY <1>5, <1>7, <2>1, <2>2 DEF SyncState
<1>9. /\ new.entities = op[d].snap.live /\ new.tomb = op[d].snap.tomb /\ new.conf = op[d].conf
      /\ new.baseline = ValuesOf(FoldIn(op[d].heads, gens).snap)
      /\ new.dirty = IF op[d].merged THEN sync[d].dirty ELSE SettledDirty(d, op[d].captured)
  OBVIOUS
<1> HIDE DEF new
<1>10. sync'[d] = new /\ op'[d] = Idle
  BY <1>1 DEF DevicesOK
<1>11. sync' \in [Device -> SyncState] /\ op' \in [Device -> Operation]
  BY <1>1, <1>8, IdleIsOK DEF DevicesOK
<1>12. DeviceOK(d)'
  BY <1>1, <1>3, <1>4, <1>6, <1>8, <1>9, <1>10, BackToIdle DEF DeviceOK, DeviceTypes, Undeleted
<1>13. DevicesOK'
  BY <1>1, <1>3, <1>11, <1>12, DevicesStep DEF DevicesOK
<1> QED
  BY <1>1, <1>3, <1>9, <1>10, <1>13

LEMMA RollbackOK ==
    ASSUME DriveOK, DevicesOK, NEW d \in Device, Step(d),
           RollbackApplication(d) \/ RollbackSettlement(d)
    PROVE  /\ DriveOK' /\ DevicesOK' /\ Grows
           /\ op[d].step = "settle" /\ op'[d] = Idle /\ local'[d] = op[d].old
           /\ sync'[d] = sync[d] \/ sync'[d] = op[d].before
           /\ exposed' = exposed \cup EditsSinceMerge(d)
           /\ gens' = gens /\ edits' = edits /\ unmarked' = unmarked
<1>1. /\ op' = [op EXCEPT ![d] = Idle] /\ op[d].step = "settle"
      /\ local' = [local EXCEPT ![d] = op[d].old]
      /\ gens' = gens /\ unmarked' = unmarked /\ edits' = edits
      /\ exposed' = exposed \cup EditsSinceMerge(d)
      /\ sync' = sync \/ sync' = [sync EXCEPT ![d] = op[d].before]
  BY DEF RollbackApplication, RollbackSettlement, At
<1>2. EditsSinceMerge(d) \subseteq Wrote
  BY DEF EditsSinceMerge, EditsOf, Wrote, DriveOK
<1>3. DriveOK' /\ Grows /\ Wrote' = Wrote
  BY <1>1, <1>2, DriveStays DEF DriveOK
<1>4. DeviceOK(d) /\ op[d] \in Operation /\ sync[d] \in SyncState
  BY DEF DevicesOK
<1>5. op[d].before \in SyncState /\ op[d].old \in [Key -> Nat \cup {None}]
  BY <1>4 DEF Operation
<1>6. /\ op'[d] = Idle /\ local'[d] = op[d].old
      /\ sync'[d] = sync[d] \/ sync'[d] = op[d].before
  BY <1>1 DEF DevicesOK
<1>7. /\ local' \in [Device -> [Key -> Nat \cup {None}]]
      /\ sync' \in [Device -> SyncState] /\ op' \in [Device -> Operation]
  BY <1>1, <1>5, IdleIsOK DEF DevicesOK
<1>8. DeviceOK(d)'
  <2>1. /\ Genuine(sync'[d].entities, edits') /\ sync'[d].tomb[Paper] = None
        /\ sync'[d] \in SyncState
    BY <1>1, <1>4, <1>5, <1>6 DEF DeviceOK, Knowledge
  <2> QED
    BY <1>1, <1>3, <1>4, <1>6, <2>1, BackToIdle DEF DeviceOK, DeviceTypes
<1>9. DevicesOK'
  BY <1>1, <1>3, <1>7, <1>8, DevicesStep DEF DevicesOK
<1> QED
  BY <1>1, <1>3, <1>6, <1>9

LEMMA AbandonOK ==
    ASSUME DriveOK, DevicesOK, NEW d \in Device, Step(d), Fail(d) \/ ClosePage(d)
    PROVE  DriveOK' /\ DevicesOK' /\ Grows
<1>1. /\ op' = [op EXCEPT ![d] = Idle]
      /\ gens' = gens /\ sync' = sync /\ local' = local /\ edits' = edits
      /\ unmarked' = unmarked \/ unmarked' = [unmarked EXCEPT ![d] = FALSE]
      /\ exposed \subseteq exposed'
  BY DEF Fail, ClosePage
<1>2. exposed' \subseteq Wrote
  <2>1. EditsOf(d) \subseteq Wrote /\ exposed \subseteq Wrote
    BY DEF EditsOf, DriveOK, Wrote
  <2>2. CASE Fail(d)
    BY <2>1, <2>2 DEF Fail
  <2>3. CASE ClosePage(d)
    <3>1. \E old : exposed' = exposed \cup {n \in EditsOf(d) : n >= FirstUnmarked(d)}
                                   \cup (IF At(d, "settle") THEN {n \in EditsOf(d) : old[n]} ELSE {})
      <4> WITNESS [n \in EditsOf(d) |-> \E k \in Key : op[d].old[k] = n]
      <4> QED
        BY <2>3 DEF ClosePage
    <3> QED
      BY <2>1, <3>1
  <2> QED
    BY <2>2, <2>3
<1>3. DriveOK' /\ Grows /\ Wrote' = Wrote
  BY <1>1, <1>2, DriveStays
<1>4. DeviceOK(d) /\ op[d] \in Operation /\ sync[d] \in SyncState
  BY DEF DevicesOK
<1>5. op'[d] = Idle /\ unmarked'[d] \in BOOLEAN
  BY <1>1 DEF DevicesOK
<1>6. unmarked' \in [Device -> BOOLEAN] /\ op' \in [Device -> Operation]
  BY <1>1, IdleIsOK DEF DevicesOK
<1>7. DeviceOK(d)'
  BY <1>1, <1>3, <1>4, <1>5, BackToIdle DEF DeviceOK, DeviceTypes, Knowledge
<1>8. DevicesOK'
  BY <1>1, <1>3, <1>6, <1>7, DevicesStep DEF DevicesOK
<1> QED
  BY <1>3, <1>8

--------------------------------------------------------------------------------
(* What is in Drive, whatever the devices did *)

LEMMA EventsFollow ==
    ASSUME DriveOK, DevicesOK, NEW d \in Device, Step(d),
           \A e \in Device : EventOfLastEdit(e)
    PROVE  \A e \in Device : EventOfLastEdit(e)'
<1>1. CASE \E k \in Key : Edit(d, k) \/ Delete(d, k)
  <2>1. PICK k \in Key : Edit(d, k) \/ Delete(d, k)
    BY <1>1
  <2>2. /\ edits' \in Seq(EditOf) /\ Len(edits') = Len(edits) + 1 /\ Grows
        /\ edits'[Len(edits) + 1].dev = d
    BY <2>1, WriteOK
  <2>3. edits \in Seq(EditOf)
    BY DEF DriveOK
  <2>4. /\ DOMAIN edits = 1..Len(edits) /\ DOMAIN edits' = 1..(Len(edits) + 1) /\ Len(edits) \in Nat
        /\ \A n \in 1..Len(edits) : edits'[n] = edits[n]
    BY <2>2, <2>3 DEF Grows, Wrote
  <2>5. EventOfLastEdit(d)'
    <3>1. Len(edits) + 1 \in EditsOf(d)' /\ \A m \in EditsOf(d)' : m <= Len(edits) + 1
      BY <2>2, <2>4 DEF EditsOf
    <3> QED
      BY <3>1 DEF EventOfLastEdit
  <2>6. ASSUME NEW e \in Device \ {d} PROVE EventOfLastEdit(e)'
    <3>1. EditsOf(e)' = EditsOf(e)
      BY <2>2, <2>4 DEF EditsOf
    <3>2. unmarked'[e] = unmarked[e]
      BY OthersStay DEF Same
    <3> QED
      BY <3>1, <3>2 DEF EventOfLastEdit
  <2> QED
    BY <2>5, <2>6
<1>2. CASE ~\E k \in Key : Edit(d, k) \/ Delete(d, k)
  <2>1. edits' = edits /\ (unmarked' = unmarked \/ unmarked' = [unmarked EXCEPT ![d] = FALSE])
    BY <1>2 DEF Step, MarkDirty, BeginUpload, BeginKeepLocal, Reconcile, Publish, VerifyPublication,
       SettleNoOp, ApplyPublishResult, Download, ApplyDownload, SettleDownload,
       RollbackApplication, RollbackSettlement, Fail, ClosePage
  <2>2. \A e \in Device : unmarked'[e] => unmarked[e]
    BY <2>1 DEF DevicesOK
  <2> QED
    BY <2>1, <2>2 DEF EventOfLastEdit, EditsOf
<1> QED
  BY <1>1, <1>2

LEMMA PublicationInit == Init => PublicationInv
<1> SUFFICES ASSUME Init PROVE PublicationInv
  OBVIOUS
<1>1. PICK importer \in Device :
          /\ gens = <<>>
          /\ edits = <<[dev |-> importer, key |-> Paper, deletion |-> FALSE]>>
          /\ local = [d \in Device |-> [k \in Key |-> IF d = importer /\ k = Paper THEN 1 ELSE None]]
          /\ unmarked = [d \in Device |-> d = importer]
          /\ sync = [d \in Device |-> FreshSync]
          /\ op = [d \in Device |-> Idle]
          /\ exposed = {}
  BY DEF Init
<1>2. GensOK /\ DOMAIN gens = {}
  BY <1>1 DEF GensOK
<1>3. /\ edits \in Seq(EditOf) /\ Len(edits) = 1 /\ DOMAIN edits = {1} /\ edits[1].dev = importer
  BY <1>1, KeyAssumption DEF EditOf
<1>4. Wrote = {1}
  BY <1>3 DEF Wrote
<1>5. DriveOK
  BY <1>1, <1>2, <1>3 DEF DriveOK
<1>6. ASSUME NEW d \in Device PROVE DeviceOK(d) /\ EventOfLastEdit(d)
  <2>1. local[d] \in [Key -> Wrote \cup {None}]
    BY <1>1, <1>4
  <2>2. sync[d] = FreshSync /\ op[d] = Idle /\ unmarked[d] = (d = importer)
    BY <1>1
  <2>3. DeviceTypes(d)
    BY <2>1, <2>2, IdleIsOK DEF DeviceTypes
  <2>4. Knowledge(d)
    BY <2>2, IdleIsOK, KeyAssumption DEF Knowledge, Merging, Downloading, FreshSync, Genuine
  <2>5. Reconciled(d)
    BY <2>2, IdleIsOK DEF Reconciled, At
  <2>6. EventOfLastEdit(d)
    <3>1. \A m \in DOMAIN edits : m = 1
      BY <1>3
    <3>2. d = importer => 1 \in EditsOf(d)
      BY <1>3 DEF EditsOf
    <3>3. \A m \in EditsOf(d) : m <= 1
      BY <3>1 DEF EditsOf
    <3> QED
      BY <2>2, <3>2, <3>3 DEF EventOfLastEdit
  <2> QED
    BY <2>3, <2>4, <2>5, <2>6 DEF DeviceOK
<1>7. DevicesOK
  <2>1. local \in [Device -> [Key -> Nat \cup {None}]]
    BY <1>1
  <2> QED
    BY <1>1, <1>6, <2>1, IdleIsOK DEF DevicesOK
<1> QED
  BY <1>2, <1>5, <1>6, <1>7 DEF PublicationInv, PublishedNeverRegresses, ForkKeepsBoth, ParentsArePreserved

LEMMA StepOK ==
    ASSUME DriveOK, DevicesOK, NEW d \in Device, Step(d), EventOfLastEdit(d)
    PROVE  DriveOK' /\ DevicesOK' /\ Grows
<1>1. CASE \E k \in Key : Edit(d, k) \/ Delete(d, k)
  BY <1>1, WriteOK
<1>2. CASE MarkDirty(d)
  BY <1>2, MarkDirtyOK
<1>3. CASE BeginUpload(d) \/ BeginKeepLocal(d)
  BY <1>3, BeginOK
<1>4. CASE Reconcile(d)
  BY <1>4, ReconcileOK
<1>5. CASE Publish(d)
  BY <1>5, PublishOK
<1>6. CASE VerifyPublication(d) \/ SettleNoOp(d)
  BY <1>6, PublishResultOK
<1>7. CASE Download(d)
  BY <1>7, DownloadOK
<1>8. CASE ApplyDownload(d)
  BY <1>8, ApplyDownloadOK
<1>9. CASE SettleDownload(d)
  BY <1>9, SettleDownloadOK
<1>10. CASE RollbackApplication(d) \/ RollbackSettlement(d)
  BY <1>10, RollbackOK
<1>11. CASE Fail(d) \/ ClosePage(d)
  BY <1>11, AbandonOK
<1> QED
  BY <1>1, <1>2, <1>3, <1>4, <1>5, <1>6, <1>7, <1>8, <1>9, <1>10, <1>11 DEF Step

LEMMA PublicationStep == PublicationInv /\ [Next]_vars => PublicationInv'
<1> SUFFICES ASSUME PublicationInv, [Next]_vars PROVE PublicationInv'
  OBVIOUS
<1>1. CASE UNCHANGED vars
  BY <1>1 DEF vars, PublicationInv, DriveOK, GensOK, Wrote, DevicesOK, DeviceOK, DeviceTypes,
     Knowledge, Reconciled, At, EventOfLastEdit, EditsOf, PublishedNeverRegresses, ForkKeepsBoth,
     ParentsArePreserved, Recorded
<1>2. ASSUME NEW d \in Device, Step(d) PROVE PublicationInv'
  <2>1. DriveOK /\ DevicesOK /\ EventOfLastEdit(d)
    BY DEF PublicationInv
  <2>2. DriveOK' /\ DevicesOK'
    BY <1>2, <2>1, StepOK
  <2>3. PublishedNeverRegresses' /\ ForkKeepsBoth' /\ ParentsArePreserved'
    <3>1. CASE Publish(d)
      BY <1>2, <2>2, <3>1, PublicationsKeep
    <3>2. CASE ~Publish(d)
      <4>1. gens' = gens
        BY <1>2, <3>2 DEF Step, Edit, Delete, Write, MarkDirty, BeginUpload, BeginKeepLocal, Reconcile,
           VerifyPublication, SettleNoOp, ApplyPublishResult, Download, ApplyDownload, SettleDownload,
           RollbackApplication, RollbackSettlement, Fail, ClosePage
      <4> QED
        BY <4>1 DEF PublicationInv, PublishedNeverRegresses, ForkKeepsBoth, ParentsArePreserved, Recorded
    <3> QED
      BY <3>1, <3>2
  <2> QED
    BY <1>2, <2>1, <2>2, <2>3, EventsFollow DEF PublicationInv
<1> QED
  BY <1>1, <1>2 DEF Next

\* Whatever the devices do, and however many there are: what is in Drive is what the
\* three properties below need of it.
LEMMA PublicationInvariant == Spec => []PublicationInv
<1>1. Init => PublicationInv
  BY PublicationInit
<1>2. PublicationInv /\ [Next]_vars => PublicationInv'
  BY PublicationStep
<1> QED
  BY <1>1, <1>2, PTL DEF Spec

\* No upload brings back what a generation it was reconciled with had superseded, on
\* any number of devices with any clocks, with edits and losses in between.
THEOREM UploadsNeverRegress == Spec => []PublishedNeverRegresses
<1>1. PublicationInv => PublishedNeverRegresses
  BY DEF PublicationInv
<1> QED
  BY <1>1, PublicationInvariant, PTL

\* A generation that joins heads holds both of two values of a note, or a deletion of it.
THEOREM JoinsKeepBoth == Spec => []ForkKeepsBoth
<1>1. PublicationInv => ForkKeepsBoth
  BY DEF PublicationInv
<1> QED
  BY <1>1, PublicationInvariant, PTL

\* No generation lacks a conflict of its parents, those of "keep local" included.
THEOREM ConflictsAreInherited == Spec => []ParentsArePreserved
<1>1. PublicationInv => ParentsArePreserved
  BY DEF PublicationInv
<1> QED
  BY <1>1, PublicationInvariant, PTL

\* Any heads a device of PaperSync can leave in Drive fold as they should.
THEOREM HeadsOfDevicesFold == Spec => [](FoldIgnoresOrder /\ FoldIsConsistent /\ FoldLosesNoValue)
<1>1. PublicationInv => FoldIgnoresOrder /\ FoldIsConsistent /\ FoldLosesNoValue
  BY IgnoresOrder, IsConsistent, LosesNoValue DEF PublicationInv, DriveOK
<1> QED
  BY <1>1, PublicationInvariant, PTL

LEMMA AnyHeadsAreOK == HeadsSpec => []GensOK
<1>1. HeadsInit => GensOK
  BY DEF HeadsInit, GensOK
<1>2. GensOK /\ [PublishHead]_vars => GensOK'
  <2> SUFFICES ASSUME GensOK, [PublishHead]_vars PROVE GensOK'
    OBVIOUS
  <2>1. CASE UNCHANGED vars
    BY <2>1 DEF vars, GensOK
  <2>2. CASE PublishHead
    <3>1. PICK s \in Published :
              gens' = Append(gens, [snap |-> s, conf |-> {}, parents |-> {},
                                    kind |-> "upload", by |-> 1])
      BY <2>2 DEF PublishHead
    <3> DEFINE new == [snap |-> s, conf |-> {}, parents |-> {}, kind |-> "upload", by |-> 1]
    <3>2. s \in Snapshot
      <4>1. /\ (UNION {Versions(k) : k \in Key}) \subseteq Version
            /\ (UNION {Tombstones(k) : k \in Key}) \subseteq Tombstone
        BY HeadAssumption
      <4>2. s \in Snapshots
        BY DEF Published
      <4> QED
        BY <4>1, <4>2 DEF Snapshots, Snapshot
    <3>3. Publishable(s) /\ Consistent(s)
      BY DEF Published
    <3>4. new \in Gen
      BY <3>2 DEF Gen, Kinds
    <3>5. new.snap = s /\ new.parents = {}
      OBVIOUS
    <3>6. gens' = Append(gens, new) /\ gens \in Seq(Gen)
      BY <3>1 DEF GensOK
    <3> HIDE DEF new
    <3>7. /\ gens' \in Seq(Gen) /\ DOMAIN gens' = DOMAIN gens \cup {Len(gens) + 1}
          /\ \A g \in DOMAIN gens : gens'[g] = gens[g]
          /\ gens'[Len(gens) + 1] = new
      BY <3>4, <3>6
    <3> QED
      BY <3>3, <3>5, <3>7 DEF GensOK
  <2> QED
    BY <2>1, <2>2
<1> QED
  BY <1>1, <1>2, PTL DEF HeadsSpec

\* Two devices that reconcile the same heads publish the same, in whatever order they
\* fold them, while no head deletes the paper.
THEOREM FoldsAgree == HeadsSpec => []FoldIgnoresOrder
<1>1. GensOK => FoldIgnoresOrder
  BY IgnoresOrder
<1> QED
  BY <1>1, AnyHeadsAreOK, PTL

\* However many heads there are, their fold deletes what they deleted, and it is refused
\* only where one of them deleted what another one holds.
THEOREM FoldsAreConsistent == HeadsSpec => []FoldIsConsistent
<1>1. GensOK => FoldIsConsistent
  BY IsConsistent
<1> QED
  BY <1>1, AnyHeadsAreOK, PTL

\* However many heads there are, a value of a note none of them deleted is in their
\* fold or among its conflicts.
THEOREM FoldsLoseNoValue == HeadsSpec => []FoldLosesNoValue
<1>1. GensOK => FoldLosesNoValue
  BY LosesNoValue
<1> QED
  BY <1>1, AnyHeadsAreOK, PTL

--------------------------------------------------------------------------------
(* No edit is lost: the invariant *)

\* What a device puts back if the application of a download fails.
Copy(d) == IF At(d, "settle") THEN op[d].old ELSE local[d]

\* The edit of a note a device did not replace itself and has to hold on to.
Owed(d, k) == {n \in EditsOf(d) \ exposed :
                  /\ edits[n].key = k /\ ~edits[n].deletion
                  /\ \A m \in EditsOf(d) : edits[m].key = k => m <= n}

Holds(snap, k, n) == snap.live[k] # None /\ snap.live[k].val = n

\* The edit reached Drive, or what is there took its place.
Arrived(k, n) == \E g \in DOMAIN gens :
    \/ Holds(gens[g].snap, k, n) \/ Kept(n, gens[g].conf, k)
    \/ gens[g].snap.tomb[k] # None
    \/ Republished(g, k, n)

\* Its change event is not handled yet.
Fresh(d, k, n) == unmarked[d] /\ local[d][k] = n /\ \A m \in EditsOf(d) : m <= n

\* All a snapshot may say of the key is from before the edit.
Before(live, k, n) == live[k] # None => live[k].val < n

Held(d, k, n) ==
    \/ Arrived(k, n)
    \/ Fresh(d, k, n)
    \/ sync[d].dirty /\ (\/ local[d][k] = n
                         \/ Kept(n, sync[d].conf, k)
                         \/ At(d, "settle") /\ Kept(n, op[d].conf, k))

\* A device that put its edit back over a later baseline has seen both.
BaselineBefore(d, k, n) ==
    (Copy(d)[k] = n /\ sync[d].baseline[k] # None /\ sync[d].baseline[k] > n)
        => Arrived(k, n) \/ Kept(n, sync[d].conf, k)

\* A publication has the edit, or the edit came after it.
Uploaded(d, k, n) ==
    (op[d].step \in Merging /\ local[d][k] = n) =>
        \/ Arrived(k, n) \/ Holds(op[d].snap, k, n) \/ Kept(n, op[d].conf, k)
        \/ /\ Before(op[d].snap.live, k, n)
           /\ Fresh(d, k, n) \/ sync[d].generation # op[d].captured

RemoteIn(d) == FoldIn(op[d].heads, gens).snap

\* An edit of before a download is in the copy that would be put back, and what replaces
\* the copy has it as well.
Downloaded(d, k, n) ==
    (op[d].step \in Downloading /\ n < op[d].since) =>
        /\ \/ Arrived(k, n)
           \/ /\ op[d].before.dirty /\ op[d].merged
              /\ Copy(d)[k] = n \/ Kept(n, sync[d].conf, k)
        /\ local[d][k] = n =>
               \/ Arrived(k, n) \/ Holds(op[d].snap, k, n)
               \/ At(d, "apply") /\ (Kept(n, op[d].conf, k) \/ Kept(n, sync[d].conf, k))
        /\ Holds(op[d].snap, k, n) =>
               /\ Arrived(k, n) \/ Copy(d)[k] = n
               /\ (RemoteIn(d).live[k] # None /\ RemoteIn(d).live[k].val > n) =>
                      Arrived(k, n) \/ Kept(n, op[d].conf, k) \/ Kept(n, sync[d].conf, k)

\* An edit made while a download is settled stays where it was made, and will be marked.
Meanwhile(d, k, n) ==
    (At(d, "settle") /\ n >= op[d].since) =>
        /\ \/ Arrived(k, n)
           \/ /\ local[d][k] = n
              /\ Fresh(d, k, n) \/ (sync[d].dirty /\ sync[d].generation # op[d].captured)
        /\ Before(RemoteIn(d).live, k, n)
        /\ sync[d].baseline[k] # None => sync[d].baseline[k] < n

Marks(d) ==
    /\ op[d].step # "idle" => op[d].captured <= sync[d].generation
    /\ \A k \in Key : sync[d].baseline[k] # None =>
           \E g \in DOMAIN gens : Holds(gens[g].snap, k, sync[d].baseline[k])
    /\ Copy(d)[Paper] = None => sync[d].conf = {} /\ \A k \in Key : Copy(d)[k] = None
    /\ op[d].step \in Merging => sync[d].conf \subseteq op[d].conf
    /\ op[d].step \in {"verify", "settle-noop"} =>
           \E g \in DOMAIN gens : gens[g].snap = op[d].snap /\ gens[g].conf = op[d].conf
    /\ op[d].step \in Downloading =>
           /\ op[d].since <= Len(edits) + 1
           /\ op[d].before.conf = sync[d].conf /\ op[d].before.baseline = sync[d].baseline
           /\ op[d].before.dirty => sync[d].dirty

KeptEdit(d, k, n) ==
    /\ Held(d, k, n) /\ BaselineBefore(d, k, n) /\ Uploaded(d, k, n)
    /\ Downloaded(d, k, n) /\ Meanwhile(d, k, n)

Keeps(d) == Marks(d) /\ \A k \in Preserving : \A n \in Owed(d, k) : KeptEdit(d, k, n)

KeepInv == PublicationInv /\ \A d \in Device : Keeps(d)

--------------------------------------------------------------------------------
(* What a step leaves alone *)

LEMMA OwedIs ==
    ASSUME DriveOK, NEW d \in Device, NEW k \in Preserving, NEW n \in Owed(d, k)
    PROVE  /\ n \in Wrote /\ n \in Nat /\ k \in Key
           /\ n \in EditsOf(d) /\ n \notin exposed /\ n # None
BY KeyAssumption, NoneIsNoEntity DEF DriveOK, Owed, EditsOf, Wrote

\* No step but an edit adds to what a device owes.
LEMMA OwedShrinks ==
    ASSUME DriveOK, edits' = edits, exposed \subseteq exposed',
           NEW d \in Device, NEW k \in Preserving, NEW n \in Owed(d, k)'
    PROVE  n \in Owed(d, k) /\ n \notin exposed' /\ n \in EditsOf(d)
BY DEF Owed, EditsOf

LEMMA ArrivedStays ==
    ASSUME DriveOK, Grows, NEW k \in Key, NEW n \in Wrote, Arrived(k, n)
    PROVE  Arrived(k, n)'
<1>1. PICK g \in DOMAIN gens : \/ Holds(gens[g].snap, k, n) \/ Kept(n, gens[g].conf, k)
                               \/ gens[g].snap.tomb[k] # None
                               \/ Republished(g, k, n)
  BY DEF Arrived
<1>2. g \in DOMAIN gens' /\ gens'[g] = gens[g] /\ edits'[n] = edits[n]
  BY DEF Grows
<1>3. Republished(g, k, n) => Republished(g, k, n)'
  BY <1>2 DEF Republished, UpdatedAt
<1>4. \/ Holds(gens'[g].snap, k, n) \/ Kept(n, gens'[g].conf, k)
      \/ gens'[g].snap.tomb[k] # None
      \/ Republished(g, k, n)'
  BY <1>1, <1>2, <1>3
<1> QED
  BY <1>2, <1>4 DEF Arrived

LEMMA FoldStays ==
    ASSUME GensOK, Grows, NEW ids \in SUBSET DOMAIN gens
    PROVE  FoldIn(ids, gens') = FoldIn(ids, gens)
<1>1. IsFiniteSet(ids)
  BY FinitelyMany
<1> DEFINE order == SetToSeq(ids)
<1>2. /\ order \in [1..Cardinality(ids) -> ids] /\ Len(order) = Cardinality(ids)
  BY <1>1, SetToSeqIsOrder, OrderOf
<1>3. \A i \in 1..Len(order) : gens'[order[i]] = gens[order[i]]
  BY <1>2 DEF Grows
<1>4. [i \in 1..Len(order) |-> gens'[order[i]]] = [i \in 1..Len(order) |-> gens[order[i]]]
  BY <1>3
<1> QED
  BY <1>4 DEF FoldIn

LEMMA OtherDeviceKeeps ==
    ASSUME DriveOK, DevicesOK, Grows, NEW e \in Device, Same(e), Keeps(e), EditsOf(e)' = EditsOf(e)
    PROVE  Keeps(e)'
<1>1. /\ DeviceOK(e) /\ GensOK /\ Len(edits) <= Len(edits')
      /\ Len(edits) \in Nat /\ Len(edits') \in Nat
      /\ \A m \in EditsOf(e) : m \in Wrote /\ edits'[m] = edits[m]
  BY DEF DevicesOK, DriveOK, Grows, EditsOf, Wrote
<1>2. /\ local'[e] = local[e] /\ unmarked'[e] = unmarked[e] /\ sync'[e] = sync[e] /\ op'[e] = op[e]
      /\ Copy(e)' = Copy(e)
  BY DEF Same, Copy, At
<1>3. op[e].step \in Downloading => RemoteIn(e)' = RemoteIn(e)
  <2>1. op[e].step \in Downloading => op[e].heads \in SUBSET DOMAIN gens
    BY <1>1 DEF DeviceOK, Knowledge
  <2> QED
    BY <1>1, <1>2, <2>1, FoldStays DEF RemoteIn
<1>4. Marks(e)'
  <2>1. \A g \in DOMAIN gens : g \in DOMAIN gens' /\ gens'[g] = gens[g]
    BY DEF Grows
  <2>2. op[e].step \in Downloading => op[e].since \in Nat
    BY DEF DevicesOK, Operation
  <2> QED
    BY <1>1, <1>2, <2>1, <2>2 DEF Keeps, Marks
<1>5. ASSUME NEW k \in Preserving, NEW n \in Owed(e, k)' PROVE KeptEdit(e, k, n)'
  <2>1. n \in Owed(e, k)
    BY <1>1 DEF Owed, Grows
  <2>2. k \in Key /\ n \in Wrote
    BY <2>1, OwedIs
  <2>3. Arrived(k, n) => Arrived(k, n)'
    BY <2>2, ArrivedStays
  <2>4. Fresh(e, k, n)' = Fresh(e, k, n)
    BY <1>2 DEF Fresh
  <2>5. /\ Held(e, k, n) /\ BaselineBefore(e, k, n) /\ Uploaded(e, k, n)
        /\ Downloaded(e, k, n) /\ Meanwhile(e, k, n)
    BY <2>1 DEF Keeps, KeptEdit
  <2>6. Held(e, k, n)'
    BY <1>2, <2>3, <2>4, <2>5 DEF Held, At
  <2>7. BaselineBefore(e, k, n)'
    BY <1>2, <2>3, <2>5 DEF BaselineBefore
  <2>8. Uploaded(e, k, n)'
    BY <1>2, <2>3, <2>4, <2>5 DEF Uploaded
  <2>9. Downloaded(e, k, n)'
    BY <1>2, <1>3, <2>3, <2>5 DEF Downloaded, At
  <2>10. Meanwhile(e, k, n)'
    BY <1>2, <1>3, <2>3, <2>4, <2>5 DEF Meanwhile, At, Downloading
  <2> QED
    BY <2>6, <2>7, <2>8, <2>9, <2>10 DEF KeptEdit
<1> QED
  BY <1>4, <1>5 DEF Keeps

\* A device that is idle after a step only has to hold on to its edits.
LEMMA IdleKeeps ==
    ASSUME NEW d \in Device, op'[d].step \notin Merging \cup Downloading, Marks(d)',
           \A k \in Preserving : \A n \in Owed(d, k)' : Held(d, k, n)' /\ BaselineBefore(d, k, n)'
    PROVE  Keeps(d)'
<1>1. ASSUME NEW k \in Preserving, NEW n \in Owed(d, k)' PROVE KeptEdit(d, k, n)'
  BY DEF KeptEdit, Uploaded, Downloaded, Meanwhile, At, Downloading
<1> QED
  BY <1>1 DEF Keeps

--------------------------------------------------------------------------------
(* What merging an edit with the heads leaves of it *)

\* A value that is in a head has arrived.
LEMMA HeadHolds ==
    ASSUME NEW ids \in SUBSET DOMAIN gens, NEW k, NEW n, NEW g \in ids,
           \/ Holds(gens[g].snap, k, n) \/ Kept(n, gens[g].conf, k)
           \/ gens[g].snap.tomb[k] # None
           \/ Republished(g, k, n)
    PROVE  Arrived(k, n)
BY DEF Arrived

\* The conflict of an edit with another value is missing only for its baseline.
LEMMA ConflictOfEdit ==
    ASSUME NEW l \in Snapshot, NEW r \in Snapshot, NEW baseline, NEW k \in Preserving, NEW n, NEW m,
           Holds(l, k, n), Holds(r, k, m), m # n, l.tomb[k] = None, r.tomb[k] = None,
           baseline[k] \notin {n, m}
    PROVE  Kept(n, Conflicts(l, r, baseline), k)
<1> DEFINE v == l.live[k]
           w == r.live[k]
           c == [key |-> k, winner |-> ChooseEntity(v, w).val, loser |-> Loser(v, w).val]
<1>1. v # None /\ v.val = n /\ w # None /\ w.val = m
  BY DEF Holds
<1>2. MergeTombstone(l.tomb[k], r.tomb[k]) = None
  BY DEF MergeTombstone
<1>3. /\ ChooseEntity(v, w) \in {v, w} /\ ChooseEntity(v, w) # None
      /\ n \in {ChooseEntity(v, w).val, Loser(v, w).val}
  <2> HIDE DEF v, w
  <2> QED
    BY <1>1 DEF ChooseEntity, Loser
<1>4. Surviving(ChooseEntity(v, w), MergeTombstone(l.tomb[k], r.tomb[k])) # None
  BY <1>2, <1>3 DEF Surviving
<1>5. c \in Conflicts(l, r, baseline)
  BY <1>1, <1>4 DEF Conflicts
<1>6. c.key = k /\ n \in {c.winner, c.loser}
  BY <1>3
<1> HIDE DEF c
<1> QED
  BY <1>5, <1>6 DEF Kept

LEMMA MergeKeepsEdit ==
    ASSUME DriveOK, NEW d \in Device, DeviceTypes(d), Knowledge(d), Marks(d),
           NEW k \in Preserving, NEW n \in Wrote, local[d][k] = n, Present(d), ~At(d, "settle"),
           BaselineBefore(d, k, n), NEW ids \in SUBSET DOMAIN gens, ids # {}
    PROVE  LET own == Package(d)
               remote == FoldIn(ids, gens).snap
               merged == MergeSnapshots(own, remote)
               conf == Conflicts(own, remote, sync[d].baseline)
           IN  /\ \/ Arrived(k, n) \/ Holds(merged, k, n)
                  \/ Kept(n, conf, k) \/ Kept(n, sync[d].conf, k)
               /\ (remote.live[k] # None /\ remote.live[k].val > n) =>
                      Arrived(k, n) \/ Kept(n, conf, k) \/ Kept(n, sync[d].conf, k)
<1> DEFINE own == Package(d)
           remote == FoldIn(ids, gens).snap
           merged == MergeSnapshots(own, remote)
           conf == Conflicts(own, remote, sync[d].baseline)
           v == own.live[k]
           w == remote.live[k]
<1>1. k \in Key /\ n # None /\ n \in Nat /\ None \notin Nat
  BY KeyAssumption, NoneIsNoEntity DEF Wrote
<1>2. /\ own \in Snapshot /\ Undeleted(own) /\ v # None /\ v.val = n /\ own.tomb[k] = None
      /\ v.at >= UpdatedAt(n)
  BY <1>1, PackageIs DEF Genuine, UpdatedAt
<1>3. /\ remote \in Snapshot /\ Undeleted(remote)
      /\ w # None => \E g \in ids : gens[g].snap.live[k] = w
      /\ remote.tomb[k] # None => \E g \in ids : gens[g].snap.tomb[k] # None
  BY <1>1, RemoteFold
<1>4. merged.live[k] = MergedLive(own, remote, k)
  BY <1>1, <1>2, <1>3, MergeByKey, MergeUndeleted
<1>5. v \in Version /\ w \in Version \cup {None}
  BY <1>1, <1>2, <1>3 DEF Snapshot
<1> HIDE DEF own, remote, merged, conf, v, w
<1>6. CASE remote.tomb[k] # None
  BY <1>3, <1>6, HeadHolds
<1>7. CASE w = None /\ remote.tomb[k] = None
  <2>1. merged.live[k] = v
    BY <1>2, <1>4, <1>7 DEF MergedLive, MergedTomb, MergeTombstone, ChooseEntity, Surviving, v, w
  <2> QED
    BY <1>2, <1>7, <2>1 DEF Holds, merged, own, remote, conf, w
<1>8. CASE w # None /\ remote.tomb[k] = None
  <2>1. PICK g \in ids : gens[g].snap.live[k] = w
    BY <1>3, <1>8
  <2>2. w.val = n => Arrived(k, n)
    BY <1>8, <2>1, HeadHolds DEF Holds
  <2>3. w.val # n => \/ Kept(n, conf, k) \/ sync[d].baseline[k] \in {n, w.val}
    BY <1>2, <1>3, <1>8, ConflictOfEdit DEF Holds, conf, v, w
  <2>4. sync[d].baseline[k] = n => Arrived(k, n)
    BY <1>1 DEF Marks, Arrived
  <2>5. w.val \in Nat
    BY <1>5, <1>8 DEF Version
  <2>6. (sync[d].baseline[k] = w.val /\ w.val > n) => Arrived(k, n) \/ Kept(n, sync[d].conf, k)
    BY <1>1, <2>5 DEF BaselineBefore, Copy
  <2>7. CASE merged.live[k] = v
    <3>1. Holds(merged, k, n)
      BY <1>2, <2>7 DEF Holds
    <3> QED
      BY <2>2, <2>3, <2>4, <2>6, <3>1 DEF merged, own, remote, conf, w
  <2>8. CASE merged.live[k] # v
    <3>1. ~AtLeast(v, w)
      BY <1>2, <1>4, <1>8, <2>8
         DEF MergedLive, MergedTomb, MergeTombstone, ChooseEntity, Surviving, v, w
    <3>2. w.at >= UpdatedAt(n)
      <4>1. v.at \in Int /\ w.at \in Int /\ v.at <= w.at
        BY <1>5, <1>8, <3>1 DEF AtLeast, Version
      <4>2. UpdatedAt(n) \in Int
        <5>1. edits[n] \in EditOf
          BY DEF DriveOK, Wrote
        <5>2. Skew[edits[n].dev] \in Nat
          BY <5>1, DeviceAssumption DEF EditOf
        <5> QED
          BY <1>1, <5>2 DEF UpdatedAt
      <4> QED
        BY <1>2, <4>1, <4>2
    <3>3. w.val < n => Arrived(k, n)
      <4>1. w.val < n => Republished(g, k, n)
        BY <1>8, <2>1, <3>2 DEF Republished
      <4> QED
        BY <4>1, HeadHolds
    <3>4. \/ Arrived(k, n) \/ Kept(n, conf, k) \/ Kept(n, sync[d].conf, k)
      BY <1>1, <2>2, <2>3, <2>4, <2>5, <2>6, <3>3
    <3> QED
      BY <3>4 DEF merged, own, remote, conf, w
  <2> QED
    BY <2>7, <2>8
<1> QED
  BY <1>6, <1>7, <1>8 DEF merged, own, remote, conf, w

--------------------------------------------------------------------------------
(* Local changes keep the edits *)

\* A step of the device that leaves Drive and the edits alone.
LEMMA ArrivedAsBefore ==
    ASSUME DriveOK, gens' = gens, edits' = edits, NEW k, NEW n
    PROVE  Arrived(k, n)' = Arrived(k, n)
BY DEF Arrived, Republished, UpdatedAt

LEMMA WriteKeeps ==
    ASSUME PublicationInv, NEW d \in Device, Step(d), Keeps(d),
           NEW j \in Key, Edit(d, j) \/ Delete(d, j)
    PROVE  Keeps(d)'
<1>0. PICK last \in Nat : last = Len(edits) + 1
  BY DEF PublicationInv, DriveOK
<1>1. /\ DriveOK /\ DevicesOK /\ DeviceOK(d) /\ DriveOK' /\ DevicesOK' /\ Grows
      /\ edits' \in Seq(EditOf) /\ Len(edits') = last
      /\ edits'[last].dev = d /\ edits'[last].key = j
      /\ ~edits'[last].deletion => local'[d][j] = last
      /\ \A k \in Key : k # j => local'[d][k] = local[d][k]
      /\ gens' = gens /\ sync' = sync /\ op' = op /\ exposed' = exposed
      /\ ~unmarked[d] /\ unmarked'[d] /\ Present(d) /\ local'[d][Paper] # None
  BY <1>0, WriteOK DEF PublicationInv, DevicesOK
<1>2. /\ Len(edits) \in Nat /\ DOMAIN edits = 1..Len(edits) /\ DOMAIN edits' = 1..last
      /\ \A m \in 1..Len(edits) : edits'[m] = edits[m]
  BY <1>0, <1>1 DEF DriveOK, Grows, Wrote
<1>3. /\ EditsOf(d) = EditsOf(d)' \ {last} /\ last \in EditsOf(d)'
      /\ \A m \in EditsOf(d)' : m <= last
      /\ \A m \in EditsOf(d) : m < last /\ edits'[m] = edits[m]
  BY <1>0, <1>1, <1>2 DEF EditsOf
<1>4. op[d].step \in Downloading => op[d].since \in Nat /\ op[d].since <= last
  BY <1>0, <1>1 DEF Keeps, Marks, DevicesOK, Operation
<1>5. Marks(d)'
  <2>1. Copy(d)'[Paper] = None => At(d, "settle") /\ Copy(d)' = Copy(d)
    BY <1>1 DEF Copy, At
  <2> QED
    BY <1>0, <1>1, <1>2, <1>4, <2>1 DEF Keeps, Marks
<1>6. ASSUME NEW k \in Preserving, NEW n \in Owed(d, k)', n # last PROVE KeptEdit(d, k, n)'
  <2>1. n \in Owed(d, k) /\ k # j /\ k \in Key
    <3>1. n \in EditsOf(d) /\ n < last
      BY <1>3, <1>6 DEF Owed
    <3>2. edits'[last].key = k => last <= n
      BY <1>3 DEF Owed
    <3>3. n \in Nat
      BY <1>2, <3>1 DEF EditsOf
    <3> QED
      BY <1>1, <1>2, <1>3, <3>1, <3>2, <3>3, KeyAssumption DEF Owed
  <2>2. Arrived(k, n) => Arrived(k, n)'
    BY <1>1, <2>1, ArrivedStays, OwedIs
  <2>3. local'[d][k] = local[d][k] /\ Copy(d)'[k] = Copy(d)[k]
    BY <1>1, <2>1 DEF Copy, At
  <2>4. ~Fresh(d, k, n)
    BY <1>1 DEF Fresh
  <2>5. RemoteIn(d)' = RemoteIn(d)
    BY <1>1 DEF RemoteIn
  <2>6. /\ Held(d, k, n) /\ BaselineBefore(d, k, n) /\ Uploaded(d, k, n)
        /\ Downloaded(d, k, n) /\ Meanwhile(d, k, n)
    BY <2>1 DEF Keeps, KeptEdit
  <2>7. Held(d, k, n)' /\ BaselineBefore(d, k, n)'
    BY <1>1, <2>2, <2>3, <2>4, <2>6 DEF Held, BaselineBefore, At
  <2>8. Uploaded(d, k, n)'
    BY <1>1, <2>2, <2>3, <2>4, <2>6 DEF Uploaded
  <2>9. Downloaded(d, k, n)'
    BY <1>1, <2>2, <2>3, <2>5, <2>6 DEF Downloaded, At
  <2>10. Meanwhile(d, k, n)'
    BY <1>1, <2>2, <2>3, <2>4, <2>5, <2>6 DEF Meanwhile, At
  <2> QED
    BY <2>7, <2>8, <2>9, <2>10 DEF KeptEdit
<1>7. ASSUME NEW k \in Preserving, last \in Owed(d, k)' PROVE KeptEdit(d, k, last)'
  <2>1. k = j /\ k \in Key /\ local'[d][k] = last
    BY <1>1, <1>7, KeyAssumption DEF Owed
  <2>2. Fresh(d, k, last)'
    BY <1>1, <1>3, <2>1 DEF Fresh
  <2>3. \A x \in 1..Len(edits) : x < last
    BY <1>0, <1>2
  <2>4. sync[d].baseline[k] # None => sync[d].baseline[k] < last
    <3>1. sync[d].baseline[k] # None =>
              \E g \in DOMAIN gens : gens[g].snap.live[k] # None /\ gens[g].snap.live[k].val = sync[d].baseline[k]
      BY <2>1 DEF Keeps, Marks, Holds
    <3>2. \A g \in DOMAIN gens : Genuine(gens[g].snap.live, edits)
      BY <1>1 DEF DriveOK
    <3> QED
      BY <2>1, <2>3, <3>1, <3>2 DEF Genuine
  <2>5. Before(op[d].snap.live, k, last)
    BY <1>1, <2>1, <2>3 DEF DeviceOK, Knowledge, Genuine, Before
  <2>6. At(d, "settle") => Before(RemoteIn(d).live, k, last)
    <3>1. At(d, "settle") => op[d].heads \in SUBSET DOMAIN gens /\ op[d].heads # {}
      BY <1>1 DEF DeviceOK, Knowledge, At, Downloading
    <3>2. At(d, "settle") => Genuine(RemoteIn(d).live, edits)
      BY <1>1, <3>1, RemoteFold DEF RemoteIn
    <3> QED
      BY <2>1, <2>3, <3>2 DEF Genuine, Before
  <2>7. ~(sync[d].baseline[k] # None /\ sync[d].baseline[k] > last)
    <3>1. sync[d].baseline[k] \in Nat \cup {None}
      BY <1>1, <2>1 DEF DevicesOK, SyncState
    <3> QED
      BY <1>2, <2>4, <3>1
  <2>8. Held(d, k, last)' /\ BaselineBefore(d, k, last)' /\ Uploaded(d, k, last)'
    BY <1>1, <2>2, <2>5, <2>7 DEF Held, BaselineBefore, Uploaded
  <2>9. Downloaded(d, k, last)'
    BY <1>2, <1>1, <1>4 DEF Downloaded
  <2>10. Meanwhile(d, k, last)'
    <3>1. RemoteIn(d)' = RemoteIn(d)
      BY <1>1 DEF RemoteIn
    <3> QED
      BY <1>1, <2>1, <2>2, <2>4, <2>6, <3>1 DEF Meanwhile, At
  <2> QED
    BY <2>8, <2>9, <2>10 DEF KeptEdit
<1> QED
  BY <1>5, <1>6, <1>7 DEF Keeps

LEMMA MarkDirtyKeeps ==
    ASSUME PublicationInv, NEW d \in Device, Step(d), Keeps(d), MarkDirty(d)
    PROVE  Keeps(d)'
<1>1. /\ DriveOK /\ DevicesOK /\ gens' = gens /\ edits' = edits /\ local' = local /\ op' = op
      /\ exposed' = exposed /\ ~unmarked'[d]
      /\ sync'[d] = [sync[d] EXCEPT !.dirty = TRUE, !.generation = @ + 1]
  BY DEF PublicationInv, MarkDirty, DevicesOK
<1>2. sync[d] \in SyncState /\ op[d] \in Operation
  BY <1>1 DEF DevicesOK
<1>3. /\ sync'[d].dirty /\ sync'[d].generation = sync[d].generation + 1
      /\ sync'[d].conf = sync[d].conf /\ sync'[d].baseline = sync[d].baseline
      /\ sync[d].generation \in Nat /\ op[d].captured \in Nat
  BY <1>1, <1>2 DEF SyncState, Operation
<1>4. Copy(d)' = Copy(d) /\ RemoteIn(d)' = RemoteIn(d)
  BY <1>1 DEF Copy, At, RemoteIn
<1>5. Marks(d)'
  BY <1>1, <1>3, <1>4 DEF Keeps, Marks
<1>6. op[d].step # "idle" => sync'[d].generation # op[d].captured
  BY <1>3 DEF Keeps, Marks
<1>7. ASSUME NEW k \in Preserving, NEW n \in Owed(d, k)' PROVE KeptEdit(d, k, n)'
  <2>1. n \in Owed(d, k)
    BY <1>1, <1>7, OwedShrinks
  <2>2. Arrived(k, n)' = Arrived(k, n)
    BY <1>1, ArrivedAsBefore
  <2>3. Fresh(d, k, n) => local[d][k] = n
    BY DEF Fresh
  <2>4. /\ Held(d, k, n) /\ BaselineBefore(d, k, n) /\ Uploaded(d, k, n)
        /\ Downloaded(d, k, n) /\ Meanwhile(d, k, n)
    BY <2>1 DEF Keeps, KeptEdit
  <2>5. Held(d, k, n)' /\ BaselineBefore(d, k, n)'
    BY <1>1, <1>3, <1>4, <2>2, <2>3, <2>4 DEF Held, BaselineBefore, At
  <2>6. Uploaded(d, k, n)'
    BY <1>1, <1>3, <1>6, <2>2, <2>4 DEF Uploaded, Merging
  <2>7. Downloaded(d, k, n)'
    BY <1>1, <1>3, <1>4, <2>2, <2>4 DEF Downloaded, At
  <2>8. Meanwhile(d, k, n)'
    BY <1>1, <1>3, <1>4, <1>6, <2>2, <2>3, <2>4 DEF Meanwhile, At
  <2> QED
    BY <2>5, <2>6, <2>7, <2>8 DEF KeptEdit
<1> QED
  BY <1>5, <1>7 DEF Keeps

LEMMA BeginKeeps ==
    ASSUME PublicationInv, NEW d \in Device, Step(d), Keeps(d), BeginUpload(d) \/ BeginKeepLocal(d)
    PROVE  Keeps(d)'
<1>1. /\ DriveOK /\ DevicesOK /\ gens' = gens /\ edits' = edits /\ local' = local /\ sync' = sync
      /\ unmarked' = unmarked /\ exposed' = exposed /\ op[d].step = "idle"
  BY DEF PublicationInv, BeginUpload, BeginKeepLocal, At
<1>2. op'[d].step = "reconcile" /\ op'[d].captured = sync[d].generation
  BY <1>1, BeginOK
<1>3. Copy(d)' = Copy(d)
  BY <1>1, <1>2 DEF Copy, At
<1>4. sync[d].generation \in Nat
  BY <1>1 DEF DevicesOK, SyncState
<1>5. Marks(d)'
  BY <1>1, <1>2, <1>3, <1>4 DEF Keeps, Marks, Merging, Downloading
<1>6. ASSUME NEW k \in Preserving, NEW n \in Owed(d, k)' PROVE Held(d, k, n)' /\ BaselineBefore(d, k, n)'
  <2>1. n \in Owed(d, k)
    BY <1>1, <1>6, OwedShrinks
  <2>2. Arrived(k, n)' = Arrived(k, n) /\ Fresh(d, k, n)' = Fresh(d, k, n)
    BY <1>1, ArrivedAsBefore DEF Fresh, EditsOf
  <2>3. Held(d, k, n) /\ BaselineBefore(d, k, n)
    BY <2>1 DEF Keeps, KeptEdit
  <2> QED
    BY <1>1, <1>3, <2>2, <2>3 DEF Held, BaselineBefore, At
<1> QED
  BY <1>2, <1>5, <1>6, IdleKeeps DEF Merging, Downloading

LEMMA ReconcileKeeps ==
    ASSUME PublicationInv, NEW d \in Device, Step(d), Keeps(d), Reconcile(d)
    PROVE  Keeps(d)'
<1>1. /\ DriveOK /\ DevicesOK /\ gens' = gens /\ edits' = edits /\ local' = local /\ sync' = sync
      /\ unmarked' = unmarked /\ exposed' = exposed /\ op[d].step = "reconcile" /\ Present(d)
  BY DEF PublicationInv, Reconcile, At
<1>2. PICK snap, conf, step :
          /\ op' = [op EXCEPT ![d].step = step, ![d].heads = Heads,
                              ![d].snap = snap, ![d].conf = conf]
          /\ step \in {"publish", "settle-noop"}
          /\ step = "settle-noop" => \E g \in Heads : gens[g].snap = snap /\ gens[g].conf = conf
          /\ sync[d].conf \subseteq conf
          /\ \/ snap = Package(d)
             \/ /\ Heads # {}
                /\ snap = MergeSnapshots(Package(d), FoldIn(Heads, gens).snap)
                /\ Conflicts(Package(d), FoldIn(Heads, gens).snap, sync[d].baseline) \subseteq conf
  BY <1>1, ReconcileIs
<1>3. Heads \in SUBSET DOMAIN gens
  BY <1>1, HeadsAre
<1>4. /\ op'[d].step = step /\ op'[d].snap = snap /\ op'[d].conf = conf
      /\ op'[d].captured = op[d].captured
  <2>1. /\ op'[d] = [op[d] EXCEPT !.step = step, !.heads = Heads, !.snap = snap, !.conf = conf]
        /\ op[d] \in Operation
    BY <1>1, <1>2 DEF DevicesOK
  <2> QED
    BY <2>1 DEF Operation
<1>5. Copy(d)' = Copy(d) /\ Copy(d) = local[d]
  BY <1>1, <1>2, <1>4 DEF Copy, At
<1>6. Marks(d)'
  BY <1>1, <1>2, <1>3, <1>4, <1>5 DEF Keeps, Marks, Downloading
<1>7. ASSUME NEW k \in Preserving, NEW n \in Owed(d, k)' PROVE KeptEdit(d, k, n)'
  <2>1. n \in Owed(d, k)
    BY <1>1, <1>7, OwedShrinks
  <2>2. Arrived(k, n)' = Arrived(k, n) /\ Fresh(d, k, n)' = Fresh(d, k, n)
    BY <1>1, ArrivedAsBefore DEF Fresh, EditsOf
  <2>3. Held(d, k, n) /\ BaselineBefore(d, k, n)
    BY <2>1 DEF Keeps, KeptEdit
  <2>4. Held(d, k, n)' /\ BaselineBefore(d, k, n)'
    BY <1>1, <1>2, <1>4, <1>5, <2>2, <2>3 DEF Held, BaselineBefore, At
  <2>5. Uploaded(d, k, n)'
    <3> SUFFICES ASSUME local[d][k] = n
                 PROVE  Arrived(k, n) \/ Holds(snap, k, n) \/ Kept(n, conf, k)
      BY <1>1, <1>4, <2>2 DEF Uploaded
    <3>1. n \in Wrote /\ k \in Key /\ n # None /\ DeviceTypes(d) /\ Knowledge(d) /\ Marks(d)
      BY <1>1, <2>1, OwedIs DEF DevicesOK, DeviceOK, Keeps
    <3>2. CASE snap = Package(d)
      <4>1. Package(d).live[k] # None /\ Package(d).live[k].val = n
        BY <1>1, <3>1, PackageIs
      <4> QED
        BY <3>2, <4>1 DEF Holds
    <3>3. CASE /\ Heads # {}
               /\ snap = MergeSnapshots(Package(d), FoldIn(Heads, gens).snap)
               /\ Conflicts(Package(d), FoldIn(Heads, gens).snap, sync[d].baseline) \subseteq conf
      <4>1. \/ Arrived(k, n) \/ Holds(snap, k, n)
            \/ Kept(n, Conflicts(Package(d), FoldIn(Heads, gens).snap, sync[d].baseline), k)
            \/ Kept(n, sync[d].conf, k)
        BY <1>1, <1>3, <2>3, <3>1, <3>3, MergeKeepsEdit DEF At
      <4> QED
        BY <1>2, <3>3, <4>1 DEF Kept
    <3> QED
      BY <1>2, <3>2, <3>3
  <2>6. Downloaded(d, k, n)' /\ Meanwhile(d, k, n)'
    BY <1>2, <1>4 DEF Downloaded, Meanwhile, At, Downloading
  <2> QED
    BY <2>4, <2>5, <2>6 DEF KeptEdit
<1> QED
  BY <1>6, <1>7 DEF Keeps

LEMMA PublishKeeps ==
    ASSUME PublicationInv, NEW d \in Device, Step(d), Keeps(d), Publish(d)
    PROVE  Keeps(d)'
<1>1. /\ DriveOK /\ DevicesOK /\ edits' = edits /\ local' = local /\ sync' = sync
      /\ unmarked' = unmarked /\ exposed' = exposed /\ op[d].step = "publish"
  BY DEF PublicationInv, Publish, At
<1>2. /\ Grows /\ DOMAIN gens' = DOMAIN gens \cup {Len(gens) + 1}
      /\ gens'[Len(gens) + 1].snap = op[d].snap /\ gens'[Len(gens) + 1].conf = op[d].conf
      /\ op'[d].step = "verify" /\ op'[d].snap = op[d].snap /\ op'[d].conf = op[d].conf
      /\ op'[d].captured = op[d].captured
  <2>1. /\ Grows /\ DOMAIN gens' = DOMAIN gens \cup {Len(gens) + 1}
        /\ gens'[Len(gens) + 1] = [snap |-> op[d].snap, conf |-> op[d].conf,
                                   parents |-> op[d].heads, kind |-> op[d].kind, by |-> d]
        /\ op'[d].step = "verify" /\ op'[d].snap = op[d].snap /\ op'[d].conf = op[d].conf
        /\ op'[d].captured = op[d].captured
    BY <1>1, PublishOK
  <2> QED
    BY <2>1
<1>3. Copy(d)' = Copy(d)
  BY <1>1, <1>2 DEF Copy, At
<1>4. Marks(d)'
  <2>1. \A g \in DOMAIN gens : g \in DOMAIN gens' /\ gens'[g] = gens[g]
    BY <1>2 DEF Grows
  <2>2. \E g \in DOMAIN gens' : gens'[g].snap = op[d].snap /\ gens'[g].conf = op[d].conf
    BY <1>2
  <2> QED
    BY <1>1, <1>2, <1>3, <2>1, <2>2 DEF Keeps, Marks, Merging, Downloading
<1>5. ASSUME NEW k \in Preserving, NEW n \in Owed(d, k)' PROVE KeptEdit(d, k, n)'
  <2>1. n \in Owed(d, k)
    BY <1>1, <1>5, OwedShrinks
  <2>2. Arrived(k, n) => Arrived(k, n)'
    BY <1>1, <1>2, <2>1, ArrivedStays, OwedIs
  <2>3. Fresh(d, k, n)' = Fresh(d, k, n)
    BY <1>1 DEF Fresh, EditsOf
  <2>4. Held(d, k, n) /\ BaselineBefore(d, k, n) /\ Uploaded(d, k, n)
    BY <2>1 DEF Keeps, KeptEdit
  <2>5. Held(d, k, n)' /\ BaselineBefore(d, k, n)'
    BY <1>1, <1>2, <1>3, <2>2, <2>3, <2>4 DEF Held, BaselineBefore, At
  <2>6. Uploaded(d, k, n)'
    BY <1>1, <1>2, <2>2, <2>3, <2>4 DEF Uploaded, Merging
  <2>7. Downloaded(d, k, n)' /\ Meanwhile(d, k, n)'
    BY <1>2 DEF Downloaded, Meanwhile, At, Downloading
  <2> QED
    BY <2>5, <2>6, <2>7 DEF KeptEdit
<1> QED
  BY <1>4, <1>5 DEF Keeps

\* A publication that took place has all a device owed when its package was made: what
\* was written since keeps the paper dirty.
LEMMA PublishResultKeeps ==
    ASSUME PublicationInv, NEW d \in Device, Step(d), Keeps(d), VerifyPublication(d) \/ SettleNoOp(d)
    PROVE  Keeps(d)'
<1>1. /\ DriveOK /\ DevicesOK /\ DeviceOK(d)
      /\ gens' = gens /\ edits' = edits /\ local' = local /\ exposed' = exposed /\ unmarked' = unmarked
      /\ op[d].step \in {"verify", "settle-noop"}
      /\ op' = [op EXCEPT ![d] = Idle]
      /\ sync' = [sync EXCEPT ![d] =
                  [entities |-> op[d].snap.live, baseline |-> ValuesOf(op[d].snap),
                   tomb |-> op[d].snap.tomb, conf |-> op[d].conf,
                   incorporated |-> op[d].heads,
                   dirty |-> SettledDirty(d, op[d].captured),
                   generation |-> @.generation]]
  BY DEF PublicationInv, DevicesOK, VerifyPublication, SettleNoOp, ApplyPublishResult, At
<1>2. /\ op'[d] = Idle /\ op'[d].step = "idle"
      /\ sync'[d].baseline = ValuesOf(op[d].snap) /\ sync'[d].conf = op[d].conf
      /\ sync'[d].dirty = (sync[d].dirty /\ sync[d].generation # op[d].captured)
  BY <1>1, IdleIsOK DEF DevicesOK, SettledDirty
<1>3. PICK g \in DOMAIN gens : gens[g].snap = op[d].snap /\ gens[g].conf = op[d].conf
  BY <1>1 DEF Keeps, Marks
<1>4. op[d].step \in Merging /\ sync[d].conf \subseteq op[d].conf /\ local[d][Paper] # None
  BY <1>1 DEF Keeps, Marks, Merging, DeviceOK, Knowledge
<1>5. \A k \in Key : ValuesOf(op[d].snap)[k] = IF op[d].snap.live[k] = None THEN None
                                              ELSE op[d].snap.live[k].val
  BY DEF ValuesOf
<1>6. Copy(d)' = local[d]
  BY <1>1, <1>2 DEF Copy, At
<1>7. Marks(d)'
  <2>1. ASSUME NEW k \in Key, ValuesOf(op[d].snap)[k] # None
        PROVE  Holds(gens[g].snap, k, ValuesOf(op[d].snap)[k])
    BY <1>3, <1>5, <2>1 DEF Holds
  <2> QED
    BY <1>1, <1>2, <1>4, <1>6, <2>1 DEF Marks, Merging, Downloading
<1>8. ASSUME NEW k \in Preserving, NEW n \in Owed(d, k)' PROVE Held(d, k, n)' /\ BaselineBefore(d, k, n)'
  <2>1. n \in Owed(d, k)
    BY <1>1, <1>8, OwedShrinks
  <2>2. Arrived(k, n)' = Arrived(k, n) /\ Fresh(d, k, n)' = Fresh(d, k, n)
    BY <1>1, ArrivedAsBefore DEF Fresh, EditsOf
  <2>3. Held(d, k, n) /\ BaselineBefore(d, k, n) /\ Uploaded(d, k, n)
    BY <2>1 DEF Keeps, KeptEdit
  <2>4. n \in Nat /\ k \in Key
    BY <1>1, <2>1, OwedIs
  <2>5. Holds(op[d].snap, k, n) \/ Kept(n, op[d].conf, k) => Arrived(k, n)
    BY <1>3 DEF Arrived
  <2>6. Kept(n, sync[d].conf, k) => Kept(n, op[d].conf, k)
    BY <1>4 DEF Kept
  <2>7. local[d][k] = n => \/ Arrived(k, n)
                           \/ /\ Before(op[d].snap.live, k, n)
                              /\ Fresh(d, k, n) \/ sync[d].generation # op[d].captured
    BY <1>4, <2>3, <2>5 DEF Uploaded
  <2>8. Held(d, k, n)'
    BY <1>1, <1>2, <2>2, <2>3, <2>5, <2>6, <2>7 DEF Held, At
  <2>9. BaselineBefore(d, k, n)'
    <3> SUFFICES ASSUME local[d][k] = n, op[d].snap.live[k] # None, op[d].snap.live[k].val > n
                 PROVE  Arrived(k, n)
      BY <1>2, <1>5, <1>6, <2>2, <2>4 DEF BaselineBefore
    <3>1. op[d].snap.live[k].val \in Nat
      BY <1>1, <2>4 DEF DeviceOK, Knowledge, Genuine
    <3> QED
      BY <2>4, <2>7, <3>1 DEF Before
  <2> QED
    BY <2>8, <2>9
<1> QED
  BY <1>2, <1>7, <1>8, IdleKeeps DEF Merging, Downloading

--------------------------------------------------------------------------------
(* Downloads keep the edits *)

LEMMA DownloadKeeps ==
    ASSUME PublicationInv, NEW d \in Device, Step(d), Keeps(d), Download(d)
    PROVE  Keeps(d)'
<1> DEFINE own == Package(d)
           remote == FoldIn(Heads, gens)
           changed == sync[d].dirty /\ Present(d)
<1>1. /\ DriveOK /\ DevicesOK /\ DeviceOK(d) /\ EventOfLastEdit(d)
      /\ gens' = gens /\ edits' = edits /\ local' = local /\ sync' = sync
      /\ unmarked' = unmarked /\ exposed' = exposed
  BY DEF PublicationInv, DevicesOK, Download
<1>2. /\ op[d].step = "idle" /\ Heads # {} /\ Heads \in SUBSET DOMAIN gens
      /\ op'[d].step = "apply" /\ op'[d].heads = Heads /\ op'[d].merged = changed
      /\ op'[d].captured = sync[d].generation /\ op'[d].before = sync[d]
      /\ op'[d].since = FirstUnmarked(d)
      /\ changed => /\ op'[d].snap = MergeSnapshots(own, remote.snap)
                    /\ op'[d].conf = remote.conf \cup Conflicts(own, remote.snap, sync[d].baseline)
      /\ ~changed => op'[d].snap = remote.snap
  BY <1>1, DownloadIs
<1>3. /\ FirstUnmarked(d) \in Nat /\ FirstUnmarked(d) <= Len(edits) + 1
      /\ unmarked[d] => FirstUnmarked(d) \in EditsOf(d)
  BY <1>1, FirstUnmarkedIs
<1>4. Copy(d)' = local[d] /\ Copy(d) = local[d]
  BY <1>1, <1>2 DEF Copy, At
<1>5. RemoteIn(d)' = remote.snap
  BY <1>1, <1>2 DEF RemoteIn
<1>6. sync[d].generation \in Nat
  BY <1>1 DEF DevicesOK, SyncState
<1> HIDE DEF own, remote, changed
<1>7. Marks(d)'
  BY <1>1, <1>2, <1>3, <1>4, <1>6 DEF Keeps, Marks, Merging, Downloading
<1>8. ASSUME NEW k \in Preserving, NEW n \in Owed(d, k)' PROVE KeptEdit(d, k, n)'
  <2>1. n \in Owed(d, k)
    BY <1>1, <1>8, OwedShrinks
  <2>2. Arrived(k, n)' = Arrived(k, n) /\ Fresh(d, k, n)' = Fresh(d, k, n)
    BY <1>1, ArrivedAsBefore DEF Fresh, EditsOf
  <2>3. Held(d, k, n) /\ BaselineBefore(d, k, n)
    BY <2>1 DEF Keeps, KeptEdit
  <2>4. n \in Wrote /\ n \in Nat /\ n # None /\ k \in Key
    BY <1>1, <2>1, OwedIs
  <2>5. Held(d, k, n)' /\ BaselineBefore(d, k, n)'
    BY <1>1, <1>2, <1>4, <2>2, <2>3 DEF Held, BaselineBefore, At
  <2>6. Uploaded(d, k, n)' /\ Meanwhile(d, k, n)'
    BY <1>2 DEF Uploaded, Meanwhile, At, Merging
  <2>7. ASSUME n < FirstUnmarked(d)
        PROVE  Arrived(k, n) \/ (sync[d].dirty /\ changed /\ (local[d][k] = n \/ Kept(n, sync[d].conf, k)))
    <3>1. ~Fresh(d, k, n)
      BY <1>3, <2>4, <2>7 DEF Fresh
    <3>2. (local[d][k] = n \/ Kept(n, sync[d].conf, k)) => Present(d)
      BY <1>4, <2>4 DEF Keeps, Marks, Kept, Present
    <3> QED
      BY <1>2, <2>3, <3>1, <3>2 DEF Held, At, changed
  <2>8. ASSUME changed, local[d][k] = n
        PROVE  /\ \/ Arrived(k, n) \/ Holds(op'[d].snap, k, n)
                  \/ Kept(n, op'[d].conf, k) \/ Kept(n, sync[d].conf, k)
               /\ (remote.snap.live[k] # None /\ remote.snap.live[k].val > n) =>
                      Arrived(k, n) \/ Kept(n, op'[d].conf, k) \/ Kept(n, sync[d].conf, k)
    <3>1. /\ \/ Arrived(k, n) \/ Holds(op'[d].snap, k, n)
             \/ Kept(n, Conflicts(own, remote.snap, sync[d].baseline), k) \/ Kept(n, sync[d].conf, k)
          /\ (remote.snap.live[k] # None /\ remote.snap.live[k].val > n) =>
                 \/ Arrived(k, n) \/ Kept(n, Conflicts(own, remote.snap, sync[d].baseline), k)
                 \/ Kept(n, sync[d].conf, k)
      <4>1. DeviceTypes(d) /\ Knowledge(d) /\ Marks(d) /\ Present(d) /\ ~At(d, "settle")
        BY <1>1, <1>2, <2>8 DEF DeviceOK, Keeps, At, changed
      <4> QED
        BY <1>1, <1>2, <2>3, <2>4, <2>8, <4>1, MergeKeepsEdit DEF own, remote
    <3>2. Kept(n, Conflicts(own, remote.snap, sync[d].baseline), k) => Kept(n, op'[d].conf, k)
      BY <1>2, <2>8 DEF Kept
    <3> QED
      BY <3>1, <3>2
  <2>9. /\ remote.snap \in Snapshot /\ Undeleted(remote.snap)
        /\ Holds(remote.snap, k, n) => Arrived(k, n)
    <3>1. /\ remote.snap \in Snapshot /\ Undeleted(remote.snap)
          /\ remote.snap.live[k] # None => \E g \in Heads : gens[g].snap.live[k] = remote.snap.live[k]
      BY <1>1, <1>2, <2>4, RemoteFold DEF remote
    <3> QED
      BY <1>2, <3>1 DEF Holds, Arrived
  <2>10. Holds(op'[d].snap, k, n) => Arrived(k, n) \/ (changed /\ local[d][k] = n)
    <3>1. CASE ~changed
      BY <1>2, <2>9, <3>1
    <3>2. CASE changed
      <4>1. /\ own \in Snapshot /\ Undeleted(own)
            /\ own.live[k] # None => own.live[k].val = local[d][k]
        BY <1>1, <2>4, <3>2, PackageIs DEF DeviceOK, own, changed
      <4>2. op'[d].snap.live[k] = MergedLive(own, remote.snap, k)
        BY <1>2, <2>4, <2>9, <3>2, <4>1, MergeByKey, MergeUndeleted
      <4>3. op'[d].snap.live[k] # None => op'[d].snap.live[k] \in {own.live[k], remote.snap.live[k]}
        BY <4>2 DEF MergedLive, Surviving, ChooseEntity
      <4> QED
        BY <2>9, <3>2, <4>1, <4>3 DEF Holds
    <3> QED
      BY <3>1, <3>2
  <2>11. Downloaded(d, k, n)'
    BY <1>1, <1>2, <1>4, <1>5, <2>2, <2>7, <2>8, <2>10 DEF Downloaded, At
  <2> QED
    BY <2>5, <2>6, <2>11 DEF KeptEdit
<1> QED
  BY <1>7, <1>8 DEF Keeps

LEMMA ApplyDownloadKeeps ==
    ASSUME PublicationInv, NEW d \in Device, Step(d), Keeps(d), ApplyDownload(d)
    PROVE  Keeps(d)'
<1>1. /\ DriveOK /\ DevicesOK /\ op[d] \in Operation
      /\ op[d].step = "apply" /\ op'[d] = [op[d] EXCEPT !.step = "settle", !.old = local[d]]
      /\ local'[d] = ValuesOf(op[d].snap)
      /\ exposed' = exposed \cup EditsSinceMerge(d)
      /\ gens' = gens /\ edits' = edits /\ unmarked' = unmarked /\ sync' = sync
  BY ApplyDownloadOK DEF PublicationInv, DevicesOK
<1>2. /\ op'[d].step = "settle" /\ op'[d].old = local[d] /\ op'[d].captured = op[d].captured
      /\ op'[d].heads = op[d].heads /\ op'[d].snap = op[d].snap /\ op'[d].conf = op[d].conf
      /\ op'[d].merged = op[d].merged /\ op'[d].before = op[d].before /\ op'[d].since = op[d].since
  BY <1>1 DEF Operation
<1>3. Copy(d)' = local[d] /\ Copy(d) = local[d]
  BY <1>1, <1>2 DEF Copy, At
<1>4. RemoteIn(d)' = RemoteIn(d)
  BY <1>1, <1>2 DEF RemoteIn
<1>5. Marks(d)'
  BY <1>1, <1>2, <1>3 DEF Keeps, Marks, Merging, Downloading
<1>6. ASSUME NEW k \in Preserving, NEW n \in Owed(d, k)' PROVE KeptEdit(d, k, n)'
  <2>1. n \in Owed(d, k) /\ n \in EditsOf(d) /\ n \notin EditsSinceMerge(d)
    BY <1>1, <1>6, OwedShrinks
  <2>2. n < op[d].since
    <3>1. n \in Nat /\ op[d].since \in Nat
      BY <1>1, <2>1, OwedIs DEF Operation
    <3> QED
      BY <2>1, <3>1 DEF EditsSinceMerge
  <2>3. Arrived(k, n)' = Arrived(k, n)
    BY <1>1, ArrivedAsBefore
  <2>4. Downloaded(d, k, n) /\ BaselineBefore(d, k, n)
    BY <2>1 DEF Keeps, KeptEdit
  <2>5. local'[d][k] = n <=> Holds(op[d].snap, k, n)
    <3>1. k \in Key /\ n # None
      BY <1>1, <2>1, OwedIs
    <3> QED
      BY <1>1, <3>1 DEF ValuesOf, Holds
  <2>6. op[d].before.dirty => sync[d].dirty
    BY <1>1 DEF Keeps, Marks, Downloading
  <2>7. /\ \/ Arrived(k, n)
           \/ /\ op[d].before.dirty /\ op[d].merged
              /\ local[d][k] = n \/ Kept(n, sync[d].conf, k)
        /\ local[d][k] = n => \/ Arrived(k, n) \/ Holds(op[d].snap, k, n)
                              \/ Kept(n, op[d].conf, k) \/ Kept(n, sync[d].conf, k)
        /\ Holds(op[d].snap, k, n) =>
               /\ Arrived(k, n) \/ local[d][k] = n
               /\ (RemoteIn(d).live[k] # None /\ RemoteIn(d).live[k].val > n) =>
                      Arrived(k, n) \/ Kept(n, op[d].conf, k) \/ Kept(n, sync[d].conf, k)
    BY <1>1, <1>3, <2>2, <2>4 DEF Downloaded, Downloading, At
  <2>8. Held(d, k, n)'
    BY <1>1, <1>2, <2>3, <2>5, <2>6, <2>7 DEF Held, At
  <2>9. BaselineBefore(d, k, n)'
    BY <1>1, <1>3, <2>3, <2>4 DEF BaselineBefore
  <2>10. Uploaded(d, k, n)' /\ Meanwhile(d, k, n)'
    <3>1. ~(n >= op[d].since)
      <4>1. n \in Nat /\ op[d].since \in Nat
        BY <1>1, <2>1, OwedIs DEF Operation
      <4> QED
        BY <2>2, <4>1
    <3> QED
      BY <1>2, <3>1 DEF Uploaded, Meanwhile, At, Merging
  <2>11. Downloaded(d, k, n)'
    BY <1>1, <1>2, <1>3, <1>4, <2>3, <2>5, <2>7 DEF Downloaded, At
  <2> QED
    BY <2>8, <2>9, <2>10, <2>11 DEF KeptEdit
<1> QED
  BY <1>5, <1>6 DEF Keeps

LEMMA SettleDownloadKeeps ==
    ASSUME PublicationInv, NEW d \in Device, Step(d), Keeps(d), SettleDownload(d)
    PROVE  Keeps(d)'
<1>1. /\ DriveOK /\ DevicesOK /\ DeviceOK(d) /\ op[d] \in Operation
      /\ op[d].step = "settle" /\ op'[d] = Idle /\ op'[d].step = "idle"
      /\ local' = local /\ unmarked' = unmarked /\ gens' = gens /\ edits' = edits
      /\ sync'[d].baseline = ValuesOf(RemoteIn(d))
      /\ sync'[d].conf = op[d].conf
      /\ sync'[d].dirty = IF op[d].merged THEN sync[d].dirty ELSE SettledDirty(d, op[d].captured)
  BY SettleDownloadOK, IdleIsOK DEF PublicationInv, DevicesOK, RemoteIn
<1>2. exposed' = exposed \cup {n \in EditsOf(d) : \E c \in sync[d].conf \ op[d].conf :
                                                    n \in {c.winner, c.loser}}
  BY DEF SettleDownload
<1>3. Copy(d)' = local[d] /\ Copy(d) = op[d].old /\ local[d][Paper] # None
  BY <1>1 DEF Copy, At, DeviceOK, Knowledge
<1>4. /\ op[d].heads \in SUBSET DOMAIN gens
      /\ \A k \in Key : ValuesOf(RemoteIn(d))[k] = IF RemoteIn(d).live[k] = None THEN None
                                                   ELSE RemoteIn(d).live[k].val
      /\ \A k \in Key : RemoteIn(d).live[k] # None =>
             /\ RemoteIn(d).live[k].val \in Nat
             /\ \E g \in op[d].heads : gens[g].snap.live[k] = RemoteIn(d).live[k]
  <2>1. op[d].heads \in SUBSET DOMAIN gens /\ op[d].heads # {}
    BY <1>1 DEF DeviceOK, Knowledge, Downloading
  <2>2. /\ Genuine(RemoteIn(d).live, edits)
        /\ \A k \in Key : RemoteIn(d).live[k] # None =>
               \E g \in op[d].heads : gens[g].snap.live[k] = RemoteIn(d).live[k]
    BY <1>1, <2>1, RemoteFold DEF RemoteIn
  <2>3. Len(edits) \in Nat
    BY <1>1 DEF DriveOK
  <2> QED
    BY <2>1, <2>2, <2>3 DEF ValuesOf, Genuine
<1>5. Marks(d)'
  <2>1. ASSUME NEW k \in Key, ValuesOf(RemoteIn(d))[k] # None
        PROVE  \E g \in DOMAIN gens : Holds(gens[g].snap, k, ValuesOf(RemoteIn(d))[k])
    BY <1>4, <2>1 DEF Holds
  <2> QED
    BY <1>1, <1>3, <2>1 DEF Marks, Merging, Downloading
<1>6. ASSUME NEW k \in Preserving, NEW n \in Owed(d, k)' PROVE Held(d, k, n)' /\ BaselineBefore(d, k, n)'
  <2>1. n \in Owed(d, k) /\ n \in EditsOf(d) /\ n \notin exposed'
    BY <1>1, <1>2, <1>6, OwedShrinks
  <2>2. n \in Nat /\ n # None /\ k \in Key /\ op[d].since \in Nat
    BY <1>1, <2>1, OwedIs DEF Operation
  <2>3. Kept(n, sync[d].conf, k) => Kept(n, op[d].conf, k)
    BY <1>2, <2>1 DEF Kept
  <2>4. Arrived(k, n)' = Arrived(k, n) /\ Fresh(d, k, n)' = Fresh(d, k, n)
    BY <1>1, ArrivedAsBefore DEF Fresh, EditsOf
  <2>5. Held(d, k, n) /\ Downloaded(d, k, n) /\ Meanwhile(d, k, n)
    BY <2>1 DEF Keeps, KeptEdit
  <2>6. CASE n < op[d].since
    <3>1. /\ Arrived(k, n) \/ (op[d].before.dirty /\ op[d].merged)
          /\ local[d][k] = n => Arrived(k, n) \/ Holds(op[d].snap, k, n)
          /\ Holds(op[d].snap, k, n) =>
                 ((RemoteIn(d).live[k] # None /\ RemoteIn(d).live[k].val > n) =>
                      Arrived(k, n) \/ Kept(n, op[d].conf, k) \/ Kept(n, sync[d].conf, k))
      BY <1>1, <2>5, <2>6 DEF Downloaded, Downloading, At
    <3>2. Held(d, k, n)'
      BY <1>1, <2>3, <2>4, <2>5, <3>1 DEF Held
    <3>3. BaselineBefore(d, k, n)'
      BY <1>1, <1>3, <1>4, <2>2, <2>3, <2>4, <3>1 DEF BaselineBefore
    <3> QED
      BY <3>2, <3>3
  <2>7. CASE n >= op[d].since
    <3>1. /\ \/ Arrived(k, n)
             \/ /\ local[d][k] = n
                /\ Fresh(d, k, n) \/ (sync[d].dirty /\ sync[d].generation # op[d].captured)
          /\ Before(RemoteIn(d).live, k, n)
      BY <1>1, <2>5, <2>7 DEF Meanwhile, At
    <3>2. Held(d, k, n)'
      BY <1>1, <2>4, <3>1 DEF Held, SettledDirty
    <3>3. BaselineBefore(d, k, n)'
      BY <1>1, <1>4, <2>2, <3>1 DEF BaselineBefore, Before
    <3> QED
      BY <3>2, <3>3
  <2> QED
    BY <2>2, <2>6, <2>7
<1> QED
  BY <1>1, <1>5, <1>6, IdleKeeps DEF Merging, Downloading

LEMMA RollbackKeeps ==
    ASSUME PublicationInv, NEW d \in Device, Step(d), Keeps(d),
           RollbackApplication(d) \/ RollbackSettlement(d)
    PROVE  Keeps(d)'
<1>1. /\ DriveOK /\ DevicesOK /\ op[d] \in Operation
      /\ op[d].step = "settle" /\ op'[d] = Idle /\ op'[d].step = "idle" /\ local'[d] = op[d].old
      /\ sync'[d] = sync[d] \/ sync'[d] = op[d].before
      /\ exposed' = exposed \cup EditsSinceMerge(d)
      /\ gens' = gens /\ edits' = edits /\ unmarked' = unmarked
  BY RollbackOK, IdleIsOK DEF PublicationInv, DevicesOK
<1>2. Copy(d)' = op[d].old /\ Copy(d) = op[d].old
  BY <1>1 DEF Copy, At
<1>3. /\ sync'[d].conf = sync[d].conf /\ sync'[d].baseline = sync[d].baseline
      /\ op[d].before.dirty => sync'[d].dirty
  BY <1>1 DEF Keeps, Marks, Downloading
<1>4. Marks(d)'
  BY <1>1, <1>2, <1>3 DEF Keeps, Marks, Merging, Downloading
<1>5. ASSUME NEW k \in Preserving, NEW n \in Owed(d, k)' PROVE Held(d, k, n)' /\ BaselineBefore(d, k, n)'
  <2>1. n \in Owed(d, k) /\ n \in EditsOf(d) /\ n \notin EditsSinceMerge(d)
    BY <1>1, <1>5, OwedShrinks
  <2>2. n < op[d].since
    <3>1. n \in Nat /\ op[d].since \in Nat
      BY <1>1, <2>1, OwedIs DEF Operation
    <3> QED
      BY <2>1, <3>1 DEF EditsSinceMerge
  <2>3. Arrived(k, n)' = Arrived(k, n)
    BY <1>1, ArrivedAsBefore
  <2>4. BaselineBefore(d, k, n) /\ Downloaded(d, k, n)
    BY <2>1 DEF Keeps, KeptEdit
  <2>5. \/ Arrived(k, n)
        \/ op[d].before.dirty /\ (op[d].old[k] = n \/ Kept(n, sync[d].conf, k))
    BY <1>1, <1>2, <2>2, <2>4 DEF Downloaded, Downloading
  <2>6. Held(d, k, n)'
    BY <1>1, <1>3, <2>3, <2>5 DEF Held
  <2>7. BaselineBefore(d, k, n)'
    BY <1>2, <1>3, <2>3, <2>4 DEF BaselineBefore
  <2> QED
    BY <2>6, <2>7
<1> QED
  BY <1>1, <1>4, <1>5, IdleKeeps DEF Merging, Downloading

LEMMA FailKeeps ==
    ASSUME PublicationInv, NEW d \in Device, Step(d), Keeps(d), Fail(d)
    PROVE  Keeps(d)'
<1>1. /\ DriveOK /\ DevicesOK /\ op[d].step \notin {"idle", "settle"}
      /\ op'[d] = Idle /\ op'[d].step = "idle"
      /\ gens' = gens /\ local' = local /\ unmarked' = unmarked /\ sync' = sync
      /\ edits' = edits /\ exposed' = exposed
  BY IdleIsOK DEF PublicationInv, DevicesOK, Fail
<1>2. Copy(d)' = Copy(d)
  BY <1>1 DEF Copy, At
<1>3. Marks(d)'
  BY <1>1, <1>2 DEF Keeps, Marks, Merging, Downloading
<1>4. ASSUME NEW k \in Preserving, NEW n \in Owed(d, k)' PROVE Held(d, k, n)' /\ BaselineBefore(d, k, n)'
  <2>1. n \in Owed(d, k)
    BY <1>1, <1>4, OwedShrinks
  <2>2. Arrived(k, n)' = Arrived(k, n) /\ Fresh(d, k, n)' = Fresh(d, k, n)
    BY <1>1, ArrivedAsBefore DEF Fresh, EditsOf
  <2>3. Held(d, k, n) /\ BaselineBefore(d, k, n)
    BY <2>1 DEF Keeps, KeptEdit
  <2> QED
    BY <1>1, <1>2, <2>2, <2>3 DEF Held, BaselineBefore, At
<1> QED
  BY <1>1, <1>3, <1>4, IdleKeeps DEF Merging, Downloading

LEMMA ClosePageKeeps ==
    ASSUME PublicationInv, NEW d \in Device, Step(d), Keeps(d), ClosePage(d)
    PROVE  Keeps(d)'
<1>1. /\ DriveOK /\ DevicesOK /\ DeviceOK(d) /\ op[d] \in Operation /\ EventOfLastEdit(d)
      /\ op'[d] = Idle /\ op'[d].step = "idle" /\ unmarked'[d] = FALSE
      /\ gens' = gens /\ local' = local /\ sync' = sync /\ edits' = edits
      /\ At(d, "settle") \/ unmarked[d]
  BY IdleIsOK DEF PublicationInv, DevicesOK, ClosePage
<1>2. /\ exposed \subseteq exposed'
      /\ \A n \in EditsOf(d) : n >= FirstUnmarked(d) => n \in exposed'
      /\ At(d, "settle") => \A n \in EditsOf(d), k \in Key : op[d].old[k] = n => n \in exposed'
  BY DEF ClosePage
<1>3. Copy(d)' = local[d] /\ Copy(d) = IF At(d, "settle") THEN op[d].old ELSE local[d]
  BY <1>1 DEF Copy, At
<1>4. Marks(d)'
  <2>1. local[d][Paper] = None => ~At(d, "settle")
    BY <1>1 DEF DeviceOK, Knowledge, At
  <2> QED
    BY <1>1, <1>3, <2>1 DEF Keeps, Marks, Merging, Downloading
<1>5. ASSUME NEW k \in Preserving, NEW n \in Owed(d, k)' PROVE Held(d, k, n)' /\ BaselineBefore(d, k, n)'
  <2>1. n \in Owed(d, k) /\ n \in EditsOf(d) /\ n \notin exposed'
    BY <1>1, <1>2, <1>5, OwedShrinks
  <2>2. n \in Nat /\ n # None /\ k \in Key /\ op[d].since \in Nat
    BY <1>1, <2>1, OwedIs DEF Operation
  <2>3. Arrived(k, n)' = Arrived(k, n)
    BY <1>1, ArrivedAsBefore
  <2>4. ~Fresh(d, k, n)
    <3> SUFFICES ASSUME unmarked[d], \A m \in EditsOf(d) : m <= n PROVE FALSE
      BY DEF Fresh
    <3>1. FirstUnmarked(d) \in EditsOf(d) /\ FirstUnmarked(d) \in Nat
      BY <1>1, FirstUnmarkedIs
    <3>2. n >= FirstUnmarked(d)
      BY <2>2, <3>1
    <3> QED
      BY <1>2, <2>1, <3>2
  <2>5. /\ Held(d, k, n) /\ BaselineBefore(d, k, n) /\ Downloaded(d, k, n) /\ Meanwhile(d, k, n)
    BY <2>1 DEF Keeps, KeptEdit
  <2>6. CASE ~At(d, "settle")
    BY <1>1, <1>3, <2>3, <2>4, <2>5, <2>6 DEF Held, BaselineBefore
  <2>7. CASE At(d, "settle") /\ n < op[d].since
    <3>1. op[d].old[k] # n
      BY <1>2, <2>1, <2>2, <2>7
    <3>2. /\ \/ Arrived(k, n)
             \/ op[d].before.dirty /\ Kept(n, sync[d].conf, k)
          /\ local[d][k] = n => Arrived(k, n) \/ Holds(op[d].snap, k, n)
          /\ Holds(op[d].snap, k, n) => Arrived(k, n)
      BY <1>3, <2>5, <2>7, <3>1 DEF Downloaded, Downloading, At
    <3>3. op[d].before.dirty => sync[d].dirty
      BY <2>7 DEF Keeps, Marks, At, Downloading
    <3> QED
      BY <1>1, <1>3, <2>3, <3>2, <3>3 DEF Held, BaselineBefore
  <2>8. CASE At(d, "settle") /\ n >= op[d].since
    <3>1. /\ Arrived(k, n) \/ (local[d][k] = n /\ sync[d].dirty)
          /\ sync[d].baseline[k] # None => sync[d].baseline[k] < n
      BY <2>4, <2>5, <2>8 DEF Meanwhile
    <3>2. sync[d].baseline[k] \in Nat \cup {None}
      BY <1>1, <2>2 DEF DevicesOK, SyncState
    <3>3. ~(sync[d].baseline[k] # None /\ sync[d].baseline[k] > n)
      BY <2>2, <3>1, <3>2
    <3> QED
      BY <1>1, <1>3, <2>3, <3>1, <3>3 DEF Held, BaselineBefore
  <2> QED
    BY <2>2, <2>6, <2>7, <2>8
<1> QED
  BY <1>1, <1>4, <1>5, IdleKeeps DEF Merging, Downloading

--------------------------------------------------------------------------------

LEMMA OthersDoNotEdit ==
    ASSUME DriveOK, DevicesOK, NEW d \in Device, Step(d), NEW e \in Device \ {d}
    PROVE  EditsOf(e)' = EditsOf(e)
<1>1. CASE \E k \in Key : Edit(d, k) \/ Delete(d, k)
  <2>1. /\ edits' \in Seq(EditOf) /\ Len(edits') = Len(edits) + 1 /\ Grows
        /\ edits'[Len(edits) + 1].dev = d
    BY <1>1, WriteOK
  <2>2. /\ DOMAIN edits = 1..Len(edits) /\ DOMAIN edits' = 1..(Len(edits) + 1) /\ Len(edits) \in Nat
        /\ \A n \in 1..Len(edits) : edits'[n] = edits[n]
    BY <2>1 DEF DriveOK, Grows, Wrote
  <2> QED
    BY <2>1, <2>2 DEF EditsOf
<1>2. CASE ~\E k \in Key : Edit(d, k) \/ Delete(d, k)
  <2>1. edits' = edits
    BY <1>2 DEF Step, MarkDirty, BeginUpload, BeginKeepLocal, Reconcile, Publish, VerifyPublication,
       SettleNoOp, ApplyPublishResult, Download, ApplyDownload, SettleDownload,
       RollbackApplication, RollbackSettlement, Fail, ClosePage
  <2> QED
    BY <2>1 DEF EditsOf
<1> QED
  BY <1>1, <1>2

LEMMA KeepInit == Init => KeepInv
<1> SUFFICES ASSUME Init PROVE KeepInv
  OBVIOUS
<1>1. PICK importer \in Device :
          /\ edits = <<[dev |-> importer, key |-> Paper, deletion |-> FALSE]>>
          /\ local = [d \in Device |-> [k \in Key |-> IF d = importer /\ k = Paper THEN 1 ELSE None]]
          /\ unmarked = [d \in Device |-> d = importer]
          /\ sync = [d \in Device |-> FreshSync]
          /\ op = [d \in Device |-> Idle]
  BY DEF Init
<1>2. DOMAIN edits = {1} /\ edits[1].dev = importer /\ edits[1].key = Paper
  BY <1>1
<1>3. ASSUME NEW d \in Device PROVE Keeps(d)
  <2>1. /\ sync[d] = FreshSync /\ op[d] = Idle /\ op[d].step = "idle" /\ Copy(d) = local[d]
        /\ sync[d].conf = {} /\ \A k \in Key : sync[d].baseline[k] = None
    BY <1>1, IdleIsOK DEF Copy, At, FreshSync
  <2>2. local[d][Paper] = None => \A k \in Key : local[d][k] = None
    BY <1>1, KeyAssumption
  <2>3. Marks(d)
    BY <2>1, <2>2 DEF Marks, Merging, Downloading
  <2>4. ASSUME NEW k \in Preserving, NEW n \in Owed(d, k) PROVE KeptEdit(d, k, n)
    <3>1. n = 1 /\ d = importer /\ k = Paper /\ k \in Key
      BY <1>2, KeyAssumption DEF Owed, EditsOf
    <3>2. unmarked[d] /\ local[d][k] = n
      BY <1>1, <3>1
    <3>3. Fresh(d, k, n)
      BY <1>2, <3>1, <3>2 DEF Fresh, EditsOf
    <3> QED
      BY <2>1, <3>1, <3>3 DEF KeptEdit, Held, BaselineBefore, Uploaded, Downloaded, Meanwhile, At,
         Merging, Downloading
  <2> QED
    BY <2>3, <2>4 DEF Keeps
<1> QED
  BY <1>3, PublicationInit DEF KeepInv

LEMMA KeepStep == KeepInv /\ [Next]_vars => KeepInv'
<1> SUFFICES ASSUME KeepInv, [Next]_vars PROVE KeepInv'
  OBVIOUS
<1>1. PublicationInv'
  BY PublicationStep DEF KeepInv
<1>2. CASE UNCHANGED vars
  <2>1. ASSUME NEW d \in Device PROVE Keeps(d)'
    <3>1. Grows /\ Same(d) /\ EditsOf(d)' = EditsOf(d)
      BY <1>2 DEF vars, KeepInv, PublicationInv, DriveOK, GensOK, Grows, Same, Wrote, EditsOf
    <3> QED
      BY <3>1, OtherDeviceKeeps DEF KeepInv, PublicationInv
  <2> QED
    BY <1>1, <2>1 DEF KeepInv
<1>3. ASSUME NEW d \in Device, Step(d) PROVE KeepInv'
  <2>1. PublicationInv /\ DriveOK /\ DevicesOK /\ EventOfLastEdit(d) /\ Keeps(d)
    BY DEF KeepInv, PublicationInv
  <2>2. Keeps(d)'
    <3>1. CASE \E k \in Key : Edit(d, k) \/ Delete(d, k)
      BY <1>3, <2>1, <3>1, WriteKeeps
    <3>2. CASE MarkDirty(d)
      BY <1>3, <2>1, <3>2, MarkDirtyKeeps
    <3>3. CASE BeginUpload(d) \/ BeginKeepLocal(d)
      BY <1>3, <2>1, <3>3, BeginKeeps
    <3>4. CASE Reconcile(d)
      BY <1>3, <2>1, <3>4, ReconcileKeeps
    <3>5. CASE Publish(d)
      BY <1>3, <2>1, <3>5, PublishKeeps
    <3>6. CASE VerifyPublication(d) \/ SettleNoOp(d)
      BY <1>3, <2>1, <3>6, PublishResultKeeps
    <3>7. CASE Download(d)
      BY <1>3, <2>1, <3>7, DownloadKeeps
    <3>8. CASE ApplyDownload(d)
      BY <1>3, <2>1, <3>8, ApplyDownloadKeeps
    <3>9. CASE SettleDownload(d)
      BY <1>3, <2>1, <3>9, SettleDownloadKeeps
    <3>10. CASE RollbackApplication(d) \/ RollbackSettlement(d)
      BY <1>3, <2>1, <3>10, RollbackKeeps
    <3>11. CASE Fail(d)
      BY <1>3, <2>1, <3>11, FailKeeps
    <3>12. CASE ClosePage(d)
      BY <1>3, <2>1, <3>12, ClosePageKeeps
    <3> QED
      BY <1>3, <3>1, <3>2, <3>3, <3>4, <3>5, <3>6, <3>7, <3>8, <3>9, <3>10, <3>11, <3>12 DEF Step
  <2>3. ASSUME NEW e \in Device \ {d} PROVE Keeps(e)'
    <3>1. Grows /\ Same(e) /\ EditsOf(e)' = EditsOf(e)
      BY <1>3, <2>1, StepOK, OthersStay, OthersDoNotEdit
    <3> QED
      BY <2>1, <3>1, OtherDeviceKeeps DEF KeepInv
  <2> QED
    BY <1>1, <2>2, <2>3 DEF KeepInv
<1> QED
  BY <1>2, <1>3 DEF Next

\* An edit of a note is kept on any number of devices, with any clocks, however often
\* they reconcile, roll back and lose their pages: lost are only the exposed ones.
THEOREM EditsAreKept == Spec => []EditIsKept
<1>1. KeepInv => EditIsKept
  <2> SUFFICES ASSUME KeepInv, NEW n \in DOMAIN edits \ exposed, edits[n].key \in Preserving,
                      ~edits[n].deletion,
                      \A m \in EditsOf(edits[n].dev) : edits[m].key = edits[n].key => m <= n
               PROVE  LET d == edits[n].dev
                          k == edits[n].key
                          InConflict(conf) == \E c \in conf : c.key = k /\ n \in {c.winner, c.loser}
                      IN  \/ \E g \in DOMAIN gens :
                                 \/ Recorded(g, k, n)
                                 \/ gens[g].snap.tomb[k] # None
                                 \/ Republished(g, k, n)
                          \/ /\ sync[d].dirty \/ unmarked[d]
                             /\ \/ local[d][k] = n
                                \/ InConflict(sync[d].conf)
                                \/ At(d, "settle") /\ InConflict(op[d].conf)
    BY DEF EditIsKept
  <2> DEFINE d == edits[n].dev
             k == edits[n].key
  <2>1. d \in Device
    <3>1. edits \in Seq(EditOf)
      BY DEF KeepInv, PublicationInv, DriveOK
    <3>2. edits[n] \in EditOf
      BY <3>1
    <3> QED
      BY <3>2 DEF EditOf
  <2>2. n \in Owed(d, k)
    BY DEF Owed, EditsOf
  <2>3. Held(d, k, n)
    BY <2>1, <2>2 DEF KeepInv, Keeps, KeptEdit
  <2>4. Arrived(k, n) => \E g \in DOMAIN gens :
                             \/ Recorded(g, k, n)
                             \/ gens[g].snap.tomb[k] # None
                             \/ Republished(g, k, n)
    BY DEF Arrived, Holds, Kept, Recorded
  <2> HIDE DEF d, k
  <2>5. \/ \E g \in DOMAIN gens :
               \/ Recorded(g, k, n)
               \/ gens[g].snap.tomb[k] # None
               \/ Republished(g, k, n)
        \/ /\ sync[d].dirty \/ unmarked[d]
           /\ \/ local[d][k] = n
              \/ Kept(n, sync[d].conf, k)
              \/ At(d, "settle") /\ Kept(n, op[d].conf, k)
    BY <2>3, <2>4 DEF Held, Fresh
  <2> QED
    BY <2>5 DEF d, k, Kept
<1>2. KeepInv /\ [Next]_vars => KeepInv'
  BY KeepStep
<1>3. Init => KeepInv
  BY KeepInit
<1> QED
  BY <1>1, <1>2, <1>3, PTL DEF Spec

================================================================================
