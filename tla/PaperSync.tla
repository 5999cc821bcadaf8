------------------------------- MODULE PaperSync -------------------------------
(* One present paper on several devices: local edits, the dirty mark, uploads   *)
(* that reconcile with the heads in Drive, downloads, and "keep local".         *)
(*   paperLocalAdapter.ts     builds a package, applies a downloaded one         *)
(*   paperCoordinator.ts      markDirty, upload, download, keep local            *)
(*   paperDriveRepository.ts  publishPaperAfterLayoutAuthorization, downloadPaper*)
(* An operation of a device is several steps; edits on the same device and all  *)
(* steps of the other devices come in between. A device runs one operation at a *)
(* time: the coordinator owns the Drive operation from its start to its end.    *)
(*                                                                              *)
(* Abstracted: the presence checks (PaperPresence has them), the original PDF   *)
(* and the print PDF, the encoding of payloads. Local edits reach IndexedDB     *)
(* whole. The n-th edit of a behaviour writes the value n.                      *)

EXTENDS SnapshotMerge, SequencesExt

CONSTANTS Device,    \* device ids, ordered as text is in the code
          Skew,      \* how far ahead the clock of each device is
          MaxEdits,  \* bound: local edits and deletions, the first import included
          MaxGens,   \* bound: manifest generations in Drive
          MaxKeeps,  \* bound: those of them published by "keep local"
          Losing     \* bound: devices whose page may close, whose storage may fail

ASSUME DeviceAssumption == Device \subseteq Nat /\ Skew \in [Device -> Nat] /\ Losing \subseteq Device

ASSUME BoundAssumption == MaxEdits \in Nat \ {0} /\ MaxGens \in Nat /\ MaxKeeps \in Nat

VARIABLES gens,     \* immutable manifest generations in Drive, in the order published
          local,    \* the entities in IndexedDB of each device
          unmarked, \* a local write whose change event is not handled yet
          sync,     \* the PaperSyncState of each device
          op,       \* the operation each device is running
          edits,    \* history: device and key of every edit and deletion so far
          exposed   \* history: edits made where the code cannot hold on to them

vars == <<gens, local, unmarked, sync, op, edits, exposed>>

--------------------------------------------------------------------------------
(* Drive *)

Kinds == {"upload", "keep-local"}

Heads == {g \in DOMAIN gens : \A h \in DOMAIN gens : g \notin gens[h].parents}

\* The ids are hashes and their order means nothing; SnapshotFold shows it does not
\* matter while the paper is not deleted.
FoldOf(ids) == LET order == SetToSeq(ids)
               IN  FoldHeads([i \in 1..Len(order) |-> gens[order[i]]])

--------------------------------------------------------------------------------
(* A device *)

Now(d) == Len(edits) + Skew[d]

\* The updatedAt the application stored with a value.
UpdatedAt(n) == n + Skew[edits[n].dev]

Later(a, b) == IF a >= b THEN a ELSE b

\* addEntity: a value that still has its last known hash keeps its version, any
\* other is newer than that version and than its own updatedAt, by this device.
PackagedVersion(d, k) ==
    LET known == sync[d].entities[k]
        value == local[d][k]
    IN  IF value = None THEN None
        ELSE IF known # None /\ known.val = value THEN known
        ELSE [at |-> Later(UpdatedAt(value), IF known = None THEN 0 ELSE known.at + 1),
              dev |-> d, val |-> value]

\* tombstonesForMissingEntities: what was known and is not here was deleted here.
PackagedTombstone(d, k) ==
    LET known == sync[d].entities[k]
    IN  CASE local[d][k] # None -> None
          [] local[d][k] = None /\ sync[d].tomb[k] # None -> sync[d].tomb[k]
          [] local[d][k] = None /\ sync[d].tomb[k] = None /\ known # None ->
                 [at |-> Later(Now(d), known.at + 1), dev |-> known.dev]
          [] OTHER -> None

Package(d) == [live |-> [k \in Key |-> PackagedVersion(d, k)],
               tomb |-> [k \in Key |-> PackagedTombstone(d, k)]]

ValuesOf(snap) == [k \in Key |-> IF snap.live[k] = None THEN None ELSE snap.live[k].val]

Present(d) == local[d][Paper] # None

FreshSync == [entities |-> [k \in Key |-> None], baseline |-> [k \in Key |-> None],
              tomb |-> [k \in Key |-> None], conf |-> {}, incorporated |-> {},
              dirty |-> FALSE, generation |-> 0]

Idle == [step |-> "idle", kind |-> "upload", captured |-> 0, heads |-> {},
         snap |-> EmptySnapshot, conf |-> {}, merged |-> FALSE,
         before |-> FreshSync, old |-> [k \in Key |-> None], since |-> 0]

Steps == {"idle", "reconcile", "publish", "verify", "settle-noop", "apply", "settle"}

At(d, step) == op[d].step = step

EditsOf(d) == {n \in DOMAIN edits : edits[n].dev = d}

\* Edits before this one were marked.
FirstUnmarked(d) ==
    IF unmarked[d] THEN CHOOSE n \in EditsOf(d) : \A m \in EditsOf(d) : m <= n
    ELSE Len(edits) + 1

\* One device has just imported the paper; nothing is in Drive.
Init ==
    \E importer \in Device :
        /\ gens = <<>>
        /\ edits = <<[dev |-> importer, key |-> Paper, deletion |-> FALSE]>>
        /\ local = [d \in Device |-> [k \in Key |-> IF d = importer /\ k = Paper THEN 1 ELSE None]]
        /\ unmarked = [d \in Device |-> d = importer]
        /\ sync = [d \in Device |-> FreshSync]
        /\ op = [d \in Device |-> Idle]
        /\ exposed = {}

--------------------------------------------------------------------------------
(* Local changes *)

Write(d, k, value) ==
    /\ Len(edits) < MaxEdits
    /\ Present(d) /\ ~unmarked[d]
    /\ edits' = Append(edits, [dev |-> d, key |-> k, deletion |-> value = None])
    /\ local' = [local EXCEPT ![d][k] = value]
    /\ unmarked' = [unmarked EXCEPT ![d] = TRUE]
    /\ UNCHANGED <<gens, sync, op, exposed>>

\* A note, annotation or conversation made anew has a new id: nothing deleted returns.
Edit(d, k) ==
    /\ local[d][k] # None \/ ~\E n \in DOMAIN edits : edits[n].key = k /\ edits[n].deletion
    /\ Write(d, k, Len(edits) + 1)

Delete(d, k) == k # Paper /\ local[d][k] # None /\ Write(d, k, None)

MarkDirty(d) ==
    /\ unmarked[d]
    /\ unmarked' = [unmarked EXCEPT ![d] = FALSE]
    /\ sync' = [sync EXCEPT ![d].dirty = TRUE, ![d].generation = @ + 1]
    /\ UNCHANGED <<gens, local, op, edits, exposed>>

--------------------------------------------------------------------------------
(* Upload and keep local *)

\* flushPersistenceChanges: pending changes are marked before the operation begins.
BeginUpload(d) ==
    /\ At(d, "idle") /\ ~unmarked[d]
    /\ sync[d].dirty
    /\ op' = [op EXCEPT ![d] = [Idle EXCEPT !.step = "reconcile",
                                            !.captured = sync[d].generation]]
    /\ UNCHANGED <<gens, local, unmarked, sync, edits, exposed>>

\* Offered for a paper with an update in Drive this device has not incorporated.
BeginKeepLocal(d) ==
    /\ At(d, "idle") /\ ~unmarked[d]
    /\ Present(d)
    /\ Cardinality({g \in DOMAIN gens : gens[g].kind = "keep-local"}) < MaxKeeps
    /\ \E h \in Heads : h \notin sync[d].incorporated
    /\ op' = [op EXCEPT ![d] = [Idle EXCEPT !.step = "reconcile", !.kind = "keep-local",
                                            !.captured = sync[d].generation]]
    /\ UNCHANGED <<gens, local, unmarked, sync, edits, exposed>>

\* createPaperPackage, and the package reconciled with the heads in Drive. Keep local
\* only takes the conflicts of the heads. One head that already says all this makes
\* an upload a no-op. A snapshot that may not be published is refused (Fail).
Reconcile(d) ==
    /\ At(d, "reconcile")
    /\ Present(d)
    /\ LET own == Package(d)
           remote == FoldOf(Heads)
           conf == IF Heads = {} THEN sync[d].conf
                   ELSE IF op[d].kind = "keep-local" THEN sync[d].conf \cup remote.conf
                   ELSE sync[d].conf \cup remote.conf
                            \cup Conflicts(own, remote.snap, sync[d].baseline)
           snap == IF Heads = {} \/ op[d].kind = "keep-local" THEN own
                   ELSE MergeSnapshots(own, remote.snap)
           noOp == /\ op[d].kind = "upload"
                   /\ \E g \in Heads : /\ Heads = {g}
                                       /\ gens[g].snap = snap /\ gens[g].conf = conf
       IN  /\ Publishable(snap)
           /\ op' = [op EXCEPT ![d].step = IF noOp THEN "settle-noop" ELSE "publish",
                               ![d].heads = Heads, ![d].snap = snap, ![d].conf = conf]
    /\ UNCHANGED <<gens, local, unmarked, sync, edits, exposed>>

Publish(d) ==
    /\ At(d, "publish")
    /\ Len(gens) < MaxGens
    /\ gens' = Append(gens, [snap |-> op[d].snap, conf |-> op[d].conf,
                             parents |-> op[d].heads, kind |-> op[d].kind, by |-> d])
    /\ op' = [op EXCEPT ![d].step = "verify", ![d].heads = {Len(gens) + 1}]
    /\ UNCHANGED <<local, unmarked, sync, edits, exposed>>

\* Mutant: the paper is clean whatever was written since the package was captured.
SettledDirtyAlways(d, captured) == FALSE

\* settleCapturedDirtyGeneration
SettledDirty(d, captured) == sync[d].dirty /\ sync[d].generation # captured

ApplyPublishResult(d) ==
    /\ sync' = [sync EXCEPT ![d] =
                  [entities |-> op[d].snap.live, baseline |-> ValuesOf(op[d].snap),
                   tomb |-> op[d].snap.tomb, conf |-> op[d].conf,
                   incorporated |-> op[d].heads,
                   dirty |-> SettledDirty(d, op[d].captured),
                   generation |-> @.generation]]
    /\ op' = [op EXCEPT ![d] = Idle]
    /\ UNCHANGED <<gens, local, unmarked, edits, exposed>>

\* The published generation must be the only head; if it is not, see Fail.
VerifyPublication(d) == At(d, "verify") /\ Heads = op[d].heads /\ ApplyPublishResult(d)

SettleNoOp(d) == At(d, "settle-noop") /\ ApplyPublishResult(d)

--------------------------------------------------------------------------------
(* Download *)

\* The heads are read, folded, and found to be still the heads; then the pending local
\* changes of the paper are merged into what was downloaded.
Download(d) ==
    /\ At(d, "idle")
    /\ Heads # {}
    /\ LET own == Package(d)
           remote == FoldOf(Heads)
           changed == sync[d].dirty /\ Present(d)
       IN  op' = [op EXCEPT ![d] =
                    [Idle EXCEPT !.step = "apply", !.heads = Heads, !.merged = changed,
                                 !.snap = IF changed THEN MergeSnapshots(own, remote.snap)
                                          ELSE remote.snap,
                                 !.conf = IF changed
                                          THEN remote.conf \cup Conflicts(own, remote.snap, sync[d].baseline)
                                          ELSE remote.conf,
                                 !.captured = sync[d].generation,
                                 !.before = sync[d], !.since = FirstUnmarked(d)]]
    /\ UNCHANGED <<gens, local, unmarked, sync, edits, exposed>>

EditsSinceMerge(d) == {n \in EditsOf(d) : n >= op[d].since}

\* applyDownloadedPaper: the paper is replaced in IndexedDB, and with it whatever was
\* written since the local changes were merged.
ApplyDownload(d) ==
    /\ At(d, "apply")
    /\ exposed' = exposed \cup EditsSinceMerge(d)
    /\ local' = [local EXCEPT ![d] = ValuesOf(op[d].snap)]
    /\ op' = [op EXCEPT ![d].step = "settle", ![d].old = local[d]]
    /\ UNCHANGED <<gens, unmarked, sync, edits>>

\* The conflicts of what was downloaded take the place of those in the sync state.
SettleDownload(d) ==
    /\ At(d, "settle")
    /\ exposed' = exposed \cup {n \in EditsOf(d) : \E c \in sync[d].conf \ op[d].conf :
                                                    n \in {c.winner, c.loser}}
    /\ sync' = [sync EXCEPT ![d] =
                  [entities |-> op[d].snap.live, baseline |-> ValuesOf(FoldOf(op[d].heads).snap),
                   tomb |-> op[d].snap.tomb, conf |-> op[d].conf,
                   incorporated |-> op[d].heads,
                   dirty |-> IF op[d].merged THEN sync[d].dirty
                             ELSE SettledDirty(d, op[d].captured),
                   generation |-> @.generation]]
    /\ op' = [op EXCEPT ![d] = Idle]
    /\ UNCHANGED <<gens, local, unmarked, edits>>

\* The application failed: the paper is put back as it was.
RollbackApplication(d) ==
    /\ d \in Losing
    /\ At(d, "settle")
    /\ local' = [local EXCEPT ![d] = op[d].old]
    /\ exposed' = exposed \cup EditsSinceMerge(d)
    /\ op' = [op EXCEPT ![d] = Idle]
    /\ UNCHANGED <<gens, unmarked, sync, edits>>

\* The settlement failed: the sync state is put back too, as it was when the local
\* changes were merged. A dirty mark set since then is lost.
RollbackSettlement(d) ==
    /\ d \in Losing
    /\ At(d, "settle")
    /\ local' = [local EXCEPT ![d] = op[d].old]
    /\ sync' = [sync EXCEPT ![d] = op[d].before]
    /\ exposed' = exposed \cup EditsSinceMerge(d)
    /\ op' = [op EXCEPT ![d] = Idle]
    /\ UNCHANGED <<gens, unmarked, edits>>

--------------------------------------------------------------------------------

\* A refused or failed request, a verification that finds another head, a cancel.
Fail(d) ==
    /\ op[d].step \notin {"idle", "settle"}
    /\ op' = [op EXCEPT ![d] = Idle]
    /\ UNCHANGED <<gens, local, unmarked, sync, edits, exposed>>

\* The page goes away: nothing is rolled back, a change event that was not handled is
\* gone, and of a downloaded paper already applied the new sync state with the
\* conflicts. Only what IndexedDB holds is there when the page comes back.
ClosePage(d) ==
    /\ d \in Losing
    /\ At(d, "settle") \/ unmarked[d]
    /\ op' = [op EXCEPT ![d] = Idle]
    /\ unmarked' = [unmarked EXCEPT ![d] = FALSE]
    /\ exposed' = exposed \cup {n \in EditsOf(d) : n >= FirstUnmarked(d)}
                          \cup (IF At(d, "settle")
                                THEN {n \in EditsOf(d) : \E k \in Key : op[d].old[k] = n}
                                ELSE {})
    /\ UNCHANGED <<gens, local, sync, edits>>

Step(d) ==
    \/ \E k \in Key : Edit(d, k) \/ Delete(d, k)
    \/ MarkDirty(d)
    \/ BeginUpload(d) \/ BeginKeepLocal(d) \/ Reconcile(d) \/ Publish(d)
    \/ VerifyPublication(d) \/ SettleNoOp(d)
    \/ Download(d) \/ ApplyDownload(d) \/ SettleDownload(d)
    \/ RollbackApplication(d) \/ RollbackSettlement(d)
    \/ Fail(d) \/ ClosePage(d)

Next == \E d \in Device : Step(d)

Spec == Init /\ [][Next]_vars

--------------------------------------------------------------------------------
(* Properties *)

\* What a generation says of an entity is nowhere older than what its parents say:
\* an upload never brings back a value or a deletion of a parent that was superseded,
\* however many heads it reconciles and whatever the clocks of their writers.
PublishedNeverRegresses ==
    \A g \in DOMAIN gens : gens[g].kind = "upload" =>
        \A p \in gens[g].parents, k \in Key :
            LET was == gens[p].snap
                is == gens[g].snap
            IN  /\ was.live[k] # None =>
                       \/ is.live[k] # None /\ AtLeast(is.live[k], was.live[k])
                       \/ is.tomb[k] # None /\ Deletes(is.tomb[k], was.live[k])
                /\ was.tomb[k] # None =>
                       is.tomb[k] # None /\ ~LaterDeletion(was.tomb[k], is.tomb[k])

\* Every reader refuses a paper with a generation that lacks a conflict of one of its
\* parents (paperManifestPreservesParent): nothing publishes one, "keep local" included.
ParentsArePreserved ==
    \A g \in DOMAIN gens : \A p \in gens[g].parents : gens[p].conf \subseteq gens[g].conf

Recorded(g, k, value) ==
    \/ gens[g].snap.live[k] # None /\ gens[g].snap.live[k].val = value
    \/ \E c \in gens[g].conf : c.key = k /\ value \in {c.winner, c.loser}

\* Two devices that edit one note unaware of each other both keep their text: the
\* generation that joins the two heads has both, as the note or in its conflicts,
\* unless one of the heads it joins had deleted the note.
ForkKeepsBoth ==
    \A g \in DOMAIN gens : \A p, q \in gens[g].parents : \A k \in Preserving :
        LET v == gens[p].snap.live[k]
            w == gens[q].snap.live[k]
        IN  (/\ v # None /\ w # None /\ v.val # w.val
             /\ \A h \in gens[g].parents : gens[h].snap.tomb[k] = None)
                => Recorded(g, k, v.val) /\ Recorded(g, k, w.val)

\* A value of before the n-th edit that was published again as a newer one: see
\* ReplacedValueStaysReplaced. To a device that had it as its baseline it looks like
\* no change at all, so that device keeps no conflict when it takes the place of n.
Republished(g, k, n) ==
    LET v == gens[g].snap.live[k] IN v # None /\ v.val < n /\ v.at >= UpdatedAt(n)

\* An edit of a note that its device did not replace itself is kept: it reached Drive,
\* as the note or in a conflict, or a deletion did, or the paper is still dirty (or about
\* to be marked so) and the edit on the device, in the paper or in a conflict of it. So a
\* late edit outlives the operation it came in the middle of, and no reconciliation of
\* an upload or a download drops the losing side. Lost are only the edits in "exposed".
EditIsKept ==
    \A n \in DOMAIN edits \ exposed :
        LET d == edits[n].dev
            k == edits[n].key
            last == \A m \in EditsOf(d) : edits[m].key = k => m <= n
            InConflict(conf) == \E c \in conf : c.key = k /\ n \in {c.winner, c.loser}
        IN  (k \in Preserving /\ ~edits[n].deletion /\ last) =>
                \/ \E g \in DOMAIN gens :
                       \/ Recorded(g, k, n)
                       \/ gens[g].snap.tomb[k] # None
                       \/ Republished(g, k, n)
                \/ /\ sync[d].dirty \/ unmarked[d]
                   /\ \/ local[d][k] = n
                      \/ InConflict(sync[d].conf)
                      \/ At(d, "settle") /\ InConflict(op[d].conf)

Ancestors[g \in DOMAIN gens] ==
    gens[g].parents \cup UNION {Ancestors[p] : p \in gens[g].parents}

\* "Publication resolves the current remote heads, deterministically reconciles them
\* with the local paper": what another device replaced before a device published stays
\* replaced. The code puts it back: a device that reconciled its upload with the other
\* device's head takes over its version and hash but not its value, so with its next
\* upload it publishes the old value, still in its IndexedDB, as a newer edit.
ReplacedValueStaysReplaced ==
    \A g \in DOMAIN gens : gens[g].kind = "upload" =>
        \A p \in Ancestors[g] : \A a \in gens[p].parents : \A k \in Key :
            LET first == gens[a].snap.live[k]
                second == gens[p].snap.live[k]
                third == gens[g].snap.live[k]
            IN  ~(/\ first # None /\ second # None /\ third # None
                  /\ first.val = third.val /\ second.val # first.val
                  /\ gens[p].kind = "upload" /\ gens[p].by # gens[g].by)

\* "Newer edit beats an older tombstone": a device that has incorporated all the heads
\* and has changes of its own can upload them. The code refuses it for good once an
\* entity was deleted on one device and edited later on another: merging keeps the
\* tombstone beside the newer entity, and no package may hold both.
NewerEditCanBePublished ==
    \A d \in Device :
        (/\ At(d, "idle") /\ sync[d].dirty /\ ~unmarked[d]
         /\ Heads # {} /\ sync[d].incorporated = Heads)
            => Publishable(MergeSnapshots(Package(d), FoldOf(Heads).snap))

================================================================================
