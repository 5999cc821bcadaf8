------------------------------ MODULE LocalRemoval ------------------------------
(* Removing a paper from this device while transfers of it run: the local-        *)
(* removal epochs of paperCoordinator.ts. The removal is IndexedDB transactions    *)
(* of the application (AppLayout.tsx), announced to the coordinator as started,    *)
(* committed or aborted. It takes no ownership of Drive: uploads, downloads and    *)
(* scans, of which one at a time owns Drive, find out from the epoch they captured *)
(* that the paper was removed under them, and a committed removal queues a         *)
(* reconciliation of its own behind them.                                          *)
(*                                                                                 *)
(* One paper, one device; other devices only add notes. Abstracted: the merge of   *)
(* versions (PaperSync), presence (PaperPresence: the paper stays present in       *)
(* Drive), who owns Drive (OperationOwner: the head of the queue), which issue a   *)
(* failure raises, and when automatic sync asks for an upload (at any time).       *)

EXTENDS Integers, Sequences, FiniteSets

CONSTANTS MaxNotes,    \* bound: notes written on any device
          MaxRemovals, \* bound: removals started on this device
          MaxHeads,    \* bound: generations published in Drive
          MaxRequests, \* bound: downloads and scans
          None

ASSUME BoundAssumption == /\ MaxNotes \in Nat /\ MaxRemovals \in Nat
                          /\ MaxHeads \in Nat /\ MaxRequests \in Nat

VARIABLES heads,     \* the notes of each generation in Drive, the last is the head
          listed,    \* the generation the catalog lists, 0 if it has no such paper
          present,   \* the paper is in IndexedDB
          notes,     \* its notes there
          state,     \* its PaperSyncState, or None
          removal,   \* how far the removal of the application is
          epoch,     \* localRemovalEpochs
          committed, \* committedLocalRemovalEpochs
          pending,   \* in pendingLocalRemovalReconcileIds
          drained,   \* the epoch captured by the reconciliation that runs or waits
          queue,     \* operations, the head owns Drive
          op,        \* the operation that owns Drive, as far as it is
          requests,  \* bound: downloads and scans asked for so far
          written,   \* history: notes written so far
          origin,    \* history: the epoch the local copy belongs to
          uploaded,  \* history: the last generation this device published
          exposed,   \* history: notes written where the code does not keep their mark
          excused    \* history: what no code path made up for yet, of Excuses

vars == <<heads, listed, present, notes, state, removal, epoch, committed, pending, drained,
          queue, op, requests, written, origin, uploaded, exposed, excused>>

drive == <<heads, listed>>
copy == <<present, notes, origin>>
removing == <<removal, epoch, committed, pending, drained>>
history == <<written, uploaded, exposed, excused>>

--------------------------------------------------------------------------------

Note == 1..MaxNotes

Kind == {"upload", "download", "scan", "reconcile"}

Steps == {"idle", "check", "local", "read", "publish", "fetch", "refresh", "apply",
          "replace", "settle", "discard", "save"}

\* "torn": a refused transaction left the copy and the state apart, or a copy opened again
\* was discarded; "unread": a reconciliation could not read Drive, or left the paper to that
\* of a later removal, which is then perhaps aborted.
Excuses == {"torn", "unread"}

Availability == {"local-only", "local-and-cloud", "cloud-only"}

PaperState == [avail : Availability, dirty : BOOLEAN, generation : Nat, known : Nat,
               versions : SUBSET Note]

ASSUME NoneAssumption == None \notin PaperState

\* Of an operation the coordinator keeps its kind, how far it is, what it captured, and
\* what it read. "from", "since" and "opened" are history: the head and the notes there
\* were when it began or merged, and whether the file was opened again since it began.
Idle == [kind |-> "scan", step |-> "idle", epoch |-> 0, generation |-> 0, head |-> 0,
         from |-> 0, attempt |-> 1, notes |-> {}, merged |-> FALSE, before |-> None,
         old |-> {}, had |-> FALSE, since |-> 0,
         opened |-> FALSE]

Newest == Len(heads)

InDrive == IF Newest = 0 THEN {} ELSE heads[Newest]

Active == removal # "no"

Queued(kind) == \E i \in DOMAIN queue : queue[i] = kind

\* The reconciliation that runs or waits for Drive; there is one at a time.
Draining == Queued("reconcile")

\* createDefaultPaperSyncState
DefaultState(avail) ==
    [avail |-> avail, dirty |-> avail = "local-only",
     generation |-> IF avail = "local-only" THEN 1 ELSE 0, known |-> 0, versions |-> {}]

Init ==
    /\ heads = <<>> /\ listed = 0
    /\ present = FALSE /\ notes = {} /\ origin = 0
    /\ state = None
    /\ removal = "no" /\ epoch = 0 /\ committed = 0 /\ pending = FALSE /\ drained = 0
    /\ queue = <<>> /\ op = Idle /\ requests = 0
    /\ written = 0 /\ uploaded = 0 /\ exposed = {} /\ excused = {}

--------------------------------------------------------------------------------
(* The user, and other devices *)

\* markDirty: generic changes are ignored while a removal owns the document.
MarkDirty ==
    state' = IF Active THEN state
             ELSE IF state = None
                  THEN [DefaultState("local-only") EXCEPT !.dirty = TRUE, !.generation = 1]
                  ELSE [state EXCEPT !.dirty = TRUE, !.generation = @ + 1,
                                     !.avail = IF state.known > 0 THEN "local-and-cloud"
                                               ELSE "local-only"]

\* A file is opened: its paper is new here, or was removed and is opened again, perhaps
\* while a copy is there that a transfer is about to discard.
Open ==
    /\ ~present \/ origin < committed
    /\ ~Active
    /\ present' = TRUE /\ origin' = epoch
    /\ op' = IF op.kind = "download" THEN [op EXCEPT !.opened = TRUE] ELSE op
    /\ MarkDirty
    /\ UNCHANGED <<drive, notes, removing, queue, requests, history>>

\* A removal closes the paper, and a copy applied by a transfer is not announced before it
\* is settled: the user edits no other copy than an opened or a settled one.
\* Until a reconciliation is over it may still clear the mark of a paper opened again.
Edit ==
    /\ present /\ committed <= origin
    /\ written < MaxNotes
    /\ written' = written + 1
    /\ notes' = notes \cup {written + 1}
    /\ MarkDirty
    /\ exposed' = IF Active \/ pending \/ Draining THEN exposed \cup {written + 1} ELSE exposed
    /\ UNCHANGED <<drive, present, origin, removing, queue, op, requests, uploaded, excused>>

\* Another device publishes a note of its own on top of what is in Drive.
OtherDevicePublishes ==
    /\ 0 < Newest /\ Newest < MaxHeads
    /\ written < MaxNotes
    /\ written' = written + 1
    /\ heads' = Append(heads, InDrive \cup {written + 1})
    /\ UNCHANGED <<listed, copy, state, removing, queue, op, requests, uploaded, exposed,
                   excused>>

--------------------------------------------------------------------------------
(* The removal: forgetDocument in AppLayout.tsx and the lifecycle it announces *)

\* beginLocalRemoval, of a copy the user is shown
StartRemoval ==
    /\ present /\ committed <= origin
    /\ ~Active
    /\ epoch < MaxRemovals
    /\ removal' = "started"
    /\ epoch' = epoch + 1
    /\ UNCHANGED <<drive, copy, state, committed, pending, drained, queue, op, requests,
                   history>>

\* deleteDocumentState
DeleteCopy ==
    /\ removal = "started"
    /\ removal' = "deleted"
    /\ present' = FALSE /\ notes' = {} /\ origin' = 0
    /\ op' = [op EXCEPT !.opened = FALSE]
    /\ exposed' = {}
    /\ UNCHANGED <<drive, state, epoch, committed, pending, drained, queue, requests, written,
                   uploaded, excused>>

\* A transaction was refused. If it was the second, of the productivity data, the copy
\* is gone and the state still says it is here.
AbortRemoval ==
    /\ removal \in {"started", "deleted"}
    /\ removal' = "no"
    /\ excused' = IF removal = "deleted" THEN excused \cup {"torn"} ELSE excused
    /\ UNCHANGED <<drive, copy, state, epoch, committed, pending, drained, queue, op, requests,
                   written, uploaded, exposed>>

\* What is left of the state of a paper that is in Drive and not here.
CloudOnly(s, known) == [s EXCEPT !.avail = "cloud-only", !.dirty = FALSE, !.known = known]

\* Mutant: the paper is cloud-only, and what it had to upload still marked.
SettleStateDirty ==
    LET s == IF state = None THEN DefaultState("cloud-only") ELSE state
        known == listed > 0 \/ s.known > 0
    IN  state' = IF ~known THEN None
                 ELSE [s EXCEPT !.avail = "cloud-only", !.known = IF listed > 0 THEN listed ELSE @]

\* handleLocalRemovalLifecycle, up to its await: a paper not known to be in Drive is
\* forgotten, any other is cloud-only and has nothing to upload.
SettleState ==
    LET s == IF state = None THEN DefaultState("cloud-only") ELSE state
        known == listed > 0 \/ s.known > 0
    IN  state' = IF ~known THEN None
                 ELSE CloudOnly(s, IF listed > 0 THEN listed ELSE s.known)

CommitRemoval ==
    /\ removal = "deleted"
    /\ removal' = "committing"
    /\ SettleState
    /\ UNCHANGED <<drive, copy, epoch, committed, pending, drained, queue, op, requests, history>>

\* Mutant: only a paper known to be in Drive is checked there.
FinishKnownOnly ==
    /\ removal = "committing"
    /\ pending' = (pending \/ state # None)
    /\ committed' = epoch
    /\ removal' = "no"
    /\ UNCHANGED <<drive, copy, state, epoch, drained, queue, op, requests, history>>

\* The reconciliation is scheduled before whoever waits for the removal goes on.
FinishRemoval ==
    /\ removal = "committing"
    /\ pending' = TRUE
    /\ committed' = epoch
    /\ removal' = "no"
    /\ UNCHANGED <<drive, copy, state, epoch, drained, queue, op, requests, history>>

\* Mutant: a reconciliation does not wait for the one before it.
DrainAtOnce ==
    /\ pending
    /\ pending' = FALSE
    /\ drained' = epoch
    /\ queue' = Append(queue, "reconcile")
    /\ UNCHANGED <<drive, copy, state, removal, epoch, committed, op, requests, history>>

\* drainLocalRemovalReconciliation: the epochs are captured before it waits for Drive.
Drain ==
    /\ pending /\ ~Draining
    /\ pending' = FALSE
    /\ drained' = epoch
    /\ queue' = Append(queue, "reconcile")
    /\ UNCHANGED <<drive, copy, state, removal, epoch, committed, op, requests, history>>

--------------------------------------------------------------------------------
(* Operations, one after the other *)

\* startUpload of a dirty paper, by automatic sync or the user. Asked for again while
\* it waits or runs, it is the same operation (retainPaperOperation).
RequestUpload ==
    /\ ~Queued("upload")
    /\ state # None /\ state.dirty
    /\ queue' = Append(queue, "upload")
    /\ UNCHANGED <<drive, copy, state, removing, op, requests, history>>

RequestDownload ==
    /\ ~Queued("download")
    /\ listed > 0
    /\ requests < MaxRequests
    /\ requests' = requests + 1
    /\ queue' = Append(queue, "download")
    /\ UNCHANGED <<drive, copy, state, removing, op, history>>

\* scanCloudPapersOwned: not while a removal or its reconciliation is on its way
\* (waitForLocalRemovalSettlement), and not during a transfer.
RequestScan ==
    /\ ~\E kind \in Kind : Queued(kind)
    /\ ~Active /\ ~pending
    /\ requests < MaxRequests
    /\ requests' = requests + 1
    /\ queue' = Append(queue, "scan")
    /\ UNCHANGED <<drive, copy, state, removing, op, history>>

\* A transfer captures the epoch when it owns Drive.
Begin ==
    /\ op.step = "idle" /\ queue # <<>>
    /\ op' = [Idle EXCEPT !.kind = queue[1],
                          !.step = CASE queue[1] = "scan" -> "local"
                                       [] queue[1] = "reconcile" -> "read"
                                       [] OTHER -> "check",
                          !.epoch = IF queue[1] = "reconcile" THEN drained ELSE epoch,
                          !.from = IF queue[1] = "download" THEN Newest ELSE 0]
    /\ drained' = IF queue[1] = "reconcile" THEN 0 ELSE drained
    /\ UNCHANGED <<drive, copy, state, removal, epoch, committed, pending, queue, requests,
                   history>>

At(kind, step) == op.kind = kind /\ op.step = step

End == queue' = Tail(queue) /\ op' = Idle

\* Mutant: the check waits, while it owns Drive, for the reconciliation as well.
CheckedAndReconciled == ~Active /\ ~pending /\ ~Draining

\* staleBecauseLocalRemoval: a check waits until no removal is on its way; the operation
\* is stale if one was committed since it captured the epoch. One that was aborted
\* makes nothing stale.
Checked == ~Active

Stale == committed > op.epoch

\* A failed request, a refused transaction, a cancel: the operation ends. A transfer first
\* asks whether it is stale, and what is stale is no failure. A copy that could not be
\* discarded stays.
Fail ==
    /\ op.step \notin {"idle", "save"} /\ ~At("download", "settle")
    /\ op.kind \in {"upload", "download"} => Checked
    /\ End
    /\ excused' = CASE op.kind = "reconcile" -> excused \cup {"unread"}
                    [] At("download", "discard") -> excused \cup {"torn"}
                    [] OTHER -> excused
    /\ UNCHANGED <<drive, copy, state, removing, requests, written, uploaded, exposed>>

EndIfStale ==
    /\ At("upload", "check") \/ At("upload", "publish") \/ At("upload", "settle")
       \/ At("download", "check")
    /\ Checked /\ Stale
    /\ End
    /\ UNCHANGED <<drive, copy, state, removing, requests, history>>

--------------------------------------------------------------------------------
(* Upload: uploadSelectedOwned, for one paper *)

\* The first two checks; only the state is saved between them.
CheckUpload ==
    /\ At("upload", "check")
    /\ Checked /\ ~Stale
    /\ IF state = None \/ ~state.dirty THEN End
       ELSE /\ op' = [op EXCEPT !.step = "read", !.generation = state.generation]
            /\ UNCHANGED queue
    /\ UNCHANGED <<drive, copy, state, removing, requests, history>>

\* createPaperPackage. A paper that is not in IndexedDB fails. What the state knows of
\* and is not here any more is in the package as deleted (tombstonesForMissingEntities).
ReadPackage ==
    /\ At("upload", "read")
    /\ present /\ state # None
    /\ op' = [op EXCEPT !.step = "publish", !.notes = notes, !.old = state.versions \ notes]
    /\ UNCHANGED <<drive, copy, state, removing, queue, requests, history>>

\* publishPaper, when nothing was removed since the package was read. A generation that
\* says what the head says is not published.
Publish ==
    /\ At("upload", "publish")
    /\ Checked /\ ~Stale
    /\ LET published == (InDrive \cup op.notes) \ op.old
       IN  IF Newest > 0 /\ published = InDrive THEN UNCHANGED heads
           ELSE Newest < MaxHeads /\ heads' = Append(heads, published)
    /\ uploaded' = Len(heads')
    /\ op' = [op EXCEPT !.step = "settle", !.head = Len(heads'), !.notes = {}, !.old = {}]
    /\ UNCHANGED <<listed, copy, state, removing, queue, requests, written, exposed, excused>>

\* Mutant: the paper is clean whatever was written since its package was captured.
NeverDirty == FALSE

\* settleCapturedDirtyGeneration
SettledDirty == state.dirty /\ state.generation # op.generation

\* applyPublishResult and applyTransferCatalog
SettleUpload ==
    /\ At("upload", "settle")
    /\ Checked /\ ~Stale
    /\ state' = [avail |-> "local-and-cloud", dirty |-> SettledDirty,
                 generation |-> state.generation, known |-> op.head,
                 versions |-> heads[op.head]]
    /\ listed' = op.head
    /\ End
    /\ UNCHANGED <<heads, copy, removing, requests, history>>

--------------------------------------------------------------------------------
(* Download: downloadSelectedOwned, for one paper *)

CheckDownload ==
    /\ At("download", "check")
    /\ Checked /\ ~Stale
    /\ listed > 0
    /\ state' = IF state = None THEN DefaultState("cloud-only") ELSE state
    /\ op' = [op EXCEPT !.step = "fetch", !.head = listed]
    /\ UNCHANGED <<drive, copy, removing, queue, requests, history>>

\* Mutant: the generation is not compared with the head of Drive once it is read.
FetchUnverified ==
    /\ At("download", "fetch")
    /\ op' = [op EXCEPT !.step = "apply", !.notes = heads[op.head]]
    /\ UNCHANGED <<drive, copy, state, removing, queue, requests, history>>

\* downloadPaper, within runScopedPaperDownload: a snapshot that is still the head is
\* downloaded; otherwise the first attempt is followed by a refresh, the last by Fail.
Fetch ==
    /\ At("download", "fetch")
    /\ IF op.head = Newest
       THEN op' = [op EXCEPT !.step = "apply", !.notes = heads[op.head]]
       ELSE op.attempt = 1 /\ op' = [op EXCEPT !.step = "refresh"]
    /\ UNCHANGED <<drive, copy, state, removing, queue, requests, history>>

Refresh ==
    /\ At("download", "refresh")
    /\ op' = [op EXCEPT !.step = "fetch", !.attempt = 2, !.head = Newest]
    /\ UNCHANGED <<drive, copy, state, removing, queue, requests, history>>

\* What is applied: the snapshot, merged with the package of a paper that has changes.
Merged(changed) ==
    IF changed THEN (op.notes \cup notes) \ (state.versions \ notes) ELSE op.notes

\* The changes of the paper are merged, if it has any, before it is applied.
MergeDownload ==
    /\ At("download", "apply")
    /\ Checked /\ ~Stale
    /\ LET changed == state.dirty /\ state.avail # "cloud-only"
       IN  /\ changed => present
           /\ op' = [op EXCEPT !.step = "replace", !.notes = Merged(changed),
                               !.merged = changed, !.generation = state.generation,
                               !.before = state, !.since = written]
    /\ UNCHANGED <<drive, copy, state, removing, queue, requests, history>>

\* applyDownloadedPaper replaces the paper in IndexedDB, whatever a removal did to it.
ApplyDownload ==
    /\ At("download", "replace")
    /\ present' = TRUE /\ notes' = op.notes /\ origin' = op.epoch
    /\ op' = [op EXCEPT !.step = "settle", !.had = present, !.old = notes]
    /\ UNCHANGED <<drive, state, removing, queue, requests, history>>

\* Mutant: there is no check once the paper is applied.
SettleUnchecked ==
    /\ At("download", "settle")
    /\ Checked
    /\ state' = [avail |-> "local-and-cloud",
                 dirty |-> IF op.merged THEN state.dirty ELSE SettledDirty,
                 generation |-> state.generation, known |-> op.head, versions |-> op.notes]
    /\ op' = [op EXCEPT !.step = "save"]
    /\ UNCHANGED <<drive, copy, removing, queue, requests, history>>

\* The last check, and the sync state of the paper, which is then saved.
SettleDownload ==
    /\ At("download", "settle")
    /\ Checked /\ ~Stale
    /\ state' = [avail |-> "local-and-cloud",
                 dirty |-> IF op.merged THEN state.dirty ELSE SettledDirty,
                 generation |-> state.generation, known |-> op.head, versions |-> op.notes]
    /\ op' = [op EXCEPT !.step = "save"]
    /\ UNCHANGED <<drive, copy, removing, queue, requests, history>>

\* The state is saved, and the catalog lists what was downloaded.
FinishDownload ==
    /\ At("download", "save")
    /\ listed' = op.head
    /\ End
    /\ UNCHANGED <<heads, copy, state, removing, requests, history>>

\* finalizeAppliedPaperDownload: the state could not be saved. The copy and the state of
\* before the application are put back, and with them what a removal took since then;
\* the marks of what was written since then are lost. The copy put back belongs to an
\* epoch no later than the one captured.
RollBackDownload ==
    /\ At("download", "save")
    /\ present' = op.had /\ notes' = op.old
    /\ origin' = IF op.had THEN op.epoch ELSE 0
    /\ state' = op.before
    /\ exposed' = exposed \cup ((op.since + 1)..written)
    /\ excused' = IF Active \/ Stale THEN excused \cup {"torn"} ELSE excused
    /\ End
    /\ UNCHANGED <<drive, removing, requests, written, uploaded>>

\* A transfer found a removal committed after the snapshot was read, or applied.
DiscardDownload ==
    /\ At("download", "apply") \/ At("download", "settle")
    /\ Checked /\ Stale
    /\ op' = [op EXCEPT !.step = "discard"]
    /\ UNCHANGED <<drive, copy, state, removing, queue, requests, history>>

\* ensurePaperAbsent. It does not ask whose copy it removes: a paper opened again since
\* it was removed goes too, and its state stays.
EnsureAbsent ==
    /\ At("download", "discard")
    /\ present' = FALSE /\ notes' = {} /\ origin' = 0
    /\ excused' = IF present /\ op.opened THEN excused \cup {"torn"} ELSE excused
    /\ End
    /\ UNCHANGED <<drive, state, removing, requests, written, uploaded, exposed>>

--------------------------------------------------------------------------------
(* Scans, and the reconciliation of a removal *)

\* reconcileLocalPaperStates: what the state says is brought in line with IndexedDB.
ReconcileLocalState ==
    /\ At("scan", "local")
    /\ state' = IF present
                THEN IF state = None THEN DefaultState("local-only")
                     ELSE [state EXCEPT !.avail =
                             IF @ # "cloud-only" THEN @
                             ELSE IF state.known > 0 THEN "local-and-cloud" ELSE "local-only"]
                ELSE IF state # None /\ state.known > 0 THEN CloudOnly(state, state.known)
                     ELSE state
    /\ op' = [op EXCEPT !.step = "read"]
    /\ UNCHANGED <<drive, copy, removing, queue, requests, history>>

\* discoverPapers: the generation read is the head now, and need not be when it is applied.
ReadDrive ==
    /\ At("scan", "read") \/ At("reconcile", "read")
    /\ op' = [op EXCEPT !.step = "apply", !.head = Newest]
    /\ UNCHANGED <<drive, copy, state, removing, queue, requests, history>>

\* applyDiscovery, of the one paper
ApplyDiscovery ==
    /\ At("scan", "apply")
    /\ IF op.head = 0 THEN UNCHANGED <<state, listed>>
       ELSE LET avail == IF present THEN "local-and-cloud" ELSE "cloud-only"
                s == IF state = None THEN DefaultState(avail) ELSE state
            IN  /\ state' = [s EXCEPT !.avail = avail, !.known = op.head]
                /\ listed' = op.head
    /\ excused' = excused \ {"unread"}
    /\ End
    /\ UNCHANGED <<heads, copy, removing, requests, written, uploaded, exposed>>

\* applyLocalRemovalDiscovery: the paper is cloud-only, whether or not it was opened
\* again since, unless another removal of it started.
ApplyRemovalDiscovery ==
    /\ At("reconcile", "apply")
    /\ IF op.head = 0 \/ Active \/ epoch # op.epoch
       THEN /\ excused' = IF op.head = 0 THEN excused ELSE excused \cup {"unread"}
            /\ UNCHANGED <<state, listed>>
       ELSE LET s == IF state = None THEN DefaultState("cloud-only") ELSE state
            IN  /\ state' = CloudOnly(s, op.head)
                /\ listed' = op.head
                /\ excused' = excused \ {"unread"}
    /\ End
    /\ UNCHANGED <<heads, copy, removing, requests, written, uploaded, exposed>>

--------------------------------------------------------------------------------

Removal == StartRemoval \/ DeleteCopy \/ AbortRemoval \/ CommitRemoval \/ FinishRemoval

Operation ==
    \/ Begin \/ EndIfStale \/ Fail
    \/ CheckUpload \/ ReadPackage \/ Publish \/ SettleUpload
    \/ CheckDownload \/ Fetch \/ Refresh \/ MergeDownload \/ ApplyDownload
    \/ SettleDownload \/ FinishDownload \/ RollBackDownload
    \/ DiscardDownload \/ EnsureAbsent
    \/ ReconcileLocalState \/ ReadDrive \/ ApplyDiscovery \/ ApplyRemovalDiscovery

Next ==
    \/ Open \/ Edit \/ OtherDevicePublishes
    \/ RequestUpload \/ RequestDownload \/ RequestScan
    \/ Removal \/ Drain \/ Operation

\* A transaction of a removal ends, one way or the other, and a request of an operation
\* is answered or fails. Nobody has to remove, open or edit anything.
Fairness == WF_vars(Removal /\ Active) /\ WF_vars(Drain) /\ WF_vars(Operation)

Spec == Init /\ [][Next]_vars /\ Fairness

--------------------------------------------------------------------------------
(* Properties *)

TypeOK ==
    /\ heads \in Seq(SUBSET Note) /\ listed \in 0..Newest
    /\ present \in BOOLEAN /\ notes \subseteq Note /\ (~present => notes = {})
    /\ state \in PaperState \cup {None}
    /\ removal \in {"no", "started", "deleted", "committing"}
    /\ epoch \in Nat /\ committed \in 0..epoch /\ drained \in 0..epoch
    /\ pending \in BOOLEAN
    /\ queue \in Seq(Kind) /\ \A i, j \in DOMAIN queue : queue[i] = queue[j] => i = j
    /\ op.step \in Steps /\ op.epoch \in 0..epoch /\ op.head \in 0..Newest
    /\ op.step # "idle" => queue # <<>> /\ op.kind = queue[1]
    /\ origin \in 0..epoch
    /\ uploaded \in 0..Newest /\ exposed \subseteq 1..written /\ written <= MaxNotes
    /\ excused \subseteq Excuses

\* A download that found out too late, and is about to take away what it applied.
Undoing == /\ op.kind = "download" /\ op.step \in {"settle", "discard"}
           /\ origin = op.epoch

\* A paper removed from this device does not come back through a transfer that began
\* before the removal: a copy such a transfer put there after the removal took the old
\* one away is only there until that same transfer takes it away again.
RemovedStaysRemoved ==
    (present /\ origin < committed /\ "torn" \notin excused) => Undoing

\* Whatever transfer or scan ran while a paper was removed, what is left of it here has
\* nothing to upload: an absence made on purpose is not published as a change.
AbsentIsNotDirty ==
    (~present /\ ~Active /\ state # None /\ "torn" \notin excused) => ~state.dirty

Settled == ~Active /\ ~pending /\ queue = <<>>

\* When a removal has settled, the catalog lists the paper if an upload that was under
\* way published it, even one that found itself stale and recorded nothing.
RemovalConverges ==
    (Settled /\ ~present /\ uploaded > 0 /\ excused = {}) =>
        /\ listed >= uploaded
        /\ state # None /\ state.avail = "cloud-only"

\* A paper that is here and not marked has no note that Drive lacks, but for those the
\* code is known not to keep the mark of: an edit made while a transfer runs is never
\* taken for one of those the transfer published or merged.
CleanIsInDrive ==
    (present /\ state # None /\ ~state.dirty /\ ~Active /\ ~Undoing /\ "torn" \notin excused)
        => notes \ exposed \subseteq InDrive

\* What a download applies was the head of Drive at some time since it began, whatever
\* the catalog listed when the user asked for it.
DownloadIsFresh ==
    (op.kind = "download" /\ op.step \in {"replace", "settle", "save"}) => op.head >= op.from

\* Every operation ends: none waits, while it owns Drive, for something that waits for
\* Drive, so a removal and the operations around it never wait for each other.
OperationsEnd == (op.step # "idle") ~> (op.step = "idle")

\* Removing a paper from this device takes no note of it out of Drive, whatever is done
\* with the paper on this device afterwards. Nobody deletes a note in these behaviours, and
\* no transaction of the removal is refused.
NotesStayInDrive ==
    "torn" \notin excused => \A h \in DOMAIN heads : \A g \in 1..h : heads[g] \subseteq heads[h]

================================================================================
