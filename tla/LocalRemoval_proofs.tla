--------------------------- MODULE LocalRemoval_proofs ---------------------------
(* What a local removal leaves behind, for any number of notes, removals,          *)
(* generations and requests.                                                       *)

EXTENDS LocalRemoval, TLAPS

Torn == "torn" \in excused

Gone == removal \in {"deleted", "committing"}

Fields == {"kind", "step", "epoch", "generation", "head", "from", "attempt", "notes", "merged",
           "before", "old", "had", "since", "opened"}

Types ==
    /\ epoch \in Nat /\ committed \in Nat /\ drained \in Nat /\ origin \in Nat
    /\ DOMAIN op = Fields /\ op.epoch \in Nat

\* Epochs only grow: nothing was captured or committed in a later one than this one, and
\* while a removal is on its way its own epoch is not committed.
Epochs ==
    /\ committed <= epoch /\ drained <= epoch /\ origin <= epoch /\ op.epoch <= epoch
    /\ Active => committed < epoch

\* While a removal is between taking the copy away and its end, a copy that is there is
\* one the transfer that owns Drive just applied.
GoneCopies == (Gone /\ present /\ ~Torn) => Undoing

OldCopies == (present /\ origin < committed /\ ~Torn) => Undoing

Copies == Types /\ Epochs /\ GoneCopies /\ OldCopies

\* Nothing is here at the beginning, and nothing was removed.
LEMMA InitCopies == Init => Copies
  BY BoundAssumption DEF Init, Copies, Types, Epochs, GoneCopies, OldCopies, Idle, Active, Gone,
     Fields, Undoing, Torn

--------------------------------------------------------------------------------
(* The actions *)

\* A file is opened where nothing is removed: the copy belongs to the current epoch.
LEMMA OpenCopies == Copies /\ Open => Copies'
  BY DEF Open, MarkDirty, DefaultState, Idle, Copies, Types, Epochs, GoneCopies, OldCopies,
     Active, Gone, Fields, Undoing, Torn, At, drive, copy, removing, history

\* An edit leaves the epochs and the copy where they are.
LEMMA EditCopies == Copies /\ Edit => Copies'
  BY DEF Edit, MarkDirty, DefaultState, Idle, Copies, Types, Epochs, GoneCopies, OldCopies,
     Active, Gone, Fields, Undoing, Torn, At, drive, copy, removing, history

\* Another device touches nothing here.
LEMMA OtherDevicePublishesCopies == Copies /\ OtherDevicePublishes => Copies'
  BY DEF OtherDevicePublishes, Idle, Copies, Types, Epochs, GoneCopies, OldCopies, Active,
     Gone, Fields, Undoing, Torn, At, drive, copy, removing, history

\* A request only queues.
LEMMA RequestUploadCopies == Copies /\ RequestUpload => Copies'
  BY DEF RequestUpload, Idle, Copies, Types, Epochs, GoneCopies, OldCopies, Active, Gone,
     Fields, Undoing, Torn, At, drive, copy, removing, history

\* A request only queues.
LEMMA RequestDownloadCopies == Copies /\ RequestDownload => Copies'
  BY DEF RequestDownload, Idle, Copies, Types, Epochs, GoneCopies, OldCopies, Active, Gone,
     Fields, Undoing, Torn, At, drive, copy, removing, history

\* A request only queues.
LEMMA RequestScanCopies == Copies /\ RequestScan => Copies'
  BY DEF RequestScan, Idle, Copies, Types, Epochs, GoneCopies, OldCopies, Active, Gone,
     Fields, Undoing, Torn, At, drive, copy, removing, history

\* A removal starts an epoch of its own, and only of a copy that belongs to the last committed one.
LEMMA StartRemovalCopies == Copies /\ StartRemoval => Copies'
  BY DEF StartRemoval, Idle, Copies, Types, Epochs, GoneCopies, OldCopies, Active, Gone,
     Fields, Undoing, Torn, At, drive, copy, removing, history

\* The transaction of a removal leaves no copy.
LEMMA DeleteCopyCopies == Copies /\ DeleteCopy => Copies'
  BY DEF DeleteCopy, Idle, Copies, Types, Epochs, GoneCopies, OldCopies, Active, Gone,
     Fields, Undoing, Torn, At, drive, copy, removing, history

\* An aborted removal commits nothing; one that took the copy is excused.
LEMMA AbortRemovalCopies == Copies /\ AbortRemoval => Copies'
  BY DEF AbortRemoval, Idle, Copies, Types, Epochs, GoneCopies, OldCopies, Active, Gone,
     Fields, Undoing, Torn, At, drive, copy, removing, history

\* The state of the paper is settled before its epoch is committed.
LEMMA CommitRemovalCopies == Copies /\ CommitRemoval => Copies'
  BY DEF CommitRemoval, SettleState, CloudOnly, DefaultState, Idle, Copies, Types, Epochs,
     GoneCopies, OldCopies, Active, Gone, Fields, Undoing, Torn, At, drive, copy, removing,
     history

\* Committing an epoch makes a copy of an earlier one old: only the download under way has
\* one, by GoneCopies.
LEMMA FinishRemovalCopies == Copies /\ FinishRemoval => Copies'
  BY DEF FinishRemoval, Idle, Copies, Types, Epochs, GoneCopies, OldCopies, Active, Gone,
     Fields, Undoing, Torn, At, drive, copy, removing, history

\* A reconciliation captures the epoch.
LEMMA DrainCopies == Copies /\ Drain => Copies'
  BY DEF Drain, Idle, Copies, Types, Epochs, GoneCopies, OldCopies, Active, Gone, Fields,
     Undoing, Torn, At, drive, copy, removing, history

\* An operation captures the epoch when it owns Drive.
LEMMA BeginCopies == Copies /\ Begin => Copies'
  BY DEF Begin, Idle, Copies, Types, Epochs, GoneCopies, OldCopies, Active, Gone, Fields,
     Undoing, Torn, At, drive, copy, removing, history

\* A stale transfer that applied nothing just ends.
LEMMA EndIfStaleCopies == Copies /\ EndIfStale => Copies'
  BY DEF EndIfStale, Stale, Checked, End, Idle, Copies, Types, Epochs, GoneCopies,
     OldCopies, Active, Gone, Fields, Undoing, Torn, At, drive, copy, removing, history

\* A failure ends the operation; one that leaves a copy it had to discard is excused.
LEMMA FailCopies == Copies /\ Fail => Copies'
  BY DEF Fail, Checked, End, Idle, Copies, Types, Epochs, GoneCopies, OldCopies, Active,
     Gone, Fields, Undoing, Torn, At, drive, copy, removing, history

\* The checks of an upload change no copy.
LEMMA CheckUploadCopies == Copies /\ CheckUpload => Copies'
  <1> SUFFICES ASSUME Copies, CheckUpload PROVE Copies'
    OBVIOUS
  <1>1. CASE End
    BY <1>1 DEF CheckUpload, End, Idle, Copies, Types, Epochs, GoneCopies, OldCopies, Active,
       Gone, Fields, Undoing, Torn, At, drive, copy, removing, history
  <1>2. CASE op' = [op EXCEPT !.step = "read", !.generation = state.generation]
    BY <1>2 DEF CheckUpload, Idle, Copies, Types, Epochs, GoneCopies, OldCopies, Active,
       Gone, Fields, Undoing, Torn, At, drive, copy, removing, history
  <1> QED
    BY <1>1, <1>2 DEF CheckUpload

\* Reading a package changes no copy.
LEMMA ReadPackageCopies == Copies /\ ReadPackage => Copies'
  BY DEF ReadPackage, Idle, Copies, Types, Epochs, GoneCopies, OldCopies, Active, Gone,
     Fields, Undoing, Torn, At, drive, copy, removing, history

\* Publishing changes no copy.
LEMMA PublishCopies == Copies /\ Publish => Copies'
  BY DEF Publish, Stale, Checked, InDrive, Newest, Idle, Copies, Types, Epochs, GoneCopies,
     OldCopies, Active, Gone, Fields, Undoing, Torn, At, drive, copy, removing, history

\* Settling an upload changes no copy.
LEMMA SettleUploadCopies == Copies /\ SettleUpload => Copies'
  BY DEF SettleUpload, Stale, Checked, End, SettledDirty, Idle, Copies, Types, Epochs,
     GoneCopies, OldCopies, Active, Gone, Fields, Undoing, Torn, At, drive, copy, removing,
     history

\* The check of a download changes no copy.
LEMMA CheckDownloadCopies == Copies /\ CheckDownload => Copies'
  BY DEF CheckDownload, Stale, Checked, DefaultState, Idle, Copies, Types, Epochs,
     GoneCopies, OldCopies, Active, Gone, Fields, Undoing, Torn, At, drive, copy, removing,
     history

\* Reading a generation changes no copy.
LEMMA FetchCopies == Copies /\ Fetch => Copies'
  <1> SUFFICES ASSUME Copies, Fetch PROVE Copies'
    OBVIOUS
  <1>1. CASE op' = [op EXCEPT !.step = "apply", !.notes = heads[op.head]]
    BY <1>1 DEF Fetch, Idle, Copies, Types, Epochs, GoneCopies, OldCopies, Active,
       Gone, Fields, Undoing, Torn, At, drive, copy, removing, history
  <1>2. CASE op' = [op EXCEPT !.step = "refresh"]
    BY <1>2 DEF Fetch, Idle, Copies, Types, Epochs, GoneCopies, OldCopies, Active,
       Gone, Fields, Undoing, Torn, At, drive, copy, removing, history
  <1> QED
    BY <1>1, <1>2 DEF Fetch

\* Reading the head again changes no copy.
LEMMA RefreshCopies == Copies /\ Refresh => Copies'
  BY DEF Refresh, Newest, Idle, Copies, Types, Epochs, GoneCopies, OldCopies, Active, Gone,
     Fields, Undoing, Torn, At, drive, copy, removing, history

\* Merging changes no copy.
LEMMA MergeDownloadCopies == Copies /\ MergeDownload => Copies'
  BY DEF MergeDownload, Stale, Checked, Merged, Idle, Copies, Types, Epochs, GoneCopies,
     OldCopies, Active, Gone, Fields, Undoing, Torn, At, drive, copy, removing, history

\* What a download applies belongs to the epoch it captured, and the download is about to check it.
LEMMA ApplyDownloadCopies == Copies /\ ApplyDownload => Copies'
  BY DEF ApplyDownload, Idle, Copies, Types, Epochs, GoneCopies, OldCopies, Active, Gone,
     Fields, Undoing, Torn, At, drive, copy, removing, history

\* A download settles only when nothing was committed since its epoch and nothing is on its way.
LEMMA SettleDownloadCopies == Copies /\ SettleDownload => Copies'
  BY DEF SettleDownload, Stale, Checked, SettledDirty, Idle, Copies, Types, Epochs,
     GoneCopies, OldCopies, Active, Gone, Fields, Undoing, Torn, At, drive, copy, removing,
     history

\* Listing what was downloaded changes no copy.
LEMMA FinishDownloadCopies == Copies /\ FinishDownload => Copies'
  BY DEF FinishDownload, End, Idle, Copies, Types, Epochs, GoneCopies, OldCopies, Active,
     Gone, Fields, Undoing, Torn, At, drive, copy, removing, history

\* Rolling back under a removal is excused; otherwise the copy belongs to an epoch that is
\* still the last committed one.
LEMMA RollBackDownloadCopies == Copies /\ RollBackDownload => Copies'
  BY DEF RollBackDownload, End, Stale, Idle, Copies, Types, Epochs, GoneCopies, OldCopies,
     Active, Gone, Fields, Undoing, Torn, At, drive, copy, removing, history

\* The copy of a stale download stays until it is discarded.
LEMMA DiscardDownloadCopies == Copies /\ DiscardDownload => Copies'
  BY DEF DiscardDownload, Stale, Checked, Idle, Copies, Types, Epochs, GoneCopies,
     OldCopies, Active, Gone, Fields, Undoing, Torn, At, drive, copy, removing, history

\* Discarding leaves no copy.
LEMMA EnsureAbsentCopies == Copies /\ EnsureAbsent => Copies'
  BY DEF EnsureAbsent, End, Idle, Copies, Types, Epochs, GoneCopies, OldCopies, Active,
     Gone, Fields, Undoing, Torn, At, drive, copy, removing, history

\* A scan changes the state and no copy.
LEMMA ReconcileLocalStateCopies == Copies /\ ReconcileLocalState => Copies'
  BY DEF ReconcileLocalState, CloudOnly, DefaultState, Idle, Copies, Types, Epochs,
     GoneCopies, OldCopies, Active, Gone, Fields, Undoing, Torn, At, drive, copy, removing,
     history

\* A scan changes no copy.
LEMMA ReadDriveCopies == Copies /\ ReadDrive => Copies'
  BY DEF ReadDrive, Newest, Idle, Copies, Types, Epochs, GoneCopies, OldCopies, Active,
     Gone, Fields, Undoing, Torn, At, drive, copy, removing, history

\* A scan changes no copy.
LEMMA ApplyDiscoveryCopies == Copies /\ ApplyDiscovery => Copies'
  BY DEF ApplyDiscovery, End, DefaultState, Idle, Copies, Types, Epochs, GoneCopies,
     OldCopies, Active, Gone, Fields, Undoing, Torn, At, drive, copy, removing, history

\* A reconciliation changes no copy.
LEMMA ApplyRemovalDiscoveryCopies == Copies /\ ApplyRemovalDiscovery => Copies'
  BY DEF ApplyRemovalDiscovery, End, CloudOnly, DefaultState, Idle, Copies, Types, Epochs,
     GoneCopies, OldCopies, Active, Gone, Fields, Undoing, Torn, At, drive, copy, removing,
     history

\* Nothing changes.
LEMMA StutterCopies == Copies /\ UNCHANGED vars => Copies'
  BY DEF vars, Copies, Types, Epochs, GoneCopies, OldCopies, Active, Gone, Undoing, Torn

\* Every step keeps the invariant.
LEMMA CopiesStep == Copies /\ [Next]_vars => Copies'
  <1> SUFFICES ASSUME Copies, [Next]_vars PROVE Copies'
    OBVIOUS
  <1>1. CASE Removal
    BY <1>1, StartRemovalCopies, DeleteCopyCopies, AbortRemovalCopies, CommitRemovalCopies,
       FinishRemovalCopies DEF Removal
  <1>2. CASE Operation
    BY <1>2, BeginCopies, EndIfStaleCopies, FailCopies, CheckUploadCopies,
       ReadPackageCopies, PublishCopies, SettleUploadCopies, CheckDownloadCopies,
       FetchCopies, RefreshCopies, MergeDownloadCopies, ApplyDownloadCopies,
       SettleDownloadCopies, FinishDownloadCopies, RollBackDownloadCopies, DiscardDownloadCopies,
       EnsureAbsentCopies, ReconcileLocalStateCopies, ReadDriveCopies, ApplyDiscoveryCopies,
       ApplyRemovalDiscoveryCopies DEF Operation
  <1>3. CASE Open \/ Edit \/ OtherDevicePublishes \/ RequestUpload \/ RequestDownload
             \/ RequestScan \/ Drain
    BY <1>3, OpenCopies, EditCopies, OtherDevicePublishesCopies, RequestUploadCopies,
       RequestDownloadCopies, RequestScanCopies, DrainCopies
  <1>4. CASE UNCHANGED vars
    BY <1>4, StutterCopies
  <1> QED
    BY <1>1, <1>2, <1>3, <1>4 DEF Next

\* The invariant holds of every behaviour.
THEOREM CopiesHold == Spec => []Copies
  <1>1. Init => Copies
    BY InitCopies
  <1>2. Copies /\ [Next]_vars => Copies'
    BY CopiesStep
  <1> QED
    BY <1>1, <1>2, PTL DEF Spec

\* A paper removed from this device does not come back through a transfer that began before
\* the removal (the epochs of paperCoordinator.ts), however many transfers, edits and
\* removals there are.
THEOREM RemovedStays == Spec => []RemovedStaysRemoved
  <1>1. Copies => RemovedStaysRemoved
    BY DEF Copies, OldCopies, RemovedStaysRemoved, Torn
  <1> QED
    BY <1>1, CopiesHold, PTL

--------------------------------------------------------------------------------
(* What is marked *)

StateFields == {"avail", "dirty", "generation", "known", "versions"}

Clean(s) == s # None => ~s.dirty

\* An upload or a download past its checks, which began before the removal on its way
\* if there is one.
Checking == op.kind \in {"upload", "download"} /\ op.step \notin {"idle", "check"}

\* What a transfer read is out of date, or will be, or the state was torn.
Outrun == Stale \/ Gone \/ Torn

MarkTypes ==
    /\ state = None \/ DOMAIN state = StateFields
    /\ op.before = None \/ DOMAIN op.before = StateFields
    /\ Checking /\ Active => op.epoch < epoch

\* AbsentIsNotDirty, for the proof
Absent == (~present /\ ~Active /\ ~Torn) => Clean(state)

\* From the moment it is settled, the state of a removed paper has nothing to upload.
Committing == removal = "committing" => Torn \/ Clean(state)

\* While a removal has not taken the copy, the copy is there, and a transfer that discards
\* one discards one opened again.
Started == (removal = "started" /\ ~Torn) => (present /\ (At("download", "discard") => op.opened))

\* The paper an upload read is here until a removal takes it.
UploadPresent ==
    (op.kind = "upload" /\ op.step \in {"publish", "settle"} /\ ~Outrun) => present

\* Under a stale download there is nothing to upload, but for a copy opened again.
StaleCopies ==
    (op.kind = "download" /\ op.step # "idle" /\ Stale /\ ~op.opened /\ ~Torn) =>
        /\ present => origin < committed
        /\ removal # "deleted" => Clean(state)

Discarding == At("download", "discard") => Stale

\* What a download would put back has nothing to upload if there was no copy.
Before ==
    (op.kind = "download" /\ ~Outrun) =>
        /\ op.step = "replace" => present \/ Clean(op.before)
        /\ op.step = "settle" => present
        /\ op.step \in {"settle", "save"} => op.had \/ Clean(op.before)

Marks == MarkTypes /\ Absent /\ Committing /\ Started /\ UploadPresent /\ StaleCopies
         /\ Discarding /\ Before

\* Nothing is marked at the beginning.
LEMMA InitMarks == Init => Marks
  BY BoundAssumption DEF Init, Idle, Active, Gone, Torn, At, Stale, Marks, MarkTypes, Absent,
     Committing, Started, UploadPresent, StaleCopies, Discarding, Before, Outrun, Checking, Clean,
     StateFields

\* A copy that is opened is there, and a download under way knows that it was opened.
LEMMA OpenMarks == Copies /\ Marks /\ Open => Marks'
  <1> SUFFICES ASSUME Copies, Marks, Open PROVE Marks'
    OBVIOUS
  <1>1. state' = state \/ DOMAIN state' = StateFields
    BY DEF Open, MarkDirty, DefaultState, Marks, MarkTypes, StateFields
  <1>2. CASE op.kind = "download" /\ op' = [op EXCEPT !.opened = TRUE]
    BY <1>1, <1>2 DEF Open, Idle, Copies, Types, Epochs, GoneCopies, OldCopies, Active,
       Gone, Fields, Undoing, Torn, At, drive, copy, removing, history, Stale, Marks, MarkTypes,
       Absent, Committing, Started, UploadPresent, StaleCopies, Discarding, Before, Outrun, Checking,
       Clean, StateFields
  <1>3. CASE op.kind # "download" /\ op' = op
    BY <1>1, <1>3 DEF Open, Idle, Copies, Types, Epochs, GoneCopies, OldCopies, Active,
       Gone, Fields, Undoing, Torn, At, drive, copy, removing, history, Stale, Marks, MarkTypes,
       Absent, Committing, Started, UploadPresent, StaleCopies, Discarding, Before, Outrun, Checking,
       Clean, StateFields
  <1> QED
    BY <1>2, <1>3 DEF Open

\* Only a copy that is there and not about to be taken away is edited.
LEMMA EditMarks == Copies /\ Marks /\ Edit => Marks'
  <1> SUFFICES ASSUME Copies, Marks, Edit PROVE Marks'
    OBVIOUS
  <1>1. state' = state \/ DOMAIN state' = StateFields
    BY DEF Edit, MarkDirty, DefaultState, Marks, MarkTypes, StateFields
  <1>2. CASE Active
    BY <1>2 DEF Edit, MarkDirty, Idle, Copies, Types, Epochs, GoneCopies, OldCopies, Active,
       Gone, Fields, Undoing, Torn, At, drive, copy, removing, history, Stale, Marks, MarkTypes,
       Absent, Committing, Started, UploadPresent, StaleCopies, Discarding, Before, Outrun, Checking,
       Clean, StateFields
  <1>3. CASE ~Active
    BY <1>1, <1>3 DEF Edit, Idle, Copies, Types, Epochs, GoneCopies, OldCopies, Active,
       Gone, Fields, Undoing, Torn, At, drive, copy, removing, history, Stale, Marks, MarkTypes,
       Absent, Committing, Started, UploadPresent, StaleCopies, Discarding, Before, Outrun, Checking,
       Clean, StateFields
  <1> QED
    BY <1>2, <1>3

\* Another device marks nothing here.
LEMMA OtherDevicePublishesMarks == Copies /\ Marks /\ OtherDevicePublishes => Marks'
  BY DEF OtherDevicePublishes, Idle, Copies, Types, Epochs, GoneCopies, OldCopies, Active,
     Gone, Fields, Undoing, Torn, At, drive, copy, removing, history, Stale, Marks, MarkTypes,
     Absent, Committing, Started, UploadPresent, StaleCopies, Discarding, Before, Outrun,
     Checking, Clean, StateFields

\* A request marks nothing.
LEMMA RequestUploadMarks == Copies /\ Marks /\ RequestUpload => Marks'
  BY DEF RequestUpload, Idle, Copies, Types, Epochs, GoneCopies, OldCopies, Active, Gone,
     Fields, Undoing, Torn, At, drive, copy, removing, history, Stale, Marks, MarkTypes,
     Absent, Committing, Started, UploadPresent, StaleCopies, Discarding, Before, Outrun,
     Checking, Clean, StateFields

\* A request marks nothing.
LEMMA RequestDownloadMarks == Copies /\ Marks /\ RequestDownload => Marks'
  BY DEF RequestDownload, Idle, Copies, Types, Epochs, GoneCopies, OldCopies, Active, Gone,
     Fields, Undoing, Torn, At, drive, copy, removing, history, Stale, Marks, MarkTypes,
     Absent, Committing, Started, UploadPresent, StaleCopies, Discarding, Before, Outrun,
     Checking, Clean, StateFields

\* A request marks nothing.
LEMMA RequestScanMarks == Copies /\ Marks /\ RequestScan => Marks'
  BY DEF RequestScan, Idle, Copies, Types, Epochs, GoneCopies, OldCopies, Active, Gone,
     Fields, Undoing, Torn, At, drive, copy, removing, history, Stale, Marks, MarkTypes,
     Absent, Committing, Started, UploadPresent, StaleCopies, Discarding, Before, Outrun,
     Checking, Clean, StateFields

\* A removal starts on a copy that is there, after everything under way captured its epoch.
LEMMA StartRemovalMarks == Copies /\ Marks /\ StartRemoval => Marks'
  BY DEF StartRemoval, Idle, Copies, Types, Epochs, GoneCopies, OldCopies, Active, Gone,
     Fields, Undoing, Torn, At, drive, copy, removing, history, Stale, Marks, MarkTypes,
     Absent, Committing, Started, UploadPresent, StaleCopies, Discarding, Before, Outrun,
     Checking, Clean, StateFields

\* The copy is gone and its state not settled yet: the removal is on its way.
LEMMA DeleteCopyMarks == Copies /\ Marks /\ DeleteCopy => Marks'
  BY DEF DeleteCopy, Idle, Copies, Types, Epochs, GoneCopies, OldCopies, Active, Gone,
     Fields, Undoing, Torn, At, drive, copy, removing, history, Stale, Marks, MarkTypes,
     Absent, Committing, Started, UploadPresent, StaleCopies, Discarding, Before, Outrun,
     Checking, Clean, StateFields

\* Before the transaction the copy is there; after it the state is torn.
LEMMA AbortRemovalMarks == Copies /\ Marks /\ AbortRemoval => Marks'
  BY DEF AbortRemoval, Idle, Copies, Types, Epochs, GoneCopies, OldCopies, Active, Gone,
     Fields, Undoing, Torn, At, drive, copy, removing, history, Stale, Marks, MarkTypes,
     Absent, Committing, Started, UploadPresent, StaleCopies, Discarding, Before, Outrun,
     Checking, Clean, StateFields

\* What is left of the state has nothing to upload.
LEMMA CommitRemovalMarks == Copies /\ Marks /\ CommitRemoval => Marks'
  BY DEF CommitRemoval, SettleState, CloudOnly, DefaultState, Idle, Copies, Types, Epochs,
     GoneCopies, OldCopies, Active, Gone, Fields, Undoing, Torn, At, drive, copy, removing,
     history, Stale, Marks, MarkTypes, Absent, Committing, Started, UploadPresent, StaleCopies,
     Discarding, Before, Outrun, Checking, Clean, StateFields

\* The settled state is clean, and every transfer under way is stale from now on.
LEMMA FinishRemovalMarks == Copies /\ Marks /\ FinishRemoval => Marks'
  BY DEF FinishRemoval, Idle, Copies, Types, Epochs, GoneCopies, OldCopies, Active, Gone,
     Fields, Undoing, Torn, At, drive, copy, removing, history, Stale, Marks, MarkTypes,
     Absent, Committing, Started, UploadPresent, StaleCopies, Discarding, Before, Outrun,
     Checking, Clean, StateFields

\* A reconciliation marks nothing by waiting.
LEMMA DrainMarks == Copies /\ Marks /\ Drain => Marks'
  BY DEF Drain, Idle, Copies, Types, Epochs, GoneCopies, OldCopies, Active, Gone, Fields,
     Undoing, Torn, At, drive, copy, removing, history, Stale, Marks, MarkTypes, Absent,
     Committing, Started, UploadPresent, StaleCopies, Discarding, Before, Outrun, Checking,
     Clean, StateFields

\* What begins is not stale.
LEMMA BeginMarks == Copies /\ Marks /\ Begin => Marks'
  BY DEF Begin, Idle, Copies, Types, Epochs, GoneCopies, OldCopies, Active, Gone, Fields,
     Undoing, Torn, At, drive, copy, removing, history, Stale, Marks, MarkTypes, Absent,
     Committing, Started, UploadPresent, StaleCopies, Discarding, Before, Outrun, Checking,
     Clean, StateFields

\* A stale transfer that applied nothing changes no state.
LEMMA EndIfStaleMarks == Copies /\ Marks /\ EndIfStale => Marks'
  BY DEF EndIfStale, Stale, Checked, End, Idle, Copies, Types, Epochs, GoneCopies,
     OldCopies, Active, Gone, Fields, Undoing, Torn, At, drive, copy, removing, history, Marks,
     MarkTypes, Absent, Committing, Started, UploadPresent, StaleCopies, Discarding, Before,
     Outrun, Checking, Clean, StateFields

\* A failure changes no state.
LEMMA FailMarks == Copies /\ Marks /\ Fail => Marks'
  BY DEF Fail, Checked, End, Idle, Copies, Types, Epochs, GoneCopies, OldCopies, Active,
     Gone, Fields, Undoing, Torn, At, drive, copy, removing, history, Stale, Marks, MarkTypes,
     Absent, Committing, Started, UploadPresent, StaleCopies, Discarding, Before, Outrun,
     Checking, Clean, StateFields

\* An upload that passes its checks marks nothing.
LEMMA CheckUploadMarks == Copies /\ Marks /\ CheckUpload => Marks'
  <1> SUFFICES ASSUME Copies, Marks, CheckUpload PROVE Marks'
    OBVIOUS
  <1>1. CASE End
    BY <1>1 DEF CheckUpload, End, Idle, Copies, Types, Epochs, GoneCopies, OldCopies, Active,
       Gone, Fields, Undoing, Torn, At, drive, copy, removing, history, Stale, Marks, MarkTypes,
       Absent, Committing, Started, UploadPresent, StaleCopies, Discarding, Before, Outrun, Checking,
       Clean, StateFields
  <1>2. CASE op' = [op EXCEPT !.step = "read", !.generation = state.generation] /\ state # None
    BY <1>2 DEF CheckUpload, Checked, Idle, Copies, Types, Epochs, GoneCopies, OldCopies, Active,
       Gone, Fields, Undoing, Torn, At, drive, copy, removing, history, Stale, Marks, MarkTypes,
       Absent, Committing, Started, UploadPresent, StaleCopies, Discarding, Before, Outrun, Checking,
       Clean, StateFields
  <1> QED
    BY <1>1, <1>2 DEF CheckUpload

\* A package is read of a copy that is there.
LEMMA ReadPackageMarks == Copies /\ Marks /\ ReadPackage => Marks'
  BY DEF ReadPackage, Idle, Copies, Types, Epochs, GoneCopies, OldCopies, Active, Gone,
     Fields, Undoing, Torn, At, drive, copy, removing, history, Stale, Marks, MarkTypes,
     Absent, Committing, Started, UploadPresent, StaleCopies, Discarding, Before, Outrun,
     Checking, Clean, StateFields

\* Publishing changes no state.
LEMMA PublishMarks == Copies /\ Marks /\ Publish => Marks'
  BY DEF Publish, Stale, Checked, InDrive, Newest, Idle, Copies, Types, Epochs, GoneCopies,
     OldCopies, Active, Gone, Fields, Undoing, Torn, At, drive, copy, removing, history, Marks,
     MarkTypes, Absent, Committing, Started, UploadPresent, StaleCopies, Discarding, Before,
     Outrun, Checking, Clean, StateFields

\* A settled upload marks nothing that was not marked.
LEMMA SettleUploadMarks == Copies /\ Marks /\ SettleUpload => Marks'
  <1> SUFFICES ASSUME Copies, Marks, SettleUpload PROVE Marks'
    OBVIOUS
  <1>1. DOMAIN state' = StateFields /\ (state'.dirty => state.dirty)
    BY DEF SettleUpload, SettledDirty, StateFields
  <1> QED
    BY <1>1 DEF SettleUpload, Checked, End, Idle, Copies, Types, Epochs, GoneCopies, OldCopies, Active,
       Gone, Fields, Undoing, Torn, At, drive, copy, removing, history, Stale, Marks, MarkTypes,
       Absent, Committing, Started, UploadPresent, StaleCopies, Discarding, Before, Outrun, Checking,
       Clean, StateFields

\* A paper that is not known yet has nothing to upload.
LEMMA CheckDownloadMarks == Copies /\ Marks /\ CheckDownload => Marks'
  <1> SUFFICES ASSUME Copies, Marks, CheckDownload PROVE Marks'
    OBVIOUS
  <1>1. /\ DOMAIN state' = StateFields
        /\ state = None => ~state'.dirty
        /\ state # None => state' = state
    BY DEF CheckDownload, DefaultState, Marks, MarkTypes, StateFields
  <1> QED
    BY <1>1 DEF CheckDownload, Checked, Idle, Copies, Types, Epochs, GoneCopies, OldCopies, Active,
       Gone, Fields, Undoing, Torn, At, drive, copy, removing, history, Stale, Marks, MarkTypes,
       Absent, Committing, Started, UploadPresent, StaleCopies, Discarding, Before, Outrun, Checking,
       Clean, StateFields

\* Reading a generation changes no state.
LEMMA FetchMarks == Copies /\ Marks /\ Fetch => Marks'
  <1> SUFFICES ASSUME Copies, Marks, Fetch PROVE Marks'
    OBVIOUS
  <1>1. CASE op' = [op EXCEPT !.step = "apply", !.notes = heads[op.head]]
    BY <1>1 DEF Fetch, Idle, Copies, Types, Epochs, GoneCopies, OldCopies, Active,
       Gone, Fields, Undoing, Torn, At, drive, copy, removing, history, Stale, Marks, MarkTypes,
       Absent, Committing, Started, UploadPresent, StaleCopies, Discarding, Before, Outrun, Checking,
       Clean, StateFields
  <1>2. CASE op' = [op EXCEPT !.step = "refresh"]
    BY <1>2 DEF Fetch, Idle, Copies, Types, Epochs, GoneCopies, OldCopies, Active,
       Gone, Fields, Undoing, Torn, At, drive, copy, removing, history, Stale, Marks, MarkTypes,
       Absent, Committing, Started, UploadPresent, StaleCopies, Discarding, Before, Outrun, Checking,
       Clean, StateFields
  <1> QED
    BY <1>1, <1>2 DEF Fetch

\* Reading the head again changes no state.
LEMMA RefreshMarks == Copies /\ Marks /\ Refresh => Marks'
  BY DEF Refresh, Newest, Idle, Copies, Types, Epochs, GoneCopies, OldCopies, Active, Gone,
     Fields, Undoing, Torn, At, drive, copy, removing, history, Stale, Marks, MarkTypes,
     Absent, Committing, Started, UploadPresent, StaleCopies, Discarding, Before, Outrun,
     Checking, Clean, StateFields

\* The state kept for a rollback is that of a paper that is there, or clean.
LEMMA MergeDownloadMarks == Copies /\ Marks /\ MergeDownload => Marks'
  BY DEF MergeDownload, Stale, Checked, Merged, Idle, Copies, Types, Epochs, GoneCopies,
     OldCopies, Active, Gone, Fields, Undoing, Torn, At, drive, copy, removing, history, Marks,
     MarkTypes, Absent, Committing, Started, UploadPresent, StaleCopies, Discarding, Before,
     Outrun, Checking, Clean, StateFields

\* The copy is there, and whether there was one before is remembered.
LEMMA ApplyDownloadMarks == Copies /\ Marks /\ ApplyDownload => Marks'
  BY DEF ApplyDownload, Idle, Copies, Types, Epochs, GoneCopies, OldCopies, Active, Gone,
     Fields, Undoing, Torn, At, drive, copy, removing, history, Stale, Marks, MarkTypes,
     Absent, Committing, Started, UploadPresent, StaleCopies, Discarding, Before, Outrun,
     Checking, Clean, StateFields

\* The copy a download settles is there: nothing was removed since it was applied.
LEMMA SettleDownloadMarks == Copies /\ Marks /\ SettleDownload => Marks'
  BY DEF SettleDownload, Stale, Checked, SettledDirty, Idle, Copies, Types, Epochs,
     GoneCopies, OldCopies, Active, Gone, Fields, Undoing, Torn, At, drive, copy, removing,
     history, Marks, MarkTypes, Absent, Committing, Started, UploadPresent, StaleCopies,
     Discarding, Before, Outrun, Checking, Clean, StateFields

\* The catalog says nothing of marks.
LEMMA FinishDownloadMarks == Copies /\ Marks /\ FinishDownload => Marks'
  BY DEF FinishDownload, End, Idle, Copies, Types, Epochs, GoneCopies, OldCopies, Active,
     Gone, Fields, Undoing, Torn, At, drive, copy, removing, history, Stale, Marks, MarkTypes,
     Absent, Committing, Started, UploadPresent, StaleCopies, Discarding, Before, Outrun,
     Checking, Clean, StateFields

\* Where no copy is put back, no mark is put back.
LEMMA RollBackDownloadMarks == Copies /\ Marks /\ RollBackDownload => Marks'
  BY DEF RollBackDownload, End, Stale, Idle, Copies, Types, Epochs, GoneCopies, OldCopies,
     Active, Gone, Fields, Undoing, Torn, At, drive, copy, removing, history, Marks, MarkTypes,
     Absent, Committing, Started, UploadPresent, StaleCopies, Discarding, Before, Outrun,
     Checking, Clean, StateFields

\* A download discards only what is stale.
LEMMA DiscardDownloadMarks == Copies /\ Marks /\ DiscardDownload => Marks'
  BY DEF DiscardDownload, Stale, Checked, Idle, Copies, Types, Epochs, GoneCopies,
     OldCopies, Active, Gone, Fields, Undoing, Torn, At, drive, copy, removing, history, Marks,
     MarkTypes, Absent, Committing, Started, UploadPresent, StaleCopies, Discarding, Before,
     Outrun, Checking, Clean, StateFields

\* What is discarded was clean, unless it was opened again.
LEMMA EnsureAbsentMarks == Copies /\ Marks /\ EnsureAbsent => Marks'
  BY DEF EnsureAbsent, End, Idle, Copies, Types, Epochs, GoneCopies, OldCopies, Active,
     Gone, Fields, Undoing, Torn, At, drive, copy, removing, history, Stale, Marks, MarkTypes,
     Absent, Committing, Started, UploadPresent, StaleCopies, Discarding, Before, Outrun,
     Checking, Clean, StateFields

\* A scan marks only a paper it finds here.
LEMMA ReconcileLocalStateMarks == Copies /\ Marks /\ ReconcileLocalState => Marks'
  BY DEF ReconcileLocalState, CloudOnly, DefaultState, Idle, Copies, Types, Epochs,
     GoneCopies, OldCopies, Active, Gone, Fields, Undoing, Torn, At, drive, copy, removing,
     history, Stale, Marks, MarkTypes, Absent, Committing, Started, UploadPresent, StaleCopies,
     Discarding, Before, Outrun, Checking, Clean, StateFields

\* Reading Drive changes no state.
LEMMA ReadDriveMarks == Copies /\ Marks /\ ReadDrive => Marks'
  BY DEF ReadDrive, Newest, Idle, Copies, Types, Epochs, GoneCopies, OldCopies, Active,
     Gone, Fields, Undoing, Torn, At, drive, copy, removing, history, Stale, Marks, MarkTypes,
     Absent, Committing, Started, UploadPresent, StaleCopies, Discarding, Before, Outrun,
     Checking, Clean, StateFields

\* A discovery marks nothing.
LEMMA ApplyDiscoveryMarks == Copies /\ Marks /\ ApplyDiscovery => Marks'
  <1> SUFFICES ASSUME Copies, Marks, ApplyDiscovery PROVE Marks'
    OBVIOUS
  <1>1. CASE UNCHANGED <<state, listed>>
    BY <1>1 DEF ApplyDiscovery, End, Idle, Copies, Types, Epochs, GoneCopies, OldCopies, Active,
       Gone, Fields, Undoing, Torn, At, drive, copy, removing, history, Stale, Marks, MarkTypes,
       Absent, Committing, Started, UploadPresent, StaleCopies, Discarding, Before, Outrun, Checking,
       Clean, StateFields
  <1>2. CASE op.head # 0
    <2>1. DOMAIN state' = StateFields /\ (state = None => ~state'.dirty)
          /\ (state # None => (state'.dirty <=> state.dirty))
      BY <1>2 DEF ApplyDiscovery, DefaultState, Marks, MarkTypes, StateFields
    <2> QED
      BY <2>1 DEF ApplyDiscovery, End, Idle, Copies, Types, Epochs, GoneCopies, OldCopies, Active,
       Gone, Fields, Undoing, Torn, At, drive, copy, removing, history, Stale, Marks, MarkTypes,
       Absent, Committing, Started, UploadPresent, StaleCopies, Discarding, Before, Outrun, Checking,
       Clean, StateFields
  <1> QED
    BY <1>1, <1>2 DEF ApplyDiscovery

\* A reconciliation leaves nothing to upload.
LEMMA ApplyRemovalDiscoveryMarks == Copies /\ Marks /\ ApplyRemovalDiscovery => Marks'
  <1> SUFFICES ASSUME Copies, Marks, ApplyRemovalDiscovery PROVE Marks'
    OBVIOUS
  <1>1. CASE UNCHANGED <<state, listed>>
    BY <1>1 DEF ApplyRemovalDiscovery, End, Idle, Copies, Types, Epochs, GoneCopies, OldCopies, Active,
       Gone, Fields, Undoing, Torn, At, drive, copy, removing, history, Stale, Marks, MarkTypes,
       Absent, Committing, Started, UploadPresent, StaleCopies, Discarding, Before, Outrun, Checking,
       Clean, StateFields
  <1>2. CASE ~(op.head = 0 \/ Active \/ epoch # op.epoch)
    <2>1. DOMAIN state' = StateFields /\ ~state'.dirty
      BY <1>2 DEF ApplyRemovalDiscovery, CloudOnly, DefaultState, Marks, MarkTypes, StateFields
    <2> QED
      BY <1>2, <2>1 DEF ApplyRemovalDiscovery, End, Idle,
       Copies, Types, Epochs, GoneCopies, OldCopies, Active,
       Gone, Fields, Undoing, Torn, At, drive, copy, removing, history, Stale, Marks, MarkTypes,
       Absent, Committing, Started, UploadPresent, StaleCopies, Discarding, Before, Outrun, Checking,
       Clean, StateFields
  <1> QED
    BY <1>1, <1>2 DEF ApplyRemovalDiscovery

\* Nothing changes.
LEMMA StutterMarks == Marks /\ UNCHANGED vars => Marks'
  BY DEF vars, Active, Gone, Torn, At, Stale, Marks, MarkTypes, Absent, Committing, Started,
     UploadPresent, StaleCopies, Discarding, Before, Outrun, Checking, Clean, StateFields

\* Every step keeps the marks right.
LEMMA MarksStep == Copies /\ Marks /\ [Next]_vars => Marks'
  <1> SUFFICES ASSUME Copies, Marks, [Next]_vars PROVE Marks'
    OBVIOUS
  <1>1. CASE Removal
    BY <1>1, StartRemovalMarks, DeleteCopyMarks, AbortRemovalMarks, CommitRemovalMarks,
       FinishRemovalMarks DEF Removal
  <1>2. CASE Operation
    BY <1>2, BeginMarks, EndIfStaleMarks, FailMarks, CheckUploadMarks,
       ReadPackageMarks, PublishMarks, SettleUploadMarks, CheckDownloadMarks,
       FetchMarks, RefreshMarks, MergeDownloadMarks, ApplyDownloadMarks,
       SettleDownloadMarks, FinishDownloadMarks, RollBackDownloadMarks, DiscardDownloadMarks,
       EnsureAbsentMarks, ReconcileLocalStateMarks, ReadDriveMarks, ApplyDiscoveryMarks,
       ApplyRemovalDiscoveryMarks DEF Operation
  <1>3. CASE Open \/ Edit \/ OtherDevicePublishes \/ RequestUpload \/ RequestDownload
             \/ RequestScan \/ Drain
    BY <1>3, OpenMarks, EditMarks, OtherDevicePublishesMarks, RequestUploadMarks,
       RequestDownloadMarks, RequestScanMarks, DrainMarks
  <1>4. CASE UNCHANGED vars
    BY <1>4, StutterMarks
  <1> QED
    BY <1>1, <1>2, <1>3, <1>4 DEF Next

\* An absence made on purpose is not published as a change (markDirty and the settlement of a
\* committed removal), whatever transfer or scan runs while the paper is removed.
THEOREM AbsentStaysClean == Spec => []AbsentIsNotDirty
  <1>1. Init => Marks
    BY InitMarks
  <1>2. Copies /\ Copies' /\ Marks /\ [Next]_vars => Marks'
    BY MarksStep
  <1>3. Marks => AbsentIsNotDirty
    BY DEF Marks, Absent, AbsentIsNotDirty, Clean, Torn
  <1> QED
    BY <1>1, <1>2, <1>3, CopiesHold, PTL DEF Spec

--------------------------------------------------------------------------------
(* What a download applies *)

\* Notes are notes, and generations are numbered from one.
ReadTypes ==
    /\ heads \in Seq(SUBSET Note) /\ listed \in 0..Newest
    /\ notes \subseteq Note /\ written \in Nat
    /\ DOMAIN op = Fields /\ op.from \in Nat /\ op.head \in 0..Newest /\ op.notes \subseteq Note

\* Drive only grows, and a download reads a generation that is the head when it reads it.
Reads ==
    /\ ReadTypes
    /\ op.from <= Newest
    /\ op.kind = "download" =>
         /\ op.step \notin {"idle", "check"} => op.head > 0
         /\ op.step \in {"apply", "replace", "settle", "save", "discard"} => op.head >= op.from
         /\ op.step \in {"settle", "save"} => op.old \subseteq Note

\* Nothing is read at the beginning.
LEMMA InitReads == Init => Reads
  BY BoundAssumption DEF Init, Reads, ReadTypes, Idle, Fields, Newest, Note

\* What the user does, and another device, on its own.
LEMMA UserReads ==
    Reads /\ (Open \/ Edit \/ OtherDevicePublishes \/ Removal \/ Drain) => Reads'
  <1>1. Reads /\ Open => Reads'
    BY DEF Open, Idle, Fields, At, drive, copy, removing,
       history, Reads, ReadTypes, Newest, InDrive, Note
  <1>2. Reads /\ Edit => Reads'
    BY BoundAssumption DEF Edit, Idle, Fields, At, drive, copy, removing,
       history, Reads, ReadTypes, Newest, InDrive, Note
  <1>3. Reads /\ OtherDevicePublishes => Reads'
    BY BoundAssumption DEF OtherDevicePublishes, Idle, Fields, At, drive, copy, removing,
       history, Reads, ReadTypes, Newest, InDrive, Note
  <1>4. Reads /\ DeleteCopy => Reads'
    BY DEF DeleteCopy, Idle, Fields, At, drive, copy, removing,
       history, Reads, ReadTypes, Newest, InDrive, Note
  <1>5. Reads /\ (StartRemoval \/ AbortRemoval \/ CommitRemoval \/ FinishRemoval \/ Drain) => Reads'
    BY DEF StartRemoval, AbortRemoval, CommitRemoval, FinishRemoval, Drain,
       Idle, Fields, At, drive, copy, removing,
       history, Reads, ReadTypes, Newest, InDrive, Note
  <1> QED
    BY <1>1, <1>2, <1>3, <1>4, <1>5 DEF Removal

\* What an operation reads when it begins, and that it reads nothing when it ends.
LEMMA OperationReads ==
    Reads /\ (RequestUpload \/ RequestDownload \/ RequestScan \/ Begin \/ EndIfStale \/ Fail) => Reads'
  <1>1. Reads /\ (RequestUpload \/ RequestDownload \/ RequestScan) => Reads'
    BY DEF RequestUpload, RequestDownload, RequestScan, Idle, Fields, At, drive, copy, removing,
       history, Reads, ReadTypes, Newest, InDrive, Note
  <1>2. Reads /\ Begin => Reads'
    BY DEF Begin, Idle, Fields, At, drive, copy, removing,
       history, Reads, ReadTypes, Newest, InDrive, Note
  <1>3. Reads /\ (EndIfStale \/ Fail) => Reads'
    BY DEF EndIfStale, Fail, End, Idle, Fields, At, drive, copy, removing,
       history, Reads, ReadTypes, Newest, InDrive, Note
  <1> QED
    BY <1>1, <1>2, <1>3

\* An upload publishes notes.
LEMMA UploadReads ==
    Reads /\ (CheckUpload \/ ReadPackage \/ Publish \/ SettleUpload) => Reads'
  <1>1. ASSUME Reads, CheckUpload PROVE Reads'
    <2>1. CASE End
      BY <1>1, <2>1 DEF CheckUpload, End, Idle, Fields, At, drive, copy, removing,
       history, Reads, ReadTypes, Newest, InDrive, Note
    <2>2. CASE op' = [op EXCEPT !.step = "read", !.generation = state.generation]
      BY <1>1, <2>2 DEF CheckUpload, Idle, Fields, At, drive, copy, removing,
       history, Reads, ReadTypes, Newest, InDrive, Note
    <2> QED
      BY <1>1, <2>1, <2>2 DEF CheckUpload
  <1>2. Reads /\ ReadPackage => Reads'
    BY DEF ReadPackage, Idle, Fields, At, drive, copy, removing,
       history, Reads, ReadTypes, Newest, InDrive, Note
  <1>3. ASSUME Reads, Publish PROVE Reads'
    <2> DEFINE published == (InDrive \cup op.notes) \ op.old
    <2>1. published \in SUBSET Note
      BY <1>3 DEF Reads, ReadTypes, InDrive, Newest
    <2>2. \/ heads' = heads
          \/ heads' = Append(heads, published)
      BY <1>3 DEF Publish
    <2> HIDE DEF published
    <2>3. heads' \in Seq(SUBSET Note) /\ Newest' \in Nat /\ Newest <= Newest'
      BY <1>3, <2>1, <2>2 DEF Reads, ReadTypes, Newest
    <2>4. /\ DOMAIN op' = Fields /\ op'.kind = "upload" /\ op'.head = Newest'
          /\ op'.notes = {} /\ op'.from = op.from
      BY <1>3 DEF Publish, At, Reads, ReadTypes, Fields, Newest
    <2>5. UNCHANGED <<listed, notes, written>>
      BY <1>3 DEF Publish, copy
    <2>6. ReadTypes'
      BY <1>3, <2>3, <2>4, <2>5 DEF Reads, ReadTypes, Newest
    <2> QED
      BY <1>3, <2>3, <2>4, <2>6 DEF Reads, ReadTypes, Newest
  <1>4. Reads /\ SettleUpload => Reads'
    BY DEF SettleUpload, End, Idle, Fields, At, drive, copy, removing,
       history, Reads, ReadTypes, Newest, InDrive, Note
  <1> QED
    BY <1>1, <1>2, <1>3, <1>4

\* A download takes the generation the catalog lists, and refreshes it if it is not the head.
LEMMA DownloadReads ==
    Reads /\ (CheckDownload \/ Fetch \/ Refresh \/ MergeDownload \/ ApplyDownload) => Reads'
  <1>1. Reads /\ CheckDownload => Reads'
    BY DEF CheckDownload, Idle, Fields, At, drive, copy, removing,
       history, Reads, ReadTypes, Newest, InDrive, Note
  <1>2. ASSUME Reads, Fetch PROVE Reads'
    <2>1. CASE op.head = Newest /\ op' = [op EXCEPT !.step = "apply", !.notes = heads[op.head]]
      BY <1>2, <2>1 DEF Fetch, Idle, Fields, At, drive, copy, removing,
       history, Reads, ReadTypes, Newest, InDrive, Note
    <2>2. CASE op' = [op EXCEPT !.step = "refresh"]
      BY <1>2, <2>2 DEF Fetch, Idle, Fields, At, drive, copy, removing,
       history, Reads, ReadTypes, Newest, InDrive, Note
    <2> QED
      BY <1>2, <2>1, <2>2 DEF Fetch
  <1>3. Reads /\ Refresh => Reads'
    BY DEF Refresh, Idle, Fields, At, drive, copy, removing,
       history, Reads, ReadTypes, Newest, InDrive, Note
  <1>4. Reads /\ MergeDownload => Reads'
    BY DEF MergeDownload, Merged, Idle, Fields, At, drive, copy, removing,
       history, Reads, ReadTypes, Newest, InDrive, Note
  <1>5. Reads /\ ApplyDownload => Reads'
    BY DEF ApplyDownload, Idle, Fields, At, drive, copy, removing,
       history, Reads, ReadTypes, Newest, InDrive, Note
  <1> QED
    BY <1>1, <1>2, <1>3, <1>4, <1>5

\* What was applied is settled, put back or discarded, and a scan reads the head.
LEMMA SettledReads ==
    Reads /\ (SettleDownload \/ FinishDownload \/ RollBackDownload \/ DiscardDownload \/ EnsureAbsent
              \/ ReconcileLocalState \/ ReadDrive \/ ApplyDiscovery \/ ApplyRemovalDiscovery) => Reads'
  <1>1. Reads /\ (SettleDownload \/ DiscardDownload) => Reads'
    BY DEF SettleDownload, DiscardDownload, Idle, Fields, At, drive, copy, removing,
       history, Reads, ReadTypes, Newest, InDrive, Note
  <1>2. Reads /\ FinishDownload => Reads'
    BY DEF FinishDownload, End, Idle, Fields, At, drive, copy, removing,
       history, Reads, ReadTypes, Newest, InDrive, Note
  <1>3. Reads /\ RollBackDownload => Reads'
    BY DEF RollBackDownload, End, Idle, Fields, At, drive, copy, removing,
       history, Reads, ReadTypes, Newest, InDrive, Note
  <1>4. Reads /\ EnsureAbsent => Reads'
    BY DEF EnsureAbsent, End, Idle, Fields, At, drive, copy, removing,
       history, Reads, ReadTypes, Newest, InDrive, Note
  <1>5. Reads /\ ReconcileLocalState => Reads'
    BY DEF ReconcileLocalState, Idle, Fields, At, drive, copy, removing,
       history, Reads, ReadTypes, Newest, InDrive, Note
  <1>6. Reads /\ ReadDrive => Reads'
    BY DEF ReadDrive, Idle, Fields, At, drive, copy, removing,
       history, Reads, ReadTypes, Newest, InDrive, Note
  <1>7. Reads /\ (ApplyDiscovery \/ ApplyRemovalDiscovery) => Reads'
    BY DEF ApplyDiscovery, ApplyRemovalDiscovery, End, Idle, Fields, At, drive, copy, removing,
       history, Reads, ReadTypes, Newest, InDrive, Note
  <1> QED
    BY <1>1, <1>2, <1>3, <1>4, <1>5, <1>6, <1>7

\* Every step keeps what is known of Drive.
LEMMA ReadsStep == Reads /\ [Next]_vars => Reads'
  <1>1. Reads /\ UNCHANGED vars => Reads'
    BY DEF vars, Reads, ReadTypes, Newest
  <1> QED
    BY <1>1, UserReads, OperationReads, UploadReads, DownloadReads, SettledReads
    DEF Next, Operation

\* What a download applies was the head of Drive since the download began
\* (runScopedPaperDownload), whatever the catalog listed.
THEOREM DownloadStaysFresh == Spec => []DownloadIsFresh
  <1>1. Init => Reads
    BY InitReads
  <1>2. Reads /\ [Next]_vars => Reads'
    BY ReadsStep
  <1>3. Reads => DownloadIsFresh
    BY DEF Reads, DownloadIsFresh
  <1> QED
    BY <1>1, <1>2, <1>3, PTL DEF Spec

--------------------------------------------------------------------------------
(* The types *)

\* What the first part of this module proves.
Base == Copies /\ Marks /\ Reads

Operations == [kind : Kind, step : Steps, epoch : Nat, generation : Nat, head : Nat, from : Nat,
               attempt : Nat, notes : SUBSET Note, merged : BOOLEAN,
               before : PaperState \cup {None}, old : SUBSET Note, had : BOOLEAN,
               since : Nat, opened : BOOLEAN]

\* No note is known before it is written.
Written ==
    /\ \A i \in DOMAIN heads : heads[i] \subseteq 1..written
    /\ notes \subseteq 1..written /\ op.notes \subseteq 1..written /\ op.old \subseteq 1..written
    /\ state # None => state.versions \subseteq 1..written
    /\ op.before # None => op.before.versions \subseteq 1..written

\* Each kind of operation waits at most once, and the one that owns Drive is the first.
Queues ==
    /\ queue \in Seq(Kind)
    /\ \A i, j \in DOMAIN queue : queue[i] = queue[j] => i = j
    /\ op.step # "idle" => queue # <<>> /\ op.kind = queue[1]

Ranges ==
    /\ removal \in {"no", "started", "deleted", "committing"}
    /\ present \in BOOLEAN /\ pending \in BOOLEAN
    /\ uploaded \in 0..Newest /\ exposed \subseteq 1..written /\ written <= MaxNotes
    /\ excused \subseteq Excuses

StateTypes == state \in PaperState \cup {None}

OpTypes == op \in Operations

\* There are no notes of a paper that is not here, nor are any put back.
AbsentEmpty ==
    /\ ~present => notes = {}
    /\ (op.kind = "download" /\ op.step \in {"settle", "save"} /\ ~op.had) => op.old = {}

\* A paper that is here has a state, and so has one that is downloaded or uploaded.
Stated ==
    /\ (present /\ ~Gone /\ ~Torn) => state # None
    /\ (op.kind = "download" /\ op.step \notin {"idle", "check"}) => listed > 0 /\ state # None
    /\ (op.kind = "download" /\ op.step \in {"replace", "settle", "save"}) => op.before # None
    /\ (/\ op.kind = "upload" /\ op.step \in {"read", "publish", "settle"}
        /\ ~Stale /\ removal # "committing") => state # None
    /\ (op.kind = "upload" /\ op.step \in {"read", "publish", "settle"} /\ ~Outrun) =>
           state.dirty /\ state.generation >= op.generation
    /\ (op.kind = "upload" /\ op.step = "settle") => op.head > 0
    /\ (op.kind = "download" /\ op.step \in {"replace", "settle"} /\ ~Outrun) =>
           state.generation >= op.generation

Shapes == Ranges /\ StateTypes /\ OpTypes /\ Written /\ Queues /\ AbsentEmpty /\ Stated

--------------------------------------------------------------------------------
(* The types, step by step *)

USE DEF At, drive, copy, removing, history

\* What the invariants so far say of the numbers.
LEMMA Known ==
    ASSUME Base, Shapes
    PROVE  /\ written \in Nat /\ MaxNotes \in Nat /\ written <= MaxNotes
           /\ epoch \in Nat /\ committed \in Nat /\ origin \in Nat /\ op.epoch \in Nat
           /\ committed <= epoch /\ op.epoch <= epoch
           /\ Active => committed < epoch
           /\ Checking /\ Active => op.epoch < epoch
           /\ heads \in Seq(SUBSET Note) /\ Newest \in Nat
           /\ listed \in Nat /\ listed <= Newest /\ op.head \in Nat /\ op.head <= Newest
           /\ op.from \in Nat /\ op.from <= Newest
           /\ op.generation \in Nat /\ op.since \in Nat
           /\ state # None => state \in PaperState /\ state.generation \in Nat /\ state.known \in Nat
           /\ notes \subseteq Note
<1>1. Newest \in Nat
  BY DEF Base, Reads, ReadTypes, Newest
<1> QED
  BY <1>1, BoundAssumption
  DEF Base, Copies, Types, Epochs, Reads, ReadTypes, Marks, MarkTypes, Shapes, Ranges,
      StateTypes, OpTypes, Operations, PaperState

\* A default state is one.
LEMMA DefaultIsState ==
    ASSUME NEW avail \in Availability
    PROVE  /\ DefaultState(avail) \in PaperState /\ DefaultState(avail).versions = {}
           /\ DefaultState(avail).avail = avail
           /\ DefaultState(avail).dirty = (avail = "local-only")
           /\ DefaultState(avail).generation \in Nat
BY DEF DefaultState, PaperState

\* What is left of a state keeps its generation and its versions.
LEMMA CloudOnlyIsState ==
    ASSUME NEW s \in PaperState, NEW known \in Nat
    PROVE  /\ CloudOnly(s, known) \in PaperState /\ CloudOnly(s, known).versions = s.versions
           /\ CloudOnly(s, known).avail = "cloud-only" /\ ~CloudOnly(s, known).dirty
           /\ CloudOnly(s, known).generation = s.generation
BY DEF CloudOnly, PaperState, Availability

\* A mark is a new generation of the state.
LEMMA MarkDirtyEffect ==
    ASSUME state \in PaperState \cup {None}, MarkDirty
    PROVE  /\ state' \in PaperState \cup {None}
           /\ Active => state' = state
           /\ ~Active => /\ state' # None /\ state'.dirty
                         /\ state # None => state'.generation = state.generation + 1
           /\ state # None => state' # None /\ state'.versions = state.versions
           /\ state = None /\ state' # None => state'.versions = {}
<1>1. CASE Active
  BY <1>1 DEF MarkDirty
<1>2. CASE ~Active /\ state = None
  <2>1. DefaultState("local-only") \in PaperState /\ DefaultState("local-only").versions = {}
    BY DefaultIsState DEF Availability
  <2>2. state' = [DefaultState("local-only") EXCEPT !.dirty = TRUE, !.generation = 1]
    BY <1>2 DEF MarkDirty
  <2>3. state' \in PaperState /\ state'.dirty /\ state'.versions = {}
    BY <2>1, <2>2 DEF PaperState
  <2> QED
    BY <1>2, <2>3, NoneAssumption
<1>3. CASE ~Active /\ state # None
  <2>1. state' = [state EXCEPT !.dirty = TRUE, !.generation = @ + 1,
                               !.avail = IF state.known > 0 THEN "local-and-cloud" ELSE "local-only"]
    BY <1>3 DEF MarkDirty
  <2> DEFINE avail == IF state.known > 0 THEN "local-and-cloud" ELSE "local-only"
  <2>2. state \in PaperState /\ avail \in Availability
    BY <1>3 DEF Availability
  <2>3. state.generation + 1 \in Nat
    BY <2>2 DEF PaperState
  <2> HIDE DEF avail
  <2>4. state' = [state EXCEPT !.dirty = TRUE, !.generation = state.generation + 1, !.avail = avail]
    BY <2>1, <2>2 DEF PaperState, avail
  <2>5. /\ state' \in PaperState /\ state'.dirty /\ state'.versions = state.versions
        /\ state'.generation = state.generation + 1
    BY <2>2, <2>3, <2>4 DEF PaperState
  <2> QED
    BY <1>3, <2>5, NoneAssumption
<1> QED
  BY <1>1, <1>2, <1>3

\* A removal forgets a paper only if it is not known to be in Drive.
LEMMA SettleStateEffect ==
    ASSUME state \in PaperState \cup {None}, listed \in Nat, SettleState
    PROVE  /\ state' \in PaperState \cup {None}
           /\ listed > 0 => state' # None
           /\ state' # None => /\ ~state'.dirty /\ state'.avail = "cloud-only"
                               /\ state'.versions = IF state = None THEN {} ELSE state.versions
<1> DEFINE s == IF state = None THEN DefaultState("cloud-only") ELSE state
<1>1. s \in PaperState /\ s.versions = IF state = None THEN {} ELSE state.versions
  BY DefaultIsState DEF Availability
<1>2. s.known \in Nat
  BY <1>1 DEF PaperState
<1> DEFINE known == IF listed > 0 THEN listed ELSE s.known
<1>3. state' = IF ~(listed > 0 \/ s.known > 0) THEN None ELSE CloudOnly(s, known)
  BY DEF SettleState
<1>4. known \in Nat
  BY <1>2
<1> HIDE DEF s, known
<1> QED
  BY <1>1, <1>3, <1>4, CloudOnlyIsState, NoneAssumption

\* Nothing is being done.
LEMMA IdleIsOperation == Idle \in Operations /\ Idle.kind = "scan" /\ Idle.step = "idle"
BY DEF Idle, Operations, Kind, Steps

\* An operation that ends leaves the queue to the next.
LEMMA EndLeavesQueue ==
    ASSUME Shapes, End, op.step # "idle"
    PROVE  Queues' /\ OpTypes' /\ (\A kind \in Kind : Queued(kind)' => Queued(kind))
<1>1. queue \in Seq(Kind) /\ queue # <<>> /\ queue' = Tail(queue)
  BY DEF Shapes, Queues, End
<1>2. /\ queue' \in Seq(Kind)
      /\ \A i \in DOMAIN queue' : i + 1 \in DOMAIN queue /\ queue'[i] = queue[i + 1]
      /\ DOMAIN queue' \subseteq Nat
  BY <1>1
<1>3. \A i, j \in DOMAIN queue' : queue'[i] = queue'[j] => i = j
  BY <1>2 DEF Shapes, Queues
<1>4. op' = Idle
  BY DEF End
<1> QED
  BY <1>2, <1>3, <1>4, IdleIsOperation DEF Queues, OpTypes, Queued

\* A request changes the queue and nothing else.
LEMMA RequestUploadShapes ==
    ASSUME Base, Shapes, RequestUpload
    PROVE  Shapes'
<1>1. Ranges'
  BY Known DEF RequestUpload, Shapes, Ranges, Newest, Excuses
<1>2. StateTypes'
  BY  DEF RequestUpload, Shapes, StateTypes
<1>3. OpTypes'
  BY Known DEF RequestUpload, Shapes, OpTypes, Operations, Steps
<1>4. Written'
  BY Known DEF RequestUpload, Shapes, Written, OpTypes, Operations
<1>5. Queues'
  BY  DEF RequestUpload, Shapes, Queues, Queued, Kind
<1>6. AbsentEmpty'
  BY  DEF RequestUpload, Shapes, AbsentEmpty, OpTypes, Operations
<1>7. Stated'
  BY Known DEF RequestUpload, Shapes, Stated, Outrun, Stale, Gone, Torn, Active, Checking,
     OpTypes, Operations
<1> QED
  BY <1>1, <1>2, <1>3, <1>4, <1>5, <1>6, <1>7 DEF Shapes

\* A request changes the queue and nothing else.
LEMMA RequestDownloadShapes ==
    ASSUME Base, Shapes, RequestDownload
    PROVE  Shapes'
<1>1. Ranges'
  BY Known DEF RequestDownload, Shapes, Ranges, Newest, Excuses
<1>2. StateTypes'
  BY  DEF RequestDownload, Shapes, StateTypes
<1>3. OpTypes'
  BY Known DEF RequestDownload, Shapes, OpTypes, Operations, Steps
<1>4. Written'
  BY Known DEF RequestDownload, Shapes, Written, OpTypes, Operations
<1>5. Queues'
  BY  DEF RequestDownload, Shapes, Queues, Queued, Kind
<1>6. AbsentEmpty'
  BY  DEF RequestDownload, Shapes, AbsentEmpty, OpTypes, Operations
<1>7. Stated'
  BY Known DEF RequestDownload, Shapes, Stated, Outrun, Stale, Gone, Torn, Active, Checking,
     OpTypes, Operations
<1> QED
  BY <1>1, <1>2, <1>3, <1>4, <1>5, <1>6, <1>7 DEF Shapes

\* A request changes the queue and nothing else.
LEMMA RequestScanShapes ==
    ASSUME Base, Shapes, RequestScan
    PROVE  Shapes'
<1>1. Ranges'
  BY Known DEF RequestScan, Shapes, Ranges, Newest, Excuses
<1>2. StateTypes'
  BY  DEF RequestScan, Shapes, StateTypes
<1>3. OpTypes'
  BY Known DEF RequestScan, Shapes, OpTypes, Operations, Steps
<1>4. Written'
  BY Known DEF RequestScan, Shapes, Written, OpTypes, Operations
<1>5. Queues'
  BY  DEF RequestScan, Shapes, Queues, Queued, Kind
<1>6. AbsentEmpty'
  BY  DEF RequestScan, Shapes, AbsentEmpty, OpTypes, Operations
<1>7. Stated'
  BY Known DEF RequestScan, Shapes, Stated, Outrun, Stale, Gone, Torn, Active, Checking,
     OpTypes, Operations
<1> QED
  BY <1>1, <1>2, <1>3, <1>4, <1>5, <1>6, <1>7 DEF Shapes

\* A removal starts on a paper that is here.
LEMMA StartRemovalShapes ==
    ASSUME Base, Shapes, StartRemoval
    PROVE  Shapes'
<1>1. Ranges'
  BY Known DEF StartRemoval, Shapes, Ranges, Newest, Excuses
<1>2. StateTypes'
  BY  DEF StartRemoval, Shapes, StateTypes
<1>3. OpTypes'
  BY Known DEF StartRemoval, Shapes, OpTypes, Operations, Steps
<1>4. Written'
  BY Known DEF StartRemoval, Shapes, Written, OpTypes, Operations
<1>5. Queues'
  BY  DEF StartRemoval, Shapes, Queues
<1>6. AbsentEmpty'
  BY  DEF StartRemoval, Shapes, AbsentEmpty, OpTypes, Operations
<1>7. Stated'
  BY Known DEF StartRemoval, Shapes, Stated, Outrun, Stale, Gone, Torn, Active, Checking,
     OpTypes, Operations
<1> QED
  BY <1>1, <1>2, <1>3, <1>4, <1>5, <1>6, <1>7 DEF Shapes

\* Where there is no copy there are no notes.
LEMMA DeleteCopyShapes ==
    ASSUME Base, Shapes, DeleteCopy
    PROVE  Shapes'
<1>1. Ranges'
  BY Known DEF DeleteCopy, Shapes, Ranges, Newest, Excuses
<1>2. StateTypes'
  BY  DEF DeleteCopy, Shapes, StateTypes
<1>3. OpTypes'
  BY Known DEF DeleteCopy, Shapes, OpTypes, Operations, Steps
<1>4. Written'
  BY Known DEF DeleteCopy, Shapes, Written, OpTypes, Operations
<1>5. Queues'
  BY  DEF DeleteCopy, Shapes, Queues
<1>6. AbsentEmpty'
  BY  DEF DeleteCopy, Shapes, AbsentEmpty, OpTypes, Operations
<1>7. Stated'
  BY Known DEF DeleteCopy, Shapes, Stated, Outrun, Stale, Gone, Torn, Active, Checking,
     OpTypes, Operations
<1> QED
  BY <1>1, <1>2, <1>3, <1>4, <1>5, <1>6, <1>7 DEF Shapes

\* A removal that took the copy is excused.
LEMMA AbortRemovalShapes ==
    ASSUME Base, Shapes, AbortRemoval
    PROVE  Shapes'
<1>1. Ranges'
  BY Known DEF AbortRemoval, Shapes, Ranges, Newest, Excuses
<1>2. StateTypes'
  BY  DEF AbortRemoval, Shapes, StateTypes
<1>3. OpTypes'
  BY Known DEF AbortRemoval, Shapes, OpTypes, Operations, Steps
<1>4. Written'
  BY Known DEF AbortRemoval, Shapes, Written, OpTypes, Operations
<1>5. Queues'
  BY  DEF AbortRemoval, Shapes, Queues
<1>6. AbsentEmpty'
  BY  DEF AbortRemoval, Shapes, AbsentEmpty, OpTypes, Operations
<1>7. Stated'
  BY Known DEF AbortRemoval, Shapes, Stated, Outrun, Stale, Gone, Torn, Active, Checking,
     OpTypes, Operations
<1> QED
  BY <1>1, <1>2, <1>3, <1>4, <1>5, <1>6, <1>7 DEF Shapes

\* What is here then is what a download applied, and that has a state.
LEMMA FinishRemovalShapes ==
    ASSUME Base, Shapes, FinishRemoval
    PROVE  Shapes'
<1>1. Ranges'
  BY Known DEF FinishRemoval, Shapes, Ranges, Newest, Excuses
<1>2. StateTypes'
  BY  DEF FinishRemoval, Shapes, StateTypes
<1>3. OpTypes'
  BY Known DEF FinishRemoval, Shapes, OpTypes, Operations, Steps
<1>4. Written'
  BY Known DEF FinishRemoval, Shapes, Written, OpTypes, Operations
<1>5. Queues'
  BY  DEF FinishRemoval, Shapes, Queues
<1>6. AbsentEmpty'
  BY  DEF FinishRemoval, Shapes, AbsentEmpty, OpTypes, Operations
<1>7. Stated'
  BY Known DEF FinishRemoval, Shapes, Stated, Outrun, Stale, Gone, Torn, Active, Checking,
     OpTypes, Operations, Base, Copies, GoneCopies, Undoing
<1> QED
  BY <1>1, <1>2, <1>3, <1>4, <1>5, <1>6, <1>7 DEF Shapes

\* There is one reconciliation at a time.
LEMMA DrainShapes ==
    ASSUME Base, Shapes, Drain
    PROVE  Shapes'
<1>1. Ranges'
  BY Known DEF Drain, Shapes, Ranges, Newest, Excuses
<1>2. StateTypes'
  BY  DEF Drain, Shapes, StateTypes
<1>3. OpTypes'
  BY Known DEF Drain, Shapes, OpTypes, Operations, Steps
<1>4. Written'
  BY Known DEF Drain, Shapes, Written, OpTypes, Operations
<1>5. Queues'
  BY  DEF Drain, Shapes, Queues, Queued, Kind, Draining
<1>6. AbsentEmpty'
  BY  DEF Drain, Shapes, AbsentEmpty, OpTypes, Operations
<1>7. Stated'
  BY Known DEF Drain, Shapes, Stated, Outrun, Stale, Gone, Torn, Active, Checking, OpTypes,
     Operations
<1> QED
  BY <1>1, <1>2, <1>3, <1>4, <1>5, <1>6, <1>7 DEF Shapes

\* The next operation is the first.
LEMMA EndIfStaleShapes ==
    ASSUME Base, Shapes, EndIfStale
    PROVE  Shapes'
<1>1. Ranges'
  BY Known, IdleIsOperation DEF EndIfStale, End, Checked, Shapes, Ranges, Newest, Excuses,
     Idle
<1>2. StateTypes'
  BY IdleIsOperation DEF EndIfStale, End, Checked, Shapes, StateTypes, Idle
<1>3. OpTypes'
  BY EndLeavesQueue DEF EndIfStale
<1>4. Written'
  BY Known, IdleIsOperation DEF EndIfStale, End, Checked, Shapes, Written, OpTypes,
     Operations, Idle
<1>5. Queues'
  BY EndLeavesQueue DEF EndIfStale
<1>6. AbsentEmpty'
  BY IdleIsOperation DEF EndIfStale, End, Checked, Shapes, AbsentEmpty, OpTypes, Operations,
     Idle
<1>7. Stated'
  BY Known, IdleIsOperation DEF EndIfStale, End, Checked, Shapes, Stated, Outrun, Stale,
     Gone, Torn, Active, Checking, OpTypes, Operations, Idle
<1> QED
  BY <1>1, <1>2, <1>3, <1>4, <1>5, <1>6, <1>7 DEF Shapes

\* A package holds what is here, and what was known before.
LEMMA ReadPackageShapes ==
    ASSUME Base, Shapes, ReadPackage
    PROVE  Shapes'
<1>1. Ranges'
  BY Known DEF ReadPackage, Shapes, Ranges, Newest, Excuses
<1>2. StateTypes'
  BY  DEF ReadPackage, Shapes, StateTypes
<1>3. OpTypes'
  <2>1. notes \in SUBSET Note /\ state.versions \ notes \in SUBSET Note
    BY Known DEF ReadPackage, PaperState
  <2>2. op' = [op EXCEPT !.step = "publish", !.notes = notes, !.old = state.versions \ notes]
    BY DEF ReadPackage
  <2> QED
    BY <2>1, <2>2 DEF Shapes, OpTypes, Operations, Steps
<1>4. Written'
  BY Known DEF ReadPackage, Shapes, Written, OpTypes, Operations
<1>5. Queues'
  BY  DEF ReadPackage, Shapes, Queues
<1>6. AbsentEmpty'
  BY  DEF ReadPackage, Shapes, AbsentEmpty, OpTypes, Operations
<1>7. Stated'
  BY Known DEF ReadPackage, Shapes, Stated, Outrun, Stale, Gone, Torn, Active, Checking,
     OpTypes, Operations
<1> QED
  BY <1>1, <1>2, <1>3, <1>4, <1>5, <1>6, <1>7 DEF Shapes

\* What is merged was written, here or elsewhere.
LEMMA MergeDownloadShapes ==
    ASSUME Base, Shapes, MergeDownload
    PROVE  Shapes'
<1>1. Ranges'
  BY Known DEF MergeDownload, Checked, Merged, Shapes, Ranges, Newest, Excuses
<1>2. StateTypes'
  BY  DEF MergeDownload, Checked, Merged, Shapes, StateTypes
<1>3. OpTypes'
  <2> DEFINE changed == state.dirty /\ state.avail # "cloud-only"
  <2>1. changed \in BOOLEAN /\ state \in PaperState
    BY Known DEF MergeDownload, Shapes, Stated, PaperState
  <2>2. state.generation \in Nat /\ written \in Nat
    BY <2>1, Known DEF PaperState
  <2>3. Merged(changed) \in SUBSET Note
    BY Known DEF Merged, Shapes, OpTypes, Operations
  <2>4. op' = [op EXCEPT !.step = "replace", !.notes = Merged(changed), !.merged = changed,
                         !.generation = state.generation, !.before = state, !.since = written]
    BY DEF MergeDownload
  <2> HIDE DEF changed
  <2> QED
    BY <2>1, <2>2, <2>3, <2>4 DEF Shapes, OpTypes, Operations, Steps
<1>4. Written'
  BY Known DEF MergeDownload, Checked, Merged, Shapes, Written, OpTypes, Operations
<1>5. Queues'
  BY  DEF MergeDownload, Checked, Merged, Shapes, Queues
<1>6. AbsentEmpty'
  BY  DEF MergeDownload, Checked, Merged, Shapes, AbsentEmpty, OpTypes, Operations
<1>7. Stated'
  BY Known DEF MergeDownload, Checked, Merged, Shapes, Stated, Outrun, Stale, Gone, Torn,
     Active, Checking, OpTypes, Operations
<1> QED
  BY <1>1, <1>2, <1>3, <1>4, <1>5, <1>6, <1>7 DEF Shapes

\* A download replaces the notes by those it read.
LEMMA ApplyDownloadShapes ==
    ASSUME Base, Shapes, ApplyDownload
    PROVE  Shapes'
<1>1. Ranges'
  BY Known DEF ApplyDownload, Shapes, Ranges, Newest, Excuses
<1>2. StateTypes'
  BY  DEF ApplyDownload, Shapes, StateTypes
<1>3. OpTypes'
  <2>1. op' = [op EXCEPT !.step = "settle", !.had = present, !.old = notes]
    BY DEF ApplyDownload
  <2> QED
    BY <2>1, Known DEF Shapes, Ranges, OpTypes, Operations, Steps
<1>4. Written'
  BY Known DEF ApplyDownload, Shapes, Written, OpTypes, Operations
<1>5. Queues'
  BY  DEF ApplyDownload, Shapes, Queues
<1>6. AbsentEmpty'
  BY  DEF ApplyDownload, Shapes, AbsentEmpty, OpTypes, Operations
<1>7. Stated'
  BY Known DEF ApplyDownload, Shapes, Stated, Outrun, Stale, Gone, Torn, Active, Checking,
     OpTypes, Operations
<1> QED
  BY <1>1, <1>2, <1>3, <1>4, <1>5, <1>6, <1>7 DEF Shapes

\* The catalog is no part of this.
LEMMA FinishDownloadShapes ==
    ASSUME Base, Shapes, FinishDownload
    PROVE  Shapes'
<1>1. Ranges'
  BY Known, IdleIsOperation DEF FinishDownload, End, Shapes, Ranges, Newest, Excuses, Idle
<1>2. StateTypes'
  BY IdleIsOperation DEF FinishDownload, End, Shapes, StateTypes, Idle
<1>3. OpTypes'
  BY EndLeavesQueue DEF FinishDownload
<1>4. Written'
  BY Known, IdleIsOperation DEF FinishDownload, End, Shapes, Written, OpTypes, Operations,
     Idle
<1>5. Queues'
  BY EndLeavesQueue DEF FinishDownload
<1>6. AbsentEmpty'
  BY IdleIsOperation DEF FinishDownload, End, Shapes, AbsentEmpty, OpTypes, Operations, Idle
<1>7. Stated'
  BY Known, IdleIsOperation DEF FinishDownload, End, Shapes, Stated, Outrun, Stale, Gone,
     Torn, Active, Checking, OpTypes, Operations, Idle
<1> QED
  BY <1>1, <1>2, <1>3, <1>4, <1>5, <1>6, <1>7 DEF Shapes

\* A stale download is to be discarded.
LEMMA DiscardDownloadShapes ==
    ASSUME Base, Shapes, DiscardDownload
    PROVE  Shapes'
<1>1. Ranges'
  BY Known DEF DiscardDownload, Checked, Shapes, Ranges, Newest, Excuses
<1>2. StateTypes'
  BY  DEF DiscardDownload, Checked, Shapes, StateTypes
<1>3. OpTypes'
  BY Known DEF DiscardDownload, Checked, Shapes, OpTypes, Operations, Steps
<1>4. Written'
  BY Known DEF DiscardDownload, Checked, Shapes, Written, OpTypes, Operations
<1>5. Queues'
  BY  DEF DiscardDownload, Checked, Shapes, Queues
<1>6. AbsentEmpty'
  BY  DEF DiscardDownload, Checked, Shapes, AbsentEmpty, OpTypes, Operations
<1>7. Stated'
  BY Known DEF DiscardDownload, Checked, Shapes, Stated, Outrun, Stale, Gone, Torn, Active,
     Checking, OpTypes, Operations
<1> QED
  BY <1>1, <1>2, <1>3, <1>4, <1>5, <1>6, <1>7 DEF Shapes

\* Where there is no copy there are no notes.
LEMMA EnsureAbsentShapes ==
    ASSUME Base, Shapes, EnsureAbsent
    PROVE  Shapes'
<1>1. Ranges'
  BY Known, IdleIsOperation DEF EnsureAbsent, End, Shapes, Ranges, Newest, Excuses, Idle
<1>2. StateTypes'
  BY IdleIsOperation DEF EnsureAbsent, End, Shapes, StateTypes, Idle
<1>3. OpTypes'
  BY EndLeavesQueue DEF EnsureAbsent
<1>4. Written'
  BY Known, IdleIsOperation DEF EnsureAbsent, End, Shapes, Written, OpTypes, Operations,
     Idle
<1>5. Queues'
  BY EndLeavesQueue DEF EnsureAbsent
<1>6. AbsentEmpty'
  BY IdleIsOperation DEF EnsureAbsent, End, Shapes, AbsentEmpty, OpTypes, Operations, Idle
<1>7. Stated'
  BY Known, IdleIsOperation DEF EnsureAbsent, End, Shapes, Stated, Outrun, Stale, Gone,
     Torn, Active, Checking, OpTypes, Operations, Idle
<1> QED
  BY <1>1, <1>2, <1>3, <1>4, <1>5, <1>6, <1>7 DEF Shapes

\* A file that is opened is marked, and has the notes that are here.
LEMMA OpenShapes ==
    ASSUME Base, Shapes, Open
    PROVE  Shapes'
<1>1. /\ present' = TRUE /\ MarkDirty /\ ~Active
      /\ UNCHANGED <<heads, listed, notes, removal, epoch, committed, pending, queue, written,
                     uploaded, exposed, excused>>
  BY DEF Open
<1>2. op' = op \/ op' = [op EXCEPT !.opened = TRUE]
  BY DEF Open
<1>3. op' \in Operations /\ \A f \in Fields \ {"opened"} : op'[f] = op[f]
  BY <1>2 DEF Shapes, OpTypes, Operations, Fields
<1>4. state \in PaperState \cup {None}
  BY DEF Shapes, StateTypes
<1>5. /\ state' \in PaperState \cup {None} /\ state' # None /\ state'.dirty
      /\ state # None => /\ state'.versions = state.versions
                         /\ state'.generation = state.generation + 1
      /\ state = None => state'.versions = {}
  BY <1>1, <1>4, MarkDirtyEffect
<1> HIDE DEF Open
<1>6. Ranges'
  BY <1>1 DEF Shapes, Ranges, Newest
<1>7. Written'
  BY <1>1, <1>3, <1>5, Known DEF Shapes, Written, Fields
<1>8. Queues'
  BY <1>1, <1>3 DEF Shapes, Queues, Fields
<1>9. AbsentEmpty'
  BY <1>1, <1>3 DEF Shapes, AbsentEmpty, Fields
<1>10. Stated'
  BY <1>1, <1>3, <1>5, Known DEF Shapes, Stated, Outrun, Stale, Gone, Torn, Fields
<1> QED
  BY <1>3, <1>5, <1>6, <1>7, <1>8, <1>9, <1>10 DEF Shapes, StateTypes, OpTypes

\* A note is a new one.
LEMMA EditShapes ==
    ASSUME Base, Shapes, Edit
    PROVE  Shapes'
<1>1. /\ present /\ MarkDirty /\ written < MaxNotes
      /\ written' = written + 1 /\ notes' = notes \cup {written + 1}
      /\ exposed' = exposed \/ exposed' = exposed \cup {written + 1}
      /\ UNCHANGED <<heads, listed, present, removal, epoch, committed, pending, queue, op,
                     uploaded, excused>>
  BY DEF Edit
<1>2. state \in PaperState \cup {None}
  BY DEF Shapes, StateTypes
<1>3. /\ state' \in PaperState \cup {None}
      /\ Active => state' = state
      /\ ~Active => state' # None /\ state'.dirty
      /\ state # None => /\ state' # None /\ state'.versions = state.versions
                         /\ ~Active => state'.generation = state.generation + 1
      /\ state = None /\ state' # None => state'.versions = {}
  BY <1>1, <1>2, MarkDirtyEffect
<1>4. 1..written \subseteq 1..written' /\ written + 1 \in 1..written'
  BY <1>1, Known
<1> HIDE DEF Edit
<1>5. Ranges'
  <2>1. exposed' \subseteq 1..written'
    BY <1>1, <1>4 DEF Shapes, Ranges
  <2>2. written' <= MaxNotes /\ Newest' = Newest
    BY <1>1, Known DEF Newest
  <2> QED
    BY <1>1, <2>1, <2>2 DEF Shapes, Ranges
<1>6. OpTypes'
  BY <1>1 DEF Shapes, OpTypes
<1>7. Written'
  BY <1>1, <1>3, <1>4 DEF Shapes, Written
<1>8. Queues'
  BY <1>1 DEF Shapes, Queues
<1>9. AbsentEmpty'
  BY <1>1 DEF Shapes, AbsentEmpty
<1>10. Stated'
  BY <1>1, <1>3, Known DEF Shapes, Stated, Outrun, Stale, Gone, Torn
<1> QED
  BY <1>3, <1>5, <1>6, <1>7, <1>8, <1>9, <1>10 DEF Shapes, StateTypes

\* A generation holds what the one before it held, and a new note.
LEMMA OtherDevicePublishesShapes ==
    ASSUME Base, Shapes, OtherDevicePublishes
    PROVE  Shapes'
<1>1. /\ 0 < Newest /\ written < MaxNotes /\ written' = written + 1
      /\ heads' = Append(heads, InDrive \cup {written + 1})
      /\ UNCHANGED <<listed, present, notes, state, removal, epoch, committed, pending, queue, op,
                     uploaded, exposed, excused>>
  BY DEF OtherDevicePublishes
<1>2. 1..written \subseteq 1..written' /\ written + 1 \in 1..written'
  BY <1>1, Known
<1>3. /\ DOMAIN heads' = 1..(Newest + 1) /\ Newest' = Newest + 1
      /\ heads'[Newest + 1] = InDrive \cup {written + 1}
      /\ DOMAIN heads = 1..Newest
      /\ \A i \in 1..Newest : heads'[i] = heads[i]
  BY <1>1, Known DEF Newest
<1>4. InDrive = heads[Newest] /\ Newest \in DOMAIN heads
  BY <1>1, <1>3, Known DEF InDrive
<1>5. \A i \in DOMAIN heads' : heads'[i] \subseteq 1..written'
  <2>1. \A i \in DOMAIN heads : heads[i] \subseteq 1..written
    BY DEF Shapes, Written
  <2>2. \A i \in DOMAIN heads' : i \in DOMAIN heads \/ i = Newest + 1
    BY <1>3, Known
  <2> QED
    BY <1>2, <1>3, <1>4, <2>1, <2>2
<1>6. Ranges'
  BY <1>1, <1>2, <1>3, Known DEF Shapes, Ranges
<1>7. Written'
  BY <1>1, <1>2, <1>5 DEF Shapes, Written
<1>8. Queues' /\ AbsentEmpty' /\ StateTypes' /\ OpTypes'
  BY <1>1 DEF Shapes, Queues, AbsentEmpty, StateTypes, OpTypes
<1>9. Stated'
  BY <1>1 DEF Shapes, Stated, Outrun, Stale, Gone, Torn
<1> QED
  BY <1>6, <1>7, <1>8, <1>9 DEF Shapes

\* The state of a paper the catalog lists is kept.
LEMMA CommitRemovalShapes ==
    ASSUME Base, Shapes, CommitRemoval
    PROVE  Shapes'
<1>1. /\ removal' = "committing" /\ SettleState
      /\ UNCHANGED <<heads, listed, present, notes, epoch, committed, pending, queue, op,
                     written, uploaded, exposed, excused>>
  BY DEF CommitRemoval
<1>2. state \in PaperState \cup {None} /\ listed \in Nat
  BY Known DEF Shapes, StateTypes
<1>3. /\ state' \in PaperState \cup {None} /\ (listed > 0 => state' # None)
      /\ state' # None => state'.versions = IF state = None THEN {} ELSE state.versions
  BY <1>1, <1>2, SettleStateEffect
<1>4. Ranges' /\ Queues' /\ AbsentEmpty' /\ OpTypes'
  BY <1>1 DEF Shapes, Ranges, Newest, Queues, AbsentEmpty, OpTypes
<1>5. Written'
  BY <1>1, <1>3 DEF Shapes, Written
<1>6. Stated'
  BY <1>1, <1>3 DEF Shapes, Stated, Outrun, Stale, Gone, Torn
<1> QED
  BY <1>3, <1>4, <1>5, <1>6 DEF Shapes, StateTypes

\* What begins is the first in the queue.
LEMMA BeginShapes ==
    ASSUME Base, Shapes, Begin
    PROVE  Shapes'
<1>1. /\ op.step = "idle" /\ queue # <<>>
      /\ UNCHANGED <<heads, listed, present, notes, state, removal, epoch, committed, pending,
                     queue, written, uploaded, exposed, excused>>
  BY DEF Begin
<1>2. queue[1] \in Kind
  BY <1>1 DEF Shapes, Queues
<1>3. PICK step \in {"local", "read", "check"}, captured \in Nat, from \in Nat :
          op' = [Idle EXCEPT !.kind = queue[1], !.step = step, !.epoch = captured, !.from = from]
  <2> DEFINE step == CASE queue[1] = "scan" -> "local" [] queue[1] = "reconcile" -> "read"
                       [] OTHER -> "check"
             captured == IF queue[1] = "reconcile" THEN drained ELSE epoch
             from == IF queue[1] = "download" THEN Newest ELSE 0
  <2>1. step \in {"local", "read", "check"} /\ captured \in Nat /\ from \in Nat
    BY Known DEF Base, Copies, Types
  <2>2. op' = [Idle EXCEPT !.kind = queue[1], !.step = step, !.epoch = captured, !.from = from]
    BY DEF Begin
  <2> HIDE DEF step, captured, from
  <2> QED
    BY <2>1, <2>2
<1>4. /\ op' \in Operations /\ op'.kind = queue[1] /\ op'.step \in {"local", "read", "check"}
      /\ op'.notes = {} /\ op'.old = {} /\ op'.before = None
  <2>1. op' \in Operations /\ op'.kind = queue[1] /\ op'.step \in {"local", "read", "check"}
    BY <1>2, <1>3, IdleIsOperation DEF Operations, Steps
  <2>2. op'.notes = {} /\ op'.old = {} /\ op'.before = None
    BY <1>3 DEF Idle
  <2> QED
    BY <2>1, <2>2
<1> HIDE DEF Begin
<1>5. Ranges' /\ StateTypes' /\ OpTypes'
  BY <1>1, <1>4 DEF Shapes, Ranges, Newest, StateTypes, OpTypes
<1>6. Written'
  BY <1>1, <1>4 DEF Shapes, Written
<1>7. Queues'
  BY <1>1, <1>4 DEF Shapes, Queues
<1>8. AbsentEmpty'
  BY <1>1, <1>4 DEF Shapes, AbsentEmpty
<1>9. Stated'
  <2>1. (present /\ ~Gone /\ ~Torn)' => state' # None
    BY <1>1 DEF Shapes, Stated, Gone, Torn
  <2>2. /\ op'.kind = "download" => op'.step = "check"
        /\ op'.kind = "upload" => op'.step = "check"
    <3>1. op'.kind = queue[1] /\ (queue[1] \notin {"scan", "reconcile"} => op'.step = "check")
      BY DEF Begin, Idle
    <3> QED
      BY <3>1
  <2> QED
    BY <2>1, <2>2 DEF Stated
<1> QED
  BY <1>5, <1>6, <1>7, <1>8, <1>9 DEF Shapes

\* A failure only ends the operation.
LEMMA FailShapes ==
    ASSUME Base, Shapes, Fail
    PROVE  Shapes'
<1>1. /\ op.step # "idle" /\ End /\ excused' \subseteq excused \cup Excuses /\ excused \subseteq excused'
      /\ UNCHANGED <<heads, listed, present, notes, state, removal, epoch, committed, pending,
                     written, uploaded, exposed>>
  BY DEF Fail, Excuses
<1> HIDE DEF Fail
<1>2. Queues' /\ OpTypes' /\ op' = Idle
  BY <1>1, EndLeavesQueue DEF End
<1>3. Ranges' /\ StateTypes'
  BY <1>1 DEF Shapes, Ranges, Newest, StateTypes
<1>4. Written' /\ AbsentEmpty'
  BY <1>1, <1>2 DEF Shapes, Written, AbsentEmpty, Idle
<1>5. Stated'
  BY <1>1, <1>2 DEF Shapes, Stated, Gone, Torn, Idle
<1> QED
  BY <1>2, <1>3, <1>4, <1>5 DEF Shapes

\* The generation of the mark is captured with the check.
LEMMA CheckUploadShapes ==
    ASSUME Base, Shapes, CheckUpload
    PROVE  Shapes'
<1>1. /\ At("upload", "check") /\ Checked
      /\ UNCHANGED <<heads, listed, present, notes, state, removal, epoch, committed, pending,
                     written, uploaded, exposed, excused>>
  BY DEF CheckUpload
<1>2. Ranges' /\ StateTypes'
  BY <1>1 DEF Shapes, Ranges, Newest, StateTypes
<1>3. CASE End
  <2>1. Queues' /\ OpTypes' /\ op' = Idle
    BY <1>1, <1>3, EndLeavesQueue DEF End
  <2>2. Written' /\ AbsentEmpty'
    BY <1>1, <2>1 DEF Shapes, Written, AbsentEmpty, Idle
  <2>3. Stated'
    BY <1>1, <2>1 DEF Shapes, Stated, Gone, Torn, Idle
  <2> QED
    BY <1>2, <2>1, <2>2, <2>3 DEF Shapes
<1>4. CASE ~End
  <2>1. /\ state # None /\ state.dirty /\ queue' = queue
        /\ op' = [op EXCEPT !.step = "read", !.generation = state.generation]
    BY <1>4 DEF CheckUpload
  <2>2. state.generation \in Nat
    BY <2>1, Known
  <2>3. /\ op' \in Operations /\ op'.kind = "upload" /\ op'.step = "read"
        /\ op'.generation = state.generation
        /\ op'.notes = op.notes /\ op'.old = op.old /\ op'.before = op.before
    BY <1>1, <2>1, <2>2 DEF Shapes, OpTypes, Operations, Steps
  <2>4. Written' /\ AbsentEmpty' /\ OpTypes'
    BY <1>1, <2>3 DEF Shapes, Written, AbsentEmpty, OpTypes
  <2>5. Queues'
    BY <1>1, <2>1, <2>3 DEF Shapes, Queues
  <2>6. Stated'
    BY <1>1, <2>1, <2>2, <2>3 DEF Shapes, Stated, Gone, Torn
  <2> QED
    BY <1>2, <2>4, <2>5, <2>6 DEF Shapes
<1> QED
  BY <1>3, <1>4

\* What is published was written.
LEMMA PublishShapes ==
    ASSUME Base, Shapes, Publish
    PROVE  Shapes'
<1> DEFINE published == (InDrive \cup op.notes) \ op.old
<1>1. /\ At("upload", "publish") /\ uploaded' = Newest'
      /\ (heads' = heads /\ Newest > 0) \/ heads' = Append(heads, published)
      /\ op' = [op EXCEPT !.step = "settle", !.head = Newest', !.notes = {}, !.old = {}]
      /\ UNCHANGED <<listed, present, notes, state, removal, epoch, committed, pending, queue,
                     written, exposed, excused>>
  BY DEF Publish, Newest
<1>2. published \subseteq 1..written
  BY Known DEF Shapes, Written, InDrive, Newest
<1> HIDE DEF published, Publish
<1>3. Newest' \in Nat /\ Newest' > 0 /\ \A i \in DOMAIN heads' : heads'[i] \subseteq 1..written
  <2>1. CASE heads' = heads /\ Newest > 0
    BY <2>1, Known DEF Shapes, Written, Newest
  <2>2. CASE heads' = Append(heads, published)
    <3>1. /\ DOMAIN heads' = 1..(Newest + 1) /\ Newest' = Newest + 1
          /\ heads'[Newest + 1] = published
          /\ DOMAIN heads = 1..Newest
          /\ \A i \in 1..Newest : heads'[i] = heads[i]
      BY <2>2, Known DEF Newest
    <3>2. \A i \in DOMAIN heads' : i \in DOMAIN heads \/ i = Newest + 1
      BY <3>1, Known
    <3>3. \A i \in DOMAIN heads : heads[i] \subseteq 1..written
      BY DEF Shapes, Written
    <3>4. \A i \in DOMAIN heads' : heads'[i] \subseteq 1..written
      BY <1>2, <3>1, <3>2, <3>3
    <3> QED
      BY <3>1, <3>4, Known
  <2> QED
    BY <1>1, <2>1, <2>2
<1>4. /\ op' \in Operations /\ op'.kind = "upload" /\ op'.step = "settle"
      /\ op'.notes = {} /\ op'.old = {} /\ op'.before = op.before
      /\ op'.generation = op.generation /\ op'.epoch = op.epoch /\ op'.head = Newest'
  BY <1>1, <1>3 DEF Shapes, OpTypes, Operations, Steps
<1>5. Ranges'
  BY <1>1, <1>3 DEF Shapes, Ranges
<1>6. Written'
  BY <1>1, <1>3, <1>4 DEF Shapes, Written
<1>7. Queues' /\ StateTypes' /\ OpTypes' /\ AbsentEmpty'
  BY <1>1, <1>4 DEF Shapes, Queues, StateTypes, OpTypes, AbsentEmpty
<1>8. Stated'
  BY <1>1, <1>3, <1>4 DEF Shapes, Stated, Outrun, Stale, Gone, Torn
<1> QED
  BY <1>5, <1>6, <1>7, <1>8 DEF Shapes

\* The settled state knows what was published.
LEMMA SettleUploadShapes ==
    ASSUME Base, Shapes, SettleUpload
    PROVE  Shapes'
<1>1. /\ At("upload", "settle") /\ Checked /\ ~Stale /\ End
      /\ state' = [avail |-> "local-and-cloud", dirty |-> SettledDirty,
                   generation |-> state.generation, known |-> op.head,
                   versions |-> heads[op.head]]
      /\ listed' = op.head
      /\ UNCHANGED <<heads, present, notes, removal, epoch, committed, pending, written,
                     uploaded, exposed, excused>>
  BY DEF SettleUpload
<1> HIDE DEF SettleUpload
<1>2. Queues' /\ OpTypes' /\ op' = Idle
  BY <1>1, EndLeavesQueue DEF End
<1>3. Ranges' /\ AbsentEmpty'
  BY <1>1, <1>2 DEF Shapes, Ranges, Newest, AbsentEmpty, Idle
<1>4. state # None /\ state \in PaperState /\ op.head > 0
  BY <1>1, Known DEF Shapes, Stated, Checked, Active
<1>5. op.head \in DOMAIN heads
  BY <1>4, Known DEF Newest
<1>6. heads[op.head] \subseteq 1..written /\ heads[op.head] \in SUBSET Note
  BY <1>5, Known DEF Shapes, Written
<1>7. SettledDirty \in BOOLEAN /\ state.generation \in Nat /\ op.head \in Nat
  BY <1>4, Known DEF SettledDirty, PaperState
<1>8. /\ state' \in PaperState /\ state'.versions = heads[op.head]
  BY <1>1, <1>6, <1>7 DEF PaperState, Availability
<1>9. Written'
  BY <1>1, <1>2, <1>6, <1>8 DEF Shapes, Written, Idle
<1>10. Stated'
  BY <1>1, <1>2, <1>8, NoneAssumption DEF Stated, Idle
<1> QED
  BY <1>2, <1>3, <1>8, <1>9, <1>10 DEF Shapes, StateTypes

\* A download takes the generation the catalog lists.
LEMMA CheckDownloadShapes ==
    ASSUME Base, Shapes, CheckDownload
    PROVE  Shapes'
<1>1. /\ At("download", "check") /\ Checked /\ listed > 0
      /\ state' = IF state = None THEN DefaultState("cloud-only") ELSE state
      /\ op' = [op EXCEPT !.step = "fetch", !.head = listed]
      /\ UNCHANGED <<heads, listed, present, notes, removal, epoch, committed, pending, queue,
                     written, uploaded, exposed, excused>>
  BY DEF CheckDownload
<1> HIDE DEF CheckDownload
<1>2. /\ state' \in PaperState /\ (state # None => state' = state)
      /\ state'.versions = IF state = None THEN {} ELSE state.versions
  BY <1>1, DefaultIsState DEF Shapes, StateTypes, Availability
<1>3. /\ op' \in Operations /\ op'.kind = "download" /\ op'.step = "fetch"
      /\ op'.notes = op.notes /\ op'.old = op.old /\ op'.before = op.before
  BY <1>1, Known DEF Shapes, OpTypes, Operations, Steps
<1>4. Ranges' /\ AbsentEmpty' /\ OpTypes'
  BY <1>1, <1>3 DEF Shapes, Ranges, Newest, AbsentEmpty, OpTypes
<1>5. Written'
  BY <1>1, <1>2, <1>3 DEF Shapes, Written
<1>6. Queues'
  BY <1>1, <1>3 DEF Shapes, Queues
<1>7. Stated'
  BY <1>1, <1>2, <1>3, NoneAssumption DEF Stated
<1> QED
  BY <1>2, <1>4, <1>5, <1>6, <1>7 DEF Shapes, StateTypes

\* What is read was written.
LEMMA FetchShapes ==
    ASSUME Base, Shapes, Fetch
    PROVE  Shapes'
<1>1. /\ At("download", "fetch")
      /\ UNCHANGED <<heads, listed, present, notes, state, removal, epoch, committed, pending,
                     queue, written, uploaded, exposed, excused>>
      /\ \/ op' = [op EXCEPT !.step = "apply", !.notes = heads[op.head]]
         \/ op' = [op EXCEPT !.step = "refresh"]
  BY DEF Fetch
<1> HIDE DEF Fetch
<1>2. op.head > 0
  BY <1>1 DEF Base, Reads
<1>3. op.head \in DOMAIN heads
  BY <1>2, Known DEF Newest
<1>4. heads[op.head] \subseteq 1..written /\ heads[op.head] \in SUBSET Note
  BY <1>3, Known DEF Shapes, Written
<1>5. /\ op' \in Operations /\ op'.kind = "download" /\ op'.step \in {"apply", "refresh"}
      /\ op'.notes \subseteq 1..written /\ op'.old = op.old /\ op'.before = op.before
  <2>1. CASE op' = [op EXCEPT !.step = "apply", !.notes = heads[op.head]]
    BY <1>1, <1>4, <2>1 DEF Shapes, OpTypes, Operations, Steps
  <2>2. CASE op' = [op EXCEPT !.step = "refresh"]
    BY <1>1, <2>2 DEF Shapes, OpTypes, Operations, Steps, Written
  <2> QED
    BY <1>1, <2>1, <2>2
<1>6. Ranges' /\ StateTypes' /\ AbsentEmpty' /\ OpTypes'
  BY <1>1, <1>5 DEF Shapes, Ranges, Newest, StateTypes, AbsentEmpty, OpTypes
<1>7. Written'
  BY <1>1, <1>5 DEF Shapes, Written
<1>8. Queues'
  BY <1>1, <1>5 DEF Shapes, Queues
<1>9. Stated'
  BY <1>1, <1>5 DEF Shapes, Stated, Outrun, Stale, Gone, Torn
<1> QED
  BY <1>6, <1>7, <1>8, <1>9 DEF Shapes

\* Reading the head again changes nothing else.
LEMMA HeadReadShapes ==
    ASSUME Base, Shapes, Refresh \/ ReadDrive
    PROVE  Shapes'
<1>1. /\ (op.kind \in {"scan", "reconcile"} \/ (op.kind = "download" /\ op.step = "refresh"))
      /\ op.step # "idle"
      /\ UNCHANGED <<heads, listed, present, notes, state, removal, epoch, committed, pending,
                     queue, written, uploaded, exposed, excused>>
  <2>1. CASE Refresh
    BY <2>1 DEF Refresh
  <2>2. CASE ReadDrive
    BY <2>2 DEF ReadDrive
  <2> QED
    BY <2>1, <2>2
<1>2. /\ op' \in Operations /\ op'.kind = op.kind /\ op'.step \in {"fetch", "apply"}
      /\ op'.notes = op.notes /\ op'.old = op.old /\ op'.before = op.before
  <2>1. CASE Refresh
    <3>1. op' = [op EXCEPT !.step = "fetch", !.attempt = 2, !.head = Newest]
      BY <2>1 DEF Refresh
    <3> QED
      BY <3>1, Known DEF Shapes, OpTypes, Operations, Steps
  <2>2. CASE ReadDrive
    <3>1. op' = [op EXCEPT !.step = "apply", !.head = Newest]
      BY <2>2 DEF ReadDrive
    <3> QED
      BY <3>1, Known DEF Shapes, OpTypes, Operations, Steps
  <2> QED
    BY <2>1, <2>2
<1>3. Ranges' /\ StateTypes' /\ AbsentEmpty' /\ OpTypes'
  BY <1>1, <1>2 DEF Shapes, Ranges, Newest, StateTypes, AbsentEmpty, OpTypes
<1>4. Written'
  BY <1>1, <1>2 DEF Shapes, Written
<1>5. Queues'
  BY <1>1, <1>2 DEF Shapes, Queues
<1>6. Stated'
  BY <1>1, <1>2 DEF Shapes, Stated, Outrun, Stale, Gone, Torn
<1> QED
  BY <1>3, <1>4, <1>5, <1>6 DEF Shapes

\* The settled state knows what was applied.
LEMMA SettleDownloadShapes ==
    ASSUME Base, Shapes, SettleDownload
    PROVE  Shapes'
<1> DEFINE dirty == IF op.merged THEN state.dirty ELSE SettledDirty
<1>1. /\ At("download", "settle") /\ Checked
      /\ state' = [avail |-> "local-and-cloud", dirty |-> dirty,
                   generation |-> state.generation, known |-> op.head, versions |-> op.notes]
      /\ op' = [op EXCEPT !.step = "save"]
      /\ UNCHANGED <<heads, listed, present, notes, removal, epoch, committed, pending, queue,
                     written, uploaded, exposed, excused>>
  BY DEF SettleDownload
<1>2. state # None /\ state \in PaperState /\ state.generation \in Nat
  BY <1>1, Known DEF Shapes, Stated
<1>3. dirty \in BOOLEAN /\ op.head \in Nat /\ op.notes \in SUBSET Note
  BY <1>2, Known DEF SettledDirty, PaperState, Shapes, OpTypes, Operations
<1> HIDE DEF SettleDownload, dirty
<1>4. state' \in PaperState /\ state'.versions = op.notes /\ state'.generation = state.generation
  BY <1>1, <1>2, <1>3 DEF PaperState, Availability
<1>5. op' \in Operations /\ op'.step = "save"
      /\ \A f \in Fields \ {"step"} : op'[f] = op[f]
  BY <1>1 DEF Shapes, OpTypes, Operations, Steps, Fields
<1>6. Ranges' /\ OpTypes' /\ AbsentEmpty'
  BY <1>1, <1>5 DEF Shapes, Ranges, Newest, OpTypes, AbsentEmpty, Fields
<1>7. Written'
  BY <1>1, <1>4, <1>5 DEF Shapes, Written, Fields
<1>8. Queues'
  BY <1>1, <1>5 DEF Shapes, Queues, Fields
<1>9. Stated'
  BY <1>1, <1>4, <1>5, NoneAssumption DEF Shapes, Stated, Fields
<1> QED
  BY <1>4, <1>6, <1>7, <1>8, <1>9 DEF Shapes, StateTypes

\* What is put back was there before.
LEMMA RollBackDownloadShapes ==
    ASSUME Base, Shapes, RollBackDownload
    PROVE  Shapes'
<1>1. /\ At("download", "save") /\ End
      /\ present' = op.had /\ notes' = op.old /\ state' = op.before
      /\ exposed' = exposed \cup ((op.since + 1)..written)
      /\ excused' \subseteq excused \cup {"torn"}
      /\ UNCHANGED <<heads, listed, removal, epoch, committed, pending, written, uploaded>>
  BY DEF RollBackDownload
<1> HIDE DEF RollBackDownload
<1>2. Queues' /\ OpTypes' /\ op' = Idle
  BY <1>1, EndLeavesQueue DEF End
<1>3. op \in Operations /\ op.before # None
  BY <1>1 DEF Shapes, OpTypes, Stated
<1>4. Ranges'
  <2>1. (op.since + 1)..written \subseteq 1..written
    BY Known
  <2> QED
    BY <1>1, <1>3, <2>1 DEF Shapes, Ranges, Newest, Operations, Excuses
<1>5. StateTypes' /\ AbsentEmpty'
  BY <1>1, <1>2, <1>3 DEF Shapes, StateTypes, AbsentEmpty, Operations, Idle
<1>6. Written'
  BY <1>1, <1>2 DEF Shapes, Written, Idle
<1>7. Stated'
  BY <1>1, <1>2, <1>3 DEF Stated, Idle
<1> QED
  BY <1>2, <1>4, <1>5, <1>6, <1>7 DEF Shapes

\* A scan finds a state for what is here, and loses none.
LEMMA ReconcileLocalStateShapes ==
    ASSUME Base, Shapes, ReconcileLocalState
    PROVE  Shapes'
<1>1. /\ At("scan", "local") /\ op' = [op EXCEPT !.step = "read"]
      /\ UNCHANGED <<heads, listed, present, notes, removal, epoch, committed, pending, queue,
                     written, uploaded, exposed, excused>>
  BY DEF ReconcileLocalState
<1>2. /\ state' \in PaperState \cup {None}
      /\ state' = None => state = None /\ ~present
      /\ state' # None => state'.versions = IF state = None THEN {} ELSE state.versions
  <2>1. CASE present /\ state = None
    <3>1. state' = DefaultState("local-only")
      BY <2>1 DEF ReconcileLocalState
    <3> QED
      BY <2>1, <3>1, DefaultIsState, NoneAssumption DEF Availability
  <2>2. CASE present /\ state # None
    <3> DEFINE avail == IF state.avail # "cloud-only" THEN state.avail
                        ELSE IF state.known > 0 THEN "local-and-cloud" ELSE "local-only"
    <3>1. state \in PaperState
      BY <2>2, Known
    <3>2. avail \in Availability
      BY <3>1 DEF PaperState, Availability
    <3>3. state' = [state EXCEPT !.avail = avail]
      BY <2>2, <3>1 DEF ReconcileLocalState, PaperState
    <3> HIDE DEF avail
    <3>4. state' \in PaperState /\ state'.versions = state.versions
      BY <3>1, <3>2, <3>3 DEF PaperState
    <3> QED
      BY <2>2, <3>4, NoneAssumption
  <2>3. CASE ~present /\ state # None /\ state.known > 0
    <3>1. state' = CloudOnly(state, state.known) /\ state \in PaperState /\ state.known \in Nat
      BY <2>3, Known DEF ReconcileLocalState
    <3> QED
      BY <2>3, <3>1, CloudOnlyIsState, NoneAssumption
  <2>4. CASE ~present /\ ~(state # None /\ state.known > 0)
    <3>1. state' = state
      BY <2>4 DEF ReconcileLocalState
    <3> QED
      BY <2>4, <3>1 DEF Shapes, StateTypes
  <2> QED
    BY <2>1, <2>2, <2>3, <2>4
<1> HIDE DEF ReconcileLocalState
<1>3. /\ op' \in Operations /\ op'.kind = "scan" /\ op'.step = "read"
      /\ op'.notes = op.notes /\ op'.old = op.old /\ op'.before = op.before
  BY <1>1 DEF Shapes, OpTypes, Operations, Steps
<1>4. Ranges' /\ OpTypes' /\ AbsentEmpty'
  BY <1>1, <1>3 DEF Shapes, Ranges, Newest, OpTypes, AbsentEmpty
<1>5. Written'
  BY <1>1, <1>2, <1>3 DEF Shapes, Written
<1>6. Queues'
  BY <1>1, <1>3 DEF Shapes, Queues
<1>7. Stated'
  BY <1>1, <1>2, <1>3 DEF Shapes, Stated
<1> QED
  BY <1>2, <1>4, <1>5, <1>6, <1>7 DEF Shapes, StateTypes

\* A discovery knows the head, and changes nothing else of a state.
LEMMA DiscoveredShapes ==
    ASSUME Base, Shapes, ApplyDiscovery \/ ApplyRemovalDiscovery
    PROVE  Shapes'
<1>1. /\ op.kind \in {"scan", "reconcile"} /\ op.step = "apply" /\ End
      /\ excused' \subseteq excused \cup Excuses
      /\ excused' \cap {"torn"} = excused \cap {"torn"}
      /\ UNCHANGED <<heads, present, notes, removal, epoch, committed, pending, written, uploaded,
                     exposed>>
  BY DEF ApplyDiscovery, ApplyRemovalDiscovery, Excuses
<1>2. /\ state' \in PaperState \cup {None}
      /\ state' = None => state = None
      /\ state' # None => state'.versions = IF state = None THEN {} ELSE state.versions
  <2>1. CASE state' = state
    BY <2>1 DEF Shapes, StateTypes, Written
  <2>2. CASE state' # state /\ ApplyDiscovery
    <3> DEFINE avail == IF present THEN "local-and-cloud" ELSE "cloud-only"
               s == IF state = None THEN DefaultState(avail) ELSE state
    <3>1. state' = [s EXCEPT !.avail = avail, !.known = op.head]
      BY <2>2 DEF ApplyDiscovery
    <3>2. avail \in Availability /\ op.head \in Nat
      BY Known DEF Availability
    <3>3. s \in PaperState /\ s.versions = IF state = None THEN {} ELSE state.versions
      BY <3>2, DefaultIsState DEF Shapes, StateTypes
    <3> HIDE DEF avail, s
    <3>4. state' \in PaperState /\ state'.versions = s.versions
      BY <3>1, <3>2, <3>3 DEF PaperState
    <3> QED
      BY <3>3, <3>4, NoneAssumption
  <2>3. CASE state' # state /\ ApplyRemovalDiscovery
    <3> DEFINE s == IF state = None THEN DefaultState("cloud-only") ELSE state
    <3>1. state' = CloudOnly(s, op.head)
      BY <2>3 DEF ApplyRemovalDiscovery
    <3>2. s \in PaperState /\ s.versions = IF state = None THEN {} ELSE state.versions
      BY DefaultIsState DEF Shapes, StateTypes, Availability
    <3>3. op.head \in Nat
      BY Known
    <3> HIDE DEF s
    <3> QED
      BY <3>1, <3>2, <3>3, CloudOnlyIsState, NoneAssumption
  <2> QED
    BY <2>1, <2>2, <2>3
<1>3. listed' = listed \/ (listed' = op.head /\ op.head # 0)
  BY DEF ApplyDiscovery, ApplyRemovalDiscovery
<1> HIDE DEF ApplyDiscovery, ApplyRemovalDiscovery
<1>4. Queues' /\ OpTypes' /\ op' = Idle
  BY <1>1, EndLeavesQueue DEF End
<1>5. Ranges' /\ AbsentEmpty'
  BY <1>1, <1>4 DEF Shapes, Ranges, Newest, AbsentEmpty, Idle, Excuses
<1>6. Written'
  BY <1>1, <1>2, <1>4 DEF Shapes, Written, Idle
<1>7. Stated'
  BY <1>1, <1>2, <1>4 DEF Shapes, Stated, Gone, Torn, Idle
<1> QED
  BY <1>2, <1>4, <1>5, <1>6, <1>7 DEF Shapes, StateTypes

\* Nothing changes.
LEMMA StutterShapes == Shapes /\ UNCHANGED vars => Shapes'
BY DEF vars, Shapes, Ranges, StateTypes, OpTypes, Written, Queues, AbsentEmpty, Stated, Newest,
   Outrun, Stale, Gone, Torn

\* Every step keeps the types.
LEMMA ShapesStep ==
    ASSUME Base, Shapes, [Next]_vars
    PROVE  Shapes'
<1>1. CASE Removal
  BY <1>1, StartRemovalShapes, DeleteCopyShapes, AbortRemovalShapes, CommitRemovalShapes,
     FinishRemovalShapes DEF Removal
<1>2. CASE Operation
  BY <1>2, BeginShapes, EndIfStaleShapes, FailShapes, CheckUploadShapes, ReadPackageShapes,
     PublishShapes, SettleUploadShapes, CheckDownloadShapes, FetchShapes, HeadReadShapes,
     MergeDownloadShapes, ApplyDownloadShapes, SettleDownloadShapes, FinishDownloadShapes,
     RollBackDownloadShapes, DiscardDownloadShapes, EnsureAbsentShapes,
     ReconcileLocalStateShapes, DiscoveredShapes DEF Operation
<1>3. CASE Open \/ Edit \/ OtherDevicePublishes \/ RequestUpload \/ RequestDownload
           \/ RequestScan \/ Drain
  BY <1>3, OpenShapes, EditShapes, OtherDevicePublishesShapes, RequestUploadShapes,
     RequestDownloadShapes, RequestScanShapes, DrainShapes
<1>4. CASE UNCHANGED vars
  BY <1>4, StutterShapes
<1> QED
  BY <1>1, <1>2, <1>3, <1>4 DEF Next

\* Nothing is here at the beginning.
LEMMA InitShapes == Init => Shapes
<1> SUFFICES ASSUME Init PROVE Shapes
  OBVIOUS
<1>1. Idle.kind = "scan" /\ Idle.step = "idle" /\ Idle.notes = {} /\ Idle.old = {} /\ Idle.before = None
  BY DEF Idle
<1>2. Ranges
  <2>1. Newest = 0 /\ 0 <= MaxNotes
    BY BoundAssumption DEF Init, Newest
  <2>2. uploaded \in 0..Newest /\ exposed \subseteq 1..written /\ written <= MaxNotes
    BY <2>1 DEF Init
  <2>3. present \in BOOLEAN /\ pending \in BOOLEAN
    BY DEF Init
  <2> QED
    BY <2>2, <2>3 DEF Init, Ranges
<1>3. StateTypes /\ OpTypes
  BY IdleIsOperation DEF Init, StateTypes, OpTypes
<1>4. Written
  BY <1>1 DEF Init, Written
<1>5. Queues
  BY <1>1 DEF Init, Queues
<1>6. AbsentEmpty /\ Stated
  BY <1>1 DEF Init, AbsentEmpty, Stated
<1> QED
  BY <1>2, <1>3, <1>4, <1>5, <1>6 DEF Shapes

\* The marks and what a download reads, together with the copies.
LEMMA BaseHolds == Spec => []Base
<1>1. Init => Marks /\ Reads
  BY InitMarks, InitReads
<1>2. Copies /\ Marks /\ Reads /\ [Next]_vars => Marks' /\ Reads'
  BY MarksStep, ReadsStep
<1> QED
  BY <1>1, <1>2, CopiesHold, PTL DEF Spec, Base

\* The types hold of every behaviour.
LEMMA ShapesHold == Spec => []Shapes
<1>1. Init => Shapes
  BY InitShapes
<1>2. Base /\ Shapes /\ [Next]_vars => Shapes'
  BY ShapesStep
<1> QED
  BY <1>1, <1>2, BaseHolds, PTL DEF Spec

\* Every variable keeps its type, each kind of operation is queued once, and the one that owns
\* Drive is the first in the queue.
THEOREM TypeCorrect == Spec => []TypeOK
<1>1. Base /\ Shapes => TypeOK
  BY Known DEF Base, Copies, Types, Epochs, Reads, ReadTypes, Shapes, Ranges, StateTypes, OpTypes,
     Operations, AbsentEmpty, Queues, TypeOK
<1> QED
  BY <1>1, BaseHolds, ShapesHold, PTL

--------------------------------------------------------------------------------
(* The catalog *)

\* The reconciliation of a removal is still to come.
Coming == pending \/ Draining

\* The catalog lists what this device published, and the state says the same.
Listed(s) == listed >= uploaded /\ s # None /\ s.avail = "cloud-only"

\* No operation reads a head older than what this device published: who publishes owns Drive.
ReadsNewest ==
    /\ (op.kind \in {"scan", "reconcile"} /\ op.step = "apply") => op.head >= uploaded
    /\ (op.kind = "download" /\ op.step # "idle") => op.from >= uploaded

\* What a stale download leaves undone, a reconciliation is still to do.
StaleIsComing == (op.kind = "download" /\ op.step # "idle" /\ Stale) => Coming

\* A download that put nothing here before it settles would put back a state that is listed.
PutBackIsListed ==
    (/\ op.kind = "download" /\ ~Outrun /\ uploaded > 0 /\ excused = {} /\ ~Coming
     /\ \/ op.step = "replace" /\ ~present
        \/ op.step \in {"settle", "save"} /\ ~op.had)
       => Listed(op.before)

\* RemovalConverges, without waiting for the operations around the removal.
AbsentIsListed ==
    (~present /\ removal = "no" /\ uploaded > 0 /\ excused = {} /\ ~Coming) => Listed(state)

Converging == ReadsNewest /\ StaleIsComing /\ PutBackIsListed /\ AbsentIsListed

\* Whether a reconciliation waits or runs: it is queued by a removal, and leaves when it ends.
LEMMA DrainingEffect ==
    ASSUME Shapes
    PROVE  /\ op.step # "idle" /\ op.kind = "reconcile" => Draining
           /\ queue' = queue => (Draining' <=> Draining)
           /\ \A kind \in Kind : queue' = Append(queue, kind) =>
                  (Draining' <=> Draining \/ kind = "reconcile")
           /\ End /\ op.step # "idle" => (Draining' <=> Draining /\ op.kind # "reconcile")
<1>1. queue \in Seq(Kind) /\ \A i, j \in DOMAIN queue : queue[i] = queue[j] => i = j
  BY DEF Shapes, Queues
<1>2. op.step # "idle" => queue # <<>> /\ op.kind = queue[1] /\ 1 \in DOMAIN queue
  BY <1>1 DEF Shapes, Queues
<1>3. op.step # "idle" /\ op.kind = "reconcile" => Draining
  BY <1>2 DEF Draining, Queued
<1>4. queue' = queue => (Draining' <=> Draining)
  BY DEF Draining, Queued
<1>5. ASSUME NEW kind \in Kind, queue' = Append(queue, kind)
      PROVE  Draining' <=> Draining \/ kind = "reconcile"
  <2>1. /\ \A i \in DOMAIN queue : i \in DOMAIN queue' /\ queue'[i] = queue[i]
        /\ Len(queue) + 1 \in DOMAIN queue' /\ queue'[Len(queue) + 1] = kind
        /\ \A i \in DOMAIN queue' : i \in DOMAIN queue \/ i = Len(queue) + 1
    BY <1>1, <1>5
  <2> QED
    BY <2>1 DEF Draining, Queued
<1>6. ASSUME End, op.step # "idle"
      PROVE  Draining' <=> Draining /\ op.kind # "reconcile"
  <2>1. queue' = Tail(queue)
    BY <1>6 DEF End
  <2>2. /\ \A i \in DOMAIN queue' : i + 1 \in DOMAIN queue /\ i + 1 # 1 /\ queue'[i] = queue[i + 1]
        /\ \A i \in DOMAIN queue : i # 1 => i - 1 \in DOMAIN queue' /\ queue'[i - 1] = queue[i]
    BY <1>1, <1>2, <1>6, <2>1
  <2>3. Draining' => Draining /\ op.kind # "reconcile"
    <3> SUFFICES ASSUME Draining' PROVE Draining /\ op.kind # "reconcile"
      OBVIOUS
    <3>1. PICK i \in DOMAIN queue' : queue'[i] = "reconcile"
      BY DEF Draining, Queued
    <3>2. i + 1 \in DOMAIN queue /\ i + 1 # 1 /\ queue[i + 1] = "reconcile"
      BY <2>2, <3>1
    <3>3. queue[1] # "reconcile"
      BY <1>1, <1>2, <1>6, <3>2
    <3> QED
      BY <1>2, <1>6, <3>2, <3>3 DEF Draining, Queued
  <2>4. Draining /\ op.kind # "reconcile" => Draining'
    <3> SUFFICES ASSUME Draining, op.kind # "reconcile" PROVE Draining'
      OBVIOUS
    <3>1. PICK i \in DOMAIN queue : queue[i] = "reconcile"
      BY DEF Draining, Queued
    <3>2. i # 1
      BY <1>2, <1>6, <3>1
    <3>3. i - 1 \in DOMAIN queue' /\ queue'[i - 1] = "reconcile"
      BY <2>2, <3>1, <3>2
    <3> QED
      BY <3>3 DEF Draining, Queued
  <2> QED
    BY <2>3, <2>4
<1> QED
  BY <1>3, <1>4, <1>5, <1>6

\* What is opened is here.
LEMMA OpenConverging ==
    ASSUME Base, Shapes, Shapes', Converging, Open
    PROVE  Converging'
<1>1. Draining' <=> Draining
  BY DrainingEffect DEF Open
<1>2. ReadsNewest'
  BY Known DEF Open, Shapes, OpTypes, Operations, Converging, ReadsNewest, Newest, Ranges
<1>3. StaleIsComing'
  BY <1>1, Known DEF Open, Shapes, OpTypes, Operations, Converging, StaleIsComing, Stale,
     Coming
<1>4. PutBackIsListed'
  BY <1>1, Known DEF Open, Shapes, OpTypes, Operations, Converging, PutBackIsListed,
     AbsentIsListed, Listed, Stale, Outrun, Gone, Torn, Coming
<1>5. AbsentIsListed'
  BY <1>1, Known DEF Open, Shapes, OpTypes, Operations, Converging, AbsentIsListed, Listed,
     Stale, Outrun, Gone, Torn, Coming
<1> QED
  BY <1>2, <1>3, <1>4, <1>5 DEF Converging

\* What is edited is here.
LEMMA EditConverging ==
    ASSUME Base, Shapes, Shapes', Converging, Edit
    PROVE  Converging'
<1>1. Draining' <=> Draining
  BY DrainingEffect DEF Edit
<1>2. ReadsNewest'
  BY Known DEF Edit, Converging, ReadsNewest, Newest, Shapes, Ranges
<1>3. StaleIsComing'
  BY <1>1, Known DEF Edit, Converging, StaleIsComing, Stale, Coming
<1>4. PutBackIsListed'
  BY <1>1, Known DEF Edit, Converging, PutBackIsListed, AbsentIsListed, Listed, Stale,
     Outrun, Gone, Torn, Coming
<1>5. AbsentIsListed'
  BY <1>1, Known DEF Edit, Converging, AbsentIsListed, Listed, Stale, Outrun, Gone, Torn,
     Coming
<1> QED
  BY <1>2, <1>3, <1>4, <1>5 DEF Converging

\* What another device publishes, this device did not.
LEMMA OtherDevicePublishesConverging ==
    ASSUME Base, Shapes, Shapes', Converging, OtherDevicePublishes
    PROVE  Converging'
<1>1. Draining' <=> Draining
  BY DrainingEffect DEF OtherDevicePublishes
<1>2. ReadsNewest'
  BY Known DEF OtherDevicePublishes, Converging, ReadsNewest, Newest, Shapes, Ranges
<1>3. StaleIsComing'
  BY <1>1, Known DEF OtherDevicePublishes, Converging, StaleIsComing, Stale, Coming
<1>4. PutBackIsListed'
  BY <1>1, Known DEF OtherDevicePublishes, Converging, PutBackIsListed, AbsentIsListed,
     Listed, Stale, Outrun, Gone, Torn, Coming
<1>5. AbsentIsListed'
  BY <1>1, Known DEF OtherDevicePublishes, Converging, AbsentIsListed, Listed, Stale,
     Outrun, Gone, Torn, Coming
<1> QED
  BY <1>2, <1>3, <1>4, <1>5 DEF Converging

\* A request is no reconciliation.
LEMMA RequestUploadConverging ==
    ASSUME Base, Shapes, Shapes', Converging, RequestUpload
    PROVE  Converging'
<1>1. Draining' <=> Draining
  BY DrainingEffect DEF RequestUpload, Kind
<1>2. ReadsNewest'
  BY Known DEF RequestUpload, Converging, ReadsNewest, Newest, Shapes, Ranges
<1>3. StaleIsComing'
  BY <1>1, Known DEF RequestUpload, Converging, StaleIsComing, Stale, Coming
<1>4. PutBackIsListed'
  BY <1>1, Known DEF RequestUpload, Converging, PutBackIsListed, AbsentIsListed, Listed,
     Stale, Outrun, Gone, Torn, Coming
<1>5. AbsentIsListed'
  BY <1>1, Known DEF RequestUpload, Converging, AbsentIsListed, Listed, Stale, Outrun, Gone,
     Torn, Coming
<1> QED
  BY <1>2, <1>3, <1>4, <1>5 DEF Converging

\* A request is no reconciliation.
LEMMA RequestDownloadConverging ==
    ASSUME Base, Shapes, Shapes', Converging, RequestDownload
    PROVE  Converging'
<1>1. Draining' <=> Draining
  BY DrainingEffect DEF RequestDownload, Kind
<1>2. ReadsNewest'
  BY Known DEF RequestDownload, Converging, ReadsNewest, Newest, Shapes, Ranges
<1>3. StaleIsComing'
  BY <1>1, Known DEF RequestDownload, Converging, StaleIsComing, Stale, Coming
<1>4. PutBackIsListed'
  BY <1>1, Known DEF RequestDownload, Converging, PutBackIsListed, AbsentIsListed, Listed,
     Stale, Outrun, Gone, Torn, Coming
<1>5. AbsentIsListed'
  BY <1>1, Known DEF RequestDownload, Converging, AbsentIsListed, Listed, Stale, Outrun,
     Gone, Torn, Coming
<1> QED
  BY <1>2, <1>3, <1>4, <1>5 DEF Converging

\* A request is no reconciliation.
LEMMA RequestScanConverging ==
    ASSUME Base, Shapes, Shapes', Converging, RequestScan
    PROVE  Converging'
<1>1. Draining' <=> Draining
  BY DrainingEffect DEF RequestScan, Kind
<1>2. ReadsNewest'
  BY Known DEF RequestScan, Converging, ReadsNewest, Newest, Shapes, Ranges
<1>3. StaleIsComing'
  BY <1>1, Known DEF RequestScan, Converging, StaleIsComing, Stale, Coming
<1>4. PutBackIsListed'
  BY <1>1, Known DEF RequestScan, Converging, PutBackIsListed, AbsentIsListed, Listed,
     Stale, Outrun, Gone, Torn, Coming
<1>5. AbsentIsListed'
  BY <1>1, Known DEF RequestScan, Converging, AbsentIsListed, Listed, Stale, Outrun, Gone,
     Torn, Coming
<1> QED
  BY <1>2, <1>3, <1>4, <1>5 DEF Converging

\* A removal starts on a paper that is here.
LEMMA StartRemovalConverging ==
    ASSUME Base, Shapes, Shapes', Converging, StartRemoval
    PROVE  Converging'
<1>1. Draining' <=> Draining
  BY DrainingEffect DEF StartRemoval
<1>2. ReadsNewest'
  BY Known DEF StartRemoval, Converging, ReadsNewest, Newest, Shapes, Ranges
<1>3. StaleIsComing'
  BY <1>1, Known DEF StartRemoval, Converging, StaleIsComing, Stale, Coming
<1>4. PutBackIsListed'
  BY <1>1, Known DEF StartRemoval, Converging, PutBackIsListed, AbsentIsListed, Listed,
     Stale, Outrun, Gone, Torn, Coming, Active
<1>5. AbsentIsListed'
  BY <1>1, Known DEF StartRemoval, Converging, AbsentIsListed, Listed, Stale, Outrun, Gone,
     Torn, Coming
<1> QED
  BY <1>2, <1>3, <1>4, <1>5 DEF Converging

\* The removal is on its way.
LEMMA DeleteCopyConverging ==
    ASSUME Base, Shapes, Shapes', Converging, DeleteCopy
    PROVE  Converging'
<1>1. Draining' <=> Draining
  BY DrainingEffect DEF DeleteCopy
<1>2. ReadsNewest'
  BY Known DEF DeleteCopy, Shapes, OpTypes, Operations, Converging, ReadsNewest, Newest,
     Ranges
<1>3. StaleIsComing'
  BY <1>1, Known DEF DeleteCopy, Shapes, OpTypes, Operations, Converging, StaleIsComing,
     Stale, Coming
<1>4. PutBackIsListed'
  BY <1>1, Known DEF DeleteCopy, Shapes, OpTypes, Operations, Converging, PutBackIsListed,
     AbsentIsListed, Listed, Stale, Outrun, Gone, Torn, Coming
<1>5. AbsentIsListed'
  BY <1>1, Known DEF DeleteCopy, Shapes, OpTypes, Operations, Converging, AbsentIsListed,
     Listed, Stale, Outrun, Gone, Torn, Coming
<1> QED
  BY <1>2, <1>3, <1>4, <1>5 DEF Converging

\* A removal that is aborted left the copy, or is excused.
LEMMA AbortRemovalConverging ==
    ASSUME Base, Shapes, Shapes', Converging, AbortRemoval
    PROVE  Converging'
<1>1. Draining' <=> Draining
  BY DrainingEffect DEF AbortRemoval
<1>2. ReadsNewest'
  BY Known DEF AbortRemoval, Converging, ReadsNewest, Newest, Shapes, Ranges
<1>3. StaleIsComing'
  BY <1>1, Known DEF AbortRemoval, Converging, StaleIsComing, Stale, Coming
<1>4. PutBackIsListed'
  BY <1>1, Known DEF AbortRemoval, Converging, PutBackIsListed, AbsentIsListed, Listed,
     Stale, Outrun, Gone, Torn, Coming
<1>5. AbsentIsListed'
  BY <1>1, Known DEF AbortRemoval, Converging, AbsentIsListed, Listed, Stale, Outrun, Gone,
     Torn, Coming, Base, Marks, Started
<1> QED
  BY <1>2, <1>3, <1>4, <1>5 DEF Converging

\* The removal is on its way.
LEMMA CommitRemovalConverging ==
    ASSUME Base, Shapes, Shapes', Converging, CommitRemoval
    PROVE  Converging'
<1>1. Draining' <=> Draining
  BY DrainingEffect DEF CommitRemoval
<1>2. ReadsNewest'
  BY Known DEF CommitRemoval, Converging, ReadsNewest, Newest, Shapes, Ranges
<1>3. StaleIsComing'
  BY <1>1, Known DEF CommitRemoval, Converging, StaleIsComing, Stale, Coming
<1>4. PutBackIsListed'
  BY <1>1, Known DEF CommitRemoval, Converging, PutBackIsListed, AbsentIsListed, Listed,
     Stale, Outrun, Gone, Torn, Coming
<1>5. AbsentIsListed'
  BY <1>1, Known DEF CommitRemoval, Converging, AbsentIsListed, Listed, Stale, Outrun, Gone,
     Torn, Coming
<1> QED
  BY <1>2, <1>3, <1>4, <1>5 DEF Converging

\* A reconciliation follows a removal.
LEMMA FinishRemovalConverging ==
    ASSUME Base, Shapes, Shapes', Converging, FinishRemoval
    PROVE  Converging'
<1>1. Draining' <=> Draining
  BY DrainingEffect DEF FinishRemoval
<1>2. ReadsNewest'
  BY Known DEF FinishRemoval, Converging, ReadsNewest, Newest, Shapes, Ranges
<1>3. StaleIsComing'
  BY <1>1, Known DEF FinishRemoval, Converging, StaleIsComing, Stale, Coming
<1>4. PutBackIsListed'
  BY <1>1, Known DEF FinishRemoval, Converging, PutBackIsListed, AbsentIsListed, Listed,
     Stale, Outrun, Gone, Torn, Coming
<1>5. AbsentIsListed'
  BY <1>1, Known DEF FinishRemoval, Converging, AbsentIsListed, Listed, Stale, Outrun, Gone,
     Torn, Coming
<1> QED
  BY <1>2, <1>3, <1>4, <1>5 DEF Converging

\* The reconciliation waits for Drive.
LEMMA DrainConverging ==
    ASSUME Base, Shapes, Shapes', Converging, Drain
    PROVE  Converging'
<1>1. Draining'
  BY DrainingEffect DEF Drain, Kind
<1>2. ReadsNewest'
  BY Known DEF Drain, Converging, ReadsNewest, Newest, Shapes, Ranges
<1>3. StaleIsComing'
  BY <1>1, Known DEF Drain, Converging, StaleIsComing, Stale, Coming
<1>4. PutBackIsListed'
  BY <1>1, Known DEF Drain, Converging, PutBackIsListed, AbsentIsListed, Listed, Stale,
     Outrun, Gone, Torn, Coming
<1>5. AbsentIsListed'
  BY <1>1, Known DEF Drain, Converging, AbsentIsListed, Listed, Stale, Outrun, Gone, Torn,
     Coming
<1> QED
  BY <1>2, <1>3, <1>4, <1>5 DEF Converging

\* A download begins at the newest generation.
LEMMA BeginConverging ==
    ASSUME Base, Shapes, Shapes', Converging, Begin
    PROVE  Converging'
<1>1. Draining' <=> Draining
  BY DrainingEffect DEF Begin
<1>2. ReadsNewest'
  BY Known DEF Begin, Shapes, OpTypes, Operations, Idle, Converging, ReadsNewest, Newest,
     Ranges
<1>3. StaleIsComing'
  BY <1>1, Known DEF Begin, Shapes, OpTypes, Operations, Idle, Converging, StaleIsComing,
     Stale, Coming
<1>4. PutBackIsListed'
  BY <1>1, Known DEF Begin, Shapes, OpTypes, Operations, Idle, Converging, PutBackIsListed,
     AbsentIsListed, Listed, Stale, Outrun, Gone, Torn, Coming
<1>5. AbsentIsListed'
  BY <1>1, Known DEF Begin, Shapes, OpTypes, Operations, Idle, Converging, AbsentIsListed,
     Listed, Stale, Outrun, Gone, Torn, Coming
<1> QED
  BY <1>2, <1>3, <1>4, <1>5 DEF Converging

\* A stale transfer changes nothing.
LEMMA EndIfStaleConverging ==
    ASSUME Base, Shapes, Shapes', Converging, EndIfStale
    PROVE  Converging'
<1>1. Draining' <=> Draining
  BY DrainingEffect DEF EndIfStale, Checked
<1>2. ReadsNewest'
  BY Known DEF EndIfStale, End, Checked, Idle, Converging, ReadsNewest, Newest, Shapes,
     Ranges
<1>3. StaleIsComing'
  BY <1>1, Known DEF EndIfStale, End, Checked, Idle, Converging, StaleIsComing, Stale,
     Coming
<1>4. PutBackIsListed'
  BY <1>1, Known DEF EndIfStale, End, Checked, Idle, Converging, PutBackIsListed,
     AbsentIsListed, Listed, Stale, Outrun, Gone, Torn, Coming
<1>5. AbsentIsListed'
  BY <1>1, Known DEF EndIfStale, End, Checked, Idle, Converging, AbsentIsListed, Listed,
     Stale, Outrun, Gone, Torn, Coming
<1> QED
  BY <1>2, <1>3, <1>4, <1>5 DEF Converging

\* A reconciliation that fails is excused.
LEMMA FailConverging ==
    ASSUME Base, Shapes, Shapes', Converging, Fail
    PROVE  Converging'
<1>1. Draining' <=> Draining /\ op.kind # "reconcile"
  BY DrainingEffect DEF Fail, Checked
<1>2. ReadsNewest'
  BY Known DEF Fail, End, Checked, Idle, Converging, ReadsNewest, Newest, Shapes, Ranges
<1>3. StaleIsComing'
  BY <1>1, Known DEF Fail, End, Checked, Idle, Converging, StaleIsComing, Stale, Coming
<1>4. PutBackIsListed'
  BY <1>1, Known DEF Fail, End, Checked, Idle, Converging, PutBackIsListed, AbsentIsListed,
     Listed, Stale, Outrun, Gone, Torn, Coming
<1>5. AbsentIsListed'
  BY <1>1, Known DEF Fail, End, Checked, Idle, Converging, AbsentIsListed, Listed, Stale,
     Outrun, Gone, Torn, Coming
<1> QED
  BY <1>2, <1>3, <1>4, <1>5 DEF Converging

\* The check of an upload changes nothing here.
LEMMA CheckUploadConverging ==
    ASSUME Base, Shapes, Shapes', Converging, CheckUpload
    PROVE  Converging'
<1>1. /\ At("upload", "check")
      /\ op' = Idle \/ op' = [op EXCEPT !.step = "read", !.generation = state.generation]
      /\ queue' = queue \/ End
      /\ UNCHANGED <<listed, present, state, removal, committed, pending, uploaded, excused>>
  BY DEF CheckUpload, End
<1>2. op'.kind \in {"upload", "scan"} /\ op'.step \in {"idle", "read"}
  BY <1>1, IdleIsOperation DEF Shapes, OpTypes, Operations
<1>3. Draining' <=> Draining
  BY <1>1, DrainingEffect
<1>4. ReadsNewest' /\ StaleIsComing' /\ PutBackIsListed'
  BY <1>2 DEF ReadsNewest, StaleIsComing, PutBackIsListed
<1>5. AbsentIsListed'
  BY <1>1, <1>3 DEF Converging, AbsentIsListed, Listed, Coming
<1> QED
  BY <1>4, <1>5 DEF Converging

\* Reading a package changes nothing here.
LEMMA ReadPackageConverging ==
    ASSUME Base, Shapes, Shapes', Converging, ReadPackage
    PROVE  Converging'
<1>1. Draining' <=> Draining
  BY DrainingEffect DEF ReadPackage
<1>2. ReadsNewest'
  BY Known DEF ReadPackage, Shapes, OpTypes, Operations, Converging, ReadsNewest, Newest,
     Ranges
<1>3. StaleIsComing'
  BY <1>1, Known DEF ReadPackage, Shapes, OpTypes, Operations, Converging, StaleIsComing,
     Stale, Coming
<1>4. PutBackIsListed'
  BY <1>1, Known DEF ReadPackage, Shapes, OpTypes, Operations, Converging, PutBackIsListed,
     AbsentIsListed, Listed, Stale, Outrun, Gone, Torn, Coming
<1>5. AbsentIsListed'
  BY <1>1, Known DEF ReadPackage, Shapes, OpTypes, Operations, Converging, AbsentIsListed,
     Listed, Stale, Outrun, Gone, Torn, Coming
<1> QED
  BY <1>2, <1>3, <1>4, <1>5 DEF Converging

\* What this device publishes is of a paper that is here, or the upload is stale.
LEMMA PublishConverging ==
    ASSUME Base, Shapes, Shapes', Converging, Publish
    PROVE  Converging'
<1>1. Draining' <=> Draining
  BY DrainingEffect DEF Publish, Checked
<1>2. ReadsNewest'
  BY Known DEF Publish, Checked, Shapes, OpTypes, Operations, Converging, ReadsNewest,
     Newest, Ranges
<1>3. StaleIsComing'
  BY <1>1, Known DEF Publish, Checked, Shapes, OpTypes, Operations, Converging,
     StaleIsComing, Stale, Coming
<1>4. PutBackIsListed'
  BY <1>1, Known DEF Publish, Checked, Shapes, OpTypes, Operations, Converging,
     PutBackIsListed, AbsentIsListed, Listed, Stale, Outrun, Gone, Torn, Coming
<1>5. AbsentIsListed'
  BY <1>1, Known DEF Publish, Checked, Shapes, OpTypes, Operations, Converging,
     AbsentIsListed, Listed, Stale, Outrun, Gone, Torn, Coming, Base, Marks, UploadPresent,
     Active
<1> QED
  BY <1>2, <1>3, <1>4, <1>5 DEF Converging

\* An upload that settles is of a paper that is here.
LEMMA SettleUploadConverging ==
    ASSUME Base, Shapes, Shapes', Converging, SettleUpload
    PROVE  Converging'
<1>1. Draining' <=> Draining
  BY DrainingEffect DEF SettleUpload, Checked
<1>2. ReadsNewest'
  BY Known DEF SettleUpload, End, Checked, Idle, Converging, ReadsNewest, Newest, Shapes,
     Ranges
<1>3. StaleIsComing'
  BY <1>1, Known DEF SettleUpload, End, Checked, Idle, Converging, StaleIsComing, Stale,
     Coming
<1>4. PutBackIsListed'
  BY <1>1, Known DEF SettleUpload, End, Checked, Idle, Converging, PutBackIsListed,
     AbsentIsListed, Listed, Stale, Outrun, Gone, Torn, Coming
<1>5. AbsentIsListed'
  BY <1>1, Known DEF SettleUpload, End, Checked, Idle, Converging, AbsentIsListed, Listed,
     Stale, Outrun, Gone, Torn, Coming, Base, Marks, UploadPresent, Active
<1> QED
  BY <1>2, <1>3, <1>4, <1>5 DEF Converging

\* A paper that is listed has a state.
LEMMA CheckDownloadConverging ==
    ASSUME Base, Shapes, Shapes', Converging, CheckDownload
    PROVE  Converging'
<1>1. Draining' <=> Draining
  BY DrainingEffect DEF CheckDownload, Checked
<1>2. ReadsNewest'
  BY Known DEF CheckDownload, Checked, Shapes, OpTypes, Operations, Converging, ReadsNewest,
     Newest, Ranges
<1>3. StaleIsComing'
  BY <1>1, Known DEF CheckDownload, Checked, Shapes, OpTypes, Operations, Converging,
     StaleIsComing, Stale, Coming
<1>4. PutBackIsListed'
  BY <1>1, Known DEF CheckDownload, Checked, Shapes, OpTypes, Operations, Converging,
     PutBackIsListed, AbsentIsListed, Listed, Stale, Outrun, Gone, Torn, Coming
<1>5. AbsentIsListed'
  BY <1>1, Known DEF CheckDownload, Checked, Shapes, OpTypes, Operations, Converging,
     AbsentIsListed, Listed, Stale, Outrun, Gone, Torn, Coming
<1> QED
  BY <1>2, <1>3, <1>4, <1>5 DEF Converging

\* Reading a generation changes nothing here.
LEMMA FetchConverging ==
    ASSUME Base, Shapes, Shapes', Converging, Fetch
    PROVE  Converging'
<1>1. Draining' <=> Draining
  BY DrainingEffect DEF Fetch
<1>2. ReadsNewest'
  BY Known DEF Fetch, Shapes, OpTypes, Operations, Converging, ReadsNewest, Newest, Ranges
<1>3. StaleIsComing'
  BY <1>1, Known DEF Fetch, Shapes, OpTypes, Operations, Converging, StaleIsComing, Stale,
     Coming
<1>4. PutBackIsListed'
  <2>1. op'.step \in {"apply", "refresh"}
    BY DEF Fetch, Shapes, OpTypes, Operations
  <2> QED
    BY <2>1 DEF PutBackIsListed
<1>5. AbsentIsListed'
  BY <1>1, Known DEF Fetch, Shapes, OpTypes, Operations, Converging, AbsentIsListed, Listed,
     Stale, Outrun, Gone, Torn, Coming
<1> QED
  BY <1>2, <1>3, <1>4, <1>5 DEF Converging

\* Reading the head changes nothing here.
LEMMA RefreshConverging ==
    ASSUME Base, Shapes, Shapes', Converging, Refresh
    PROVE  Converging'
<1>1. Draining' <=> Draining
  BY DrainingEffect DEF Refresh
<1>2. ReadsNewest'
  BY Known DEF Refresh, Shapes, OpTypes, Operations, Converging, ReadsNewest, Newest, Ranges
<1>3. StaleIsComing'
  BY <1>1, Known DEF Refresh, Shapes, OpTypes, Operations, Converging, StaleIsComing, Stale,
     Coming
<1>4. PutBackIsListed'
  BY <1>1, Known DEF Refresh, Shapes, OpTypes, Operations, Converging, PutBackIsListed,
     AbsentIsListed, Listed, Stale, Outrun, Gone, Torn, Coming
<1>5. AbsentIsListed'
  BY <1>1, Known DEF Refresh, Shapes, OpTypes, Operations, Converging, AbsentIsListed,
     Listed, Stale, Outrun, Gone, Torn, Coming
<1> QED
  BY <1>2, <1>3, <1>4, <1>5 DEF Converging

\* What is to be put back is the state there is.
LEMMA MergeDownloadConverging ==
    ASSUME Base, Shapes, Shapes', Converging, MergeDownload
    PROVE  Converging'
<1>1. Draining' <=> Draining
  BY DrainingEffect DEF MergeDownload, Checked
<1>2. ReadsNewest'
  BY Known DEF MergeDownload, Checked, Shapes, OpTypes, Operations, Converging, ReadsNewest,
     Newest, Ranges
<1>3. StaleIsComing'
  BY <1>1, Known DEF MergeDownload, Checked, Shapes, OpTypes, Operations, Converging,
     StaleIsComing, Stale, Coming
<1>4. PutBackIsListed'
  BY <1>1, Known DEF MergeDownload, Checked, Shapes, OpTypes, Operations, Converging,
     PutBackIsListed, AbsentIsListed, Listed, Stale, Outrun, Gone, Torn, Coming, Active
<1>5. AbsentIsListed'
  BY <1>1, Known DEF MergeDownload, Checked, Shapes, OpTypes, Operations, Converging,
     AbsentIsListed, Listed, Stale, Outrun, Gone, Torn, Coming
<1> QED
  BY <1>2, <1>3, <1>4, <1>5 DEF Converging

\* What is applied is here.
LEMMA ApplyDownloadConverging ==
    ASSUME Base, Shapes, Shapes', Converging, ApplyDownload
    PROVE  Converging'
<1>1. Draining' <=> Draining
  BY DrainingEffect DEF ApplyDownload
<1>2. ReadsNewest'
  BY Known DEF ApplyDownload, Shapes, OpTypes, Operations, Converging, ReadsNewest, Newest,
     Ranges
<1>3. StaleIsComing'
  BY <1>1, Known DEF ApplyDownload, Shapes, OpTypes, Operations, Converging, StaleIsComing,
     Stale, Coming
<1>4. PutBackIsListed'
  BY <1>1, Known DEF ApplyDownload, Shapes, OpTypes, Operations, Converging,
     PutBackIsListed, AbsentIsListed, Listed, Stale, Outrun, Gone, Torn, Coming
<1>5. AbsentIsListed'
  BY <1>1, Known DEF ApplyDownload, Shapes, OpTypes, Operations, Converging, AbsentIsListed,
     Listed, Stale, Outrun, Gone, Torn, Coming
<1> QED
  BY <1>2, <1>3, <1>4, <1>5 DEF Converging

\* What settles is here.
LEMMA SettleDownloadConverging ==
    ASSUME Base, Shapes, Shapes', Converging, SettleDownload
    PROVE  Converging'
<1>1. Draining' <=> Draining
  BY DrainingEffect DEF SettleDownload, Checked
<1>2. ReadsNewest'
  BY Known DEF SettleDownload, Checked, Shapes, OpTypes, Operations, Converging,
     ReadsNewest, Newest, Ranges
<1>3. StaleIsComing'
  BY <1>1, Known DEF SettleDownload, Checked, Shapes, OpTypes, Operations, Converging,
     StaleIsComing, Stale, Coming
<1>4. PutBackIsListed'
  BY <1>1, Known DEF SettleDownload, Checked, Shapes, OpTypes, Operations, Converging,
     PutBackIsListed, AbsentIsListed, Listed, Stale, Outrun, Gone, Torn, Coming
<1>5. AbsentIsListed'
  BY <1>1, Known DEF SettleDownload, Checked, Shapes, OpTypes, Operations, Converging,
     AbsentIsListed, Listed, Stale, Outrun, Gone, Torn, Coming, Base, Marks, Before, Active
<1> QED
  BY <1>2, <1>3, <1>4, <1>5 DEF Converging

\* What is listed is what was downloaded.
LEMMA FinishDownloadConverging ==
    ASSUME Base, Shapes, Shapes', Converging, FinishDownload
    PROVE  Converging'
<1>1. Draining' <=> Draining
  BY DrainingEffect DEF FinishDownload
<1>2. ReadsNewest'
  BY Known DEF FinishDownload, End, Idle, Converging, ReadsNewest, Newest, Shapes, Ranges
<1>3. StaleIsComing'
  BY <1>1, Known DEF FinishDownload, End, Idle, Converging, StaleIsComing, Stale, Coming
<1>4. PutBackIsListed'
  BY <1>1, Known DEF FinishDownload, End, Idle, Converging, PutBackIsListed, AbsentIsListed,
     Listed, Stale, Outrun, Gone, Torn, Coming
<1>5. AbsentIsListed'
  <2>1. /\ listed' = op.head
        /\ UNCHANGED <<present, removal, uploaded, excused, pending, state>>
    BY DEF FinishDownload
  <2>2. op.head >= op.from
    BY DEF FinishDownload, Base, Reads
  <2>3. op.from >= uploaded
    BY DEF FinishDownload, Converging, ReadsNewest
  <2>4. uploaded \in Nat
    BY Known DEF Shapes, Ranges
  <2>5. op.head >= uploaded
    BY <2>2, <2>3, <2>4, Known
  <2> QED
    BY <1>1, <2>1, <2>5 DEF FinishDownload, Converging, AbsentIsListed, Listed, Coming
<1> QED
  BY <1>2, <1>3, <1>4, <1>5 DEF Converging

\* What is put back was listed.
LEMMA RollBackDownloadConverging ==
    ASSUME Base, Shapes, Shapes', Converging, RollBackDownload
    PROVE  Converging'
<1>1. Draining' <=> Draining
  BY DrainingEffect DEF RollBackDownload
<1>2. ReadsNewest'
  BY Known DEF RollBackDownload, End, Idle, Converging, ReadsNewest, Newest, Shapes, Ranges
<1>3. StaleIsComing'
  BY <1>1, Known DEF RollBackDownload, End, Idle, Converging, StaleIsComing, Stale, Coming
<1>4. PutBackIsListed'
  BY <1>1, Known DEF RollBackDownload, End, Idle, Converging, PutBackIsListed,
     AbsentIsListed, Listed, Stale, Outrun, Gone, Torn, Coming
<1>5. AbsentIsListed'
  BY <1>1, Known DEF RollBackDownload, End, Idle, Converging, AbsentIsListed, Listed, Stale,
     Outrun, Gone, Torn, Coming, PutBackIsListed, Active
<1> QED
  BY <1>2, <1>3, <1>4, <1>5 DEF Converging

\* A stale download is followed by a reconciliation.
LEMMA DiscardDownloadConverging ==
    ASSUME Base, Shapes, Shapes', Converging, DiscardDownload
    PROVE  Converging'
<1>1. Draining' <=> Draining
  BY DrainingEffect DEF DiscardDownload, Checked
<1>2. ReadsNewest'
  BY Known DEF DiscardDownload, Checked, Shapes, OpTypes, Operations, Converging,
     ReadsNewest, Newest, Ranges
<1>3. StaleIsComing'
  BY <1>1, Known DEF DiscardDownload, Checked, Shapes, OpTypes, Operations, Converging,
     StaleIsComing, Stale, Coming
<1>4. PutBackIsListed'
  BY <1>1, Known DEF DiscardDownload, Checked, Shapes, OpTypes, Operations, Converging,
     PutBackIsListed, AbsentIsListed, Listed, Stale, Outrun, Gone, Torn, Coming
<1>5. AbsentIsListed'
  BY <1>1, Known DEF DiscardDownload, Checked, Shapes, OpTypes, Operations, Converging,
     AbsentIsListed, Listed, Stale, Outrun, Gone, Torn, Coming
<1> QED
  BY <1>2, <1>3, <1>4, <1>5 DEF Converging

\* What a stale download leaves, a reconciliation lists.
LEMMA EnsureAbsentConverging ==
    ASSUME Base, Shapes, Shapes', Converging, EnsureAbsent
    PROVE  Converging'
<1>1. Draining' <=> Draining
  BY DrainingEffect DEF EnsureAbsent
<1>2. ReadsNewest'
  BY Known DEF EnsureAbsent, End, Idle, Converging, ReadsNewest, Newest, Shapes, Ranges
<1>3. StaleIsComing'
  BY <1>1, Known DEF EnsureAbsent, End, Idle, Converging, StaleIsComing, Stale, Coming
<1>4. PutBackIsListed'
  BY <1>1, Known DEF EnsureAbsent, End, Idle, Converging, PutBackIsListed, AbsentIsListed,
     Listed, Stale, Outrun, Gone, Torn, Coming
<1>5. AbsentIsListed'
  BY <1>1, Known DEF EnsureAbsent, End, Idle, Converging, AbsentIsListed, Listed, Stale,
     Outrun, Gone, Torn, Coming, Base, Marks, Discarding, StaleIsComing
<1> QED
  BY <1>2, <1>3, <1>4, <1>5 DEF Converging

\* A state that is cloud-only stays so.
LEMMA ReconcileLocalStateConverging ==
    ASSUME Base, Shapes, Shapes', Converging, ReconcileLocalState
    PROVE  Converging'
<1>1. Draining' <=> Draining
  BY DrainingEffect DEF ReconcileLocalState
<1>2. ReadsNewest'
  BY Known DEF ReconcileLocalState, Shapes, OpTypes, Operations, Converging, ReadsNewest,
     Newest, Ranges
<1>3. StaleIsComing'
  BY <1>1, Known DEF ReconcileLocalState, Shapes, OpTypes, Operations, Converging,
     StaleIsComing, Stale, Coming
<1>4. PutBackIsListed'
  BY <1>1, Known DEF ReconcileLocalState, Shapes, OpTypes, Operations, Converging,
     PutBackIsListed, AbsentIsListed, Listed, Stale, Outrun, Gone, Torn, Coming
<1>5. AbsentIsListed'
  <2> SUFFICES ASSUME ~present', removal' = "no", uploaded' > 0, excused' = {}, ~Coming'
               PROVE  Listed(state)'
    BY DEF AbsentIsListed
  <2>1. UNCHANGED <<present, removal, uploaded, excused, pending, listed>>
    BY DEF ReconcileLocalState
  <2>2. Listed(state)
    BY <1>1, <2>1 DEF Converging, AbsentIsListed, Coming
  <2>3. state # None /\ state \in PaperState /\ state.known \in Nat /\ state.avail = "cloud-only"
    BY <2>2, Known DEF Listed
  <2>4. state' = state \/ state' = CloudOnly(state, state.known)
    BY <2>1 DEF ReconcileLocalState
  <2>5. state' # None /\ state'.avail = "cloud-only"
    BY <2>3, <2>4, CloudOnlyIsState, NoneAssumption
  <2> QED
    BY <2>1, <2>2, <2>5 DEF Listed
<1> QED
  BY <1>2, <1>3, <1>4, <1>5 DEF Converging

\* The head is the newest generation.
LEMMA ReadDriveConverging ==
    ASSUME Base, Shapes, Shapes', Converging, ReadDrive
    PROVE  Converging'
<1>1. Draining' <=> Draining
  BY DrainingEffect DEF ReadDrive
<1>2. ReadsNewest'
  BY Known DEF ReadDrive, Shapes, OpTypes, Operations, Converging, ReadsNewest, Newest,
     Ranges
<1>3. StaleIsComing'
  BY <1>1, Known DEF ReadDrive, Shapes, OpTypes, Operations, Converging, StaleIsComing,
     Stale, Coming
<1>4. PutBackIsListed'
  BY <1>1, Known DEF ReadDrive, Shapes, OpTypes, Operations, Converging, PutBackIsListed,
     AbsentIsListed, Listed, Stale, Outrun, Gone, Torn, Coming
<1>5. AbsentIsListed'
  BY <1>1, Known DEF ReadDrive, Shapes, OpTypes, Operations, Converging, AbsentIsListed,
     Listed, Stale, Outrun, Gone, Torn, Coming
<1> QED
  BY <1>2, <1>3, <1>4, <1>5 DEF Converging

\* A scan lists the head it read.
LEMMA ApplyDiscoveryConverging ==
    ASSUME Base, Shapes, Shapes', Converging, ApplyDiscovery
    PROVE  Converging'
<1>1. Draining' <=> Draining
  BY DrainingEffect DEF ApplyDiscovery
<1>2. ReadsNewest'
  BY Known DEF ApplyDiscovery, End, Idle, Converging, ReadsNewest, Newest, Shapes, Ranges
<1>3. StaleIsComing'
  BY <1>1, Known DEF ApplyDiscovery, End, Idle, Converging, StaleIsComing, Stale, Coming
<1>4. PutBackIsListed'
  BY <1>1, Known DEF ApplyDiscovery, End, Idle, Converging, PutBackIsListed, AbsentIsListed,
     Listed, Stale, Outrun, Gone, Torn, Coming
<1>5. AbsentIsListed'
  <2> SUFFICES ASSUME ~present', removal' = "no", uploaded' > 0, excused' = {}, ~Coming'
               PROVE  Listed(state)'
    BY DEF AbsentIsListed
  <2>1. present' = present /\ uploaded' = uploaded /\ op.head >= uploaded
    BY DEF ApplyDiscovery, Converging, ReadsNewest
  <2>2. op.head > 0
    BY <2>1, Known DEF Shapes, Ranges
  <2> DEFINE s == IF state = None THEN DefaultState("cloud-only") ELSE state
  <2>3. listed' = op.head /\ state' = [s EXCEPT !.avail = "cloud-only", !.known = op.head]
    BY <2>1, <2>2 DEF ApplyDiscovery
  <2>4. s \in PaperState
    BY DefaultIsState DEF Shapes, StateTypes, Availability
  <2> HIDE DEF s
  <2>5. state' \in PaperState /\ state'.avail = "cloud-only"
    BY <2>3, <2>4, Known DEF PaperState, Availability
  <2> QED
    BY <2>1, <2>3, <2>5, NoneAssumption DEF Listed
<1> QED
  BY <1>2, <1>3, <1>4, <1>5 DEF Converging

\* The reconciliation lists the head it read, or is excused.
LEMMA ApplyRemovalDiscoveryConverging ==
    ASSUME Base, Shapes, Shapes', Converging, ApplyRemovalDiscovery
    PROVE  Converging'
<1>1. ~Draining'
  BY DrainingEffect DEF ApplyRemovalDiscovery
<1>2. ReadsNewest'
  BY Known DEF ApplyRemovalDiscovery, End, Idle, Converging, ReadsNewest, Newest, Shapes,
     Ranges
<1>3. StaleIsComing'
  BY <1>1, Known DEF ApplyRemovalDiscovery, End, Idle, Converging, StaleIsComing, Stale,
     Coming
<1>4. PutBackIsListed'
  BY <1>1, Known DEF ApplyRemovalDiscovery, End, Idle, Converging, PutBackIsListed,
     AbsentIsListed, Listed, Stale, Outrun, Gone, Torn, Coming
<1>5. AbsentIsListed'
  <2> SUFFICES ASSUME ~present', removal' = "no", uploaded' > 0, excused' = {}, ~Coming'
               PROVE  Listed(state)'
    BY DEF AbsentIsListed
  <2>1. uploaded' = uploaded /\ op.head >= uploaded
    BY DEF ApplyRemovalDiscovery, Converging, ReadsNewest
  <2>2. op.head # 0
    BY <2>1, Known DEF Shapes, Ranges
  <2> DEFINE s == IF state = None THEN DefaultState("cloud-only") ELSE state
  <2>3. listed' = op.head /\ state' = CloudOnly(s, op.head)
    BY <2>2 DEF ApplyRemovalDiscovery
  <2>4. s \in PaperState /\ op.head \in Nat
    BY DefaultIsState, Known DEF Shapes, StateTypes, Availability
  <2> HIDE DEF s
  <2>5. state' \in PaperState /\ state'.avail = "cloud-only"
    BY <2>3, <2>4, CloudOnlyIsState
  <2> QED
    BY <2>1, <2>3, <2>5, NoneAssumption DEF Listed
<1> QED
  BY <1>2, <1>3, <1>4, <1>5 DEF Converging

\* Nothing is in Drive at the beginning, and nothing is done.
LEMMA InitConverging == Init => Converging
BY IdleIsOperation DEF Init, Converging, ReadsNewest, StaleIsComing, PutBackIsListed, AbsentIsListed

\* Nothing changes.
LEMMA StutterConverging == Converging /\ UNCHANGED vars => Converging'
BY DEF vars, Converging, ReadsNewest, StaleIsComing, PutBackIsListed, AbsentIsListed, Listed,
   Outrun, Stale, Gone, Torn, Coming, Draining, Queued

\* Every step keeps the way back to the catalog.
LEMMA ConvergingStep ==
    ASSUME Base, Shapes, Shapes', Converging, [Next]_vars
    PROVE  Converging'
<1>1. CASE Removal
  BY <1>1, StartRemovalConverging, DeleteCopyConverging, AbortRemovalConverging,
     CommitRemovalConverging, FinishRemovalConverging DEF Removal
<1>2. CASE Operation
  BY <1>2, BeginConverging, EndIfStaleConverging, FailConverging, CheckUploadConverging,
     ReadPackageConverging, PublishConverging, SettleUploadConverging, CheckDownloadConverging,
     FetchConverging, RefreshConverging, MergeDownloadConverging, ApplyDownloadConverging,
     SettleDownloadConverging, FinishDownloadConverging, RollBackDownloadConverging,
     DiscardDownloadConverging, EnsureAbsentConverging, ReconcileLocalStateConverging,
     ReadDriveConverging, ApplyDiscoveryConverging, ApplyRemovalDiscoveryConverging DEF Operation
<1>3. CASE Open \/ Edit \/ OtherDevicePublishes \/ RequestUpload \/ RequestDownload
           \/ RequestScan \/ Drain
  BY <1>3, OpenConverging, EditConverging, OtherDevicePublishesConverging, RequestUploadConverging,
     RequestDownloadConverging, RequestScanConverging, DrainConverging
<1>4. CASE UNCHANGED vars
  BY <1>4, StutterConverging
<1> QED
  BY <1>1, <1>2, <1>3, <1>4 DEF Next

\* When a removal has settled, the catalog lists what an upload under way published of the
\* removed paper, even one that found itself stale and recorded nothing
\* (drainLocalRemovalReconciliation).
THEOREM RemovalSettles == Spec => []RemovalConverges
<1>1. Init => Converging
  BY InitConverging
<1>2. Base /\ Shapes /\ Shapes' /\ Converging /\ [Next]_vars => Converging'
  BY ConvergingStep
<1>3. Converging => RemovalConverges
  BY DEF Converging, AbsentIsListed, Listed, Coming, Draining, Queued, RemovalConverges, Settled,
     Active
<1> QED
  BY <1>1, <1>2, <1>3, BaseHolds, ShapesHold, PTL DEF Spec

--------------------------------------------------------------------------------
(* The notes in Drive *)

\* Drive has the notes that are here, but for those of which the mark is not kept.
NotesIn == notes \ exposed \subseteq InDrive

\* A download that will not be settled any more.
Overtaken == op.kind = "download" /\ op.step \in {"settle", "discard"} /\ Stale

\* A reconciliation may clear the mark of a copy that is here.
Covered ==
    (present /\ ~Gone /\ ~Undoing /\ ~Torn) =>
        /\ (state # None /\ ~state.dirty) => NotesIn
        /\ (Coming /\ ~Overtaken) => NotesIn

\* The paper was edited since the operation captured its generation.
Moved == ~Coming /\ state.generation > op.generation

\* An upload has, or published, what is here, or the paper was edited since.
UploadNotes ==
    (op.kind = "upload" /\ ~Outrun) =>
        /\ op.step = "publish" => /\ notes \cap op.old = {}
                                  /\ notes \ exposed \subseteq op.notes \/ Moved
        /\ op.step = "settle" => NotesIn \/ Moved

\* A download has what Drive has, and what is merged with it stays marked.
DownloadNotes ==
    (op.kind = "download" /\ ~Outrun) =>
        /\ op.step = "apply" => op.notes \subseteq InDrive
        /\ op.step = "replace" =>
             \/ op.notes \ exposed \subseteq InDrive
             \/ ~Coming /\ state.dirty /\ op.merged
        /\ op.step = "settle" =>
             \/ NotesIn
             \/ ~Coming /\ state.dirty /\ (op.merged \/ state.generation > op.generation)

\* What would be put back was clean, or is marked.
RollBackNotes ==
    (op.kind = "download" /\ ~Outrun) =>
        LET old == IF op.step = "replace" THEN notes ELSE op.old
        IN  (op.step \in {"replace", "settle", "save"} /\ (Coming \/ ~op.before.dirty))
               => old \ (exposed \cup ((op.since + 1)..written)) \subseteq InDrive

\* What was written since a download merged was written after it.
Since == op.since <= written

Notes == Since /\ Covered /\ UploadNotes /\ DownloadNotes /\ RollBackNotes

\* What is opened is marked, and new here unless a transfer is about to discard it.
LEMMA OpenNotes ==
    ASSUME Base, Shapes, Shapes', Notes, Open
    PROVE  Notes'
<1>1. /\ ~Active /\ (~present \/ origin < committed) /\ MarkDirty
      /\ UNCHANGED <<heads, notes, removal, committed, pending, queue, written, exposed, excused>>
  BY DEF Open
<1>2. /\ op'.kind = op.kind /\ op'.step = op.step /\ op'.epoch = op.epoch
      /\ op'.generation = op.generation /\ op'.notes = op.notes /\ op'.merged = op.merged
      /\ op'.before = op.before /\ op'.old = op.old /\ op'.since = op.since
  <2>1. op' = op \/ op' = [op EXCEPT !.opened = TRUE]
    BY DEF Open
  <2> QED
    BY <2>1 DEF Shapes, OpTypes, Operations
<1>3. state' # None /\ state'.dirty
  BY <1>1, MarkDirtyEffect DEF Shapes, StateTypes
<1>4. InDrive' = InDrive /\ (Coming' <=> Coming)
  BY <1>1, DrainingEffect DEF InDrive, Newest, Coming
<1>5. (present /\ ~Torn) => op.kind = "download" /\ op.step \in {"settle", "discard"} /\ Stale
  BY <1>1 DEF Base, Copies, OldCopies, Undoing, Stale
<1>6. ~present => notes = {}
  BY DEF Shapes, AbsentEmpty
<1>7. (Outrun' <=> Outrun) /\ (Torn' <=> Torn) /\ (Stale' <=> Stale)
  BY <1>1, <1>2 DEF Outrun, Stale, Gone, Torn
<1> HIDE DEF Open
<1>8. Since'
  BY <1>1, <1>2 DEF Notes, Since
<1>9. Covered'
  <2>1. CASE present
    BY <1>2, <1>3, <1>5, <1>7, <2>1 DEF Covered, Overtaken
  <2>2. CASE ~present
    BY <1>1, <1>6, <2>2 DEF Covered, NotesIn
  <2> QED
    BY <2>1, <2>2, <1>3 DEF Covered
<1>10. UploadNotes'
  <2>1. (op.kind = "upload" /\ ~Outrun) => op.step \notin {"publish", "settle"}
    BY <1>5 DEF Base, Marks, UploadPresent, Outrun
  <2> QED
    BY <1>2, <1>7, <2>1 DEF UploadNotes
<1>11. DownloadNotes'
  <2>1. (op.kind = "download" /\ ~Outrun) => op.step # "settle"
    BY <1>5 DEF Base, Marks, Before, Outrun
  <2> QED
    BY <1>1, <1>2, <1>3, <1>4, <1>7, <2>1 DEF Notes, DownloadNotes
<1>12. RollBackNotes'
  BY <1>1, <1>2, <1>4, <1>7 DEF Notes, RollBackNotes
<1> QED
  BY <1>8, <1>9, <1>10, <1>11, <1>12 DEF Notes

\* What is written is marked, or exposed.
LEMMA EditNotes ==
    ASSUME Base, Shapes, Shapes', Notes, Edit
    PROVE  Notes'
<1> DEFINE new == written + 1
           exposing == Active \/ Coming
<1>1. /\ present /\ MarkDirty /\ written' = new /\ notes' = notes \cup {new}
      /\ exposed' = IF exposing THEN exposed \cup {new} ELSE exposed
      /\ UNCHANGED <<heads, present, origin, removal, committed, pending, queue, op, excused>>
  BY DEF Edit, Coming
<1>2. InDrive' = InDrive /\ (Coming' <=> Coming)
  BY <1>1, DrainingEffect DEF InDrive, Newest, Coming
<1>3. new \notin op.old /\ new \notin op.notes /\ new \notin notes /\ written \in Nat
  BY Known DEF Shapes, Written
<1>4. /\ exposing => notes' \ exposed' = notes \ exposed
      /\ op.notes \ exposed' = op.notes \ exposed
      /\ op.old \ exposed' = op.old \ exposed
  BY <1>1, <1>3
<1>5. /\ Active => state' = state
      /\ ~Active => /\ state' # None /\ state'.dirty
                    /\ state # None => state'.generation = state.generation + 1
  BY <1>1, MarkDirtyEffect DEF Shapes, StateTypes
<1>6. (Outrun' <=> Outrun) /\ (Gone' <=> Gone) /\ (Torn' <=> Torn) /\ (Undoing' <=> Undoing)
      /\ (Overtaken' <=> Overtaken)
  BY <1>1 DEF Outrun, Stale, Gone, Torn, Undoing, Overtaken
<1> HIDE DEF Edit, new
<1>7. Since'
  BY <1>1, <1>3, Known DEF Notes, Since, new
<1>8. Covered'
  <2>1. CASE exposing
    <3>1. NotesIn' <=> NotesIn
      BY <1>2, <1>4, <2>1 DEF NotesIn
    <3>2. (state' # None /\ ~state'.dirty) => state # None /\ ~state.dirty
      BY <1>5
    <3> QED
      BY <1>1, <1>2, <1>6, <3>1, <3>2 DEF Notes, Covered
  <2>2. CASE ~exposing
    BY <1>2, <1>5, <2>2 DEF Covered
  <2> QED
    BY <2>1, <2>2
<1>9. UploadNotes'
  <2> SUFFICES ASSUME op.kind = "upload", ~Outrun, op.step \in {"publish", "settle"}
               PROVE  /\ op.step = "publish" => /\ notes' \cap op.old = {}
                                                /\ notes' \ exposed' \subseteq op.notes \/ Moved'
                      /\ op.step = "settle" => NotesIn' \/ Moved'
    BY <1>1, <1>6 DEF UploadNotes
  <2>1. op.step = "publish" => notes' \cap op.old = {}
    BY <1>1, <1>3 DEF Notes, UploadNotes
  <2>2. CASE exposing
    <3>1. (NotesIn' <=> NotesIn) /\ (Moved => Moved')
      BY <1>1, <1>2, <1>4, <1>5, <2>2 DEF NotesIn, Moved
    <3> QED
      BY <1>4, <2>1, <2>2, <3>1 DEF Notes, UploadNotes
  <2>3. CASE ~exposing
    <3>1. state # None /\ state.generation >= op.generation
      BY DEF Shapes, Stated, Outrun, Gone
    <3>2. state'.generation > op.generation
      BY <1>5, <2>3, <3>1, Known
    <3>3. Moved'
      BY <1>1, <1>2, <2>3, <3>2 DEF Moved
    <3> QED
      BY <2>1, <3>3
  <2> QED
    BY <2>2, <2>3
<1>10. DownloadNotes'
  <2> SUFFICES ASSUME op.kind = "download", ~Outrun
               PROVE  /\ op.step = "apply" => op.notes \subseteq InDrive
                      /\ op.step = "replace" =>
                           \/ op.notes \ exposed' \subseteq InDrive
                           \/ ~Coming /\ state'.dirty /\ op.merged
                      /\ op.step = "settle" =>
                           \/ NotesIn'
                           \/ /\ ~Coming /\ state'.dirty
                              /\ op.merged \/ state'.generation > op.generation
    BY <1>1, <1>2, <1>6 DEF DownloadNotes
  <2>1. CASE exposing
    <3>1. NotesIn' <=> NotesIn
      BY <1>2, <1>4, <2>1 DEF NotesIn
    <3>2. ~Coming => state' = state
      BY <1>5, <2>1
    <3> QED
      BY <1>4, <3>1, <3>2 DEF Notes, DownloadNotes
  <2>2. CASE ~exposing
    <3>1. state'.dirty /\ ~Coming
      BY <1>5, <2>2
    <3>2. op.step = "settle" => state'.generation > op.generation
      BY <1>5, <2>2, Known DEF Shapes, Stated
    <3> QED
      BY <1>4, <3>1, <3>2 DEF Notes, DownloadNotes
  <2> QED
    BY <2>1, <2>2
<1>11. RollBackNotes'
  <2>1. op.since <= written
    BY DEF Notes, Since
  <2>2. (op.since + 1)..new = ((op.since + 1)..written) \cup {new}
    BY <1>3, <2>1, Known DEF new
  <2>3. exposed \subseteq exposed'
    BY <1>1
  <2> QED
    BY <1>1, <1>2, <1>6, <2>2, <2>3 DEF Notes, RollBackNotes
<1> QED
  BY <1>7, <1>8, <1>9, <1>10, <1>11 DEF Notes

\* Other devices take nothing out of Drive.
LEMMA OtherDevicePublishesNotes ==
    ASSUME Base, Shapes, Shapes', Notes, OtherDevicePublishes
    PROVE  Notes'
<1>1. Coming' <=> Coming
  BY DrainingEffect DEF OtherDevicePublishes, Coming
<1>2. InDrive \subseteq InDrive' /\ written' = written + 1
  BY Known DEF OtherDevicePublishes, InDrive, Newest
<1>3. Since'
  BY Known DEF OtherDevicePublishes, Notes, Since
<1>4. Covered'
  BY <1>1, <1>2, Known DEF OtherDevicePublishes, Notes, Covered, NotesIn, Undoing,
     Overtaken, Stale, Outrun, Gone, Torn
<1>5. UploadNotes'
  BY <1>1, <1>2, Known DEF OtherDevicePublishes, Notes, UploadNotes, NotesIn, Moved, Stale,
     Outrun, Gone, Torn
<1>6. DownloadNotes'
  BY <1>1, <1>2, Known DEF OtherDevicePublishes, Notes, DownloadNotes, NotesIn, Stale,
     Outrun, Gone, Torn
<1>7. RollBackNotes'
  BY <1>1, <1>2, Known DEF OtherDevicePublishes, Notes, RollBackNotes, Stale, Outrun, Gone,
     Torn
<1> QED
  BY <1>3, <1>4, <1>5, <1>6, <1>7 DEF Notes

\* A request is no reconciliation.
LEMMA RequestUploadNotes ==
    ASSUME Base, Shapes, Shapes', Notes, RequestUpload
    PROVE  Notes'
<1>1. Coming' <=> Coming
  BY DrainingEffect DEF RequestUpload, Coming, Kind
<1>2. InDrive' = InDrive
  BY DEF RequestUpload, InDrive, Newest
<1>3. Since'
  BY Known DEF RequestUpload, Notes, Since
<1>4. Covered'
  BY <1>1, <1>2, Known DEF RequestUpload, Notes, Covered, NotesIn, Undoing, Overtaken,
     Stale, Outrun, Gone, Torn
<1>5. UploadNotes'
  BY <1>1, <1>2, Known DEF RequestUpload, Notes, UploadNotes, NotesIn, Moved, Stale, Outrun,
     Gone, Torn
<1>6. DownloadNotes'
  BY <1>1, <1>2, Known DEF RequestUpload, Notes, DownloadNotes, NotesIn, Stale, Outrun,
     Gone, Torn
<1>7. RollBackNotes'
  BY <1>1, <1>2, Known DEF RequestUpload, Notes, RollBackNotes, Stale, Outrun, Gone, Torn
<1> QED
  BY <1>3, <1>4, <1>5, <1>6, <1>7 DEF Notes

\* A request is no reconciliation.
LEMMA RequestDownloadNotes ==
    ASSUME Base, Shapes, Shapes', Notes, RequestDownload
    PROVE  Notes'
<1>1. Coming' <=> Coming
  BY DrainingEffect DEF RequestDownload, Coming, Kind
<1>2. InDrive' = InDrive
  BY DEF RequestDownload, InDrive, Newest
<1>3. Since'
  BY Known DEF RequestDownload, Notes, Since
<1>4. Covered'
  BY <1>1, <1>2, Known DEF RequestDownload, Notes, Covered, NotesIn, Undoing, Overtaken,
     Stale, Outrun, Gone, Torn
<1>5. UploadNotes'
  BY <1>1, <1>2, Known DEF RequestDownload, Notes, UploadNotes, NotesIn, Moved, Stale,
     Outrun, Gone, Torn
<1>6. DownloadNotes'
  BY <1>1, <1>2, Known DEF RequestDownload, Notes, DownloadNotes, NotesIn, Stale, Outrun,
     Gone, Torn
<1>7. RollBackNotes'
  BY <1>1, <1>2, Known DEF RequestDownload, Notes, RollBackNotes, Stale, Outrun, Gone, Torn
<1> QED
  BY <1>3, <1>4, <1>5, <1>6, <1>7 DEF Notes

\* A request is no reconciliation.
LEMMA RequestScanNotes ==
    ASSUME Base, Shapes, Shapes', Notes, RequestScan
    PROVE  Notes'
<1>1. Coming' <=> Coming
  BY DrainingEffect DEF RequestScan, Coming, Kind
<1>2. InDrive' = InDrive
  BY DEF RequestScan, InDrive, Newest
<1>3. Since'
  BY Known DEF RequestScan, Notes, Since
<1>4. Covered'
  BY <1>1, <1>2, Known DEF RequestScan, Notes, Covered, NotesIn, Undoing, Overtaken, Stale,
     Outrun, Gone, Torn
<1>5. UploadNotes'
  BY <1>1, <1>2, Known DEF RequestScan, Notes, UploadNotes, NotesIn, Moved, Stale, Outrun,
     Gone, Torn
<1>6. DownloadNotes'
  BY <1>1, <1>2, Known DEF RequestScan, Notes, DownloadNotes, NotesIn, Stale, Outrun, Gone,
     Torn
<1>7. RollBackNotes'
  BY <1>1, <1>2, Known DEF RequestScan, Notes, RollBackNotes, Stale, Outrun, Gone, Torn
<1> QED
  BY <1>3, <1>4, <1>5, <1>6, <1>7 DEF Notes

\* A removal that starts touches no note.
LEMMA StartRemovalNotes ==
    ASSUME Base, Shapes, Shapes', Notes, StartRemoval
    PROVE  Notes'
<1>1. Coming' <=> Coming
  BY DrainingEffect DEF StartRemoval, Coming
<1>2. InDrive' = InDrive
  BY DEF StartRemoval, InDrive, Newest
<1>3. Since'
  BY Known DEF StartRemoval, Notes, Since
<1>4. Covered'
  BY <1>1, <1>2, Known DEF StartRemoval, Notes, Covered, NotesIn, Undoing, Overtaken, Stale,
     Outrun, Gone, Torn, Active
<1>5. UploadNotes'
  BY <1>1, <1>2, Known DEF StartRemoval, Notes, UploadNotes, NotesIn, Moved, Stale, Outrun,
     Gone, Torn, Active
<1>6. DownloadNotes'
  BY <1>1, <1>2, Known DEF StartRemoval, Notes, DownloadNotes, NotesIn, Stale, Outrun, Gone,
     Torn, Active
<1>7. RollBackNotes'
  BY <1>1, <1>2, Known DEF StartRemoval, Notes, RollBackNotes, Stale, Outrun, Gone, Torn,
     Active
<1> QED
  BY <1>3, <1>4, <1>5, <1>6, <1>7 DEF Notes

\* There are no notes left.
LEMMA DeleteCopyNotes ==
    ASSUME Base, Shapes, Shapes', Notes, DeleteCopy
    PROVE  Notes'
<1>1. Coming' <=> Coming
  BY DrainingEffect DEF DeleteCopy, Coming
<1>2. InDrive' = InDrive
  BY DEF DeleteCopy, InDrive, Newest
<1>3. Since'
  BY Known DEF DeleteCopy, Shapes, OpTypes, Operations, Notes, Since
<1>4. Covered'
  BY <1>1, <1>2, Known DEF DeleteCopy, Shapes, OpTypes, Operations, Notes, Covered, NotesIn,
     Undoing, Overtaken, Stale, Outrun, Gone, Torn
<1>5. UploadNotes'
  BY <1>1, <1>2, Known DEF DeleteCopy, Shapes, OpTypes, Operations, Notes, UploadNotes,
     NotesIn, Moved, Stale, Outrun, Gone, Torn
<1>6. DownloadNotes'
  BY <1>1, <1>2, Known DEF DeleteCopy, Shapes, OpTypes, Operations, Notes, DownloadNotes,
     NotesIn, Stale, Outrun, Gone, Torn
<1>7. RollBackNotes'
  BY <1>1, <1>2, Known DEF DeleteCopy, Shapes, OpTypes, Operations, Notes, RollBackNotes,
     Stale, Outrun, Gone, Torn
<1> QED
  BY <1>3, <1>4, <1>5, <1>6, <1>7 DEF Notes

\* A removal that is aborted left the notes, or is excused.
LEMMA AbortRemovalNotes ==
    ASSUME Base, Shapes, Shapes', Notes, AbortRemoval
    PROVE  Notes'
<1>1. Coming' <=> Coming
  BY DrainingEffect DEF AbortRemoval, Coming
<1>2. InDrive' = InDrive
  BY DEF AbortRemoval, InDrive, Newest
<1>3. Since'
  BY Known DEF AbortRemoval, Notes, Since
<1>4. Covered'
  BY <1>1, <1>2, Known DEF AbortRemoval, Notes, Covered, NotesIn, Undoing, Overtaken, Stale,
     Outrun, Gone, Torn
<1>5. UploadNotes'
  BY <1>1, <1>2, Known DEF AbortRemoval, Notes, UploadNotes, NotesIn, Moved, Stale, Outrun,
     Gone, Torn
<1>6. DownloadNotes'
  BY <1>1, <1>2, Known DEF AbortRemoval, Notes, DownloadNotes, NotesIn, Stale, Outrun, Gone,
     Torn
<1>7. RollBackNotes'
  BY <1>1, <1>2, Known DEF AbortRemoval, Notes, RollBackNotes, Stale, Outrun, Gone, Torn
<1> QED
  BY <1>3, <1>4, <1>5, <1>6, <1>7 DEF Notes

\* The copy is gone, or a stale download is about to take it away.
LEMMA CommitRemovalNotes ==
    ASSUME Base, Shapes, Shapes', Notes, CommitRemoval
    PROVE  Notes'
<1>1. Coming' <=> Coming
  BY DrainingEffect DEF CommitRemoval, Coming
<1>2. InDrive' = InDrive
  BY DEF CommitRemoval, InDrive, Newest
<1>3. Since'
  BY Known DEF CommitRemoval, Notes, Since
<1>4. Covered'
  BY <1>1, <1>2, Known DEF CommitRemoval, Notes, Covered, NotesIn, Undoing, Overtaken,
     Stale, Outrun, Gone, Torn
<1>5. UploadNotes'
  BY <1>1, <1>2, Known DEF CommitRemoval, Notes, UploadNotes, NotesIn, Moved, Stale, Outrun,
     Gone, Torn
<1>6. DownloadNotes'
  BY <1>1, <1>2, Known DEF CommitRemoval, Notes, DownloadNotes, NotesIn, Stale, Outrun,
     Gone, Torn
<1>7. RollBackNotes'
  BY <1>1, <1>2, Known DEF CommitRemoval, Notes, RollBackNotes, Stale, Outrun, Gone, Torn
<1> QED
  BY <1>3, <1>4, <1>5, <1>6, <1>7 DEF Notes

\* What is here after a removal, a stale download put there.
LEMMA FinishRemovalNotes ==
    ASSUME Base, Shapes, Shapes', Notes, FinishRemoval
    PROVE  Notes'
<1>1. Coming'
  BY DrainingEffect DEF FinishRemoval, Coming
<1>2. InDrive' = InDrive
  BY DEF FinishRemoval, InDrive, Newest
<1>3. Since'
  BY Known DEF FinishRemoval, Notes, Since
<1>4. Covered'
  BY <1>1, <1>2, Known DEF FinishRemoval, Notes, Covered, NotesIn, Undoing, Overtaken,
     Stale, Outrun, Gone, Torn, Base, Copies, OldCopies, GoneCopies
<1>5. UploadNotes'
  BY <1>1, <1>2, Known DEF FinishRemoval, Notes, UploadNotes, NotesIn, Moved, Stale, Outrun,
     Gone, Torn, Base, Marks, MarkTypes, Checking, Active
<1>6. DownloadNotes'
  BY <1>1, <1>2, Known DEF FinishRemoval, Notes, DownloadNotes, NotesIn, Stale, Outrun,
     Gone, Torn, Base, Marks, MarkTypes, Checking, Active
<1>7. RollBackNotes'
  BY <1>1, <1>2, Known DEF FinishRemoval, Notes, RollBackNotes, Stale, Outrun, Gone, Torn,
     Base, Marks, MarkTypes, Checking, Active
<1> QED
  BY <1>3, <1>4, <1>5, <1>6, <1>7 DEF Notes

\* The reconciliation waits for Drive.
LEMMA DrainNotes ==
    ASSUME Base, Shapes, Shapes', Notes, Drain
    PROVE  Notes'
<1>1. Coming' <=> Coming
  BY DrainingEffect DEF Drain, Coming, Kind
<1>2. InDrive' = InDrive
  BY DEF Drain, InDrive, Newest
<1>3. Since'
  BY Known DEF Drain, Notes, Since
<1>4. Covered'
  BY <1>1, <1>2, Known DEF Drain, Notes, Covered, NotesIn, Undoing, Overtaken, Stale,
     Outrun, Gone, Torn
<1>5. UploadNotes'
  BY <1>1, <1>2, Known DEF Drain, Notes, UploadNotes, NotesIn, Moved, Stale, Outrun, Gone,
     Torn
<1>6. DownloadNotes'
  BY <1>1, <1>2, Known DEF Drain, Notes, DownloadNotes, NotesIn, Stale, Outrun, Gone, Torn
<1>7. RollBackNotes'
  BY <1>1, <1>2, Known DEF Drain, Notes, RollBackNotes, Stale, Outrun, Gone, Torn
<1> QED
  BY <1>3, <1>4, <1>5, <1>6, <1>7 DEF Notes

\* An operation that begins has read nothing.
LEMMA BeginNotes ==
    ASSUME Base, Shapes, Shapes', Notes, Begin
    PROVE  Notes'
<1>1. Coming' <=> Coming
  BY DrainingEffect DEF Begin, Coming
<1>2. InDrive' = InDrive
  BY DEF Begin, InDrive, Newest
<1>3. Since'
  BY Known DEF Begin, Shapes, OpTypes, Operations, Idle, Notes, Since
<1>4. Covered'
  BY <1>1, <1>2, Known DEF Begin, Shapes, OpTypes, Operations, Idle, Notes, Covered,
     NotesIn, Undoing, Overtaken, Stale, Outrun, Gone, Torn
<1>5. UploadNotes'
  BY <1>1, <1>2, Known DEF Begin, Shapes, OpTypes, Operations, Idle, Notes, UploadNotes,
     NotesIn, Moved, Stale, Outrun, Gone, Torn
<1>6. DownloadNotes'
  BY <1>1, <1>2, Known DEF Begin, Shapes, OpTypes, Operations, Idle, Notes, DownloadNotes,
     NotesIn, Stale, Outrun, Gone, Torn
<1>7. RollBackNotes'
  BY <1>1, <1>2, Known DEF Begin, Shapes, OpTypes, Operations, Idle, Notes, RollBackNotes,
     Stale, Outrun, Gone, Torn
<1> QED
  BY <1>3, <1>4, <1>5, <1>6, <1>7 DEF Notes

\* A stale transfer that ends here applied nothing.
LEMMA EndIfStaleNotes ==
    ASSUME Base, Shapes, Shapes', Notes, EndIfStale
    PROVE  Notes'
<1>1. Coming' <=> Coming
  BY DrainingEffect DEF EndIfStale, Coming, Checked
<1>2. InDrive' = InDrive
  BY DEF EndIfStale, InDrive, Newest
<1>3. Since'
  BY Known DEF EndIfStale, End, Checked, Idle, Notes, Since
<1>4. Covered'
  BY <1>1, <1>2, Known DEF EndIfStale, End, Checked, Idle, Notes, Covered, NotesIn, Undoing,
     Overtaken, Stale, Outrun, Gone, Torn
<1>5. UploadNotes'
  BY <1>1, <1>2, Known DEF EndIfStale, End, Checked, Idle, Notes, UploadNotes, NotesIn,
     Moved, Stale, Outrun, Gone, Torn
<1>6. DownloadNotes'
  BY <1>1, <1>2, Known DEF EndIfStale, End, Checked, Idle, Notes, DownloadNotes, NotesIn,
     Stale, Outrun, Gone, Torn
<1>7. RollBackNotes'
  BY <1>1, <1>2, Known DEF EndIfStale, End, Checked, Idle, Notes, RollBackNotes, Stale,
     Outrun, Gone, Torn
<1> QED
  BY <1>3, <1>4, <1>5, <1>6, <1>7 DEF Notes

\* A failure clears no mark.
LEMMA FailNotes ==
    ASSUME Base, Shapes, Shapes', Notes, Fail
    PROVE  Notes'
<1>1. Coming' <=> pending \/ (Draining /\ op.kind # "reconcile")
  BY DrainingEffect DEF Fail, Coming, Checked
<1>2. InDrive' = InDrive
  BY DEF Fail, InDrive, Newest
<1>3. Since'
  BY Known DEF Fail, End, Checked, Idle, Notes, Since
<1>4. Covered'
  <2>1. /\ op.step # "settle" \/ op.kind # "download"
        /\ op' = Idle /\ excused \subseteq excused'
        /\ At("download", "discard") => Torn'
        /\ UNCHANGED <<present, notes, state, origin, removal, exposed>>
    BY DEF Fail, End, Torn
  <2>2. CASE At("download", "discard")
    BY <2>1, <2>2 DEF Covered
  <2>3. CASE ~At("download", "discard")
    <3>1. ~Undoing /\ ~Overtaken /\ (Torn => Torn') /\ (Gone' <=> Gone) /\ (NotesIn' <=> NotesIn)
      BY <1>2, <2>1, <2>3 DEF Undoing, Overtaken, Torn, Gone, NotesIn
    <3> QED
      BY <1>1, <2>1, <3>1 DEF Notes, Covered, Coming
  <2> QED
    BY <2>2, <2>3
<1>5. UploadNotes'
  BY <1>1, <1>2, Known DEF Fail, End, Checked, Idle, Notes, UploadNotes, NotesIn, Moved,
     Stale, Outrun, Gone, Torn
<1>6. DownloadNotes'
  BY <1>1, <1>2, Known DEF Fail, End, Checked, Idle, Notes, DownloadNotes, NotesIn, Stale,
     Outrun, Gone, Torn
<1>7. RollBackNotes'
  BY <1>1, <1>2, Known DEF Fail, End, Checked, Idle, Notes, RollBackNotes, Stale, Outrun,
     Gone, Torn
<1> QED
  BY <1>3, <1>4, <1>5, <1>6, <1>7 DEF Notes

\* The check of an upload clears no mark.
LEMMA CheckUploadNotes ==
    ASSUME Base, Shapes, Shapes', Notes, CheckUpload
    PROVE  Notes'
<1>1. /\ At("upload", "check")
      /\ op' = Idle \/ op' = [op EXCEPT !.step = "read", !.generation = state.generation]
      /\ queue' = queue \/ End
      /\ UNCHANGED <<heads, present, notes, origin, state, removal, committed, pending, written,
                     exposed, excused>>
  BY DEF CheckUpload, End
<1>2. op'.kind \in {"upload", "scan"} /\ op'.step \in {"idle", "read"}
  BY <1>1, IdleIsOperation DEF Shapes, OpTypes, Operations
<1>3. Coming' <=> Coming
  BY <1>1, DrainingEffect DEF Coming
<1>4. Since'
  <2>1. op'.since = 0 \/ op'.since = op.since
    <3>1. Idle.since = 0
      BY DEF Idle
    <3>2. op \in Operations
      BY DEF Shapes, OpTypes
    <3>3. op' = [op EXCEPT !.step = "read", !.generation = state.generation] => op'.since = op.since
      BY <3>2 DEF Operations
    <3> QED
      BY <1>1, <3>1, <3>3
  <2> QED
    BY <1>1, <2>1, Known DEF Notes, Since
<1>5. Covered'
  BY <1>1, <1>2, <1>3 DEF Notes, Covered, NotesIn, Undoing, Overtaken, Gone, Torn, InDrive, Newest
<1>6. UploadNotes' /\ DownloadNotes' /\ RollBackNotes'
  BY <1>2 DEF UploadNotes, DownloadNotes, RollBackNotes
<1> QED
  BY <1>4, <1>5, <1>6 DEF Notes

\* The package has all the notes that are here.
LEMMA ReadPackageNotes ==
    ASSUME Base, Shapes, Shapes', Notes, ReadPackage
    PROVE  Notes'
<1>1. Coming' <=> Coming
  BY DrainingEffect DEF ReadPackage, Coming
<1>2. InDrive' = InDrive
  BY DEF ReadPackage, InDrive, Newest
<1>3. Since'
  BY Known DEF ReadPackage, Shapes, OpTypes, Operations, Notes, Since
<1>4. Covered'
  BY <1>1, <1>2, Known DEF ReadPackage, Shapes, OpTypes, Operations, Notes, Covered,
     NotesIn, Undoing, Overtaken, Stale, Outrun, Gone, Torn
<1>5. UploadNotes'
  BY <1>1, <1>2, Known DEF ReadPackage, Shapes, OpTypes, Operations, Notes, UploadNotes,
     NotesIn, Moved, Stale, Outrun, Gone, Torn
<1>6. DownloadNotes'
  BY <1>1, <1>2, Known DEF ReadPackage, Shapes, OpTypes, Operations, Notes, DownloadNotes,
     NotesIn, Stale, Outrun, Gone, Torn
<1>7. RollBackNotes'
  BY <1>1, <1>2, Known DEF ReadPackage, Shapes, OpTypes, Operations, Notes, RollBackNotes,
     Stale, Outrun, Gone, Torn
<1> QED
  BY <1>3, <1>4, <1>5, <1>6, <1>7 DEF Notes

\* What was read is published, and what was written since is marked.
LEMMA PublishNotes ==
    ASSUME Base, Shapes, Shapes', Notes, Publish
    PROVE  Notes'
<1>1. Coming' <=> Coming
  BY DrainingEffect DEF Publish, Coming, Checked
<1>2. InDrive' = (InDrive \cup op.notes) \ op.old
  BY Known DEF Publish, InDrive, Newest
<1>3. Since'
  BY Known DEF Publish, Checked, Shapes, OpTypes, Operations, Notes, Since
<1>4. Covered'
  BY <1>1, <1>2, Known DEF Publish, Checked, Shapes, OpTypes, Operations, Notes, Covered,
     NotesIn, Undoing, Overtaken, Stale, Outrun, Gone, Torn, Stated, UploadNotes, Moved,
     Active
<1>5. UploadNotes'
  BY <1>1, <1>2, Known DEF Publish, Checked, Shapes, OpTypes, Operations, Notes,
     UploadNotes, NotesIn, Moved, Stale, Outrun, Gone, Torn
<1>6. DownloadNotes'
  BY <1>1, <1>2, Known DEF Publish, Checked, Shapes, OpTypes, Operations, Notes,
     DownloadNotes, NotesIn, Stale, Outrun, Gone, Torn
<1>7. RollBackNotes'
  BY <1>1, <1>2, Known DEF Publish, Checked, Shapes, OpTypes, Operations, Notes,
     RollBackNotes, Stale, Outrun, Gone, Torn
<1> QED
  BY <1>3, <1>4, <1>5, <1>6, <1>7 DEF Notes

\* The mark is cleared only of what was published.
LEMMA SettleUploadNotes ==
    ASSUME Base, Shapes, Shapes', Notes, SettleUpload
    PROVE  Notes'
<1>1. Coming' <=> Coming
  BY DrainingEffect DEF SettleUpload, Coming, Checked, SettledDirty
<1>2. InDrive' = InDrive
  BY DEF SettleUpload, InDrive, Newest
<1>3. Since'
  BY Known DEF SettleUpload, End, Checked, SettledDirty, Idle, Notes, Since
<1>4. Covered'
  <2> SUFFICES ASSUME present, ~Torn, (state'.dirty => FALSE) \/ Coming
               PROVE  NotesIn'
    BY <1>1 DEF SettleUpload, Covered, Torn
  <2>1. ~Outrun /\ At("upload", "settle")
    BY DEF SettleUpload, Checked, Active, Outrun, Gone
  <2>2. state.dirty /\ state.generation >= op.generation
    BY <2>1 DEF Shapes, Stated
  <2>3. state'.dirty = SettledDirty
    BY DEF SettleUpload
  <2>4. NotesIn \/ Moved
    BY <2>1 DEF Notes, UploadNotes
  <2>5. ~Moved
    <3>1. Moved => ~Coming /\ state.generation # op.generation
      BY <2>1, Known DEF Moved
    <3> QED
      BY <2>2, <2>3, <3>1 DEF SettledDirty
  <2> QED
    BY <1>2, <2>4, <2>5 DEF SettleUpload, NotesIn
<1>5. UploadNotes'
  BY <1>1, <1>2, Known DEF SettleUpload, End, Checked, SettledDirty, Idle, Notes,
     UploadNotes, NotesIn, Moved, Stale, Outrun, Gone, Torn
<1>6. DownloadNotes'
  BY <1>1, <1>2, Known DEF SettleUpload, End, Checked, SettledDirty, Idle, Notes,
     DownloadNotes, NotesIn, Stale, Outrun, Gone, Torn
<1>7. RollBackNotes'
  BY <1>1, <1>2, Known DEF SettleUpload, End, Checked, SettledDirty, Idle, Notes,
     RollBackNotes, Stale, Outrun, Gone, Torn
<1> QED
  BY <1>3, <1>4, <1>5, <1>6, <1>7 DEF Notes

\* A paper that is here has a state.
LEMMA CheckDownloadNotes ==
    ASSUME Base, Shapes, Shapes', Notes, CheckDownload
    PROVE  Notes'
<1>1. Coming' <=> Coming
  BY DrainingEffect DEF CheckDownload, Coming, Checked
<1>2. InDrive' = InDrive
  BY DEF CheckDownload, InDrive, Newest
<1>3. Since'
  BY Known DEF CheckDownload, Checked, Shapes, OpTypes, Operations, Notes, Since
<1>4. Covered'
  BY <1>1, <1>2, Known DEF CheckDownload, Checked, Shapes, OpTypes, Operations, Notes,
     Covered, NotesIn, Undoing, Overtaken, Stale, Outrun, Gone, Torn, Stated
<1>5. UploadNotes'
  BY <1>1, <1>2, Known DEF CheckDownload, Checked, Shapes, OpTypes, Operations, Notes,
     UploadNotes, NotesIn, Moved, Stale, Outrun, Gone, Torn
<1>6. DownloadNotes'
  BY <1>1, <1>2, Known DEF CheckDownload, Checked, Shapes, OpTypes, Operations, Notes,
     DownloadNotes, NotesIn, Stale, Outrun, Gone, Torn
<1>7. RollBackNotes'
  BY <1>1, <1>2, Known DEF CheckDownload, Checked, Shapes, OpTypes, Operations, Notes,
     RollBackNotes, Stale, Outrun, Gone, Torn
<1> QED
  BY <1>3, <1>4, <1>5, <1>6, <1>7 DEF Notes

\* What is downloaded is the head.
LEMMA FetchNotes ==
    ASSUME Base, Shapes, Shapes', Notes, Fetch
    PROVE  Notes'
<1>1. Coming' <=> Coming
  BY DrainingEffect DEF Fetch, Coming
<1>2. InDrive' = InDrive
  BY DEF Fetch, InDrive, Newest
<1>3. Since'
  BY Known DEF Fetch, Shapes, OpTypes, Operations, Notes, Since
<1>4. Covered'
  BY <1>1, <1>2, Known DEF Fetch, Shapes, OpTypes, Operations, Notes, Covered, NotesIn,
     Undoing, Overtaken, Stale, Outrun, Gone, Torn
<1>5. UploadNotes'
  BY <1>1, <1>2, Known DEF Fetch, Shapes, OpTypes, Operations, Notes, UploadNotes, NotesIn,
     Moved, Stale, Outrun, Gone, Torn
<1>6. DownloadNotes'
  <2>1. op'.kind = "download" /\ op'.step \in {"apply", "refresh"}
    BY DEF Fetch, Shapes, OpTypes, Operations
  <2>2. op'.step = "apply" => op'.notes = InDrive
    <3>1. op.head > 0
      BY DEF Fetch, Base, Reads
    <3>2. CASE op.head = Newest
      <4>1. op' = [op EXCEPT !.step = "apply", !.notes = heads[op.head]]
        BY <3>2 DEF Fetch
      <4>2. op'.notes = heads[Newest]
        BY <3>2, <4>1 DEF Shapes, OpTypes, Operations
      <4> QED
        BY <3>1, <3>2, <4>2 DEF InDrive
    <3>3. CASE op.head # Newest
      BY <3>3 DEF Fetch, Shapes, OpTypes, Operations
    <3> QED
      BY <3>2, <3>3
  <2> QED
    BY <1>2, <2>1, <2>2 DEF DownloadNotes
<1>7. RollBackNotes'
  BY <1>1, <1>2, Known DEF Fetch, Shapes, OpTypes, Operations, Notes, RollBackNotes, Stale,
     Outrun, Gone, Torn
<1> QED
  BY <1>3, <1>4, <1>5, <1>6, <1>7 DEF Notes

\* Reading the head clears no mark.
LEMMA RefreshNotes ==
    ASSUME Base, Shapes, Shapes', Notes, Refresh
    PROVE  Notes'
<1>1. Coming' <=> Coming
  BY DrainingEffect DEF Refresh, Coming
<1>2. InDrive' = InDrive
  BY DEF Refresh, InDrive, Newest
<1>3. Since'
  BY Known DEF Refresh, Shapes, OpTypes, Operations, Notes, Since
<1>4. Covered'
  BY <1>1, <1>2, Known DEF Refresh, Shapes, OpTypes, Operations, Notes, Covered, NotesIn,
     Undoing, Overtaken, Stale, Outrun, Gone, Torn
<1>5. UploadNotes'
  BY <1>1, <1>2, Known DEF Refresh, Shapes, OpTypes, Operations, Notes, UploadNotes,
     NotesIn, Moved, Stale, Outrun, Gone, Torn
<1>6. DownloadNotes'
  BY <1>1, <1>2, Known DEF Refresh, Shapes, OpTypes, Operations, Notes, DownloadNotes,
     NotesIn, Stale, Outrun, Gone, Torn
<1>7. RollBackNotes'
  BY <1>1, <1>2, Known DEF Refresh, Shapes, OpTypes, Operations, Notes, RollBackNotes,
     Stale, Outrun, Gone, Torn
<1> QED
  BY <1>3, <1>4, <1>5, <1>6, <1>7 DEF Notes

\* What is merged is in Drive, or marked.
LEMMA MergeDownloadNotes ==
    ASSUME Base, Shapes, Shapes', Notes, MergeDownload
    PROVE  Notes'
<1>1. Coming' <=> Coming
  BY DrainingEffect DEF MergeDownload, Coming, Checked, Merged
<1>2. InDrive' = InDrive
  BY DEF MergeDownload, InDrive, Newest
<1>3. Since'
  BY Known DEF MergeDownload, Checked, Merged, Shapes, OpTypes, Operations, Notes, Since
<1>4. Covered'
  BY <1>1, <1>2, Known DEF MergeDownload, Checked, Merged, Shapes, OpTypes, Operations,
     Notes, Covered, NotesIn, Undoing, Overtaken, Stale, Outrun, Gone, Torn
<1>5. UploadNotes'
  BY <1>1, <1>2, Known DEF MergeDownload, Checked, Merged, Shapes, OpTypes, Operations,
     Notes, UploadNotes, NotesIn, Moved, Stale, Outrun, Gone, Torn
<1>6. DownloadNotes'
  BY <1>1, <1>2, Known DEF MergeDownload, Checked, Merged, Shapes, OpTypes, Operations,
     Notes, DownloadNotes, NotesIn, Stale, Outrun, Gone, Torn, Covered, Undoing, Overtaken,
     Active
<1>7. RollBackNotes'
  <2>1. /\ op'.step = "replace" /\ op'.before = state /\ op'.since = written
        /\ At("download", "apply") /\ ~Active /\ ~Stale
        /\ UNCHANGED <<notes, exposed, written, removal, excused>>
    BY DEF MergeDownload, Checked, Shapes, OpTypes, Operations
  <2>2. notes \ exposed' \subseteq notes \ exposed
    BY <2>1
  <2>3. state # None /\ (~present => notes = {})
    BY <2>1 DEF Shapes, Stated, AbsentEmpty
  <2>4. ~Gone /\ ~Undoing /\ ~Overtaken
    BY <2>1 DEF Gone, Active, Undoing, Overtaken
  <2>5. (~Torn /\ (Coming \/ ~state.dirty)) => NotesIn
    BY <2>3, <2>4 DEF Notes, Covered, NotesIn
  <2> QED
    BY <1>1, <1>2, <2>1, <2>5 DEF RollBackNotes, NotesIn, Outrun, Torn
<1> QED
  BY <1>3, <1>4, <1>5, <1>6, <1>7 DEF Notes

\* What is applied is in Drive, or marked.
LEMMA ApplyDownloadNotes ==
    ASSUME Base, Shapes, Shapes', Notes, ApplyDownload
    PROVE  Notes'
<1>1. Coming' <=> Coming
  BY DrainingEffect DEF ApplyDownload, Coming
<1>2. InDrive' = InDrive
  BY DEF ApplyDownload, InDrive, Newest
<1>3. Since'
  BY Known DEF ApplyDownload, Shapes, OpTypes, Operations, Notes, Since
<1>4. Covered'
  BY <1>1, <1>2, Known DEF ApplyDownload, Shapes, OpTypes, Operations, Notes, Covered,
     NotesIn, Undoing, Overtaken, Stale, Outrun, Gone, Torn
<1>5. UploadNotes'
  BY <1>1, <1>2, Known DEF ApplyDownload, Shapes, OpTypes, Operations, Notes, UploadNotes,
     NotesIn, Moved, Stale, Outrun, Gone, Torn
<1>6. DownloadNotes'
  BY <1>1, <1>2, Known DEF ApplyDownload, Shapes, OpTypes, Operations, Notes, DownloadNotes,
     NotesIn, Stale, Outrun, Gone, Torn
<1>7. RollBackNotes'
  BY <1>1, <1>2, Known DEF ApplyDownload, Shapes, OpTypes, Operations, Notes, RollBackNotes,
     Stale, Outrun, Gone, Torn
<1> QED
  BY <1>3, <1>4, <1>5, <1>6, <1>7 DEF Notes

\* The mark is cleared only of what is in Drive.
LEMMA SettleDownloadNotes ==
    ASSUME Base, Shapes, Shapes', Notes, SettleDownload
    PROVE  Notes'
<1>1. Coming' <=> Coming
  BY DrainingEffect DEF SettleDownload, Coming, Checked, SettledDirty
<1>2. InDrive' = InDrive
  BY DEF SettleDownload, InDrive, Newest
<1>3. Since'
  BY Known DEF SettleDownload, Checked, SettledDirty, Shapes, OpTypes, Operations, Notes,
     Since
<1>4. Covered'
  <2> SUFFICES ASSUME present, ~Torn, ~state'.dirty \/ Coming
               PROVE  NotesIn'
    BY <1>1 DEF SettleDownload, Covered, Torn
  <2>1. ~Outrun /\ At("download", "settle")
    BY DEF SettleDownload, Checked, Active, Outrun, Gone
  <2>2. state'.dirty = IF op.merged THEN state.dirty ELSE SettledDirty
    BY DEF SettleDownload
  <2>3. \/ NotesIn
        \/ ~Coming /\ state.dirty /\ (op.merged \/ state.generation > op.generation)
    BY <2>1 DEF Notes, DownloadNotes
  <2>4. state.generation > op.generation => state.generation # op.generation
    <3>1. state # None
      BY <2>1 DEF Shapes, Stated
    <3> QED
      BY <3>1, Known
  <2>5. NotesIn
    <3>1. CASE op.merged
      BY <2>2, <2>3, <3>1
    <3>2. CASE ~op.merged
      BY <2>2, <2>3, <2>4, <3>2 DEF SettledDirty
    <3> QED
      BY <3>1, <3>2
  <2> QED
    BY <1>2, <2>5 DEF SettleDownload, NotesIn
<1>5. UploadNotes'
  BY <1>1, <1>2, Known DEF SettleDownload, Checked, SettledDirty, Shapes, OpTypes,
     Operations, Notes, UploadNotes, NotesIn, Moved, Stale, Outrun, Gone, Torn
<1>6. DownloadNotes'
  BY <1>1, <1>2, Known DEF SettleDownload, Checked, SettledDirty, Shapes, OpTypes,
     Operations, Notes, DownloadNotes, NotesIn, Stale, Outrun, Gone, Torn
<1>7. RollBackNotes'
  BY <1>1, <1>2, Known DEF SettleDownload, Checked, SettledDirty, Shapes, OpTypes,
     Operations, Notes, RollBackNotes, Stale, Outrun, Gone, Torn
<1> QED
  BY <1>3, <1>4, <1>5, <1>6, <1>7 DEF Notes

\* The catalog is no part of this.
LEMMA FinishDownloadNotes ==
    ASSUME Base, Shapes, Shapes', Notes, FinishDownload
    PROVE  Notes'
<1>1. Coming' <=> Coming
  BY DrainingEffect DEF FinishDownload, Coming
<1>2. InDrive' = InDrive
  BY DEF FinishDownload, InDrive, Newest
<1>3. Since'
  BY Known DEF FinishDownload, End, Idle, Notes, Since
<1>4. Covered'
  BY <1>1, <1>2, Known DEF FinishDownload, End, Idle, Notes, Covered, NotesIn, Undoing,
     Overtaken, Stale, Outrun, Gone, Torn
<1>5. UploadNotes'
  BY <1>1, <1>2, Known DEF FinishDownload, End, Idle, Notes, UploadNotes, NotesIn, Moved,
     Stale, Outrun, Gone, Torn
<1>6. DownloadNotes'
  BY <1>1, <1>2, Known DEF FinishDownload, End, Idle, Notes, DownloadNotes, NotesIn, Stale,
     Outrun, Gone, Torn
<1>7. RollBackNotes'
  BY <1>1, <1>2, Known DEF FinishDownload, End, Idle, Notes, RollBackNotes, Stale, Outrun,
     Gone, Torn
<1> QED
  BY <1>3, <1>4, <1>5, <1>6, <1>7 DEF Notes

\* What is put back was marked, or in Drive.
LEMMA RollBackDownloadNotes ==
    ASSUME Base, Shapes, Shapes', Notes, RollBackDownload
    PROVE  Notes'
<1>1. Coming' <=> Coming
  BY DrainingEffect DEF RollBackDownload, Coming
<1>2. InDrive' = InDrive
  BY DEF RollBackDownload, InDrive, Newest
<1>3. Since'
  BY Known DEF RollBackDownload, End, Idle, Notes, Since
<1>4. Covered'
  BY <1>1, <1>2, Known DEF RollBackDownload, End, Idle, Notes, Covered, NotesIn, Undoing,
     Overtaken, Stale, Outrun, Gone, Torn, RollBackNotes, Active
<1>5. UploadNotes'
  BY <1>1, <1>2, Known DEF RollBackDownload, End, Idle, Notes, UploadNotes, NotesIn, Moved,
     Stale, Outrun, Gone, Torn
<1>6. DownloadNotes'
  BY <1>1, <1>2, Known DEF RollBackDownload, End, Idle, Notes, DownloadNotes, NotesIn,
     Stale, Outrun, Gone, Torn
<1>7. RollBackNotes'
  BY <1>1, <1>2, Known DEF RollBackDownload, End, Idle, Notes, RollBackNotes, Stale, Outrun,
     Gone, Torn
<1> QED
  BY <1>3, <1>4, <1>5, <1>6, <1>7 DEF Notes

\* A copy that is discarded is not settled.
LEMMA DiscardDownloadNotes ==
    ASSUME Base, Shapes, Shapes', Notes, DiscardDownload
    PROVE  Notes'
<1>1. Coming' <=> Coming
  BY DrainingEffect DEF DiscardDownload, Coming, Checked
<1>2. InDrive' = InDrive
  BY DEF DiscardDownload, InDrive, Newest
<1>3. Since'
  BY Known DEF DiscardDownload, Checked, Shapes, OpTypes, Operations, Notes, Since
<1>4. Covered'
  BY <1>1, <1>2, Known DEF DiscardDownload, Checked, Shapes, OpTypes, Operations, Notes,
     Covered, NotesIn, Undoing, Overtaken, Stale, Outrun, Gone, Torn
<1>5. UploadNotes'
  BY <1>1, <1>2, Known DEF DiscardDownload, Checked, Shapes, OpTypes, Operations, Notes,
     UploadNotes, NotesIn, Moved, Stale, Outrun, Gone, Torn
<1>6. DownloadNotes'
  BY <1>1, <1>2, Known DEF DiscardDownload, Checked, Shapes, OpTypes, Operations, Notes,
     DownloadNotes, NotesIn, Stale, Outrun, Gone, Torn
<1>7. RollBackNotes'
  BY <1>1, <1>2, Known DEF DiscardDownload, Checked, Shapes, OpTypes, Operations, Notes,
     RollBackNotes, Stale, Outrun, Gone, Torn
<1> QED
  BY <1>3, <1>4, <1>5, <1>6, <1>7 DEF Notes

\* There are no notes left.
LEMMA EnsureAbsentNotes ==
    ASSUME Base, Shapes, Shapes', Notes, EnsureAbsent
    PROVE  Notes'
<1>1. Coming' <=> Coming
  BY DrainingEffect DEF EnsureAbsent, Coming
<1>2. InDrive' = InDrive
  BY DEF EnsureAbsent, InDrive, Newest
<1>3. Since'
  BY Known DEF EnsureAbsent, End, Idle, Notes, Since
<1>4. Covered'
  BY <1>1, <1>2, Known DEF EnsureAbsent, End, Idle, Notes, Covered, NotesIn, Undoing,
     Overtaken, Stale, Outrun, Gone, Torn
<1>5. UploadNotes'
  BY <1>1, <1>2, Known DEF EnsureAbsent, End, Idle, Notes, UploadNotes, NotesIn, Moved,
     Stale, Outrun, Gone, Torn
<1>6. DownloadNotes'
  BY <1>1, <1>2, Known DEF EnsureAbsent, End, Idle, Notes, DownloadNotes, NotesIn, Stale,
     Outrun, Gone, Torn
<1>7. RollBackNotes'
  BY <1>1, <1>2, Known DEF EnsureAbsent, End, Idle, Notes, RollBackNotes, Stale, Outrun,
     Gone, Torn
<1> QED
  BY <1>3, <1>4, <1>5, <1>6, <1>7 DEF Notes

\* A scan clears no mark of a paper that is here.
LEMMA ReconcileLocalStateNotes ==
    ASSUME Base, Shapes, Shapes', Notes, ReconcileLocalState
    PROVE  Notes'
<1>1. Coming' <=> Coming
  BY DrainingEffect DEF ReconcileLocalState, Coming
<1>2. InDrive' = InDrive
  BY DEF ReconcileLocalState, InDrive, Newest
<1>3. Since'
  BY Known DEF ReconcileLocalState, Shapes, OpTypes, Operations, Notes, Since
<1>4. Covered'
  <2> SUFFICES ASSUME present, ~Gone, ~Torn PROVE Covered'
    BY DEF ReconcileLocalState, Covered, Gone, Torn
  <2>1. /\ op.kind = "scan" /\ op'.kind = "scan"
        /\ UNCHANGED <<present, notes, origin, removal, exposed, excused>>
    BY DEF ReconcileLocalState, Shapes, OpTypes, Operations
  <2>2. state # None /\ state \in PaperState
    BY Known DEF Shapes, Stated
  <2>3. state'.dirty = state.dirty
    BY <2>2 DEF ReconcileLocalState, PaperState
  <2>4. ~Undoing /\ ~Overtaken /\ ~Overtaken' /\ (NotesIn' <=> NotesIn)
    BY <1>2, <2>1 DEF Undoing, Overtaken, NotesIn
  <2> QED
    BY <1>1, <2>1, <2>2, <2>3, <2>4 DEF Notes, Covered
<1>5. UploadNotes'
  BY <1>1, <1>2, Known DEF ReconcileLocalState, Shapes, OpTypes, Operations, Notes,
     UploadNotes, NotesIn, Moved, Stale, Outrun, Gone, Torn
<1>6. DownloadNotes'
  BY <1>1, <1>2, Known DEF ReconcileLocalState, Shapes, OpTypes, Operations, Notes,
     DownloadNotes, NotesIn, Stale, Outrun, Gone, Torn
<1>7. RollBackNotes'
  BY <1>1, <1>2, Known DEF ReconcileLocalState, Shapes, OpTypes, Operations, Notes,
     RollBackNotes, Stale, Outrun, Gone, Torn
<1> QED
  BY <1>3, <1>4, <1>5, <1>6, <1>7 DEF Notes

\* Reading the head clears no mark.
LEMMA ReadDriveNotes ==
    ASSUME Base, Shapes, Shapes', Notes, ReadDrive
    PROVE  Notes'
<1>1. Coming' <=> Coming
  BY DrainingEffect DEF ReadDrive, Coming
<1>2. InDrive' = InDrive
  BY DEF ReadDrive, InDrive, Newest
<1>3. Since'
  BY Known DEF ReadDrive, Shapes, OpTypes, Operations, Notes, Since
<1>4. Covered'
  BY <1>1, <1>2, Known DEF ReadDrive, Shapes, OpTypes, Operations, Notes, Covered, NotesIn,
     Undoing, Overtaken, Stale, Outrun, Gone, Torn
<1>5. UploadNotes'
  BY <1>1, <1>2, Known DEF ReadDrive, Shapes, OpTypes, Operations, Notes, UploadNotes,
     NotesIn, Moved, Stale, Outrun, Gone, Torn
<1>6. DownloadNotes'
  BY <1>1, <1>2, Known DEF ReadDrive, Shapes, OpTypes, Operations, Notes, DownloadNotes,
     NotesIn, Stale, Outrun, Gone, Torn
<1>7. RollBackNotes'
  BY <1>1, <1>2, Known DEF ReadDrive, Shapes, OpTypes, Operations, Notes, RollBackNotes,
     Stale, Outrun, Gone, Torn
<1> QED
  BY <1>3, <1>4, <1>5, <1>6, <1>7 DEF Notes

\* A scan clears no mark.
LEMMA ApplyDiscoveryNotes ==
    ASSUME Base, Shapes, Shapes', Notes, ApplyDiscovery
    PROVE  Notes'
<1>1. Coming' <=> Coming
  BY DrainingEffect DEF ApplyDiscovery, Coming
<1>2. InDrive' = InDrive
  BY DEF ApplyDiscovery, InDrive, Newest
<1>3. Since'
  BY Known DEF ApplyDiscovery, End, Idle, Notes, Since
<1>4. Covered'
  <2> SUFFICES ASSUME present, ~Gone, ~Torn PROVE Covered'
    BY DEF ApplyDiscovery, Covered, Gone, Torn
  <2>1. op.kind = "scan" /\ UNCHANGED <<present, notes, origin, removal, exposed>>
    BY DEF ApplyDiscovery
  <2>2. state # None /\ state \in PaperState
    BY Known DEF Shapes, Stated
  <2>3. state'.dirty = state.dirty
    <3>1. state' = state \/ state' = [state EXCEPT !.avail = "local-and-cloud", !.known = op.head]
      BY <2>2 DEF ApplyDiscovery
    <3> QED
      BY <2>2, <3>1 DEF PaperState
  <2>4. ~Undoing /\ ~Overtaken /\ (NotesIn' <=> NotesIn)
    BY <1>2, <2>1 DEF Undoing, Overtaken, NotesIn
  <2> QED
    BY <1>1, <2>1, <2>2, <2>3, <2>4 DEF Notes, Covered
<1>5. UploadNotes'
  BY <1>1, <1>2, Known DEF ApplyDiscovery, End, Idle, Notes, UploadNotes, NotesIn, Moved,
     Stale, Outrun, Gone, Torn
<1>6. DownloadNotes'
  BY <1>1, <1>2, Known DEF ApplyDiscovery, End, Idle, Notes, DownloadNotes, NotesIn, Stale,
     Outrun, Gone, Torn
<1>7. RollBackNotes'
  BY <1>1, <1>2, Known DEF ApplyDiscovery, End, Idle, Notes, RollBackNotes, Stale, Outrun,
     Gone, Torn
<1> QED
  BY <1>3, <1>4, <1>5, <1>6, <1>7 DEF Notes

\* The reconciliation clears the mark of a paper all of whose notes are in Drive.
LEMMA ApplyRemovalDiscoveryNotes ==
    ASSUME Base, Shapes, Shapes', Notes, ApplyRemovalDiscovery
    PROVE  Notes'
<1>1. Coming' <=> pending
  BY DrainingEffect DEF ApplyRemovalDiscovery, Coming
<1>2. InDrive' = InDrive
  BY DEF ApplyRemovalDiscovery, InDrive, Newest
<1>3. Since'
  BY Known DEF ApplyRemovalDiscovery, End, Idle, Notes, Since
<1>4. Covered'
  <2> SUFFICES ASSUME present, ~Gone, ~Torn PROVE Covered'
    BY DEF ApplyRemovalDiscovery, Covered, Gone, Torn
  <2>1. op.kind = "reconcile" /\ UNCHANGED <<present, notes, removal, exposed>>
    BY DEF ApplyRemovalDiscovery
  <2>2. Coming
    BY DrainingEffect DEF ApplyRemovalDiscovery, Coming
  <2>3. ~Undoing /\ ~Overtaken
    BY <2>1 DEF Undoing, Overtaken
  <2>4. NotesIn
    BY <2>2, <2>3 DEF Notes, Covered
  <2> QED
    BY <1>2, <2>1, <2>4 DEF Covered, NotesIn
<1>5. UploadNotes'
  BY <1>1, <1>2, Known DEF ApplyRemovalDiscovery, End, Idle, Notes, UploadNotes, NotesIn,
     Moved, Stale, Outrun, Gone, Torn
<1>6. DownloadNotes'
  BY <1>1, <1>2, Known DEF ApplyRemovalDiscovery, End, Idle, Notes, DownloadNotes, NotesIn,
     Stale, Outrun, Gone, Torn
<1>7. RollBackNotes'
  BY <1>1, <1>2, Known DEF ApplyRemovalDiscovery, End, Idle, Notes, RollBackNotes, Stale,
     Outrun, Gone, Torn
<1> QED
  BY <1>3, <1>4, <1>5, <1>6, <1>7 DEF Notes

\* No note is written at the beginning.
LEMMA InitNotes == Init => Notes
<1> SUFFICES ASSUME Init PROVE Notes
  OBVIOUS
<1>1. Idle.kind = "scan" /\ Idle.since = 0
  BY DEF Idle
<1> QED
  BY <1>1 DEF Init, Notes, Since, Covered, UploadNotes, DownloadNotes, RollBackNotes

\* Nothing changes.
LEMMA StutterNotes == Notes /\ UNCHANGED vars => Notes'
BY DEF vars, Notes, Since, Covered, UploadNotes, DownloadNotes, RollBackNotes, NotesIn, Moved,
   Overtaken, Undoing, Outrun, Stale, Gone, Torn, Coming, Draining, Queued, InDrive, Newest

\* Every step keeps the notes of a clean paper in Drive.
LEMMA NotesStep ==
    ASSUME Base, Shapes, Shapes', Notes, [Next]_vars
    PROVE  Notes'
<1>1. CASE Removal
  BY <1>1, StartRemovalNotes, DeleteCopyNotes, AbortRemovalNotes, CommitRemovalNotes,
     FinishRemovalNotes DEF Removal
<1>2. CASE Operation
  BY <1>2, BeginNotes, EndIfStaleNotes, FailNotes, CheckUploadNotes, ReadPackageNotes,
     PublishNotes, SettleUploadNotes, CheckDownloadNotes, FetchNotes, RefreshNotes,
     MergeDownloadNotes, ApplyDownloadNotes, SettleDownloadNotes, FinishDownloadNotes,
     RollBackDownloadNotes, DiscardDownloadNotes, EnsureAbsentNotes, ReconcileLocalStateNotes,
     ReadDriveNotes, ApplyDiscoveryNotes, ApplyRemovalDiscoveryNotes DEF Operation
<1>3. CASE Open \/ Edit \/ OtherDevicePublishes \/ RequestUpload \/ RequestDownload
           \/ RequestScan \/ Drain
  BY <1>3, OpenNotes, EditNotes, OtherDevicePublishesNotes, RequestUploadNotes,
     RequestDownloadNotes, RequestScanNotes, DrainNotes
<1>4. CASE UNCHANGED vars
  BY <1>4, StutterNotes
<1> QED
  BY <1>1, <1>2, <1>3, <1>4 DEF Next

\* A paper that is here and not marked has no note that Drive lacks, but for those written
\* where the code is known not to keep their mark (settleCapturedDirtyGeneration).
THEOREM CleanStaysInDrive == Spec => []CleanIsInDrive
<1>1. Init => Notes
  BY InitNotes
<1>2. Base /\ Shapes /\ Shapes' /\ Notes /\ [Next]_vars => Notes'
  BY NotesStep
<1>3. Notes => CleanIsInDrive
  BY DEF Notes, Covered, NotesIn, CleanIsInDrive, Gone, Torn, Active
<1> QED
  BY <1>1, <1>2, <1>3, BaseHolds, ShapesHold, PTL DEF Spec

================================================================================
