# 39Note: specifications of Google Drive synchronisation

39Note is a reader and note taker that runs in the browser. Papers, notes and
drafts live in IndexedDB; Google Drive is the only server state, and a small
OAuth broker (a Cloudflare worker) keeps refresh tokens. There is no backend
that could lock or order anything: every device of an account reads and writes
plain Drive files, and the correctness of synchronisation rests on immutable,
content-addressed generations, on reading back what was written, and on the
order in which a device touches Drive, its memory and IndexedDB. That is what
these modules are about.

## 1. Inventory

| Part | State it keeps | Operations | Hard because |
|---|---|---|---|
| Presence control plane (`paperPresence.ts`, `paperPresenceDriveRepository.ts`) | presence generations in the control folder, one graph per paper | publish present / removed / restored, resolve | no lock between devices; every operation is several Drive requests and may die between any two; a removal has to win over a stale upload |
| Paper package repository (`paperDriveRepository.ts`) | paper folders, manifest generations, roots, layout files | publish, download, discover, remove, restore, rename, migrate | concurrent heads, reconciliation, ancestry |
| Merge (`merge.ts`) | none | `mergeSyncSnapshots`, the fold of several heads | clock ties, deletions against edits, conflicts that must survive |
| Local adapter (`paperLocalAdapter.ts`) | IndexedDB records of a paper | package, apply a download, roll it back | the user edits meanwhile; a page may close half way |
| Coordinator (`paperCoordinator.ts`): transfers | `PaperSyncState` per paper, dirty generations | mark dirty, upload, download, keep local, remove, restore | edits during every await |
| Coordinator: Drive ownership | tail of promises, epochs, suspension count | begin, end, cancel, suspend and drain, resume, destroy | rejected waiters, two sessions closing at once |
| Coordinator: discovery | catalog (memory and IndexedDB), change cursor | scan, full audit, scoped reads | Drive changes between reads; catalog and cursor must stay in step |
| Coordinator: local removal | local-removal epochs, pending reconciliations | start, commit or abort a removal, reconcile it | owns no Drive operation; every transfer and scan it meets has to notice |
| Coordinator: accounts, roots | device profile | connect, disconnect, bind another account, choose a root | baselines of one account used with another |
| Layout migration | checkpoint record, published generations | upgrade to layouts 2 and 3 | resumes after a crash anywhere |
| Drive client (`driveClient.ts`) | token, telemetry | requests, retries, change feed | lost answers, authorization races |
| Google identity, OAuth broker (`googleIdentity.ts`, `sync-worker/`) | states, grants, sessions, users in D1 | authorize, exchange, refresh, disconnect | one-time records, non-atomic statements |
| Temporary sessions (`temporaryWorkspace.ts`, `temporaryDeviceSession.ts`) | registry, marker of the tab, provenance, databases of its own | begin, connect, finish, leave | failure or the end of the page between the steps of a clean-up; edits while it runs |
| Legacy sync, library backup, productivity and annotation persistence | older formats, IndexedDB | import, export, debounced writes | partial failure |
| Assistant, dictionary, documents, conversion, print, UI, assets | mostly none | presentation and data transformation | sequential; outside this project |

How they interact: the viewers write IndexedDB and raise a *persistent change*
event; the coordinator marks the paper dirty and later takes ownership of Drive
(one operation at a time), asks the local adapter for a package, and hands it to
the repository, which authorises it against the presence graph, reconciles it
with the heads in Drive, publishes a manifest generation and, for a first
upload or a restore, the presence generation last. Scans read the change feed,
re-read the papers it names, store the catalog and then the cursor. Removing a
local copy is the one change of the catalog that does *not* take ownership.

What makes each part correct is listed as properties in section 3; everything
the code is exposed to, at its line, is under `hazards` in `PROJECT.json`.

## 2. Modules

    PresenceAuthority          what the control plane promises (abstract)
    PaperPresence              the control plane, step by step; implements it
      MCPaperPresence            TLC instance
      PaperPresence_proofs       invariants and refinement, proved
    SnapshotMerge              merge.ts and foldLoadedHeads as operators
      SnapshotMerge_proofs       the algebra of the merge and the fold, proved
      PaperSync                  devices that edit, upload, download, keep local
        SnapshotFold               the heads in Drive, and what folding them gives
          MCPaperSync                TLC instance
          PaperSync_proofs           publications, folds and kept edits, proved
    OperationOwner             who may work on Drive
      TemporarySession           a temporary workspace, finished while operations run
        TemporarySession_proofs    types and safety of both, proved
        MCOperationOwner           TLC instance of both
    DiscoveryCatalog           catalog, change cursor, scans, local removals
      MCDiscoveryCatalog         TLC instance
      DiscoveryCatalog_proofs    safety, proved
    LocalRemoval               a paper removed from the device while transfers run
      MCLocalRemoval             TLC instance
      LocalRemoval_proofs        safety, proved
    AccountBinding             accounts, folders and sessions of a browser
      MCAccountBinding           TLC instance
      AccountBinding_proofs      types, sessions, cursor, notes and folders, proved
    LayoutMigration            the upgrade of a library from layout 2 to layout 3
      MCLayoutMigration          TLC instance
      LayoutMigration_proofs     safety, proved

`PROJECT.json` maps every definition to the lines it stands for.

### PresenceAuthority, PaperPresence
`store` is the control folder: presence generations by id, each with its state,
intent, folder and parents. `folders` are the physical paper folders (active,
trashed, purged), `packaged` those with a manifest, `op` what each device is
doing. One action is the code between two Drive requests that another device
could notice: `BeginUpload`, `EnsureFolder`, ... `Precheck`, `WriteGeneration`,
`VerifyGeneration`. `Fail(d)` is a failed request, a refused guard, a closed tab
or a lost answer, before and after every step. `PresenceAuthority` sees only
`status`, removals still open and removals settled: a paper never comes back
except through a restore that names every open removal.

### SnapshotMerge, SnapshotFold
`MergeSnapshots`, `Conflicts`, `FoldHeads` are `mergeSyncSnapshots`, its
conflict list, and `foldLoadedHeads`, on versions (value, clock, writer) and
tombstones. `SnapshotFold` states the reference properties of the fold, of the
heads in the Drive of `PaperSync`: those its devices leave there, and, in
behaviours of their own, up to three of any content `assertPaperSnapshot` accepts
(`PublishHead`).

### PaperSync
(`MCPaperSync` starts where both devices have the paper; or there too, with one of
them that may close its page or fail to store what it downloads; or before the first
import, where "keep local" may be used; or with an empty folder in which heads pile up.)
`gens` are the manifest generations of one present paper; `local`, `unmarked`,
`sync` and `op` are IndexedDB, an event not yet handled, the `PaperSyncState`
and the running operation of each device; `edits` and `exposed` are history.
Uploads are `BeginUpload`, `Publish`, `VerifyPublication`,
`ApplyPublishResult` (and `SettleNoOp`); downloads are `Download`,
`ApplyDownload`, `SettleDownload`, or the two rollbacks; edits, deletions,
failures and closing the page interleave with all of them. Adjacent steps of one
device that no other actor can tell apart are one action.

### OperationOwner
The promise chain of `SerializedDriveOperationOwner` is the set `ahead` of
those a waiting operation waits for; an epoch is only ever compared with the
current one, so `stale` holds the operations of earlier ones.
`Suspend`/`BecomeQuiet`/`Resume` are `withDriveOperationsQuiesced`.

### TemporarySession
Composed with `OperationOwner`: `FinishChecks`, `FinishDrained` and the end of a
finish are `Suspend`, `BecomeQuiet` and `Resume` of the closer `Finish`, and the
upload is one of its operations. `marker` (sessionStorage) and `registered` say
that the workspace exists, `provenance` that it belongs to an account, `stored`
which of its databases hold something; `token` and `live` are the session, for
the tab and for the broker; `way` and `step` how far a change of workspace is.
`Register`, `Mark` begin one; `Connect` and `Reload` open the page; `FinishUploads`
to `ClearProvenance`, then `CloseDatabases`, `DeleteDatabase` (three times),
`Unregister`, `Unmark` finish it, and `Leave` goes straight to `CloseDatabases`.
`FinishRefused`, `FinishNotRevoked`, `CleanupFails`, `LeaveFails` are the failures,
`Reload` the page that goes at any step. Through all of it `Edit` and `Save` are
the editors: a write goes to the databases the marker names at that moment, and
opens them again if they were closed.

Things the model shows and no property rules out, because nothing in the
repository says otherwise:
* Closed between the end of the provenance and that of the databases, the page
  leaves a workspace that Finish refuses for its lack of provenance and leaving
  refuses for its contents, until it is connected once more. One that was never
  connected, and has papers, is in the same position.
* After an answer to the revocation is lost, or the session has expired, every
  Finish of that page fails on the broker's refusal; connecting again helps, and,
  for an expired session, loading the page.
* A write after the databases were closed opens one again: `deleteDB` then waits for
  it, and with it Finish and all operations, until the page is loaded again; one
  after the deletion leaves a new database that nothing names any more.
* A write after the marker is gone goes to the personal databases.
* Of a registry entry deleted and a marker that is still there nothing can be
  verified any more, and the tab keeps the workspace until it is closed.
* Leaving waits for nothing: what is written between its look at the
  databases and their deletion is lost.

### DiscoveryCatalog
`drive` and `log` are Drive and its change feed; `cursor`, `catalog`, `view`,
`writes` are the cursor of the profile, the stored catalog, the one in memory
and the writes IndexedDB has not finished; `op` is the operation that owns
Drive. An incremental scan or a baseline (full audit) reads papers one by one
(`ReadPaper`), so that other devices change them in between; `Replay` is the
second reading of the change feed. `Apply`, `WriteEnds`, `Settle`, `Commit`
are `applyDiscovery` before and after its writes, and the cursor.
`StartRemoval`, `CommitRemoval`, `StartReconcile`, ... are the removal of local
copies, as far as it changes the catalog, and run beside all this. `regime`,
chosen at the start, says which papers may be removed and whether the page may
be opened again.

### LocalRemoval
One paper of one device. `present` and `notes` are IndexedDB, `state` its
`PaperSyncState`, `heads` the generations in Drive, `listed` what the catalog
lists; `removal` is how far `forgetDocument` is, `epoch` and `committed` the two
maps of local-removal epochs, `pending` and `drained` the reconciliation they
ask for. `queue` holds the operations in the order in which they asked for
Drive, `op` is the one at its head, with what it captured (the epoch, the dirty
generation) and read. The removal (`StartRemoval`, `DeleteCopy`, `CommitRemoval`,
`FinishRemoval` or `AbortRemoval`) interleaves with every step of an upload
(`CheckUpload` ... `SettleUpload`), a download (`CheckDownload`, `Fetch`,
`Refresh`, `MergeDownload`, `ApplyDownload`, `SettleDownload`, `FinishDownload`,
or `RollBackDownload`, or `DiscardDownload` and `EnsureAbsent`), a scan and the
reconciliation of an earlier removal. `Checked` is `waitForActiveLocalRemovals`,
`Stale` the comparison of epochs after it.

Four things the model shows that no property rules out, because nothing in the
repository says otherwise: `ensurePaperAbsent` of a transfer that finds itself
stale also deletes a copy the user opened again meanwhile; the reconciliation of
a removal clears the mark of a paper opened again before it ran; a download
captures the epoch only once it owns Drive, so one asked for before a removal
brings the paper back after it; and the reconciliation of a paper that was never
uploaded does not find it in Drive and reports an issue. `torn` and `exposed`
name the states these leave.

### AccountBinding
`user`, `sessions`, `refreshing` and `exchange` are the broker's tables and the
requests it is working on; `roots` and `drive` the managed folders and the paper
in each; `disk` (profile, state of the paper, catalog) and `local` (its notes)
are IndexedDB; `page` is what the coordinator of an open page holds beside them.
`Connect` leaves the page; the next `Load` finds the grant (`arriving`), and
`CheckGrant`, `CreateSession`, `ReceiveSession` or `LoseSession` are its exchange.
Binding the account is `BindSame`, or `SeverStates` and `ClearCatalog`, then
`BindProfile`; a write that is refused is `BindFails`, and `ClosePage` may come
between any two. `EnsureRepository`, `ChooseRoot` and `CreateReplacementRoot` are
the folder, `Edit` to `CommitFails` what is then done with the paper. `ended`
remembers the sessions there were when an account was disconnected everywhere.

`excused` names what no code path makes up for, and where two of the properties
therefore promise less:
* "torn": `bindAuthorizedAccount` saves the severed states, empties the catalog
  and saves the profile in this order, in separate writes. Closed after the
  second, or with the paper removed between the first and the second, the old
  account's cursor is left beside an empty catalog, or its paper in the state.
* "forgotten": `disconnectAll` forgets the account but keeps the states; the
  account bound next is the first one as far as the profile knows, so nothing is
  severed, and papers count as synced until a scan finds them missing.
* "rerooted": another folder of the same account is taken with the states of
  the papers of the folder before.

Further things the model shows and no property rules out: a paper that is
cloud-only becomes local-only and dirty when another account is bound, and its
upload fails for there is nothing here; a browser whose session was ended
elsewhere cannot be disconnected, because the broker refuses the request, and
keeps its token; the session of the old account stays active at the broker when
another account is bound; and a session created of a grant that was checked just
before every browser was disconnected is accepted once the account is
authorized again (it is created after the end, so it is not among those
`DisconnectedStaysDisconnected` speaks of).

### LayoutMigration
`root`, `package`, `controls`, `descriptors`, `presence` and `completions` are
what Drive holds; `record` is the checkpoint in IndexedDB and `op` the upgrade a
device runs. The actions follow `upgradeDriveSyncToV3Owned` from one Drive
request or checkpoint to the next: `Begin`, `Prepare`, `FindControl`, ...
`Checkpoint`, then `ReadSeed`, `WriteSeed`, `VerifySeed`, `SaveSeed` for each
paper, `SaveActivating`, and `Inspect`, `WriteCompletion`, `Bind`, `Activate`,
`Finish`. `Refuse` is an exception the code raises on its own account, `Fail`
everything else that ends an upgrade: a failed request, an answer that was lost,
a closed page. Another device may go on where the first stopped, with or
without a checkpoint of its own, and nothing stops two at once.
`OldBuildPublishes` is a build that knows layout 2 only, `OrdinarySync` what
devices do once the root is active. A paper's presence is reduced to its roots,
its state and whether anything followed the baseline: `resolvePaperPresence`
refuses more than one root.

The manual asks the user to close every other device first
(`docs/google-drive-sync.md`, "Controlled layout upgrades"). The model does not
assume that; `overlapped` and `missed` record when it was not so, and the
properties say what is lost then. Two things the model shows and no property
rules out: a device that activated the root and was interrupted before it
cleared its checkpoint can sync, but its upgrade is refused when it is tried
again after a paper was removed or added (the evidence is compared with the
presence of the whole library once more), so the checkpoint stays; and of two
devices that upgrade at once one can spoil a paper the other has
verified, after which no scan succeeds.

## 3. Runs

Every run bounds only the number of actors and of changes; each finishes in
minutes.

| Run | Question | Result |
|---|---|---|
| `presence` | two devices, two folders, four generations: can any interleaving of uploads, removals, restores and failures bring a removed paper back unasked, publish "present" before its package, or write a graph readers refuse? | no; the control plane implements `PresenceAuthority` |
| `sync` | do two devices with different clocks that edit, delete, upload and download, or one of which may crash, or that keep a local version from the first import on, ever lose an edit, a fork's second text, a conflict, or go back? Is the fold of heads independent of who folds and in which order, publishable and complete, of theirs and of any three? | no, outside the windows named in `exposed`; yes while no head deletes the paper |
| `sync_reconciled` | does a value another device replaced stay replaced? | **violated**: merged values are never applied to IndexedDB |
| `sync_deleted_and_edited` | can a note deleted here and edited later there be uploaded? | **violated**: refused for good |
| `owner` | one owner, cancel reaches it, nobody left when an account is taken away; everybody waiting gets an answer, every closing session ends? Of a temporary workspace, is anything erased before its session is revoked, or unasked though it was known not to be uploaded, or forgotten; can a failed clean-up be tried again? | holds, but for the page closed in the middle named above |
| `finish_drops_edit` | does Finish ask before it erases work that is not uploaded? ("Finish refuses silent abandonment of remaining dirty work") | **violated**: what is written after the check is erased |
| `discovery` | is the catalog, in memory and stored, up to date with the cursor whatever changes while it is read, fails, or is reloaded; in memory also when local copies are removed during scans? is a known paper forgotten only after a removal? | yes; yes |
| `discovery_stale_catalog` | the same with the page opened again | **violated**: the older catalog of a local removal is stored last |
| `local_removal` | is a paper removed while transfers, scans and other devices are at work gone for good, nothing of its absence uploaded, no note lost, the catalog right in the end, and does every operation end? | yes, but for refused transactions and the copies opened again named above |
| `removal_reimport` | does removing a paper from this device leave its notes in Drive? ("separate from Remove from Google Drive") | **violated**: the same file opened again is uploaded with a deletion of each note |
| `accounts` | does a browser that goes from one account or folder to another, with closed pages and refused writes in between, ever take a note for synced that its folder has not got, list a paper of another folder, pass a change it does not show, or is a session that was ended accepted? | no, but for the cases `excused` names |
| `migration` | does the upgrade to layout 3 activate the presence the packages have, only once, and can it be tried again after any interruption? | yes, with the exceptions for two devices at once and older builds the properties name |

What the violated runs show is written under `findings` in `PROJECT.json`, with
the line of the repository that says otherwise. `ReplacedValueStaysReplaced` and
`NewerEditCanBePublished` have a shortest counterexample of two devices and
three edits.

### Bounds
* `GenId` of four in `PaperPresence`: a first upload, a removal, and two
  operations racing on top of it (two restores, or a restore and a second
  removal); the proofs have no bound.
* `MaxEdits` 3 and `MaxGens` 4 in `PaperSync`: two edits that fork, a join, and
  one more edit and upload on top of the join; from the first import on, the
  import and one edit, with four generations. `Losing` names the device whose
  page may close or whose storage may fail, in behaviours of their own with one
  publication on top of the first: a download is lost with edits of both devices
  around it. `MaxKeeps` 1 is the number of "keep local" publications. `Skew` gives the
  second device a clock ahead of the first. The proofs have none of these bounds.
* `MaxHeads` 3 in `SnapshotFold`: order only matters from three heads on; two
  clock values and two writers, so that versions and tombstones tie.
* `MaxChanges` 3 and two papers in `DiscoveryCatalog`: a change before a
  scan, one between two reads, one that forces the audit to begin again, one
  after. `Regime` lets papers be removed from the device, or the page be opened
  again, but not both, so that the finding does not hide what holds without either.
* `MaxNotes` 2, `MaxRemovals` 2, `MaxHeads` 2, `MaxRequests` 1 in `LocalRemoval`: a
  note here and one from elsewhere, a removal and a second one that starts while
  the first is reconciled, a head that changes once under a download, and one
  download or scan beside any number of uploads; of removals, notes and requests
  together four (`FewEvents`), all of each but one; the proofs have no bound.
* `MaxChanges` 2 in `LayoutMigration`: one change by an older build before the
  last look and one after, or two syncs after the activation; two papers, so that
  one is seeded and the other not; two control folders, of which a second makes
  the library ambiguous. Papers and control folders are interchangeable.
  `OneDisturbance` leaves out states in which two devices have upgraded at once
  *and* others changed the library, of which no property says anything.
* `MaxNotes` 2, `MaxSessions` 2, `MaxElsewhere` 1 in `AccountBinding`: two
  accounts, one with two folders, the other with one; a note written here and one
  elsewhere, an account bound and another one after it, and one thing others do
  (authorize, disconnect, make or trash a folder, or a refresh that is on its way).
  The constraint `FewExcuses` stops once both notes are written and something is
  excused, of which the properties say little; the proofs have no bound.
* `OperationOwner`: four operations, two of them retained commands, two closers.
  `Busy` names the two that run beside a temporary workspace, of which one edit
  at a time is unwritten; workspaces follow each other without bound.

`CHECK_DEADLOCK FALSE` is set where a bound uses up what there is to do (edits,
generations, changes, ids, heads). In `OperationOwner` a page that is closed and drained
has only operations left that start and are rejected, so deadlock is checked.

### Fairness
`OperationOwner` and `LocalRemoval` have liveness. `WF(Progress(t))` says that a promise that
can resolve does and that an operation that owns Drive ends: every caller of
`begin` ends in a `finally` that calls `end`, and requests are bounded by
timeouts and the abort signal. `WF(BecomeQuiet(q))` says that a session whose
drain and commands are over goes on. In `LocalRemoval`, `WF(Removal /\ Active)`
says that an IndexedDB transaction of a removal ends one way or the other,
`WF(Drain)` that a scheduled reconciliation asks for Drive, `WF(Operation)` that
a request of the operation that owns Drive is answered or fails. Nothing makes users, other devices or
failures act.

## 4. Proofs

`PaperPresence_proofs` proves for any devices, folders and generation ids:
types, `OnlyForksBreakResolution`, `PresentHasPackage`,
`OnlyRestoreAnswersRemoval`, `PresentMeansAllAcknowledged`, and that
`PaperPresence` implements `PresenceAuthority`. The inductive invariant `IInv`
adds what an operation carries from its first read to its write: its heads are
stored generations, all present for a removal, one removed for a restore, none
for a first upload; the folder it will name already holds a package; the id it
reserved is nobody else's and unwritten. A fresh id is nobody's parent, which
keeps ancestry acyclic. `AddGeneration` says what writing a generation does to
heads, parents and presence; each action has one step; only
`WriteGeneration` needs more than "nothing it mentions changed".

The first part of `TemporarySession_proofs` proves `OneOwner`, `OwnerWhileClosingIsAborted`,
`QuietMeansNobody` and `ActiveIsAccurate` for any finite sets of operations and
closing sessions. The invariant needs the order of the tail (of two holders one
waits for the other, so only one can be at its head), that `suspensions` counts
the closing sessions, and that whoever holds Drive or a command while a session
drains is among those it waits for.

The rest of it proves the types of `TemporarySession`, `ErasedIsRevoked`,
`FailedCleanupCanBeRetried` and `KnownWorkIsKept` for any operations and closers.
The invariant says which steps belong to which change of workspace (`StepOfWay`);
that a session is one of the tab's workspace and that past its revocation there is
none, which no operation can undo because all of them need one
(`SessionOfWorkspace`); that a workspace with provenance stays registered until its
databases are gone (`BoundIsRegistered`); and that what is not uploaded is in the
databases, and from the check on agreed to or written since (`PendingIsHeld`). All
steps keep it, whatever `OperationOwner` does.

`SnapshotMerge_proofs` is the algebra of the merge, for any versions, clocks and keys.
Versions and deletions are ordered totally, so merging is the newest version and
the latest deletion of each key, and `MergeSymmetric` follows: two devices get the same from
either side. A fold is defined by recursion, which the provers cannot unfold for
all lengths; the lemmas take it as a run (`IsFold`: a sequence of partial results,
each the `JoinHead` of the one before), and prove of a run, by the least length at which
it would fail (the well-foundedness of the naturals in its set form, `WFMin`), that it
holds the newest version and the latest deletion of each key among its heads, that a
value it does not hold is in its conflicts, and that it joins every head.

`PaperSync_proofs` proves `PublishedNeverRegresses`, `ForkKeepsBoth`,
`ParentsArePreserved` and `EditIsKept` for any devices, keys, clocks and numbers of
edits and generations, and `FoldIgnoresOrder`, `FoldIsConsistent` and `FoldLosesNoValue`
both of the heads these devices leave and of any others (`HeadsSpec`). Its first
invariant, `PublicationInv`, has the types; that nothing a device or Drive knows is newer
than an edit made so far (`Knowledge`); and that what an operation is about to publish
joins the heads it read (`Reconciled`). Publication then is a lemma of the merge. The
second, `KeepInv`, follows one edit that is the last of its device to a note:
while nothing in Drive has it, the device owes it (`Owed`: it is marked and held); what
an upload, a download or a rollback carries of it while it runs (`Uploaded`, `Downloaded`,
`Held`, `Arrived`); that an edit made meanwhile has a generation of its own, so that
settling does not take it for the captured one (`Meanwhile`, `Marks`); and that a
baseline is older than the edit or was seen in Drive (`BaselineBefore`), without which a
merge might take the other side silently. `MergeKeepsEdit` is the lemma the steps
rest on: merging the device's package with any heads leaves the edit in the result, or in
a conflict, or finds a deletion, or a newer republication of an older value.

`DiscoveryCatalog_proofs` proves for any papers and any number of changes that
the cursor never passes a change the catalog on the screen does not show while
the page stays open (`ViewStaysCurrent`), and that neither catalog misses one,
with a page that may be opened again at any time, where no local copy is removed
(`CatalogStaysCurrent`; the `regime` of the behaviour); the case left out is the one `discovery_stale_catalog`
violates. The argument: every change of a paper moves it past the end of the
feed, so what was read of it before stays right up to the position it was read
for. The invariant says, for each step of a scan, which papers agree with Drive
up to the cursor and which up to the position the scan will commit: the papers
read last are exactly those that changed after the position of the first
reading (`ChangesAreNamed`), and a paper that could not be verified makes the
scan fail before it commits. `Kept` adds that without local removals at most one
catalog write waits, the one of the operation that owns Drive.
`KnownPaperStays` proves `KnownPaperIsNotForgotten` in the regimes of `ViewStaysCurrent`.
Every list an operation carries follows the one on the screen (`Remembered`): a paper
that is listed as present and is missing or removed in what was read, merged or is
being stored was removed after the position it was listed for. A reading that says
"removed" does so because the paper was seen before (`Seen`: a change of Drive to
"removed" has its entry in the feed), and a reading that says nothing leaves the
entry, whichever of the three retaining operators meets it.

`LocalRemoval_proofs` proves `TypeOK`, `RemovedStaysRemoved`, `AbsentIsNotDirty`,
`DownloadIsFresh`, `RemovalConverges` and `CleanIsInDrive` for any number of notes,
removals, generations and requests. The invariant follows the copy in IndexedDB:
the epoch it belongs to is never older than the last committed removal, unless it
was put there by a download that captured an older epoch and is still to be settled,
which must find itself stale (`Copies`); a state of a paper that is not here is marked
only while a removal is between its deletion and its commit (`Marks`); and the heads
of Drive only grow, so a generation found to be the head after the download began
stays at least as new (`Reads`). The types (`Shapes`) rest on these three: a transfer
that settles has a state to settle (`Stated`) only because the copy it read is here
until a removal makes the transfer stale.

Two more invariants stand on those. `Converging`: no operation reads a head older
than what this device published, since who publishes owns Drive (`ReadsNewest`); a
download that finds itself stale leaves a reconciliation still to come
(`StaleIsComing`), and what it would put back was listed (`PutBackIsListed`); so a
paper that is not here is listed, or a reconciliation will list it, or one could not
(`AbsentIsListed`). `Notes`: what an upload read or published is all that is here, or
the paper was edited since and its generation moved on (`UploadNotes`); what a download
applies is in Drive, or was merged with changes and stays marked (`DownloadNotes`); what
it would put back was marked or in Drive (`RollBackNotes`). The case that makes this
hard is a paper opened again before the reconciliation of its removal, which clears
its mark: `Covered` says that all its notes are then in Drive or were written in that
window. Each action has one lemma for each of these invariants.

`LayoutMigration_proofs` proves `BaselineIsTrue`, `ActivationIsFinal`, `RetryIsSafe`
and `TypeOK` for any devices, papers, control folders and number of changes. The
invariant follows what an upgrade knows: before each step, what it has found out
(`StepOK`); of papers it has read, that a head still current means the package
is unchanged, because head ids are never used twice (`PapersOK`, `SeedsOK`);
from the last look on, that only papers in `late` differ from the seeds
(`WindowOK`); once the completion was verified, that presence says what the seeds
say (`EvidenceOK`). A baseline in an otherwise undisturbed library agrees with
its package whoever wrote it (`GraphOK`), which is what remains when two devices
upgrade at once. `EarlyStep` and `OwnStep` do the common part of the steps;
`NewHead` says that a package that changes spoils nothing that was read.

`RetryIsSafe` speaks of a library nobody else changes, upgraded by one device after
the other (`Quiet`). What an upgrade leaves behind wherever it is cut off is in order
(`Calm`): one control folder, one descriptor, one root in every graph (`OneOfEach`);
every checkpoint, of whichever device, names that folder and the papers as they are,
and its seeds are the roots of their graphs (`Seeded`), so a device that reads a
graph again makes the seed it saved before; what the running device has found stays
so (`Found`); and an active root holds what the checkpoint of the device that
activated it would write again (`Settled`). Each step has a lemma that says it
refuses nothing, except to a device that comes after another one has finished.

`AccountBinding_proofs` proves `TypeOK`, `CatalogCoversCursor` and
`DisconnectedStaysDisconnected` for any accounts, folders, notes and sessions. A
profile is saved from memory and the catalogs are written beside it, so the
invariant has each of the two catalogs cover each of the two cursors
(`Coverings`), except while the catalog of another account has been emptied and
its profile not yet replaced (`Emptied`), when the page itself has no cursor; that
a page works only in the folder its profile names, in memory and as saved
(`Folders`); that a cursor belongs to a bound account and is never ahead of Drive
(`Cursors`), so that a transfer, which lists the paper as it then is, covers it;
and that the catalogs show all there was at the position about to be committed
(`Positions`). Each action has a lemma for its types and one for the cursor;
`Undisturbed`, `StepTaken`, `PageLeft` and `ProfileSaved` do what they share.
`Inactive`, that an ended session is no longer active, is inductive by itself:
sessions are revoked and created, never revived.

The last part of `AccountBinding_proofs` proves `CleanIsInRoot` and `CatalogIsOfRoot`.
Its invariant says three things, where nothing is excused: a profile names the account of its
session, from the exchange of a grant on (`Signing`); all folders the states and
catalogs speak of, here or on the page, are of the account of the profile and are
the profile's folder, once it has one (`FoldersApart`), for which a page that binds
another account must speak of none by the time it saves the profile (`Prepared`);
and a clean paper is in the folder its state names (`NothingToUpload`). A folder
that is taken is of the account that signed in, hence of the profile's, so a state
that speaks of another folder is one of the same account, and excused.

Assumptions of the proofs are the named `ASSUME`s of the modules: `None` is no
device, id, paper, account, folder, paper state, summary or checkpoint, `Later` is
no device, sets of operations are finite, devices and clock offsets are numbers (devices are
compared when clocks tie), and heads of which nothing else is known hold versions and
tombstones.

What is only model-checked: liveness under fairness (`OperationsEnd`, `ClosingEnds`,
`WaitingEnds` and `GivenUpIsErased`), which is out of the prover's reach, and the runs
that expect a violation. Every other property of the passing runs is a theorem.

## 5. Abstractions to know about

* Listing files in Drive is strongly consistent, and several reads awaited
  together are one step. An answer that is lost is a failure after the step.
* Ids that are hashes are fresh values: the hash covers the writer, the time and
  the parents. A generation that already exists under its name is its own.
* Guards on roots, control folders and file metadata only add refusals, which
  `Fail` covers.
* `LocalRemoval`: one paper and one device; other devices only add notes; which
  issue a failure raises, and the merge of versions, are left out; automatic sync
  may ask for an upload at any time.
* `AccountBinding`: one browser and one paper; a transfer and the reading of
  Drive are one step; tokens, challenges, expiry, temporary devices and failures
  of the broker's database are left out, and any request of the page may fail.
* `TemporarySession`: one workspace at a time and one account; what is not uploaded
  is one mark, not one for each paper; the clocks of browser and broker agree on
  when a session expires; a session whose grant was exchanged and whose answer was
  lost is nobody's, since no one has its token; the page goes when no operation
  waits for Drive and no session is being drained, for these leave nothing.
* `PaperSync`: one paper, one note, no tags or collections; the deletion of a
  whole paper is a matter of presence; heads of the package are read in one step.
* `LayoutMigration`: one root; the set of heads of a package is one id; the
  completion is written and compared in one step, since nobody else reads it in
  between; a checkpoint that belongs to another root, which is refused, is left out.
* `DiscoveryCatalog`: a paper is read in one step; a file that disappears is
  known exactly when its paper is listed; a device's own transfers change Drive
  and the feed like those of others; what `paperStates` knows of heads is the
  view's; attention a user has not dismissed is left out.

## 6. Not modelled, and the plan

Done first, because everything else rests on it: presence, merge and transfers,
ownership, discovery, local removal, the upgrade to layout 3, accounts and
folders, temporary workspaces. Next, in this order:

1. `PaperLibrary`: several papers resolved at once (`resolveAll`), two first
   uploads of one paper, as a run on what `docs/google-drive-sync.md` promises.
2. The older upgrade, from the whole-library format to layout 2, beside
   `LayoutMigration`.
3. `SyncConcurrency` and `DriveClient`: bounded maps, gate, single flight;
   retries, refresh of authorization, lost answers.
4. `AuthBroker` (states, grants and their expiry, refresh tokens).
5. Legacy housekeeping, library backup, productivity persistence, dictionary.

Proofs to come are those of the modules above.
