---------------------------- MODULE DiscoveryCatalog ----------------------------
(* What a device knows of the papers in Drive: the catalog it shows and keeps in *)
(* IndexedDB, and the change cursor that says up to where it is current.         *)
(*   paperIncrementalDiscovery.ts  planPaperChangeDiscovery                      *)
(*   paperCoordinator.ts           discoverWithFastPath, runAuthoritativeBaseline,*)
(*                                 applyDiscovery, local-removal reconciliation  *)
(*   paperDriveRepository.ts       discover, discoverPapers                      *)
(* A scan reads the papers one by one while other devices change them. Removing  *)
(* a local copy owns no Drive operation: it writes the catalog during a scan.    *)
(*                                                                               *)
(* A catalog entry is reduced to what was read: the position of the last change  *)
(* of the paper, and whether it was present, removed, or could not be verified.  *)
(* Abstracted: the states of papers (PaperSync), attention kept until the user    *)
(* acts, the age of the cursor (a full audit may be due at any time), requests    *)
(* and validations that fail (OpFails, WriteEnds). A file that disappears is    *)
(* known exactly when its paper is in the catalog.                               *)

EXTENDS Integers, Sequences

CONSTANTS Paper,      \* document ids
          Regime,     \* bound: which local copies may be removed, and whether the page reloads
          MaxChanges, \* bound: changes other devices make in Drive
          None

ASSUME PaperAssumption == None \notin Paper /\ "op" \notin Paper

ASSUME BoundAssumption ==
    Regime \subseteq [removable : SUBSET Paper, reloads : BOOLEAN] /\ MaxChanges \in Nat

VARIABLES drive,     \* each paper in Drive
          log,       \* the change feed
          cursor,    \* driveChangeCursor of the profile, a position of the feed
          catalog,   \* saveCloudPaperCatalog: the catalog in IndexedDB
          view,      \* view.papers: the catalog in memory
          writes,    \* catalog writes IndexedDB has not finished, in order
          op,        \* the operation that owns Drive: a scan or a reconciliation
          local,     \* papers with a local copy
          removing,  \* activeLocalRemovalIds
          reconcile, \* pendingLocalRemovalReconcileIds
          regime     \* one of Regime, the same throughout a behaviour

vars == <<drive, log, cursor, catalog, view, writes, op, local, removing, reconcile, regime>>

driveVars == <<drive, log>>
removalVars == <<local, removing, reconcile>>

Position == 0..MaxChanges

MaxAttempts == 2

\* "failed": it could not be verified, and no head is known.
Entry == [state : {"present", "removed", "failed"}, ver : Position, attention : BOOLEAN]

Catalog == [Paper -> Entry \cup {None}]

ASSUME NoneAssumption == None \notin Position /\ None \notin Entry

Empty == [p \in Paper |-> None]

\* position: of the feed, to replay from or to commit; asked: the papers read; papers:
\* the catalog so far; failed: a paper needs attention and the cursor must stay.
NoOp == [kind |-> "none", step |-> "idle", position |-> 0, todo |-> {}, asked |-> {},
         found |-> Empty, gone |-> {}, papers |-> Empty, attempt |-> 0, failed |-> FALSE]

--------------------------------------------------------------------------------
(* Drive, changed by other devices and by the user in Drive's own pages *)

\* A change of a paper moves it to a new state; "gone" marks files that disappear.
Change(p, kind, state, gone) ==
    /\ Len(log) < MaxChanges
    /\ log' = Append(log, [paper |-> p, kind |-> kind])
    /\ drive' = [drive EXCEPT ![p] = [state |-> state, ver |-> Len(log) + 1, gone |-> gone]]
    /\ UNCHANGED <<cursor, catalog, view, writes, op, removalVars>>

In(p, state) == drive[p].state = state

\* A first upload: folder and manifest, then the presence generation.
CreatePackage(p) == In(p, "absent") /\ Change(p, "file", "partial", FALSE)

PublishPresence(p) == In(p, "partial") /\ Change(p, "file", "present", FALSE)

PublishPaper(p) == In(p, "present") /\ Change(p, "file", "present", FALSE)

PublishRemoval(p) == In(p, "present") /\ Change(p, "removal", "removed", FALSE)

TrashFolder(p) == In(p, "removed") /\ ~drive[p].gone /\ Change(p, "gone", "removed", TRUE)

Restore(p) == In(p, "removed") /\ Change(p, "file", "present", FALSE)

LoseFile(p) == In(p, "present") /\ Change(p, "gone", "broken", TRUE)

RepairFile(p) == In(p, "broken") /\ Change(p, "file", "present", FALSE)

\* Every file of the paper, presence generations included.
LosePaper(p) == drive[p].state \in {"present", "broken"} /\ Change(p, "gone", "absent", TRUE)

\* A file of the root, the layout or the older format.
ChangeStructure ==
    /\ Len(log) < MaxChanges
    /\ log' = Append(log, [paper |-> None, kind |-> "structure"])
    /\ UNCHANGED <<drive, cursor, catalog, view, writes, op, removalVars>>

DriveNext ==
    \/ \E p \in Paper :
           \/ CreatePackage(p) \/ PublishPresence(p) \/ PublishPaper(p)
           \/ PublishRemoval(p) \/ TrashFolder(p) \/ Restore(p)
           \/ LoseFile(p) \/ RepairFile(p) \/ LosePaper(p)
    \/ ChangeStructure

--------------------------------------------------------------------------------
(* The plan and the papers it leads to *)

\* Changes after one position up to another. A file that is back is not "gone".
Changes(from, to) ==
    {c \in {log[i] : i \in from + 1..to} : c.kind = "gone" => drive[c.paper].gone}

FullAudit(changes, known) ==
    \E c \in changes : c.kind = "structure" \/ (c.kind = "gone" /\ c.paper \notin known)

Affected(changes) == {c.paper : c \in {d \in changes : d.kind # "structure"}}

Gone(changes) == {c.paper : c \in {d \in changes : d.kind = "gone"}}

Listed(papers) == {p \in Paper : papers[p] # None}

Attention(entry) == IF entry = None THEN None ELSE [entry EXCEPT !.attention = TRUE]

\* A folder without presence, or a paper some file of which is missing.
Unverified(p) == drive[p].state \in {"partial", "broken"}

Summary(p, state, attention) == [state |-> state, ver |-> drive[p].ver, attention |-> attention]

\* discoverPresenceAware for one paper
Reading(p) ==
    IF In(p, "absent") THEN None
    ELSE IF Unverified(p) THEN Summary(p, "failed", TRUE)
    ELSE Summary(p, drive[p].state, FALSE)

\* applyScopedDiscovery: what was read replaces what was there; what is missing stays.
Merged(base, asked, found) ==
    [p \in Paper |-> IF p \notin asked THEN base[p]
                     ELSE IF found[p] # None THEN found[p] ELSE Attention(base[p])]

\* Mutant: what a full audit does not find is not in the list.
RetainNothing(found) == found

\* retainMissingKnownCloudPapers
RetainMissing(found) ==
    [p \in Paper |-> IF found[p] = None /\ view[p] # None /\ view[p].state = "present"
                     THEN Attention(view[p]) ELSE found[p]]

\* retainRemovedManagedFileFailures
RetainGone(papers, gone) ==
    [p \in Paper |->
        LET current == IF papers[p] # None THEN papers[p] ELSE view[p]
        IN  IF p \in gone /\ current # None /\ current.state # "removed"
            THEN Attention(current) ELSE papers[p]]

\* A removed paper without a local copy is not kept.
Presented(papers) ==
    [p \in Paper |-> IF papers[p] # None /\ papers[p].state = "removed" /\ p \notin local
                     THEN None ELSE papers[p]]

--------------------------------------------------------------------------------
(* Scans *)

Running(kind) == op.kind = kind

At(step) == op.step = step

\* A scan waits until no local removal is under way or waits for its own check.
MayScan == Running("none") /\ removing = {} /\ reconcile = {}

\* discoverPapers for some papers, the feed read up to here
Scoped(scan, changes) ==
    [scan EXCEPT !.step = "read", !.position = Len(log), !.todo = Affected(changes),
                 !.asked = Affected(changes), !.gone = Gone(changes), !.found = Empty]

Baseline(attempt) ==
    [NoOp EXCEPT !.kind = "baseline", !.step = "discover", !.position = Len(log),
                 !.todo = Paper, !.asked = Paper, !.attempt = attempt]

Committing(position) == [NoOp EXCEPT !.kind = "commit", !.step = "commit", !.position = position]

\* discoverWithFastPath: no cursor, or one of another identity or too old.
StartBaseline ==
    /\ MayScan
    /\ op' = Baseline(1)
    /\ UNCHANGED <<driveVars, cursor, catalog, view, writes, removalVars>>

\* discoverWithFastPath up to the first paper it reads
StartIncremental ==
    /\ MayScan /\ cursor # None
    /\ LET changes == Changes(cursor, Len(log))
           scan == Scoped([NoOp EXCEPT !.kind = "incremental", !.papers = view], changes)
       IN  op' = IF FullAudit(changes, Listed(view)) THEN Baseline(1)
                 ELSE IF changes = {} THEN Committing(Len(log))
                 ELSE scan
    /\ UNCHANGED <<driveVars, cursor, catalog, view, writes, removalVars>>

ReadPaper(p) ==
    /\ p \in op.todo
    /\ op' = [op EXCEPT !.todo = @ \ {p}, !.found[p] = Reading(p)]
    /\ UNCHANGED <<driveVars, cursor, catalog, view, writes, removalVars>>

\* Mutant: the replay only moves the position.
ReplayUnread ==
    /\ At("discover") /\ op.todo = {}
    /\ op' = [Scoped([op EXCEPT !.papers = RetainMissing(op.found)], {}) EXCEPT !.position = Len(log)]
    /\ UNCHANGED <<driveVars, cursor, catalog, view, writes, removalVars>>

\* runAuthoritativeBaseline: what changed while everything was read is read again.
Replay ==
    /\ At("discover") /\ op.todo = {}
    /\ LET papers == RetainMissing(op.found)
           changes == Changes(op.position, Len(log))
           full == FullAudit(changes, Listed(papers) \cup Listed(view))
       IN  /\ full => op.attempt < MaxAttempts
           /\ op' = IF full THEN Baseline(op.attempt + 1)
                    ELSE Scoped([op EXCEPT !.papers = papers], changes)
    /\ UNCHANGED <<driveVars, cursor, catalog, view, writes, removalVars>>

\* Mutant: the scan does not wait for its catalog to be stored.
ApplyUnsaved ==
    /\ op.kind \in {"incremental", "baseline"} /\ At("read") /\ op.todo = {}
    /\ LET papers == RetainGone(Merged(op.papers, op.asked, op.found), op.gone)
           judged == IF Running("baseline") THEN Paper ELSE op.asked
       IN  /\ op' = [NoOp EXCEPT !.kind = op.kind, !.step = "saved", !.position = op.position,
                                 !.papers = Presented(papers),
                                 !.failed = \E p \in judged : papers[p] # None /\ papers[p].attention]
           /\ writes' = Append(writes, [by |-> "nobody", catalog |-> Presented(papers)])
    /\ UNCHANGED <<driveVars, cursor, catalog, view, removalVars>>

\* applyDiscovery up to its writes. A baseline fails with any paper, an incremental
\* scan only with those it read.
Apply ==
    /\ op.kind \in {"incremental", "baseline"} /\ At("read") /\ op.todo = {}
    /\ LET papers == RetainGone(Merged(op.papers, op.asked, op.found), op.gone)
           judged == IF Running("baseline") THEN Paper ELSE op.asked
       IN  /\ op' = [NoOp EXCEPT !.kind = op.kind, !.step = "saving", !.position = op.position,
                                 !.papers = Presented(papers),
                                 !.failed = \E p \in judged : papers[p] # None /\ papers[p].attention]
           /\ writes' = Append(writes, [by |-> "op", catalog |-> Presented(papers)])
    /\ UNCHANGED <<driveVars, cursor, catalog, view, removalVars>>

\* applyDiscovery from its writes, and assertDiscoverySucceeded
Settle ==
    /\ op.kind \in {"incremental", "baseline"} /\ At("saved")
    /\ view' = op.papers
    /\ op' = IF op.failed THEN NoOp ELSE Committing(op.position)
    /\ UNCHANGED <<driveVars, cursor, catalog, writes, removalVars>>

\* commitDriveChangeCursor
Commit ==
    /\ Running("commit")
    /\ cursor' = op.position
    /\ op' = NoOp
    /\ UNCHANGED <<driveVars, catalog, view, writes, removalVars>>

\* A request or a validation fails, or the operation is aborted.
OpFails ==
    /\ ~Running("none") /\ ~At("saving")
    /\ op' = NoOp
    /\ UNCHANGED <<driveVars, cursor, catalog, view, writes, removalVars>>

--------------------------------------------------------------------------------
(* Removing local copies: handleLocalRemovalLifecycle and its reconciliation *)

StartRemoval(p) ==
    /\ p \in local \cap regime.removable /\ p \notin removing
    /\ removing' = removing \cup {p}
    /\ UNCHANGED <<driveVars, cursor, catalog, view, writes, op, local, reconcile>>

AbortRemoval(p) ==
    /\ p \in removing \cap local
    /\ removing' = removing \ {p}
    /\ UNCHANGED <<driveVars, cursor, catalog, view, writes, op, local, reconcile>>

\* "committed", up to its writes: an entry without a known copy in Drive goes too.
CommitRemoval(p) ==
    /\ p \in removing \cap local
    /\ local' = local \ {p}
    /\ view' = [view EXCEPT ![p] = IF @ # None /\ @.state = "removed" THEN None ELSE @]
    /\ writes' = Append(writes, [by |-> p, catalog |-> view'])
    /\ UNCHANGED <<driveVars, cursor, catalog, op, removing, reconcile>>

\* reconcileCommittedLocalRemovals, once it owns Drive
StartReconcile ==
    /\ Running("none") /\ reconcile # {}
    /\ op' = [NoOp EXCEPT !.kind = "reconcile", !.step = "read", !.todo = reconcile, !.asked = reconcile]
    /\ reconcile' = {}
    /\ UNCHANGED <<driveVars, cursor, catalog, view, writes, local, removing>>

\* applyLocalRemovalDiscovery up to its writes
ApplyReconcile ==
    /\ Running("reconcile") /\ At("read") /\ op.todo = {}
    /\ LET checked == Presented(Merged(view, op.asked, op.found))
           papers == [p \in Paper |-> IF p \in op.asked THEN checked[p] ELSE view[p]]
       IN  /\ op' = [NoOp EXCEPT !.kind = "reconcile", !.step = "saving", !.papers = papers]
           /\ writes' = Append(writes, [by |-> "op", catalog |-> papers])
    /\ UNCHANGED <<driveVars, cursor, catalog, view, removalVars>>

SettleReconcile ==
    /\ Running("reconcile") /\ At("saved")
    /\ view' = op.papers
    /\ op' = NoOp
    /\ UNCHANGED <<driveVars, cursor, catalog, writes, removalVars>>

--------------------------------------------------------------------------------
(* IndexedDB and the page *)

\* Transactions on the catalog end in the order they were made. One that fails fails
\* its operation; a removal is over and is checked either way.
WriteEnds(landed) ==
    /\ writes # <<>>
    /\ LET write == Head(writes)
       IN  /\ catalog' = IF landed THEN write.catalog ELSE catalog
           /\ op' = IF write.by # "op" THEN op
                    ELSE IF landed THEN [op EXCEPT !.step = "saved"] ELSE NoOp
           /\ removing' = removing \ {write.by}
           /\ reconcile' = reconcile \cup ({write.by} \cap Paper)
    /\ writes' = Tail(writes)
    /\ UNCHANGED <<driveVars, cursor, view, local>>

\* initializeOnce: what was only in memory is gone.
Reload ==
    /\ regime.reloads
    /\ view' = catalog
    /\ writes' = <<>>
    /\ op' = NoOp
    /\ removing' = {} /\ reconcile' = {}
    /\ UNCHANGED <<driveVars, cursor, catalog, local>>

--------------------------------------------------------------------------------

\* Some papers are in Drive and in the catalog of the device; some are on it.
Init ==
    \E known \in SUBSET Paper :
        /\ drive = [p \in Paper |-> [state |-> IF p \in known THEN "present" ELSE "absent",
                                     ver |-> 0, gone |-> FALSE]]
        /\ log = <<>>
        /\ cursor = IF known = {} THEN None ELSE 0
        /\ view = [p \in Paper |-> Reading(p)] /\ catalog = view
        /\ writes = <<>>
        /\ op = NoOp
        /\ local \in SUBSET Paper
        /\ removing = {} /\ reconcile = {}
        /\ regime \in Regime

Step ==
    \/ DriveNext
    \/ StartBaseline \/ StartIncremental
    \/ \E p \in Paper : ReadPaper(p)
    \/ Replay \/ Apply \/ Settle \/ Commit
    \/ OpFails
    \/ \E p \in Paper : StartRemoval(p) \/ AbortRemoval(p) \/ CommitRemoval(p)
    \/ StartReconcile \/ ApplyReconcile \/ SettleReconcile
    \/ \E landed \in BOOLEAN : WriteEnds(landed)
    \/ Reload

Next == Step /\ UNCHANGED regime

Spec == Init /\ [][Next]_vars

--------------------------------------------------------------------------------
(* Properties *)

FileChange == [paper : Paper \cup {None}, kind : {"file", "removal", "gone", "structure"}]

CatalogWrite == [by : Paper \cup {"op"}, catalog : Catalog]

PaperInDrive ==
    [state : {"absent", "partial", "present", "broken", "removed"}, ver : Position, gone : BOOLEAN]

Operation ==
    [kind : {"none", "incremental", "baseline", "commit", "reconcile"},
     step : {"idle", "discover", "read", "saving", "saved", "commit"},
     position : Position, todo : SUBSET Paper, asked : SUBSET Paper, found : Catalog,
     gone : SUBSET Paper, papers : Catalog, attempt : 0..MaxAttempts, failed : BOOLEAN]

TypeOK ==
    /\ drive \in [Paper -> PaperInDrive]
    /\ log \in Seq(FileChange)
    /\ cursor \in Position \cup {None}
    /\ catalog \in Catalog /\ view \in Catalog
    /\ writes \in Seq(CatalogWrite)
    /\ op \in Operation
    /\ local \subseteq Paper /\ removing \subseteq Paper /\ reconcile \subseteq Paper

\* The entry says what Drive says of the paper.
Agrees(entry, p) ==
    /\ ~Unverified(p)
    /\ entry = Reading(p) \/ (In(p, "removed") /\ entry = None)

CurrentUpToCursor(papers) ==
    cursor # None =>
        \A p \in Paper : (\A i \in DOMAIN log : i > cursor => log[i].paper # p) => Agrees(papers[p], p)

\* discoverWithFastPath, runAuthoritativeBaseline: the cursor never passes a change the
\* catalog on the screen does not show. What a scan skips because the feed does not
\* name it is as it is in Drive, whatever changed while the papers were read.
ViewIsCurrent == CurrentUpToCursor(view)

\* The same of what is kept, where no local copy is removed: a page that opens again
\* starts from this catalog and this cursor, and asks Drive only for what changed after it.
CatalogIsCurrent == regime.removable = {} => CurrentUpToCursor(catalog)

\* retainMissingKnownCloudPapers, applyScopedDiscovery: a paper known to be in Drive
\* leaves the list only after a removal was published; that its files are gone is
\* shown, not taken as a removal.
KnownPaperIsNotForgotten ==
    [][\A p \in Paper :
          view[p] # None /\ view[p].state = "present" /\ view'[p] = None =>
              \E i \in DOMAIN log : i > view[p].ver /\ log[i] = [paper |-> p, kind |-> "removal"]]_view

=================================================================================
