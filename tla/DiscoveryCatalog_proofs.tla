------------------------ MODULE DiscoveryCatalog_proofs ------------------------
(* Types and currency of the catalog, proved for any papers and any number of   *)
(* changes: ViewIsCurrent and KnownPaperIsNotForgotten where the page stays open *)
(* or no local copy is removed, CatalogIsCurrent where no local copy is removed. *)

EXTENDS DiscoveryCatalog, TLAPS

\* The feed names every change, and drive the last one of every paper.
FeedIsComplete ==
    /\ Len(log) <= MaxChanges
    /\ cursor # None => cursor <= Len(log)
    /\ \A i \in 1..Len(log) :
           /\ log[i].kind = "structure" <=> log[i].paper = None
           /\ log[i].paper # None => i <= drive[log[i].paper].ver
    /\ \A p \in Paper :
           /\ drive[p].ver <= Len(log)
           /\ drive[p].ver > 0 =>
                  /\ log[drive[p].ver].paper = p
                  /\ log[drive[p].ver].kind = "gone" => drive[p].gone

\* Papers that have not changed since the cursor are shown as they are.
ToCursor(papers) ==
    cursor # None => \A p \in Paper : drive[p].ver <= cursor => Agrees(papers[p], p)

Scanning == op.kind \in {"incremental", "baseline"}

\* Where an operation of each kind can be.
Steps ==
    /\ op.kind = "none" <=> op.step = "idle"
    /\ op.kind = "commit" <=> op.step = "commit"
    /\ op.step = "discover" => op.kind = "baseline"
    /\ Scanning \/ op.kind = "commit" => op.position <= Len(log)
    /\ Scanning /\ cursor # None => cursor <= op.position

\* The first reading of a full audit: what was read and has not changed since the
\* position is as it was read.
Discovered ==
    op.step = "discover" =>
        \A p \in Paper \ op.todo : drive[p].ver <= op.position => op.found[p] = Reading(p)

\* The second reading, or that of an incremental scan: what it reads has changed since
\* the cursor, and what it does not read has not changed since it is known.
ReadAgain ==
    (Scanning /\ op.step = "read") =>
        /\ op.gone \subseteq op.asked
        /\ \A p \in op.asked :
               /\ cursor # None => drive[p].ver > cursor
               /\ p \notin op.todo /\ drive[p].ver <= op.position => op.found[p] = Reading(p)
        /\ \A p \in Paper \ op.asked :
               /\ cursor # None /\ drive[p].ver <= cursor => Agrees(op.papers[p], p)
               /\ drive[p].ver <= op.position =>
                      \/ Agrees(op.papers[p], p)
                      \/ op.kind = "baseline" /\ op.papers[p] # None /\ op.papers[p].attention

\* A reconciliation learns nothing older than the cursor.
Reconciled ==
    (op.kind = "reconcile" /\ op.step = "read" /\ cursor # None) =>
        \A p \in op.asked \ op.todo : drive[p].ver <= cursor => op.found[p] = Reading(p)

\* What is being stored.
Storing ==
    op.step \in {"saving", "saved"} =>
        /\ ToCursor(op.papers)
        /\ (Scanning /\ ~op.failed) =>
               \A p \in Paper : drive[p].ver <= op.position => Agrees(op.papers[p], p)

Decided ==
    op.kind = "commit" => \A p \in Paper : drive[p].ver <= op.position => Agrees(view[p], p)

\* The operation waits for one write at most, and only while it is storing.
OneWrite ==
    \A i \in 1..Len(writes) : writes[i].by = "op" =>
        op.step = "saving" /\ \A j \in 1..Len(writes) : writes[j].by = "op" => j = i

IInv ==
    /\ TypeOK /\ FeedIsComplete /\ Steps
    /\ Discovered /\ ReadAgain /\ Reconciled /\ Storing /\ Decided /\ OneWrite
    /\ ToCursor(view)

\* Without local removals the catalog follows the operation that owns Drive.
Kept ==
    /\ removing = {} /\ reconcile = {} /\ op.kind # "reconcile"
    /\ Len(writes) <= 1
    /\ \A i \in 1..Len(writes) : writes[i].by = "op" /\ writes[i].catalog = op.papers
    /\ op.step = "saved" => catalog = op.papers
    /\ op.kind = "commit" => \A p \in Paper : drive[p].ver <= op.position => Agrees(catalog[p], p)
    /\ ToCursor(catalog)

--------------------------------------------------------------------------------
(* Types *)

\* A paper reads as an entry or not at all.
LEMMA ReadingType ==
    ASSUME NEW p \in Paper, drive[p] \in PaperInDrive
    PROVE  Reading(p) \in Entry \cup {None}
BY DEF PaperInDrive, Reading, Summary, Unverified, In, Entry

LEMMA NoOpType == NoOp \in Operation /\ Empty \in Catalog
BY BoundAssumption DEF NoOp, Operation, Position, Empty, Catalog, MaxAttempts

LEMMA InitType == Init => TypeOK /\ FeedIsComplete /\ Steps
<1> SUFFICES ASSUME Init PROVE TypeOK /\ FeedIsComplete /\ Steps
  OBVIOUS
<1>1. PICK known \in SUBSET Paper :
          /\ drive = [p \in Paper |-> [state |-> IF p \in known THEN "present" ELSE "absent",
                                       ver |-> 0, gone |-> FALSE]]
          /\ log = <<>>
          /\ cursor = IF known = {} THEN None ELSE 0
          /\ view = [p \in Paper |-> Reading(p)] /\ catalog = view
          /\ writes = <<>>
          /\ op = NoOp
          /\ local \in SUBSET Paper
          /\ removing = {} /\ reconcile = {}
  BY DEF Init
<1>0. \A p \in Paper : drive[p] \in PaperInDrive
  <2> SUFFICES ASSUME NEW p \in Paper PROVE drive[p] \in PaperInDrive
    OBVIOUS
  <2>1. drive[p] = [state |-> IF p \in known THEN "present" ELSE "absent", ver |-> 0, gone |-> FALSE]
    BY <1>1
  <2>2. 0 \in Position
    BY BoundAssumption DEF Position
  <2> QED
    BY <2>1, <2>2 DEF PaperInDrive
<1>2. view \in Catalog
  <2>2. \A p \in Paper : Reading(p) \in Entry \cup {None}
    BY <1>0, ReadingType
  <2> QED
    BY <1>1, <2>2 DEF Catalog
<1>3. NoOp \in Operation
  BY NoOpType
<1>4. TypeOK
  <2>1. drive \in [Paper -> PaperInDrive]
    BY <1>0, <1>1
  <2>2. cursor \in Position \cup {None}
    BY <1>1, BoundAssumption DEF Position
  <2>3. log = <<>> /\ writes = <<>>
    BY <1>1
  <2>4. catalog \in Catalog /\ op = NoOp
    BY <1>1, <1>2
  <2>5. local \in SUBSET Paper /\ removing = {} /\ reconcile = {}
    BY <1>1
  <2> QED
    BY <2>1, <2>2, <2>3, <2>4, <2>5, <1>2, <1>3 DEF TypeOK, PaperInDrive
<1>5. FeedIsComplete /\ Steps
  <2>1. log = <<>> /\ op = NoOp /\ cursor \in {0, None}
    BY <1>1
  <2>2. \A p \in Paper : drive[p].ver = 0
    BY <1>1
  <2>3. FeedIsComplete
    BY <2>1, <2>2, BoundAssumption DEF FeedIsComplete
  <2>4. Steps
    BY <2>1 DEF Steps, Scanning, NoOp
  <2> QED
    BY <2>3, <2>4
<1> QED
  BY <1>4, <1>5

\* What the operators on catalogs return.
LEMMA AttentionType ==
    ASSUME NEW entry \in Entry \cup {None}
    PROVE  /\ Attention(entry) \in Entry \cup {None}
           /\ entry # None => Attention(entry) # None /\ Attention(entry).attention
BY NoneAssumption DEF Attention, Entry

LEMMA MergedType ==
    ASSUME NEW base \in Catalog, NEW found \in Catalog, NEW asked
    PROVE  Merged(base, asked, found) \in Catalog
<1>1. \A p \in Paper : Attention(base[p]) \in Entry \cup {None}
  BY AttentionType DEF Catalog
<1> QED
  BY <1>1 DEF Merged, Catalog

LEMMA RetainMissingType ==
    ASSUME view \in Catalog, NEW found \in Catalog
    PROVE  RetainMissing(found) \in Catalog
<1>1. \A p \in Paper : Attention(view[p]) \in Entry \cup {None}
  BY AttentionType DEF Catalog
<1> QED
  BY <1>1 DEF RetainMissing, Catalog

LEMMA RetainGoneType ==
    ASSUME view \in Catalog, NEW papers \in Catalog, NEW gone
    PROVE  RetainGone(papers, gone) \in Catalog
<1>1. \A p \in Paper : Attention(view[p]) \in Entry \cup {None}
                     /\ Attention(papers[p]) \in Entry \cup {None}
  BY AttentionType DEF Catalog
<1> QED
  BY <1>1 DEF RetainGone, Catalog

LEMMA PresentedType ==
    ASSUME NEW papers \in Catalog
    PROVE  Presented(papers) \in Catalog
BY DEF Presented, Catalog

\* The changes after a position name the papers that changed after it.
LEMMA ChangesAreNamed ==
    ASSUME TypeOK, FeedIsComplete, NEW from \in Position, from <= Len(log)
    PROVE  /\ Affected(Changes(from, Len(log))) \subseteq Paper
           /\ Gone(Changes(from, Len(log))) \subseteq Affected(Changes(from, Len(log)))
           /\ \A p \in Paper : p \in Affected(Changes(from, Len(log))) <=> drive[p].ver > from
<1> DEFINE C == Changes(from, Len(log))
<1>1. Len(log) \in Nat /\ from \in Nat
  BY BoundAssumption DEF TypeOK, Position
<1>2. \A i \in 1..Len(log) : log[i] \in FileChange
  BY DEF TypeOK
<1>3. \A c \in C : \E i \in from + 1..Len(log) : c = log[i]
  BY DEF Changes
<1>4. \A c \in C : c.kind # "structure" => c.paper \in Paper /\ drive[c.paper].ver > from
  <2> SUFFICES ASSUME NEW c \in C, c.kind # "structure"
               PROVE  c.paper \in Paper /\ drive[c.paper].ver > from
    OBVIOUS
  <2>1. PICK i \in from + 1..Len(log) : c = log[i]
    BY <1>3
  <2>2. i \in 1..Len(log) /\ i > from
    BY <1>1, <2>1
  <2>3. c.paper # None /\ i <= drive[c.paper].ver
    BY <2>1, <2>2 DEF FeedIsComplete
  <2>4. c.paper \in Paper
    BY <1>2, <2>1, <2>2, <2>3 DEF FileChange
  <2>5. drive[c.paper].ver \in Nat
    BY <2>4, BoundAssumption DEF TypeOK, PaperInDrive, Position
  <2> QED
    BY <2>2, <2>3, <2>4, <2>5, <1>1
<1>5. \A p \in Paper : drive[p].ver > from => p \in Affected(C)
  <2> SUFFICES ASSUME NEW p \in Paper, drive[p].ver > from
               PROVE  p \in Affected(C)
    OBVIOUS
  <2> DEFINE i == drive[p].ver
  <2>1. i \in Nat
    BY BoundAssumption DEF TypeOK, PaperInDrive, Position
  <2>2. i \in from + 1..Len(log) /\ i \in 1..Len(log)
    BY <1>1, <2>1 DEF FeedIsComplete
  <2>3. log[i].paper = p /\ (log[i].kind = "gone" => drive[log[i].paper].gone)
    BY <1>1, <2>1, <2>2 DEF FeedIsComplete
  <2>4. log[i].kind # "structure"
    BY <2>2, <2>3, PaperAssumption DEF FeedIsComplete
  <2>5. log[i] \in C
    BY <2>2, <2>3 DEF Changes
  <2> QED
    BY <2>3, <2>4, <2>5 DEF Affected
<1>6. Gone(C) \subseteq Affected(C)
  BY DEF Gone, Affected
<1>7. Affected(C) \subseteq Paper /\ \A p \in Affected(C) : drive[p].ver > from
  BY <1>4 DEF Affected
<1> QED
  BY <1>5, <1>6, <1>7

--------------------------------------------------------------------------------
(* Steps of Drive *)

\* A change moves one paper past everything the feed named before.
LEMMA ChangeStep ==
    ASSUME TypeOK, FeedIsComplete, NEW p \in Paper, NEW kind \in {"file", "removal", "gone"},
           NEW state \in {"absent", "partial", "present", "broken", "removed"},
           NEW gone \in BOOLEAN, kind = "gone" => gone, Change(p, kind, state, gone)
    PROVE  /\ drive' \in [Paper -> PaperInDrive] /\ log' \in Seq(FileChange)
           /\ FeedIsComplete'
           /\ Len(log') = Len(log) + 1
           /\ \A q \in Paper : drive'[q].ver <= Len(log) => drive'[q] = drive[q]
<1> DEFINE n == Len(log)
<1> DEFINE c == [paper |-> p, kind |-> kind]
<1>1. n \in Nat /\ n < MaxChanges /\ log \in Seq(FileChange) /\ drive \in [Paper -> PaperInDrive]
  BY DEF TypeOK, Change
<1>2. log' = Append(log, c) /\ cursor' = cursor
      /\ drive' = [drive EXCEPT ![p] = [state |-> state, ver |-> n + 1, gone |-> gone]]
  BY DEF Change
<1>3. c \in FileChange
  BY DEF FileChange
<1>4. /\ log' \in Seq(FileChange) /\ Len(log') = n + 1
      /\ log'[n + 1] = c /\ \A i \in 1..n : log'[i] = log[i]
  BY <1>1, <1>2, <1>3
<1>5. n + 1 \in Position
  BY <1>1, BoundAssumption DEF Position
<1>6. drive' \in [Paper -> PaperInDrive]
  BY <1>1, <1>2, <1>5 DEF PaperInDrive
<1>7. drive'[p].ver = n + 1 /\ drive'[p].gone = gone /\ \A q \in Paper : q # p => drive'[q] = drive[q]
  BY <1>1, <1>2
<1>8. \A q \in Paper : drive[q].ver \in Nat /\ drive[q].ver <= n
  BY <1>1, BoundAssumption DEF FeedIsComplete, PaperInDrive, Position
<1>9. \A q \in Paper : drive'[q].ver <= n => drive'[q] = drive[q]
  BY <1>1, <1>7
<1>10. cursor' # None => cursor' <= n + 1
  <2>1. cursor # None => cursor \in Nat /\ cursor <= n
    BY BoundAssumption DEF TypeOK, Position, FeedIsComplete
  <2> QED
    BY <1>1, <1>2, <2>1
<1>11. ASSUME NEW i \in 1..n + 1
       PROVE  /\ log'[i].kind = "structure" <=> log'[i].paper = None
              /\ log'[i].paper # None => i <= drive'[log'[i].paper].ver
  <2>1. CASE i = n + 1
    BY <1>1, <1>4, <1>7, <2>1, PaperAssumption
  <2>2. CASE i # n + 1
    <3>1. i \in 1..n /\ log'[i] = log[i]
      BY <1>1, <1>4, <2>2
    <3>2. log[i].kind = "structure" <=> log[i].paper = None
      BY <3>1 DEF FeedIsComplete
    <3>3. log[i].paper # None => i <= drive[log[i].paper].ver
      BY <3>1 DEF FeedIsComplete
    <3>4. log[i].paper # None => log[i].paper \in Paper
      <4>1. log[i] \in FileChange
        BY <1>1, <3>1
      <4> QED
        BY <4>1 DEF FileChange
    <3>5. CASE log[i].paper = p
      BY <1>1, <1>7, <3>1, <3>2, <3>5
    <3>6. CASE log[i].paper # p
      BY <1>7, <3>1, <3>2, <3>3, <3>4, <3>6
    <3> QED
      BY <3>5, <3>6
  <2> QED
    BY <2>1, <2>2
<1>12. ASSUME NEW q \in Paper
       PROVE  /\ drive'[q].ver <= n + 1
              /\ drive'[q].ver > 0 =>
                     /\ log'[drive'[q].ver].paper = q
                     /\ log'[drive'[q].ver].kind = "gone" => drive'[q].gone
  <2>1. CASE q = p
    BY <1>1, <1>4, <1>7, <2>1
  <2>2. CASE q # p
    <3>1. drive'[q] = drive[q] /\ drive[q].ver \in Nat /\ drive[q].ver <= n
      BY <1>7, <1>8, <2>2
    <3>2. drive[q].ver > 0 => log'[drive[q].ver] = log[drive[q].ver]
      BY <1>1, <1>4, <3>1
    <3>3. drive[q].ver > 0 => /\ log[drive[q].ver].paper = q
                              /\ log[drive[q].ver].kind = "gone" => drive[q].gone
      BY DEF FeedIsComplete
    <3> QED
      BY <1>1, <3>1, <3>2, <3>3
  <2> QED
    BY <2>1, <2>2
<1>13. FeedIsComplete'
  <2>1. Len(log') = n + 1 /\ n + 1 <= MaxChanges
    BY <1>1, <1>4, BoundAssumption
  <2> HIDE DEF n, c
  <2> QED
    BY <2>1, <1>10, <1>11, <1>12 DEF FeedIsComplete
<1> QED
  BY <1>4, <1>6, <1>9, <1>13

\* A change of the structure moves no paper.
LEMMA StructureStep ==
    ASSUME TypeOK, FeedIsComplete, ChangeStructure
    PROVE  /\ log' \in Seq(FileChange) /\ drive' = drive
           /\ FeedIsComplete'
           /\ Len(log') = Len(log) + 1
<1> DEFINE n == Len(log)
<1> DEFINE c == [paper |-> None, kind |-> "structure"]
<1>1. n \in Nat /\ n < MaxChanges /\ log \in Seq(FileChange)
  BY DEF TypeOK, ChangeStructure
<1>2. log' = Append(log, c) /\ cursor' = cursor /\ drive' = drive
  BY DEF ChangeStructure
<1>3. c \in FileChange
  BY DEF FileChange
<1>4. /\ log' \in Seq(FileChange) /\ Len(log') = n + 1
      /\ log'[n + 1] = c /\ \A i \in 1..n : log'[i] = log[i]
  BY <1>1, <1>2, <1>3
<1>5. cursor # None => cursor \in Nat /\ cursor <= n
  BY BoundAssumption DEF TypeOK, Position, FeedIsComplete
<1>6. ASSUME NEW i \in 1..n + 1
      PROVE  /\ log'[i].kind = "structure" <=> log'[i].paper = None
             /\ log'[i].paper # None => i <= drive[log'[i].paper].ver
  <2>1. CASE i = n + 1
    BY <1>4, <2>1
  <2>2. CASE i # n + 1
    BY <1>1, <1>4, <2>2 DEF FeedIsComplete
  <2> QED
    BY <2>1, <2>2
<1>7. ASSUME NEW q \in Paper
      PROVE  /\ drive[q].ver <= n + 1
             /\ drive[q].ver > 0 =>
                    /\ log'[drive[q].ver].paper = q
                    /\ log'[drive[q].ver].kind = "gone" => drive[q].gone
  <2>1. drive[q].ver \in Nat
    BY BoundAssumption DEF TypeOK, PaperInDrive, Position
  <2>2. drive[q].ver <= n
    BY DEF FeedIsComplete
  <2>3. drive[q].ver > 0 => log'[drive[q].ver] = log[drive[q].ver]
    BY <1>1, <1>4, <2>1, <2>2
  <2>4. drive[q].ver > 0 => /\ log[drive[q].ver].paper = q
                            /\ log[drive[q].ver].kind = "gone" => drive[q].gone
    BY DEF FeedIsComplete
  <2> QED
    BY <1>1, <2>1, <2>2, <2>3, <2>4
<1>8. FeedIsComplete'
  <2>1. Len(log') = n + 1 /\ n + 1 <= MaxChanges
    BY <1>1, <1>4, BoundAssumption
  <2>2. cursor' # None => cursor' <= n + 1
    BY <1>1, <1>2, <1>5
  <2>3. drive' = drive
    BY <1>2
  <2> HIDE DEF n, c
  <2> QED
    BY <2>1, <2>2, <2>3, <1>6, <1>7 DEF FeedIsComplete
<1> QED
  BY <1>2, <1>4, <1>8

\* What a step of Drive leaves alone: every paper it does not name, and the device.
LEMMA DriveStep ==
    ASSUME TypeOK, FeedIsComplete, DriveNext
    PROVE  /\ drive' \in [Paper -> PaperInDrive] /\ log' \in Seq(FileChange)
           /\ FeedIsComplete'
           /\ Len(log') = Len(log) + 1
           /\ \A q \in Paper : drive'[q].ver <= Len(log) => drive'[q] = drive[q]
           /\ UNCHANGED <<cursor, catalog, view, writes, op, removalVars>>
<1>1. ASSUME ChangeStructure
      PROVE  /\ drive' = drive
             /\ UNCHANGED <<cursor, catalog, view, writes, op, removalVars>>
  BY <1>1 DEF ChangeStructure
<1>2. CASE ChangeStructure
  BY <1>1, <1>2, StructureStep DEF TypeOK
<1>3. ASSUME NEW p \in Paper,
             \/ CreatePackage(p) \/ PublishPresence(p) \/ PublishPaper(p)
             \/ PublishRemoval(p) \/ TrashFolder(p) \/ Restore(p)
             \/ LoseFile(p) \/ RepairFile(p) \/ LosePaper(p)
      PROVE  \E kind \in {"file", "removal", "gone"},
                state \in {"absent", "partial", "present", "broken", "removed"}, gone \in BOOLEAN :
                 (kind = "gone" => gone) /\ Change(p, kind, state, gone)
  BY <1>3 DEF CreatePackage, PublishPresence, PublishPaper, PublishRemoval, TrashFolder,
              Restore, LoseFile, RepairFile, LosePaper
<1>4. ASSUME NEW p \in Paper, NEW kind \in {"file", "removal", "gone"},
             NEW state \in {"absent", "partial", "present", "broken", "removed"}, NEW gone \in BOOLEAN,
             Change(p, kind, state, gone)
      PROVE  UNCHANGED <<cursor, catalog, view, writes, op, removalVars>>
  BY <1>4 DEF Change
<1> QED
  BY <1>2, <1>3, <1>4, ChangeStep DEF DriveNext

--------------------------------------------------------------------------------
(* What is known of a paper stays right while the paper stays as it is *)

LEMMA SameReading ==
    ASSUME NEW p \in Paper, drive'[p] = drive[p]
    PROVE  /\ Reading(p)' = Reading(p)
           /\ \A e : Agrees(e, p)' <=> Agrees(e, p)
BY DEF Reading, Agrees, Summary, Unverified, In

LEMMA Unmoved ==
    ASSUME drive' = drive
    PROVE  \A p \in Paper : Reading(p)' = Reading(p) /\ \A e : Agrees(e, p)' <=> Agrees(e, p)
BY SameReading

\* An entry that agrees says no less when a removed paper is left out of the list.
LEMMA PresentedAgrees ==
    ASSUME NEW papers \in Catalog, NEW p \in Paper, Agrees(papers[p], p)
    PROVE  /\ Agrees(Presented(papers)[p], p)
           /\ papers[p] # None /\ papers[p].state = "removed" => Agrees(None, p)
<1>1. papers[p] # None /\ papers[p].state = "removed" => In(p, "removed")
  BY DEF Agrees, Reading, Summary, Unverified, In
<1>2. papers[p] # None /\ papers[p].state = "removed" => Agrees(None, p)
  BY <1>1 DEF Agrees
<1> QED
  BY <1>2 DEF Presented

\* What was read and needs no attention agrees.
LEMMA ReadAgrees ==
    ASSUME NEW p \in Paper, drive[p] \in PaperInDrive
    PROVE  /\ Reading(p) = None \/ ~Reading(p).attention => Agrees(Reading(p), p)
           /\ Unverified(p) => Reading(p) # None /\ Reading(p).attention
           /\ ~Unverified(p) => Agrees(Reading(p), p)
<1>1. Unverified(p) => ~In(p, "absent") /\ Reading(p) = Summary(p, "failed", TRUE)
  BY DEF Unverified, In, Reading
<1>2. \A state : Summary(p, state, TRUE).attention = TRUE
  BY DEF Summary
<1>3. Summary(p, "failed", TRUE) \in Entry
  BY DEF Summary, Entry, PaperInDrive
<1>4. ~Unverified(p) => Agrees(Reading(p), p)
  BY DEF Agrees
<1>5. Unverified(p) => Reading(p) # None /\ Reading(p).attention
  BY <1>1, <1>2, <1>3, NoneAssumption
<1> QED
  BY <1>4, <1>5

LEMMA DriveKeepsInv == IInv /\ DriveNext => IInv'
<1> SUFFICES ASSUME IInv, DriveNext PROVE IInv'
  OBVIOUS
<1>0. TypeOK /\ FeedIsComplete /\ Steps
  BY DEF IInv
<1>1. /\ drive' \in [Paper -> PaperInDrive] /\ log' \in Seq(FileChange)
      /\ FeedIsComplete' /\ Len(log') = Len(log) + 1
      /\ \A q \in Paper : drive'[q].ver <= Len(log) => drive'[q] = drive[q]
  BY <1>0, DriveStep
<1>2. /\ cursor' = cursor /\ catalog' = catalog /\ view' = view /\ writes' = writes
      /\ op' = op /\ local' = local /\ removing' = removing /\ reconcile' = reconcile
  BY <1>0, DriveStep DEF removalVars
<1>3. /\ Len(log) \in Nat
      /\ cursor # None => cursor \in Nat /\ cursor <= Len(log)
      /\ op.position \in Nat
      /\ \A q \in Paper : drive[q].ver \in Nat /\ drive'[q].ver \in Nat
  BY <1>0, <1>1, BoundAssumption DEF TypeOK, FeedIsComplete, Position, PaperInDrive, Operation
<1>4. ASSUME NEW c \in Nat, c <= Len(log), NEW p \in Paper, drive'[p].ver <= c
      PROVE  /\ drive[p].ver <= c
             /\ Reading(p)' = Reading(p)
             /\ \A e : Agrees(e, p)' <=> Agrees(e, p)
  <2>1. drive'[p] = drive[p]
    BY <1>1, <1>3, <1>4
  <2> QED
    BY <1>4, <2>1, SameReading
<1>5. TypeOK'
  BY <1>0, <1>1, <1>2 DEF TypeOK
<1>6. Steps'
  BY <1>0, <1>1, <1>2, <1>3 DEF Steps, Scanning
<1>7. \A papers : ToCursor(papers) => ToCursor(papers)'
  BY <1>2, <1>3, <1>4 DEF ToCursor
<1>8. Scanning \/ op.kind = "commit" => op.position <= Len(log)
  BY <1>0 DEF Steps
<1>9. Discovered'
  <2>1. op.step = "discover" => op.position <= Len(log)
    BY <1>0, <1>8 DEF Steps, Scanning
  <2> QED
    BY <1>2, <1>3, <1>4, <2>1 DEF IInv, Discovered
<1>10. ReadAgain'
  <2> SUFFICES ASSUME Scanning, op.step = "read"
               PROVE  ReadAgain'
    BY <1>2 DEF ReadAgain, Scanning
  <2>1. op.gone \subseteq op.asked
    BY DEF IInv, ReadAgain
  <2>2. ASSUME NEW p \in op.asked
        PROVE  /\ cursor # None => drive'[p].ver > cursor
               /\ p \notin op.todo /\ drive'[p].ver <= op.position => op.found[p] = Reading(p)'
    <3>1. p \in Paper
      BY <1>0, <2>2 DEF TypeOK, Operation
    <3>2. /\ cursor # None => drive[p].ver > cursor
          /\ p \notin op.todo /\ drive[p].ver <= op.position => op.found[p] = Reading(p)
      BY DEF IInv, ReadAgain
    <3>3. cursor # None => drive'[p].ver > cursor
      BY <1>3, <1>4, <3>1, <3>2
    <3> QED
      BY <1>3, <1>4, <1>8, <3>1, <3>2, <3>3
  <2>3. ASSUME NEW p \in Paper \ op.asked
        PROVE  /\ cursor # None /\ drive'[p].ver <= cursor => Agrees(op.papers[p], p)'
               /\ drive'[p].ver <= op.position =>
                      \/ Agrees(op.papers[p], p)'
                      \/ op.kind = "baseline" /\ op.papers[p] # None /\ op.papers[p].attention
    <3>1. /\ cursor # None /\ drive[p].ver <= cursor => Agrees(op.papers[p], p)
          /\ drive[p].ver <= op.position =>
                 \/ Agrees(op.papers[p], p)
                 \/ op.kind = "baseline" /\ op.papers[p] # None /\ op.papers[p].attention
      BY DEF IInv, ReadAgain
    <3>2. \A c \in Nat : c <= Len(log) /\ drive'[p].ver <= c =>
              drive[p].ver <= c /\ (Agrees(op.papers[p], p)' <=> Agrees(op.papers[p], p))
      BY <1>2, <1>4
    <3> QED
      BY <1>3, <1>8, <3>1, <3>2
  <2> QED
    BY <1>2, <2>1, <2>2, <2>3 DEF ReadAgain
<1>11. Reconciled'
  <2> SUFFICES ASSUME op.kind = "reconcile", op.step = "read", cursor # None,
                      NEW p \in op.asked \ op.todo, drive'[p].ver <= cursor
               PROVE  op.found[p] = Reading(p)'
    BY <1>2 DEF Reconciled
  <2>1. p \in Paper
    BY <1>0 DEF TypeOK, Operation
  <2>2. drive[p].ver <= cursor => op.found[p] = Reading(p)
    BY DEF IInv, Reconciled
  <2> QED
    BY <1>3, <1>4, <2>1, <2>2
<1>12. Storing'
  <2> SUFFICES ASSUME op.step \in {"saving", "saved"} PROVE Storing'
    BY <1>2 DEF Storing
  <2>1. ToCursor(op.papers)'
    BY <1>2, <1>3, <1>4 DEF ToCursor, IInv, Storing
  <2>2. ASSUME Scanning, ~op.failed, NEW p \in Paper, drive'[p].ver <= op.position
        PROVE  Agrees(op.papers[p], p)'
    <3>1. drive[p].ver <= op.position => Agrees(op.papers[p], p)
      BY <2>2 DEF IInv, Storing
    <3>2. drive[p].ver <= op.position /\ (Agrees(op.papers[p], p)' <=> Agrees(op.papers[p], p))
      BY <1>2, <1>3, <1>4, <1>8, <2>2
    <3> QED
      BY <3>1, <3>2
  <2> QED
    BY <1>2, <2>1, <2>2 DEF Storing, Scanning
<1>13. Decided'
  <2> SUFFICES ASSUME op.kind = "commit", NEW p \in Paper, drive'[p].ver <= op.position
               PROVE  Agrees(view[p], p)'
    BY <1>2 DEF Decided
  <2>1. drive[p].ver <= op.position => Agrees(view[p], p)
    BY DEF IInv, Decided
  <2>2. drive[p].ver <= op.position /\ (Agrees(view[p], p)' <=> Agrees(view[p], p))
    BY <1>2, <1>3, <1>4, <1>8
  <2> QED
    BY <2>1, <2>2
<1>14. OneWrite'
  BY <1>2 DEF IInv, OneWrite
<1>15. ToCursor(view)'
  BY <1>2, <1>3, <1>4 DEF IInv, ToCursor
<1> QED
  BY <1>1, <1>5, <1>6, <1>9, <1>10, <1>11, <1>12, <1>13, <1>14, <1>15 DEF IInv

--------------------------------------------------------------------------------
(* Steps of the operation that owns Drive *)

\* While Drive, the cursor and the catalog in memory stay, what an operation is doing
\* is all that has to be shown.
LEMMA OperationKeepsInv ==
    ASSUME IInv, UNCHANGED <<driveVars, cursor, view>>,
           TypeOK', Steps', Discovered', ReadAgain', Reconciled', Storing', Decided', OneWrite'
    PROVE  IInv'
<1>1. FeedIsComplete'
  BY DEF IInv, FeedIsComplete, driveVars
<1>2. ToCursor(view)'
  BY Unmoved DEF IInv, ToCursor, driveVars
<1> QED
  BY <1>1, <1>2 DEF IInv

\* Without an operation nothing waits.
LEMMA NoOpKeepsInv ==
    ASSUME IInv, UNCHANGED <<driveVars, cursor, view>>, TypeOK', op' = NoOp,
           \A i \in 1..Len(writes') : writes'[i].by # "op"
    PROVE  IInv'
<1>1. op'.kind = "none" /\ op'.step = "idle"
  BY DEF NoOp
<1>2. Steps'
  BY <1>1 DEF Steps, Scanning
<1>3. Discovered' /\ ReadAgain' /\ Reconciled' /\ Storing' /\ Decided'
  BY <1>1 DEF Discovered, ReadAgain, Reconciled, Storing, Decided, Scanning
<1>4. OneWrite'
  BY DEF OneWrite
<1> QED
  BY <1>2, <1>3, <1>4, OperationKeepsInv

LEMMA NoWriteOfOp ==
    ASSUME IInv, op.step # "saving"
    PROVE  \A i \in 1..Len(writes) : writes[i].by # "op"
BY DEF IInv, OneWrite

LEMMA PositionsType ==
    ASSUME TypeOK
    PROVE  /\ Len(log) \in Nat /\ op.position \in Nat
           /\ cursor # None => cursor \in Nat
           /\ \A p \in Paper : drive[p].ver \in Nat /\ drive[p] \in PaperInDrive
           /\ Len(log) <= MaxChanges => Len(log) \in Position
BY BoundAssumption DEF TypeOK, Position, PaperInDrive, Operation

\* A full audit begins: nothing has been read.
LEMMA BaselineKeepsInv ==
    ASSUME IInv, UNCHANGED <<driveVars, cursor, catalog, view, writes, removalVars>>,
           op.step # "saving", NEW n \in 0..MaxAttempts, op' = Baseline(n)
    PROVE  IInv'
<1>1. /\ op' \in Operation
      /\ op'.kind = "baseline" /\ op'.step = "discover" /\ op'.position = Len(log) /\ op'.todo = Paper
  <2>1. Len(log) \in Position
    BY PositionsType DEF IInv, FeedIsComplete
  <2> QED
    BY <2>1, NoOpType DEF Baseline, NoOp, Operation
<1>2. TypeOK'
  BY <1>1 DEF IInv, TypeOK, driveVars, removalVars
<1>3. Steps'
  BY <1>1, PositionsType DEF Steps, Scanning, IInv, FeedIsComplete, driveVars
<1>4. Discovered' /\ ReadAgain' /\ Reconciled' /\ Storing' /\ Decided'
  BY <1>1 DEF Discovered, ReadAgain, Reconciled, Storing, Decided, Scanning
<1>5. OneWrite'
  BY NoWriteOfOp DEF OneWrite
<1> QED
  BY <1>2, <1>3, <1>4, <1>5, OperationKeepsInv

\* What changed after a position is read again; for the rest the catalog so far is right.
LEMMA ScopedKeepsInv ==
    ASSUME IInv, UNCHANGED <<driveVars, cursor, catalog, view, writes, removalVars>>,
           op.step # "saving", NEW scan \in Operation, scan.kind \in {"incremental", "baseline"},
           NEW from \in Position, from <= Len(log), cursor # None => cursor <= from,
           op' = Scoped(scan, Changes(from, Len(log))),
           \A p \in Paper : drive[p].ver <= from =>
               /\ cursor # None /\ drive[p].ver <= cursor => Agrees(scan.papers[p], p)
               /\ \/ Agrees(scan.papers[p], p)
                  \/ scan.kind = "baseline" /\ scan.papers[p] # None /\ scan.papers[p].attention
    PROVE  IInv'
<1> DEFINE C == Changes(from, Len(log))
<1>0. TypeOK /\ FeedIsComplete
  BY DEF IInv
<1>1. /\ Affected(C) \subseteq Paper /\ Gone(C) \subseteq Affected(C)
      /\ \A p \in Paper : p \in Affected(C) <=> drive[p].ver > from
  BY <1>0, ChangesAreNamed
<1>2. Len(log) \in Position /\ from \in Nat /\ Len(log) \in Nat /\ (cursor # None => cursor \in Nat)
  BY <1>0, PositionsType, BoundAssumption DEF FeedIsComplete, Position
<1> HIDE DEF C
<1>3. /\ op' \in Operation
      /\ op'.kind = scan.kind /\ op'.step = "read" /\ op'.position = Len(log)
      /\ op'.todo = Affected(C) /\ op'.asked = Affected(C) /\ op'.gone = Gone(C)
      /\ op'.papers = scan.papers
  <2>1. op' = [scan EXCEPT !.step = "read", !.position = Len(log), !.todo = Affected(C),
                           !.asked = Affected(C), !.gone = Gone(C), !.found = Empty]
    BY DEF Scoped, C
  <2>2. Affected(C) \subseteq Paper /\ Gone(C) \subseteq Paper
    BY <1>1
  <2>3. Len(log) \in Position /\ Empty \in Catalog
    BY <1>2, NoOpType
  <2>4. op' = [kind |-> scan.kind, step |-> "read", position |-> Len(log), todo |-> Affected(C),
               asked |-> Affected(C), found |-> Empty, gone |-> Gone(C), papers |-> scan.papers,
               attempt |-> scan.attempt, failed |-> scan.failed]
    BY <2>1 DEF Operation
  <2> QED
    BY <2>2, <2>3, <2>4 DEF Operation
<1>4. TypeOK'
  BY <1>0, <1>3 DEF TypeOK, driveVars, removalVars
<1>5. Steps'
  BY <1>2, <1>3 DEF Steps, Scanning, driveVars
<1>6. Discovered' /\ Reconciled' /\ Storing' /\ Decided'
  BY <1>3 DEF Discovered, Reconciled, Storing, Decided, Scanning
<1>7. OneWrite'
  BY NoWriteOfOp DEF OneWrite
<1>8. drive' = drive /\ log' = log /\ cursor' = cursor
  BY DEF driveVars
<1>9. ReadAgain'
  <2>1. ASSUME NEW p \in Affected(C)
        PROVE  cursor # None => drive[p].ver > cursor
    BY <1>1, <1>2, <1>0, PositionsType
  <2>2. ASSUME NEW p \in Paper \ Affected(C)
        PROVE  /\ cursor # None /\ drive[p].ver <= cursor => Agrees(scan.papers[p], p)'
               /\ \/ Agrees(scan.papers[p], p)'
                  \/ scan.kind = "baseline" /\ scan.papers[p] # None /\ scan.papers[p].attention
    <3>1. drive[p].ver <= from
      BY <1>0, <1>1, <1>2, PositionsType
    <3>2. \A e : Agrees(e, p)' <=> Agrees(e, p)
      BY <1>8, Unmoved
    <3>3. /\ cursor # None /\ drive[p].ver <= cursor => Agrees(scan.papers[p], p)
          /\ \/ Agrees(scan.papers[p], p)
             \/ scan.kind = "baseline" /\ scan.papers[p] # None /\ scan.papers[p].attention
      BY <3>1
    <3>4. Agrees(scan.papers[p], p)' <=> Agrees(scan.papers[p], p)
      BY <1>8, SameReading
    <3> QED
      BY <3>3, <3>4
  <2> QED
    BY <1>1, <1>3, <1>8, <2>1, <2>2 DEF ReadAgain
<1> QED
  BY <1>4, <1>5, <1>6, <1>7, <1>9, OperationKeepsInv

LEMMA StartBaselineKeepsInv == IInv /\ StartBaseline => IInv'
<1> SUFFICES ASSUME IInv, StartBaseline PROVE IInv'
  OBVIOUS
<1>1. op.step # "saving"
  BY DEF StartBaseline, MayScan, Running, IInv, Steps
<1>2. 1 \in 0..MaxAttempts
  BY DEF MaxAttempts
<1> QED
  BY <1>1, <1>2, BaselineKeepsInv DEF StartBaseline

LEMMA StartIncrementalKeepsInv == IInv /\ StartIncremental => IInv'
<1> SUFFICES ASSUME IInv, StartIncremental PROVE IInv'
  OBVIOUS
<1> DEFINE C == Changes(cursor, Len(log))
<1> DEFINE start == [NoOp EXCEPT !.kind = "incremental", !.papers = view]
<1>0. TypeOK /\ FeedIsComplete
  BY DEF IInv
<1>1. op.step # "saving"
  BY DEF StartIncremental, MayScan, Running, IInv, Steps
<1>2. cursor # None /\ cursor \in Position /\ cursor <= Len(log)
  BY <1>0 DEF StartIncremental, TypeOK, FeedIsComplete
<1>3. UNCHANGED <<driveVars, cursor, catalog, view, writes, removalVars>>
  BY DEF StartIncremental
<1>4. \/ op' = Baseline(1)
      \/ C = {} /\ op' = Committing(Len(log))
      \/ op' = Scoped(start, C)
  BY DEF StartIncremental
<1>5. \A p \in Paper : drive[p].ver <= cursor => Agrees(view[p], p)
  BY <1>2 DEF IInv, ToCursor
<1>6. CASE op' = Baseline(1)
  <2>1. 1 \in 0..MaxAttempts
    BY DEF MaxAttempts
  <2> QED
    BY <1>1, <1>3, <1>6, <2>1, BaselineKeepsInv
<1>7. CASE C = {} /\ op' = Committing(Len(log))
  <2>1. \A p \in Paper : Agrees(view[p], p)
    <3>1. \A p \in Paper : p \in Affected(C) <=> drive[p].ver > cursor
      BY <1>0, <1>2, ChangesAreNamed
    <3>2. Affected(C) = {}
      BY <1>7 DEF Affected
    <3>3. \A p \in Paper : drive[p].ver \in Nat /\ cursor \in Nat
      BY <1>0, <1>2, PositionsType
    <3> HIDE DEF C
    <3>4. ASSUME NEW p \in Paper PROVE Agrees(view[p], p)
      <4>1. p \notin Affected(C)
        BY <3>2
      <4>2. ~(drive[p].ver > cursor)
        BY <3>1, <4>1
      <4>3. drive[p].ver \in Nat /\ cursor \in Nat
        BY <3>3
      <4>4. drive[p].ver <= cursor
        BY <4>2, <4>3
      <4> QED
        BY <1>5, <4>4
    <3> QED
      BY <3>4
  <2>2. /\ op' \in Operation
        /\ op'.kind = "commit" /\ op'.step = "commit" /\ op'.position = Len(log)
    <3>1. Len(log) \in Position
      BY <1>0, PositionsType DEF FeedIsComplete
    <3> QED
      BY <1>7, <3>1, NoOpType DEF Committing, NoOp, Operation
  <2>3. TypeOK'
    BY <1>0, <1>3, <2>2 DEF TypeOK, driveVars, removalVars
  <2>4. Steps'
    BY <1>0, <1>3, <2>2, PositionsType DEF Steps, Scanning, driveVars
  <2>5. Discovered' /\ ReadAgain' /\ Reconciled' /\ Storing'
    BY <2>2 DEF Discovered, ReadAgain, Reconciled, Storing, Scanning
  <2>6. Decided'
    BY <1>3, <2>1, Unmoved DEF Decided, driveVars
  <2>7. OneWrite'
    BY <1>1, <1>3, NoWriteOfOp DEF OneWrite
  <2> QED
    BY <1>3, <2>3, <2>4, <2>5, <2>6, <2>7, OperationKeepsInv
<1>8. CASE op' = Scoped(start, C)
  <2>1. start \in Operation /\ start.kind = "incremental" /\ start.papers = view
    BY <1>0, NoOpType DEF TypeOK, NoOp, Operation
  <2>2. cursor # None => cursor <= cursor
    BY <1>2, BoundAssumption DEF Position
  <2>3. start.kind \in {"incremental", "baseline"}
    BY <2>1
  <2>4. \A p \in Paper : drive[p].ver <= cursor =>
            /\ cursor # None /\ drive[p].ver <= cursor => Agrees(start.papers[p], p)
            /\ \/ Agrees(start.papers[p], p)
               \/ start.kind = "baseline" /\ start.papers[p] # None /\ start.papers[p].attention
    BY <1>5, <2>1
  <2>5. op' = Scoped(start, Changes(cursor, Len(log)))
    BY <1>8
  <2> HIDE DEF start
  <2> QED
    BY <1>1, <1>2, <1>3, <2>1, <2>2, <2>3, <2>4, <2>5, ScopedKeepsInv
<1> QED
  BY <1>4, <1>6, <1>7, <1>8

LEMMA ReadPaperKeepsInv == ASSUME NEW q \in Paper, IInv, ReadPaper(q) PROVE IInv'
<1>0. TypeOK /\ Steps
  BY DEF IInv
<1>1. /\ drive' = drive /\ log' = log /\ cursor' = cursor /\ view' = view /\ writes' = writes
      /\ UNCHANGED <<driveVars, cursor, catalog, view, writes, removalVars>>
  BY DEF ReadPaper, driveVars
<1>2. \A p \in Paper : Reading(p)' = Reading(p) /\ \A e : Agrees(e, p)' <=> Agrees(e, p)
  BY <1>1, Unmoved
<1>3. q \in op.todo /\ op' = [op EXCEPT !.todo = @ \ {q}, !.found[q] = Reading(q)]
  BY DEF ReadPaper
<1>4. op \in Operation /\ op.found \in Catalog
  BY <1>0 DEF TypeOK, Operation
<1>5. Reading(q) \in Entry \cup {None}
  BY <1>0, PositionsType, ReadingType
<1>6. /\ op'.kind = op.kind /\ op'.step = op.step /\ op'.position = op.position
      /\ op'.asked = op.asked /\ op'.gone = op.gone /\ op'.papers = op.papers
      /\ op'.attempt = op.attempt /\ op'.failed = op.failed
      /\ op'.todo = op.todo \ {q} /\ op'.found = [op.found EXCEPT ![q] = Reading(q)]
  BY <1>3, <1>4 DEF Operation
<1>7. op'.found[q] = Reading(q) /\ \A p \in Paper : p # q => op'.found[p] = op.found[p]
  BY <1>4, <1>6 DEF Catalog
<1>8. TypeOK'
  <2>1. op'.found \in Catalog
    BY <1>4, <1>5, <1>6 DEF Catalog
  <2>2. op' \in Operation
    <3>1. op' = [kind |-> op.kind, step |-> op.step, position |-> op.position,
                 todo |-> op.todo \ {q}, asked |-> op.asked, found |-> op'.found,
                 gone |-> op.gone, papers |-> op.papers, attempt |-> op.attempt,
                 failed |-> op.failed]
      BY <1>3, <1>4, <1>6 DEF Operation
    <3> QED
      BY <1>4, <2>1, <3>1 DEF Operation
  <2> QED
    BY <1>0, <1>1, <2>2 DEF TypeOK, removalVars
<1>9. Steps'
  BY <1>0, <1>1, <1>6 DEF Steps, Scanning
<1>10. Discovered'
  BY <1>1, <1>2, <1>6, <1>7 DEF IInv, Discovered
<1>11. ReadAgain'
  <2> SUFFICES ASSUME Scanning, op.step = "read" PROVE ReadAgain'
    BY <1>6 DEF ReadAgain, Scanning
  <2>1. op.asked \subseteq Paper
    BY <1>4 DEF Operation
  <2>2. ReadAgain
    BY DEF IInv
  <2>3. ASSUME NEW p \in op.asked
        PROVE  /\ cursor # None => drive[p].ver > cursor
               /\ p \notin op'.todo /\ drive[p].ver <= op.position => op'.found[p] = Reading(p)'
    BY <1>2, <1>6, <1>7, <2>1, <2>2 DEF ReadAgain
  <2> QED
    BY <1>1, <1>2, <1>6, <2>2, <2>3 DEF ReadAgain
<1>12. Reconciled'
  <2>1. op.asked \subseteq Paper
    BY <1>4 DEF Operation
  <2> QED
    BY <1>1, <1>2, <1>6, <1>7, <2>1 DEF IInv, Reconciled
<1>13. Storing'
  BY <1>1, <1>2, <1>6 DEF IInv, Storing, ToCursor, Scanning
<1>14. Decided'
  BY <1>1, <1>2, <1>6 DEF IInv, Decided
<1>15. OneWrite'
  BY <1>1, <1>6 DEF IInv, OneWrite
<1> QED
  BY <1>1, <1>8, <1>9, <1>10, <1>11, <1>12, <1>13, <1>14, <1>15, OperationKeepsInv

\* What the first reading found, and what it did not, stands for what has not changed.
LEMMA ReplayKeepsInv == IInv /\ Replay => IInv'
<1> SUFFICES ASSUME IInv, Replay PROVE IInv'
  OBVIOUS
<1> DEFINE papers == RetainMissing(op.found)
<1> DEFINE C == Changes(op.position, Len(log))
<1> DEFINE scan == [op EXCEPT !.papers = papers]
<1>0. TypeOK /\ Steps /\ Discovered /\ ToCursor(view)
  BY DEF IInv
<1>1. op.step = "discover" /\ op.todo = {} /\ op.kind = "baseline"
  BY <1>0 DEF Replay, At, Steps
<1>2. UNCHANGED <<driveVars, cursor, catalog, view, writes, removalVars>>
  BY DEF Replay
<1>3. \/ op.attempt < MaxAttempts /\ op' = Baseline(op.attempt + 1)
      \/ op' = Scoped(scan, C)
  BY DEF Replay
<1>4. CASE op.attempt < MaxAttempts /\ op' = Baseline(op.attempt + 1)
  <2>1. op.attempt + 1 \in 0..MaxAttempts
    BY <1>0, <1>4 DEF TypeOK, Operation, MaxAttempts
  <2> QED
    BY <1>1, <1>2, <1>4, <2>1, BaselineKeepsInv
<1>5. CASE op' = Scoped(scan, C)
  <2>1. papers \in Catalog
    BY <1>0, RetainMissingType DEF TypeOK, Operation
  <2>2. scan \in Operation /\ scan.kind = "baseline" /\ scan.papers = papers
    BY <1>0, <1>1, <2>1 DEF TypeOK, Operation
  <2>3. op.position \in Position /\ op.position <= Len(log) /\ (cursor # None => cursor <= op.position)
    BY <1>0, <1>1 DEF TypeOK, Operation, Steps, Scanning
  <2>4. ASSUME NEW p \in Paper, drive[p].ver <= op.position
        PROVE  /\ cursor # None /\ drive[p].ver <= cursor => Agrees(papers[p], p)
               /\ \/ Agrees(papers[p], p)
                  \/ papers[p] # None /\ papers[p].attention
    <3>1. op.found[p] = Reading(p) /\ drive[p] \in PaperInDrive
      BY <1>0, <1>1, <2>4, PositionsType DEF Discovered
    <3>2. papers[p] = IF Reading(p) = None /\ view[p] # None /\ view[p].state = "present"
                      THEN Attention(view[p]) ELSE Reading(p)
      BY <3>1 DEF RetainMissing
    <3>3. view[p] \in Entry \cup {None}
      BY <1>0 DEF TypeOK, Catalog
    <3>4. papers[p] # Reading(p) => papers[p] # None /\ papers[p].attention
      BY <3>2, <3>3, AttentionType
    <3>5. Agrees(Reading(p), p) \/ (Reading(p) # None /\ Reading(p).attention)
      BY <3>1, ReadAgrees
    <3>6. ASSUME Agrees(view[p], p) PROVE Agrees(papers[p], p)
      <4>1. ~Unverified(p) /\ (view[p] = Reading(p) \/ view[p] = None)
        BY <3>6 DEF Agrees
      <4>2. papers[p] = Reading(p)
        BY <3>2, <4>1
      <4> QED
        BY <4>1, <4>2 DEF Agrees
    <3> QED
      BY <1>0, <3>4, <3>5, <3>6 DEF ToCursor
  <2>5. \A p \in Paper : drive[p].ver <= op.position =>
            /\ cursor # None /\ drive[p].ver <= cursor => Agrees(scan.papers[p], p)
            /\ \/ Agrees(scan.papers[p], p)
               \/ scan.kind = "baseline" /\ scan.papers[p] # None /\ scan.papers[p].attention
    BY <2>2, <2>4
  <2>6. op' = Scoped(scan, Changes(op.position, Len(log)))
    BY <1>5
  <2>7. scan.kind \in {"incremental", "baseline"} /\ op.step # "saving"
    BY <1>1, <2>2
  <2> HIDE DEF scan
  <2> QED
    BY <1>2, <2>2, <2>3, <2>5, <2>6, <2>7, ScopedKeepsInv
<1> QED
  BY <1>3, <1>4, <1>5

LEMMA SettleKeepsInv == IInv /\ Settle => IInv'
<1> SUFFICES ASSUME IInv, Settle PROVE IInv'
  OBVIOUS
<1>0. TypeOK /\ FeedIsComplete /\ Steps
  BY DEF IInv
<1>1. /\ Scanning /\ op.step = "saved" /\ view' = op.papers
      /\ op' = IF op.failed THEN NoOp ELSE Committing(op.position)
      /\ drive' = drive /\ log' = log /\ cursor' = cursor /\ writes' = writes
      /\ UNCHANGED <<catalog, local, removing, reconcile>>
  BY DEF Settle, At, Scanning, driveVars, removalVars
<1>2. ToCursor(op.papers) /\ (~op.failed =>
          \A p \in Paper : drive[p].ver <= op.position => Agrees(op.papers[p], p))
  BY <1>1 DEF IInv, Storing
<1>3. \A p \in Paper : \A e : Agrees(e, p)' <=> Agrees(e, p)
  BY <1>1, Unmoved
<1>4. /\ op' \in Operation
      /\ \/ op'.kind = "none" /\ op'.step = "idle"
         \/ ~op.failed /\ op'.kind = "commit" /\ op'.step = "commit" /\ op'.position = op.position
  <2>1. op.position \in Position
    BY <1>0 DEF TypeOK, Operation
  <2> QED
    BY <1>1, <2>1, NoOpType DEF Committing, NoOp, Operation
<1>5. TypeOK'
  <2>1. op.papers \in Catalog
    BY <1>0 DEF TypeOK, Operation
  <2> QED
    BY <1>0, <1>1, <1>4, <2>1 DEF TypeOK
<1>6. FeedIsComplete'
  BY <1>0, <1>1 DEF FeedIsComplete
<1>7. Steps'
  BY <1>0, <1>1, <1>4 DEF Steps, Scanning
<1>8. Discovered' /\ ReadAgain' /\ Reconciled' /\ Storing'
  BY <1>4 DEF Discovered, ReadAgain, Reconciled, Storing, Scanning
<1>9. Decided' /\ ToCursor(view)'
  BY <1>1, <1>2, <1>3, <1>4 DEF Decided, ToCursor
<1>10. OneWrite'
  BY <1>1, NoWriteOfOp DEF OneWrite
<1> QED
  BY <1>5, <1>6, <1>7, <1>8, <1>9, <1>10 DEF IInv

LEMMA CommitKeepsInv == IInv /\ Commit => IInv'
<1> SUFFICES ASSUME IInv, Commit PROVE IInv'
  OBVIOUS
<1>0. TypeOK /\ FeedIsComplete /\ Steps
  BY DEF IInv
<1>1. /\ op.kind = "commit" /\ op.step = "commit" /\ op' = NoOp /\ cursor' = op.position
      /\ drive' = drive /\ log' = log /\ view' = view /\ writes' = writes
      /\ UNCHANGED <<catalog, local, removing, reconcile>>
  BY <1>0 DEF Commit, Running, Steps, driveVars, removalVars
<1>2. op'.kind = "none" /\ op'.step = "idle"
  BY <1>1 DEF NoOp
<1>3. op.position \in Position /\ op.position <= Len(log)
  BY <1>0, <1>1 DEF TypeOK, Operation, Steps
<1>4. \A p \in Paper : \A e : Agrees(e, p)' <=> Agrees(e, p)
  BY <1>1, Unmoved
<1>5. TypeOK'
  BY <1>0, <1>1, <1>3, NoOpType DEF TypeOK
<1>6. FeedIsComplete'
  BY <1>0, <1>1, <1>3 DEF FeedIsComplete
<1>7. Steps' /\ Discovered' /\ ReadAgain' /\ Reconciled' /\ Storing' /\ Decided'
  BY <1>2 DEF Steps, Discovered, ReadAgain, Reconciled, Storing, Decided, Scanning
<1>8. ToCursor(view)'
  BY <1>1, <1>4 DEF IInv, Decided, ToCursor
<1>9. OneWrite'
  BY <1>1, NoWriteOfOp DEF OneWrite
<1> QED
  BY <1>5, <1>6, <1>7, <1>8, <1>9 DEF IInv

LEMMA OpFailsKeepsInv == IInv /\ OpFails => IInv'
<1> SUFFICES ASSUME IInv, OpFails PROVE IInv'
  OBVIOUS
<1>1. op.step # "saving" /\ op' = NoOp /\ UNCHANGED <<driveVars, cursor, catalog, view, writes, removalVars>>
  BY DEF OpFails, At
<1>2. TypeOK'
  BY <1>1, NoOpType DEF IInv, TypeOK, driveVars, removalVars
<1>3. \A i \in 1..Len(writes') : writes'[i].by # "op"
  BY <1>1, NoWriteOfOp
<1> QED
  BY <1>1, <1>2, <1>3, NoOpKeepsInv

\* A scan stores what is right up to the cursor, and, unless a paper needs attention,
\* up to the position it is going to commit.
LEMMA ApplyKeepsInv == IInv /\ Apply => IInv'
<1> SUFFICES ASSUME IInv, Apply PROVE IInv'
  OBVIOUS
<1> DEFINE merged == Merged(op.papers, op.asked, op.found)
<1> DEFINE papers == RetainGone(merged, op.gone)
<1> DEFINE judged == IF op.kind = "baseline" THEN Paper ELSE op.asked
<1> DEFINE failed == \E p \in judged : papers[p] # None /\ papers[p].attention
<1>0. TypeOK /\ FeedIsComplete /\ Steps /\ ReadAgain
  BY DEF IInv
<1>1. /\ Scanning /\ op.step = "read" /\ op.todo = {}
      /\ op' = [NoOp EXCEPT !.kind = op.kind, !.step = "saving", !.position = op.position,
                            !.papers = Presented(papers), !.failed = failed]
      /\ writes' = Append(writes, [by |-> "op", catalog |-> Presented(papers)])
      /\ UNCHANGED <<driveVars, cursor, catalog, view, removalVars>>
  BY DEF Apply, At, Running, Scanning
<1>2. op \in Operation /\ view \in Catalog
  BY <1>0 DEF TypeOK
<1>3. merged \in Catalog /\ papers \in Catalog /\ Presented(papers) \in Catalog
  BY <1>2, MergedType, RetainGoneType, PresentedType DEF Operation
<1>4. /\ op.gone \subseteq op.asked
      /\ \A p \in op.asked :
             /\ cursor # None => drive[p].ver > cursor
             /\ drive[p].ver <= op.position => op.found[p] = Reading(p)
      /\ \A p \in Paper \ op.asked :
             /\ cursor # None /\ drive[p].ver <= cursor => Agrees(op.papers[p], p)
             /\ drive[p].ver <= op.position =>
                    \/ Agrees(op.papers[p], p)
                    \/ op.kind = "baseline" /\ op.papers[p] # None /\ op.papers[p].attention
  BY <1>0, <1>1 DEF ReadAgain
<1>5. ASSUME NEW p \in Paper \ op.asked PROVE papers[p] = op.papers[p]
  BY <1>4, <1>5 DEF Merged, RetainGone
<1>6. ASSUME NEW p \in Paper, cursor # None, drive[p].ver <= cursor PROVE Agrees(papers[p], p)
  <2>1. ~(drive[p].ver > cursor)
    BY <1>0, <1>6, PositionsType
  <2>2. p \notin op.asked
    BY <1>4, <1>6, <2>1
  <2> QED
    BY <1>4, <1>5, <1>6, <2>2
<1>7. ASSUME NEW p \in Paper, ~failed, drive[p].ver <= op.position PROVE Agrees(papers[p], p)
  <2>1. CASE p \notin op.asked
    <3>1. \/ Agrees(op.papers[p], p)
          \/ op.kind = "baseline" /\ op.papers[p] # None /\ op.papers[p].attention
      BY <1>4, <1>7, <2>1
    <3>2. papers[p] = op.papers[p]
      BY <1>5, <2>1
    <3> HIDE DEF papers
    <3>3. op.kind = "baseline" => papers[p] = None \/ ~papers[p].attention
      BY <1>7
    <3> QED
      BY <3>1, <3>2, <3>3
  <2>2. CASE p \in op.asked
    <3>1. op.found[p] = Reading(p) /\ drive[p] \in PaperInDrive
      BY <1>0, <1>4, <1>7, <2>2, PositionsType
    <3>2. papers[p] = None \/ ~papers[p].attention
      BY <1>7, <2>2
    <3>3. /\ merged[p] = IF Reading(p) # None THEN Reading(p) ELSE Attention(op.papers[p])
          /\ \/ papers[p] = merged[p]
             \/ \E e \in Entry : papers[p] = Attention(e)
      <4>1. merged[p] = IF Reading(p) # None THEN Reading(p) ELSE Attention(op.papers[p])
        BY <2>2, <3>1 DEF Merged
      <4>2. merged[p] \in Entry \cup {None} /\ view[p] \in Entry \cup {None}
        BY <1>2, <1>3 DEF Catalog
      <4> HIDE DEF merged
      <4> QED
        BY <4>1, <4>2 DEF RetainGone
    <3>4. papers[p] = merged[p]
      <4>1. ASSUME NEW e \in Entry, papers[p] = Attention(e) PROVE FALSE
        <5>1. Attention(e) # None /\ Attention(e).attention
          BY AttentionType, NoneAssumption
        <5> QED
          BY <3>2, <4>1, <5>1
      <4> QED
        BY <3>3, <4>1
    <3>5. op.papers[p] \in Entry \cup {None}
      BY <1>2 DEF Operation, Catalog
    <3>6. Attention(op.papers[p]) = None \/ Attention(op.papers[p]).attention
      BY <3>5, AttentionType DEF Attention
    <3>7. papers[p] = Reading(p)
      BY <3>2, <3>3, <3>4, <3>6
    <3> QED
      BY <3>1, <3>2, <3>7, ReadAgrees
  <2> QED
    BY <2>1, <2>2
<1>8. \A p \in Paper : Agrees(papers[p], p) => Agrees(Presented(papers)[p], p)
  BY <1>3, PresentedAgrees
<1>9. failed \in BOOLEAN
  OBVIOUS
<1> HIDE DEF papers, failed, merged
<1>10. /\ op' \in Operation
       /\ op'.kind = op.kind /\ op'.step = "saving" /\ op'.position = op.position
       /\ op'.papers = Presented(papers) /\ op'.failed = failed
  BY <1>1, <1>2, <1>3, <1>9, NoOpType DEF NoOp, Operation
<1>11. writes' \in Seq(CatalogWrite)
  <2>1. [by |-> "op", catalog |-> Presented(papers)] \in CatalogWrite
    BY <1>3 DEF CatalogWrite
  <2> QED
    BY <1>0, <1>1, <2>1 DEF TypeOK
<1>12. TypeOK'
  BY <1>0, <1>1, <1>10, <1>11 DEF TypeOK, driveVars, removalVars
<1>13. drive' = drive /\ log' = log /\ cursor' = cursor /\ \A p \in Paper : \A e : Agrees(e, p)' <=> Agrees(e, p)
  BY <1>1, Unmoved DEF driveVars
<1>14. Steps'
  BY <1>0, <1>1, <1>10, <1>13 DEF Steps, Scanning
<1>15. Discovered' /\ ReadAgain' /\ Reconciled' /\ Decided'
  BY <1>1, <1>10 DEF Discovered, ReadAgain, Reconciled, Decided, Scanning
<1>16. Storing'
  BY <1>6, <1>7, <1>8, <1>10, <1>13 DEF Storing, ToCursor
<1>17. OneWrite'
  <2>1. /\ Len(writes') = Len(writes) + 1 /\ Len(writes) \in Nat
        /\ \A i \in 1..Len(writes) : writes'[i] = writes[i]
    BY <1>0, <1>1 DEF TypeOK
  <2>2. \A i \in 1..Len(writes) : writes'[i].by # "op"
    BY <1>1, <2>1, NoWriteOfOp
  <2>3. \A i \in 1..Len(writes') : writes'[i].by = "op" => i = Len(writes')
    BY <2>1, <2>2
  <2> QED
    BY <1>10, <2>3 DEF OneWrite
<1> QED
  BY <1>1, <1>12, <1>14, <1>15, <1>16, <1>17, OperationKeepsInv

--------------------------------------------------------------------------------
(* Local removals and their reconciliation *)

LEMMA StartReconcileKeepsInv == IInv /\ StartReconcile => IInv'
<1> SUFFICES ASSUME IInv, StartReconcile PROVE IInv'
  OBVIOUS
<1>0. TypeOK /\ FeedIsComplete /\ Steps
  BY DEF IInv
<1>1. /\ op.kind = "none" /\ op.step # "saving"
      /\ op' = [NoOp EXCEPT !.kind = "reconcile", !.step = "read", !.todo = reconcile, !.asked = reconcile]
      /\ reconcile' = {}
      /\ UNCHANGED <<driveVars, cursor, catalog, view, writes, local, removing>>
  BY <1>0 DEF StartReconcile, Running, Steps
<1>2. /\ op' \in Operation
      /\ op'.kind = "reconcile" /\ op'.step = "read" /\ op'.todo = reconcile /\ op'.asked = reconcile
  BY <1>0, <1>1, NoOpType DEF TypeOK, NoOp, Operation
<1>3. TypeOK'
  BY <1>0, <1>1, <1>2 DEF TypeOK, driveVars
<1>4. Steps' /\ Discovered' /\ ReadAgain' /\ Reconciled' /\ Storing' /\ Decided'
  BY <1>2 DEF Steps, Discovered, ReadAgain, Reconciled, Storing, Decided, Scanning
<1>5. OneWrite'
  BY <1>1, NoWriteOfOp DEF OneWrite
<1> QED
  BY <1>1, <1>3, <1>4, <1>5, OperationKeepsInv

\* What a reconciliation read of papers the cursor knows is what was known.
LEMMA ApplyReconcileKeepsInv == IInv /\ ApplyReconcile => IInv'
<1> SUFFICES ASSUME IInv, ApplyReconcile PROVE IInv'
  OBVIOUS
<1> DEFINE merged == Merged(view, op.asked, op.found)
<1> DEFINE papers == [p \in Paper |-> IF p \in op.asked THEN Presented(merged)[p] ELSE view[p]]
<1>0. TypeOK /\ FeedIsComplete /\ Steps
  BY DEF IInv
<1>1. /\ op.kind = "reconcile" /\ op.step = "read" /\ op.todo = {}
      /\ op' = [NoOp EXCEPT !.kind = "reconcile", !.step = "saving", !.papers = papers]
      /\ writes' = Append(writes, [by |-> "op", catalog |-> papers])
      /\ UNCHANGED <<driveVars, cursor, catalog, view, removalVars>>
  BY DEF ApplyReconcile, At, Running
<1>2. op \in Operation /\ view \in Catalog
  BY <1>0 DEF TypeOK
<1>3. merged \in Catalog /\ Presented(merged) \in Catalog
  BY <1>2, MergedType, PresentedType DEF Operation
<1>4. papers \in Catalog
  BY <1>2, <1>3 DEF Catalog
<1>5. ASSUME NEW p \in Paper, cursor # None, drive[p].ver <= cursor PROVE Agrees(papers[p], p)
  <2>1. Agrees(view[p], p)
    BY <1>5 DEF IInv, ToCursor
  <2>2. CASE p \notin op.asked
    BY <2>1, <2>2
  <2>3. CASE p \in op.asked
    <3>1. op.found[p] = Reading(p)
      BY <1>1, <1>5, <2>3 DEF IInv, Reconciled
    <3>2. merged[p] = IF Reading(p) # None THEN Reading(p) ELSE Attention(view[p])
      BY <2>3, <3>1 DEF Merged
    <3>3. Reading(p) = None => view[p] = None
      BY <2>1 DEF Agrees
    <3>4. merged[p] = Reading(p)
      BY <3>2, <3>3 DEF Attention
    <3>5. Agrees(Reading(p), p)
      BY <2>1 DEF Agrees
    <3>6. Agrees(Presented(merged)[p], p)
      BY <1>3, <3>4, <3>5, PresentedAgrees
    <3> QED
      BY <2>3, <3>6
  <2> QED
    BY <2>2, <2>3
<1> HIDE DEF papers, merged
<1>6. /\ op' \in Operation
      /\ op'.kind = "reconcile" /\ op'.step = "saving" /\ op'.papers = papers
  BY <1>1, <1>4, NoOpType DEF NoOp, Operation
<1>7. writes' \in Seq(CatalogWrite)
  <2>1. [by |-> "op", catalog |-> papers] \in CatalogWrite
    BY <1>4 DEF CatalogWrite
  <2> QED
    BY <1>0, <1>1, <2>1 DEF TypeOK
<1>8. TypeOK'
  BY <1>0, <1>1, <1>6, <1>7 DEF TypeOK, driveVars, removalVars
<1>9. Steps' /\ Discovered' /\ ReadAgain' /\ Reconciled' /\ Decided'
  BY <1>6 DEF Steps, Discovered, ReadAgain, Reconciled, Decided, Scanning
<1>10. Storing'
  <2>1. drive' = drive /\ cursor' = cursor /\ \A p \in Paper : \A e : Agrees(e, p)' <=> Agrees(e, p)
    BY <1>1, Unmoved DEF driveVars
  <2> QED
    BY <1>5, <1>6, <2>1 DEF Storing, ToCursor, Scanning
<1>11. OneWrite'
  <2>1. /\ Len(writes') = Len(writes) + 1 /\ Len(writes) \in Nat
        /\ \A i \in 1..Len(writes) : writes'[i] = writes[i]
    BY <1>0, <1>1 DEF TypeOK
  <2>2. \A i \in 1..Len(writes) : writes'[i].by # "op"
    BY <1>1, <2>1, NoWriteOfOp
  <2>3. \A i \in 1..Len(writes') : writes'[i].by = "op" => i = Len(writes')
    BY <2>1, <2>2
  <2> QED
    BY <1>6, <2>3 DEF OneWrite
<1> QED
  BY <1>1, <1>8, <1>9, <1>10, <1>11, OperationKeepsInv

LEMMA SettleReconcileKeepsInv == IInv /\ SettleReconcile => IInv'
<1> SUFFICES ASSUME IInv, SettleReconcile PROVE IInv'
  OBVIOUS
<1>1. /\ op.step = "saved" /\ view' = op.papers /\ op' = NoOp
      /\ drive' = drive /\ log' = log /\ cursor' = cursor /\ writes' = writes
      /\ UNCHANGED <<catalog, local, removing, reconcile>>
  BY DEF SettleReconcile, At, driveVars, removalVars
<1>2. op'.kind = "none" /\ op'.step = "idle"
  BY <1>1 DEF NoOp
<1>3. ToCursor(op.papers)
  BY <1>1 DEF IInv, Storing
<1>4. TypeOK'
  <2>1. op.papers \in Catalog
    BY DEF IInv, TypeOK, Operation
  <2> QED
    BY <1>1, <2>1, NoOpType DEF IInv, TypeOK
<1>5. FeedIsComplete'
  BY <1>1 DEF IInv, FeedIsComplete
<1>6. Steps' /\ Discovered' /\ ReadAgain' /\ Reconciled' /\ Storing' /\ Decided'
  BY <1>2 DEF Steps, Discovered, ReadAgain, Reconciled, Storing, Decided, Scanning
<1>7. ToCursor(view)'
  <2>1. \A p \in Paper : \A e : Agrees(e, p)' <=> Agrees(e, p)
    BY <1>1, Unmoved
  <2> QED
    BY <1>1, <1>3, <2>1 DEF ToCursor
<1>8. OneWrite'
  BY <1>1, NoWriteOfOp DEF OneWrite
<1> QED
  BY <1>4, <1>5, <1>6, <1>7, <1>8 DEF IInv

\* While Drive, the cursor and the operation stay, so does what the operation knows.
LEMMA SameOperation ==
    ASSUME IInv, UNCHANGED <<driveVars, cursor, op>>
    PROVE  Steps' /\ Discovered' /\ ReadAgain' /\ Reconciled' /\ Storing' /\ FeedIsComplete'
<1>1. /\ drive' = drive /\ log' = log /\ cursor' = cursor /\ op' = op
      /\ \A p \in Paper : Reading(p)' = Reading(p) /\ \A e : Agrees(e, p)' <=> Agrees(e, p)
  BY Unmoved DEF driveVars
<1>2. op.asked \subseteq Paper
  BY DEF IInv, TypeOK, Operation
<1>3. Steps' /\ FeedIsComplete'
  BY <1>1 DEF IInv, Steps, Scanning, FeedIsComplete
<1>4. Discovered'
  BY <1>1 DEF IInv, Discovered
<1>5. ReadAgain'
  BY <1>1, <1>2 DEF IInv, ReadAgain, Scanning
<1>6. Reconciled'
  BY <1>1, <1>2 DEF IInv, Reconciled
<1>7. Storing'
  BY <1>1 DEF IInv, Storing, ToCursor, Scanning
<1> QED
  BY <1>3, <1>4, <1>5, <1>6, <1>7

LEMMA RemovalKeepsInv ==
    ASSUME IInv, NEW q \in Paper, StartRemoval(q) \/ AbortRemoval(q)
    PROVE  IInv'
<1>1. UNCHANGED <<driveVars, cursor, view, catalog, writes, op, local, reconcile>> /\ removing' \subseteq removing \cup {q}
  BY DEF StartRemoval, AbortRemoval
<1>2. TypeOK'
  BY <1>1 DEF IInv, TypeOK, driveVars
<1>3. Decided'
  BY <1>1, Unmoved DEF IInv, Decided, driveVars
<1>4. OneWrite'
  BY <1>1 DEF IInv, OneWrite
<1> QED
  BY <1>1, <1>2, <1>3, <1>4, SameOperation, OperationKeepsInv

\* The entry of a removed paper goes, and a removed paper may be left out.
LEMMA CommitRemovalKeepsInv ==
    ASSUME IInv, NEW q \in Paper, CommitRemoval(q)
    PROVE  IInv'
<1>0. TypeOK
  BY DEF IInv
<1>1. /\ view' = [view EXCEPT ![q] = IF @ # None /\ @.state = "removed" THEN None ELSE @]
      /\ writes' = Append(writes, [by |-> q, catalog |-> view'])
      /\ local' = local \ {q}
      /\ drive' = drive /\ cursor' = cursor /\ op' = op
      /\ UNCHANGED <<driveVars, cursor, catalog, op, removing, reconcile>>
  BY DEF CommitRemoval, driveVars
<1>2. view' \in Catalog
  BY <1>0, <1>1 DEF TypeOK, Catalog
<1>3. writes' \in Seq(CatalogWrite)
  <2>1. [by |-> q, catalog |-> view'] \in CatalogWrite
    BY <1>2 DEF CatalogWrite
  <2> QED
    BY <1>0, <1>1, <2>1 DEF TypeOK
<1>4. TypeOK'
  BY <1>0, <1>1, <1>2, <1>3 DEF TypeOK, driveVars
<1>5. ASSUME NEW p \in Paper, Agrees(view[p], p) PROVE Agrees(view[p], p)'
  <2>1. Agrees(view'[p], p)
    <3>1. view \in Catalog
      BY <1>0 DEF TypeOK
    <3>2. view[p] # None /\ view[p].state = "removed" => Agrees(None, p)
      BY <1>5, <3>1, PresentedAgrees
    <3>3. view'[p] = view[p] \/ (view[p] # None /\ view[p].state = "removed" /\ view'[p] = None)
      BY <1>1, <3>1 DEF Catalog
    <3> QED
      BY <1>5, <3>2, <3>3
  <2> QED
    BY <1>1, <2>1, Unmoved
<1>6. ToCursor(view)'
  BY <1>1, <1>5 DEF IInv, ToCursor
<1>7. Decided'
  BY <1>1, <1>5 DEF IInv, Decided
<1>8. OneWrite'
  <2>1. /\ Len(writes') = Len(writes) + 1 /\ Len(writes) \in Nat
        /\ writes'[Len(writes) + 1].by = q
        /\ \A i \in 1..Len(writes) : writes'[i] = writes[i]
    BY <1>0, <1>1 DEF TypeOK
  <2>2. \A i \in 1..Len(writes') : writes'[i].by = "op" => i \in 1..Len(writes) /\ writes[i].by = "op"
    BY <2>1, PaperAssumption
  <2> QED
    BY <1>1, <2>2 DEF IInv, OneWrite
<1> QED
  BY <1>1, <1>4, <1>6, <1>7, <1>8, SameOperation DEF IInv

\* A write of the operation ends as the last of its writes.
LEMMA WriteEndsKeepsInv ==
    ASSUME IInv, NEW landed \in BOOLEAN, WriteEnds(landed)
    PROVE  IInv'
<1> DEFINE write == Head(writes)
<1>0. TypeOK /\ FeedIsComplete /\ Steps /\ OneWrite /\ Storing
  BY DEF IInv
<1>1. /\ writes # <<>> /\ writes' = Tail(writes)
      /\ catalog' = IF landed THEN write.catalog ELSE catalog
      /\ op' = IF write.by # "op" THEN op
               ELSE IF landed THEN [op EXCEPT !.step = "saved"] ELSE NoOp
      /\ removing' = removing \ {write.by}
      /\ reconcile' = reconcile \cup ({write.by} \cap Paper)
      /\ drive' = drive /\ cursor' = cursor /\ log' = log /\ view' = view /\ local' = local
      /\ UNCHANGED <<driveVars, cursor, view>>
  BY DEF WriteEnds, driveVars
<1>2. /\ write \in CatalogWrite /\ writes' \in Seq(CatalogWrite)
      /\ Len(writes) \in Nat \ {0} /\ Len(writes') = Len(writes) - 1 /\ write = writes[1]
      /\ \A i \in 1..Len(writes') : writes'[i] = writes[i + 1]
  BY <1>0, <1>1 DEF TypeOK
<1>3. \A i \in 1..Len(writes') : i + 1 \in 1..Len(writes) /\ writes'[i] = writes[i + 1]
  BY <1>2
<1> HIDE DEF write
<1>4. ASSUME op' \in Operation PROVE TypeOK'
  <2>1. catalog' \in Catalog
    BY <1>0, <1>1, <1>2 DEF TypeOK, CatalogWrite
  <2> QED
    BY <1>0, <1>1, <1>2, <1>4, <2>1 DEF TypeOK
<1>5. CASE write.by # "op"
  <2>1. op' = op
    BY <1>1, <1>5
  <2>2. TypeOK'
    BY <1>0, <1>4, <2>1 DEF TypeOK
  <2>3. Decided'
    BY <1>1, <2>1, Unmoved DEF IInv, Decided
  <2>4. OneWrite'
    <3> SUFFICES ASSUME NEW i \in 1..Len(writes'), writes'[i].by = "op"
                 PROVE  op.step = "saving" /\ \A j \in 1..Len(writes') : writes'[j].by = "op" => j = i
      BY <2>1 DEF OneWrite
    <3>1. /\ op.step = "saving"
          /\ \A j \in 1..Len(writes) : writes[j].by = "op" => j = i + 1
      BY <1>0, <1>3 DEF OneWrite
    <3>2. ASSUME NEW j \in 1..Len(writes'), writes'[j].by = "op" PROVE j = i
      <4>1. j + 1 = i + 1
        BY <1>3, <3>1, <3>2
      <4> QED
        BY <4>1
    <3> QED
      BY <3>1, <3>2
  <2> QED
    BY <1>1, <2>1, <2>2, <2>3, <2>4, SameOperation, OperationKeepsInv
<1>6. CASE write.by = "op"
  <2>1. 1 \in 1..Len(writes) /\ writes[1].by = "op"
    BY <1>2, <1>6
  <2>2. op.step = "saving" /\ \A j \in 1..Len(writes) : writes[j].by = "op" => j = 1
    BY <1>0, <2>1 DEF OneWrite
  <2>3. \A i \in 1..Len(writes') : writes'[i].by # "op"
    <3> SUFFICES ASSUME NEW i \in 1..Len(writes'), writes'[i].by = "op" PROVE FALSE
      OBVIOUS
    <3>1. i + 1 = 1
      BY <1>3, <2>2
    <3> QED
      BY <3>1
  <2>4. CASE ~landed
    <3>1. op' = NoOp
      BY <1>1, <1>6, <2>4
    <3>2. TypeOK'
      BY <1>4, <3>1, NoOpType
    <3> QED
      BY <1>1, <2>3, <3>1, <3>2, NoOpKeepsInv
  <2>5. CASE landed
    <3>1. op' = [op EXCEPT !.step = "saved"]
      BY <1>1, <1>6, <2>5
    <3>2. /\ op' \in Operation
          /\ op'.kind = op.kind /\ op'.step = "saved" /\ op'.position = op.position
          /\ op'.papers = op.papers /\ op'.failed = op.failed
      BY <1>0, <3>1 DEF TypeOK, Operation
    <3>3. TypeOK'
      BY <1>4, <3>2
    <3>4. Steps'
      BY <1>0, <1>1, <2>2, <3>2 DEF Steps, Scanning
    <3>5. Discovered' /\ ReadAgain' /\ Reconciled' /\ Decided'
      BY <1>0, <2>2, <3>2 DEF Discovered, ReadAgain, Reconciled, Decided, Scanning, Steps
    <3>6. Storing'
      <4>1. \A p \in Paper : \A e : Agrees(e, p)' <=> Agrees(e, p)
        BY <1>1, Unmoved
      <4> QED
        BY <1>0, <1>1, <2>2, <3>2, <4>1 DEF Storing, ToCursor, Scanning
    <3>7. OneWrite'
      BY <2>3 DEF OneWrite
    <3> QED
      BY <1>1, <3>3, <3>4, <3>5, <3>6, <3>7, OperationKeepsInv
  <2> QED
    BY <2>4, <2>5
<1> QED
  BY <1>5, <1>6

--------------------------------------------------------------------------------
(* Every step *)

LEMMA InitInv == Init => IInv /\ Kept
<1> SUFFICES ASSUME Init PROVE IInv /\ Kept
  OBVIOUS
<1>0. TypeOK /\ FeedIsComplete /\ Steps
  BY InitType
<1>1. /\ view = [p \in Paper |-> Reading(p)] /\ catalog = view
      /\ writes = <<>> /\ removing = {} /\ reconcile = {}
      /\ op.kind = "none" /\ op.step = "idle"
      /\ \A p \in Paper : drive[p].state \in {"present", "absent"}
  BY DEF Init, NoOp
<1>2. \A p \in Paper : Agrees(view[p], p)
  BY <1>1 DEF Agrees, Unverified
<1>3. Discovered /\ ReadAgain /\ Reconciled /\ Storing /\ Decided
  BY <1>1 DEF Discovered, ReadAgain, Reconciled, Storing, Decided, Scanning
<1>4. OneWrite /\ ToCursor(view) /\ ToCursor(catalog)
  BY <1>1, <1>2 DEF OneWrite, ToCursor
<1> QED
  BY <1>0, <1>1, <1>3, <1>4 DEF IInv, Kept

LEMMA StutterKeepsInv == IInv /\ UNCHANGED vars => IInv'
<1> SUFFICES ASSUME IInv, UNCHANGED vars PROVE IInv'
  OBVIOUS
<1>1. UNCHANGED <<driveVars, cursor, view, op>> /\ catalog' = catalog /\ writes' = writes
      /\ local' = local /\ removing' = removing /\ reconcile' = reconcile
  BY DEF vars, driveVars
<1>2. TypeOK'
  BY <1>1 DEF IInv, TypeOK, driveVars
<1>3. Decided'
  BY <1>1, Unmoved DEF IInv, Decided, driveVars
<1>4. OneWrite'
  BY <1>1 DEF IInv, OneWrite
<1> QED
  BY <1>1, <1>2, <1>3, <1>4, SameOperation, OperationKeepsInv

\* Every step but the one in which the page opens again.
LEMMA StepKeepsInv == IInv /\ [Next]_vars => IInv' \/ Reload
<1> SUFFICES ASSUME IInv, [Next]_vars, ~Reload PROVE IInv'
  OBVIOUS
<1>1. CASE DriveNext
  BY <1>1, DriveKeepsInv
<1>2. CASE StartBaseline
  BY <1>2, StartBaselineKeepsInv
<1>3. CASE StartIncremental
  BY <1>3, StartIncrementalKeepsInv
<1>4. CASE \E p \in Paper : ReadPaper(p)
  BY <1>4, ReadPaperKeepsInv
<1>5. CASE Replay
  BY <1>5, ReplayKeepsInv
<1>6. CASE Apply
  BY <1>6, ApplyKeepsInv
<1>7. CASE Settle
  BY <1>7, SettleKeepsInv
<1>8. CASE Commit
  BY <1>8, CommitKeepsInv
<1>9. CASE OpFails
  BY <1>9, OpFailsKeepsInv
<1>10. CASE \E p \in Paper : StartRemoval(p) \/ AbortRemoval(p) \/ CommitRemoval(p)
  BY <1>10, RemovalKeepsInv, CommitRemovalKeepsInv
<1>11. CASE StartReconcile
  BY <1>11, StartReconcileKeepsInv
<1>12. CASE ApplyReconcile
  BY <1>12, ApplyReconcileKeepsInv
<1>13. CASE SettleReconcile
  BY <1>13, SettleReconcileKeepsInv
<1>14. CASE \E landed \in BOOLEAN : WriteEnds(landed)
  BY <1>14, WriteEndsKeepsInv
<1>15. CASE UNCHANGED vars
  BY <1>15, StutterKeepsInv
<1> QED
  BY <1>1, <1>2, <1>3, <1>4, <1>5, <1>6, <1>7, <1>8, <1>9, <1>10, <1>11, <1>12, <1>13, <1>14, <1>15
  DEF Next, Step

\* A paper the feed does not name after the cursor has not changed since.
LEMMA ToCursorIsCurrent ==
    ASSUME TypeOK, FeedIsComplete, NEW papers, ToCursor(papers)
    PROVE  CurrentUpToCursor(papers)
<1> SUFFICES ASSUME cursor # None, NEW p \in Paper,
                    \A i \in DOMAIN log : i > cursor => log[i].paper # p
             PROVE  Agrees(papers[p], p)
  BY DEF CurrentUpToCursor
<1>1. drive[p].ver \in Nat /\ cursor \in Nat /\ Len(log) \in Nat /\ DOMAIN log = 1..Len(log)
  BY PositionsType DEF TypeOK
<1>2. CASE drive[p].ver > cursor
  <2>1. drive[p].ver > 0 /\ drive[p].ver <= Len(log) /\ log[drive[p].ver].paper = p
    BY <1>1, <1>2 DEF FeedIsComplete
  <2> QED
    BY <1>1, <1>2, <2>1
<1>3. CASE ~(drive[p].ver > cursor)
  <2>1. drive[p].ver <= cursor
    BY <1>1, <1>3
  <2> QED
    BY <2>1 DEF ToCursor
<1> QED
  BY <1>2, <1>3

LEMMA InvIsCurrent ==
    /\ IInv => TypeOK /\ ViewIsCurrent
    /\ IInv /\ Kept => CatalogIsCurrent
BY ToCursorIsCurrent DEF IInv, Kept, ViewIsCurrent, CatalogIsCurrent

--------------------------------------------------------------------------------
(* Without local removals *)

\* Steps of Drive and steps that store nothing.
LEMMA ElsewhereKeepsKept ==
    ASSUME IInv, Kept, UNCHANGED <<cursor, catalog, writes, removing, reconcile>>,
           op'.kind # "reconcile", op.step # "saving",
           op'.step = "saved" => op'.papers = catalog,
           \A p \in Paper : cursor # None /\ drive'[p].ver <= cursor =>
               drive[p].ver <= cursor /\ (Agrees(catalog[p], p)' <=> Agrees(catalog[p], p)),
           op'.kind = "commit" =>
               \A p \in Paper : drive'[p].ver <= op'.position => Agrees(catalog[p], p)'
    PROVE  Kept'
<1>1. \A i \in 1..Len(writes) : FALSE
  BY NoWriteOfOp DEF Kept
<1> QED
  BY <1>1 DEF Kept, ToCursor

LEMMA DriveKeepsKept == IInv /\ Kept /\ DriveNext => Kept'
<1> SUFFICES ASSUME IInv, Kept, DriveNext PROVE Kept'
  OBVIOUS
<1>0. TypeOK /\ FeedIsComplete /\ Steps
  BY DEF IInv
<1>1. /\ \A q \in Paper : drive'[q].ver <= Len(log) => drive'[q] = drive[q]
      /\ cursor' = cursor /\ catalog' = catalog /\ writes' = writes
      /\ op' = op /\ removing' = removing /\ reconcile' = reconcile
      /\ drive' \in [Paper -> PaperInDrive]
  BY <1>0, DriveStep DEF removalVars
<1>2. /\ Len(log) \in Nat
      /\ cursor # None => cursor \in Nat /\ cursor <= Len(log)
      /\ op.position \in Nat
      /\ \A q \in Paper : drive[q].ver \in Nat /\ drive'[q].ver \in Nat
  BY <1>0, <1>1, BoundAssumption DEF TypeOK, FeedIsComplete, Position, PaperInDrive, Operation
<1>3. ASSUME NEW c \in Nat, c <= Len(log), NEW p \in Paper, drive'[p].ver <= c
      PROVE  /\ drive[p].ver <= c
             /\ \A e : Agrees(e, p)' <=> Agrees(e, p)
  <2>1. drive'[p] = drive[p]
    BY <1>1, <1>2, <1>3
  <2> QED
    BY <1>3, <2>1, SameReading
<1>4. op.kind = "commit" => op.position <= Len(log)
  BY <1>0 DEF Steps
<1>5. ToCursor(catalog)'
  BY <1>1, <1>2, <1>3 DEF Kept, ToCursor
<1>6. op'.kind = "commit" => \A p \in Paper : drive'[p].ver <= op'.position => Agrees(catalog[p], p)'
  BY <1>1, <1>2, <1>3, <1>4 DEF Kept
<1> QED
  BY <1>1, <1>5, <1>6 DEF Kept

\* Steps of an operation before it stores anything, and the end of one that fails.
LEMMA ScanKeepsKept ==
    ASSUME IInv, Kept, UNCHANGED <<driveVars, cursor, catalog, view, writes, removalVars>>,
           op.step # "saving", op'.kind # "reconcile", op'.step # "saved", op'.kind # "commit"
    PROVE  Kept'
<1>1. drive' = drive /\ cursor' = cursor /\ \A p \in Paper : \A e : Agrees(e, p)' <=> Agrees(e, p)
  BY Unmoved DEF driveVars
<1> QED
  BY <1>1, ElsewhereKeepsKept DEF removalVars

LEMMA StartIncrementalKeepsKept == IInv /\ Kept /\ StartIncremental => Kept'
<1> SUFFICES ASSUME IInv, Kept, StartIncremental PROVE Kept'
  OBVIOUS
<1> DEFINE C == Changes(cursor, Len(log))
<1>0. TypeOK /\ FeedIsComplete
  BY DEF IInv
<1>1. op.step # "saving"
  BY DEF StartIncremental, MayScan, Running, IInv, Steps
<1>2. UNCHANGED <<driveVars, cursor, catalog, view, writes, removalVars>>
  BY DEF StartIncremental
<1>3. \/ op'.kind \in {"baseline", "incremental"} /\ op'.step # "saved"
      \/ C = {} /\ op'.kind = "commit" /\ op'.step = "commit"
  BY DEF StartIncremental, Baseline, Scoped, Committing, NoOp
<1>4. CASE C = {} /\ op'.kind = "commit" /\ op'.step = "commit"
  <2>1. cursor # None /\ cursor \in Position /\ cursor <= Len(log)
    BY <1>0 DEF StartIncremental, TypeOK, FeedIsComplete
  <2>2. \A p \in Paper : p \in Affected(C) <=> drive[p].ver > cursor
    BY <1>0, <2>1, ChangesAreNamed
  <2>3. Affected(C) = {}
    BY <1>4 DEF Affected
  <2>4. drive' = drive /\ \A p \in Paper : \A e : Agrees(e, p)' <=> Agrees(e, p)
    BY <1>2, Unmoved DEF driveVars
  <2> HIDE DEF C
  <2>5. ASSUME NEW p \in Paper PROVE Agrees(catalog[p], p)'
    <3>1. p \notin Affected(C)
      BY <2>3
    <3>2. ~(drive[p].ver > cursor)
      BY <2>2, <3>1
    <3>3. drive[p].ver <= cursor
      BY <1>0, <2>1, <3>2, PositionsType
    <3>4. Agrees(catalog[p], p)
      BY <2>1, <3>3 DEF Kept, ToCursor
    <3>5. catalog' = catalog
      BY <1>2
    <3> QED
      BY <2>4, <3>4, <3>5
  <2> QED
    BY <1>1, <1>2, <1>4, <2>4, <2>5, ElsewhereKeepsKept DEF removalVars
<1> QED
  BY <1>1, <1>2, <1>3, <1>4, ScanKeepsKept

LEMMA ReplayKeepsKept == IInv /\ Kept /\ (StartBaseline \/ Replay \/ OpFails) => Kept'
<1> SUFFICES ASSUME IInv, Kept, StartBaseline \/ Replay \/ OpFails PROVE Kept'
  OBVIOUS
<1>1. op.step # "saving"
  BY DEF StartBaseline, MayScan, Running, IInv, Steps, Replay, OpFails, At
<1>2. UNCHANGED <<driveVars, cursor, catalog, view, writes, removalVars>>
  BY DEF StartBaseline, Replay, OpFails
<1>3. ASSUME Replay PROVE op'.kind \in {"baseline", "incremental"} /\ op'.step # "saved"
  <2>1. op \in Operation /\ op.kind = "baseline"
    BY <1>3 DEF IInv, TypeOK, Steps, Replay, At
  <2>2. Baseline(op.attempt + 1).kind = "baseline" /\ Baseline(op.attempt + 1).step = "discover"
    BY DEF Baseline, NoOp
  <2>3. ASSUME NEW scan \in Operation, NEW changes
        PROVE  Scoped(scan, changes).kind = scan.kind /\ Scoped(scan, changes).step = "read"
    BY DEF Scoped, Operation
  <2>4. [op EXCEPT !.papers = RetainMissing(op.found)] \in Operation
    BY <2>1, RetainMissingType DEF IInv, TypeOK, Operation
  <2>5. [op EXCEPT !.papers = RetainMissing(op.found)].kind = "baseline"
    BY <2>1 DEF Operation
  <2> QED
    BY <1>3, <2>2, <2>3, <2>4, <2>5 DEF Replay
<1>4. ASSUME StartBaseline PROVE op'.kind = "baseline" /\ op'.step = "discover"
  BY <1>4 DEF StartBaseline, Baseline, NoOp
<1>5. ASSUME OpFails PROVE op'.kind = "none" /\ op'.step = "idle"
  BY <1>5 DEF OpFails, NoOp
<1>6. op'.kind \notin {"reconcile", "commit"} /\ op'.step # "saved"
  BY <1>3, <1>4, <1>5
<1> QED
  BY <1>1, <1>2, <1>6, ScanKeepsKept

LEMMA ReadPaperKeepsKept == ASSUME NEW q \in Paper, IInv, Kept, ReadPaper(q) PROVE Kept'
<1>1. /\ op'.kind = op.kind /\ op'.step = op.step /\ op'.papers = op.papers
      /\ op'.position = op.position
      /\ drive' = drive /\ cursor' = cursor /\ catalog' = catalog /\ writes' = writes
      /\ removing' = removing /\ reconcile' = reconcile
  BY DEF ReadPaper, IInv, TypeOK, Operation, driveVars, removalVars
<1>2. \A p \in Paper : \A e : Agrees(e, p)' <=> Agrees(e, p)
  BY <1>1, Unmoved
<1> QED
  BY <1>1, <1>2 DEF Kept, ToCursor

LEMMA ApplyKeepsKept == IInv /\ Kept /\ Apply => Kept'
<1> SUFFICES ASSUME IInv, Kept, Apply PROVE Kept'
  OBVIOUS
<1>1. /\ op.step = "read" /\ op.kind \in {"incremental", "baseline"}
      /\ op'.kind = op.kind /\ op'.step = "saving"
      /\ writes' = Append(writes, [by |-> "op", catalog |-> op'.papers])
      /\ drive' = drive /\ cursor' = cursor /\ catalog' = catalog
      /\ removing' = removing /\ reconcile' = reconcile
  BY DEF Apply, At, Running, NoOp, driveVars, removalVars
<1>2. Len(writes) = 0 /\ writes \in Seq(CatalogWrite)
  <2>1. \A i \in 1..Len(writes) : FALSE
    BY <1>1, NoWriteOfOp DEF Kept
  <2> QED
    BY <2>1 DEF IInv, TypeOK
<1>3. /\ Len(writes') = 1
      /\ \A i \in 1..Len(writes') : writes'[i] = [by |-> "op", catalog |-> op'.papers]
  BY <1>1, <1>2
<1>4. \A p \in Paper : \A e : Agrees(e, p)' <=> Agrees(e, p)
  BY <1>1, Unmoved
<1> QED
  BY <1>1, <1>3, <1>4 DEF Kept, ToCursor

LEMMA SettleKeepsKept == IInv /\ Kept /\ Settle => Kept'
<1> SUFFICES ASSUME IInv, Kept, Settle PROVE Kept'
  OBVIOUS
<1>1. /\ Scanning /\ op.step = "saved"
      /\ op' = IF op.failed THEN NoOp ELSE Committing(op.position)
      /\ drive' = drive /\ cursor' = cursor
      /\ UNCHANGED <<cursor, catalog, writes, removing, reconcile>>
  BY DEF Settle, At, Scanning, driveVars, removalVars
<1>2. \/ op'.kind = "none" /\ op'.step = "idle"
      \/ ~op.failed /\ op'.kind = "commit" /\ op'.step = "commit" /\ op'.position = op.position
  BY <1>1 DEF NoOp, Committing
<1>3. catalog = op.papers
  BY <1>1 DEF Kept
<1>4. ~op.failed => \A p \in Paper : drive[p].ver <= op.position => Agrees(op.papers[p], p)
  BY <1>1 DEF IInv, Storing
<1>5. \A p \in Paper : \A e : Agrees(e, p)' <=> Agrees(e, p)
  BY <1>1, Unmoved
<1>6. op'.kind = "commit" => \A p \in Paper : drive'[p].ver <= op'.position => Agrees(catalog[p], p)'
  BY <1>1, <1>2, <1>3, <1>4, <1>5
<1> QED
  BY <1>1, <1>2, <1>5, <1>6, ElsewhereKeepsKept

LEMMA CommitKeepsKept == IInv /\ Kept /\ Commit => Kept'
<1> SUFFICES ASSUME IInv, Kept, Commit PROVE Kept'
  OBVIOUS
<1>1. /\ op.kind = "commit" /\ op.step = "commit" /\ op' = NoOp /\ cursor' = op.position
      /\ drive' = drive /\ catalog' = catalog /\ writes' = writes
      /\ removing' = removing /\ reconcile' = reconcile
  BY DEF Commit, Running, IInv, Steps, driveVars, removalVars
<1>2. \A p \in Paper : \A e : Agrees(e, p)' <=> Agrees(e, p)
  BY <1>1, Unmoved
<1>3. \A i \in 1..Len(writes) : FALSE
  BY <1>1, NoWriteOfOp DEF Kept
<1>4. op'.kind = "none" /\ op'.step = "idle"
  BY <1>1 DEF NoOp
<1>5. ToCursor(catalog)'
  BY <1>1, <1>2 DEF Kept, ToCursor
<1> QED
  BY <1>1, <1>3, <1>4, <1>5 DEF Kept

\* What is stored is what the operation found.
LEMMA WriteEndsKeepsKept ==
    ASSUME IInv, Kept, NEW landed \in BOOLEAN, WriteEnds(landed)
    PROVE  Kept'
<1> DEFINE write == Head(writes)
<1>1. /\ writes # <<>> /\ writes' = Tail(writes)
      /\ catalog' = IF landed THEN write.catalog ELSE catalog
      /\ op' = IF write.by # "op" THEN op
               ELSE IF landed THEN [op EXCEPT !.step = "saved"] ELSE NoOp
      /\ removing' = removing \ {write.by}
      /\ reconcile' = reconcile \cup ({write.by} \cap Paper)
      /\ drive' = drive /\ cursor' = cursor
  BY DEF WriteEnds, driveVars
<1>2. write = writes[1] /\ Len(writes) = 1 /\ Len(writes') = 0
  <2>1. writes \in Seq(CatalogWrite)
    BY DEF IInv, TypeOK
  <2>2. Len(writes) \in Nat \ {0} /\ Len(writes') = Len(writes) - 1 /\ write = writes[1]
    BY <1>1, <2>1
  <2>3. Len(writes) <= 1
    BY DEF Kept
  <2> QED
    BY <2>2, <2>3
<1>3. write.by = "op" /\ write.catalog = op.papers
  BY <1>2 DEF Kept
<1> HIDE DEF write
<1>4. op.step = "saving" /\ op \in Operation
  BY <1>2, <1>3 DEF IInv, OneWrite, TypeOK
<1>5. removing' = {} /\ reconcile' = {}
  BY <1>1, <1>3, PaperAssumption DEF Kept
<1>6. \A p \in Paper : \A e : Agrees(e, p)' <=> Agrees(e, p)
  BY <1>1, Unmoved
<1>7. ToCursor(op.papers)
  BY <1>4 DEF IInv, Storing
<1>8. op'.kind \notin {"reconcile", "commit"} /\ (op'.step = "saved" => landed /\ op'.papers = op.papers)
  <2>1. CASE landed
    <3>1. op' = [op EXCEPT !.step = "saved"]
      BY <1>1, <1>3, <2>1
    <3>2. op'.kind = op.kind /\ op'.papers = op.papers
      BY <1>4, <3>1 DEF Operation
    <3>3. op.kind # "commit"
      BY <1>4 DEF IInv, Steps
    <3> QED
      BY <2>1, <3>2, <3>3 DEF Kept
  <2>2. CASE ~landed
    BY <1>1, <1>3, <2>2 DEF NoOp
  <2> QED
    BY <2>1, <2>2
<1>9. catalog' = IF landed THEN op.papers ELSE catalog
  BY <1>1, <1>3
<1>10. ToCursor(catalog)'
  BY <1>1, <1>6, <1>7, <1>9 DEF Kept, ToCursor
<1>11. op'.step = "saved" => catalog' = op'.papers
  BY <1>8, <1>9
<1> QED
  BY <1>2, <1>5, <1>8, <1>10, <1>11 DEF Kept

\* The catalog the page opens with is the one that was stored.
LEMMA ReloadKeepsInv == IInv /\ Kept /\ Reload => IInv' /\ Kept'
<1> SUFFICES ASSUME IInv, Kept, Reload PROVE IInv' /\ Kept'
  OBVIOUS
<1>1. /\ view' = catalog /\ catalog' = catalog /\ writes' = <<>> /\ op' = NoOp
      /\ removing' = {} /\ reconcile' = {} /\ local' = local
      /\ drive' = drive /\ log' = log /\ cursor' = cursor
  BY DEF Reload, driveVars
<1>2. op'.kind = "none" /\ op'.step = "idle"
  BY <1>1 DEF NoOp
<1>3. \A p \in Paper : \A e : Agrees(e, p)' <=> Agrees(e, p)
  BY <1>1, Unmoved
<1>4. TypeOK' /\ FeedIsComplete'
  BY <1>1, NoOpType DEF IInv, TypeOK, FeedIsComplete
<1>5. Steps' /\ Discovered' /\ ReadAgain' /\ Reconciled' /\ Storing' /\ Decided'
  BY <1>2 DEF Steps, Discovered, ReadAgain, Reconciled, Storing, Decided, Scanning
<1>6. ToCursor(view)' /\ ToCursor(catalog)' /\ OneWrite'
  BY <1>1, <1>3 DEF Kept, ToCursor, OneWrite
<1> QED
  BY <1>1, <1>2, <1>4, <1>5, <1>6 DEF IInv, Kept

LEMMA StutterKeepsKept == Kept /\ UNCHANGED vars => Kept'
<1> SUFFICES ASSUME Kept, UNCHANGED vars PROVE Kept'
  OBVIOUS
<1>1. /\ drive' = drive /\ cursor' = cursor /\ catalog' = catalog /\ writes' = writes
      /\ op' = op /\ removing' = removing /\ reconcile' = reconcile
  BY DEF vars
<1>2. \A p \in Paper : \A e : Agrees(e, p)' <=> Agrees(e, p)
  BY <1>1, Unmoved
<1> QED
  BY <1>1, <1>2 DEF Kept, ToCursor

LEMMA StepKeepsKept ==
    ASSUME regime.removable = {}, IInv, Kept, [Next]_vars
    PROVE  IInv' /\ Kept'
<1>1. CASE DriveNext
  BY <1>1, DriveKeepsKept, StepKeepsInv, DriveKeepsInv
<1>2. CASE StartBaseline \/ Replay \/ OpFails
  BY <1>2, ReplayKeepsKept, StartBaselineKeepsInv, ReplayKeepsInv, OpFailsKeepsInv
<1>3. CASE StartIncremental
  BY <1>3, StartIncrementalKeepsKept, StartIncrementalKeepsInv
<1>4. CASE \E p \in Paper : ReadPaper(p)
  BY <1>4, ReadPaperKeepsKept, ReadPaperKeepsInv
<1>5. CASE Apply
  BY <1>5, ApplyKeepsKept, ApplyKeepsInv
<1>6. CASE Settle
  BY <1>6, SettleKeepsKept, SettleKeepsInv
<1>7. CASE Commit
  BY <1>7, CommitKeepsKept, CommitKeepsInv
<1>8. CASE \E p \in Paper : StartRemoval(p) \/ AbortRemoval(p) \/ CommitRemoval(p)
  BY <1>8 DEF Kept, StartRemoval, AbortRemoval, CommitRemoval
<1>9. CASE StartReconcile \/ ApplyReconcile \/ SettleReconcile
  BY <1>9 DEF Kept, StartReconcile, ApplyReconcile, SettleReconcile, Running
<1>10. CASE \E landed \in BOOLEAN : WriteEnds(landed)
  BY <1>10, WriteEndsKeepsKept, WriteEndsKeepsInv
<1>11. CASE Reload
  BY <1>11, ReloadKeepsInv
<1>12. CASE UNCHANGED vars
  BY <1>12, StutterKeepsKept, StutterKeepsInv
<1> QED
  BY <1>1, <1>2, <1>3, <1>4, <1>5, <1>6, <1>7, <1>8, <1>9, <1>10, <1>11, <1>12 DEF Next, Step

--------------------------------------------------------------------------------
(* Theorems *)

\* What the regime of a behaviour allows.
Kind ==
    /\ regime \in Regime
    /\ regime.removable = {} \/ ~regime.reloads => IInv
    /\ regime.removable = {} => Kept

LEMMA InitKind == Init => Kind
BY InitInv DEF Init, Kind

LEMMA StepKeepsKind == Kind /\ [Next]_vars => Kind'
<1> SUFFICES ASSUME Kind, [Next]_vars PROVE Kind'
  OBVIOUS
<1>1. regime' = regime
  BY DEF Next, vars
<1>2. ASSUME regime.removable = {} PROVE IInv' /\ Kept'
  BY <1>2, StepKeepsKept DEF Kind
<1>3. ASSUME ~regime.reloads PROVE IInv'
  <2>1. IInv /\ ~Reload
    BY <1>3 DEF Kind, Reload
  <2> QED
    BY <2>1, StepKeepsInv
<1> QED
  BY <1>1, <1>2, <1>3 DEF Kind

\* ViewIsCurrent for any papers and any number of changes, where the page is not opened
\* again or no local copy is removed: whatever changes while discoverWithFastPath and
\* runAuthoritativeBaseline read, the cursor they commit never passes a change the
\* catalog on the screen does not show.
THEOREM ViewStaysCurrent ==
    ASSUME \A r \in Regime : r.removable = {} \/ ~r.reloads
    PROVE  Spec => [](TypeOK /\ ViewIsCurrent)
<1>1. Kind => TypeOK /\ ViewIsCurrent
  BY InvIsCurrent DEF Kind
<1> QED
  BY <1>1, InitKind, StepKeepsKind, PTL DEF Spec

\* The catalog of IndexedDB, with a page that is closed and opened again at any time:
\* where no local copy is removed, what is stored is what the operation that owns Drive
\* found, so a device that starts from it and from its cursor misses nothing.
THEOREM CatalogStaysCurrent == Spec => []CatalogIsCurrent
<1>1. Kind => CatalogIsCurrent
  BY InvIsCurrent DEF Kind, CatalogIsCurrent
<1> QED
  BY <1>1, InitKind, StepKeepsKind, PTL DEF Spec

--------------------------------------------------------------------------------
(* What is forgotten *)

\* The paper was removed from Drive after this position of the feed.
RemovedSince(p, position) ==
    \E i \in DOMAIN log : i > position /\ log[i] = [paper |-> p, kind |-> "removal"]

Shown(entry) == entry # None /\ entry.state = "present"

Forgotten(entry) == entry = None \/ entry.state = "removed"

\* What is known of a paper in Drive was so; if the paper is removed now, that came later.
Seen(p, entry) ==
    Shown(entry) => /\ entry.ver <= Len(log)
                    /\ In(p, "removed") => RemovedSince(p, entry.ver)

AllSeen == \A p \in Paper : Seen(p, view[p]) /\ Seen(p, op.papers[p]) /\ Seen(p, op.found[p])

\* A paper of one list is in the next, or was removed since.
Follows(p, entry, next) == Shown(entry) /\ Forgotten(next) => RemovedSince(p, entry.ver)

\* A scan reads that a paper is removed only if it was removed since it was listed.
FoundFollows ==
    \A p \in Paper : op.found[p] # None => Follows(p, view[p], op.found[p])

\* An operation holds the list it is about to show.
Deciding ==
    \/ Scanning /\ op.step \in {"read", "saving", "saved"}
    \/ op.kind = "reconcile" /\ op.step \in {"saving", "saved"}

\* What an operation is about to show forgets nothing that is shown.
PapersFollow == Deciding => \A p \in Paper : Follows(p, view[p], op.papers[p])

\* Nor does what a page that opens again starts from, while no local copy is removed.
CatalogFollows ==
    regime.removable = {} =>
        \A p \in Paper : Seen(p, catalog[p]) /\ Follows(p, view[p], catalog[p])

Remembered == AllSeen /\ FoundFollows /\ PapersFollow /\ CatalogFollows

--------------------------------------------------------------------------------
(* Steps of Drive *)

LEMMA EntryTypes ==
    ASSUME TypeOK, NEW p \in Paper
    PROVE  /\ view[p] \in Entry \cup {None} /\ catalog[p] \in Entry \cup {None}
           /\ op.papers[p] \in Entry \cup {None} /\ op.found[p] \in Entry \cup {None}
BY DEF TypeOK, Operation, Catalog

LEMMA SameFeed ==
    ASSUME drive' = drive, log' = log
    PROVE  \A p \in Paper : \A e, n :
               /\ Seen(p, e)' <=> Seen(p, e)
               /\ Follows(p, e, n)' <=> Follows(p, e, n)
BY DEF Seen, Follows, RemovedSince, In

\* The feed only grows, and a paper that is removed was, or is by the last change.
LEMMA FeedGrows ==
    ASSUME TypeOK, DriveNext
    PROVE  /\ Len(log) \in Nat /\ Len(log') = Len(log) + 1 /\ Len(log) + 1 \in DOMAIN log'
           /\ \A i \in DOMAIN log : i \in DOMAIN log' /\ log'[i] = log[i]
           /\ \A q \in Paper : In(q, "removed")' =>
                  \/ In(q, "removed")
                  \/ log'[Len(log) + 1] = [paper |-> q, kind |-> "removal"]
           /\ UNCHANGED <<catalog, view, op>>
<1>1. ASSUME NEW p \in Paper, NEW kind, NEW state, NEW gone, Change(p, kind, state, gone),
             state = "removed" =>
                 In(p, "removed") \/ kind = "removal"
      PROVE  /\ Len(log) \in Nat /\ Len(log') = Len(log) + 1 /\ Len(log) + 1 \in DOMAIN log'
             /\ \A i \in DOMAIN log : i \in DOMAIN log' /\ log'[i] = log[i]
             /\ \A q \in Paper : In(q, "removed")' =>
                    \/ In(q, "removed")
                    \/ log'[Len(log) + 1] = [paper |-> q, kind |-> "removal"]
             /\ UNCHANGED <<catalog, view, op>>
  <2>1. /\ log' = Append(log, [paper |-> p, kind |-> kind])
        /\ drive' = [drive EXCEPT ![p] = [state |-> state, ver |-> Len(log) + 1, gone |-> gone]]
        /\ UNCHANGED <<catalog, view, op>>
    BY <1>1 DEF Change
  <2>2. log \in Seq(FileChange) /\ drive \in [Paper -> PaperInDrive]
    BY DEF TypeOK
  <2>3. /\ Len(log) \in Nat /\ Len(log') = Len(log) + 1 /\ Len(log) + 1 \in DOMAIN log'
        /\ log'[Len(log) + 1] = [paper |-> p, kind |-> kind]
        /\ \A i \in 1..Len(log) : log'[i] = log[i] /\ i \in 1..Len(log')
        /\ DOMAIN log = 1..Len(log) /\ DOMAIN log' = 1..Len(log')
    BY <2>1, <2>2
  <2>4. drive'[p].state = state /\ \A q \in Paper : q # p => drive'[q] = drive[q]
    BY <2>1, <2>2
  <2> QED
    BY <1>1, <2>1, <2>3, <2>4 DEF In
<1>2. CASE \E p \in Paper :
               \/ CreatePackage(p) \/ PublishPresence(p) \/ PublishPaper(p)
               \/ PublishRemoval(p) \/ TrashFolder(p) \/ Restore(p)
               \/ LoseFile(p) \/ RepairFile(p) \/ LosePaper(p)
  <2>1. PICK p \in Paper :
               \/ CreatePackage(p) \/ PublishPresence(p) \/ PublishPaper(p)
               \/ PublishRemoval(p) \/ TrashFolder(p) \/ Restore(p)
               \/ LoseFile(p) \/ RepairFile(p) \/ LosePaper(p)
    BY <1>2
  <2>2. \/ Change(p, "file", "partial", FALSE) \/ Change(p, "file", "present", FALSE)
        \/ Change(p, "removal", "removed", FALSE)
        \/ Change(p, "gone", "removed", TRUE) /\ In(p, "removed")
        \/ Change(p, "gone", "broken", TRUE) \/ Change(p, "gone", "absent", TRUE)
    BY <2>1 DEF CreatePackage, PublishPresence, PublishPaper, PublishRemoval, TrashFolder,
                Restore, LoseFile, RepairFile, LosePaper
  <2> QED
    BY <1>1, <2>2
<1>3. CASE ChangeStructure
  <2>1. /\ log' = Append(log, [paper |-> None, kind |-> "structure"])
        /\ UNCHANGED <<drive, catalog, view, op>>
    BY <1>3 DEF ChangeStructure
  <2>2. log \in Seq(FileChange)
    BY DEF TypeOK
  <2>3. /\ Len(log) \in Nat /\ Len(log') = Len(log) + 1 /\ Len(log) + 1 \in DOMAIN log'
        /\ \A i \in 1..Len(log) : log'[i] = log[i] /\ i \in 1..Len(log')
        /\ DOMAIN log = 1..Len(log) /\ DOMAIN log' = 1..Len(log')
    BY <2>1, <2>2
  <2> QED
    BY <2>1, <2>3 DEF In
<1> QED
  BY <1>2, <1>3 DEF DriveNext

\* A change of Drive forgets nothing: a paper it removes was seen before the change.
LEMMA DriveRemembers ==
    ASSUME TypeOK, Remembered, DriveNext, regime' = regime
    PROVE  Remembered'
<1>1. /\ Len(log) \in Nat /\ Len(log') = Len(log) + 1 /\ Len(log) + 1 \in DOMAIN log'
      /\ \A i \in DOMAIN log : i \in DOMAIN log' /\ log'[i] = log[i]
      /\ \A q \in Paper : In(q, "removed")' =>
             \/ In(q, "removed")
             \/ log'[Len(log) + 1] = [paper |-> q, kind |-> "removal"]
      /\ UNCHANGED <<catalog, view, op>>
  BY FeedGrows
<1>2. ASSUME NEW p \in Paper, NEW v PROVE RemovedSince(p, v) => RemovedSince(p, v)'
  BY <1>1 DEF RemovedSince
<1>3. ASSUME NEW p \in Paper, NEW e \in Entry \cup {None}, Seen(p, e) PROVE Seen(p, e)'
  <2> SUFFICES ASSUME Shown(e)
               PROVE  /\ e.ver <= Len(log')
                      /\ In(p, "removed")' => RemovedSince(p, e.ver)'
    BY DEF Seen, Shown
  <2>1. e.ver \in Nat /\ e.ver <= Len(log)
    BY <1>3, BoundAssumption DEF Seen, Shown, Entry, Position
  <2>2. CASE In(p, "removed")
    BY <1>1, <1>2, <1>3, <2>1, <2>2 DEF Seen
  <2>3. CASE log'[Len(log) + 1] = [paper |-> p, kind |-> "removal"]
    BY <1>1, <2>1, <2>3 DEF RemovedSince
  <2> QED
    BY <1>1, <2>1, <2>2, <2>3
<1>4. ASSUME NEW p \in Paper, NEW e, NEW n, Follows(p, e, n) PROVE Follows(p, e, n)'
  BY <1>2, <1>4 DEF Follows, Shown, Forgotten
<1>5. AllSeen'
  BY <1>1, <1>3, EntryTypes DEF Remembered, AllSeen
<1>6. FoundFollows' /\ PapersFollow'
  BY <1>1, <1>4 DEF Remembered, FoundFollows, PapersFollow, Deciding, Scanning
<1>7. CatalogFollows'
  BY <1>1, <1>3, <1>4, EntryTypes DEF Remembered, CatalogFollows
<1> QED
  BY <1>5, <1>6, <1>7 DEF Remembered

--------------------------------------------------------------------------------
(* Steps of the device *)

\* An operation starts, ends or fails with nothing read.
LEMMA NothingReadRemembers ==
    ASSUME Remembered, UNCHANGED <<driveVars, catalog, view, regime>>,
           op'.papers = Empty, op'.found = Empty, ~Deciding'
    PROVE  Remembered'
<1>1. drive' = drive /\ log' = log /\ catalog' = catalog /\ view' = view /\ regime' = regime
  BY DEF driveVars
<1>2. \A p \in Paper : op'.papers[p] = None /\ op'.found[p] = None
  BY DEF Empty
<1>3. AllSeen'
  BY <1>1, <1>2, SameFeed DEF Remembered, AllSeen, Seen, Shown
<1>4. FoundFollows' /\ PapersFollow'
  BY <1>2 DEF FoundFollows, PapersFollow
<1>5. CatalogFollows'
  BY <1>1, SameFeed DEF Remembered, CatalogFollows
<1> QED
  BY <1>3, <1>4, <1>5 DEF Remembered

\* A step that leaves what an operation has read, and the papers that are shown.
LEMMA OperationRemembers ==
    ASSUME Remembered, UNCHANGED driveVars,
           op'.papers = op.papers, op'.found = op.found, Deciding' => Deciding,
           \A p \in Paper : Shown(view'[p]) => view'[p] = view[p]
    PROVE  /\ AllSeen' /\ FoundFollows' /\ PapersFollow'
           /\ UNCHANGED <<catalog, regime>> => Remembered'
<1>1. drive' = drive /\ log' = log
  BY DEF driveVars
<1>2. ASSUME NEW p \in Paper
      PROVE  /\ Seen(p, view[p]) => Seen(p, view[p])'
             /\ \A n : Follows(p, view[p], n) => Follows(p, view[p], n)'
  <2>1. Seen(p, view[p]) => Seen(p, view'[p])
    BY DEF Seen
  <2>2. \A n : Follows(p, view[p], n) => Follows(p, view'[p], n)
    BY DEF Follows
  <2> QED
    BY <1>1, <2>1, <2>2, SameFeed
<1>3. AllSeen'
  BY <1>1, <1>2, SameFeed DEF Remembered, AllSeen
<1>4. FoundFollows' /\ PapersFollow'
  BY <1>2 DEF Remembered, FoundFollows, PapersFollow
<1>5. UNCHANGED <<catalog, regime>> => CatalogFollows'
  BY <1>1, <1>2, SameFeed DEF Remembered, CatalogFollows
<1> QED
  BY <1>3, <1>4, <1>5 DEF Remembered

LEMMA NoOpReadsNothing ==
    op' = NoOp => op'.papers = Empty /\ op'.found = Empty /\ ~Deciding'
BY DEF NoOp, Deciding, Scanning

LEMMA StartBaselineRemembers ==
    ASSUME Remembered, UNCHANGED <<driveVars, catalog, view, regime>>,
           NEW n, op' = Baseline(n)
    PROVE  Remembered'
<1>1. op'.papers = Empty /\ op'.found = Empty /\ op'.step = "discover" /\ op'.kind = "baseline"
  BY DEF Baseline, NoOp
<1> QED
  BY <1>1, NothingReadRemembers DEF Deciding

LEMMA CommittingRemembers ==
    ASSUME Remembered, UNCHANGED <<driveVars, catalog, view, regime>>,
           NEW n, op' = Committing(n)
    PROVE  Remembered'
<1>1. op'.papers = Empty /\ op'.found = Empty /\ op'.step = "commit" /\ op'.kind = "commit"
  BY DEF Committing, NoOp
<1> QED
  BY <1>1, NothingReadRemembers DEF Deciding

\* What is read again is compared with a list that forgets nothing.
LEMMA ScopedRemembers ==
    ASSUME Remembered, UNCHANGED <<driveVars, catalog, view, regime>>,
           op'.found = Empty,
           \A p \in Paper : Seen(p, op'.papers[p]) /\ Follows(p, view[p], op'.papers[p])
    PROVE  Remembered'
<1>1. drive' = drive /\ log' = log /\ catalog' = catalog /\ view' = view /\ regime' = regime
  BY DEF driveVars
<1>2. \A p \in Paper : op'.found[p] = None
  BY DEF Empty
<1>3. AllSeen'
  BY <1>1, <1>2, SameFeed DEF Remembered, AllSeen, Seen, Shown
<1>4. FoundFollows' /\ PapersFollow'
  BY <1>1, <1>2, SameFeed DEF FoundFollows, PapersFollow
<1>5. CatalogFollows'
  BY <1>1, SameFeed DEF Remembered, CatalogFollows
<1> QED
  BY <1>3, <1>4, <1>5 DEF Remembered

LEMMA StartIncrementalRemembers ==
    ASSUME IInv, Remembered, StartIncremental, regime' = regime
    PROVE  Remembered'
<1> DEFINE changes == Changes(cursor, Len(log))
<1> DEFINE start == [NoOp EXCEPT !.kind = "incremental", !.papers = view]
<1>1. UNCHANGED <<driveVars, catalog, view, regime>>
  BY DEF StartIncremental
<1>2. \/ op' = Baseline(1) \/ op' = Committing(Len(log)) \/ op' = Scoped(start, changes)
  BY DEF StartIncremental
<1>3. CASE op' = Scoped(start, changes)
  <2>1. op'.found = Empty /\ op'.papers = view
    BY <1>3 DEF Scoped, NoOp
  <2>2. \A p \in Paper : Seen(p, view[p]) /\ Follows(p, view[p], view[p])
    BY DEF Remembered, AllSeen, Follows, Shown, Forgotten
  <2> QED
    BY <1>1, <2>1, <2>2, ScopedRemembers
<1> QED
  BY <1>1, <1>2, <1>3, StartBaselineRemembers, CommittingRemembers

\* A paper that reads as removed was removed after it was listed.
LEMMA ReadPaperRemembers ==
    ASSUME NEW q \in Paper, IInv, Remembered, ReadPaper(q), regime' = regime
    PROVE  Remembered'
<1>1. /\ UNCHANGED <<driveVars, catalog, view, regime>>
      /\ op'.kind = op.kind /\ op'.step = op.step /\ op'.papers = op.papers
      /\ op'.found = [op.found EXCEPT ![q] = Reading(q)]
  BY DEF ReadPaper, IInv, TypeOK, Operation
<1>2. drive' = drive /\ log' = log /\ catalog' = catalog /\ view' = view /\ regime' = regime
  BY <1>1 DEF driveVars
<1>3. op.found \in Catalog /\ drive[q] \in PaperInDrive /\ drive[q].ver <= Len(log)
  BY DEF IInv, TypeOK, FeedIsComplete, Operation
<1>4. op'.found[q] = Reading(q) /\ \A p \in Paper : p # q => op'.found[p] = op.found[p]
  BY <1>1, <1>3 DEF Catalog
<1>5. Shown(Reading(q)) => Reading(q).ver = drive[q].ver /\ In(q, "present")
  BY DEF Shown, Reading, Summary, In
<1>6. Seen(q, Reading(q))
  BY <1>3, <1>5 DEF Seen, In
<1>7. Reading(q) # None => Follows(q, view[q], Reading(q))
  <2> SUFFICES ASSUME Reading(q) # None, Shown(view[q]), Forgotten(Reading(q))
               PROVE  RemovedSince(q, view[q].ver)
    BY DEF Follows
  <2>1. In(q, "removed")
    BY DEF Forgotten, Reading, Summary, In
  <2> QED
    BY <2>1 DEF Remembered, AllSeen, Seen
<1>8. AllSeen'
  <2>1. \A p \in Paper : Seen(p, op'.found[p])
    BY <1>4, <1>6 DEF Remembered, AllSeen
  <2> QED
    BY <1>1, <1>2, <2>1, SameFeed DEF Remembered, AllSeen
<1>9. FoundFollows'
  <2>1. \A p \in Paper : op'.found[p] # None => Follows(p, view[p], op'.found[p])
    BY <1>4, <1>7 DEF Remembered, FoundFollows
  <2> QED
    BY <1>2, <2>1, SameFeed DEF FoundFollows
<1>10. PapersFollow' /\ CatalogFollows'
  BY <1>1, <1>2, SameFeed DEF Remembered, PapersFollow, CatalogFollows, Deciding, Scanning
<1> QED
  BY <1>8, <1>9, <1>10 DEF Remembered

\* What is shown as an earlier entry is still seen, and not forgotten.
LEMMA AttentionSeen ==
    ASSUME NEW p \in Paper, NEW e \in Entry \cup {None}
    PROVE  /\ Seen(p, e) => Seen(p, Attention(e))
           /\ Forgotten(Attention(e)) <=> Forgotten(e)
<1>1. CASE e = None
  BY <1>1 DEF Attention, Seen, Shown, Forgotten
<1>2. CASE e # None
  <2>1. /\ Attention(e) # None /\ e \in Entry
        /\ Attention(e).state = e.state /\ Attention(e).ver = e.ver
    BY <1>2, NoneAssumption DEF Attention, Entry
  <2> QED
    BY <1>2, <2>1 DEF Seen, Shown, Forgotten
<1> QED
  BY <1>1, <1>2

\* A paper a full audit does not find is kept.
LEMMA RetainMissingFollows ==
    ASSUME TypeOK, Remembered, NEW p \in Paper
    PROVE  /\ Seen(p, RetainMissing(op.found)[p])
           /\ Follows(p, view[p], RetainMissing(op.found)[p])
<1>1. RetainMissing(op.found)[p] =
          IF op.found[p] = None /\ view[p] # None /\ view[p].state = "present"
          THEN Attention(view[p]) ELSE op.found[p]
  BY DEF RetainMissing
<1>2. Seen(p, view[p]) /\ Seen(p, op.found[p])
  BY DEF Remembered, AllSeen
<1>3. op.found[p] # None => Follows(p, view[p], op.found[p])
  BY DEF Remembered, FoundFollows
<1>4. /\ Seen(p, Attention(view[p]))
      /\ Forgotten(Attention(view[p])) <=> Forgotten(view[p])
  BY <1>2, EntryTypes, AttentionSeen
<1>5. CASE op.found[p] = None /\ Shown(view[p])
  <2>1. RetainMissing(op.found)[p] = Attention(view[p])
    BY <1>1, <1>5 DEF Shown
  <2>2. ~Forgotten(view[p])
    BY <1>5 DEF Shown, Forgotten
  <2> QED
    BY <1>4, <2>1, <2>2 DEF Follows
<1>6. CASE ~(op.found[p] = None /\ Shown(view[p]))
  <2>1. RetainMissing(op.found)[p] = op.found[p]
    BY <1>1, <1>6 DEF Shown
  <2> QED
    BY <1>2, <1>3, <1>6, <2>1 DEF Follows
<1> QED
  BY <1>5, <1>6

LEMMA ReplayRemembers ==
    ASSUME IInv, Remembered, Replay, regime' = regime
    PROVE  Remembered'
<1> DEFINE papers == RetainMissing(op.found)
<1> DEFINE changes == Changes(op.position, Len(log))
<1> DEFINE scan == [op EXCEPT !.papers = papers]
<1>1. UNCHANGED <<driveVars, catalog, view, regime>>
  BY DEF Replay
<1>2. op' = Baseline(op.attempt + 1) \/ op' = Scoped(scan, changes)
  BY DEF Replay
<1>3. CASE op' = Scoped(scan, changes)
  <2>1. op \in Operation /\ papers \in Catalog
    BY RetainMissingType DEF IInv, TypeOK, Operation
  <2>2. scan \in Operation /\ scan.papers = papers
    BY <2>1 DEF Operation
  <2> HIDE DEF scan, papers
  <2>3. op'.found = Empty /\ op'.papers = papers
    BY <1>3, <2>2 DEF Scoped, Operation
  <2>4. \A p \in Paper : Seen(p, papers[p]) /\ Follows(p, view[p], papers[p])
    BY RetainMissingFollows DEF IInv, papers
  <2> QED
    BY <1>1, <2>3, <2>4, ScopedRemembers
<1> QED
  BY <1>1, <1>2, <1>3, StartBaselineRemembers

\* What was missing in a reading, or is gone from Drive, stays.
LEMMA MergedFollows ==
    ASSUME TypeOK, Remembered, NEW base \in Catalog, NEW asked, NEW p \in Paper,
           Seen(p, base[p]), Follows(p, view[p], base[p])
    PROVE  /\ Seen(p, Merged(base, asked, op.found)[p])
           /\ Follows(p, view[p], Merged(base, asked, op.found)[p])
<1>1. Merged(base, asked, op.found)[p] =
          IF p \notin asked THEN base[p]
          ELSE IF op.found[p] # None THEN op.found[p] ELSE Attention(base[p])
  BY DEF Merged
<1>2. /\ Seen(p, Attention(base[p]))
      /\ Forgotten(Attention(base[p])) <=> Forgotten(base[p])
  BY AttentionSeen DEF Catalog
<1>3. /\ Seen(p, op.found[p])
      /\ op.found[p] # None => Follows(p, view[p], op.found[p])
  BY DEF Remembered, AllSeen, FoundFollows
<1> QED
  BY <1>1, <1>2, <1>3 DEF Follows

LEMMA RetainGoneFollows ==
    ASSUME TypeOK, Remembered, NEW papers \in Catalog, NEW gone, NEW p \in Paper,
           Seen(p, papers[p]), Follows(p, view[p], papers[p])
    PROVE  /\ Seen(p, RetainGone(papers, gone)[p])
           /\ Follows(p, view[p], RetainGone(papers, gone)[p])
<1> DEFINE current == IF papers[p] # None THEN papers[p] ELSE view[p]
<1>1. RetainGone(papers, gone)[p] =
          IF p \in gone /\ current # None /\ current.state # "removed"
          THEN Attention(current) ELSE papers[p]
  BY DEF RetainGone
<1>2. current \in Entry \cup {None} /\ Seen(p, current)
  BY EntryTypes DEF Remembered, AllSeen, Catalog
<1>3. Seen(p, Attention(current)) /\ (Forgotten(Attention(current)) <=> Forgotten(current))
  BY <1>2, AttentionSeen
<1>4. CASE p \in gone /\ current # None /\ current.state # "removed"
  <2>1. RetainGone(papers, gone)[p] = Attention(current) /\ ~Forgotten(current)
    BY <1>1, <1>4 DEF Forgotten
  <2> QED
    BY <1>3, <2>1 DEF Follows
<1>5. CASE ~(p \in gone /\ current # None /\ current.state # "removed")
  <2>1. RetainGone(papers, gone)[p] = papers[p]
    BY <1>1, <1>5
  <2> QED
    BY <2>1
<1> QED
  BY <1>4, <1>5

LEMMA PresentedFollows ==
    ASSUME NEW papers \in Catalog, NEW p \in Paper,
           Seen(p, papers[p]), Follows(p, view[p], papers[p])
    PROVE  /\ Seen(p, Presented(papers)[p])
           /\ Follows(p, view[p], Presented(papers)[p])
<1>1. Presented(papers)[p] =
          IF papers[p] # None /\ papers[p].state = "removed" /\ p \notin local
          THEN None ELSE papers[p]
  BY DEF Presented
<1>2. CASE papers[p] # None /\ papers[p].state = "removed"
  BY <1>1, <1>2 DEF Follows, Forgotten, Seen, Shown
<1>3. CASE ~(papers[p] # None /\ papers[p].state = "removed")
  <2>1. Presented(papers)[p] = papers[p]
    BY <1>1, <1>3
  <2> QED
    BY <2>1
<1> QED
  BY <1>2, <1>3

\* What an operation stores forgets nothing that is shown.
LEMMA ApplyRemembers ==
    ASSUME IInv, Remembered, Apply \/ ApplyReconcile, regime' = regime
    PROVE  Remembered'
<1>1. UNCHANGED <<driveVars, catalog, view, regime>> /\ op'.found = Empty
  BY DEF Apply, ApplyReconcile, NoOp
<1>2. view \in Catalog /\ op.papers \in Catalog /\ op.found \in Catalog
  BY DEF IInv, TypeOK, Operation
<1>3. CASE Apply
  <2> DEFINE merged == Merged(op.papers, op.asked, op.found)
  <2> DEFINE papers == RetainGone(merged, op.gone)
  <2>1. op'.papers = Presented(papers)
    BY <1>3 DEF Apply, NoOp
  <2>2. merged \in Catalog /\ papers \in Catalog
    BY <1>2, MergedType, RetainGoneType
  <2>3. Deciding
    BY <1>3 DEF Apply, Deciding, Scanning, At
  <2> SUFFICES ASSUME NEW p \in Paper
               PROVE  Seen(p, op'.papers[p]) /\ Follows(p, view[p], op'.papers[p])
    BY <1>1, ScopedRemembers
  <2>4. Seen(p, op.papers[p]) /\ Follows(p, view[p], op.papers[p])
    BY <2>3 DEF Remembered, AllSeen, PapersFollow
  <2>5. Seen(p, merged[p]) /\ Follows(p, view[p], merged[p])
    BY <1>2, <2>4, MergedFollows DEF IInv
  <2>6. Seen(p, papers[p]) /\ Follows(p, view[p], papers[p])
    BY <2>2, <2>5, RetainGoneFollows DEF IInv
  <2> QED
    BY <2>1, <2>2, <2>6, PresentedFollows
<1>4. CASE ApplyReconcile
  <2> DEFINE merged == Merged(view, op.asked, op.found)
  <2>1. \A p \in Paper : op'.papers[p] = IF p \in op.asked THEN Presented(merged)[p] ELSE view[p]
    BY <1>4 DEF ApplyReconcile, NoOp
  <2>2. merged \in Catalog
    BY <1>2, MergedType
  <2> SUFFICES ASSUME NEW p \in Paper
               PROVE  Seen(p, op'.papers[p]) /\ Follows(p, view[p], op'.papers[p])
    BY <1>1, ScopedRemembers
  <2>3. Seen(p, view[p]) /\ Follows(p, view[p], view[p])
    BY DEF Remembered, AllSeen, Follows, Shown, Forgotten
  <2>4. Seen(p, merged[p]) /\ Follows(p, view[p], merged[p])
    BY <1>2, <2>3, MergedFollows DEF IInv
  <2>5. Seen(p, Presented(merged)[p]) /\ Follows(p, view[p], Presented(merged)[p])
    BY <2>2, <2>4, PresentedFollows
  <2> QED
    BY <2>1, <2>3, <2>5
<1> QED
  BY <1>3, <1>4

\* What is shown next is what the operation found.
LEMMA SettleRemembers ==
    ASSUME IInv, Remembered, regime.removable = {} => Kept,
           Settle \/ SettleReconcile, regime' = regime
    PROVE  Remembered'
<1>1. /\ drive' = drive /\ log' = log /\ catalog' = catalog /\ view' = op.papers
      /\ op' = NoOp \/ op' = Committing(op.position)
      /\ op.step = "saved"
  BY DEF Settle, SettleReconcile, At, driveVars
<1>2. op'.papers = Empty /\ op'.found = Empty /\ ~Deciding'
  BY <1>1, NoOpReadsNothing DEF NoOp, Committing, Deciding, Scanning
<1>3. \A p \in Paper : op'.papers[p] = None /\ op'.found[p] = None
  BY <1>2 DEF Empty
<1>4. AllSeen'
  BY <1>1, <1>3, SameFeed DEF Remembered, AllSeen, Seen, Shown
<1>5. FoundFollows' /\ PapersFollow'
  BY <1>2, <1>3 DEF FoundFollows, PapersFollow
<1>6. CatalogFollows'
  <2> SUFFICES ASSUME regime.removable = {}, NEW p \in Paper
               PROVE  Seen(p, catalog[p])' /\ Follows(p, view[p], catalog[p])'
    BY DEF CatalogFollows
  <2>1. catalog = op.papers
    BY <1>1 DEF Kept
  <2> QED
    BY <1>1, <2>1, SameFeed DEF Remembered, AllSeen, Follows, Shown, Forgotten
<1> QED
  BY <1>4, <1>5, <1>6 DEF Remembered

LEMMA StartReconcileRemembers ==
    ASSUME Remembered, StartReconcile, regime' = regime
    PROVE  Remembered'
<1>1. /\ UNCHANGED <<driveVars, catalog, view, regime>>
      /\ op'.papers = Empty /\ op'.found = Empty /\ op'.step = "read" /\ op'.kind = "reconcile"
  BY DEF StartReconcile, NoOp
<1> QED
  BY <1>1, NothingReadRemembers DEF Deciding, Scanning

\* A committed removal leaves out only what is removed from Drive.
LEMMA CommitRemovalForgetsRemoved ==
    ASSUME TypeOK, NEW q \in Paper, CommitRemoval(q), NEW p \in Paper
    PROVE  Shown(view'[p]) \/ Shown(view[p]) => view'[p] = view[p]
<1>1. view' = [view EXCEPT ![q] = IF @ # None /\ @.state = "removed" THEN None ELSE @]
  BY DEF CommitRemoval
<1>2. view \in Catalog
  BY DEF TypeOK
<1>3. view'[p] = IF p = q /\ view[p] # None /\ view[p].state = "removed" THEN None ELSE view[p]
  BY <1>1, <1>2 DEF Catalog
<1> QED
  BY <1>3 DEF Shown

LEMMA RemovalRemembers ==
    ASSUME TypeOK, Remembered, NEW q \in Paper,
           StartRemoval(q) \/ AbortRemoval(q) \/ CommitRemoval(q), regime' = regime
    PROVE  Remembered'
<1>1. UNCHANGED <<driveVars, catalog, op>>
  BY DEF StartRemoval, AbortRemoval, CommitRemoval
<1>2. \A p \in Paper : Shown(view'[p]) => view'[p] = view[p]
  BY CommitRemovalForgetsRemoved DEF StartRemoval, AbortRemoval
<1> QED
  BY <1>1, <1>2, OperationRemembers DEF Deciding, Scanning

\* What is stored forgets nothing that is shown.
LEMMA WriteEndsRemembers ==
    ASSUME IInv, Remembered, regime.removable = {} => Kept,
           NEW landed \in BOOLEAN, WriteEnds(landed), regime' = regime
    PROVE  Remembered'
<1> DEFINE write == Head(writes)
<1>1. /\ drive' = drive /\ log' = log /\ view' = view /\ UNCHANGED driveVars
      /\ writes # <<>>
      /\ catalog' = IF landed THEN write.catalog ELSE catalog
      /\ op' = IF write.by # "op" THEN op
               ELSE IF landed THEN [op EXCEPT !.step = "saved"] ELSE NoOp
  BY DEF WriteEnds, driveVars
<1>2. write = writes[1] /\ 1 \in 1..Len(writes)
  BY <1>1 DEF IInv, TypeOK
<1>3. write.by = "op" => op.step = "saving"
  BY <1>2 DEF IInv, OneWrite
<1>4. regime.removable = {} => write.by = "op" /\ write.catalog = op.papers
  BY <1>2 DEF Kept
<1>5. op \in Operation
  BY DEF IInv, TypeOK
<1> HIDE DEF write
<1>6. CASE op' = NoOp /\ catalog' = catalog
  BY <1>1, <1>6, NoOpReadsNothing, NothingReadRemembers
<1>7. CASE ~(op' = NoOp /\ catalog' = catalog)
  <2>1. /\ op'.papers = op.papers /\ op'.found = op.found /\ op'.kind = op.kind
        /\ op'.step = op.step \/ (op.step = "saving" /\ op'.step = "saved")
    BY <1>1, <1>3, <1>5, <1>7 DEF Operation
  <2>2. Deciding' => Deciding
    BY <2>1 DEF Deciding, Scanning
  <2>3. AllSeen' /\ FoundFollows' /\ PapersFollow'
    BY <1>1, <2>1, <2>2, OperationRemembers
  <2>4. CatalogFollows'
    <3> SUFFICES ASSUME regime.removable = {}, NEW p \in Paper
                 PROVE  Seen(p, catalog[p])' /\ Follows(p, view[p], catalog[p])'
      BY DEF CatalogFollows
    <3>1. Deciding
      BY <1>3, <1>4 DEF IInv, Steps, Kept, Deciding, Scanning, Operation, TypeOK
    <3>2. catalog' = op.papers \/ catalog' = catalog
      BY <1>1, <1>4
    <3>3. Seen(p, catalog'[p]) /\ Follows(p, view[p], catalog'[p])
      BY <3>1, <3>2 DEF Remembered, AllSeen, PapersFollow, CatalogFollows
    <3> QED
      BY <1>1, <3>3, SameFeed
  <2> QED
    BY <2>3, <2>4 DEF Remembered
<1> QED
  BY <1>6, <1>7

LEMMA ReloadRemembers ==
    ASSUME Remembered, regime.removable = {}, Reload, regime' = regime
    PROVE  Remembered'
<1>1. /\ drive' = drive /\ log' = log /\ catalog' = catalog /\ view' = catalog /\ op' = NoOp
  BY DEF Reload, driveVars
<1>2. op'.papers = Empty /\ op'.found = Empty /\ ~Deciding'
  BY <1>1, NoOpReadsNothing
<1>3. \A p \in Paper : op'.papers[p] = None /\ op'.found[p] = None
  BY <1>2 DEF Empty
<1>4. AllSeen'
  BY <1>1, <1>3, SameFeed DEF Remembered, CatalogFollows, AllSeen, Seen, Shown
<1>5. FoundFollows' /\ PapersFollow'
  BY <1>2, <1>3 DEF FoundFollows, PapersFollow
<1>6. CatalogFollows'
  BY <1>1, SameFeed DEF Remembered, CatalogFollows, Follows, Shown, Forgotten
<1> QED
  BY <1>4, <1>5, <1>6 DEF Remembered

--------------------------------------------------------------------------------
(* Nothing is forgotten *)

LEMMA InitRemembers == Init => Remembered
<1> SUFFICES ASSUME Init PROVE Remembered
  OBVIOUS
<1>1. /\ view = [p \in Paper |-> Reading(p)] /\ catalog = view /\ op = NoOp
      /\ \A p \in Paper : drive[p].ver = 0 /\ drive[p].state # "removed"
      /\ log = <<>>
  BY DEF Init
<1>2. op.papers = Empty /\ op.found = Empty /\ ~Deciding
  BY <1>1 DEF NoOp, Deciding, Scanning
<1>3. \A p \in Paper : op.papers[p] = None /\ op.found[p] = None
  BY <1>2 DEF Empty
<1>4. \A p \in Paper : Seen(p, view[p])
  <2>1. \A p \in Paper : view[p] = Reading(p) /\ ~In(p, "removed") /\ drive[p].ver <= Len(log)
    <3>1. Len(log) = 0
      BY <1>1
    <3>2. ASSUME NEW p \in Paper PROVE view[p] = Reading(p)
      BY <1>1
    <3>3. ASSUME NEW p \in Paper PROVE ~In(p, "removed") /\ drive[p].ver = 0
      BY <1>1 DEF In
    <3>4. ASSUME NEW p \in Paper PROVE drive[p].ver <= Len(log)
      BY <3>1, <3>3
    <3> QED
      BY <3>2, <3>3, <3>4
  <2>2. \A p \in Paper : Shown(Reading(p)) => Reading(p).ver = drive[p].ver
    BY DEF Shown, Reading, Summary
  <2> QED
    BY <2>1, <2>2 DEF Seen
<1>5. AllSeen /\ FoundFollows /\ PapersFollow
  BY <1>2, <1>3, <1>4 DEF AllSeen, FoundFollows, PapersFollow, Seen, Shown
<1>6. CatalogFollows
  BY <1>1, <1>4 DEF CatalogFollows, Follows, Shown, Forgotten
<1> QED
  BY <1>5, <1>6 DEF Remembered

LEMMA StepRemembers ==
    ASSUME regime.removable = {} \/ ~regime.reloads, Kind, Remembered, [Next]_vars
    PROVE  Remembered'
<1>0. regime' = regime
  BY DEF Next, vars
<1>1. IInv /\ TypeOK /\ (regime.removable = {} => Kept)
  BY DEF Kind, IInv
<1>2. CASE DriveNext
  BY <1>0, <1>1, <1>2, DriveRemembers
<1>3. CASE StartBaseline
  BY <1>0, <1>3, StartBaselineRemembers DEF StartBaseline
<1>4. CASE StartIncremental
  BY <1>0, <1>1, <1>4, StartIncrementalRemembers
<1>5. CASE \E p \in Paper : ReadPaper(p)
  BY <1>0, <1>1, <1>5, ReadPaperRemembers
<1>6. CASE Replay
  BY <1>0, <1>1, <1>6, ReplayRemembers
<1>7. CASE Apply \/ ApplyReconcile
  BY <1>0, <1>1, <1>7, ApplyRemembers
<1>8. CASE Settle \/ SettleReconcile
  BY <1>0, <1>1, <1>8, SettleRemembers
<1>9. CASE Commit \/ OpFails
  BY <1>0, <1>9, NoOpReadsNothing, NothingReadRemembers DEF Commit, OpFails
<1>10. CASE \E p \in Paper : StartRemoval(p) \/ AbortRemoval(p) \/ CommitRemoval(p)
  BY <1>0, <1>1, <1>10, RemovalRemembers
<1>11. CASE StartReconcile
  BY <1>0, <1>11, StartReconcileRemembers
<1>12. CASE \E landed \in BOOLEAN : WriteEnds(landed)
  BY <1>0, <1>1, <1>12, WriteEndsRemembers
<1>13. CASE Reload
  <2>1. regime.removable = {}
    BY <1>13 DEF Reload
  <2> QED
    BY <1>0, <1>13, <2>1, ReloadRemembers
<1>14. CASE UNCHANGED vars
  <2>1. /\ UNCHANGED <<driveVars, catalog, regime>> /\ view' = view
        /\ op'.papers = op.papers /\ op'.found = op.found
        /\ Deciding' <=> Deciding
    BY <1>14 DEF vars, driveVars, Deciding, Scanning
  <2> QED
    BY <2>1, OperationRemembers
<1> QED
  BY <1>2, <1>3, <1>4, <1>5, <1>6, <1>7, <1>8, <1>9, <1>10, <1>11, <1>12, <1>13, <1>14 DEF Next, Step

\* Only a removal of a local copy, the end of an operation and a page that opens again
\* change what is shown.
LEMMA StepForgetsNothing ==
    ASSUME regime.removable = {} \/ ~regime.reloads, Kind, Remembered, [Next]_vars,
           NEW p \in Paper
    PROVE  Follows(p, view[p], view'[p])
<1>1. CASE view' = view
  BY <1>1 DEF Follows, Shown, Forgotten
<1>2. CASE Settle \/ SettleReconcile
  <2>1. view' = op.papers /\ op.step = "saved" /\ Deciding
    BY <1>2 DEF Settle, SettleReconcile, At, Running, Deciding, Scanning
  <2> QED
    BY <2>1 DEF Remembered, PapersFollow
<1>3. CASE \E q \in Paper : CommitRemoval(q)
  <2>1. Shown(view[p]) => view'[p] = view[p]
    BY <1>3, CommitRemovalForgetsRemoved DEF Kind, IInv
  <2> QED
    BY <2>1 DEF Follows, Shown, Forgotten
<1>4. CASE Reload
  <2>1. regime.removable = {} /\ view' = catalog
    BY <1>4 DEF Reload
  <2> QED
    BY <2>1 DEF Remembered, CatalogFollows
<1>5. view' = view \/ Settle \/ SettleReconcile \/ (\E q \in Paper : CommitRemoval(q)) \/ Reload
  <2>1. DriveNext => view' = view
    BY FeedGrows DEF Kind, IInv
  <2>2. (\E q \in Paper : ReadPaper(q)) => view' = view
    BY DEF ReadPaper
  <2>3. (\E q \in Paper : StartRemoval(q) \/ AbortRemoval(q)) => view' = view
    BY DEF StartRemoval, AbortRemoval
  <2>4. (\E landed \in BOOLEAN : WriteEnds(landed)) => view' = view
    BY DEF WriteEnds
  <2>5. StartBaseline \/ StartIncremental \/ Replay \/ Apply \/ Commit \/ OpFails
            \/ StartReconcile \/ ApplyReconcile \/ UNCHANGED vars => view' = view
    BY DEF StartBaseline, StartIncremental, Replay, Apply, Commit, OpFails, StartReconcile,
           ApplyReconcile, vars
  <2> QED
    BY <2>1, <2>2, <2>3, <2>4, <2>5 DEF Next, Step
<1> QED
  BY <1>1, <1>2, <1>3, <1>4, <1>5

\* KnownPaperIsNotForgotten for any papers and any number of changes, where the page is
\* not opened again or no local copy is removed: whatever a scan reads while other
\* devices change Drive, and whichever files are gone from it, applyScopedDiscovery and
\* retainMissingKnownCloudPapers take a paper off the list only if the feed says that it
\* was removed after it was read.
THEOREM KnownPaperStays ==
    ASSUME \A r \in Regime : r.removable = {} \/ ~r.reloads
    PROVE  Spec => KnownPaperIsNotForgotten
<1> DEFINE Inv == Kind /\ Remembered
<1> DEFINE Forgets(p) == view[p] # None /\ view[p].state = "present" /\ view'[p] = None
<1> DEFINE Since(p) ==
        \E i \in DOMAIN log : i > view[p].ver /\ log[i] = [paper |-> p, kind |-> "removal"]
<1>1. Init => Inv
  BY InitKind, InitRemembers
<1>2. Inv /\ [Next]_vars => Inv'
  BY StepKeepsKind, StepRemembers DEF Kind
<1>3. Inv /\ [Next]_vars => [\A p \in Paper : Forgets(p) => Since(p)]_view
  <2> SUFFICES ASSUME Inv, [Next]_vars, NEW p \in Paper, Forgets(p) PROVE Since(p)
    OBVIOUS
  <2>1. Follows(p, view[p], view'[p])
    BY StepForgetsNothing DEF Kind
  <2> QED
    BY <2>1 DEF Follows, Shown, Forgotten, RemovedSince
<1> QED
  BY <1>1, <1>2, <1>3, PTL DEF Spec, KnownPaperIsNotForgotten

================================================================================
