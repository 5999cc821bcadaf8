------------------------- MODULE LayoutMigration_proofs -------------------------
(* The two action properties of LayoutMigration for any devices, papers, control
   folders and number of changes, with the invariant they rest on, and that an
   upgrade may be tried again. *)

EXTENDS LayoutMigration, TLAPS

Seeding == {"seed", "publish", "verify", "save"}
Activating == {"inspect", "complete", "bind", "activate", "confirm"}
Described == {"describe", "write-descriptor", "checkpoint"} \union Seeding
WithPapers == {"control", "create"} \union Described

--------------------------------------------------------------------------------
(* The invariant *)

\* A checkpoint that activates has a seed for every paper; a seed made for the
\* head a package has agrees with that package.
SeedsOK(rec) ==
    /\ rec.phase = "activating-layout" => \A p \in rec.targets : rec.seeds[p] # None
    /\ \A p \in Paper : rec.seeds[p] # None =>
          /\ rec.seeds[p].head \in 1..(changes + 1)
          /\ rec.seeds[p].head = package[p].head => rec.seeds[p].state = StateOf(package[p])

RecordOK(rec) == rec # None => rec \in Record /\ SeedsOK(rec)

\* What an operation has found out before each of its steps.
StepOK(o) ==
    /\ o.step \in Described => o.control \in Control
    /\ o.step \in Seeding \union Activating => o.rec # None
    /\ o.step \in {"publish", "verify", "save"} => o.paper \in o.todo
    /\ o.step = "save" => o.gen # None
    /\ o.step \in Activating => o.rec.phase = "activating-layout"
    /\ o.step \in Seeding => /\ o.todo \subseteq Targets(o.papers)
                             /\ \A p \in o.rec.targets \ o.todo : o.rec.seeds[p] # None

\* What was read of a head stays right: head ids are never used twice.
PapersOK(o) ==
    \A p \in Paper :
        /\ o.papers[p].head <= changes + 1
        /\ o.papers[p].head = package[p].head /\ package[p].head # 0 =>
              o.papers[p].deleted = package[p].deleted

\* From the last look on, only papers in "late" differ from the seeds.
WindowOK(o) ==
    o.step \in {"complete", "bind", "activate"} /\ root.layout = 2 =>
        \A p \in Paper \ o.late :
            /\ p \in o.rec.targets <=> package[p].head # 0
            /\ p \in o.rec.targets => o.rec.seeds[p].head = package[p].head

\* The presence that was compared with the completion.
EvidenceOK(o) ==
    o.step \in {"bind", "activate"} /\ root.layout = 2 =>
        LET graph == presence[o.rec.control]
        IN  /\ \A p \in o.rec.targets : graph[p].state # "none"
            /\ ~overlapped => \A p \in Paper :
                  /\ Resolves(graph[p])
                  /\ graph[p].state = IF p \in o.rec.targets THEN o.rec.seeds[p].state ELSE "none"

OperationOK(o) ==
    /\ o \in Operation
    /\ RecordOK(o.rec)
    /\ StepOK(o)
    /\ PapersOK(o)
    /\ WindowOK(o)
    /\ EvidenceOK(o)
    /\ changes = 0 /\ o.step \in WithPapers => o.papers = package
    /\ ~overlapped /\ o.step = "activate" => root.layout = 2

\* A graph that is not empty has a root; while nobody else changes the library,
\* it says what the package says.
GraphOK(c, p) ==
    LET graph == presence[c][p]
    IN  /\ graph.state = "none" <=> graph = NoPresence
        /\ graph.state # "none" => graph.roots # {}
        /\ changes = 0 /\ graph.state # "none" =>
              package[p].head # 0 /\ graph.state = StateOf(package[p])

DriveOK ==
    /\ root \in [layout : {2, 3}, control : Control \union {None},
                 completion : CompletionFile \union {None}]
    /\ package \in [Paper -> Package]
    /\ controls \subseteq Control
    /\ descriptors \in [Control -> Nat]
    /\ presence \in [Control -> [Paper -> Presence]]
    /\ completions \subseteq CompletionFile
    /\ \A p \in Paper : package[p].head <= changes + 1
    /\ \A c \in Control, p \in Paper : GraphOK(c, p)

HistoryOK ==
    /\ changes \in Nat
    /\ refused \in [Device -> BOOLEAN]
    /\ overlapped \in BOOLEAN
    /\ missed \subseteq Paper

OneAtATime ==
    ~overlapped => \A d, e \in Device : d = e \/ At(d, "idle") \/ At(e, "idle")

IInv ==
    /\ DriveOK
    /\ HistoryOK
    /\ record \in [Device -> Record \union {None}]
    /\ op \in [Device -> Operation]
    /\ \A d \in Device : RecordOK(record[d])
    /\ \A d \in Device : OperationOK(op[d])
    /\ OneAtATime

--------------------------------------------------------------------------------
(* Steps of one device *)

\* A device that runs no upgrade satisfies everything an operation must.
LEMMA IdleOK == ASSUME IInv PROVE OperationOK(Idle)
  BY NoneIsNothing
  DEF IInv, HistoryOK, DriveOK, OperationOK, Idle, Operation, Package, NoPackage, RecordOK,
      StepOK, PapersOK, WindowOK, EvidenceOK, Steps, Described, Seeding, Activating, WithPapers

\* A device whose step changes neither root, packages nor presence disturbs nobody.
LEMMA OwnStep ==
    ASSUME IInv, NEW d \in Device,
           NEW o, op' = [op EXCEPT ![d] = o], OperationOK(o),
           At(d, "idle") => o.step = "idle",
           record' \in [Device -> Record \union {None}],
           \A e \in Device \ {d} : record'[e] = record[e],
           RecordOK(record'[d]),
           UNCHANGED <<root, package, presence, changes, overlapped, missed>>,
           controls' \subseteq Control, descriptors' \in [Control -> Nat],
           completions' \subseteq CompletionFile, refused' \in [Device -> BOOLEAN]
    PROVE  IInv'
<1> op' \in [Device -> Operation] /\ op'[d] = o /\ \A e \in Device \ {d} : op'[e] = op[e]
  BY DEF IInv, OperationOK
<1>1. DriveOK' /\ HistoryOK'
  BY DEF IInv, DriveOK, HistoryOK, GraphOK
<1>2. \A e \in Device : RecordOK(record[e])'
  BY DEF IInv, RecordOK, SeedsOK
<1>3. \A e \in Device : OperationOK(op[e])'
  BY DEF IInv, OperationOK, RecordOK, SeedsOK, StepOK, PapersOK, WindowOK, EvidenceOK
<1>4. OneAtATime'
  BY DEF IInv, OneAtATime, At
<1>5. QED
  BY <1>1, <1>2, <1>3, <1>4 DEF IInv

\* Refuse (an exception of the code) keeps the invariant.
LEMMA RefuseOK == ASSUME IInv, NEW d \in Device, Refuse(d) PROVE IInv'
<1>1. OperationOK(Idle) /\ Idle.step = "idle"
  BY IdleOK DEF Idle
<1>2. refused' \in [Device -> BOOLEAN] /\ RecordOK(record'[d])
  BY DEF IInv, Refuse, HistoryOK
<1>3. QED
  BY <1>1, <1>2, OwnStep DEF Refuse, drive, IInv, DriveOK

\* Fail (a failed request, a closed page) keeps the invariant.
LEMMA FailOK == ASSUME IInv, NEW d \in Device, Fail(d) PROVE IInv'
<1>1. OperationOK(Idle) /\ Idle.step = "idle"
  BY IdleOK DEF Idle
<1>2. QED
  BY <1>1, OwnStep DEF Fail, drive, history, IInv, DriveOK, HistoryOK

\* Before the activation, what was read of the papers and the checkpoint are enough.
LEMMA EarlyStep ==
    ASSUME IInv, NEW d \in Device, NEW o \in Operation, op' = [op EXCEPT ![d] = o],
           ~At(d, "idle"), o.step \notin {"complete", "bind", "activate"},
           \/ o.papers = package
           \/ o.papers = op[d].papers /\ (o.step \in WithPapers => op[d].step \in WithPapers),
           RecordOK(o.rec), StepOK(o),
           record' = record \/ record' = [record EXCEPT ![d] = o.rec],
           UNCHANGED <<root, package, presence, history>>,
           controls' \subseteq Control, descriptors' \in [Control -> Nat],
           completions' \subseteq CompletionFile
    PROVE  IInv'
<1>1. PapersOK(o) /\ (changes = 0 /\ o.step \in WithPapers => o.papers = package)
  BY DEF IInv, OperationOK, PapersOK, DriveOK
<1>2. OperationOK(o)
  BY <1>1 DEF OperationOK, WindowOK, EvidenceOK
<1>3. /\ record' \in [Device -> Record \union {None}] /\ RecordOK(record'[d])
      /\ \A e \in Device \ {d} : record'[e] = record[e]
  BY DEF IInv, RecordOK
<1>4. QED
  BY <1>2, <1>3, OwnStep DEF IInv, HistoryOK, history

\* Prepare (prepareV3Migration) keeps the invariant.
LEMMA PrepareOK == ASSUME IInv, NEW d \in Device, Prepare(d) PROVE IInv'
<1> DEFINE o == [op[d] EXCEPT !.papers = package, !.step = "control"]
<1>1. CASE ~Refuse(d)
  <2>1. /\ op' = [op EXCEPT ![d] = o] /\ op[d] \in Operation /\ OperationOK(op[d])
        /\ package \in [Paper -> Package] /\ ~At(d, "idle") /\ UNCHANGED <<drive, record, history>>
    BY <1>1 DEF Prepare, At, IInv, DriveOK
  <2>2. o \in Operation /\ o.step = "control" /\ o.papers = package /\ o.rec = op[d].rec
    BY <2>1 DEF Operation, Steps
  <2> HIDE DEF o
  <2>3. RecordOK(o.rec) /\ StepOK(o)
    BY <2>1, <2>2 DEF OperationOK, StepOK, Described, Seeding, Activating
  <2>4. QED
    BY <2>1, <2>2, <2>3, EarlyStep DEF drive, IInv, DriveOK
<1>2. QED
  BY <1>1, RefuseOK

\* FindControl (listControlFolders) keeps the invariant.
LEMMA FindControlOK == ASSUME IInv, NEW d \in Device, FindControl(d) PROVE IInv'
<1>1. /\ op[d].step = "control" /\ op[d] \in Operation /\ OperationOK(op[d]) /\ ~At(d, "idle")
      /\ controls \subseteq Control
  BY DEF FindControl, At, IInv, DriveOK
<1>2. CASE Goto(d, "create") /\ UNCHANGED <<drive, record, history>>
  <2> DEFINE o == [op[d] EXCEPT !.step = "create"]
  <2>1. op' = [op EXCEPT ![d] = o]
    BY <1>1, <1>2 DEF Goto, Operation, IInv
  <2>2. o \in Operation /\ o.step = "create" /\ o.papers = op[d].papers /\ o.rec = op[d].rec
    BY <1>1 DEF Operation, Steps
  <2> HIDE DEF o
  <2>3. RecordOK(o.rec) /\ StepOK(o) /\ op[d].step \in WithPapers
    BY <1>1, <2>2 DEF OperationOK, StepOK, Described, Seeding, Activating, WithPapers
  <2>4. QED
    BY <1>1, <1>2, <2>1, <2>2, <2>3, EarlyStep DEF drive, IInv, DriveOK
<1>3. ASSUME NEW c \in controls, UNCHANGED <<drive, record, history>>,
             op' = [op EXCEPT ![d].control = c, ![d].step = "describe"]
      PROVE  IInv'
  <2> DEFINE o == [op[d] EXCEPT !.control = c, !.step = "describe"]
  <2>1. op' = [op EXCEPT ![d] = o]
    BY <1>1, <1>3 DEF Operation, IInv
  <2>2. /\ o \in Operation /\ o.step = "describe" /\ o.control = c /\ c \in Control
        /\ o.papers = op[d].papers /\ o.rec = op[d].rec
    BY <1>1 DEF Operation, Steps
  <2> HIDE DEF o
  <2>3. RecordOK(o.rec) /\ StepOK(o) /\ op[d].step \in WithPapers
    BY <1>1, <2>2 DEF OperationOK, StepOK, Described, Seeding, Activating, WithPapers
  <2>4. QED
    BY <1>1, <1>3, <2>1, <2>2, <2>3, EarlyStep DEF drive, IInv, DriveOK
<1>4. QED
  BY <1>2, <1>3, RefuseOK DEF FindControl

\* CreateControl (createOrVerifyControlFolder) keeps the invariant.
LEMMA CreateControlOK == ASSUME IInv, NEW d \in Device, CreateControl(d) PROVE IInv'
<1> DEFINE o == [op[d] EXCEPT !.step = "control"]
<1>1. /\ op' = [op EXCEPT ![d] = o] /\ op[d] \in Operation /\ OperationOK(op[d])
      /\ op[d].step = "create" /\ ~At(d, "idle") /\ controls' \subseteq Control
  BY DEF CreateControl, Goto, At, IInv, DriveOK
<1>2. o \in Operation /\ o.step = "control" /\ o.papers = op[d].papers /\ o.rec = op[d].rec
  BY <1>1 DEF Operation, Steps
<1> HIDE DEF o
<1>3. RecordOK(o.rec) /\ StepOK(o) /\ op[d].step \in WithPapers
  BY <1>1, <1>2 DEF OperationOK, StepOK, Described, Seeding, Activating, WithPapers
<1>4. QED
  BY <1>1, <1>2, <1>3, EarlyStep DEF CreateControl, IInv, DriveOK

\* FindDescriptor (ensureLayoutDescriptor) keeps the invariant.
LEMMA FindDescriptorOK == ASSUME IInv, NEW d \in Device, FindDescriptor(d) PROVE IInv'
<1>1. ASSUME NEW step \in {"write-descriptor", "checkpoint"}, Goto(d, step),
             UNCHANGED <<drive, record, history>>
      PROVE  IInv'
  <2> DEFINE o == [op[d] EXCEPT !.step = step]
  <2>1. /\ op' = [op EXCEPT ![d] = o] /\ op[d] \in Operation /\ OperationOK(op[d])
        /\ op[d].step = "describe" /\ ~At(d, "idle")
    BY <1>1 DEF FindDescriptor, Goto, At, IInv
  <2>2. /\ o \in Operation /\ o.step = step /\ o.control = op[d].control
        /\ o.papers = op[d].papers /\ o.rec = op[d].rec
    BY <2>1 DEF Operation, Steps
  <2> HIDE DEF o
  <2>3. RecordOK(o.rec) /\ StepOK(o) /\ op[d].step \in WithPapers
    BY <2>1, <2>2 DEF OperationOK, StepOK, Described, Seeding, Activating, WithPapers
  <2>4. QED
    BY <1>1, <2>1, <2>2, <2>3, EarlyStep DEF drive, IInv, DriveOK
<1>2. QED
  BY <1>1, RefuseOK DEF FindDescriptor

\* WriteDescriptor (ensureLayoutDescriptor) keeps the invariant.
LEMMA WriteDescriptorOK == ASSUME IInv, NEW d \in Device, WriteDescriptor(d) PROVE IInv'
<1> DEFINE o == [op[d] EXCEPT !.step = "checkpoint"]
<1>1. /\ op' = [op EXCEPT ![d] = o] /\ op[d] \in Operation /\ OperationOK(op[d])
      /\ op[d].step = "write-descriptor" /\ ~At(d, "idle")
  BY DEF WriteDescriptor, Goto, At, IInv
<1>2. /\ o \in Operation /\ o.step = "checkpoint" /\ o.control = op[d].control
      /\ o.papers = op[d].papers /\ o.rec = op[d].rec
  BY <1>1 DEF Operation, Steps
<1> HIDE DEF o
<1>3. RecordOK(o.rec) /\ StepOK(o) /\ op[d].step \in WithPapers /\ op[d].control \in Control
  BY <1>1, <1>2 DEF OperationOK, StepOK, Described, Seeding, Activating, WithPapers
<1>4. descriptors' \in [Control -> Nat]
  BY <1>3 DEF WriteDescriptor, IInv, DriveOK
<1>5. QED
  BY <1>1, <1>2, <1>3, <1>4, EarlyStep DEF WriteDescriptor, IInv, DriveOK

\* Checkpoint (upgradeDriveSyncToV3Owned) keeps the invariant.
LEMMA CheckpointOK == ASSUME IInv, NEW d \in Device, Checkpoint(d) PROVE IInv'
<1> DEFINE old == op[d].rec
           targets == Targets(op[d].papers)
           fresh == FirstRecord(op[d].control, targets)
           again == [old EXCEPT !.phase = "seeding-presence"]
<1>1. /\ op[d].step = "checkpoint" /\ op[d] \in Operation /\ OperationOK(op[d]) /\ ~At(d, "idle")
      /\ op[d].control \in Control /\ targets \subseteq Paper
  BY DEF Checkpoint, At, IInv, OperationOK, StepOK, Described, Targets
<1>2. ASSUME NEW rec \in Record, SeedsOK(rec), rec.targets = targets,
             rec.phase = "seeding-presence", UNCHANGED <<drive, history>>,
             op' = [op EXCEPT ![d].rec = rec, ![d].todo = targets, ![d].step = "seed"],
             record' = record \/ record' = [record EXCEPT ![d] = rec]
      PROVE  IInv'
  <2> DEFINE o == [op[d] EXCEPT !.rec = rec, !.todo = targets, !.step = "seed"]
  <2>1. op' = [op EXCEPT ![d] = o]
    BY <1>1, <1>2 DEF Operation, IInv
  <2>2. /\ o \in Operation /\ o.step = "seed" /\ o.control = op[d].control
        /\ o.papers = op[d].papers /\ o.rec = rec /\ o.todo = targets
    BY <1>1 DEF Operation, Steps
  <2> HIDE DEF o
  <2>3. /\ RecordOK(o.rec) /\ op[d].step \in WithPapers
        /\ StepOK(o)
    BY <1>1, <1>2, <2>2, NoneIsNothing
    DEF RecordOK, StepOK, Described, Seeding, Activating, WithPapers
  <2>4. QED
    BY <1>1, <1>2, <2>1, <2>2, <2>3, EarlyStep DEF drive, IInv, DriveOK
<1>3. /\ fresh \in Record /\ SeedsOK(fresh)
      /\ fresh.targets = targets /\ fresh.phase = "seeding-presence"
  BY <1>1 DEF FirstRecord, Record, SeedsOK
<1>4. ASSUME old # None, old.targets = targets
      PROVE  /\ again \in Record /\ SeedsOK(again)
             /\ again.targets = targets /\ again.phase = "seeding-presence"
  BY <1>1, <1>4 DEF OperationOK, RecordOK, Record, SeedsOK
<1>5. CASE old = None /\ ~Refuse(d)
  BY <1>2, <1>3, <1>5 DEF Checkpoint
<1>6. CASE old # None /\ ~Refuse(d)
  <2>1. /\ old.targets = targets /\ UNCHANGED <<drive, record, history>>
        /\ op' = [op EXCEPT ![d].rec.phase = "seeding-presence", ![d].todo = targets,
                            ![d].step = "seed"]
    BY <1>6 DEF Checkpoint
  <2>2. op' = [op EXCEPT ![d].rec = again, ![d].todo = targets, ![d].step = "seed"]
    BY <2>1, <1>1 DEF IInv, Operation
  <2>3. QED
    BY <2>1, <2>2, <1>2, <1>4, <1>6
<1>7. QED
  BY <1>5, <1>6, RefuseOK

\* The baseline of a graph is one of its roots.
LEMMA RootIn == ASSUME NEW graph, graph.roots # {} PROVE RootOf(graph) \in graph.roots
  BY DEF RootOf

\* ReadSeed (seedV3MigrationPresence) keeps the invariant.
LEMMA ReadSeedOK == ASSUME IInv, NEW d \in Device, ReadSeed(d) PROVE IInv'
<1>1. /\ op[d].step = "seed" /\ op[d] \in Operation /\ OperationOK(op[d]) /\ ~At(d, "idle")
      /\ op[d].control \in Control /\ op[d].rec # None
  BY DEF ReadSeed, At, IInv, OperationOK, StepOK, Described, Seeding
<1>2. ASSUME NEW p \in op[d].todo, NEW gen \in Device \union {Later, None},
             NEW step \in {"publish", "save"}, step = "save" => gen # None,
             UNCHANGED <<drive, record, history>>,
             op' = [op EXCEPT ![d].paper = p, ![d].gen = gen, ![d].step = step]
      PROVE  IInv'
  <2> DEFINE o == [op[d] EXCEPT !.paper = p, !.gen = gen, !.step = step]
  <2>1. op' = [op EXCEPT ![d] = o]
    BY <1>1, <1>2 DEF Operation, IInv
  <2>2. /\ o \in Operation /\ o.step = step /\ o.control = op[d].control /\ o.gen = gen
        /\ o.papers = op[d].papers /\ o.rec = op[d].rec /\ o.todo = op[d].todo /\ o.paper = p
    BY <1>1 DEF Operation, Steps
  <2> HIDE DEF o
  <2>3. RecordOK(o.rec) /\ StepOK(o) /\ op[d].step \in WithPapers
    BY <1>1, <1>2, <2>2 DEF OperationOK, StepOK, Described, Seeding, Activating, WithPapers
  <2>4. QED
    BY <1>1, <1>2, <2>1, <2>2, <2>3, EarlyStep DEF drive, IInv, DriveOK
<1>3. CASE ~Refuse(d)
  <2>1. PICK p \in op[d].todo :
           LET graph == presence[op[d].control][p]
           IN  /\ op' = [op EXCEPT ![d].paper = p,
                              ![d].gen = IF graph = NoPresence THEN None ELSE RootOf(graph),
                              ![d].step = IF graph = NoPresence THEN "publish" ELSE "save"]
               /\ UNCHANGED <<drive, record, history>>
    BY <1>3 DEF ReadSeed
  <2> DEFINE graph == presence[op[d].control][p]
  <2>2. graph \in Presence /\ GraphOK(op[d].control, p)
    BY <1>1 DEF IInv, DriveOK, Operation
  <2>3. CASE graph = NoPresence
    BY <1>2, <2>1, <2>3
  <2>4. CASE graph # NoPresence
    <3>1. RootOf(graph) \in Device \union {Later} /\ RootOf(graph) # None
      BY <2>2, <2>4, RootIn, NoneIsNothing, LaterIsNoDevice DEF GraphOK, Presence
    <3>2. QED
      BY <1>2, <2>1, <2>4, <3>1
  <2>5. QED
    BY <2>3, <2>4
<1>4. QED
  BY <1>3, RefuseOK

\* VerifySeed (publishMigrationBaseline) keeps the invariant.
LEMMA VerifySeedOK == ASSUME IInv, NEW d \in Device, VerifySeed(d) PROVE IInv'
<1> DEFINE o == [op[d] EXCEPT !.gen = d, !.step = "save"]
<1>1. CASE ~Refuse(d)
  <2>1. /\ op' = [op EXCEPT ![d] = o] /\ op[d] \in Operation /\ OperationOK(op[d])
        /\ op[d].step = "verify" /\ ~At(d, "idle") /\ UNCHANGED <<drive, record, history>>
    BY <1>1 DEF VerifySeed, At, IInv, Operation
  <2>2. /\ op[d].control \in Control /\ op[d].rec # None /\ op[d].paper \in op[d].todo
        /\ d # None
    BY <2>1, NoneIsNothing DEF OperationOK, StepOK, Described, Seeding
  <2>3. /\ o \in Operation /\ o.step = "save" /\ o.control = op[d].control
        /\ o.gen = d /\ o.papers = op[d].papers /\ o.rec = op[d].rec
        /\ o.todo = op[d].todo /\ o.paper = op[d].paper
    BY <2>1 DEF Operation, Steps
  <2> HIDE DEF o
  <2>4. RecordOK(o.rec) /\ StepOK(o) /\ op[d].step \in WithPapers
    BY <2>1, <2>2, <2>3
    DEF OperationOK, StepOK, Described, Seeding, Activating, WithPapers
  <2>5. QED
    BY <2>1, <2>3, <2>4, EarlyStep DEF drive, IInv, DriveOK
<1>2. QED
  BY <1>1, RefuseOK

\* Inspect (prepareV3Migration, again) keeps the invariant: it opens the window.
LEMMA InspectOK == ASSUME IInv, NEW d \in Device, Inspect(d) PROVE IInv'
<1> DEFINE o == [op[d] EXCEPT !.late = {}, !.step = "complete"]
<1>1. CASE ~Refuse(d)
  <2>1. /\ op' = [op EXCEPT ![d] = o] /\ op[d] \in Operation /\ OperationOK(op[d])
        /\ op[d].step = "inspect" /\ (root.layout = 3 \/ AsSeeded(op[d].rec))
        /\ UNCHANGED <<drive, record, history>>
    BY <1>1 DEF Inspect, At, IInv, Operation
  <2>2. /\ o \in Operation /\ o.step = "complete" /\ o.papers = op[d].papers
        /\ o.rec = op[d].rec /\ o.late = {}
    BY <2>1 DEF Operation, Steps
  <2> HIDE DEF o
  <2>3. StepOK(o)
    BY <2>1, <2>2 DEF OperationOK, StepOK, Described, Seeding, Activating
  <2>4. WindowOK(o)
    BY <2>1, <2>2 DEF IInv, DriveOK, WindowOK, AsSeeded, Targets
  <2>5. OperationOK(o)
    BY <2>1, <2>2, <2>3, <2>4
    DEF OperationOK, PapersOK, EvidenceOK, WithPapers, Described, Seeding
  <2>6. QED
    BY <2>1, <2>5, OwnStep DEF At, drive, history, IInv, DriveOK, HistoryOK
<1>2. QED
  BY <1>1, RefuseOK

\* Bind (activateV3RootMetadata) keeps the invariant.
LEMMA BindOK == ASSUME IInv, NEW d \in Device, Bind(d) PROVE IInv'
<1> DEFINE step == IF Bound(d) THEN "confirm" ELSE "activate"
           o == [op[d] EXCEPT !.step = step]
<1>1. CASE ~Refuse(d)
  <2>1. /\ op' = [op EXCEPT ![d] = o] /\ op[d] \in Operation /\ OperationOK(op[d])
        /\ op[d].step = "bind" /\ Bindable(d) /\ UNCHANGED <<drive, record, history>>
    BY <1>1 DEF Bind, Goto, At, IInv
  <2>2. step \in {"confirm", "activate"} /\ (step = "activate" => root.layout = 2)
    BY <2>1 DEF Bindable
  <2> HIDE DEF step
  <2>3. /\ o \in Operation /\ o.step = step /\ o.papers = op[d].papers
        /\ o.rec = op[d].rec /\ o.late = op[d].late
    BY <2>1, <2>2 DEF Operation, Steps
  <2> HIDE DEF o
  <2>4. StepOK(o)
    BY <2>1, <2>2, <2>3 DEF OperationOK, StepOK, Described, Seeding, Activating
  <2>5. OperationOK(o)
    BY <2>1, <2>2, <2>3, <2>4
    DEF OperationOK, PapersOK, WindowOK, EvidenceOK, WithPapers, Described, Seeding
  <2>6. QED
    BY <2>1, <2>5, OwnStep DEF At, drive, history, IInv, DriveOK, HistoryOK
<1>2. QED
  BY <1>1, RefuseOK

\* SaveSeed (upgradeDriveSyncToV3Owned) keeps the invariant.
LEMMA SaveSeedOK == ASSUME IInv, NEW d \in Device, SaveSeed(d) PROVE IInv'
<1> DEFINE p == op[d].paper
           seed == [gen |-> op[d].gen, state |-> StateOf(op[d].papers[p]),
                    head |-> op[d].papers[p].head]
           rec == [op[d].rec EXCEPT !.seeds[p] = seed]
           o == [op[d] EXCEPT !.rec = rec, !.todo = @ \ {p},
                              !.paper = None, !.gen = None, !.step = "seed"]
<1>1. CASE ~Refuse(d)
  <2>1. /\ op' = [op EXCEPT ![d] = o] /\ record' = [record EXCEPT ![d] = rec]
        /\ UNCHANGED <<drive, history>>
        /\ op[d] \in Operation /\ OperationOK(op[d]) /\ op[d].step = "save"
    BY <1>1 DEF SaveSeed, At, IInv, Operation
  <2>2. /\ op[d].control \in Control /\ op[d].gen \in Device \union {Later}
        /\ op[d].rec \in Record /\ SeedsOK(op[d].rec)
        /\ p \in Paper /\ p \in op[d].todo
        /\ op[d].papers[p] \in Package /\ op[d].papers[p].head # 0
    BY <2>1 DEF OperationOK, StepOK, RecordOK, Described, Seeding, Operation, Targets
  <2>3. /\ seed \in Seed /\ seed # None
        /\ seed.head \in 1..(changes + 1)
        /\ seed.head = package[p].head => seed.state = StateOf(package[p])
    BY <2>1, <2>2, NoneIsNothing
    DEF Seed, Package, StateOf, OperationOK, PapersOK, IInv, HistoryOK, DriveOK
  <2> HIDE DEF seed
  <2>4. /\ rec \in Record /\ rec # None /\ rec.phase = op[d].rec.phase
        /\ rec.targets = op[d].rec.targets /\ rec.control = op[d].rec.control
        /\ rec.seeds[p] = seed
        /\ \A q \in Paper \ {p} : rec.seeds[q] = op[d].rec.seeds[q]
    BY <2>2, <2>3, NoneIsNothing DEF Record
  <2> HIDE DEF rec
  <2>5. SeedsOK(rec)
    BY <2>2, <2>3, <2>4 DEF SeedsOK, Record
  <2>6. o \in Operation /\ o.step = "seed" /\ o.rec = rec /\ o.todo = op[d].todo \ {p}
        /\ o.control = op[d].control /\ o.papers = op[d].papers
    BY <2>1, <2>2, <2>4 DEF Operation, Steps
  <2> HIDE DEF o
  <2>7. StepOK(o)
    BY <2>1, <2>2, <2>3, <2>4, <2>6 DEF StepOK, OperationOK, Described, Seeding, Activating, Record
  <2>8. QED
    BY <2>1, <2>4, <2>5, <2>6, <2>7, EarlyStep
    DEF RecordOK, WithPapers, Described, Seeding, At, drive, IInv, DriveOK
<1>2. QED
  BY <1>1, RefuseOK

\* SaveActivating (upgradeDriveSyncToV3Owned) keeps the invariant.
LEMMA SaveActivatingOK == ASSUME IInv, NEW d \in Device, SaveActivating(d) PROVE IInv'
<1> DEFINE rec == [op[d].rec EXCEPT !.phase = "activating-layout"]
           o == [Idle EXCEPT !.rec = rec, !.step = "inspect"]
<1>1. /\ op' = [op EXCEPT ![d] = o] /\ record' = [record EXCEPT ![d] = rec]
      /\ op[d].todo = {} /\ op[d].step = "seed"
      /\ op[d].rec \in Record /\ SeedsOK(op[d].rec)
      /\ \A p \in op[d].rec.targets : op[d].rec.seeds[p] # None
  BY DEF SaveActivating, At, IInv, OperationOK, RecordOK, StepOK, Seeding, Operation
<1>2. /\ rec \in Record /\ rec.phase = "activating-layout"
      /\ rec.targets = op[d].rec.targets /\ rec.seeds = op[d].rec.seeds
  BY <1>1 DEF Record
<1> HIDE DEF rec
<1>3. SeedsOK(rec)
  BY <1>1, <1>2 DEF SeedsOK
<1>4. /\ o \in Operation /\ o.step = "inspect" /\ o.rec = rec /\ o.papers = Idle.papers
  BY <1>2, IdleOK DEF OperationOK, Idle, Operation, Steps
<1> HIDE DEF o
<1>5. OperationOK(o)
  BY <1>2, <1>3, <1>4, IdleOK, NoneIsNothing
  DEF OperationOK, RecordOK, StepOK, PapersOK, WindowOK, EvidenceOK, WithPapers, Described,
      Seeding, Activating
<1>6. /\ record' \in [Device -> Record \union {None}] /\ RecordOK(record'[d])
      /\ \A e \in Device \ {d} : record'[e] = record[e]
  BY <1>1, <1>2, <1>3 DEF IInv, RecordOK
<1>7. QED
  BY <1>1, <1>5, <1>6, OwnStep DEF SaveActivating, At, drive, history, IInv, DriveOK, HistoryOK

\* Finish (upgradeDriveSyncToV3Owned) keeps the invariant.
LEMMA FinishOK == ASSUME IInv, NEW d \in Device, Finish(d) PROVE IInv'
<1>1. CASE ~Refuse(d)
  <2>1. /\ record' = [record EXCEPT ![d] = None] /\ op' = [op EXCEPT ![d] = Idle]
        /\ UNCHANGED <<drive, history>> /\ ~At(d, "idle")
    BY <1>1 DEF Finish, At
  <2>2. /\ record' \in [Device -> Record \union {None}] /\ RecordOK(record'[d])
        /\ \A e \in Device \ {d} : record'[e] = record[e]
    BY <2>1, NoneIsNothing DEF IInv, RecordOK
  <2> QED
    BY <2>1, <2>2, IdleOK, OwnStep DEF drive, history, IInv, DriveOK, HistoryOK
<1>2. QED
  BY <1>1, RefuseOK

\* What ensureMigrationCompletion writes is a completion.
LEMMA CompletionType ==
    ASSUME NEW d \in Device, op[d].rec \in Record, SeedsOK(op[d].rec),
           op[d].rec.phase = "activating-layout"
    PROVE  Completion(d) \in CompletionFile
<1> DEFINE rec == op[d].rec
<1>1. \A p \in rec.targets : rec.seeds[p] \in Seed
  BY DEF Record, SeedsOK
<1>2. Evidence(rec) \in [Paper -> Named \union {None}]
  BY <1>1 DEF Evidence, Named, Seed
<1>3. QED
  BY <1>2 DEF Completion, CompletionFile, Record

\* The completion is a file of its own; whoever goes on has compared presence.
LEMMA WriteCompletionOK == ASSUME IInv, NEW d \in Device, WriteCompletion(d) PROVE IInv'
<1> DEFINE rec == op[d].rec
           graph == presence[rec.control]
           proved == /\ \A p \in Paper : Resolves(graph[p])
                     /\ {p \in Paper : graph[p] # NoPresence} = rec.targets
                     /\ \A p \in rec.targets : /\ rec.seeds[p].gen \in graph[p].roots
                                               /\ graph[p].state = rec.seeds[p].state
           o == IF proved THEN [op[d] EXCEPT !.step = "bind"] ELSE Idle
<1>1. /\ op' = [op EXCEPT ![d] = o] /\ op[d].step = "complete" /\ op[d] \in Operation
      /\ OperationOK(op[d]) /\ completions' = completions \union {Completion(d)}
      /\ refused' = [refused EXCEPT ![d] = ~proved]
      /\ UNCHANGED <<root, package, controls, descriptors, presence, record, changes,
                     overlapped, missed>>
  BY DEF WriteCompletion, CompletionsWith, At, IInv
<1>2. /\ rec \in Record /\ SeedsOK(rec) /\ rec.phase = "activating-layout"
  BY <1>1 DEF OperationOK, StepOK, RecordOK, Activating
<1>3. Completion(d) \in CompletionFile
  BY <1>2, CompletionType
<1>4. OperationOK(o)
  <2>1. CASE ~proved
    BY <2>1, IdleOK
  <2>2. CASE proved
    <3>1. o = [op[d] EXCEPT !.step = "bind"]
      BY <2>2
    <3>2. /\ o \in Operation /\ o.step = "bind" /\ o.control = op[d].control
          /\ o.papers = op[d].papers /\ o.rec = rec /\ o.late = op[d].late
      BY <3>1, <1>1 DEF Operation, Steps
    <3>3. \A p \in Paper : Resolves(graph[p]) /\ graph[p].state =
             IF p \in rec.targets THEN rec.seeds[p].state ELSE "none"
      BY <2>2, <1>2 DEF IInv, DriveOK, GraphOK, Record, NoPresence
    <3>4. \A p \in rec.targets : graph[p].state # "none"
      BY <2>2, <1>2 DEF IInv, DriveOK, GraphOK, Record
    <3> HIDE DEF o, proved
    <3>5. EvidenceOK(o)
      BY <3>2, <3>3, <3>4 DEF EvidenceOK
    <3> QED
      BY <1>1, <3>2, <3>5
      DEF OperationOK, RecordOK, StepOK, PapersOK, WindowOK, WithPapers, Described, Seeding,
          Activating
  <2> QED
    BY <2>1, <2>2
<1> HIDE DEF o, proved
<1>5. QED
  BY <1>1, <1>3, <1>4, OwnStep DEF At, IInv, DriveOK, HistoryOK

\* Begin (upgradeDriveSyncToV3Owned) keeps the invariant.
LEMMA BeginOK == ASSUME IInv, NEW d \in Device, Begin(d) PROVE IInv'
<1> DEFINE resumes == ActiveRoot /\ record[d].phase = "activating-layout"
           step == IF resumes THEN "inspect" ELSE "prepare"
           blocked == ActiveRoot /\ ~resumes
           o == IF blocked THEN Idle ELSE [Idle EXCEPT !.step = step, !.rec = record[d]]
<1>1. /\ op' = [op EXCEPT ![d] = o] /\ refused' = [refused EXCEPT ![d] = blocked]
      /\ overlapped' = (overlapped \/ \E e \in Device \ {d} : ~At(e, "idle"))
      /\ ActiveRoot => record[d] # None
      /\ UNCHANGED <<root, package, controls, descriptors, presence, completions, record,
                     changes, missed>>
  BY DEF Begin, drive
<1>2. record[d] \in Record \union {None} /\ RecordOK(record[d])
  BY DEF IInv
<1>3. OperationOK(o)
  <2>1. CASE blocked
    BY <2>1, IdleOK
  <2>2. CASE ~blocked
    <3>1. o = [Idle EXCEPT !.step = step, !.rec = record[d]]
      BY <2>2
    <3>2. /\ o \in Operation /\ o.step = step /\ o.rec = record[d] /\ o.papers = Idle.papers
      BY <3>1, <1>2, IdleOK DEF OperationOK, Idle, Operation, Steps
    <3>3. \/ step = "prepare"
          \/ step = "inspect" /\ record[d] # None /\ record[d].phase = "activating-layout"
      <4>1. CASE resumes
        BY <4>1, <1>1
      <4>2. CASE ~resumes
        BY <4>2
      <4> QED
        BY <4>1, <4>2
    <3> HIDE DEF o, step
    <3> QED
      BY <3>2, <3>3, <1>2, IdleOK
      DEF OperationOK, RecordOK, StepOK, PapersOK, WindowOK, EvidenceOK, WithPapers, Described,
          Seeding, Activating
  <2> QED
    BY <2>1, <2>2
<1>0. refused' \in [Device -> BOOLEAN]
  BY <1>1, Zenon DEF IInv, HistoryOK
<1> HIDE DEF o, blocked
<1>4. /\ op' \in [Device -> Operation] /\ op'[d] = o
      /\ \A e \in Device \ {d} : op'[e] = op[e]
  BY <1>1, <1>3 DEF IInv, OperationOK
<1>5. overlapped' \in BOOLEAN /\ (overlapped => overlapped')
  BY <1>1, Zenon DEF IInv, HistoryOK
<1>6. DriveOK' /\ HistoryOK'
  BY <1>1, <1>5, <1>0 DEF IInv, DriveOK, HistoryOK, GraphOK
<1>7. \A e \in Device : RecordOK(record[e])'
  BY <1>1 DEF IInv, RecordOK, SeedsOK
<1>8. \A e \in Device : OperationOK(op[e])'
  BY <1>1, <1>3, <1>4, <1>5
  DEF IInv, OperationOK, RecordOK, SeedsOK, StepOK, PapersOK, WindowOK, EvidenceOK
<1>9. OneAtATime'
  BY <1>1, <1>4 DEF OneAtATime, At
<1>10. record' \in [Device -> Record \union {None}]
  BY <1>1 DEF IInv
<1>11. QED
  BY <1>4, <1>6, <1>7, <1>8, <1>9, <1>10 DEF IInv

\* WriteSeed (publishMigrationBaseline) keeps the invariant.
LEMMA WriteSeedOK == ASSUME IInv, NEW d \in Device, WriteSeed(d) PROVE IInv'
<1> DEFINE c == op[d].control
           p == op[d].paper
           old == presence[c][p]
           new == [roots |-> old.roots \union {d}, moved |-> old.moved,
                   state |-> IF old.state = "removed" THEN "removed"
                             ELSE StateOf(op[d].papers[p])]
           o == [op[d] EXCEPT !.step = "verify"]
<1>1. /\ op[d].step = "publish" /\ op[d] \in Operation /\ OperationOK(op[d])
      /\ op' = [op EXCEPT ![d] = o] /\ ~At(d, "idle")
      /\ UNCHANGED <<root, package, controls, descriptors, completions, record, history>>
      /\ presence' = [presence EXCEPT ![c][p] = new]
  BY DEF WriteSeed, Goto, At, IInv
<1>2. /\ c \in Control /\ p \in Paper /\ p \in op[d].todo
      /\ op[d].papers \in [Paper -> Package] /\ op[d].papers[p].head # 0
  BY <1>1 DEF OperationOK, StepOK, Described, Seeding, Operation, Targets
<1>3. /\ old \in Presence /\ GraphOK(c, p)
      /\ package[p] \in Package
  BY <1>2 DEF IInv, DriveOK
<1>4. /\ new \in Presence /\ new # NoPresence /\ new.state # "none" /\ new.roots # {}
      /\ changes = 0 => package[p].head # 0 /\ new.state = StateOf(package[p])
  <2>1. new \in Presence /\ new.state \in {"present", "removed"} /\ d \in new.roots
        /\ new.state = IF old.state = "removed" THEN "removed" ELSE StateOf(op[d].papers[p])
    BY <1>2, <1>3 DEF Presence, StateOf
  <2>2. new # NoPresence
    BY <2>1 DEF NoPresence
  <2>3. changes = 0 => op[d].papers = package
    BY <1>1 DEF OperationOK, WithPapers, Described, Seeding
  <2>4. changes = 0 /\ old.state = "removed" => StateOf(package[p]) = "removed"
    BY <1>3 DEF GraphOK
  <2> HIDE DEF new
  <2> QED
    BY <2>1, <2>2, <2>3, <2>4, <1>2
<1> HIDE DEF new
<1>5. /\ presence' \in [Control -> [Paper -> Presence]] /\ presence'[c][p] = new
      /\ \A c1 \in Control, q \in Paper : c1 # c \/ q # p => presence'[c1][q] = presence[c1][q]
  BY <1>1, <1>2, <1>4 DEF IInv, DriveOK
<1>6. \A c1 \in Control, q \in Paper : GraphOK(c1, q)'
  <2> SUFFICES ASSUME NEW c1 \in Control, NEW q \in Paper PROVE GraphOK(c1, q)'
    OBVIOUS
  <2>1. CASE c1 = c /\ q = p
    BY <2>1, <1>1, <1>4, <1>5 DEF GraphOK, history
  <2>2. CASE c1 # c \/ q # p
    <3>1. presence'[c1][q] = presence[c1][q] /\ UNCHANGED <<package, changes>>
      BY <2>2, <1>1, <1>5 DEF history
    <3> QED
      BY <3>1 DEF GraphOK, IInv, DriveOK
  <2> QED
    BY <2>1, <2>2
<1>7. DriveOK' /\ HistoryOK'
  BY <1>1, <1>5, <1>6 DEF IInv, DriveOK, HistoryOK, history
<1>8. /\ o \in Operation /\ o.step = "verify" /\ o.control = op[d].control
      /\ o.papers = op[d].papers /\ o.todo = op[d].todo /\ o.paper = op[d].paper
      /\ o.rec = op[d].rec
  BY <1>1 DEF Operation, Steps
<1> HIDE DEF o
<1>9. /\ op' \in [Device -> Operation] /\ op'[d] = o
      /\ \A e \in Device \ {d} : op'[e] = op[e]
  BY <1>1, <1>8 DEF IInv
<1>10. OperationOK(op[d])'
  <2>1. RecordOK(op[d].rec)' /\ PapersOK(op[d])'
    BY <1>1, <1>8, <1>9 DEF OperationOK, RecordOK, SeedsOK, PapersOK, history
  <2>2. StepOK(o)
    BY <1>1, <1>8 DEF OperationOK, StepOK, Described, Seeding, Activating
  <2>3. changes = 0 => o.papers = package
    BY <1>1, <1>8 DEF OperationOK, WithPapers, Described, Seeding
  <2> QED
    BY <2>1, <2>2, <2>3, <1>1, <1>8, <1>9
    DEF OperationOK, StepOK, WindowOK, EvidenceOK, history
<1>11. ASSUME NEW e \in Device \ {d} PROVE OperationOK(op[e])'
  <2>1. op'[e] = op[e] /\ OperationOK(op[e])
    BY <1>9 DEF IInv
  <2>2. ~overlapped => op[e].step = "idle"
    BY <1>1 DEF IInv, OneAtATime, At
  <2>3. EvidenceOK(op[e])'
    <3> SUFFICES ASSUME op[e].step \in {"bind", "activate"}, root.layout = 2
                 PROVE  \A q \in op[e].rec.targets : presence'[op[e].rec.control][q].state # "none"
      BY <2>1, <2>2, <1>1 DEF EvidenceOK, history
    <3>1. op[e].rec \in Record
      BY <2>1 DEF OperationOK, StepOK, RecordOK, Activating
    <3>2. \A q \in op[e].rec.targets : presence[op[e].rec.control][q].state # "none"
      BY <2>1 DEF OperationOK, EvidenceOK
    <3> QED
      BY <3>1, <3>2, <1>4, <1>5 DEF Record
  <2> QED
    BY <2>1, <2>3, <1>1 DEF OperationOK, RecordOK, SeedsOK, StepOK, PapersOK, WindowOK, history
<1>12. \A e \in Device : OperationOK(op[e])' /\ RecordOK(record[e])'
  BY <1>1, <1>10, <1>11 DEF IInv, RecordOK, SeedsOK, history
<1>13. OneAtATime'
  BY <1>1, <1>9 DEF IInv, OneAtATime, At, history
<1>14. record' \in [Device -> Record \union {None}]
  BY <1>1 DEF IInv
<1>15. QED
  BY <1>7, <1>9, <1>12, <1>13, <1>14 DEF IInv

\* Activate (activateV3RootMetadata) keeps the invariant.
LEMMA ActivateOK == ASSUME IInv, NEW d \in Device, Activate(d) PROVE IInv'
<1> DEFINE o == [op[d] EXCEPT !.step = "confirm"]
<1>1. /\ op[d].step = "activate" /\ op[d] \in Operation /\ OperationOK(op[d]) /\ ~At(d, "idle")
      /\ op' = [op EXCEPT ![d] = o] /\ missed' = op[d].late
      /\ root' = [layout |-> 3, control |-> op[d].rec.control, completion |-> Completion(d)]
      /\ UNCHANGED <<package, controls, descriptors, presence, completions, record, changes,
                     refused, overlapped>>
  BY DEF Activate, Goto, At, IInv
<1>2. /\ op[d].rec \in Record /\ SeedsOK(op[d].rec) /\ op[d].rec # None
      /\ op[d].rec.phase = "activating-layout"
  BY <1>1 DEF OperationOK, StepOK, RecordOK, Activating
<1>3. Completion(d) \in CompletionFile
  BY <1>2, CompletionType
<1>4. /\ root' \in [layout : {2, 3}, control : Control \union {None},
                    completion : CompletionFile \union {None}]
      /\ root'.layout = 3
  BY <1>1, <1>2, <1>3 DEF Record
<1>5. DriveOK' /\ HistoryOK'
  BY <1>1, <1>4 DEF IInv, DriveOK, HistoryOK, GraphOK, Operation
<1>6. /\ o \in Operation /\ o.step = "confirm" /\ o.papers = op[d].papers /\ o.rec = op[d].rec
  BY <1>1 DEF Operation, Steps
<1> HIDE DEF o
<1>7. /\ op' \in [Device -> Operation] /\ op'[d] = o
      /\ \A e \in Device \ {d} : op'[e] = op[e]
  BY <1>1, <1>6 DEF IInv
<1>8. OperationOK(op[d])'
  BY <1>1, <1>2, <1>4, <1>6, <1>7
  DEF OperationOK, RecordOK, SeedsOK, StepOK, PapersOK, WindowOK, EvidenceOK, WithPapers,
      Described, Seeding, Activating
<1>9. ASSUME NEW e \in Device \ {d} PROVE OperationOK(op[e])'
  <2>1. op'[e] = op[e] /\ OperationOK(op[e])
    BY <1>7 DEF IInv
  <2>2. ~overlapped => op[e].step = "idle"
    BY <1>1 DEF IInv, OneAtATime, At
  <2> QED
    BY <2>1, <2>2, <1>1, <1>4
    DEF OperationOK, RecordOK, SeedsOK, StepOK, PapersOK, WindowOK, EvidenceOK
<1>10. \A e \in Device : OperationOK(op[e])' /\ RecordOK(record[e])'
  BY <1>1, <1>8, <1>9 DEF IInv, RecordOK, SeedsOK
<1>11. OneAtATime'
  BY <1>1, <1>7 DEF IInv, OneAtATime, At
<1>12. record' \in [Device -> Record \union {None}]
  BY <1>1 DEF IInv
<1>13. QED
  BY <1>5, <1>7, <1>10, <1>11, <1>12 DEF IInv

--------------------------------------------------------------------------------
(* Steps of the others *)

\* A package that changes gets a head nobody has seen: what was read stays right.
LEMMA NewHead ==
    ASSUME IInv, NEW p \in Paper, NEW value \in Package,
           package' = [package EXCEPT ![p] = value],
           value = package[p] \/ value.head = changes + 2,
           changes' = changes + 1
    PROVE  /\ package' \in [Paper -> Package]
           /\ \A q \in Paper : package'[q].head <= changes' + 1
           /\ \A rec : RecordOK(rec) => RecordOK(rec)'
           /\ \A o \in Operation : PapersOK(o) => PapersOK(o)'
<1>1. /\ package' \in [Paper -> Package] /\ package'[p] = value
      /\ \A q \in Paper \ {p} : package'[q] = package[q]
      /\ changes \in Nat
      /\ \A q \in Paper : package[q] \in Package /\ package[q].head <= changes + 1
  BY DEF IInv, DriveOK, HistoryOK
<1>2. \A q \in Paper : package'[q].head <= changes' + 1
  BY <1>1 DEF Package
<1>3. ASSUME NEW rec, RecordOK(rec), rec # None PROVE RecordOK(rec)'
  <2>1. rec \in Record /\ SeedsOK(rec)
    BY <1>3 DEF RecordOK
  <2>2. SeedsOK(rec)'
    BY <2>1, <1>1 DEF SeedsOK, Package, StateOf
  <2> QED
    BY <2>1, <2>2 DEF RecordOK
<1>4. ASSUME NEW o \in Operation, PapersOK(o) PROVE PapersOK(o)'
  <2>1. \A q \in Paper : o.papers[q] \in Package
    BY DEF Operation
  <2> QED
    BY <2>1, <1>1, <1>4 DEF PapersOK, Package
<1>5. QED
  BY <1>1, <1>2, <1>3, <1>4 DEF RecordOK

\* OldBuildPublishes (an older build) keeps the invariant.
LEMMA OldBuildPublishesOK ==
    ASSUME IInv, NEW p \in Paper, OldBuildPublishes(p) PROVE IInv'
<1>1. PICK deleted \in BOOLEAN :
        package' = [package EXCEPT ![p] = [head |-> changes + 2, deleted |-> deleted]]
  BY DEF OldBuildPublishes
<1> DEFINE value == [head |-> changes + 2, deleted |-> deleted]
<1>2. /\ changes \in Nat /\ changes' = changes + 1 /\ changes' # 0 /\ value \in Package
      /\ UNCHANGED <<root, controls, descriptors, presence, completions, record, refused,
                     overlapped, missed>>
  BY DEF OldBuildPublishes, IInv, HistoryOK, Package
<1>3. /\ package' \in [Paper -> Package]
      /\ \A q \in Paper : package'[q].head <= changes' + 1
      /\ \A rec : RecordOK(rec) => RecordOK(rec)'
      /\ \A o \in Operation : PapersOK(o) => PapersOK(o)'
  BY <1>1, <1>2, NewHead
<1>4. DriveOK' /\ HistoryOK'
  BY <1>2, <1>3 DEF IInv, DriveOK, HistoryOK, GraphOK
<1>5. ASSUME NEW d \in Device
      PROVE  op'[d] \in Operation /\ OperationOK(op[d])' /\ op'[d].step = op[d].step
  <2> DEFINE o == op[d]
             o1 == IF Exposed(d) THEN [o EXCEPT !.late = @ \union {p}] ELSE o
  <2>1. op'[d] = o1
    BY DEF OldBuildPublishes
  <2>2. o \in Operation /\ OperationOK(o)
    BY DEF IInv
  <2>3. /\ o1 \in Operation /\ o1.step = o.step /\ o1.control = o.control
        /\ o1.papers = o.papers /\ o1.todo = o.todo /\ o1.paper = o.paper /\ o1.gen = o.gen
        /\ o1.rec = o.rec
        /\ o1.late = IF Exposed(d) THEN o.late \union {p} ELSE o.late
    BY <2>2 DEF Operation
  <2> HIDE DEF o1
  <2>4. RecordOK(op[d].rec)'
    BY <1>3, <2>1, <2>2, <2>3 DEF OperationOK, RecordOK, SeedsOK
  <2>5. PapersOK(op[d])'
    BY <1>3, <2>1, <2>2, <2>3 DEF OperationOK, PapersOK
  <2>6. StepOK(op[d])'
    BY <2>1, <2>2, <2>3 DEF OperationOK, StepOK
  <2>7. WindowOK(op[d])'
    <3>1. \A q \in Paper \ {p} : package'[q] = package[q]
      BY <1>1 DEF IInv, DriveOK
    <3> QED
      BY <3>1, <1>2, <2>1, <2>2, <2>3 DEF OperationOK, WindowOK, Exposed
  <2>8. EvidenceOK(op[d])'
    BY <1>2, <2>1, <2>2, <2>3 DEF OperationOK, EvidenceOK
  <2> QED
    BY <1>2, <2>1, <2>2, <2>3, <2>4, <2>5, <2>6, <2>7, <2>8 DEF OperationOK
<1>6. op' \in [Device -> Operation]
  BY <1>5 DEF OldBuildPublishes
<1>7. \A d \in Device : RecordOK(record[d])'
  BY <1>2, <1>3 DEF IInv, RecordOK, SeedsOK
<1>8. OneAtATime'
  BY <1>2, <1>5 DEF IInv, OneAtATime, At
<1>9. QED
  BY <1>2, <1>4, <1>5, <1>6, <1>7, <1>8 DEF IInv

\* OrdinarySync (a sync of this build) keeps the invariant.
LEMMA OrdinarySyncOK ==
    ASSUME IInv, NEW p \in Paper, OrdinarySync(p) PROVE IInv'
<1> DEFINE c == root.control
           graph == presence[c][p]
           new == [roots |-> IF graph = NoPresence THEN {Later} ELSE graph.roots,
                   moved |-> TRUE,
                   state |-> IF graph.state = "present" THEN "removed" ELSE "present"]
           value == IF graph.state = "present" THEN package[p]
                    ELSE [head |-> changes + 2, deleted |-> FALSE]
<1>1. /\ presence' = [presence EXCEPT ![c][p] = new]
      /\ package' = [package EXCEPT ![p] = value]
      /\ changes \in Nat /\ changes' = changes + 1 /\ changes' # 0
      /\ root.layout = 3
      /\ UNCHANGED <<root, controls, descriptors, completions, record, op, refused,
                     overlapped, missed>>
  BY DEF OrdinarySync, ActiveRoot, IInv, HistoryOK, DriveOK
<1>2. c \in Control /\ graph \in Presence /\ package[p] \in Package
  BY DEF OrdinarySync, ActiveRoot, Activated, IInv, DriveOK
<1>3. value \in Package /\ (value = package[p] \/ value.head = changes + 2)
  BY <1>1, <1>2 DEF Package
<1>4. /\ new \in Presence /\ new.state # "none" /\ new.roots # {} /\ new # NoPresence
  <2>1. new \in Presence /\ new.state # "none" /\ new.roots # {}
    BY <1>2 DEF Presence, IInv, DriveOK, GraphOK
  <2> HIDE DEF new
  <2> QED
    BY <2>1 DEF NoPresence
<1> HIDE DEF new, value
<1>5. /\ package' \in [Paper -> Package]
      /\ \A q \in Paper : package'[q].head <= changes' + 1
      /\ \A rec : RecordOK(rec) => RecordOK(rec)'
      /\ \A o \in Operation : PapersOK(o) => PapersOK(o)'
  BY <1>1, <1>3, NewHead
<1>6. /\ presence' \in [Control -> [Paper -> Presence]] /\ presence'[c][p] = new
      /\ \A c1 \in Control, q \in Paper : c1 # c \/ q # p => presence'[c1][q] = presence[c1][q]
  BY <1>1, <1>2, <1>4 DEF IInv, DriveOK
<1>7. \A c1 \in Control, q \in Paper : GraphOK(c1, q)'
  <2> SUFFICES ASSUME NEW c1 \in Control, NEW q \in Paper PROVE GraphOK(c1, q)'
    OBVIOUS
  <2>1. CASE c1 = c /\ q = p
    BY <2>1, <1>1, <1>4, <1>6 DEF GraphOK
  <2>2. CASE c1 # c \/ q # p
    BY <2>2, <1>1, <1>6 DEF GraphOK, IInv, DriveOK
  <2> QED
    BY <2>1, <2>2
<1>8. DriveOK' /\ HistoryOK'
  BY <1>1, <1>5, <1>6, <1>7 DEF IInv, DriveOK, HistoryOK
<1>9. ASSUME NEW d \in Device PROVE OperationOK(op[d])'
  <2>1. op'[d] = op[d] /\ op[d] \in Operation /\ OperationOK(op[d])
    BY <1>1 DEF IInv
  <2>2. RecordOK(op[d].rec)'
    BY <1>5, <2>1 DEF OperationOK, RecordOK, SeedsOK
  <2>3. PapersOK(op[d])'
    BY <1>5, <2>1 DEF OperationOK, PapersOK
  <2>4. StepOK(op[d])' /\ WindowOK(op[d])' /\ EvidenceOK(op[d])'
    BY <1>1, <2>1 DEF OperationOK, StepOK, WindowOK, EvidenceOK
  <2> QED
    BY <1>1, <2>1, <2>2, <2>3, <2>4 DEF OperationOK
<1>10. \A d \in Device : RecordOK(record[d])'
  BY <1>1, <1>5 DEF IInv, RecordOK, SeedsOK
<1>11. OneAtATime'
  BY <1>1 DEF IInv, OneAtATime, At
<1>12. QED
  BY <1>1, <1>8, <1>9, <1>10, <1>11 DEF IInv

--------------------------------------------------------------------------------
(* Theorems *)

\* The invariant holds in the initial states.
LEMMA InitOK == Init => IInv
<1> SUFFICES ASSUME Init PROVE IInv
  OBVIOUS
<1>1. /\ changes = 0 /\ overlapped = FALSE /\ missed = {} /\ refused = [d \in Device |-> FALSE]
      /\ record = [d \in Device |-> None] /\ op = [d \in Device |-> Idle]
      /\ root = [layout |-> 2, control |-> None, completion |-> None]
      /\ presence = [c \in Control |-> [p \in Paper |-> NoPresence]]
      /\ controls = {} /\ descriptors = [c \in Control |-> 0] /\ completions = {}
      /\ package \in [Paper -> {NoPackage} \union [head : {1}, deleted : BOOLEAN]]
  BY DEF Init
<1>2. ASSUME NEW p \in Paper PROVE package[p] \in Package /\ package[p].head <= 1
  <2>1. CASE package[p] = NoPackage
    BY <2>1 DEF NoPackage, Package
  <2>2. CASE package[p] \in [head : {1}, deleted : BOOLEAN]
    <3>1. PICK deleted \in BOOLEAN : package[p] = [head |-> 1, deleted |-> deleted]
      BY <2>2
    <3> QED
      BY <3>1 DEF Package
  <2> QED
    BY <1>1, <2>1, <2>2
<1>3. package \in [Paper -> Package] /\ \A p \in Paper : package[p].head <= changes + 1
  BY <1>1, <1>2
<1>4. DriveOK
  BY <1>1, <1>3 DEF DriveOK, GraphOK, NoPresence, Presence
<1>5. /\ HistoryOK /\ record \in [Device -> Record \union {None}]
      /\ \A d \in Device : RecordOK(record[d])
  BY <1>1 DEF HistoryOK, RecordOK
<1>6. OperationOK(Idle)
  BY <1>1, <1>5, NoneIsNothing
  DEF HistoryOK, OperationOK, Idle, Operation, Package, NoPackage, RecordOK, StepOK,
      PapersOK, WindowOK, EvidenceOK, Steps, Described, Seeding, Activating, WithPapers
<1>7. op \in [Device -> Operation] /\ \A d \in Device : OperationOK(op[d]) /\ At(d, "idle")
  BY <1>1, <1>6 DEF OperationOK, At, Idle
<1>8. QED
  BY <1>4, <1>5, <1>7 DEF IInv, OneAtATime

\* No step breaks the invariant.
LEMMA NextOK == IInv /\ [Next]_vars => IInv'
<1> SUFFICES ASSUME IInv, [Next]_vars PROVE IInv'
  OBVIOUS
<1>1. CASE UNCHANGED vars
  <2>1. UNCHANGED <<drive, record, op, history>>
    BY <1>1 DEF vars
  <2>2. DriveOK' /\ HistoryOK' /\ OneAtATime'
    BY <2>1 DEF drive, history, IInv, DriveOK, HistoryOK, GraphOK, OneAtATime, At
  <2>3. \A d \in Device : RecordOK(record[d])'
    BY <2>1 DEF drive, history, IInv, RecordOK, SeedsOK
  <2>4. \A d \in Device : OperationOK(op[d])'
    BY <2>1 DEF drive, history, IInv, RecordOK, SeedsOK, OperationOK, StepOK, PapersOK,
       WindowOK, EvidenceOK
  <2> QED
    BY <2>1, <2>2, <2>3, <2>4 DEF IInv
<1>2. ASSUME NEW d \in Device,
             \/ Begin(d) \/ Prepare(d) \/ FindControl(d) \/ CreateControl(d)
             \/ FindDescriptor(d) \/ WriteDescriptor(d) \/ Checkpoint(d)
      PROVE  IInv'
  BY <1>2, BeginOK, PrepareOK, FindControlOK, CreateControlOK, FindDescriptorOK,
     WriteDescriptorOK, CheckpointOK
<1>3. ASSUME NEW d \in Device,
             \/ ReadSeed(d) \/ WriteSeed(d) \/ VerifySeed(d) \/ SaveSeed(d) \/ SaveActivating(d)
      PROVE  IInv'
  BY <1>3, ReadSeedOK, WriteSeedOK, VerifySeedOK, SaveSeedOK, SaveActivatingOK
<1>4. ASSUME NEW d \in Device,
             \/ Inspect(d) \/ WriteCompletion(d) \/ Bind(d)
             \/ Activate(d) \/ Finish(d) \/ Fail(d)
      PROVE  IInv'
  BY <1>4, InspectOK, WriteCompletionOK, BindOK, ActivateOK, FinishOK, FailOK
<1>5. ASSUME NEW p \in Paper, OldBuildPublishes(p) \/ OrdinarySync(p) PROVE IInv'
  BY <1>5, OldBuildPublishesOK, OrdinarySyncOK
<1>6. QED
  BY <1>1, <1>2, <1>3, <1>4, <1>5 DEF Next

\* The invariant of the upgrade, whatever devices run it and whoever interferes.
THEOREM Invariance == Spec => []IInv
  BY InitOK, NextOK, PTL DEF Spec

\* TypeOK of LayoutMigration: the state always has its types.
THEOREM TypeCorrect == Spec => []TypeOK
<1>1. IInv => TypeOK
  BY DEF IInv, DriveOK, HistoryOK, TypeOK
<1>2. QED
  BY <1>1, Invariance, PTL

\* Only activateV3RootMetadata changes the root (paperDriveRepository.ts).
LEMMA RootChange ==
    ASSUME [Next]_vars, root' # root
    PROVE  \E d \in Device : Activate(d)
<1>1. root' # root => Next
  BY DEF vars, drive
<1>2. ASSUME NEW d \in Device,
             \/ Begin(d) \/ Prepare(d) \/ FindControl(d) \/ CreateControl(d)
             \/ FindDescriptor(d) \/ WriteDescriptor(d) \/ Checkpoint(d)
      PROVE  root' = root
  BY <1>2 DEF drive, Refuse, Begin, Prepare, FindControl, CreateControl, FindDescriptor,
     WriteDescriptor, Checkpoint
<1>3. ASSUME NEW d \in Device,
             \/ ReadSeed(d) \/ WriteSeed(d) \/ VerifySeed(d) \/ SaveSeed(d) \/ SaveActivating(d)
      PROVE  root' = root
  BY <1>3 DEF drive, Refuse, ReadSeed, WriteSeed, VerifySeed, SaveSeed, SaveActivating
<1>4. ASSUME NEW d \in Device,
             Inspect(d) \/ WriteCompletion(d) \/ Bind(d) \/ Finish(d) \/ Fail(d)
      PROVE  root' = root
  BY <1>4 DEF drive, Refuse, Inspect, WriteCompletion, Bind, Finish, Fail
<1>5. ASSUME NEW p \in Paper, OldBuildPublishes(p) \/ OrdinarySync(p) PROVE root' = root
  BY <1>5 DEF OldBuildPublishes, OrdinarySync
<1>6. QED
  BY <1>1, <1>2, <1>3, <1>4, <1>5 DEF Next

\* ActivationIsFinal: an active root keeps its control folder and its completion.
THEOREM ActivationFinal == Spec => ActivationIsFinal
<1>1. IInv /\ [Next]_vars => [root.layout = 3 /\ ~overlapped' => root' = root]_vars
  <2> SUFFICES ASSUME IInv, [Next]_vars, root.layout = 3, ~overlapped', root' # root
               PROVE  FALSE
    OBVIOUS
  <2>1. PICK d \in Device : Activate(d)
    BY RootChange
  <2>2. op[d].step = "activate" /\ ~overlapped /\ OperationOK(op[d])
    BY <2>1 DEF Activate, At, IInv
  <2>3. QED
    BY <2>2 DEF OperationOK
<1>2. QED
  BY <1>1, Invariance, PTL DEF Spec, ActivationIsFinal

\* BaselineIsTrue: activateV3Migration activates a root whose presence is that of
\* the packages, except of papers an older build changed after the last look.
THEOREM BaselineTrue == Spec => BaselineIsTrue
<1> DEFINE Right(p) ==
               LET graph == presence'[root'.control][p]
                   state == IF package[p].head = 0 THEN "none" ELSE StateOf(package[p])
               IN  IF Resolves(graph) THEN graph.state = state ELSE overlapped
           True == root.layout = 2 /\ root'.layout = 3 /\ (overlapped => changes = 0) =>
               \A p \in Paper \ missed' : Right(p)
<1>1. IInv /\ [Next]_vars => True
  <2> SUFFICES ASSUME IInv, [Next]_vars, root.layout = 2, root'.layout = 3,
                      overlapped => changes = 0, NEW p \in Paper \ missed'
               PROVE  Right(p)
    OBVIOUS
  <2>1. PICK d \in Device : Activate(d)
    BY RootChange
  <2> DEFINE rec == op[d].rec
             state == presence[rec.control][p].state
  <2>2. /\ op[d].step = "activate" /\ OperationOK(op[d]) /\ p \notin op[d].late
        /\ presence'[root'.control][p] = presence[rec.control][p]
    BY <2>1 DEF Activate, At, IInv
  <2>3. rec \in Record /\ SeedsOK(rec) /\ rec.phase = "activating-layout" /\ rec.control \in Control
    BY <2>2 DEF OperationOK, StepOK, RecordOK, Activating, Record
  <2>4. /\ p \in rec.targets <=> package[p].head # 0
        /\ p \in rec.targets => rec.seeds[p].head = package[p].head
    BY <2>2 DEF OperationOK, WindowOK
  <2>5. CASE ~overlapped
    <3>1. /\ Resolves(presence[rec.control][p])
          /\ state = IF p \in rec.targets THEN rec.seeds[p].state ELSE "none"
      BY <2>2, <2>5 DEF OperationOK, EvidenceOK
    <3>2. p \in rec.targets => rec.seeds[p].state = StateOf(package[p])
      BY <2>3, <2>4 DEF SeedsOK
    <3> QED
      BY <2>2, <2>4, <3>1, <3>2
  <2>6. CASE overlapped
    <3>1. p \in rec.targets => state # "none"
      BY <2>2 DEF OperationOK, EvidenceOK
    <3>2. state # "none" => package[p].head # 0 /\ state = StateOf(package[p])
      BY <2>3, <2>6 DEF IInv, DriveOK, GraphOK
    <3>3. state = IF package[p].head = 0 THEN "none" ELSE StateOf(package[p])
      BY <2>4, <3>1, <3>2
    <3> QED
      BY <2>2, <2>6, <3>3, Zenon
  <2>7. QED
    BY <2>5, <2>6
<1>2. QED
  BY <1>1, Invariance, PTL DEF Spec, BaselineIsTrue

--------------------------------------------------------------------------------
(* A library nobody else changes, upgraded by one device after the other *)

Quiet == ~overlapped /\ changes = 0

\* A checkpoint is one of the control folder that is there and of the papers as they
\* are; its seeds are the roots of their graphs.
Seeded(rec) ==
    rec # None =>
        /\ controls = {rec.control} /\ descriptors[rec.control] = 1
        /\ rec.targets = Targets(package)
        /\ \A p \in Paper : rec.seeds[p] # None =>
              /\ rec.seeds[p].head = package[p].head
              /\ rec.seeds[p].state = StateOf(package[p])
              /\ presence[rec.control][p].roots = {rec.seeds[p].gen}

\* The completion a device writes for a checkpoint.
CompletionOf(d, rec) == [control |-> rec.control, by |-> d, seeds |-> Evidence(rec)]

\* What the device that runs the upgrade has found stays so until it is done.
Found(d, o) ==
    /\ o.step = "create" => controls = {}
    /\ o.step \in Described => controls = {o.control}
    /\ o.step = "write-descriptor" => descriptors[o.control] = 0
    /\ o.step \in {"checkpoint"} \union Seeding => descriptors[o.control] = 1
    /\ o.step \in {"prepare"} \union WithPapers => root.layout = 2
    /\ o.step \in Seeding => o.rec.control = o.control
    /\ o.step = "publish" => presence[o.control][o.paper] = NoPresence
    /\ o.step = "verify" => presence[o.control][o.paper].roots = {d}
    /\ o.step = "save" => presence[o.control][o.paper].roots = {o.gen}
    /\ o.step \in Activating => record[d] = o.rec
    /\ o.step \in {"bind", "activate", "confirm"} => CompletionOf(d, o.rec) \in completions
    /\ o.step = "confirm" => root.layout = 3

\* The device that has activated the root can only activate it again.
Settled ==
    /\ root.layout = 2 => root.control = None
    /\ root.layout = 3 =>
        /\ ActiveRoot
        /\ \A d \in Device : root.completion.by = d /\ record[d] # None =>
              /\ record[d].phase = "activating-layout"
              /\ record[d].control = root.control
              /\ Evidence(record[d]) = root.completion.seeds

\* One control folder, one descriptor, one root in every graph.
OneOfEach ==
    /\ \A c, e \in controls : c = e
    /\ \A c \in Control : descriptors[c] <= 1
    /\ \A c \in Control, p \in Paper :
          Resolves(presence[c][p]) /\ ~presence[c][p].moved

Calm ==
    /\ OneOfEach
    /\ \A d \in Device : Seeded(record[d])
    /\ \A d \in Device : ~At(d, "idle") => Seeded(op[d].rec) /\ Found(d, op[d])
    /\ Settled

\* Nobody else runs an upgrade.
Alone(d) == IInv /\ Quiet /\ Calm /\ \A e \in Device \ {d} : At(e, "idle")

\* Another device has finished the upgrade.
Elsewhere(d) == root.layout = 3 /\ root.completion.by # d

StaysCalm ==
    /\ Calm' /\ root' = root
    /\ \A d \in Device : refused'[d] => refused[d] \/ Elsewhere(d)

\* A step that changes neither Drive nor a checkpoint.
LEMMA CalmMove ==
    ASSUME NEW d \in Device, Alone(d), NEW o, op' = [op EXCEPT ![d] = o],
           UNCHANGED <<drive, record>>,
           o.step # "idle" => Seeded(o.rec) /\ Found(d, o)
    PROVE  Calm'
<1>1. /\ root' = root /\ package' = package /\ controls' = controls
      /\ descriptors' = descriptors /\ presence' = presence /\ completions' = completions
      /\ record' = record
  BY DEF drive
<1>2. op'[d] = o /\ \A e \in Device \ {d} : op'[e] = op[e] /\ At(e, "idle")
  BY DEF Alone, IInv
<1>3. OneOfEach' /\ (\A e \in Device : Seeded(record[e]))' /\ Settled'
  BY <1>1 DEF Alone, Calm, OneOfEach, Seeded, Settled, ActiveRoot, Activated
<1>4. ASSUME NEW e \in Device, ~At(e, "idle")' PROVE Seeded(op[e].rec)' /\ Found(e, op[e])'
  <2>1. e = d /\ op'[e] = o /\ o.step # "idle"
    BY <1>2, <1>4 DEF At
  <2> QED
    BY <1>1, <2>1 DEF Seeded, Found
<1> QED
  BY <1>3, <1>4 DEF Calm

\* A step that changes the checkpoint of the device, or adds a completion.
LEMMA CalmSave ==
    ASSUME NEW d \in Device, Alone(d), NEW o, op' = [op EXCEPT ![d] = o],
           UNCHANGED <<root, package, controls, descriptors, presence>>,
           completions \subseteq completions',
           \A e \in Device \ {d} : record'[e] = record[e],
           Seeded(record'[d]), Settled',
           o.step # "idle" => Seeded(o.rec) /\ Found(d, o)'
    PROVE  Calm'
<1>2. op'[d] = o /\ \A e \in Device \ {d} : op'[e] = op[e] /\ At(e, "idle")
  BY DEF Alone, IInv
<1>3. OneOfEach'
  BY DEF Alone, Calm, OneOfEach
<1>4. ASSUME NEW e \in Device PROVE Seeded(record[e])'
  <2>1. Seeded(record'[e])
    BY DEF Alone, Calm
  <2> QED
    BY <2>1 DEF Seeded
<1>5. ASSUME NEW e \in Device, ~At(e, "idle")' PROVE Seeded(op[e].rec)' /\ Found(e, op[e])'
  <2>1. e = d /\ op'[e] = o /\ o.step # "idle"
    BY <1>2, <1>5 DEF At
  <2>2. Seeded(o.rec) /\ Found(d, o)'
    BY <2>1
  <2> QED
    BY <2>1, <2>2 DEF Seeded, Found
<1> QED
  BY <1>3, <1>4, <1>5 DEF Calm

\* What is known of the device that runs the upgrade.
LEMMA Running ==
    ASSUME NEW d \in Device, Alone(d), ~At(d, "idle")
    PROVE  /\ op[d] \in Operation /\ OperationOK(op[d]) /\ StepOK(op[d])
           /\ op \in [Device -> Operation] /\ record \in [Device -> Record \union {None}]
           /\ RecordOK(op[d].rec) /\ RecordOK(record[d])
           /\ DriveOK /\ HistoryOK /\ OneOfEach /\ Settled
           /\ Seeded(op[d].rec) /\ Found(d, op[d]) /\ Seeded(record[d])
           /\ op[d].step \in WithPapers => op[d].papers = package
           /\ changes = 0 /\ ~overlapped
  BY DEF Alone, IInv, Calm, OperationOK, Quiet

\* An upgrade that fails, or is refused because another device was faster.
LEMMA IdleCalm ==
    ASSUME NEW d \in Device, Alone(d), op' = [op EXCEPT ![d] = Idle], UNCHANGED <<drive, record>>
    PROVE  Calm'
<1>1. Idle.step = "idle"
  BY DEF Idle
<1> QED
  BY <1>1, CalmMove

\* Fail: the upgrade leaves what it has done.
LEMMA FailCalm == ASSUME NEW d \in Device, Alone(d), Fail(d) PROVE StaysCalm
  BY IdleCalm DEF Fail, drive, history, StaysCalm

\* An upgrade that is refused after another device has finished it.
LEMMA RefuseElsewhere ==
    ASSUME NEW d \in Device, Alone(d), Refuse(d), Elsewhere(d) PROVE StaysCalm
<1>1. refused \in [Device -> BOOLEAN] /\ refused' = [refused EXCEPT ![d] = TRUE]
  BY DEF Refuse, Alone, IInv, HistoryOK
<1> QED
  BY <1>1, IdleCalm DEF Refuse, drive, StaysCalm

\* Begin: a root that is active and a checkpoint that does not fit are another's.
LEMMA BeginCalm ==
    ASSUME NEW d \in Device, Alone(d), Begin(d) PROVE StaysCalm
<1> DEFINE resumes == ActiveRoot /\ record[d].phase = "activating-layout"
           step == IF resumes THEN "inspect" ELSE "prepare"
           blocked == ActiveRoot /\ ~resumes
<1>1. /\ op' = [op EXCEPT ![d] = IF blocked THEN Idle
                                 ELSE [Idle EXCEPT !.step = step, !.rec = record[d]]]
      /\ refused' = [refused EXCEPT ![d] = blocked]
      /\ ActiveRoot => record[d] # None
      /\ UNCHANGED <<drive, record>>
  BY DEF Begin
<1>2. refused \in [Device -> BOOLEAN] /\ root.layout \in {2, 3} /\ Settled /\ Seeded(record[d])
  BY DEF Alone, IInv, HistoryOK, DriveOK, Calm
<1>3. CASE blocked
  <2>1. op' = [op EXCEPT ![d] = Idle]
    BY <1>1, <1>3
  <2>2. Elsewhere(d)
    BY <1>1, <1>2, <1>3 DEF Settled, ActiveRoot, Elsewhere
  <2>3. \A e \in Device : refused'[e] => refused[e] \/ e = d
    BY <1>1, <1>2
  <2> QED
    BY <1>1, <2>1, <2>2, <2>3, IdleCalm DEF StaysCalm, drive
<1>4. CASE ~blocked
  <2> DEFINE o == [Idle EXCEPT !.step = step, !.rec = record[d]]
  <2>1. op' = [op EXCEPT ![d] = o]
    BY <1>1, <1>4
  <2>2. o.step = step /\ o.rec = record[d]
    BY DEF Idle
  <2>3. step = "inspect" \/ (step = "prepare" /\ root.layout = 2)
    BY <1>2, <1>4 DEF Settled
  <2> HIDE DEF o, step
  <2>4. Seeded(o.rec) /\ Found(d, o)
    BY <1>2, <2>2, <2>3 DEF Found, Described, Seeding, WithPapers, Activating
  <2>5. Calm'
    BY <1>1, <2>1, <2>4, CalmMove
  <2>6. \A e \in Device : refused'[e] => refused[e]
    BY <1>1, <1>2, <1>4
  <2> QED
    BY <1>1, <2>5, <2>6 DEF StaysCalm, drive
<1> QED
  BY <1>3, <1>4

\* A step that only moves the device on.
LEMMA MoveCalm ==
    ASSUME NEW d \in Device, Alone(d), NEW o, op' = [op EXCEPT ![d] = o],
           UNCHANGED <<drive, record, history>>, Seeded(o.rec) /\ Found(d, o)
    PROVE  StaysCalm
<1>1. Calm'
  BY CalmMove
<1> QED
  BY <1>1 DEF StaysCalm, drive, history

\* Prepare: the root has layout 2 as long as no upgrade is over.
LEMMA PrepareCalm ==
    ASSUME NEW d \in Device, Alone(d), Prepare(d) PROVE StaysCalm
<1> DEFINE o == [op[d] EXCEPT !.papers = package, !.step = "control"]
<1>1. /\ op[d].step = "prepare" /\ op[d] \in Operation /\ op \in [Device -> Operation]
      /\ Seeded(op[d].rec) /\ root.layout = 2
  BY Running DEF Prepare, At, Found
<1>2. op' = [op EXCEPT ![d] = o] /\ UNCHANGED <<drive, record, history>>
  BY <1>1 DEF Prepare
<1>3. o.step = "control" /\ o.rec = op[d].rec
  BY <1>1 DEF Operation
<1> HIDE DEF o
<1>4. Found(d, o)
  BY <1>1, <1>3 DEF Found, Described, Seeding, Activating
<1> QED
  BY <1>1, <1>2, <1>3, <1>4, MoveCalm

\* FindControl: there is one control folder at most.
LEMMA FindControlCalm ==
    ASSUME NEW d \in Device, Alone(d), FindControl(d) PROVE StaysCalm
<1>1. /\ op[d].step = "control" /\ op[d] \in Operation /\ op \in [Device -> Operation]
      /\ Seeded(op[d].rec) /\ root.layout = 2 /\ OneOfEach
  BY Running DEF FindControl, At, Found, WithPapers
<1>2. CASE controls = {} /\ Goto(d, "create") /\ UNCHANGED <<drive, record, history>>
  <2> DEFINE o == [op[d] EXCEPT !.step = "create"]
  <2>1. op' = [op EXCEPT ![d] = o]
    BY <1>1, <1>2 DEF Goto
  <2>2. o.step = "create" /\ o.rec = op[d].rec
    BY <1>1 DEF Operation
  <2> HIDE DEF o
  <2>3. Found(d, o)
    BY <1>1, <1>2, <2>2 DEF Found, Described, Seeding, Activating
  <2> QED
    BY <1>1, <1>2, <2>1, <2>2, <2>3, MoveCalm
<1>3. ASSUME NEW c \in controls, controls = {c}, UNCHANGED <<drive, record, history>>,
             op' = [op EXCEPT ![d].control = c, ![d].step = "describe"]
      PROVE  StaysCalm
  <2> DEFINE o == [op[d] EXCEPT !.control = c, !.step = "describe"]
  <2>1. op' = [op EXCEPT ![d] = o]
    BY <1>1, <1>3
  <2>2. o.step = "describe" /\ o.control = c /\ o.rec = op[d].rec
    BY <1>1 DEF Operation
  <2> HIDE DEF o
  <2>3. Found(d, o)
    BY <1>1, <1>3, <2>2 DEF Found, Described, Seeding, Activating
  <2> QED
    BY <1>1, <1>3, <2>1, <2>2, <2>3, MoveCalm
<1>4. ~\E c, e \in controls : c # e
  BY <1>1 DEF OneOfEach
<1> QED
  BY <1>2, <1>3, <1>4 DEF FindControl

\* CreateControl: where there is no control folder there is no checkpoint either.
LEMMA CreateControlCalm ==
    ASSUME NEW d \in Device, Alone(d), CreateControl(d) PROVE StaysCalm
<1> DEFINE o == [op[d] EXCEPT !.step = "control"]
<1>1. /\ op[d].step = "create" /\ op[d] \in Operation /\ op \in [Device -> Operation]
      /\ controls = {} /\ root.layout = 2 /\ Settled /\ OneOfEach
  BY Running DEF CreateControl, At, Found, WithPapers
<1>2. /\ op' = [op EXCEPT ![d] = o] /\ \E c \in Control : controls' = {c}
      /\ UNCHANGED <<root, package, descriptors, presence, completions, record, history>>
  BY <1>1 DEF CreateControl, Goto
<1>3. (\A e \in Device : record[e] = None) /\ op[d].rec = None
  BY <1>1, Running DEF Alone, Calm, Seeded, At
<1>4. o.step = "control" /\ o.rec = None
  BY <1>1, <1>3 DEF Operation
<1> HIDE DEF o
<1>5. op'[d] = o /\ \A e \in Device \ {d} : op'[e] = op[e] /\ At(e, "idle")
  BY <1>1, <1>2 DEF Alone
<1>6. OneOfEach' /\ Settled' /\ \A e \in Device : Seeded(record[e])'
  BY <1>1, <1>2, <1>3 DEF OneOfEach, Settled, Seeded
<1>7. ASSUME NEW e \in Device, ~At(e, "idle")' PROVE Seeded(op[e].rec)' /\ Found(e, op[e])'
  <2>1. e = d /\ op'[e] = o
    BY <1>5, <1>7 DEF At
  <2> QED
    BY <1>1, <1>2, <1>4, <2>1 DEF Seeded, Found, Described, Seeding, Activating
<1>8. Calm'
  BY <1>6, <1>7 DEF Calm
<1> QED
  BY <1>2, <1>8 DEF StaysCalm, history

\* FindDescriptor: there is one descriptor at most.
LEMMA FindDescriptorCalm ==
    ASSUME NEW d \in Device, Alone(d), FindDescriptor(d) PROVE StaysCalm
<1> DEFINE found == descriptors[op[d].control]
           step == IF found = 0 THEN "write-descriptor" ELSE "checkpoint"
           o == [op[d] EXCEPT !.step = step]
<1>1. /\ op[d].step = "describe" /\ op[d] \in Operation /\ op \in [Device -> Operation]
      /\ Seeded(op[d].rec) /\ root.layout = 2 /\ controls = {op[d].control}
      /\ op[d].control \in Control
  BY Running DEF FindDescriptor, At, Found, WithPapers, Described, StepOK
<1>2. found \in Nat /\ found <= 1
  BY <1>1, Running DEF At, DriveOK, OneOfEach
<1>3. op' = [op EXCEPT ![d] = o] /\ UNCHANGED <<drive, record, history>>
  BY <1>1, <1>2 DEF FindDescriptor, Goto
<1>4. o.step = step /\ o.control = op[d].control /\ o.rec = op[d].rec
  BY <1>1 DEF Operation
<1>5. \/ step = "write-descriptor" /\ found = 0
      \/ step = "checkpoint" /\ found = 1
  BY <1>2
<1> HIDE DEF o, step
<1>6. Found(d, o)
  BY <1>1, <1>4, <1>5 DEF Found, Described, Seeding, Activating
<1> QED
  BY <1>1, <1>3, <1>4, <1>6, MoveCalm

\* WriteDescriptor: there is no checkpoint of a folder without a descriptor.
LEMMA WriteDescriptorCalm ==
    ASSUME NEW d \in Device, Alone(d), WriteDescriptor(d) PROVE StaysCalm
<1> DEFINE o == [op[d] EXCEPT !.step = "checkpoint"]
           c == op[d].control
<1>1. /\ op[d].step = "write-descriptor" /\ op[d] \in Operation /\ op \in [Device -> Operation]
      /\ controls = {c} /\ descriptors[c] = 0 /\ root.layout = 2 /\ Settled /\ OneOfEach
      /\ c \in Control /\ descriptors \in [Control -> Nat]
  BY Running DEF WriteDescriptor, At, Found, WithPapers, Described, StepOK, DriveOK
<1>2. /\ op' = [op EXCEPT ![d] = o] /\ descriptors' = [descriptors EXCEPT ![c] = 1]
      /\ UNCHANGED <<root, package, controls, presence, completions, record, history>>
  BY <1>1 DEF WriteDescriptor, Goto
<1>3. (\A e \in Device : record[e] = None) /\ op[d].rec = None
  <2>1. ASSUME NEW rec, Seeded(rec) PROVE rec = None
    <3>1. CASE rec # None
      <4>1. controls = {rec.control} /\ descriptors[rec.control] = 1
        BY <2>1, <3>1 DEF Seeded
      <4>2. rec.control = c
        BY <1>1, <4>1
      <4> HIDE DEF c
      <4> QED
        BY <1>1, <4>1, <4>2
    <3> QED
      BY <3>1
  <2> QED
    BY <1>1, <2>1, Running DEF Alone, Calm, At
<1>4. o.step = "checkpoint" /\ o.rec = None /\ o.control = c
  BY <1>1, <1>3 DEF Operation
<1> HIDE DEF o
<1>5. op'[d] = o /\ \A e \in Device \ {d} : op'[e] = op[e] /\ At(e, "idle")
  BY <1>1, <1>2 DEF Alone
<1>6. OneOfEach' /\ Settled' /\ \A e \in Device : Seeded(record[e])'
  BY <1>1, <1>2, <1>3 DEF OneOfEach, Settled, Seeded
<1>7. ASSUME NEW e \in Device, ~At(e, "idle")' PROVE Seeded(op[e].rec)' /\ Found(e, op[e])'
  <2>1. e = d /\ op'[e] = o
    BY <1>5, <1>7 DEF At
  <2>2. descriptors'[c] = 1
    BY <1>1, <1>2
  <2> HIDE DEF c
  <2> QED
    BY <1>1, <1>2, <1>4, <2>1, <2>2 DEF Seeded, Found, Seeding, Activating
<1>8. Calm'
  BY <1>6, <1>7 DEF Calm
<1> QED
  BY <1>2, <1>8 DEF StaysCalm, history

\* Checkpoint: the checkpoint that is there is the one the upgrade would write.
LEMMA CheckpointCalm ==
    ASSUME NEW d \in Device, Alone(d), Checkpoint(d) PROVE StaysCalm
<1> DEFINE old == op[d].rec
           targets == Targets(op[d].papers)
           fresh == FirstRecord(op[d].control, targets)
           again == [old EXCEPT !.phase = "seeding-presence"]
<1>1. /\ op[d].step = "checkpoint" /\ op[d] \in Operation /\ op \in [Device -> Operation]
      /\ Seeded(old) /\ root.layout = 2 /\ controls = {op[d].control}
      /\ descriptors[op[d].control] = 1 /\ targets = Targets(package) /\ Settled
      /\ record \in [Device -> Record \union {None}] /\ RecordOK(old)
  BY Running DEF Checkpoint, At, Found, WithPapers, Described
<1>2. ASSUME NEW rec, Seeded(rec), rec.control = op[d].control,
             op' = [op EXCEPT ![d].rec = rec, ![d].todo = targets, ![d].step = "seed"],
             UNCHANGED <<drive, history>>,
             record' = record \/ record' = [record EXCEPT ![d] = rec]
      PROVE  StaysCalm
  <2>1. PICK o : /\ op' = [op EXCEPT ![d] = o] /\ o.step = "seed"
                 /\ o.control = op[d].control /\ o.rec = rec
    <3> DEFINE o == [op[d] EXCEPT !.rec = rec, !.todo = targets, !.step = "seed"]
    <3>1. op' = [op EXCEPT ![d] = o]
      BY <1>1, <1>2
    <3>2. o.step = "seed" /\ o.control = op[d].control /\ o.rec = rec
      BY <1>1 DEF Operation
    <3> HIDE DEF o
    <3> QED
      BY <3>1, <3>2
  <2>2. /\ Seeded(record'[d]) /\ \A e \in Device \ {d} : record'[e] = record[e]
    BY <1>1, <1>2, Running DEF At
  <2>3. UNCHANGED <<root, package, controls, descriptors, presence, completions>> /\ Settled'
    BY <1>1, <1>2 DEF drive, Settled
  <2>4. Found(d, o)'
    BY <1>1, <1>2, <2>1, <2>3 DEF Found, Described, Seeding, Activating
  <2>5. Calm'
    BY <1>2, <2>1, <2>2, <2>3, <2>4, CalmSave
  <2> QED
    BY <1>2, <2>3, <2>5 DEF StaysCalm, history
<1>3. CASE old = None
  <2>1. /\ record' = [record EXCEPT ![d] = fresh] /\ UNCHANGED <<drive, history>>
        /\ op' = [op EXCEPT ![d].rec = fresh, ![d].todo = targets, ![d].step = "seed"]
    BY <1>3 DEF Checkpoint
  <2>2. Seeded(fresh) /\ fresh.control = op[d].control
    BY <1>1 DEF Seeded, FirstRecord
  <2> HIDE DEF fresh, targets
  <2> QED
    BY <1>2, <2>1, <2>2
<1>4. CASE old # None
  <2>1. old.control = op[d].control /\ old.targets = targets /\ old \in Record
    BY <1>1, <1>4 DEF Seeded, RecordOK
  <2>2. /\ UNCHANGED <<drive, record, history>>
        /\ op' = [op EXCEPT ![d].rec.phase = "seeding-presence", ![d].todo = targets,
                            ![d].step = "seed"]
    BY <1>4, <2>1 DEF Checkpoint
  <2>3. op' = [op EXCEPT ![d].rec = again, ![d].todo = targets, ![d].step = "seed"]
    BY <1>1, <2>2 DEF Operation
  <2>4. /\ again.control = old.control /\ again.targets = old.targets /\ again.seeds = old.seeds
    BY <2>1 DEF Record
  <2> HIDE DEF again, targets
  <2>5. Seeded(again) /\ again.control = op[d].control
    BY <1>1, <1>4, <2>1, <2>4 DEF Seeded
  <2> QED
    BY <1>2, <2>2, <2>3, <2>5
<1> QED
  BY <1>3, <1>4

\* A graph with one root at most has the one RootOf names.
LEMMA OneRoot ==
    ASSUME NEW graph, Resolves(graph), graph.roots # {} PROVE graph.roots = {RootOf(graph)}
  BY RootIn DEF Resolves

\* ReadSeed: what the graph of a paper says is what its package says.
LEMMA ReadSeedCalm ==
    ASSUME NEW d \in Device, Alone(d), ReadSeed(d) PROVE StaysCalm
<1> DEFINE c == op[d].control
<1>1. /\ op[d].step = "seed" /\ op[d] \in Operation /\ op \in [Device -> Operation]
      /\ Seeded(op[d].rec) /\ root.layout = 2 /\ controls = {c} /\ descriptors[c] = 1
      /\ op[d].rec.control = c /\ op[d].papers = package /\ c \in Control
      /\ OneOfEach /\ DriveOK /\ changes = 0
  BY Running DEF ReadSeed, At, Found, WithPapers, Described, Seeding, StepOK
<1>2. ASSUME NEW p \in op[d].todo, NEW gen, NEW step \in {"publish", "save"},
             step = "publish" => presence[c][p] = NoPresence,
             step = "save" => presence[c][p].roots = {gen},
             UNCHANGED <<drive, record, history>>,
             op' = [op EXCEPT ![d].paper = p, ![d].gen = gen, ![d].step = step]
      PROVE  StaysCalm
  <2> DEFINE o == [op[d] EXCEPT !.paper = p, !.gen = gen, !.step = step]
  <2>1. op' = [op EXCEPT ![d] = o]
    BY <1>1, <1>2
  <2>2. /\ o.step = step /\ o.control = c /\ o.gen = gen /\ o.rec = op[d].rec /\ o.paper = p
    BY <1>1 DEF Operation
  <2> HIDE DEF o, c
  <2>3. Found(d, o)
    BY <1>1, <1>2, <2>2 DEF Found, Described, Seeding, Activating
  <2> QED
    BY <1>1, <1>2, <2>1, <2>2, <2>3, MoveCalm
<1>3. PICK p \in op[d].todo :
         LET seen == op[d].papers[p]
             graph == presence[c][p]
             same == root.layout = 2 /\ package[p].head = seen.head
             agrees == Resolves(graph) /\ ~graph.moved /\ graph.state = StateOf(seen)
         IN  \/ /\ op' = [op EXCEPT ![d].paper = p,
                              ![d].gen = IF graph = NoPresence THEN None ELSE RootOf(graph),
                              ![d].step = IF graph = NoPresence THEN "publish" ELSE "save"]
                /\ UNCHANGED <<drive, record, history>>
             \/ ~same \/ (graph # NoPresence /\ ~agrees)
  BY DEF ReadSeed
<1> DEFINE graph == presence[c][p]
<1>4. p \in Paper
  BY <1>1 DEF Operation
<1>5. GraphOK(c, p) /\ Resolves(graph) /\ ~graph.moved
  BY <1>1, <1>4 DEF DriveOK, OneOfEach
<1>6. graph # NoPresence => graph.state = StateOf(package[p]) /\ graph.roots # {}
  BY <1>1, <1>5 DEF GraphOK
<1>7. /\ op' = [op EXCEPT ![d].paper = p,
                     ![d].gen = IF graph = NoPresence THEN None ELSE RootOf(graph),
                     ![d].step = IF graph = NoPresence THEN "publish" ELSE "save"]
      /\ UNCHANGED <<drive, record, history>>
  BY <1>1, <1>3, <1>5, <1>6
<1>8. CASE graph = NoPresence
  <2>1. op' = [op EXCEPT ![d].paper = p, ![d].gen = None, ![d].step = "publish"]
    BY <1>7, <1>8
  <2> QED
    BY <1>2, <1>7, <1>8, <2>1
<1>9. CASE graph # NoPresence
  <2>1. op' = [op EXCEPT ![d].paper = p, ![d].gen = RootOf(graph), ![d].step = "save"]
    BY <1>7, <1>9
  <2>2. graph.roots = {RootOf(graph)}
    BY <1>5, <1>6, <1>9, OneRoot
  <2> QED
    BY <1>2, <1>7, <2>1, <2>2
<1> QED
  BY <1>8, <1>9

\* WriteSeed: nobody has written another root since the graph was read.
LEMMA WriteSeedCalm ==
    ASSUME NEW d \in Device, Alone(d), WriteSeed(d) PROVE StaysCalm
<1> DEFINE c == op[d].control
           p == op[d].paper
           old == presence[c][p]
           o == [op[d] EXCEPT !.step = "verify"]
<1>1. /\ op[d].step = "publish" /\ op[d] \in Operation /\ op \in [Device -> Operation]
      /\ Seeded(op[d].rec) /\ root.layout = 2 /\ controls = {c} /\ descriptors[c] = 1
      /\ op[d].rec.control = c /\ c \in Control /\ p \in op[d].todo
      /\ OneOfEach /\ DriveOK /\ Settled /\ old = NoPresence
  BY Running DEF WriteSeed, At, Found, WithPapers, Described, Seeding, StepOK
<1>2. p \in Paper /\ presence \in [Control -> [Paper -> Presence]]
  BY <1>1 DEF Operation, DriveOK
<1>3. PICK new : /\ presence' = [presence EXCEPT ![c][p] = new]
                 /\ new.roots = {d} /\ ~new.moved
  <2> DEFINE new == [roots |-> old.roots \union {d}, moved |-> old.moved,
                     state |-> IF old.state = "removed" THEN "removed"
                               ELSE StateOf(op[d].papers[p])]
  <2>1. presence' = [presence EXCEPT ![c][p] = new]
    BY DEF WriteSeed
  <2>2. new.roots = {d} /\ ~new.moved
    BY <1>1 DEF NoPresence
  <2> HIDE DEF new
  <2> QED
    BY <2>1, <2>2
<1>4. /\ op' = [op EXCEPT ![d] = o]
      /\ UNCHANGED <<root, package, controls, descriptors, completions, record, history>>
  BY DEF WriteSeed, Goto
<1>5. /\ o.step = "verify" /\ o.control = c /\ o.paper = p /\ o.rec = op[d].rec
  BY <1>1 DEF Operation
<1>6. /\ presence'[c][p] = new
      /\ \A c1 \in Control, q \in Paper : c1 # c \/ q # p => presence'[c1][q] = presence[c1][q]
  BY <1>1, <1>2, <1>3
<1>7. old.roots = {}
  BY <1>1 DEF NoPresence
<1> HIDE DEF o, c, p
<1>8. op'[d] = o /\ \A e \in Device \ {d} : op'[e] = op[e] /\ At(e, "idle")
  BY <1>1, <1>4 DEF Alone
<1>9. ASSUME NEW rec, rec = None \/ rec.control \in Control, Seeded(rec) PROVE Seeded(rec)'
  <2> SUFFICES ASSUME rec # None, NEW q \in Paper, rec.seeds[q] # None
               PROVE  presence'[rec.control][q].roots = {rec.seeds[q].gen}
    BY <1>4, <1>9 DEF Seeded
  <2>1. rec.control \in Control /\ presence[rec.control][q].roots = {rec.seeds[q].gen}
    BY <1>9 DEF Seeded
  <2>2. rec.control # c \/ q # p
    BY <1>7, <2>1
  <2> QED
    BY <1>6, <2>1, <2>2
<1>10. \A e \in Device : Seeded(record[e])'
  <2> SUFFICES ASSUME NEW e \in Device PROVE Seeded(record[e])'
    OBVIOUS
  <2>1. Seeded(record[e]) /\ (record[e] = None \/ record[e].control \in Control)
    BY DEF Alone, Calm, IInv, RecordOK, Record
  <2>2. record'[e] = record[e]
    BY <1>4
  <2>3. ASSUME NEW rec, rec = record[e] PROVE Seeded(rec)'
    BY <1>9, <2>1, <2>3
  <2> QED
    BY <2>2, <2>3 DEF Seeded
<1>11. OneOfEach'
  <2>1. ASSUME NEW c1 \in Control, NEW q \in Paper
        PROVE  Resolves(presence'[c1][q]) /\ ~presence'[c1][q].moved
    <3>1. CASE c1 = c /\ q = p
      BY <1>3, <1>6, <3>1 DEF Resolves
    <3>2. CASE c1 # c \/ q # p
      BY <1>1, <1>6, <3>2 DEF OneOfEach
    <3> QED
      BY <3>1, <3>2
  <2> QED
    BY <1>1, <1>4, <2>1 DEF OneOfEach
<1>12. Settled'
  BY <1>1, <1>4 DEF Settled
<1>13. ASSUME NEW e \in Device, ~At(e, "idle")' PROVE Seeded(op[e].rec)' /\ Found(e, op[e])'
  <2>1. e = d /\ op'[e] = o
    BY <1>8, <1>13 DEF At
  <2>2. op[d].rec = None \/ op[d].rec.control \in Control
    BY <1>1
  <2>3. ASSUME NEW rec, rec = op[d].rec PROVE Seeded(rec)'
    BY <1>1, <1>9, <2>2, <2>3
  <2>4. Seeded(op[e].rec)'
    BY <1>5, <2>1, <2>3 DEF Seeded
  <2>5. Found(e, op[e])'
    BY <1>1, <1>3, <1>4, <1>5, <1>6, <2>1 DEF Found, Described, Seeding, WithPapers, Activating
  <2> QED
    BY <2>4, <2>5
<1>14. Calm'
  BY <1>10, <1>11, <1>12, <1>13 DEF Calm
<1> QED
  BY <1>4, <1>14 DEF StaysCalm, history

\* VerifySeed: the baseline the device wrote is the only root.
LEMMA VerifySeedCalm ==
    ASSUME NEW d \in Device, Alone(d), VerifySeed(d) PROVE StaysCalm
<1> DEFINE o == [op[d] EXCEPT !.gen = d, !.step = "save"]
           c == op[d].control
           p == op[d].paper
<1>1. /\ op[d].step = "verify" /\ op[d] \in Operation /\ op \in [Device -> Operation]
      /\ Seeded(op[d].rec) /\ root.layout = 2 /\ controls = {c} /\ descriptors[c] = 1
      /\ op[d].rec.control = c /\ c \in Control /\ p \in op[d].todo
      /\ OneOfEach /\ presence[c][p].roots = {d}
  BY Running DEF VerifySeed, At, Found, WithPapers, Described, Seeding, StepOK
<1>2. ~presence[c][p].moved
  BY <1>1 DEF OneOfEach, Operation
<1>3. op' = [op EXCEPT ![d] = o] /\ UNCHANGED <<drive, record, history>>
  BY <1>1, <1>2 DEF VerifySeed
<1>4. o.step = "save" /\ o.control = c /\ o.gen = d /\ o.rec = op[d].rec /\ o.paper = p
  BY <1>1 DEF Operation
<1> HIDE DEF o, c, p
<1>5. Found(d, o)
  BY <1>1, <1>4 DEF Found, Described, Seeding, Activating
<1> QED
  BY <1>1, <1>3, <1>4, <1>5, MoveCalm

\* SaveSeed: a seed that was saved before is the one that would be saved now.
LEMMA SaveSeedCalm ==
    ASSUME NEW d \in Device, Alone(d), SaveSeed(d) PROVE StaysCalm
<1> DEFINE p == op[d].paper
           seed == [gen |-> op[d].gen, state |-> StateOf(op[d].papers[p]),
                    head |-> op[d].papers[p].head]
           rec == [op[d].rec EXCEPT !.seeds[p] = seed]
           o == [op[d] EXCEPT !.rec = rec, !.todo = @ \ {p},
                              !.paper = None, !.gen = None, !.step = "seed"]
<1>1. /\ op[d].step = "save" /\ op[d] \in Operation /\ op \in [Device -> Operation]
      /\ Seeded(op[d].rec) /\ root.layout = 2 /\ controls = {op[d].control}
      /\ descriptors[op[d].control] = 1 /\ op[d].papers = package
      /\ op[d].rec.control = op[d].control /\ p \in op[d].todo /\ op[d].rec # None
      /\ presence[op[d].control][p].roots = {op[d].gen} /\ Settled
      /\ record \in [Device -> Record \union {None}] /\ RecordOK(op[d].rec)
  BY Running DEF SaveSeed, At, Found, WithPapers, Described, Seeding, StepOK
<1>2. /\ p \in Paper /\ op[d].rec \in Record /\ op[d].rec.seeds \in [Paper -> Seed \union {None}]
  BY <1>1 DEF RecordOK, Record, Operation
<1>3. op[d].rec.seeds[p] \in {None, seed}
  <2> SUFFICES ASSUME op[d].rec.seeds[p] # None PROVE op[d].rec.seeds[p] = seed
    OBVIOUS
  <2> DEFINE s == op[d].rec.seeds[p]
  <2>1. s \in Seed
    BY <1>2
  <2>2. /\ s.head = package[p].head /\ s.state = StateOf(package[p])
        /\ presence[op[d].control][p].roots = {s.gen}
    BY <1>1, <1>2 DEF Seeded
  <2>3. s.gen = op[d].gen
    BY <1>1, <2>2
  <2> QED
    BY <1>1, <2>1, <2>2, <2>3 DEF Seed
<1>4. /\ op' = [op EXCEPT ![d] = o] /\ record' = [record EXCEPT ![d] = rec]
      /\ UNCHANGED <<drive, history>>
  BY <1>1, <1>3 DEF SaveSeed
<1>5. /\ rec.control = op[d].rec.control /\ rec.targets = op[d].rec.targets
      /\ rec.seeds[p] = seed
      /\ \A q \in Paper : q # p => rec.seeds[q] = op[d].rec.seeds[q]
  BY <1>2 DEF Record
<1>6. seed.gen = op[d].gen /\ seed.head = package[p].head /\ seed.state = StateOf(package[p])
  BY <1>1
<1> HIDE DEF seed
<1>7. o.step = "seed" /\ o.control = op[d].control /\ o.rec = rec
  BY <1>1 DEF Operation
<1> HIDE DEF rec, o
<1>8. Seeded(rec)
  BY <1>1, <1>5, <1>6 DEF Seeded
<1>9. PICK n : n = o
  OBVIOUS
<1>10. /\ record'[d] = rec /\ (\A e \in Device \ {d} : record'[e] = record[e])
       /\ UNCHANGED <<root, package, controls, descriptors, presence, completions>> /\ Settled'
  BY <1>1, <1>4 DEF drive, Settled
<1>11. Found(d, n)'
  <2>1. n.step = "seed" /\ n.control = op[d].control /\ n.rec.control = op[d].control
    BY <1>1, <1>5, <1>7, <1>9
  <2> QED
    BY <1>1, <1>10, <2>1 DEF Found, Described, Seeding, Activating
<1>12. Calm'
  BY <1>4, <1>7, <1>8, <1>9, <1>10, <1>11, CalmSave
<1> QED
  BY <1>4, <1>10, <1>12 DEF StaysCalm, history

\* SaveActivating: the checkpoint says no more than before.
LEMMA SaveActivatingCalm ==
    ASSUME NEW d \in Device, Alone(d), SaveActivating(d) PROVE StaysCalm
<1> DEFINE rec == [op[d].rec EXCEPT !.phase = "activating-layout"]
           o == [Idle EXCEPT !.rec = rec, !.step = "inspect"]
<1>1. /\ op' = [op EXCEPT ![d] = o] /\ record' = [record EXCEPT ![d] = rec]
      /\ UNCHANGED <<drive, history>>
      /\ op[d].step = "seed" /\ Seeded(op[d].rec) /\ root.layout = 2 /\ Settled
      /\ op[d].rec \in Record /\ op[d].rec # None
      /\ record \in [Device -> Record \union {None}]
  BY Running DEF SaveActivating, At, Found, WithPapers, Described, Seeding, StepOK, RecordOK
<1>2. /\ rec.control = op[d].rec.control /\ rec.targets = op[d].rec.targets
      /\ rec.seeds = op[d].rec.seeds
  BY <1>1 DEF Record
<1>3. o.step = "inspect" /\ o.rec = rec
  BY DEF Idle
<1> HIDE DEF rec, o
<1>4. Seeded(rec)
  BY <1>1, <1>2 DEF Seeded
<1>5. PICK n : n = o
  OBVIOUS
<1>6. /\ record'[d] = rec /\ (\A e \in Device \ {d} : record'[e] = record[e])
      /\ UNCHANGED <<root, package, controls, descriptors, presence, completions>> /\ Settled'
  BY <1>1 DEF drive, Settled
<1>7. Found(d, n)'
  <2>1. n.step = "inspect" /\ record'[d] = n.rec
    BY <1>3, <1>5, <1>6
  <2> QED
    BY <2>1 DEF Found, Described, Seeding, WithPapers
<1>8. Calm'
  BY <1>1, <1>3, <1>4, <1>5, <1>6, <1>7, CalmSave
<1> QED
  BY <1>1, <1>6, <1>8 DEF StaysCalm, history

\* What is known of the checkpoint of a device that activates.
LEMMA ActivatingSeeds ==
    ASSUME NEW d \in Device, Alone(d), op[d].step \in Activating
    PROVE  /\ op[d].rec \in Record /\ record[d] = op[d].rec /\ op[d].rec # None
           /\ op[d].rec.phase = "activating-layout"
           /\ controls = {op[d].rec.control} /\ descriptors[op[d].rec.control] = 1
           /\ op[d].rec.targets = Targets(package) /\ op[d].rec.control \in Control
           /\ \A p \in op[d].rec.targets :
                 /\ p \in Paper /\ op[d].rec.seeds[p] # None
                 /\ op[d].rec.seeds[p].head = package[p].head
                 /\ op[d].rec.seeds[p].state = StateOf(package[p])
                 /\ presence[op[d].rec.control][p].roots = {op[d].rec.seeds[p].gen}
<1>1. ~At(d, "idle")
  BY DEF At, Activating
<1>2. /\ op[d].rec # None /\ op[d].rec.phase = "activating-layout" /\ RecordOK(op[d].rec)
      /\ record[d] = op[d].rec /\ Seeded(op[d].rec)
  BY <1>1, Running DEF StepOK, Found
<1>3. op[d].rec \in Record /\ SeedsOK(op[d].rec)
  BY <1>2 DEF RecordOK
<1>4. op[d].rec.targets \subseteq Paper /\ op[d].rec.control \in Control
  BY <1>3 DEF Record
<1>5. \A p \in op[d].rec.targets : op[d].rec.seeds[p] # None
  BY <1>2, <1>3 DEF SeedsOK
<1> QED
  BY <1>2, <1>3, <1>4, <1>5 DEF Seeded

\* Inspect: the library is the one the seeds were made for.
LEMMA InspectCalm ==
    ASSUME NEW d \in Device, Alone(d), Inspect(d) PROVE StaysCalm
<1> DEFINE o == [op[d] EXCEPT !.late = {}, !.step = "complete"]
<1>1. /\ op[d].step = "inspect" /\ op[d] \in Operation /\ op \in [Device -> Operation]
      /\ Seeded(op[d].rec) /\ record[d] = op[d].rec
  BY Running, ActivatingSeeds DEF Inspect, At, Activating
<1>2. AsSeeded(op[d].rec)
  BY <1>1, ActivatingSeeds DEF AsSeeded, Activating
<1>3. op' = [op EXCEPT ![d] = o] /\ UNCHANGED <<drive, record, history>>
  BY <1>1, <1>2 DEF Inspect
<1>4. o.step = "complete" /\ o.rec = op[d].rec
  BY <1>1 DEF Operation
<1> HIDE DEF o
<1>5. Found(d, o)
  BY <1>1, <1>4 DEF Found, Described, Seeding, WithPapers
<1> QED
  BY <1>1, <1>3, <1>4, <1>5, MoveCalm

\* WriteCompletion: the presence of the library is what the completion says.
LEMMA WriteCompletionCalm ==
    ASSUME NEW d \in Device, Alone(d), WriteCompletion(d) PROVE StaysCalm
<1> DEFINE rec == op[d].rec
           graph == presence[rec.control]
           proved == /\ \A p \in Paper : Resolves(graph[p])
                     /\ {p \in Paper : graph[p] # NoPresence} = rec.targets
                     /\ \A p \in rec.targets : /\ rec.seeds[p].gen \in graph[p].roots
                                               /\ graph[p].state = rec.seeds[p].state
           o == [op[d] EXCEPT !.step = "bind"]
<1>1. /\ op[d].step = "complete" /\ op[d] \in Operation /\ op \in [Device -> Operation]
      /\ Seeded(rec) /\ OneOfEach /\ DriveOK /\ Settled /\ changes = 0
      /\ refused \in [Device -> BOOLEAN]
  BY Running DEF WriteCompletion, At, HistoryOK
<1>2. /\ rec.control \in Control /\ record[d] = rec /\ rec.targets = Targets(package)
      /\ \A p \in rec.targets : /\ p \in Paper
                                /\ rec.seeds[p].state = StateOf(package[p])
                                /\ graph[p].roots = {rec.seeds[p].gen}
  BY <1>1, ActivatingSeeds DEF Activating
<1>3. /\ op' = [op EXCEPT ![d] = IF proved THEN o ELSE Idle]
      /\ refused' = [refused EXCEPT ![d] = ~proved]
      /\ completions' = completions \union {CompletionOf(d, rec)}
      /\ UNCHANGED <<root, package, controls, descriptors, presence, record>>
  BY DEF WriteCompletion, CompletionsWith, Completion, CompletionOf
<1>4. proved
  <2>1. \A p \in Paper : Resolves(graph[p])
    BY <1>1, <1>2 DEF OneOfEach
  <2>2. \A p \in Paper : graph[p] # NoPresence =>
            package[p].head # 0 /\ graph[p].state = StateOf(package[p])
    BY <1>1, <1>2 DEF DriveOK, GraphOK
  <2>3. ASSUME NEW p \in rec.targets PROVE graph[p] # NoPresence
    <3>1. rec.seeds[p].gen \in graph[p].roots
      BY <1>2
    <3>2. NoPresence.roots = {}
      BY DEF NoPresence
    <3> HIDE DEF graph, rec
    <3> QED
      BY <3>1, <3>2
  <2> HIDE DEF graph, rec
  <2>4. {p \in Paper : graph[p] # NoPresence} = rec.targets
    BY <1>2, <2>2, <2>3 DEF Targets
  <2> QED
    BY <1>2, <2>1, <2>2, <2>3, <2>4
<1> HIDE DEF proved
<1>5. op' = [op EXCEPT ![d] = o] /\ \A e \in Device : refused'[e] => refused[e]
  BY <1>1, <1>3, <1>4
<1>6. o.step = "bind" /\ o.rec = rec
  BY <1>1 DEF Operation
<1> HIDE DEF o
<1>7. PICK n : n = o
  OBVIOUS
<1>8. Found(d, n)'
  <2>1. n.step = "bind" /\ n.rec = rec
    BY <1>6, <1>7
  <2>2. record'[d] = n.rec /\ CompletionOf(d, n.rec) \in completions'
    BY <1>2, <1>3, <2>1
  <2>3. (CompletionOf(d, n.rec) \in completions)'
    BY <2>2 DEF CompletionOf, Evidence
  <2> QED
    BY <2>1, <2>2, <2>3 DEF Found, Described, Seeding, WithPapers
<1>9. Settled'
  BY <1>1, <1>3 DEF Settled, ActiveRoot, Activated, Evidence
<1>10. Seeded(record'[d])
  BY <1>1, <1>2, <1>3
<1>11. Calm'
  BY <1>1, <1>3, <1>5, <1>6, <1>7, <1>8, <1>9, <1>10, CalmSave
<1> QED
  BY <1>3, <1>5, <1>11 DEF StaysCalm

\* Bind: only a root another device has activated is refused.
LEMMA BindCalm ==
    ASSUME NEW d \in Device, Alone(d), Bind(d) PROVE StaysCalm
<1> DEFINE rec == op[d].rec
           step == IF Bound(d) THEN "confirm" ELSE "activate"
           o == [op[d] EXCEPT !.step = step]
<1>1. /\ op[d].step = "bind" /\ op[d] \in Operation /\ op \in [Device -> Operation]
      /\ Seeded(rec) /\ Settled /\ root.layout \in {2, 3}
      /\ CompletionOf(d, rec) \in completions
  BY Running DEF Bind, At, Found, DriveOK
<1>2. /\ record[d] = rec /\ rec # None /\ controls = {rec.control} /\ descriptors[rec.control] = 1
      /\ rec.control \in Control
  BY <1>1, ActivatingSeeds DEF Activating
<1>3. Completion(d) = CompletionOf(d, rec)
  BY DEF Completion, CompletionOf
<1>4. Activated(rec.control, Completion(d))
  BY <1>1, <1>2, <1>3 DEF Activated, CompletionOf
<1>5. CASE Elsewhere(d) /\ Refuse(d)
  BY <1>5, RefuseElsewhere
<1>6. CASE ~(Elsewhere(d) /\ Refuse(d))
  <2>1. root.layout = 3 /\ ~Elsewhere(d) => Bound(d)
    <3> SUFFICES ASSUME root.layout = 3, root.completion.by = d PROVE Bound(d)
      BY DEF Elsewhere
    <3>1. /\ root.completion \in completions /\ root.completion.control = root.control
          /\ rec.control = root.control /\ Evidence(rec) = root.completion.seeds
      BY <1>1, <1>2 DEF Settled, ActiveRoot, Activated
    <3>2. root.completion \in CompletionFile
      BY <3>1, Running, <1>1 DEF At, DriveOK
    <3>3. root.completion = CompletionOf(d, rec)
      BY <3>1, <3>2 DEF CompletionFile, CompletionOf
    <3> QED
      BY <1>3, <3>1, <3>3 DEF Bound
  <2>2. Bindable(d)
    BY <1>1, <1>4, <1>6, <2>1 DEF Bind, Bindable, Refuse
  <2>3. op' = [op EXCEPT ![d] = o] /\ UNCHANGED <<drive, record, history>>
    BY <1>1, <2>2 DEF Bind, Goto
  <2>4. step = "confirm" => root.layout = 3
    BY <1>1, <1>2, NoneIsNothing DEF Bound, Settled
  <2>5. o.step = step /\ o.rec = rec /\ step \in {"confirm", "activate"}
    BY <1>1 DEF Operation
  <2> HIDE DEF o, step
  <2>6. Found(d, o)
    BY <1>1, <1>2, <2>4, <2>5 DEF Found, Described, Seeding, WithPapers
  <2> QED
    BY <1>1, <2>3, <2>5, <2>6, MoveCalm
<1> QED
  BY <1>5, <1>6

\* Finish: what was activated is what the device reads again.
LEMMA FinishCalm ==
    ASSUME NEW d \in Device, Alone(d), Finish(d) PROVE StaysCalm
<1>1. /\ op[d].step = "confirm" /\ root.layout = 3 /\ Settled /\ OneOfEach /\ DriveOK
      /\ record \in [Device -> Record \union {None}]
  BY Running DEF Finish, At, Found
<1>2. ActiveRoot /\ root.control \in Control
  BY <1>1 DEF Settled, ActiveRoot, Activated, DriveOK
<1>3. \A p \in Paper : Resolves(presence[root.control][p])
  BY <1>1, <1>2 DEF OneOfEach
<1>4. /\ record' = [record EXCEPT ![d] = None] /\ op' = [op EXCEPT ![d] = Idle]
      /\ UNCHANGED <<drive, history>>
  BY <1>2, <1>3 DEF Finish
<1>5. /\ record'[d] = None /\ (\A e \in Device \ {d} : record'[e] = record[e])
      /\ UNCHANGED <<root, package, controls, descriptors, presence, completions>>
  BY <1>1, <1>4 DEF drive
<1>6. Settled'
  BY <1>1, <1>5 DEF Settled, ActiveRoot, Activated, Evidence
<1>7. Idle.step = "idle" /\ Seeded(record'[d])
  BY <1>5 DEF Idle, Seeded
<1>8. Calm'
  BY <1>4, <1>5, <1>6, <1>7, CalmSave
<1> QED
  BY <1>4, <1>5, <1>8 DEF StaysCalm, history

\* Activate: the root is what the checkpoint of the device says.
LEMMA ActivateCalm ==
    ASSUME NEW d \in Device, Alone(d), Activate(d)
    PROVE  Calm' /\ root.layout = 2 /\ refused' = refused
<1> DEFINE rec == op[d].rec
           o == [op[d] EXCEPT !.step = "confirm"]
           file == CompletionOf(d, rec)
<1>1. /\ op[d].step = "activate" /\ op[d] \in Operation /\ op \in [Device -> Operation]
      /\ Seeded(rec) /\ OneOfEach /\ file \in completions /\ root.layout = 2
  BY Running DEF Activate, At, Found, OperationOK
<1>2. /\ record[d] = rec /\ rec # None /\ rec.phase = "activating-layout"
      /\ controls = {rec.control} /\ descriptors[rec.control] = 1
  BY <1>1, ActivatingSeeds DEF Activating
<1>3. /\ op' = [op EXCEPT ![d] = o]
      /\ root' = [layout |-> 3, control |-> rec.control, completion |-> file]
      /\ UNCHANGED <<package, controls, descriptors, presence, completions, record, refused>>
  BY DEF Activate, Goto, Completion, CompletionOf
<1>4. file.control = rec.control /\ file.by = d /\ file.seeds = Evidence(rec)
  BY DEF CompletionOf
<1> HIDE DEF file
<1>5. o.step = "confirm" /\ o.rec = rec
  BY <1>1 DEF Operation
<1> HIDE DEF o
<1>6. op'[d] = o /\ \A e \in Device \ {d} : op'[e] = op[e] /\ At(e, "idle")
  BY <1>1, <1>3 DEF Alone
<1>7. /\ root'.layout = 3 /\ root'.control = rec.control /\ root'.completion = file
  BY <1>3
<1>8. ActiveRoot'
  BY <1>1, <1>2, <1>3, <1>4, <1>7 DEF ActiveRoot, Activated
<1>9. Settled'
  <2>1. ASSUME NEW e \in Device, root'.completion.by = e
        PROVE  /\ record'[e].phase = "activating-layout"
               /\ record'[e].control = root'.control
               /\ Evidence(record[e])' = root'.completion.seeds
    <3>1. e = d /\ record'[e] = rec
      BY <1>2, <1>3, <1>4, <1>7, <2>1
    <3> QED
      BY <1>2, <1>4, <1>7, <3>1 DEF Evidence
  <2> QED
    BY <1>7, <1>8, <2>1 DEF Settled
<1>10. OneOfEach' /\ \A e \in Device : Seeded(record[e])'
  BY <1>3 DEF Alone, Calm, OneOfEach, Seeded
<1>11. ASSUME NEW e \in Device, ~At(e, "idle")' PROVE Seeded(op[e].rec)' /\ Found(e, op[e])'
  <2>1. e = d /\ op'[e] = o
    BY <1>6, <1>11 DEF At
  <2>2. Seeded(op[e].rec)'
    BY <1>1, <1>3, <1>5, <2>1 DEF Seeded
  <2>3. (CompletionOf(e, op[e].rec) \in completions)'
    BY <1>1, <1>3, <1>5, <2>1 DEF CompletionOf, Evidence, file
  <2> QED
    BY <1>2, <1>3, <1>5, <1>7, <2>1, <2>2, <2>3 DEF Found, Described, Seeding, WithPapers
<1> QED
  BY <1>1, <1>3, <1>9, <1>10, <1>11 DEF Calm

--------------------------------------------------------------------------------
(* The theorem on retries *)

\* Only Begin starts an upgrade: whoever does anything else is alone in a quiet library.
LEMMA OneIsAlone ==
    ASSUME NEW d \in Device, IInv, Quiet, Calm, ~At(d, "idle") PROVE Alone(d)
  BY DEF IInv, OneAtATime, Quiet, Alone

\* Every other step is one of a device that runs an upgrade.
LEMMA BusySteps ==
    ASSUME NEW d \in Device,
           \/ Prepare(d) \/ FindControl(d) \/ CreateControl(d) \/ FindDescriptor(d)
           \/ WriteDescriptor(d) \/ Checkpoint(d) \/ ReadSeed(d) \/ WriteSeed(d)
           \/ VerifySeed(d) \/ SaveSeed(d) \/ SaveActivating(d) \/ Inspect(d)
           \/ WriteCompletion(d) \/ Bind(d) \/ Activate(d) \/ Finish(d) \/ Fail(d)
    PROVE  ~At(d, "idle") /\ overlapped' = overlapped /\ changes' = changes
  BY DEF Prepare, FindControl, CreateControl, FindDescriptor, WriteDescriptor, Checkpoint,
         ReadSeed, WriteSeed, VerifySeed, SaveSeed, SaveActivating, Inspect, WriteCompletion,
         Bind, Activate, Finish, Fail, At, Refuse, history

\* An upgrade that is tried again is not refused, because what it left is in order.
Retry == IInv /\ RetryIsSafe /\ (Quiet => Calm)

\* Nothing has been done in the initial states.
LEMMA InitRetry == Init => Retry
<1> SUFFICES ASSUME Init PROVE Retry
  OBVIOUS
<1>1. /\ root = [layout |-> 2, control |-> None, completion |-> None] /\ controls = {}
      /\ descriptors = [c \in Control |-> 0]
      /\ presence = [c \in Control |-> [p \in Paper |-> NoPresence]]
      /\ record = [d \in Device |-> None] /\ op = [d \in Device |-> Idle]
      /\ refused = [d \in Device |-> FALSE]
  BY DEF Init
<1>2. OneOfEach
  BY <1>1 DEF OneOfEach, Resolves, NoPresence
<1>3. Settled /\ \A d \in Device : Seeded(record[d])
  BY <1>1 DEF Settled, Seeded
<1>4. \A d \in Device : At(d, "idle")
  BY <1>1 DEF At, Idle
<1>5. RetryIsSafe
  BY <1>1 DEF RetryIsSafe
<1> QED
  BY <1>2, <1>3, <1>4, <1>5, InitOK DEF Retry, Calm

\* A step in a quiet library leaves it calm, and refuses no upgrade of its own.
LEMMA QuietStep ==
    ASSUME IInv, Quiet, Calm, RetryIsSafe, Next, Quiet'
    PROVE  Calm' /\ RetryIsSafe'
<1>1. \A d \in Device : refused[d] => Elsewhere(d)
  BY DEF RetryIsSafe, Quiet, Elsewhere
<1>2. ASSUME StaysCalm PROVE Calm' /\ RetryIsSafe'
  BY <1>1, <1>2 DEF StaysCalm, RetryIsSafe, Elsewhere
<1>3. ASSUME NEW d \in Device, Begin(d) PROVE Calm' /\ RetryIsSafe'
  <2>1. Alone(d)
    BY <1>3 DEF Begin, Quiet, Alone
  <2> QED
    BY <1>2, <1>3, <2>1, BeginCalm
<1>4. ASSUME NEW d \in Device,
             \/ Prepare(d) \/ FindControl(d) \/ CreateControl(d) \/ FindDescriptor(d)
             \/ WriteDescriptor(d) \/ Checkpoint(d) \/ ReadSeed(d) \/ WriteSeed(d)
      PROVE  Calm' /\ RetryIsSafe'
  <2>1. Alone(d)
    BY <1>4, BusySteps, OneIsAlone
  <2> QED
    BY <1>2, <1>4, <2>1, PrepareCalm, FindControlCalm, CreateControlCalm, FindDescriptorCalm,
       WriteDescriptorCalm, CheckpointCalm, ReadSeedCalm, WriteSeedCalm
<1>5. ASSUME NEW d \in Device,
             \/ VerifySeed(d) \/ SaveSeed(d) \/ SaveActivating(d) \/ Inspect(d)
             \/ WriteCompletion(d) \/ Bind(d) \/ Finish(d) \/ Fail(d)
      PROVE  Calm' /\ RetryIsSafe'
  <2>1. Alone(d)
    BY <1>5, BusySteps, OneIsAlone
  <2> QED
    BY <1>2, <1>5, <2>1, VerifySeedCalm, SaveSeedCalm, SaveActivatingCalm, InspectCalm,
       WriteCompletionCalm, BindCalm, FinishCalm, FailCalm
<1>6. ASSUME NEW d \in Device, Activate(d) PROVE Calm' /\ RetryIsSafe'
  <2>1. Alone(d)
    BY <1>6, BusySteps, OneIsAlone
  <2>2. Calm' /\ root.layout = 2 /\ refused' = refused
    BY <1>6, <2>1, ActivateCalm
  <2> QED
    BY <1>1, <2>2 DEF Elsewhere, RetryIsSafe
<1>7. ASSUME NEW p \in Paper, OldBuildPublishes(p) \/ OrdinarySync(p) PROVE FALSE
  BY <1>7 DEF OldBuildPublishes, OrdinarySync, Quiet
<1> QED
  BY <1>3, <1>4, <1>5, <1>6, <1>7 DEF Next

\* What others have done to the library stays done.
LEMMA Disturbed ==
    ASSUME IInv, Next
    PROVE  (overlapped => overlapped') /\ changes' \in Nat /\ changes' >= changes
<1>1. changes \in Nat
  BY DEF IInv, HistoryOK
<1>2. ASSUME NEW d \in Device, Begin(d)
      PROVE  (overlapped => overlapped') /\ changes' = changes
  BY <1>2 DEF Begin
<1>3. ASSUME NEW p \in Paper, OldBuildPublishes(p) \/ OrdinarySync(p)
      PROVE  overlapped' = overlapped /\ changes' = changes + 1
  BY <1>3 DEF OldBuildPublishes, OrdinarySync
<1> QED
  BY <1>1, <1>2, <1>3, BusySteps DEF Next

\* No step breaks it.
LEMMA StepRetry == Retry /\ [Next]_vars => Retry'
<1> SUFFICES ASSUME Retry, [Next]_vars PROVE Retry'
  OBVIOUS
<1>1. IInv /\ IInv'
  BY NextOK DEF Retry
<1>2. CASE UNCHANGED vars
  <2>1. UNCHANGED <<drive, record, op, history>>
    BY <1>2 DEF vars
  <2>2. ASSUME Calm PROVE Calm'
    <3>1. OneOfEach' /\ Settled'
      BY <2>1, <2>2 DEF Calm, drive, OneOfEach, Settled, ActiveRoot, Activated
    <3>2. ASSUME NEW rec, Seeded(rec) PROVE Seeded(rec)'
      BY <2>1, <3>2 DEF drive, Seeded
    <3>3. ASSUME NEW d \in Device, NEW o, Found(d, o) PROVE Found(d, o)'
      BY <2>1, <3>3 DEF drive, Found
    <3> QED
      BY <2>1, <2>2, <3>1, <3>2, <3>3 DEF Calm, At
  <2> QED
    BY <1>1, <2>1, <2>2 DEF Retry, RetryIsSafe, Quiet, drive, history
<1>3. CASE Next /\ Quiet'
  <2>1. Quiet
    BY <1>1, <1>3, Disturbed DEF Quiet, IInv, HistoryOK
  <2> QED
    BY <1>1, <1>3, <2>1, QuietStep DEF Retry
<1>4. CASE ~Quiet'
  <2>1. overlapped' \/ changes' > 0
    BY <1>1, <1>4 DEF Quiet, IInv, HistoryOK
  <2>2. RetryIsSafe'
    BY <2>1 DEF RetryIsSafe
  <2> QED
    BY <1>1, <1>4, <2>2 DEF Retry
<1> QED
  BY <1>2, <1>3, <1>4

\* RetryIsSafe for any devices, papers and control folders: upgradeDriveSyncToV3Owned,
\* cut off at any of its steps, finds on every later try the control folder, the
\* descriptor, the roots and the checkpoint it left, and takes them for its own.
THEOREM RetrySafe == Spec => []RetryIsSafe
<1>1. Retry => RetryIsSafe
  BY DEF Retry
<1> QED
  BY <1>1, InitRetry, StepRetry, PTL DEF Spec

================================================================================
