---------------------------- MODULE LayoutMigration ----------------------------
(* The upgrade of a Drive library from layout 2 to layout 3 (paperCoordinator.ts,
   paperDriveRepository.ts, paperPresenceDriveRepository.ts).  A device creates
   the control folder, gives every paper a first presence generation, records
   what it did in Drive (the completion) and changes the root last.  A checkpoint
   in IndexedDB lets it go on after it was interrupted.  Nothing keeps a second
   device, or an older build that knows layout 2 only, out of the way: the
   manual asks the user to close them. *)

EXTENDS Naturals

CONSTANTS
    Device,         \* devices that run this build
    Paper,          \* papers of the library
    Control,        \* ids of control folders
    MaxChanges,     \* bound on what others change during and after the upgrade
    None


VARIABLES
    root,           \* the metadata of the root folder: layout, control, completion
    package,        \* the Paper-v2 package of each paper; head 0 when there is none
    controls,       \* control folders in Drive
    descriptors,    \* how many layout descriptors each control folder holds
    presence,       \* the presence graph of each paper in each control folder
    completions,    \* completion files in Drive
    record,         \* the checkpoint of each device, in IndexedDB
    op,             \* the upgrade a device is running
    changes,        \* how much others have changed
    refused,        \* history: the last upgrade of the device was refused
    overlapped,     \* history: two devices have run an upgrade at the same time
    missed          \* history: papers that changed between the last look at them
                    \*   and the activation

drive == <<root, package, controls, descriptors, presence, completions>>
history == <<changes, refused, overlapped, missed>>
vars == <<drive, record, op, history>>

\* A root of a graph is named by the device that wrote it: a device writes at most
\* one baseline per paper and control folder.  One an ordinary upload wrote is Later.
Later == "later"


NoPackage == [head |-> 0, deleted |-> FALSE]
NoPresence == [roots |-> {}, moved |-> FALSE, state |-> "none"]

\* resolvePaperPresence refuses a graph with several roots.
Resolves(graph) == \A g, h \in graph.roots : g = h

StateOf(package_) == IF package_.deleted THEN "removed" ELSE "present"

Idle == [step |-> "idle", control |-> None, papers |-> [p \in Paper |-> NoPackage],
         todo |-> {}, paper |-> None, gen |-> None, rec |-> None, late |-> {}]

\* The baseline of a graph nobody has moved on from.
RootOf(graph) == CHOOSE g \in graph.roots : TRUE

Targets(papers) == {p \in Paper : papers[p].head # 0}

\* The presence generations the completion file names.
Evidence(rec) ==
    [p \in Paper |-> IF p \in rec.targets
                     THEN [gen |-> rec.seeds[p].gen, state |-> rec.seeds[p].state]
                     ELSE None]

Completion(d) == [control |-> op[d].rec.control, by |-> d, seeds |-> Evidence(op[d].rec)]

\* verifyActivatedControl: one control folder, described, with this completion.
Activated(control, completion) ==
    /\ controls = {control}
    /\ descriptors[control] > 0
    /\ completion \in completions
    /\ completion.control = control

\* isPaperV3RootMetadata and the check of what the root names.
ActiveRoot == root.layout = 3 /\ Activated(root.control, root.completion)

--------------------------------------------------------------------------------

Init ==
    /\ root = [layout |-> 2, control |-> None, completion |-> None]
    /\ package \in [Paper -> {NoPackage} \union [head : {1}, deleted : BOOLEAN]]
    /\ controls = {}
    /\ descriptors = [c \in Control |-> 0]
    /\ presence = [c \in Control |-> [p \in Paper |-> NoPresence]]
    /\ completions = {}
    /\ record = [d \in Device |-> None]
    /\ op = [d \in Device |-> Idle]
    /\ changes = 0
    /\ refused = [d \in Device |-> FALSE]
    /\ overlapped = FALSE
    /\ missed = {}

At(d, step) == op[d].step = step

Goto(d, step) == op' = [op EXCEPT ![d].step = step]

\* An exception the code raises on its own account.
Refuse(d) ==
    /\ op' = [op EXCEPT ![d] = Idle]
    /\ refused' = [refused EXCEPT ![d] = TRUE]
    /\ UNCHANGED <<drive, record, changes, overlapped, missed>>

--------------------------------------------------------------------------------
(* Looking at the library *)

\* A device whose root is active and that has no checkpoint is done.
Begin(d) ==
    /\ At(d, "idle")
    /\ ActiveRoot => record[d] # None
    /\ LET resumes == ActiveRoot /\ record[d].phase = "activating-layout"
           step == IF resumes THEN "inspect" ELSE "prepare"
           blocked == ActiveRoot /\ ~resumes
       IN  /\ op' = [op EXCEPT ![d] = IF blocked THEN Idle
                                      ELSE [Idle EXCEPT !.step = step, !.rec = record[d]]]
           /\ refused' = [refused EXCEPT ![d] = blocked]
    /\ overlapped' = (overlapped \/ \E e \in Device \ {d} : ~At(e, "idle"))
    /\ UNCHANGED <<drive, record, changes, missed>>

Prepare(d) ==
    /\ At(d, "prepare")
    /\ \/ /\ root.layout = 2
          /\ op' = [op EXCEPT ![d].papers = package, ![d].step = "control"]
          /\ UNCHANGED <<drive, record, history>>
       \/ root.layout # 2 /\ Refuse(d)

\* Listing the control folders, before and after one was created.
FindControl(d) ==
    /\ At(d, "control")
    /\ \/ /\ controls = {}
          /\ Goto(d, "create")
          /\ UNCHANGED <<drive, record, history>>
       \/ /\ \E c \in controls :
                /\ controls = {c}
                /\ op' = [op EXCEPT ![d].control = c, ![d].step = "describe"]
          /\ UNCHANGED <<drive, record, history>>
       \/ (\E c, e \in controls : c # e) /\ Refuse(d)

CreateControl(d) ==
    /\ At(d, "create")
    /\ \E c \in Control \ controls : controls' = controls \union {c}
    /\ Goto(d, "control")
    /\ UNCHANGED <<root, package, descriptors, presence, completions, record, history>>

FindDescriptor(d) ==
    /\ At(d, "describe")
    /\ LET found == descriptors[op[d].control]
       IN  \/ /\ found < 2
              /\ Goto(d, IF found = 0 THEN "write-descriptor" ELSE "checkpoint")
              /\ UNCHANGED <<drive, record, history>>
           \/ found > 1 /\ Refuse(d)

WriteDescriptor(d) ==
    /\ At(d, "write-descriptor")
    /\ descriptors' = [descriptors EXCEPT ![op[d].control] = @ + 1]
    /\ Goto(d, "checkpoint")
    /\ UNCHANGED <<root, package, controls, presence, completions, record, history>>

--------------------------------------------------------------------------------
(* Seeding presence *)

FirstRecord(control, targets) ==
    [phase |-> "seeding-presence", control |-> control, targets |-> targets,
     seeds |-> [p \in Paper |-> None]]

\* The first checkpoint, or the comparison with the one that was there.
Checkpoint(d) ==
    /\ At(d, "checkpoint")
    /\ LET targets == Targets(op[d].papers)
           old == op[d].rec
           fresh == FirstRecord(op[d].control, targets)
       IN  \/ /\ old = None
              /\ record' = [record EXCEPT ![d] = fresh]
              /\ op' = [op EXCEPT ![d].rec = fresh, ![d].todo = targets, ![d].step = "seed"]
              /\ UNCHANGED <<drive, history>>
           \/ /\ old # None
              /\ old.control = op[d].control
              /\ old.targets = targets
              /\ op' = [op EXCEPT ![d].rec.phase = "seeding-presence",
                                  ![d].todo = targets, ![d].step = "seed"]
              /\ UNCHANGED <<drive, record, history>>
           \/ /\ old # None
              /\ (old.control # op[d].control \/ old.targets # targets)
              /\ Refuse(d)

\* seedV3MigrationPresence up to the upload: root, package and graph are read again.
\* A graph that fills up before the last of these reads ends the upgrade, as in Fail.
ReadSeed(d) ==
    /\ At(d, "seed")
    /\ \E p \in op[d].todo :
        LET seen == op[d].papers[p]
            graph == presence[op[d].control][p]
            same == root.layout = 2 /\ package[p].head = seen.head
            agrees == Resolves(graph) /\ ~graph.moved /\ graph.state = StateOf(seen)
        IN  \/ /\ same
               /\ graph = NoPresence \/ agrees
               /\ op' = [op EXCEPT ![d].paper = p,
                                   ![d].gen = IF graph = NoPresence THEN None ELSE RootOf(graph),
                                   ![d].step = IF graph = NoPresence THEN "publish" ELSE "save"]
               /\ UNCHANGED <<drive, record, history>>
            \/ /\ ~same \/ (graph # NoPresence /\ ~agrees)
               /\ Refuse(d)

WriteSeed(d) ==
    /\ At(d, "publish")
    /\ LET graph == presence[op[d].control][op[d].paper]
           state == IF graph.state = "removed" THEN "removed"
                    ELSE StateOf(op[d].papers[op[d].paper])
       IN  presence' = [presence EXCEPT ![op[d].control][op[d].paper] =
                [roots |-> graph.roots \union {d}, moved |-> graph.moved, state |-> state]]
    /\ Goto(d, "verify")
    /\ UNCHANGED <<root, package, controls, descriptors, completions, record, history>>

VerifySeed(d) ==
    /\ At(d, "verify")
    /\ LET graph == presence[op[d].control][op[d].paper]
           retained == graph.roots = {d} /\ ~graph.moved
       IN  \/ /\ retained
              /\ op' = [op EXCEPT ![d].gen = d, ![d].step = "save"]
              /\ UNCHANGED <<drive, record, history>>
           \/ ~retained /\ Refuse(d)

\* The seed is compared with the checkpoint, then stored in it.
SaveSeed(d) ==
    /\ At(d, "save")
    /\ LET p == op[d].paper
           seed == [gen |-> op[d].gen, state |-> StateOf(op[d].papers[p]),
                    head |-> op[d].papers[p].head]
           rec == [op[d].rec EXCEPT !.seeds[p] = seed]
       IN  \/ /\ op[d].rec.seeds[p] \in {None, seed}
              /\ record' = [record EXCEPT ![d] = rec]
              /\ op' = [op EXCEPT ![d].rec = rec, ![d].todo = @ \ {p},
                                  ![d].paper = None, ![d].gen = None, ![d].step = "seed"]
              /\ UNCHANGED <<drive, history>>
           \/ op[d].rec.seeds[p] \notin {None, seed} /\ Refuse(d)

SaveActivating(d) ==
    /\ At(d, "seed")
    /\ op[d].todo = {}
    /\ LET rec == [op[d].rec EXCEPT !.phase = "activating-layout"]
       IN  /\ record' = [record EXCEPT ![d] = rec]
           /\ op' = [op EXCEPT ![d] = [Idle EXCEPT !.rec = rec, !.step = "inspect"]]
    /\ UNCHANGED <<drive, history>>

--------------------------------------------------------------------------------
(* Activation *)

\* Mutant: the heads of the papers are not compared.
SamePapers(rec) == Targets(package) = rec.targets

\* The library is the one the seeds were made for.
AsSeeded(rec) ==
    /\ Targets(package) = rec.targets
    /\ \A p \in rec.targets : package[p].head = rec.seeds[p].head

\* While the root is layout 2 the papers are read again.
Inspect(d) ==
    /\ At(d, "inspect")
    /\ \/ /\ root.layout = 3 \/ AsSeeded(op[d].rec)
          /\ op' = [op EXCEPT ![d].late = {}, ![d].step = "complete"]
          /\ UNCHANGED <<drive, record, history>>
       \/ root.layout = 2 /\ ~AsSeeded(op[d].rec) /\ Refuse(d)

\* Mutant: any completion will do.
SomeCompletion(d) == IF completions = {} THEN {Completion(d)} ELSE completions

CompletionsWith(d) == completions \union {Completion(d)}

\* ensureMigrationCompletion: the file is written, unless it is there, and then
\* compared with the presence of the whole library.
WriteCompletion(d) ==
    /\ At(d, "complete")
    /\ completions' = CompletionsWith(d)
    /\ LET rec == op[d].rec
           graph == presence[rec.control]
           proved == /\ \A p \in Paper : Resolves(graph[p])
                     /\ {p \in Paper : graph[p] # NoPresence} = rec.targets
                     /\ \A p \in rec.targets : /\ rec.seeds[p].gen \in graph[p].roots
                                               /\ graph[p].state = rec.seeds[p].state
       IN  /\ op' = [op EXCEPT ![d] = IF proved THEN [@ EXCEPT !.step = "bind"] ELSE Idle]
           /\ refused' = [refused EXCEPT ![d] = ~proved]
    /\ UNCHANGED <<root, package, controls, descriptors, presence, record, changes,
                   overlapped, missed>>

\* The root is already active with the evidence of this upgrade.
Bound(d) == root.control = op[d].rec.control /\ root.completion = Completion(d)

\* Mutant: an active root may be bound to other evidence.
BindableAnew(d) == Activated(op[d].rec.control, Completion(d))

Bindable(d) ==
    /\ Activated(op[d].rec.control, Completion(d))
    /\ root.layout = 2 \/ Bound(d)

\* activateV3RootMetadata up to the update of the root.
Bind(d) ==
    /\ At(d, "bind")
    /\ \/ /\ Bindable(d)
          /\ Goto(d, IF Bound(d) THEN "confirm" ELSE "activate")
          /\ UNCHANGED <<drive, record, history>>
       \/ ~Bindable(d) /\ Refuse(d)

Activate(d) ==
    /\ At(d, "activate")
    /\ root' = [layout |-> 3, control |-> op[d].rec.control, completion |-> Completion(d)]
    /\ missed' = op[d].late
    /\ Goto(d, "confirm")
    /\ UNCHANGED <<package, controls, descriptors, presence, completions, record,
                   changes, refused, overlapped>>

\* The root is read again, the library scanned, and the checkpoint cleared.
Finish(d) ==
    /\ At(d, "confirm")
    /\ LET scanned == ActiveRoot /\ \A p \in Paper : Resolves(presence[root.control][p])
       IN  \/ /\ scanned
              /\ record' = [record EXCEPT ![d] = None]
              /\ op' = [op EXCEPT ![d] = Idle]
              /\ UNCHANGED <<drive, history>>
           \/ ~scanned /\ Refuse(d)

\* A failed request, a lost answer, a write IndexedDB refused, a closed page.
Fail(d) ==
    /\ ~At(d, "idle")
    /\ op' = [op EXCEPT ![d] = Idle]
    /\ UNCHANGED <<drive, record, history>>

--------------------------------------------------------------------------------
(* The others *)

\* From the last look at the packages to the update of the root.
Exposed(d) == op[d].step \in {"complete", "bind", "activate"}

\* An older build publishes a paper, new or known, in layout 2.
OldBuildPublishes(p) ==
    /\ root.layout = 2
    /\ changes < MaxChanges
    /\ \E deleted \in BOOLEAN :
        package' = [package EXCEPT ![p] = [head |-> changes + 2, deleted |-> deleted]]
    /\ op' = [d \in Device |-> IF Exposed(d) THEN [op[d] EXCEPT !.late = @ \union {p}] ELSE op[d]]
    /\ changes' = changes + 1
    /\ UNCHANGED <<root, controls, descriptors, presence, completions, record, refused,
                   overlapped, missed>>

\* This build, once the root is active: a first upload, a removal or a restore.
OrdinarySync(p) ==
    /\ ActiveRoot
    /\ changes < MaxChanges
    /\ LET graph == presence[root.control][p]
           state == IF graph.state = "present" THEN "removed" ELSE "present"
           roots == IF graph = NoPresence THEN {Later} ELSE graph.roots
       IN  /\ Resolves(graph)
           /\ presence' = [presence EXCEPT ![root.control][p] =
                                [roots |-> roots, moved |-> TRUE, state |-> state]]
           /\ package' = [package EXCEPT ![p] =
                                IF graph.state = "present" THEN @
                                ELSE [head |-> changes + 2, deleted |-> FALSE]]
    /\ changes' = changes + 1
    /\ UNCHANGED <<root, controls, descriptors, completions, record, op, refused,
                   overlapped, missed>>

Next ==
    \/ \E d \in Device :
        \/ Begin(d) \/ Prepare(d) \/ FindControl(d) \/ CreateControl(d)
        \/ FindDescriptor(d) \/ WriteDescriptor(d) \/ Checkpoint(d)
        \/ ReadSeed(d) \/ WriteSeed(d) \/ VerifySeed(d) \/ SaveSeed(d) \/ SaveActivating(d)
        \/ Inspect(d) \/ WriteCompletion(d) \/ Bind(d)
        \/ Activate(d) \/ Finish(d) \/ Fail(d)
    \/ \E p \in Paper : OldBuildPublishes(p) \/ OrdinarySync(p)

Spec == Init /\ [][Next]_vars

--------------------------------------------------------------------------------
(* Properties *)

Package == [head : Nat, deleted : BOOLEAN]
Presence == [roots : SUBSET (Device \union {Later}), moved : BOOLEAN,
             state : {"none", "present", "removed"}]
Seed == [gen : Device \union {Later}, state : {"present", "removed"}, head : Nat]
Record == [phase : {"seeding-presence", "activating-layout"}, control : Control,
           targets : SUBSET Paper, seeds : [Paper -> Seed \union {None}]]
ASSUME NoneIsNothing ==
    None \notin Device /\ None \notin Control /\ None \notin Seed /\ None \notin Record
ASSUME LaterIsNoDevice == Later \notin Device /\ Later # None

Named == [gen : Device \union {Later}, state : {"present", "removed"}]
CompletionFile == [control : Control, by : Device, seeds : [Paper -> Named \union {None}]]

Steps == {"idle", "prepare", "control", "create", "describe", "write-descriptor",
          "checkpoint", "seed", "publish", "verify", "save", "inspect", "complete",
          "bind", "activate", "confirm"}

Operation == [step : Steps, control : Control \union {None}, papers : [Paper -> Package],
              todo : SUBSET Paper, paper : Paper \union {None},
              gen : Device \union {Later, None}, rec : Record \union {None},
              late : SUBSET Paper]

\* Types of the state.
TypeOK ==
    /\ root \in [layout : {2, 3}, control : Control \union {None},
                 completion : CompletionFile \union {None}]
    /\ package \in [Paper -> Package]
    /\ controls \subseteq Control
    /\ descriptors \in [Control -> Nat]
    /\ presence \in [Control -> [Paper -> Presence]]
    /\ completions \subseteq CompletionFile
    /\ record \in [Device -> Record \union {None}]
    /\ op \in [Device -> Operation]
    /\ changes \in Nat
    /\ refused \in [Device -> BOOLEAN]
    /\ overlapped \in BOOLEAN
    /\ missed \subseteq Paper

\* activateV3Migration: the root is activated with a graph that resolves for every
\* paper of the library, removed where its package is deleted and present otherwise,
\* and for no other paper.  Only a paper an older build changes after the last look
\* can differ.  Of two devices at once one can spoil a graph the other has verified:
\* then, in a library nobody else changes, the graphs that do resolve are right.
BaselineIsTrue ==
    [][root.layout = 2 /\ root'.layout = 3 /\ (overlapped => changes = 0) =>
        \A p \in Paper \ missed' :
            LET graph == presence'[root'.control][p]
                state == IF package[p].head = 0 THEN "none" ELSE StateOf(package[p])
            IN  IF Resolves(graph) THEN graph.state = state ELSE overlapped]_vars

\* activateV3RootMetadata: the root keeps the control folder and the completion it
\* was activated with, whichever device resumes an upgrade of its own later.
ActivationIsFinal == [][root.layout = 3 /\ ~overlapped' => root' = root]_vars

\* upgradeDriveSyncToV3Owned: an upgrade interrupted anywhere is never refused when
\* it is tried again, on this device or on another, unless another device has
\* finished it or somebody else changed the library.
RetryIsSafe ==
    \A d \in Device : refused[d] =>
        \/ overlapped
        \/ changes > 0
        \/ root.layout = 3 /\ root.completion.by # d

================================================================================
