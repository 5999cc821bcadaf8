----------------------------- MODULE PaperPresence -----------------------------
(* The presence control plane of one paper (one documentId) in Google Drive:   *)
(* src/sync/paperPresence.ts, paperPresenceDriveRepository.ts and the          *)
(* publish, restore and remove operations of paperDriveRepository.ts.          *)
(*                                                                             *)
(* Devices write immutable, content-addressed presence generations into one    *)
(* control folder. Nothing locks: an operation reads the graph, compares the   *)
(* heads with the ones it started from, writes its generation and reads again, *)
(* and another device may act between any two of those requests. Each action   *)
(* below is the code between two Drive requests that matter to another device. *)
(*                                                                             *)
(* Abstracted: names, labels, timestamps and hashes (a generation's id is a    *)
(* fresh GenId: the SHA-256 covers createdAt, the writer and the parents); the *)
(* root and control-folder guards, which only ever add refusals; the package   *)
(* itself, of which only "a verified manifest exists in this folder" is kept.  *)
(* A request that fails, a refused guard, a closed tab and a lost answer to a  *)
(* write are all Fail(d), possible before and after every step.                *)

CONSTANTS Device,   \* browsers signed in to the same Drive account
          Folder,   \* Drive ids a folder of this paper can have
          GenId,    \* ids a presence generation can have (bounds their number)
          None

VARIABLES store,     \* presence generations in the control folder, by id
          folders,   \* the physical paper folders
          packaged,  \* folders that hold a published manifest
          op         \* the operation each device is running

vars == <<store, folders, packaged, op>>

--------------------------------------------------------------------------------
(* Generations and their resolution *)

Intents == {"upload", "remove", "restore"}

Generation == [state : {"present", "removed"},
               intent : Intents,
               folder : Folder,
               parents : SUBSET GenId]

ASSUME NoneIsNoValue == None \notin Folder /\ None \notin GenId /\ None \notin Generation

Files(s) == {g \in GenId : s[g] # None}

\* A head is a generation no other generation names as a parent.
Heads(s) == {g \in Files(s) : \A h \in Files(s) : g \notin s[h].parents}

RemovedHeads(s) == {g \in Heads(s) : s[g].state = "removed"}

\* Mutant: a removal wins only where no present head stands beside it.
PresenceOfAgreed(s) ==
    IF Heads(s) # {} /\ \A g \in Heads(s) : s[g].state = "removed" THEN "removed" ELSE "present"

\* Any removed head dominates, whatever present heads stand beside it.
PresenceOf(s) == IF RemovedHeads(s) # {} THEN "removed" ELSE "present"

EffectiveHeads(s) == IF RemovedHeads(s) # {} THEN RemovedHeads(s) ELSE Heads(s)

EffectiveFolders(s) == {s[g].folder : g \in EffectiveHeads(s)}

\* The folder of the paper, when the effective heads agree on one.
FolderOf(s) ==
    IF \E f \in Folder : EffectiveFolders(s) = {f}
    THEN CHOOSE f \in Folder : EffectiveFolders(s) = {f}
    ELSE None

ParentsStored(s) == \A g \in Files(s) : s[g].parents \subseteq Files(s)

\* No ancestry cycle: every set of generations has one whose parents are outside.
Acyclic(s) ==
    \A S \in SUBSET Files(s) :
        S # {} => \E g \in S : s[g].parents \cap S = {}

ValidTransitions(s) ==
    \A g \in Files(s) :
        /\ s[g].intent = "upload" => s[g].parents = {}
        /\ s[g].intent = "remove" =>
               \E p \in s[g].parents : s[p].state = "present"
        /\ s[g].intent = "restore" =>
               \E p \in s[g].parents : s[p].state = "removed"

OneRoot(s) == \E r \in Files(s) : {g \in Files(s) : s[g].parents = {}} = {r}

\* The resolution of a non-empty graph succeeds; otherwise the code throws.
Resolves(s) ==
    /\ ParentsStored(s)
    /\ Acyclic(s)
    /\ ValidTransitions(s)
    /\ Heads(s) # {}
    /\ PresenceOf(s) = "present" => FolderOf(s) # None
    /\ OneRoot(s)

ResolvesTo(s, state) == Files(s) # {} /\ Resolves(s) /\ PresenceOf(s) = state

--------------------------------------------------------------------------------
(* State *)

FolderState == {"unused", "active", "trashed", "purged"}

ActiveFolders == {f \in Folder : folders[f] = "active"}

Steps == {"idle", "folder", "create", "authorize", "manifest", "package",
          "precheck", "write", "verify", "trash", "inspect", "untrash", "reuse"}

\* seen and prior are what the operation read when it began and will compare;
\* folder is the one it works in, gen the generation it is about to write.
Operation == [step : Steps,
              intent : Intents,
              seen : SUBSET GenId,
              prior : Folder \cup {None},
              folder : Folder \cup {None},
              clean : BOOLEAN,
              gen : GenId \cup {None}]

Idle == [step |-> "idle", intent |-> "upload", seen |-> {}, prior |-> None,
         folder |-> None, clean |-> FALSE, gen |-> None]

TypeOK ==
    /\ store \in [GenId -> Generation \cup {None}]
    /\ folders \in [Folder -> FolderState]
    /\ packaged \in SUBSET Folder
    /\ op \in [Device -> Operation]

Init ==
    /\ store = [g \in GenId |-> None]
    /\ folders = [f \in Folder |-> "unused"]
    /\ packaged = {}
    /\ op = [d \in Device |-> Idle]

At(d, step) == op[d].step = step

Finish(d) == op' = [op EXCEPT ![d] = Idle]

--------------------------------------------------------------------------------
(* publishPaper: an ordinary upload or edit, never allowed on a removed paper *)

BeginUpload(d) ==
    /\ At(d, "idle")
    /\ Files(store) = {} \/ ResolvesTo(store, "present")
    /\ op' = [op EXCEPT ![d] =
                [Idle EXCEPT !.step = "folder",
                             !.seen = Heads(store),
                             !.prior = IF Files(store) = {} THEN None
                                       ELSE FolderOf(store)]]
    /\ UNCHANGED <<store, folders, packaged>>

\* An upload of a present paper must use that paper's folder. A first upload and
\* a restore that cannot reuse its folder take the one active folder, if any.
EnsureFolder(d) ==
    /\ At(d, "folder")
    /\ \/ /\ op[d].intent = "upload" /\ op[d].prior # None
          /\ folders[op[d].prior] = "active"
          /\ op' = [op EXCEPT ![d].step = "authorize", ![d].folder = op[d].prior]
       \/ /\ op[d].intent = "restore" \/ op[d].prior = None
          /\ \/ /\ ActiveFolders = {}
                /\ op' = [op EXCEPT ![d].step = "create"]
             \/ \E f \in Folder :
                   /\ ActiveFolders = {f}
                   /\ op' = [op EXCEPT ![d].step = "authorize", ![d].folder = f]
    /\ UNCHANGED <<store, folders, packaged>>

CreateFolder(d) ==
    /\ At(d, "create")
    /\ \E f \in Folder :
        /\ folders[f] = "unused"
        /\ folders' = [folders EXCEPT ![f] = "active"]
        /\ op' = [op EXCEPT ![d].step = "authorize", ![d].folder = f]
    /\ UNCHANGED <<store, packaged>>

\* The commit guard: the presence graph is still the one the operation began with.
Authorized(d) ==
    /\ Files(store) # {} => Resolves(store)
    /\ Heads(store) = op[d].seen
    /\ IF op[d].intent = "restore"
       THEN PresenceOf(store) = "removed" /\ FolderOf(store) = op[d].prior
       ELSE PresenceOf(store) # "removed"

\* Where a package publication goes next: an upload of a present paper is done,
\* a first upload and a restore still have to publish their presence generation.
AfterPackage(d) ==
    IF op[d].intent = "upload" /\ op[d].seen # {} THEN Finish(d)
    ELSE op' = [op EXCEPT ![d].step = "precheck"]

AuthorizeManifest(d) ==
    /\ At(d, "authorize")
    /\ Authorized(d)
    /\ op' = [op EXCEPT ![d].step = "manifest"]
    /\ UNCHANGED <<store, folders, packaged>>

\* Mutant: the content check is trusted to have been made by the caller.
NoOpPackageUnchecked(d) ==
    /\ At(d, "authorize")
    /\ folders[op[d].folder] = "active"
    /\ Authorized(d)
    /\ AfterPackage(d)
    /\ UNCHANGED <<store, folders, packaged>>

\* The package in Drive already has this content. The guard still runs, except for
\* a restore that just verified its prior folder (skipNoOpAuthorization).
NoOpPackage(d) ==
    /\ At(d, "authorize")
    /\ op[d].folder \in packaged
    /\ \/ op[d].intent = "restore" /\ op[d].folder = op[d].prior
       \/ folders[op[d].folder] = "active" /\ Authorized(d)
    /\ AfterPackage(d)
    /\ UNCHANGED <<store, folders, packaged>>

\* The manifest is the last file of a package.
PublishManifest(d) ==
    /\ At(d, "manifest")
    /\ folders[op[d].folder] # "purged"
    /\ packaged' = packaged \cup {op[d].folder}
    /\ op' = [op EXCEPT ![d].step = "package"]
    /\ UNCHANGED <<store, folders>>

\* Then the folder is listed again, which finds nothing if it went to the Trash.
VerifyPackage(d) ==
    /\ At(d, "package")
    /\ folders[op[d].folder] = "active"
    /\ AfterPackage(d)
    /\ UNCHANGED <<store, folders, packaged>>

--------------------------------------------------------------------------------
(* removePaperFromDrive *)

\* Mutant: a removal is published whatever the state of the paper is.
BeginRemoveAgain(d) ==
    /\ At(d, "idle")
    /\ Files(store) # {} /\ Resolves(store) /\ FolderOf(store) # None
    /\ op' = [op EXCEPT ![d] = [Idle EXCEPT !.intent = "remove", !.step = "precheck",
                                            !.folder = FolderOf(store), !.seen = Heads(store)]]
    /\ UNCHANGED <<store, folders, packaged>>

\* A paper already removed only has its folder cleaned up. A present one whose
\* folder was found in the Trash is refused; a folder that is gone is accepted.
BeginRemove(d) ==
    /\ At(d, "idle")
    /\ Files(store) # {} /\ Resolves(store) /\ FolderOf(store) # None
    /\ LET target == FolderOf(store)
           removal == [Idle EXCEPT !.intent = "remove", !.folder = target,
                                   !.seen = Heads(store), !.clean = folders[target] = "active"]
       IN  \/ /\ PresenceOf(store) = "removed" /\ folders[target] = "active"
              /\ op' = [op EXCEPT ![d] = [removal EXCEPT !.step = "trash"]]
           \/ /\ PresenceOf(store) = "present" /\ folders[target] # "trashed"
              /\ op' = [op EXCEPT ![d] = [removal EXCEPT !.step = "precheck"]]
    /\ UNCHANGED <<store, folders, packaged>>

TrashFolder(d) ==
    /\ At(d, "trash")
    /\ folders' = [folders EXCEPT ![op[d].folder] = IF @ = "active" THEN "trashed" ELSE @]
    /\ Finish(d)
    /\ UNCHANGED <<store, packaged>>

--------------------------------------------------------------------------------
(* restorePaper *)

BeginRestore(d) ==
    /\ At(d, "idle")
    /\ ResolvesTo(store, "removed")
    /\ FolderOf(store) # None
    /\ op' = [op EXCEPT ![d] = [Idle EXCEPT !.step = "inspect", !.intent = "restore",
                                            !.seen = Heads(store), !.prior = FolderOf(store)]]
    /\ UNCHANGED <<store, folders, packaged>>

InspectPriorFolder(d) ==
    /\ At(d, "inspect")
    /\ ActiveFolders \subseteq {op[d].prior}
    /\ op' = [op EXCEPT ![d].step = CASE folders[op[d].prior] = "trashed" -> "untrash"
                                      [] folders[op[d].prior] = "active" -> "reuse"
                                      [] OTHER -> "folder"]
    /\ UNCHANGED <<store, folders, packaged>>

Untrash(d) ==
    /\ At(d, "untrash")
    /\ IF folders[op[d].prior] = "purged"
       THEN op' = [op EXCEPT ![d].step = "folder"] /\ UNCHANGED folders
       ELSE /\ folders' = [folders EXCEPT ![op[d].prior] = "active"]
            /\ op' = [op EXCEPT ![d].step = "reuse"]
    /\ UNCHANGED <<store, packaged>>

ReuseFolder(d) ==
    /\ At(d, "reuse")
    /\ folders[op[d].prior] = "active"
    /\ op[d].prior \in packaged
    /\ op' = [op EXCEPT ![d].step = "authorize", ![d].folder = op[d].prior]
    /\ UNCHANGED <<store, folders, packaged>>

\* The package in the old folder does not verify: back to the Trash with it, then
\* rebuild in another folder, or stop if the local PDF contradicts it.
RejectFolder(d) ==
    /\ At(d, "reuse")
    /\ folders[op[d].prior] # "purged"
    /\ folders' = [folders EXCEPT ![op[d].prior] = "trashed"]
    /\ (Finish(d) \/ op' = [op EXCEPT ![d].step = "folder"])
    /\ UNCHANGED <<store, packaged>>

\* A rebuild that fails puts its folder in the Trash, unless it is the old one.
AbandonRebuild(d) ==
    /\ op[d].step \in {"authorize", "manifest", "package"}
    /\ op[d].intent = "restore" /\ op[d].folder # op[d].prior
    /\ folders[op[d].folder] = "active"
    /\ folders' = [folders EXCEPT ![op[d].folder] = "trashed"]
    /\ Finish(d)
    /\ UNCHANGED <<store, packaged>>

--------------------------------------------------------------------------------
(* publishGeneration: compare the heads, write, read again *)

FreshIds == {g \in GenId : store[g] = None /\ \A d \in Device : op[d].gen # g}

Precheck(d) ==
    /\ At(d, "precheck")
    /\ Files(store) # {} => Resolves(store)
    /\ Heads(store) = op[d].seen
    /\ op[d].intent = "restore" =>
           PresenceOf(store) = "removed" /\ FolderOf(store) = op[d].prior
    /\ \E g \in FreshIds : op' = [op EXCEPT ![d].step = "write", ![d].gen = g]
    /\ UNCHANGED <<store, folders, packaged>>

\* Mutant: the generation names the folder the operation started from.
NewGenerationPrior(o) ==
    [state |-> IF o.intent = "remove" THEN "removed" ELSE "present",
     intent |-> o.intent, folder |-> o.prior, parents |-> o.seen]

NewGeneration(o) ==
    [state |-> IF o.intent = "remove" THEN "removed" ELSE "present",
     intent |-> o.intent, folder |-> o.folder, parents |-> o.seen]

WriteGeneration(d) ==
    /\ At(d, "write")
    /\ store' = [store EXCEPT ![op[d].gen] = NewGeneration(op[d])]
    /\ op' = [op EXCEPT ![d].step = "verify"]
    /\ UNCHANGED <<folders, packaged>>

\* The generation must be a head and the paper in the state it asked for.
VerifyGeneration(d) ==
    /\ At(d, "verify")
    /\ ResolvesTo(store, NewGeneration(op[d]).state)
    /\ op[d].gen \in Heads(store)
    /\ IF op[d].intent = "remove" /\ op[d].clean
       THEN op' = [op EXCEPT ![d].step = "trash"]
       ELSE Finish(d)
    /\ UNCHANGED <<store, folders, packaged>>

--------------------------------------------------------------------------------

Fail(d) ==
    /\ ~At(d, "idle")
    /\ Finish(d)
    /\ UNCHANGED <<store, folders, packaged>>

\* Google Drive empties its Trash by itself.
PurgeTrash(f) ==
    /\ folders[f] = "trashed"
    /\ folders' = [folders EXCEPT ![f] = "purged"]
    /\ UNCHANGED <<store, packaged, op>>

Step(d) ==
    \/ BeginUpload(d) \/ EnsureFolder(d) \/ CreateFolder(d)
    \/ AuthorizeManifest(d) \/ NoOpPackage(d)
    \/ PublishManifest(d) \/ VerifyPackage(d)
    \/ BeginRemove(d) \/ TrashFolder(d)
    \/ BeginRestore(d) \/ InspectPriorFolder(d) \/ Untrash(d)
    \/ ReuseFolder(d) \/ RejectFolder(d) \/ AbandonRebuild(d)
    \/ Precheck(d) \/ WriteGeneration(d) \/ VerifyGeneration(d)

Next ==
    \/ \E d \in Device : Step(d) \/ Fail(d)
    \/ \E f \in Folder : PurgeTrash(f)

Spec == Init /\ [][Next]_vars

--------------------------------------------------------------------------------
(* Properties *)

\* However operations interleave and fail, the only way a presence graph stops
\* resolving is a fork: two first uploads, or two folders claimed as present.
\* Everything else resolvePaperPresence refuses (missing parents, cycles, removals
\* and restores that acknowledge nothing) never reaches Drive.
OnlyForksBreakResolution ==
    Files(store) # {} =>
        /\ ParentsStored(store) /\ Acyclic(store) /\ ValidTransitions(store)
        /\ Heads(store) # {}

\* "present" is published last: a present generation names a folder that already
\* holds a package, whichever upload or restore wrote it and wherever others died.
PresentHasPackage ==
    \A g \in Files(store) : store[g].state = "present" => store[g].folder \in packaged

\* An edit, an upload or another removal never stands on top of a removal: only a
\* restore names a removed generation as a parent.
OnlyRestoreAnswersRemoval ==
    \A g, r \in Files(store) :
        (store[r].state = "removed" /\ r \in store[g].parents)
            => store[g].intent = "restore"

\* A paper is present only when every removal ever published, by any device, was
\* acknowledged by name in some restore.
PresentMeansAllAcknowledged ==
    (Files(store) # {} /\ PresenceOf(store) = "present") =>
        \A r \in Files(store) : store[r].state = "removed" =>
            \E g \in Files(store) : store[g].intent = "restore" /\ r \in store[g].parents

Authority == INSTANCE PresenceAuthority WITH
    Token <- GenId,
    status <- IF Files(store) = {} THEN "absent" ELSE PresenceOf(store),
    open <- RemovedHeads(store),
    settled <- {g \in Files(store) \ Heads(store) : store[g].state = "removed"}

\* The control plane keeps the promise of PresenceAuthority: seen from outside, a
\* write to the control folder is one publication, one removal, one restore of
\* removals still open, or nothing.
ImplementsAuthority == Authority!Spec

================================================================================
