------------------------- MODULE PaperPresence_proofs --------------------------
(* Proofs about PaperPresence, for any number of devices, folders and          *)
(* generations. The inductive invariant says what each running operation still *)
(* knows about the store: what it read is still there, its new id is its own,  *)
(* and a removal or a restore acknowledges what it must.                       *)
EXTENDS PaperPresence, TLAPS

--------------------------------------------------------------------------------
(* The inductive invariant *)

\* The part of OnlyForksBreakResolution that a write extends.
GoodAncestry(s) ==
    /\ ParentsStored(s)
    /\ Acyclic(s)
    /\ ValidTransitions(s)
    /\ Files(s) # {} => Heads(s) # {}

\* An id is reserved by at most one operation and unwritten until that one writes it.
ReservedIds ==
    /\ \A d \in Device : At(d, "write") => op[d].gen # None /\ store[op[d].gen] = None
    /\ \A d, e \in Device : (d # e /\ op[d].gen # None) => op[d].gen # op[e].gen

\* What an operation o carries from its first read to its write, when the store is s
\* and the folders with a manifest are p.
Evidence(o, s, p) ==
    /\ o.seen \subseteq Files(s)
    /\ o.step \in {"authorize", "manifest", "package", "precheck", "write"} => o.folder # None
    /\ o.intent = "remove" =>
           /\ o.step \in {"precheck", "write", "verify", "trash"}
           /\ o.step \in {"precheck", "write"} =>
                  /\ o.seen # {}
                  /\ \A q \in o.seen : s[q].state = "present"
    /\ o.intent = "restore" => \E q \in o.seen : s[q].state = "removed"
    /\ o.intent # "remove" /\ o.step \in {"package", "precheck", "write"} => o.folder \in p
    /\ o.intent = "upload" /\ o.step \in {"precheck", "write"} => o.seen = {}

IInv ==
    /\ TypeOK
    /\ GoodAncestry(store)
    /\ PresentHasPackage
    /\ OnlyRestoreAnswersRemoval
    /\ ReservedIds
    /\ \A d \in Device : Evidence(op[d], store, packaged)

--------------------------------------------------------------------------------
(* Adding one generation to a store *)

\* What assertPaperPresenceGeneration and assertValidPresenceTransitions ask of a
\* generation r that is added to s.
MayFollow(r, s) ==
    /\ r.parents \subseteq Files(s)
    /\ r.intent = "upload" => r.parents = {}
    /\ r.intent = "remove" => \E p \in r.parents : s[p].state = "present"
    /\ r.intent = "restore" => \E p \in r.parents : s[p].state = "removed"

\* A generation whose id is fresh and whose parents are stored becomes a head and
\* keeps the ancestry well formed.
LEMMA AddGeneration ==
    ASSUME NEW s \in [GenId -> Generation \cup {None}], GoodAncestry(s),
           NEW g \in GenId, s[g] = None,
           NEW r \in Generation, MayFollow(r, s),
           NEW t, t = [s EXCEPT ![g] = r]
    PROVE  GoodAncestry(t)
<1>1. t[g] = r /\ r # None /\ \A h \in GenId : h # g => t[h] = s[h]
  BY NoneIsNoValue
<1>0. r.parents \subseteq Files(s)
  BY DEF MayFollow
<1>2. Files(t) = Files(s) \cup {g} /\ g \notin Files(s)
  BY <1>1 DEF Files
<1>3. \A h \in Files(s) : t[h] = s[h] /\ s[h] \in Generation /\ s[h].parents \subseteq Files(s)
  BY <1>1, <1>2 DEF Files, GoodAncestry, ParentsStored
<1>4. g \in Heads(t)
  BY <1>0, <1>1, <1>2, <1>3 DEF Heads
<1>5. ParentsStored(t)
  BY <1>0, <1>1, <1>2, <1>3 DEF ParentsStored
<1>6. Acyclic(t)
  <2> SUFFICES ASSUME NEW S \in SUBSET Files(t), S # {}
               PROVE  \E h \in S : t[h].parents \cap S = {}
    BY DEF Acyclic
  <2>1. CASE S = {g}
    BY <2>1, <1>0, <1>1, <1>2
  <2>2. CASE S # {g}
    <3>1. S \ {g} # {} /\ S \ {g} \in SUBSET Files(s)
      BY <2>2, <1>2
    <3>2. PICK h \in S \ {g} : s[h].parents \cap (S \ {g}) = {}
      BY <3>1 DEF GoodAncestry, Acyclic
    <3>3. g \notin s[h].parents /\ t[h] = s[h]
      BY <3>1, <3>2, <1>2, <1>3
    <3> QED
      BY <3>2, <3>3
  <2> QED
    BY <2>1, <2>2
<1>7. ValidTransitions(t)
  <2> SUFFICES ASSUME NEW h \in Files(t)
               PROVE  /\ t[h].intent = "upload" => t[h].parents = {}
                      /\ t[h].intent = "remove" => \E p \in t[h].parents : t[p].state = "present"
                      /\ t[h].intent = "restore" => \E p \in t[h].parents : t[p].state = "removed"
    BY DEF ValidTransitions
  <2>1. CASE h = g
    BY <2>1, <1>0, <1>1, <1>3 DEF MayFollow
  <2>2. CASE h \in Files(s)
    BY <2>2, <1>3 DEF GoodAncestry, ValidTransitions
  <2> QED
    BY <2>1, <2>2, <1>2
<1> QED
  BY <1>4, <1>5, <1>6, <1>7 DEF GoodAncestry

--------------------------------------------------------------------------------
(* Steps that do not write a generation *)

\* Whatever one device does without writing a generation, the invariant only has to
\* be shown of that device's own operation.
LEMMA OneOperation ==
    ASSUME IInv, NEW d \in Device,
           NEW o \in Operation, op' = [op EXCEPT ![d] = o],
           store' = store,
           packaged \subseteq packaged', packaged' \in SUBSET Folder,
           folders' \in [Folder -> FolderState],
           o.step = "write" => o.gen # None /\ store[o.gen] = None,
           o.gen # None => \A e \in Device \ {d} : op[e].gen # o.gen,
           Evidence(o, store, packaged')
    PROVE  IInv'
<1>1. TypeOK'
  BY DEF IInv, TypeOK
<1>2. GoodAncestry(store)'
  BY DEF IInv, GoodAncestry, ParentsStored, Acyclic, ValidTransitions, Files, Heads
<1>3. PresentHasPackage' /\ OnlyRestoreAnswersRemoval'
  BY DEF IInv, PresentHasPackage, OnlyRestoreAnswersRemoval, Files
<1>4. op'[d] = o /\ \A e \in Device \ {d} : op'[e] = op[e]
  BY DEF IInv, TypeOK
<1>5. ReservedIds'
  BY <1>4 DEF IInv, ReservedIds, At
<1>6. ASSUME NEW e \in Device PROVE Evidence(op'[e], store', packaged')
  <2>1. CASE e = d
    BY <2>1, <1>4
  <2>2. CASE e # d
    BY <2>2, <1>4 DEF IInv, Evidence
  <2> QED
    BY <2>1, <2>2
<1> QED
  BY <1>1, <1>2, <1>3, <1>5, <1>6 DEF IInv

\* The steps of an operation other than its write.
LEMMA OtherStep ==
    ASSUME IInv, NEW d \in Device, (Step(d) /\ ~WriteGeneration(d)) \/ Fail(d)
    PROVE  IInv'
<1> USE DEF At, Finish
<1>1. /\ op[d] \in Operation /\ Evidence(op[d], store, packaged)
      /\ op' = [op EXCEPT ![d] = op'[d]]
      /\ folders \in [Folder -> FolderState] /\ packaged \in SUBSET Folder
      /\ op[d].gen # None => \A e \in Device \ {d} : op[e].gen # op[d].gen
  <2>1. op[d] \in Operation /\ op \in [Device -> Operation]
    BY DEF IInv, TypeOK
  <2>2. op' = [op EXCEPT ![d] = op'[d]]
    BY <2>1 DEF Step, Fail, BeginUpload, EnsureFolder, CreateFolder, AuthorizeManifest,
       NoOpPackage, PublishManifest, VerifyPackage, BeginRemove, TrashFolder, BeginRestore,
       InspectPriorFolder, Untrash, ReuseFolder, RejectFolder, AbandonRebuild,
       Precheck, WriteGeneration, VerifyGeneration, AfterPackage
  <2> QED
    BY <2>1, <2>2 DEF IInv, TypeOK, ReservedIds
<1>2. Idle \in Operation /\ Evidence(Idle, store, packaged) /\ Idle.gen = None /\ Idle.step = "idle"
  BY DEF Idle, Operation, Steps, Intents, Evidence
<1>3. FolderOf(store) \in Folder \cup {None}
  BY DEF FolderOf
<1>4. \A h \in Heads(store) : h \in Files(store) /\ store[h] \in Generation
  BY DEF IInv, TypeOK, Heads, Files
<1>5. ASSUME op'[d] = Idle, UNCHANGED <<store, packaged>>,
             folders' \in [Folder -> FolderState]
      PROVE  IInv'
  BY <1>1, <1>2, <1>5, OneOperation
<1>6. CASE BeginUpload(d)
  <2>1. /\ op'[d] \in Operation /\ Evidence(op'[d], store, packaged')
        /\ op'[d].gen = None /\ op'[d].step = "folder"
    BY <1>1, <1>3, <1>4, <1>6
       DEF BeginUpload, Idle, Operation, Steps, Intents, Evidence, IInv, TypeOK, Heads, Files
  <2> QED
    BY <2>1, <1>1, <1>6, OneOperation DEF BeginUpload
<1>7. CASE EnsureFolder(d)
  <2>1. /\ op'[d] \in Operation /\ Evidence(op'[d], store, packaged')
        /\ op'[d].gen = op[d].gen /\ op'[d].step # "write"
    BY <1>1, <1>7, NoneIsNoValue DEF EnsureFolder, Operation, Steps, Evidence, IInv, TypeOK
  <2> QED
    BY <2>1, <1>1, <1>7, OneOperation DEF EnsureFolder
<1>8. CASE CreateFolder(d)
  <2>1. /\ op'[d] \in Operation /\ Evidence(op'[d], store, packaged')
        /\ op'[d].gen = op[d].gen /\ op'[d].step # "write"
    BY <1>1, <1>8, NoneIsNoValue DEF CreateFolder, Operation, Steps, Evidence, IInv, TypeOK
  <2>2. folders' \in [Folder -> FolderState]
    BY <1>1, <1>8 DEF CreateFolder, FolderState
  <2> QED
    <3>1. store' = store /\ packaged' = packaged
      BY <1>8 DEF CreateFolder
    <3> QED
      BY <2>1, <2>2, <3>1, <1>1, OneOperation
<1>9. CASE AuthorizeManifest(d)
  <2>1. /\ op'[d] \in Operation /\ Evidence(op'[d], store, packaged')
        /\ op'[d].gen = op[d].gen /\ op'[d].step # "write"
    BY <1>1, <1>9 DEF AuthorizeManifest, Operation, Steps, Evidence, IInv, TypeOK
  <2> QED
    BY <2>1, <1>1, <1>9, OneOperation DEF AuthorizeManifest
<1>10. CASE NoOpPackage(d)
  <2>1. CASE op[d].intent = "upload" /\ op[d].seen # {}
    BY <1>1, <1>5, <1>10, <2>1 DEF NoOpPackage, AfterPackage, IInv, TypeOK
  <2>2. CASE ~(op[d].intent = "upload" /\ op[d].seen # {})
    <3>1. /\ op'[d] \in Operation /\ Evidence(op'[d], store, packaged')
          /\ op'[d].gen = op[d].gen /\ op'[d].step # "write"
      BY <1>1, <1>10, <2>2
         DEF NoOpPackage, AfterPackage, Operation, Steps, Evidence, IInv, TypeOK
    <3> QED
      BY <3>1, <1>1, <1>10, OneOperation DEF NoOpPackage
  <2> QED
    BY <2>1, <2>2
<1>11. CASE PublishManifest(d)
  <2>1. packaged \subseteq packaged' /\ packaged' \in SUBSET Folder
    BY <1>1, <1>11 DEF PublishManifest, Operation, Evidence
  <2>2. /\ op'[d] \in Operation /\ Evidence(op'[d], store, packaged')
        /\ op'[d].gen = op[d].gen /\ op'[d].step # "write"
    BY <1>1, <1>11 DEF PublishManifest, Operation, Steps, Evidence, IInv, TypeOK
  <2> QED
    BY <2>1, <2>2, <1>1, <1>11, OneOperation DEF PublishManifest
<1>23. CASE VerifyPackage(d)
  <2>1. CASE op[d].intent = "upload" /\ op[d].seen # {}
    BY <1>1, <1>5, <1>23, <2>1 DEF VerifyPackage, AfterPackage, IInv, TypeOK
  <2>2. CASE ~(op[d].intent = "upload" /\ op[d].seen # {})
    <3>1. /\ op'[d] \in Operation /\ Evidence(op'[d], store, packaged')
          /\ op'[d].gen = op[d].gen /\ op'[d].step # "write"
      BY <1>1, <1>23, <2>2
         DEF VerifyPackage, AfterPackage, Operation, Steps, Evidence, IInv, TypeOK
    <3> QED
      BY <3>1, <1>1, <1>23, OneOperation DEF VerifyPackage
  <2> QED
    BY <2>1, <2>2
<1>12. CASE BeginRemove(d)
  <2>1. /\ op'[d] \in Operation /\ Evidence(op'[d], store, packaged')
        /\ op'[d].gen = None /\ op'[d].step # "write"
    <3> DEFINE removal == [Idle EXCEPT !.intent = "remove", !.folder = FolderOf(store),
                                  !.seen = Heads(store), !.clean = folders[FolderOf(store)] = "active"]
    <3>1. /\ removal \in Operation /\ removal.intent = "remove" /\ removal.gen = None
          /\ removal.seen = Heads(store) /\ removal.folder = FolderOf(store)
      BY <1>3, <1>4 DEF Idle, Operation, Steps, Intents, Heads, Files
    <3>2. Heads(store) # {} /\ (PresenceOf(store) = "present" =>
                                  \A q \in Heads(store) : store[q].state = "present")
      BY <1>4, <1>12 DEF BeginRemove, Resolves, PresenceOf, RemovedHeads, Generation
    <3> HIDE DEF removal
    <3>3. CASE op'[d] = [removal EXCEPT !.step = "trash"]
      BY <3>1, <3>3, <1>4 DEF Operation, Steps, Evidence
    <3>4. CASE op'[d] = [removal EXCEPT !.step = "precheck"] /\ PresenceOf(store) = "present"
      BY <3>1, <3>2, <3>4, <1>4, <1>12 DEF BeginRemove, Operation, Steps, Evidence
    <3> QED
      BY <3>3, <3>4, <1>12 DEF removal, BeginRemove, IInv, TypeOK
  <2> QED
    BY <2>1, <1>1, <1>12, OneOperation DEF BeginRemove
<1>13. CASE TrashFolder(d)
  BY <1>1, <1>5, <1>13 DEF TrashFolder, FolderState, IInv, TypeOK
<1>14. CASE BeginRestore(d)
  <2>1. \E q \in Heads(store) : store[q].state = "removed"
    BY <1>14 DEF BeginRestore, ResolvesTo, PresenceOf, RemovedHeads
  <2>2. /\ op'[d] \in Operation /\ Evidence(op'[d], store, packaged')
        /\ op'[d].gen = None /\ op'[d].step = "inspect"
    BY <2>1, <1>1, <1>3, <1>4, <1>14
       DEF BeginRestore, Idle, Operation, Steps, Intents, Evidence, IInv, TypeOK, Heads, Files
  <2> QED
    BY <2>2, <1>1, <1>14, OneOperation DEF BeginRestore
<1>15. CASE InspectPriorFolder(d)
  <2>1. /\ op'[d] \in Operation /\ Evidence(op'[d], store, packaged')
        /\ op'[d].gen = op[d].gen /\ op'[d].step # "write"
    BY <1>1, <1>15 DEF InspectPriorFolder, Operation, Steps, Evidence, IInv, TypeOK
  <2> QED
    BY <2>1, <1>1, <1>15, OneOperation DEF InspectPriorFolder
<1>16. CASE Untrash(d)
  <2>1. /\ op'[d] \in Operation /\ Evidence(op'[d], store, packaged')
        /\ op'[d].gen = op[d].gen /\ op'[d].step # "write"
    BY <1>1, <1>16 DEF Untrash, Operation, Steps, Evidence, IInv, TypeOK
  <2>2. folders' \in [Folder -> FolderState]
    BY <1>1, <1>16 DEF Untrash, FolderState
  <2> QED
    BY <2>1, <2>2, <1>1, <1>16, OneOperation DEF Untrash
<1>17. CASE ReuseFolder(d)
  <2>1. /\ op'[d] \in Operation /\ Evidence(op'[d], store, packaged')
        /\ op'[d].gen = op[d].gen /\ op'[d].step # "write"
    BY <1>1, <1>17, NoneIsNoValue DEF ReuseFolder, Operation, Steps, Evidence, IInv, TypeOK
  <2> QED
    <3>1. store' = store /\ packaged' = packaged /\ folders' = folders
      BY <1>17 DEF ReuseFolder
    <3> QED
      BY <2>1, <3>1, <1>1, OneOperation
<1>18. CASE RejectFolder(d)
  <2>1. folders' \in [Folder -> FolderState]
    BY <1>1, <1>18 DEF RejectFolder, FolderState
  <2>2. CASE op'[d] = Idle
    BY <2>1, <2>2, <1>5, <1>18 DEF RejectFolder
  <2>3. CASE op'[d] = [op[d] EXCEPT !.step = "folder"]
    <3>1. /\ op'[d] \in Operation /\ Evidence(op'[d], store, packaged')
          /\ op'[d].gen = op[d].gen /\ op'[d].step # "write"
      BY <1>1, <1>18, <2>3 DEF RejectFolder, Operation, Steps, Evidence
    <3> QED
      BY <2>1, <3>1, <1>1, <1>18, OneOperation DEF RejectFolder
  <2> QED
    BY <2>2, <2>3, <1>18 DEF RejectFolder, IInv, TypeOK
<1>19. CASE AbandonRebuild(d)
  BY <1>1, <1>5, <1>19 DEF AbandonRebuild, FolderState, IInv, TypeOK
<1>20. CASE Precheck(d)
  <2>1. PICK g \in FreshIds : op' = [op EXCEPT ![d].step = "write", ![d].gen = g]
    BY <1>20 DEF Precheck
  <2>2. op'[d] = [op[d] EXCEPT !.step = "write", !.gen = g]
    BY <2>1 DEF IInv, TypeOK
  <2>3. /\ g \in GenId /\ g # None /\ store[g] = None
        /\ \A e \in Device : op[e].gen # g
    BY NoneIsNoValue DEF FreshIds
  <2>4. /\ op'[d] \in Operation /\ Evidence(op'[d], store, packaged')
        /\ op'[d].gen = g
    BY <2>2, <2>3, <1>1, <1>20 DEF Precheck, Operation, Steps, Evidence
  <2> QED
    BY <2>3, <2>4, <1>1, <1>20, OneOperation DEF Precheck
<1>21. CASE VerifyGeneration(d)
  <2>1. CASE op'[d] = Idle
    BY <2>1, <1>1, <1>5, <1>21 DEF VerifyGeneration
  <2>2. CASE op'[d] # Idle
    <3>1. op'[d] = [op[d] EXCEPT !.step = "trash"] /\ op[d].intent = "remove"
      BY <2>2, <1>1, <1>21 DEF VerifyGeneration, IInv, TypeOK
    <3>2. /\ op'[d] \in Operation /\ Evidence(op'[d], store, packaged')
          /\ op'[d].gen = op[d].gen /\ op'[d].step # "write"
      BY <3>1, <1>1, <1>21 DEF VerifyGeneration, Operation, Steps, Evidence
    <3> QED
      BY <3>2, <1>1, <1>21, OneOperation DEF VerifyGeneration
  <2> QED
    BY <2>1, <2>2
<1>22. CASE Fail(d)
  BY <1>1, <1>5, <1>22 DEF Fail, IInv, TypeOK
<1> QED
  BY <1>6, <1>7, <1>8, <1>9, <1>10, <1>11, <1>12, <1>13, <1>14, <1>15, <1>16, <1>17,
     <1>18, <1>19, <1>20, <1>21, <1>22, <1>23 DEF Step

--------------------------------------------------------------------------------
(* The write *)

\* What WriteGeneration writes is a well-formed extension of the store, whatever was
\* written since the operation compared the heads.
LEMMA Written ==
    ASSUME IInv, NEW d \in Device, WriteGeneration(d)
    PROVE  /\ op[d].gen \in GenId /\ op[d].gen \notin Files(store)
           /\ NewGeneration(op[d]) \in Generation
           /\ store' = [store EXCEPT ![op[d].gen] = NewGeneration(op[d])]
           /\ op[d].seen \subseteq Files(store)
           /\ Files(store') = Files(store) \cup {op[d].gen}
           /\ Heads(store') = (Heads(store) \ op[d].seen) \cup {op[d].gen}
           /\ GoodAncestry(store')
           /\ store'[op[d].gen].parents = op[d].seen
           /\ store'[op[d].gen].intent = op[d].intent
           /\ store'[op[d].gen].folder = op[d].folder
           /\ store'[op[d].gen].state = IF op[d].intent = "remove" THEN "removed" ELSE "present"
           /\ \A h \in Files(store) : store'[h] = store[h] /\ h # op[d].gen
<1> DEFINE r == NewGeneration(op[d])
<1>1. op[d] \in Operation /\ Evidence(op[d], store, packaged) /\ store \in [GenId -> Generation \cup {None}]
  BY DEF IInv, TypeOK
<1>2. op[d].gen \in GenId /\ store[op[d].gen] = None
  BY <1>1 DEF IInv, ReservedIds, WriteGeneration, Operation
<1>3. r \in Generation /\ r.parents = op[d].seen /\ r.intent = op[d].intent
  BY <1>1 DEF NewGeneration, Generation, Operation, Evidence, WriteGeneration, At, Intents
<1>4. MayFollow(r, store)
  <2> HIDE DEF r
  <2>1. op[d].step = "write"
    BY DEF WriteGeneration, At
  <2> QED
    BY <2>1, <1>1, <1>3 DEF Evidence, MayFollow
<1>5. GoodAncestry(store) /\ op[d].seen \subseteq Files(store)
  BY <1>1 DEF IInv, Evidence
<1>6. store' = [store EXCEPT ![op[d].gen] = r]
  BY DEF WriteGeneration
<1> HIDE DEF r
<1>7. GoodAncestry(store')
  BY <1>1, <1>2, <1>3, <1>4, <1>5, <1>6, AddGeneration
<1>8. op[d].gen \notin Files(store) /\ Files(store') = Files(store) \cup {op[d].gen}
  BY <1>1, <1>2, <1>3, <1>6, NoneIsNoValue DEF Files
<1>9. store'[op[d].gen] = r /\ \A h \in Files(store) : store'[h] = store[h] /\ h # op[d].gen
  BY <1>1, <1>2, <1>6, <1>8 DEF Files
<1>10. \A h \in Files(store) : store[h].parents \subseteq Files(store)
  BY <1>5 DEF GoodAncestry, ParentsStored
<1>11. Heads(store') = (Heads(store) \ op[d].seen) \cup {op[d].gen}
  BY <1>3, <1>5, <1>8, <1>9, <1>10 DEF Heads
<1> QED
  <2>1. /\ r.parents = op[d].seen /\ r.intent = op[d].intent /\ r.folder = op[d].folder
        /\ r.state = IF op[d].intent = "remove" THEN "removed" ELSE "present"
        /\ r = NewGeneration(op[d])
    BY DEF r, NewGeneration
  <2> QED
    BY <2>1, <1>2, <1>3, <1>5, <1>6, <1>7, <1>8, <1>9, <1>11

LEMMA WriteStep ==
    ASSUME IInv, NEW d \in Device, WriteGeneration(d)
    PROVE  IInv'
<1> DEFINE g == op[d].gen
<1>1. op[d] \in Operation /\ Evidence(op[d], store, packaged) /\ op[d].step = "write"
  BY DEF IInv, TypeOK, WriteGeneration, At
<1>2. op' = [op EXCEPT ![d] = [op[d] EXCEPT !.step = "verify"]] /\ UNCHANGED <<folders, packaged>>
  BY DEF WriteGeneration, IInv, TypeOK
<1>3. /\ op'[d] = [op[d] EXCEPT !.step = "verify"] /\ op'[d] \in Operation
      /\ \A e \in Device \ {d} : op'[e] = op[e]
  BY <1>1, <1>2 DEF IInv, TypeOK, Operation, Steps
<1>4. TypeOK'
  <2>1. store' \in [GenId -> Generation \cup {None}]
    BY Written DEF IInv, TypeOK
  <2> QED
    BY <2>1, <1>1, <1>2, <1>3 DEF IInv, TypeOK
<1>5. GoodAncestry(store)'
  BY Written
<1>6. PresentHasPackage'
  <2> SUFFICES ASSUME NEW h \in Files(store'), store'[h].state = "present"
               PROVE  store'[h].folder \in packaged
    BY <1>2 DEF PresentHasPackage
  <2>1. CASE h = g
    <3>1. /\ store'[h].state = IF op[d].intent = "remove" THEN "removed" ELSE "present"
          /\ store'[h].folder = op[d].folder
      BY <2>1, Written
    <3> QED
      BY <3>1, <1>1 DEF Evidence
  <2>2. CASE h \in Files(store)
    BY <2>2, Written DEF IInv, PresentHasPackage
  <2> QED
    BY <2>1, <2>2, Written
<1>7. OnlyRestoreAnswersRemoval'
  <2> SUFFICES ASSUME NEW h \in Files(store'), NEW q \in Files(store'),
                      store'[q].state = "removed", q \in store'[h].parents
               PROVE  store'[h].intent = "restore"
    BY DEF OnlyRestoreAnswersRemoval
  <2>1. CASE h = g
    <3>1. store'[h].parents = op[d].seen /\ store'[h].intent = op[d].intent
      BY <2>1, Written
    <3>2. q \in Files(store) /\ store[q].state = "removed"
      BY <3>1, Written
    <3> QED
      BY <3>1, <3>2, <1>1 DEF Evidence, Operation, Intents
  <2>2. CASE h \in Files(store)
    <3>1. q \in Files(store)
      BY <2>2, Written DEF IInv, GoodAncestry, ParentsStored
    <3> QED
      BY <2>2, <3>1, Written DEF IInv, OnlyRestoreAnswersRemoval
  <2> QED
    BY <2>1, <2>2, Written
<1>8. ReservedIds'
  <2>1. op'[d].gen = op[d].gen /\ op'[d].step # "write"
    BY <1>1, <1>3 DEF Operation
  <2>2. \A e \in Device \ {d} : op[e].gen # None => op[e].gen # g /\ op[e].gen \in GenId
    BY DEF IInv, ReservedIds, TypeOK, Operation
  <2>3. \A x \in GenId : x # g => store'[x] = store[x]
    BY Written DEF IInv, TypeOK
  <2>4. \A e \in Device : op'[e].gen = op[e].gen
    BY <2>1, <1>3
  <2>5. ASSUME NEW e \in Device, op'[e].step = "write"
        PROVE  op'[e].gen # None /\ store'[op'[e].gen] = None
    <3>1. e # d /\ op'[e] = op[e]
      BY <2>1, <2>5, <1>3
    <3>2. op[e].gen # None /\ store[op[e].gen] = None
      BY <3>1, <2>5 DEF IInv, ReservedIds, At
    <3> QED
      BY <3>1, <3>2, <2>2, <2>3
  <2>6. \A e, f \in Device : (e # f /\ op'[e].gen # None) => op'[e].gen # op'[f].gen
    BY <2>4 DEF IInv, ReservedIds
  <2> QED
    BY <2>5, <2>6 DEF ReservedIds, At
<1>9. ASSUME NEW e \in Device PROVE Evidence(op'[e], store', packaged')
  <2>1. CASE e = d
    BY <2>1, <1>1, <1>2, <1>3, Written DEF Evidence, Operation
  <2>2. CASE e # d
    <3>1. op'[e] = op[e] /\ Evidence(op[e], store, packaged) /\ packaged' = packaged
      BY <2>2, <1>2, <1>3 DEF IInv
    <3>2. \A h \in op[e].seen : h \in Files(store) /\ store'[h] = store[h] /\ h \in Files(store')
      BY <3>1, Written DEF Evidence
    <3> QED
      BY <3>1, <3>2 DEF Evidence
  <2> QED
    BY <2>1, <2>2
<1> QED
  BY <1>4, <1>5, <1>6, <1>7, <1>8, <1>9 DEF IInv

--------------------------------------------------------------------------------
(* Theorems *)

LEMMA InitIInv == Init => IInv
<1> SUFFICES ASSUME Init PROVE IInv
  OBVIOUS
<1>1. Idle \in Operation
  BY DEF Idle, Operation, Steps, Intents
<1>2. Files(store) = {}
  BY DEF Init, Files
<1>3. TypeOK
  BY <1>1 DEF Init, TypeOK, FolderState
<1>4. GoodAncestry(store)
  BY <1>2 DEF GoodAncestry, ParentsStored, Acyclic, ValidTransitions
<1>5. ReservedIds /\ \A d \in Device : Evidence(op[d], store, packaged)
  BY DEF Init, ReservedIds, Evidence, Idle, At
<1> QED
  BY <1>2, <1>3, <1>4, <1>5 DEF IInv, PresentHasPackage, OnlyRestoreAnswersRemoval

LEMMA NextIInv == IInv /\ [Next]_vars => IInv'
<1> SUFFICES ASSUME IInv, [Next]_vars PROVE IInv'
  OBVIOUS
<1>1. CASE UNCHANGED vars
  BY <1>1 DEF vars, IInv, TypeOK, GoodAncestry, ParentsStored, Acyclic, ValidTransitions, Files,
     Heads, PresentHasPackage, OnlyRestoreAnswersRemoval, ReservedIds, Evidence, At
<1>2. ASSUME NEW d \in Device, Step(d) \/ Fail(d) PROVE IInv'
  BY <1>2, OtherStep, WriteStep
<1>3. ASSUME NEW f \in Folder, PurgeTrash(f) PROVE IInv'
  <2>1. folders' \in [Folder -> FolderState] /\ UNCHANGED <<store, packaged, op>>
    BY <1>3 DEF PurgeTrash, IInv, TypeOK, FolderState
  <2> QED
    BY <2>1 DEF IInv, TypeOK, GoodAncestry, ParentsStored, Acyclic, ValidTransitions, Files,
       Heads, PresentHasPackage, OnlyRestoreAnswersRemoval, ReservedIds, Evidence, At
<1> QED
  BY <1>1, <1>2, <1>3 DEF Next

\* The invariant that carries every theorem below.
THEOREM Invariance == Spec => []IInv
BY InitIInv, NextIInv, PTL DEF Spec

\* Type correctness for any number of devices, folders and generations.
THEOREM TypeCorrectness == Spec => []TypeOK
<1>1. IInv => TypeOK
  BY DEF IInv
<1> QED
  BY <1>1, Invariance, PTL

\* No interleaving and no failure writes a graph the resolver refuses for anything
\* but a fork.
THEOREM AncestryIsGood == Spec => []OnlyForksBreakResolution
<1>1. IInv => OnlyForksBreakResolution
  BY DEF IInv, GoodAncestry, OnlyForksBreakResolution
<1> QED
  BY <1>1, Invariance, PTL

\* A present generation is written after its folder holds a package.
THEOREM PresentIsLast == Spec => []PresentHasPackage
<1>1. IInv => PresentHasPackage
  BY DEF IInv
<1> QED
  BY <1>1, Invariance, PTL

\* No upload and no removal is ever written on top of a removal.
THEOREM RemovalDominates == Spec => []OnlyRestoreAnswersRemoval
<1>1. IInv => OnlyRestoreAnswersRemoval
  BY DEF IInv
<1> QED
  BY <1>1, Invariance, PTL

\* A present paper has every removal in its history acknowledged by a restore.
THEOREM AllRemovalsAcknowledged == Spec => []PresentMeansAllAcknowledged
<1>1. IInv => PresentMeansAllAcknowledged
  <2> SUFFICES ASSUME IInv, PresenceOf(store) = "present",
                      NEW r \in Files(store), store[r].state = "removed"
               PROVE  \E g \in Files(store) : store[g].intent = "restore" /\ r \in store[g].parents
    BY DEF PresentMeansAllAcknowledged
  <2>1. r \notin Heads(store)
    BY DEF PresenceOf, RemovedHeads
  <2>2. PICK g \in Files(store) : r \in store[g].parents
    BY <2>1 DEF Heads
  <2> QED
    BY <2>2 DEF IInv, OnlyRestoreAnswersRemoval
<1> QED
  BY <1>1, Invariance, PTL

--------------------------------------------------------------------------------
(* The control plane implements PresenceAuthority *)

\* One write, as PresenceAuthority sees it.
LEMMA WriteImplements ==
    ASSUME IInv, NEW d \in Device, WriteGeneration(d)
    PROVE  [Authority!Next]_Authority!authorityVars
<1> DEFINE g == op[d].gen
           Status(s) == IF Files(s) = {} THEN "absent" ELSE PresenceOf(s)
           Settled(s) == {h \in Files(s) \ Heads(s) : s[h].state = "removed"}
<1>1. /\ op[d] \in Operation /\ Evidence(op[d], store, packaged) /\ op[d].step = "write"
      /\ op[d].seen \subseteq Files(store) /\ g \in GenId /\ g \notin Files(store)
  BY Written DEF IInv, TypeOK, WriteGeneration, At
<1>2. /\ Files(store') = Files(store) \cup {g}
      /\ Heads(store') = (Heads(store) \ op[d].seen) \cup {g}
      /\ store'[g].state = IF op[d].intent = "remove" THEN "removed" ELSE "present"
      /\ \A h \in Files(store) : store'[h] = store[h] /\ h # g
  BY Written
<1>3. /\ Heads(store) \subseteq Files(store) /\ g \in Files(store') /\ g \in Heads(store')
  BY <1>2 DEF Heads
<1>4. Status(store') = IF RemovedHeads(store') # {} THEN "removed" ELSE "present"
  BY <1>3 DEF PresenceOf
<1>5. CASE op[d].intent = "remove"
  <2>1. RemovedHeads(store') = RemovedHeads(store) \cup {g}
    BY <1>1, <1>2, <1>3, <1>5 DEF RemovedHeads, Evidence
  <2>2. Settled(store') = Settled(store)
    BY <1>1, <1>2, <1>3, <1>5 DEF Evidence
  <2>3. g \notin RemovedHeads(store) \cup Settled(store)
    BY <1>1, <1>3 DEF RemovedHeads
  <2>4. Status(store) # "absent" /\ Status(store') = "removed"
    BY <2>1, <1>1, <1>4, <1>5 DEF Evidence, PresenceOf
  <2>5. Authority!Remove(g)
    BY <2>1, <2>2, <2>3, <2>4 DEF Authority!Remove
  <2> QED
    BY <2>5, <1>1 DEF Authority!Next
<1>6. CASE op[d].intent = "upload"
  <2>1. RemovedHeads(store') = RemovedHeads(store) /\ Settled(store') = Settled(store)
    BY <1>1, <1>2, <1>3, <1>6 DEF RemovedHeads, Evidence
  <2>2. CASE Files(store) = {}
    <3>1. RemovedHeads(store) = {}
      BY <2>2, <1>3 DEF RemovedHeads
    <3>2. Authority!Publish
      BY <2>1, <2>2, <3>1, <1>4 DEF Authority!Publish
    <3> QED
      BY <3>2 DEF Authority!Next
  <2>3. CASE Files(store) # {}
    <3>1. Status(store') = Status(store)
      BY <2>1, <2>3, <1>4 DEF PresenceOf
    <3> QED
      BY <2>1, <3>1 DEF Authority!authorityVars
  <2> QED
    BY <2>2, <2>3
<1>7. CASE op[d].intent = "restore"
  <2> DEFINE known == op[d].seen \cap RemovedHeads(store)
  <2>1. RemovedHeads(store') = RemovedHeads(store) \ known
    BY <1>1, <1>2, <1>3, <1>7 DEF RemovedHeads
  <2>2. Settled(store') = Settled(store) \cup known
    BY <1>1, <1>2, <1>3, <1>7 DEF RemovedHeads
  <2>3. CASE known = {}
    <3>1. Files(store) # {}
      BY <1>1, <1>7 DEF Evidence
    <3>2. Status(store') = Status(store)
      BY <2>1, <2>3, <3>1, <1>4 DEF PresenceOf
    <3> QED
      BY <2>1, <2>2, <2>3, <3>2 DEF Authority!authorityVars
  <2>4. CASE known # {}
    <3>1. Status(store') = IF RemovedHeads(store') = {} THEN "present" ELSE "removed"
      BY <1>4
    <3>2. Authority!Restore(known)
      BY <2>1, <2>2, <2>4, <3>1 DEF Authority!Restore
    <3>3. known \in SUBSET GenId
      BY <1>3 DEF Files, RemovedHeads, Heads
    <3>4. \E a \in SUBSET GenId : Authority!Restore(a)
      BY <3>2, <3>3 DEF Authority!Restore
    <3> QED
      BY <3>4 DEF Authority!Next
  <2> QED
    BY <2>3, <2>4
<1> QED
  BY <1>1, <1>5, <1>6, <1>7 DEF Operation, Intents

\* Seen from outside, devices that never lock keep the promise of PresenceAuthority:
\* a removed paper comes back only when restores have acknowledged every removal.
THEOREM Implementation == Spec => ImplementsAuthority
<1>1. Init => Authority!Init
  BY DEF Init, Authority!Init, Files, Heads, RemovedHeads
<1>2. IInv /\ [Next]_vars => [Authority!Next]_Authority!authorityVars
  <2> SUFFICES ASSUME IInv, [Next]_vars
               PROVE  [Authority!Next]_Authority!authorityVars
    OBVIOUS
  <2>1. ASSUME NEW d \in Device, WriteGeneration(d)
        PROVE  [Authority!Next]_Authority!authorityVars
    BY <2>1, WriteImplements
  <2>2. (\E d \in Device : WriteGeneration(d)) \/ store' = store
    BY DEF vars, Next, Step, Fail, PurgeTrash, BeginUpload, EnsureFolder, CreateFolder,
       AuthorizeManifest, NoOpPackage, PublishManifest, VerifyPackage, BeginRemove, TrashFolder, BeginRestore,
       InspectPriorFolder, Untrash, ReuseFolder, RejectFolder, AbandonRebuild, Precheck,
       VerifyGeneration
  <2>3. CASE store' = store
    BY <2>3 DEF Authority!authorityVars, Files, Heads, RemovedHeads, PresenceOf
  <2> QED
    BY <2>1, <2>2, <2>3
<1> QED
  BY <1>1, <1>2, Invariance, PTL DEF Spec, ImplementsAuthority, Authority!Spec

================================================================================
