------------------------- MODULE TemporarySession_proofs -------------------------
(* First the owner of the Drive operations, OperationOwner by itself: ownership   *)
(* is exclusive, and nobody is left using Drive when a session is closed, for any *)
(* number of operations and closers. Then the end of a temporary workspace, for   *)
(* any operations and any ways to close the session beside the finish: what is    *)
(* erased was revoked before, what was known to be unsaved is not erased unasked, *)
(* and a clean-up that failed can be tried again.                                 *)

EXTENDS TemporarySession, FiniteSetTheorems, TLAPS

--------------------------------------------------------------------------------
(* OperationOwner *)


\* Of two operations in the tail one waits for the other, and the owner for nobody.
TailIsOrdered ==
    /\ \A t, u \in Holders : t # u => t \in ahead[u] \/ u \in ahead[t]
    /\ \A t \in Task : pc[t] = "owner" => ahead[t] = {}

Closing == {q \in Closer : closing[q] # "no"}

SuspensionsAreCounted == suspensions = Cardinality(Closing)

\* Nothing joins what a closing session waits for.
ClosingKeepsCount ==
    \A q \in Closer :
        /\ closing[q] = "draining" => Holders \subseteq drain[q] /\ ActiveCommands \subseteq settling[q]
        /\ closing[q] = "quiet" => Holders = {} /\ ActiveCommands = {}

Ownership == TypeOK /\ TailIsOrdered /\ OneOwner /\ OwnerWhileClosingIsAborted

IInv == Ownership /\ SuspensionsAreCounted /\ ClosingKeepsCount /\ ActiveIsAccurate

LEMMA HoldersFinite == IsFiniteSet(Holders)
BY TaskAssumption, FS_Subset DEF Holders

LEMMA ClosingFinite == IsFiniteSet(Closing)
BY CloserAssumption, FS_Subset DEF Closing

LEMMA OwnershipInit == Init => Ownership
<1> SUFFICES ASSUME Init PROVE Ownership
  OBVIOUS
<1>1. TypeOK
  BY DEF Init, TypeOK, Places
<1>2. Holders = {} /\ \A t \in Task : pc[t] # "owner"
  BY DEF Init, Holders
<1>3. OneOwner
  BY <1>2, TaskAssumption DEF Init, OneOwner
<1> QED BY <1>1, <1>2, <1>3 DEF Ownership, TailIsOrdered, OwnerWhileClosingIsAborted

LEMMA TypeStep ==
    ASSUME TypeOK, ActiveIsAccurate, SuspensionsAreCounted, [Next]_vars
    PROVE  TypeOK'
<1> USE TaskAssumption DEF TypeOK, Places
<1>1. ASSUME NEW t \in Task, Start(t) PROVE TypeOK'
  BY <1>1 DEF Start
<1>2. ASSUME NEW t \in Task, Begin(t) PROVE TypeOK'
  BY <1>2 DEF Begin, Holders
<1>3. ASSUME NEW t \in Task, Acquire(t) PROVE TypeOK'
  BY <1>3 DEF Acquire
<1>4. ASSUME NEW t \in Task, pc[t] \in {"waiting", "owner"} PROVE outstanding - 1 \in Nat
  <2>1. Holders # {}
    BY <1>4 DEF Holders
  <2>2. Cardinality(Holders) \in Nat /\ Cardinality(Holders) # 0
    BY <2>1, HoldersFinite, FS_EmptySet, FS_CardinalityType
  <2> QED BY <2>2 DEF ActiveIsAccurate
<1>5. ASSUME NEW t \in Task, Reject(t) PROVE TypeOK'
  <2>1. outstanding - 1 \in Nat
    BY <1>4, <1>5 DEF Reject
  <2> QED BY <1>5, <2>1 DEF Reject, Release
<1>6. ASSUME NEW t \in Task, End(t) PROVE TypeOK'
  <2>1. outstanding - 1 \in Nat
    BY <1>4, <1>6 DEF End
  <2> QED BY <1>6, <2>1 DEF End, Release
<1>7. ASSUME NEW t \in Task, Settle(t) PROVE TypeOK'
  BY <1>7 DEF Settle
<1>8. ASSUME NEW q \in Closer, Suspend(q) PROVE TypeOK'
  BY <1>8 DEF Suspend, Aborted, Holders, ActiveCommands
<1>9. ASSUME NEW q \in Closer, BecomeQuiet(q) PROVE TypeOK'
  BY <1>9 DEF BecomeQuiet
<1>10. ASSUME NEW q \in Closer, Resume(q) PROVE TypeOK'
  <2>1. Closing # {}
    BY <1>10 DEF Resume, Closing
  <2>2. Cardinality(Closing) \in Nat /\ Cardinality(Closing) # 0
    BY <2>1, ClosingFinite, FS_EmptySet, FS_CardinalityType
  <2>3. suspensions - 1 \in Nat
    BY <2>2 DEF SuspensionsAreCounted
  <2> QED BY <1>10, <2>3 DEF Resume
<1>11. CASE Cancel
  BY <1>11 DEF Cancel, Aborted
<1>12. CASE Destroy
  BY <1>12 DEF Destroy, Aborted, Holders
<1>13. CASE UNCHANGED vars
  BY <1>13 DEF vars
<1> QED BY <1>1, <1>2, <1>3, <1>5, <1>6, <1>7, <1>8, <1>9, <1>10, <1>11, <1>12, <1>13 DEF Next, Progress

LEMMA OwnershipStep ==
    ASSUME Ownership, TypeOK', [Next]_vars
    PROVE  Ownership'
<1> USE TaskAssumption DEF Ownership, TypeOK, Places, TailIsOrdered, OneOwner,
        OwnerWhileClosingIsAborted, Holders
<1>1. ASSUME NEW t \in Task, Start(t) PROVE Ownership'
  BY <1>1 DEF Start
<1>2. ASSUME NEW t \in Task, Begin(t) PROVE Ownership'
  BY <1>2 DEF Begin
<1>3. ASSUME NEW t \in Task, Acquire(t) PROVE Ownership'
  <2>1. \A u \in Task : pc[u] # "owner"
    BY <1>3 DEF Acquire
  <2>2. suspensions = 0 /\ ~destroyed
    BY <1>3 DEF Acquire, Rejected
  <2> QED BY <1>3, <2>1, <2>2 DEF Acquire
<1>4. ASSUME NEW t \in Task, Reject(t) PROVE Ownership'
  BY <1>4 DEF Reject, Release
<1>5. ASSUME NEW t \in Task, End(t) PROVE Ownership'
  BY <1>5 DEF End, Release
<1>6. ASSUME NEW t \in Task, Settle(t) PROVE Ownership'
  BY <1>6 DEF Settle
<1>7. ASSUME NEW q \in Closer, Suspend(q) PROVE Ownership'
  BY <1>7 DEF Suspend, Aborted
<1>8. ASSUME NEW q \in Closer, BecomeQuiet(q) PROVE Ownership'
  BY <1>8 DEF BecomeQuiet
<1>9. ASSUME NEW q \in Closer, Resume(q) PROVE Ownership'
  BY <1>9 DEF Resume
<1>10. CASE Cancel
  BY <1>10 DEF Cancel, Aborted
<1>11. CASE Destroy
  BY <1>11 DEF Destroy, Aborted
<1>12. CASE UNCHANGED vars
  BY <1>12 DEF vars
<1> QED BY <1>1, <1>2, <1>3, <1>4, <1>5, <1>6, <1>7, <1>8, <1>9, <1>10, <1>11, <1>12 DEF Next, Progress

LEMMA SuspensionsStep ==
    ASSUME TypeOK, SuspensionsAreCounted, [Next]_vars
    PROVE  SuspensionsAreCounted'
<1>1. ASSUME closing' = closing, suspensions' = suspensions PROVE SuspensionsAreCounted'
  BY <1>1 DEF SuspensionsAreCounted, Closing
<1>2. ASSUME NEW q \in Closer, Suspend(q) PROVE SuspensionsAreCounted'
  <2>1. Closing' = Closing \cup {q} /\ q \notin Closing
    BY <1>2 DEF Suspend, Closing, TypeOK
  <2>2. Cardinality(Closing') = Cardinality(Closing) + 1
    BY <2>1, ClosingFinite, FS_AddElement
  <2> QED BY <1>2, <2>2 DEF Suspend, SuspensionsAreCounted
<1>3. ASSUME NEW q \in Closer, BecomeQuiet(q) PROVE SuspensionsAreCounted'
  <2>1. Closing' = Closing
    BY <1>3 DEF BecomeQuiet, Closing, TypeOK
  <2> QED BY <1>3, <2>1 DEF BecomeQuiet, SuspensionsAreCounted
<1>4. ASSUME NEW q \in Closer, Resume(q) PROVE SuspensionsAreCounted'
  <2>1. Closing' = Closing \ {q} /\ q \in Closing
    BY <1>4 DEF Resume, Closing, TypeOK
  <2>2. Cardinality(Closing') = Cardinality(Closing) - 1
    BY <2>1, ClosingFinite, FS_RemoveElement
  <2> QED BY <1>4, <2>2 DEF Resume, SuspensionsAreCounted
<1>5. ASSUME NEW t \in Task, Start(t) \/ Progress(t) PROVE SuspensionsAreCounted'
  BY <1>1, <1>5 DEF Start, Progress, Begin, Acquire, Reject, End, Settle
<1>6. ASSUME Cancel \/ Destroy \/ UNCHANGED vars PROVE SuspensionsAreCounted'
  BY <1>1, <1>6 DEF Cancel, Destroy, vars
<1> QED BY <1>2, <1>3, <1>4, <1>5, <1>6 DEF Next

LEMMA ActiveStep ==
    ASSUME TypeOK, ActiveIsAccurate, [Next]_vars
    PROVE  ActiveIsAccurate'
<1>1. ASSUME Holders' = Holders, outstanding' = outstanding PROVE ActiveIsAccurate'
  BY <1>1 DEF ActiveIsAccurate
<1>2. ASSUME NEW t \in Task, Begin(t) PROVE ActiveIsAccurate'
  <2>1. Holders' = Holders \cup {t} /\ t \notin Holders
    BY <1>2 DEF Begin, Holders, TypeOK
  <2>2. Cardinality(Holders') = Cardinality(Holders) + 1
    BY <2>1, HoldersFinite, FS_AddElement
  <2> QED BY <1>2, <2>2 DEF Begin, ActiveIsAccurate
<1>3. ASSUME NEW t \in Task, Reject(t) \/ End(t) PROVE ActiveIsAccurate'
  <2>1. Holders' = Holders \ {t} /\ t \in Holders
    BY <1>3 DEF Reject, End, Holders, TypeOK
  <2>2. Cardinality(Holders') = Cardinality(Holders) - 1
    BY <2>1, HoldersFinite, FS_RemoveElement
  <2> QED BY <1>3, <2>2 DEF Reject, End, ActiveIsAccurate
<1>4. ASSUME NEW t \in Task, Start(t) \/ Settle(t) \/ Acquire(t) PROVE ActiveIsAccurate'
  <2>1. Holders' = Holders
    BY <1>4 DEF Start, Settle, Acquire, Holders, TypeOK
  <2> QED BY <1>1, <1>4, <2>1 DEF Start, Settle, Acquire
<1>5. ASSUME pc' = pc, outstanding' = outstanding PROVE ActiveIsAccurate'
  BY <1>1, <1>5 DEF Holders
<1>6. ASSUME NEW q \in Closer, Suspend(q) \/ BecomeQuiet(q) \/ Resume(q) PROVE ActiveIsAccurate'
  BY <1>5, <1>6 DEF Suspend, BecomeQuiet, Resume
<1>7. ASSUME Cancel \/ Destroy \/ UNCHANGED vars PROVE ActiveIsAccurate'
  BY <1>5, <1>7 DEF Cancel, Destroy, vars
<1> QED BY <1>2, <1>3, <1>4, <1>6, <1>7 DEF Next, Progress

\* While a session closes nobody joins the tail and no command starts.
LEMMA NobodyJoins ==
    ASSUME TypeOK, SuspensionsAreCounted, Closing # {}, [Next]_vars
    PROVE  Holders' \subseteq Holders /\ ActiveCommands' \subseteq ActiveCommands
<1>1. suspensions # 0
  BY ClosingFinite, FS_EmptySet DEF SuspensionsAreCounted
<1> USE DEF Holders, ActiveCommands, TypeOK
<1>2. ASSUME pc' = pc PROVE Holders' = Holders /\ ActiveCommands' = ActiveCommands
  BY <1>2
<1>3. ASSUME NEW t \in Task, Start(t) PROVE t \notin Retained
  BY <1>1, <1>3 DEF Start
<1>4. ASSUME NEW t \in Task, Start(t)
      PROVE  Holders' \subseteq Holders /\ ActiveCommands' \subseteq ActiveCommands
  BY <1>3, <1>4, TaskAssumption DEF Start
<1>5. ASSUME NEW t \in Task, Progress(t)
      PROVE  Holders' \subseteq Holders /\ ActiveCommands' \subseteq ActiveCommands
  BY <1>1, <1>5, TaskAssumption DEF Progress, Begin, Acquire, Reject, End, Settle
<1>6. ASSUME NEW q \in Closer, Suspend(q) \/ BecomeQuiet(q) \/ Resume(q) PROVE pc' = pc
  BY <1>6 DEF Suspend, BecomeQuiet, Resume
<1>7. ASSUME Cancel \/ Destroy \/ UNCHANGED vars PROVE pc' = pc
  BY <1>7 DEF Cancel, Destroy, vars
<1> QED BY <1>2, <1>4, <1>5, <1>6, <1>7 DEF Next

LEMMA ClosingStep ==
    ASSUME TypeOK, SuspensionsAreCounted, ClosingKeepsCount, [Next]_vars
    PROVE  ClosingKeepsCount'
<1> SUFFICES ASSUME NEW q \in Closer
             PROVE  /\ closing'[q] = "draining" =>
                           Holders' \subseteq drain'[q] /\ ActiveCommands' \subseteq settling'[q]
                    /\ closing'[q] = "quiet" => Holders' = {} /\ ActiveCommands' = {}
  BY DEF ClosingKeepsCount
<1>1. ASSUME closing[q] # "no"
      PROVE  Holders' \subseteq Holders /\ ActiveCommands' \subseteq ActiveCommands
  BY <1>1, NobodyJoins DEF Closing
<1>2. ASSUME closing'[q] = closing[q], drain'[q] = drain[q], settling'[q] = settling[q],
             closing[q] # "no"
      PROVE  /\ closing'[q] = "draining" =>
                    Holders' \subseteq drain'[q] /\ ActiveCommands' \subseteq settling'[q]
             /\ closing'[q] = "quiet" => Holders' = {} /\ ActiveCommands' = {}
  BY <1>1, <1>2 DEF ClosingKeepsCount
<1>3. CASE Suspend(q)
  <2>1. Holders' = Holders /\ ActiveCommands' = ActiveCommands
    BY <1>3 DEF Suspend, Holders, ActiveCommands
  <2> QED BY <1>3, <2>1 DEF Suspend, TypeOK
<1>4. CASE BecomeQuiet(q)
  <2>1. Holders' = Holders /\ ActiveCommands' = ActiveCommands
    BY <1>4 DEF BecomeQuiet, Holders, ActiveCommands
  <2>2. Holders = {} /\ ActiveCommands = {}
    BY <1>4 DEF BecomeQuiet, ClosingKeepsCount
  <2> QED BY <1>4, <2>1, <2>2 DEF BecomeQuiet, TypeOK
<1>5. CASE Resume(q)
  BY <1>5 DEF Resume, TypeOK
<1>6. ASSUME ~Suspend(q), ~BecomeQuiet(q), ~Resume(q)
      PROVE  closing'[q] = closing[q] /\ drain'[q] = drain[q] /\ settling'[q] = settling[q]
  <2>1. ASSUME NEW r \in Closer, r # q, Suspend(r) \/ BecomeQuiet(r) \/ Resume(r)
        PROVE  closing'[q] = closing[q] /\ drain'[q] = drain[q] /\ settling'[q] = settling[q]
    BY <2>1 DEF Suspend, BecomeQuiet, Resume, TypeOK
  <2>2. ASSUME NEW t \in Task, Start(t) \/ Progress(t)
        PROVE  closing' = closing /\ drain' = drain /\ settling' = settling
    BY <2>2 DEF Start, Progress, Begin, Acquire, Reject, End, Settle
  <2>3. ASSUME Cancel \/ Destroy \/ UNCHANGED vars
        PROVE  closing' = closing /\ drain' = drain /\ settling' = settling
    BY <2>3 DEF Cancel, Destroy, vars
  <2> QED BY <1>6, <2>1, <2>2, <2>3 DEF Next
<1>7. CASE closing[q] = "no" /\ ~Suspend(q) /\ ~BecomeQuiet(q) /\ ~Resume(q)
  BY <1>6, <1>7
<1> QED BY <1>2, <1>3, <1>4, <1>5, <1>6, <1>7

\* The inductive invariant: the order of the tail, the count of the sessions that close
\* and of the operations, and what each closing session still waits for.
THEOREM Inductive == Spec => []IInv
<1>1. Init => IInv
  <2> SUFFICES ASSUME Init PROVE IInv
    OBVIOUS
  <2>1. Holders = {} /\ Closing = {}
    BY DEF Init, Holders, Closing
  <2>2. SuspensionsAreCounted /\ ActiveIsAccurate
    BY <2>1, FS_EmptySet DEF Init, SuspensionsAreCounted, ActiveIsAccurate
  <2>3. ClosingKeepsCount
    BY DEF Init, ClosingKeepsCount
  <2> QED BY <2>2, <2>3, OwnershipInit DEF IInv
<1>2. IInv /\ [Next]_vars => IInv'
  <2> SUFFICES ASSUME IInv, [Next]_vars PROVE IInv'
    OBVIOUS
  <2> USE DEF IInv
  <2>1. TypeOK /\ TypeOK'
    BY TypeStep DEF Ownership
  <2> QED BY <2>1, OwnershipStep, SuspensionsStep, ClosingStep, ActiveStep
<1> QED BY <1>1, <1>2, PTL DEF Spec

\* begin() and end() hand Drive from one operation to the next, never to two.
THEOREM Exclusive == Spec => []OneOwner
<1>1. IInv => OneOwner
  BY DEF IInv, Ownership
<1> QED BY <1>1, Inductive, PTL

\* suspendAndDrain and destroy abort the owner, and begin() lets nobody follow it.
THEOREM AbortReachesOwner == Spec => []OwnerWhileClosingIsAborted
<1>1. IInv => OwnerWhileClosingIsAborted
  BY DEF IInv, Ownership
<1> QED BY <1>1, Inductive, PTL

\* What withDriveOperationsQuiesced runs finds Drive unused, however many sessions
\* close at once.
THEOREM QuietIsQuiet == Spec => []QuietMeansNobody
<1>1. IInv => QuietMeansNobody
  BY DEF IInv, ClosingKeepsCount, QuietMeansNobody
<1> QED BY <1>1, Inductive, PTL

\* outstandingOperations is what "active" reports: those that own Drive or wait for it.
THEOREM CountIsExact == Spec => []ActiveIsAccurate
<1>1. IInv => ActiveIsAccurate
  BY DEF IInv
<1> QED BY <1>1, Inductive, PTL

--------------------------------------------------------------------------------
(* TemporarySession *)


\* What the steps of a change of workspace belong to.
StepOfWay ==
    /\ way = "stay" => step = "no"
    /\ way = "begin" => step = "mark" /\ ~marker
    /\ way = "finish" => step \in {"upload", "drain", "revoke", "clear"} \cup Erasing
    /\ way = "finish" /\ step = "done" => ~marker
    /\ way = "leave" => step \in Erasing \ {"done"}

\* A session is one of the tab's workspace; past its revocation there is none.
SessionOfWorkspace ==
    /\ live => token
    /\ token => marker
    /\ way = "leave" => ~token
    /\ way = "finish" /\ step \in {"clear"} \cup Erasing => ~token

\* A workspace with provenance is registered until its databases are deleted.
BoundIsRegistered ==
    /\ way = "leave" => binding # "bound"
    /\ way = "finish" /\ step \in {"close", "unregister"} \cup Database => registered

\* Not uploaded is what the databases hold and the user was asked about or wrote since.
PendingIsHeld ==
    /\ work = "pending" => stored \cap Content # {}
    /\ (way = "leave" \/ (way = "finish" /\ step \in {"drain", "revoke", "clear"} \cup Erasing))
           => (work = "pending" => abandon \/ late)

EndInv ==
    /\ StepOfWay
    /\ SessionOfWorkspace
    /\ BoundIsRegistered
    /\ FailedCleanupCanBeRetried
    /\ PendingIsHeld
    /\ KnownWorkIsKept

LEMMA TypeInit == TemporaryInit => TemporaryTypeOK
BY DEF TemporaryInit, TemporaryTypeOK, Flags, Steps, Ways, Database

\* Every step keeps the types.
LEMMA TypeNext == TemporaryTypeOK /\ [TemporaryNext]_<<vars, session>> => TemporaryTypeOK'
<1> SUFFICES ASSUME TemporaryTypeOK, [TemporaryNext]_<<vars, session>>
             PROVE  TemporaryTypeOK'
  OBVIOUS
<1> USE DEF session, workspace, Database, Content, Steps, Ways, At
<1>1. CASE Edit
  BY <1>1 DEF Edit, TemporaryTypeOK, Flags
<1>2. CASE Save
  <2>1. Flags'
    BY <1>2 DEF Save, Content, TemporaryTypeOK, Flags
  <2> QED
    BY <2>1, <1>2 DEF Save, Content, TemporaryTypeOK
<1>3. CASE Register
  BY <1>3 DEF Register, TemporaryTypeOK, Flags
<1>4. CASE Mark
  BY <1>4 DEF Mark, Stay, TemporaryTypeOK, Flags
<1>5. CASE MarkFails
  <2>1. Flags'
    BY <1>5 DEF MarkFails, Stay, TemporaryTypeOK, Flags
  <2> QED
    BY <2>1, <1>5 DEF MarkFails, Stay, TemporaryTypeOK
<1>6. CASE Reload
  BY <1>6 DEF Reload, Opens, Kept, Stay, Binds, TemporaryTypeOK, Flags
<1>7. CASE Connect
  BY <1>7 DEF Connect, Opens, Kept, Stay, Binds, TemporaryTypeOK, Flags
<1>8. CASE BeginProvenance
  BY <1>8 DEF BeginProvenance, Binds, TemporaryTypeOK, Flags
<1>9. CASE Operates
  BY <1>9 DEF Operates, TemporaryTypeOK, Flags
<1>10. CASE StartUpload
  BY <1>10 DEF StartUpload, TemporaryTypeOK, Flags
<1>11. CASE EndUpload
  <2>1. Flags'
    BY <1>11 DEF EndUpload, TemporaryTypeOK, Flags
  <2> QED
    BY <2>1, <1>11 DEF EndUpload, TemporaryTypeOK
<1>12. ASSUME NEW q \in Closer \ {Finish}, Disconnect(q) PROVE TemporaryTypeOK'
  <2>1. Flags'
    BY <1>12 DEF Disconnect, SessionEnds, RevocationFails, TemporaryTypeOK, Flags
  <2> QED
    BY <2>1, <1>12 DEF Disconnect, SessionEnds, RevocationFails, TemporaryTypeOK
<1>13. CASE FinishUploads
  BY <1>13 DEF FinishUploads, TemporaryTypeOK, Flags
<1>14. CASE FinishChecks
  <2>1. Flags'
    BY <1>14 DEF FinishChecks, TemporaryTypeOK, Flags
  <2> QED
    BY <2>1, <1>14 DEF FinishChecks, TemporaryTypeOK
<1>15. CASE FinishRefused
  BY <1>15 DEF FinishRefused, Stay, TemporaryTypeOK, Flags
<1>16. CASE FinishDrained
  BY <1>16 DEF FinishDrained, TemporaryTypeOK, Flags
<1>17. CASE FinishRevokes
  <2>1. Flags'
    BY <1>17 DEF FinishRevokes, SessionEnds, TemporaryTypeOK, Flags
  <2> QED
    BY <2>1, <1>17 DEF FinishRevokes, SessionEnds, TemporaryTypeOK
<1>18. CASE FinishNotRevoked
  <2>1. Flags'
    BY <1>18 DEF FinishNotRevoked, RevocationFails, Stay, TemporaryTypeOK, Flags
  <2> QED
    BY <2>1, <1>18 DEF FinishNotRevoked, RevocationFails, Stay, TemporaryTypeOK
<1>19. CASE ClearProvenance
  BY <1>19 DEF ClearProvenance, TemporaryTypeOK, Flags
<1>20. CASE CleanupFails
  <2>1. Flags'
    BY <1>20 DEF CleanupFails, Stay, TemporaryTypeOK, Flags
  <2> QED
    BY <2>1, <1>20 DEF CleanupFails, Stay, TemporaryTypeOK
<1>21. CASE FinishReturns
  BY <1>21 DEF FinishReturns, Stay, TemporaryTypeOK, Flags
<1>22. CASE Leave
  BY <1>22 DEF Leave, TemporaryTypeOK, Flags
<1>23. CASE LeaveFails
  BY <1>23 DEF LeaveFails, Stay, TemporaryTypeOK, Flags
<1>24. CASE CloseDatabases
  BY <1>24 DEF CloseDatabases, TemporaryTypeOK, Flags
<1>25. CASE DeleteDatabase
  <2>1. Flags'
    BY <1>25 DEF DeleteDatabase, AfterDeletion, Loses, TemporaryTypeOK, Flags
  <2> QED
    BY <2>1, <1>25 DEF DeleteDatabase, AfterDeletion, Loses, TemporaryTypeOK
<1>26. CASE Unregister
  <2>1. Flags'
    BY <1>26 DEF Unregister, TemporaryTypeOK, Flags
  <2> QED
    BY <2>1, <1>26 DEF Unregister, TemporaryTypeOK
<1>27. CASE Unmark
  <2>1. Flags'
    BY <1>27 DEF Unmark, Loses, Stay, TemporaryTypeOK, Flags
  <2> QED
    BY <2>1, <1>27 DEF Unmark, Loses, Stay, TemporaryTypeOK
<1>28. CASE UNCHANGED <<vars, session>>
  BY <1>28 DEF TemporaryTypeOK, Flags
<1>29. CASE Expire
  <2>1. Flags'
    BY <1>29 DEF Expire, TemporaryTypeOK, Flags
  <2> QED
    BY <2>1, <1>29 DEF Expire, TemporaryTypeOK
<1> QED
  BY <1>29, <1>1, <1>2, <1>3, <1>4, <1>5, <1>6, <1>7, <1>8, <1>9, <1>10, <1>11, <1>12, <1>13, <1>14, <1>15, <1>16, <1>17, <1>18, <1>19, <1>20, <1>21, <1>22, <1>23, <1>24, <1>25, <1>26, <1>27, <1>28 DEF TemporaryNext

LEMMA EndInit == TemporaryInit => EndInv
BY DEF TemporaryInit, EndInv, StepOfWay, SessionOfWorkspace, BoundIsRegistered,
       FailedCleanupCanBeRetried, PendingIsHeld, KnownWorkIsKept, Content, Erasing, Database

\* Every step keeps the invariant.
LEMMA EndNext ==
    TemporaryTypeOK /\ TemporaryTypeOK' /\ EndInv /\ [TemporaryNext]_<<vars, session>>
        => EndInv'
<1> SUFFICES ASSUME TemporaryTypeOK, TemporaryTypeOK', EndInv,
                    [TemporaryNext]_<<vars, session>>
             PROVE  EndInv'
  OBVIOUS
<1> USE DEF EndInv, StepOfWay, SessionOfWorkspace, BoundIsRegistered, PendingIsHeld,
        FailedCleanupCanBeRetried, KnownWorkIsKept, session, workspace, Erasing, Database,
        Content, At, TemporaryTypeOK, Flags, Ways
<1>1. CASE Edit
  BY <1>1 DEF Edit
<1>2. CASE Save
  BY <1>2 DEF Save
<1>3. CASE Register
  BY <1>3 DEF Register
<1>4. CASE Mark
  BY <1>4 DEF Mark, Stay
<1>5. CASE MarkFails
  BY <1>5 DEF MarkFails, Stay
<1>6. CASE Reload
  <2>1. /\ Opens
        /\ (token' => token) /\ live' = live /\ (live' => token')
        /\ \/ registered /\ marker /\ token /\ provenance' = TRUE
           \/ /\ provenance' = provenance
              /\ binding' = IF way = "finish" /\ step \in Erasing THEN "torn" ELSE binding
    BY <1>6 DEF Reload, Kept, Binds
  <2>2. StepOfWay'
    BY <2>1 DEF Opens, Stay
  <2>3. SessionOfWorkspace'
    BY <2>1 DEF Opens, Stay
  <2>4. BoundIsRegistered'
    BY <2>1 DEF Opens, Stay
  <2>5. FailedCleanupCanBeRetried'
    BY <2>1 DEF Opens, Stay
  <2>6. PendingIsHeld'
    BY <2>1 DEF Opens, Stay
  <2>7. KnownWorkIsKept'
    BY <2>1 DEF Opens, Stay
  <2> QED
    BY <2>1, <2>2, <2>3, <2>4, <2>5, <2>6, <2>7 DEF Opens, Stay
<1>7. CASE Connect
  <2>1. /\ Opens /\ way = "stay" /\ marker
        /\ token' \in BOOLEAN /\ live' \in BOOLEAN /\ (live' => token')
        /\ \/ registered /\ provenance' = TRUE
           \/ provenance' = provenance /\ binding' = binding
    BY <1>7 DEF Connect, Kept, Binds
  <2>2. StepOfWay'
    BY <2>1 DEF Opens, Stay
  <2>3. SessionOfWorkspace'
    BY <2>1 DEF Opens, Stay
  <2>4. BoundIsRegistered'
    BY <2>1 DEF Opens, Stay
  <2>5. FailedCleanupCanBeRetried'
    BY <2>1 DEF Opens, Stay
  <2>6. PendingIsHeld'
    BY <2>1 DEF Opens, Stay
  <2>7. KnownWorkIsKept'
    BY <2>1 DEF Opens, Stay
  <2> QED
    BY <2>1, <2>2, <2>3, <2>4, <2>5, <2>6, <2>7 DEF Opens, Stay
<1>8. CASE BeginProvenance
  BY <1>8 DEF BeginProvenance, Binds
<1>9. CASE Operates
  BY <1>9 DEF Operates
<1>10. CASE StartUpload
  BY <1>10 DEF StartUpload
<1>11. CASE EndUpload
  BY <1>11 DEF EndUpload
<1>12. ASSUME NEW q \in Closer \ {Finish}, Disconnect(q) PROVE EndInv'
  <2>1. /\ token' \in BOOLEAN /\ live' \in BOOLEAN
        /\ (token' => token) /\ (live' => token')
    <3>1. SessionEnds \/ RevocationFails
      BY <1>12 DEF Disconnect
    <3>2. CASE SessionEnds
      <4>1. token' = FALSE /\ live' = FALSE
        BY <3>2 DEF SessionEnds
      <4> QED
        BY <4>1
    <3>3. CASE RevocationFails
      BY <3>3 DEF RevocationFails
    <3> QED
      BY <3>1, <3>2, <3>3
  <2> QED
    BY <1>12, <2>1 DEF Disconnect
<1>13. CASE FinishUploads
  BY <1>13 DEF FinishUploads
<1>14. CASE FinishChecks
  BY <1>14 DEF FinishChecks, Uploaded
<1>15. CASE FinishRefused
  BY <1>15 DEF FinishRefused, Uploaded, Stay
<1>16. CASE FinishDrained
  BY <1>16 DEF FinishDrained
<1>17. CASE FinishRevokes
  <2>1. token' = FALSE /\ live' = FALSE
    BY <1>17 DEF FinishRevokes, SessionEnds
  <2> QED
    BY <1>17, <2>1 DEF FinishRevokes
<1>18. CASE FinishNotRevoked
  <2>1. /\ token' \in BOOLEAN /\ live' \in BOOLEAN
        /\ (token' => token) /\ (live' => token')
    <3>1. (token' = token /\ live' = live) \/ RevocationFails
      BY <1>18 DEF FinishNotRevoked
    <3>2. CASE token' = token /\ live' = live
      BY <3>2
    <3>3. CASE RevocationFails
      BY <3>3 DEF RevocationFails
    <3> QED
      BY <3>1, <3>2, <3>3
  <2> QED
    BY <1>18, <2>1 DEF FinishNotRevoked, Stay
<1>19. CASE ClearProvenance
  BY <1>19 DEF ClearProvenance
<1>20. CASE CleanupFails
  <2>1. provenance' = TRUE \/ (provenance' = FALSE /\ binding' = "torn")
           \/ (step = "clear" /\ provenance' = provenance /\ binding' = binding)
    BY <1>20 DEF CleanupFails
  <2>2. StepOfWay'
    BY <1>20, <2>1 DEF CleanupFails, Stay
  <2>3. SessionOfWorkspace'
    BY <1>20, <2>1 DEF CleanupFails, Stay
  <2>4. BoundIsRegistered'
    BY <1>20, <2>1 DEF CleanupFails, Stay
  <2>5. FailedCleanupCanBeRetried'
    BY <1>20, <2>1 DEF CleanupFails, Stay
  <2>6. PendingIsHeld'
    BY <1>20, <2>1 DEF CleanupFails, Stay
  <2>7. KnownWorkIsKept'
    BY <1>20, <2>1 DEF CleanupFails, Stay
  <2> QED
    BY <1>20, <2>1, <2>2, <2>3, <2>4, <2>5, <2>6, <2>7 DEF CleanupFails, Stay
<1>21. CASE FinishReturns
  BY <1>21 DEF FinishReturns, Stay
<1>22. CASE Leave
  BY <1>22 DEF Leave
<1>23. CASE LeaveFails
  BY <1>23 DEF LeaveFails, Stay
<1>24. CASE CloseDatabases
  BY <1>24 DEF CloseDatabases
<1>25. CASE DeleteDatabase
  BY <1>25 DEF DeleteDatabase, AfterDeletion, Loses
<1>26. CASE Unregister
  BY <1>26 DEF Unregister
<1>27. CASE Unmark
  BY <1>27 DEF Unmark, Loses, Stay
<1>28. CASE UNCHANGED <<vars, session>>
  BY <1>28
<1>29. CASE Expire
  BY <1>29 DEF Expire
<1> QED
  BY <1>29, <1>1, <1>2, <1>3, <1>4, <1>5, <1>6, <1>7, <1>8, <1>9, <1>10, <1>11, <1>12, <1>13, <1>14, <1>15, <1>16, <1>17, <1>18, <1>19, <1>20, <1>21, <1>22, <1>23, <1>24, <1>25, <1>26, <1>27, <1>28 DEF TemporaryNext

\* The types of the variables hold throughout.
THEOREM TypesKept == TemporarySpec => []TemporaryTypeOK
BY TypeInit, TypeNext, PTL DEF TemporarySpec

LEMMA EndInvariant == TemporarySpec => []EndInv
BY EndInit, EndNext, TypesKept, PTL DEF TemporarySpec

\* Local data goes only after the device session (cleanupTemporaryOrigin comes after
\* disconnectCurrent): past the revocation the tab has no session.
THEOREM ErasedOnlyRevoked == TemporarySpec => []ErasedIsRevoked
<1>1. EndInv => ErasedIsRevoked
  BY DEF EndInv, StepOfWay, SessionOfWorkspace, ErasedIsRevoked
<1> QED
  BY <1>1, EndInvariant, PTL

\* A failed clean-up leaves a workspace that Finish accepts again, whatever failed.
THEOREM CleanupRetried == TemporarySpec => []FailedCleanupCanBeRetried
<1>1. EndInv => FailedCleanupCanBeRetried
  BY DEF EndInv
<1> QED
  BY <1>1, EndInvariant, PTL

\* Nothing known not to be uploaded is erased without the user's agreement.
THEOREM KnownKept == TemporarySpec => []KnownWorkIsKept
<1>1. EndInv => KnownWorkIsKept
  BY DEF EndInv
<1> QED
  BY <1>1, EndInvariant, PTL

================================================================================
