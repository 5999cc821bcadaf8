----------------------------- MODULE OperationOwner -----------------------------
(* Who may work on Google Drive: SerializedDriveOperationOwner and its callers  *)
(* in paperCoordinator.ts. Operations own Drive one at a time, first come first *)
(* served. Closing the session (disconnect, disconnect all, finish on a          *)
(* temporary device) rejects what waits, aborts the owner, waits for both and   *)
(* for the retained commands, and only then takes the account away.             *)
(*                                                                              *)
(* The tail of promises is the set "ahead" of those a waiting operation waits   *)
(* for. An admission epoch is only compared with the current one: "stale" holds *)
(* the operations admitted in an earlier one.                                   *)

EXTENDS Integers, FiniteSets

CONSTANTS Task,      \* operations: a scan, an upload, a removal...
          Retained,  \* those started by a retained command of the user
          Closer,    \* callers of withDriveOperationsQuiesced
          None

ASSUME TaskAssumption == IsFiniteSet(Task) /\ Retained \subseteq Task /\ None \notin Task

ASSUME CloserAssumption == IsFiniteSet(Closer)

VARIABLES pc,          \* where each operation is
          ahead,       \* whose release it waits for
          stale,       \* admitted in an earlier epoch
          controller,  \* the operation whose controller is the current one
          aborted,     \* operations whose signal is aborted
          outstanding, \* outstandingOperations
          suspensions, \* suspensionCount, and driveOperationSuspensionCount
          closing,     \* where each caller is in withDriveOperationsQuiesced
          drain,       \* the operations whose release it waits for
          settling,    \* the retained commands it waits for
          destroyed

vars == <<pc, ahead, stale, controller, aborted, outstanding, suspensions, closing, drain,
          settling, destroyed>>

\* Of a command: not running, running, waiting in begin(), owner of Drive.
Places == {"idle", "running", "waiting", "owner"}

\* Promises of the tail that are not resolved.
Holders == {t \in Task : pc[t] \in {"waiting", "owner"}}

ActiveCommands == {t \in Retained : pc[t] # "idle"}

TypeOK ==
    /\ pc \in [Task -> Places]
    /\ ahead \in [Task -> SUBSET Task]
    /\ stale \subseteq Task /\ aborted \subseteq Task
    /\ controller \in Task \cup {None}
    /\ outstanding \in Nat /\ suspensions \in Nat
    /\ closing \in [Closer -> {"no", "draining", "quiet"}]
    /\ drain \in [Closer -> SUBSET Task] /\ settling \in [Closer -> SUBSET Retained]
    /\ destroyed \in BOOLEAN

Init ==
    /\ pc = [t \in Task |-> "idle"]
    /\ ahead = [t \in Task |-> {}]
    /\ stale = {} /\ aborted = {}
    /\ controller = None
    /\ outstanding = 0 /\ suspensions = 0
    /\ closing = [q \in Closer |-> "no"]
    /\ drain = [q \in Closer |-> {}] /\ settling = [q \in Closer |-> {}]
    /\ destroyed = FALSE

--------------------------------------------------------------------------------
(* Operations *)

\* A scan is started by a timer or another part of the coordinator at any time, a
\* retained command (retainPaperOperation) not while a session closes.
Start(t) ==
    /\ pc[t] = "idle"
    /\ t \in Retained => suspensions = 0
    /\ pc' = [pc EXCEPT ![t] = "running"]
    /\ UNCHANGED <<ahead, stale, controller, aborted, outstanding, suspensions, closing,
                   drain, settling, destroyed>>

\* The command is over: refused by begin(), done, or with nothing to do.
Settle(t) ==
    /\ pc[t] = "running"
    /\ pc' = [pc EXCEPT ![t] = "idle"]
    /\ UNCHANGED <<ahead, stale, controller, aborted, outstanding, suspensions, closing,
                   drain, settling, destroyed>>

\* Mutant: the operation waits for the owner only, not for the others that wait.
BeginBehindOwner(t) ==
    /\ pc[t] = "running"
    /\ ~destroyed /\ suspensions = 0
    /\ pc' = [pc EXCEPT ![t] = "waiting"]
    /\ ahead' = [ahead EXCEPT ![t] = {u \in Holders : controller = u}]
    /\ outstanding' = outstanding + 1
    /\ UNCHANGED <<stale, controller, aborted, suspensions, closing, drain, settling,
                   destroyed>>

\* begin(), up to its await
Begin(t) ==
    /\ pc[t] = "running"
    /\ ~destroyed /\ suspensions = 0
    /\ pc' = [pc EXCEPT ![t] = "waiting"]
    /\ ahead' = [ahead EXCEPT ![t] = Holders]
    /\ outstanding' = outstanding + 1
    /\ UNCHANGED <<stale, controller, aborted, suspensions, closing, drain, settling,
                   destroyed>>

Rejected(t) == destroyed \/ suspensions > 0 \/ t \in stale

\* The operation leaves the tail; its epoch and its signal go with it.
Release(t) ==
    /\ ahead' = [u \in Task |-> ahead[u] \ {t}]
    /\ stale' = stale \ {t} /\ aborted' = aborted \ {t}

\* Mutant: who was let in is not checked again after the wait.
AcquireUnchecked(t) ==
    /\ pc[t] = "waiting" /\ ahead[t] = {}
    /\ pc' = [pc EXCEPT ![t] = "owner"]
    /\ controller' = t
    /\ UNCHANGED <<ahead, stale, aborted, outstanding, suspensions, closing, drain,
                   settling, destroyed>>

\* begin(), from its await
Acquire(t) ==
    /\ pc[t] = "waiting" /\ ahead[t] = {}
    /\ ~Rejected(t)
    /\ pc' = [pc EXCEPT ![t] = "owner"]
    /\ controller' = t
    /\ UNCHANGED <<ahead, stale, aborted, outstanding, suspensions, closing, drain,
                   settling, destroyed>>

\* Mutant: a rejected operation stays in the tail.
RejectInPlace(t) ==
    /\ pc[t] = "waiting" /\ ahead[t] = {}
    /\ Rejected(t)
    /\ pc' = [pc EXCEPT ![t] = "running"]
    /\ outstanding' = outstanding - 1
    /\ UNCHANGED <<ahead, stale, controller, aborted, suspensions, closing, drain, settling,
                   destroyed>>

Reject(t) ==
    /\ pc[t] = "waiting" /\ ahead[t] = {}
    /\ Rejected(t)
    /\ pc' = [pc EXCEPT ![t] = "running"]
    /\ outstanding' = outstanding - 1
    /\ Release(t)
    /\ UNCHANGED <<controller, suspensions, closing, drain, settling,
                   destroyed>>

\* end(), in the finally of every operation
End(t) ==
    /\ pc[t] = "owner"
    /\ pc' = [pc EXCEPT ![t] = "running"]
    /\ outstanding' = outstanding - 1
    /\ controller' = IF controller = t THEN None ELSE controller
    /\ Release(t)
    /\ UNCHANGED <<suspensions, closing, drain, settling, destroyed>>

--------------------------------------------------------------------------------
(* Cancelling, closing the session, the end of the coordinator *)

Aborted == IF controller = None THEN aborted ELSE aborted \cup {controller}

Cancel ==
    /\ aborted' = Aborted
    /\ UNCHANGED <<pc, ahead, stale, controller, outstanding, suspensions, closing, drain,
                   settling, destroyed>>

\* withDriveOperationsQuiesced and suspendAndDrain, up to their awaits
Suspend(q) ==
    /\ closing[q] = "no"
    /\ closing' = [closing EXCEPT ![q] = "draining"]
    /\ suspensions' = suspensions + 1
    /\ stale' = stale \cup Holders
    /\ aborted' = Aborted
    /\ drain' = [drain EXCEPT ![q] = Holders]
    /\ settling' = [settling EXCEPT ![q] = ActiveCommands]
    /\ UNCHANGED <<pc, ahead, controller, outstanding, destroyed>>

\* Mutant: only the owner is waited for.
BecomeQuietEarly(q) ==
    /\ closing[q] = "draining"
    /\ drain[q] \cap Holders = {}
    /\ closing' = [closing EXCEPT ![q] = "quiet"]
    /\ drain' = [drain EXCEPT ![q] = {}] /\ settling' = [settling EXCEPT ![q] = {}]
    /\ UNCHANGED <<pc, ahead, stale, controller, aborted, outstanding, suspensions, destroyed>>

\* The awaits are over and the task of the caller runs.
BecomeQuiet(q) ==
    /\ closing[q] = "draining"
    /\ drain[q] \cap Holders = {}
    /\ settling[q] \cap ActiveCommands = {}
    /\ closing' = [closing EXCEPT ![q] = "quiet"]
    /\ drain' = [drain EXCEPT ![q] = {}] /\ settling' = [settling EXCEPT ![q] = {}]
    /\ UNCHANGED <<pc, ahead, stale, controller, aborted, outstanding, suspensions, destroyed>>

\* The task is over or has failed: resume().
Resume(q) ==
    /\ closing[q] = "quiet"
    /\ closing' = [closing EXCEPT ![q] = "no"]
    /\ suspensions' = suspensions - 1
    /\ UNCHANGED <<pc, ahead, stale, controller, aborted, outstanding, drain, settling,
                   destroyed>>

Destroy ==
    /\ ~destroyed
    /\ destroyed' = TRUE
    /\ stale' = stale \cup Holders
    /\ aborted' = Aborted
    /\ UNCHANGED <<pc, ahead, controller, outstanding, suspensions, closing, drain, settling>>

--------------------------------------------------------------------------------

Progress(t) == Begin(t) \/ Acquire(t) \/ Reject(t) \/ End(t) \/ Settle(t)

Next ==
    \/ \E t \in Task : Start(t) \/ Progress(t)
    \/ \E q \in Closer : Suspend(q) \/ BecomeQuiet(q) \/ Resume(q)
    \/ Cancel \/ Destroy

\* Promises that can resolve do, and every operation ends in its finally.
Fairness ==
    /\ \A t \in Task : WF_vars(Progress(t))
    /\ \A q \in Closer : WF_vars(BecomeQuiet(q))

Spec == Init /\ [][Next]_vars /\ Fairness

--------------------------------------------------------------------------------
(* Properties *)

\* Two operations never work on Drive at once, and cancel() reaches the one that does:
\* whoever was rejected, aborted or ended in between, the current controller is the
\* owner's.
OneOwner == \A t \in Task : pc[t] = "owner" <=> controller = t

\* While a session closes, an operation that still owns Drive has been told to abort:
\* none of those that waited comes into its place.
OwnerWhileClosingIsAborted ==
    \A t \in Task : pc[t] = "owner" /\ (suspensions > 0 \/ destroyed) => t \in aborted

\* When the account is taken away nothing uses it: no operation owns Drive or waits
\* for it and no command is halfway, two sessions closing at once included.
QuietMeansNobody ==
    (\E q \in Closer : closing[q] = "quiet") => Holders = {} /\ ActiveCommands = {}

\* "active" says whether any operation owns Drive or waits for it.
ActiveIsAccurate == outstanding = Cardinality(Holders)

\* Closing a session comes to its end, whatever waits, owns Drive or is halfway.
ClosingEnds == \A q \in Closer : closing[q] = "draining" ~> closing[q] = "quiet"

\* Whoever waits for Drive gets it or is told that it will not.
WaitingEnds == \A t \in Task : pc[t] = "waiting" ~> pc[t] # "waiting"

================================================================================
