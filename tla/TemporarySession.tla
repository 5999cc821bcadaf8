---------------------------- MODULE TemporarySession ----------------------------
(* A temporary workspace of one browser tab, from "public / temporary device"   *)
(* to "finish on this device":                                                   *)
(*   temporaryWorkspace.ts      the registry, the marker of the tab, databases   *)
(*   temporaryDeviceSession.ts  provenance, clean-up, leaving an empty workspace *)
(*   paperCoordinator.ts        setDeviceMode, finishTemporaryDevice, uploads    *)
(* Finishing runs inside withDriveOperationsQuiesced, so this module is composed *)
(* with OperationOwner: its operations are those of OperationOwner, its finish   *)
(* one of the closers. Meanwhile the editors of the page write what was edited   *)
(* to the databases the marker of the tab names at that moment.                  *)
(*                                                                               *)
(* One workspace is looked at until it is given up; the next has its own id and  *)
(* databases. Left out: closing the tab, after which nothing of the workspace    *)
(* can be reached; a second account; the keys of the workspace in the AI storage; *)
(* the finish phase and the papers listed in the provenance, stored and not read. *)

EXTENDS OperationOwner

CONSTANTS Upload,  \* the operation that uploads the selected papers
          Finish   \* the closer that finishes on this device

ASSUME UploadAssumption == Upload \in Retained

ASSUME FinishAssumption == Finish \in Closer

VARIABLES page,       \* the workspace the open page was loaded in
          marker,     \* sessionStorage names the workspace
          registered, \* the registry has it
          stored,     \* its databases that hold records of the user
          opened,     \* those the page opened again after they were closed
          provenance, \* the synchronisation database has the session's provenance
          binding,    \* history: there was none yet, there was one, a clean-up was torn
          token,      \* sessionStorage has a device session
          live,       \* the broker honours the session the tab got last
          unsaved,    \* an editor has changes it has not written
          work,       \* of what was written: nothing is there, all is uploaded, or not all
          sending,    \* nothing was written since the running upload read the paper
          way,        \* which change of workspace is under way
          step,       \* and how far it is
          abandon,    \* the user agreed to leave what is not uploaded
          late,       \* something was written since the check of what is not uploaded
          lost        \* history: what was erased, neither uploaded nor agreed to

session == <<page, marker, registered, stored, opened, provenance, binding, token, live,
             unsaved, work, sending, way, step, abandon, late, lost>>

workspace == <<page, marker, registered, provenance, binding, token, live>>

Content == {"annotations", "productivity"}

Database == Content \cup {"sync"}

\* Mutant: the databases of the papers only.
AfterDeletionOfPapers == [annotations |-> "sync", productivity |-> "sync",
                          sync |-> "unregister"]

\* A step named as a database deletes it.
AfterDeletion == [annotations |-> "productivity", productivity |-> "sync",
                  sync |-> "unregister"]

Ways == {"stay", "begin", "finish", "leave"}

Steps == {"no", "mark", "upload", "drain", "revoke", "clear", "close", "unregister",
          "unmark", "done"} \cup Database

\* The provenance is gone and the databases go.
Erasing == {"close", "unregister", "unmark", "done"} \cup Database

Flags ==
    /\ marker \in BOOLEAN /\ registered \in BOOLEAN /\ provenance \in BOOLEAN
    /\ token \in BOOLEAN /\ live \in BOOLEAN
    /\ unsaved \in BOOLEAN /\ sending \in BOOLEAN
    /\ abandon \in BOOLEAN /\ late \in BOOLEAN

TemporaryTypeOK ==
    /\ Flags
    /\ page \in {"personal", "temporary"}
    /\ stored \subseteq Database /\ opened \subseteq Database
    /\ binding \in {"none", "bound", "torn"}
    /\ work \in {"none", "uploaded", "pending"}
    /\ way \in Ways /\ step \in Steps
    /\ lost \in {"nothing", "known"} \cup Ways

TemporaryInit ==
    /\ Init
    /\ page = "personal"
    /\ marker = FALSE /\ registered = FALSE
    /\ stored = {} /\ opened = {}
    /\ provenance = FALSE /\ binding = "none"
    /\ token = FALSE /\ live = FALSE
    /\ unsaved = FALSE /\ work = "none" /\ sending = FALSE
    /\ way = "stay" /\ step = "no" /\ abandon = FALSE /\ late = FALSE
    /\ lost = "nothing"

Stay == way' = "stay" /\ step' = "no"

At(w, s) == way = w /\ step = s

\* What was written is no longer within reach: known to whoever decided, or written since.
Loses ==
    lost' = IF work = "pending" /\ ~abandon /\ lost # "known"
            THEN IF late THEN way ELSE "known"
            ELSE lost

--------------------------------------------------------------------------------
(* The editors *)

Edit ==
    /\ ~unsaved
    /\ unsaved' = TRUE
    /\ UNCHANGED <<vars, workspace, stored, opened, work, sending, way, step, abandon,
                   late, lost>>

\* A debounced write, a flush, or the end of an answer of the assistant: the record, and
\* the dirty mark of its paper. Without a marker both go to the personal databases.
Save ==
    /\ unsaved
    /\ unsaved' = FALSE
    /\ IF marker
       THEN \E d \in Content :
                /\ stored' = stored \cup {d, "sync"}
                /\ opened' = IF step \in Erasing THEN opened \cup {d, "sync"} ELSE opened
                /\ work' = "pending" /\ sending' = FALSE
                /\ late' = (late \/ step \in {"drain", "revoke", "clear"} \cup Erasing)
       ELSE UNCHANGED <<stored, opened, work, sending, late>>
    /\ UNCHANGED <<vars, workspace, way, step, abandon, lost>>

--------------------------------------------------------------------------------
(* Beginning a temporary workspace, connecting it, opening the page again *)

\* setDeviceMode("temporary"): the registry first, then the marker. A marker that is
\* already there belongs to a workspace the page will be in when it is loaded again.
Register ==
    /\ way = "stay" /\ page = "personal" /\ ~marker /\ ~unsaved
    /\ registered' = TRUE
    /\ way' = "begin" /\ step' = "mark"
    /\ UNCHANGED <<vars, page, marker, provenance, binding, token, live, stored, opened,
                   unsaved, work, sending, abandon, late, lost>>

Mark ==
    /\ At("begin", "mark")
    /\ marker' = TRUE
    /\ stored' = {} /\ opened' = {} /\ work' = "none"
    /\ provenance' = FALSE /\ binding' = "none"
    /\ lost' = "nothing"
    /\ Stay
    /\ UNCHANGED <<vars, page, registered, token, live, unsaved, sending, abandon, late>>

MarkFails ==
    /\ At("begin", "mark")
    /\ registered' = FALSE
    /\ Stay
    /\ UNCHANGED <<vars, page, marker, provenance, binding, token, live, stored, opened,
                   unsaved, work, sending, abandon, late, lost>>

\* What an operation or a session that is being closed leaves when its page goes is what
\* its failure leaves; so the page goes when nobody waits.
Unattended ==
    /\ \A t \in Task : pc[t] # "waiting"
    /\ \A q \in Closer : closing[q] # "draining"

\* The page is loaded again: with a new coordinator, in the workspace of the marker.
Opens ==
    /\ Unattended
    /\ pc' = [t \in Task |-> "idle"]
    /\ ahead' = [t \in Task |-> {}]
    /\ stale' = {} /\ aborted' = {} /\ controller' = None
    /\ outstanding' = 0 /\ suspensions' = 0
    /\ closing' = [q \in Closer |-> "no"]
    /\ drain' = [q \in Closer |-> {}] /\ settling' = [q \in Closer |-> {}]
    /\ destroyed' = FALSE
    /\ page' = IF marker THEN "temporary" ELSE "personal"
    /\ registered' = (registered /\ marker)
    /\ opened' = {}
    /\ unsaved' = FALSE /\ sending' = FALSE
    /\ Stay
    /\ abandon' = FALSE /\ late' = FALSE
    /\ UNCHANGED <<marker, stored, work, lost>>

\* The account of a session the broker honours.
Binds == registered /\ provenance' = TRUE /\ binding' = "bound"

\* Twelve hours after it was given.
Expire ==
    /\ live
    /\ live' = FALSE
    /\ UNCHANGED <<vars, page, marker, registered, provenance, binding, token, stored, opened,
                   unsaved, work, sending, way, step, abandon, late, lost>>

\* A page does not take over a session that has expired.
Kept == token' = token \/ (~live' /\ token' = FALSE)

\* initializeOnce without a grant
Reload ==
    /\ Opens
    /\ UNCHANGED live
    /\ \/ marker /\ token /\ live /\ Binds /\ UNCHANGED token
       \/ /\ Kept
          /\ binding' = IF way = "finish" /\ step \in Erasing THEN "torn" ELSE binding
          /\ UNCHANGED provenance

\* connect() or reconnect() leaves the page; the next one exchanges the grant, which ends
\* the session of before, and binds the account, if neither that nor reading the
\* sessions fails.
Connect ==
    /\ way = "stay" /\ page = "temporary" /\ marker
    /\ Opens
    /\ \/ token' = TRUE /\ live' = TRUE /\ (Binds \/ UNCHANGED <<provenance, binding>>)
       \/ (live' = live \/ live' = FALSE) /\ Kept /\ UNCHANGED <<provenance, binding>>

\* ensureRepository of an operation that is the first to need the managed folder.
BeginProvenance ==
    /\ page = "temporary" /\ marker /\ token /\ live
    /\ ~provenance
    /\ \E t \in Task : pc[t] = "owner"
    /\ Binds
    /\ UNCHANGED <<vars, page, marker, registered, token, live, stored, opened, unsaved,
                   work, sending, way, step, abandon, late, lost>>

--------------------------------------------------------------------------------
(* The operations, the upload among them, and the other ways to close the session *)

Operates ==
    /\ \/ \E t \in Task : Start(t) \/ Settle(t) \/ Reject(t)
       \/ \E t \in Task : (t = Upload => ~unsaved) /\ Begin(t)
       \/ \E t \in Task \ {Upload} : Acquire(t) \/ End(t)
       \/ Cancel
       \/ \E q \in Closer \ {Finish} : Suspend(q) \/ BecomeQuiet(q)
    /\ UNCHANGED session

\* The upload owns Drive and reads the paper at its dirty generation.
StartUpload ==
    /\ Acquire(Upload)
    /\ sending' = (work = "pending")
    /\ UNCHANGED <<workspace, stored, opened, unsaved, work, way, step, abandon, late, lost>>

\* It fails, or it settles: the paper is clean unless it was written meanwhile.
EndUpload ==
    /\ End(Upload)
    /\ \/ UNCHANGED work
       \/ token /\ live /\ sending /\ work' = "uploaded"
    /\ sending' = FALSE
    /\ UNCHANGED <<workspace, stored, opened, unsaved, way, step, abandon, late, lost>>

\* disconnectCurrent, if there is a session to disconnect.
SessionEnds ==
    \/ token /\ live /\ token' = FALSE /\ live' = FALSE
    \/ ~token /\ UNCHANGED <<token, live>>

\* Refused, not sent, or done and the answer is lost.
RevocationFails == token /\ token' = token /\ (live' = live \/ live' = FALSE)

Disconnect(q) ==
    /\ Resume(q)
    /\ SessionEnds \/ RevocationFails
    /\ UNCHANGED <<page, marker, registered, provenance, binding, stored, opened, unsaved,
                   work, sending, way, step, abandon, late, lost>>

--------------------------------------------------------------------------------
(* Finish on this device *)

\* finishTemporaryDeviceOwned with a selection: the upload starts, or the running one
\* is waited for.
FinishUploads ==
    /\ way = "stay" /\ page = "temporary" /\ ~unsaved
    /\ work = "pending" /\ provenance
    /\ way' = "finish" /\ step' = "upload"
    /\ abandon' \in BOOLEAN
    /\ \/ Start(Upload)
       \/ pc[Upload] # "idle" /\ UNCHANGED vars
    /\ UNCHANGED <<workspace, stored, opened, unsaved, work, sending, late, lost>>

Uploaded == At("finish", "upload") /\ pc[Upload] = "idle"

\* Mutant: an upload is taken for granted.
FinishChecksFirst ==
    /\ \/ /\ way = "stay" /\ page = "temporary" /\ ~unsaved /\ abandon' \in BOOLEAN
          /\ work = "pending" => abandon'
       \/ Uploaded /\ UNCHANGED abandon
    /\ Suspend(Finish)
    /\ way' = "finish" /\ step' = "drain"
    /\ late' = FALSE
    /\ UNCHANGED <<workspace, stored, opened, unsaved, work, sending, lost>>

\* Of the papers still dirty the user has to have agreed to abandon them: then the
\* operations are told to stop, in the same breath.
FinishChecks ==
    /\ \/ way = "stay" /\ page = "temporary" /\ ~unsaved /\ abandon' \in BOOLEAN
       \/ Uploaded /\ UNCHANGED abandon
    /\ work = "pending" => abandon'
    /\ Suspend(Finish)
    /\ way' = "finish" /\ step' = "drain"
    /\ late' = FALSE
    /\ UNCHANGED <<workspace, stored, opened, unsaved, work, sending, lost>>

\* The upload failed, or TemporaryDirtyWorkError.
FinishRefused ==
    /\ Uploaded
    /\ Stay
    /\ UNCHANGED <<vars, workspace, stored, opened, unsaved, work, sending, abandon, late,
                   lost>>

FinishDrained ==
    /\ At("finish", "drain")
    /\ BecomeQuiet(Finish)
    /\ step' = "revoke"
    /\ UNCHANGED <<workspace, stored, opened, unsaved, work, sending, way, abandon, late,
                   lost>>

\* Mutant: the clean-up does not wait for the revocation to succeed.
FinishRevokesAnyway ==
    /\ At("finish", "revoke")
    /\ provenance
    /\ SessionEnds \/ RevocationFails
    /\ step' = "clear"
    /\ UNCHANGED <<vars, page, marker, registered, provenance, binding, stored, opened,
                   unsaved, work, sending, way, abandon, late, lost>>

FinishRevokes ==
    /\ At("finish", "revoke")
    /\ provenance
    /\ SessionEnds
    /\ step' = "clear"
    /\ UNCHANGED <<vars, page, marker, registered, provenance, binding, stored, opened,
                   unsaved, work, sending, way, abandon, late, lost>>

\* No provenance to set the phase of, or the broker does not answer or refuses.
FinishNotRevoked ==
    /\ At("finish", "revoke")
    /\ Resume(Finish)
    /\ \/ ~provenance /\ UNCHANGED <<token, live>>
       \/ provenance /\ RevocationFails
    /\ Stay
    /\ UNCHANGED <<page, marker, registered, provenance, binding, stored, opened, unsaved,
                   work, sending, abandon, late, lost>>

\* cleanupTemporaryOrigin, up to the end of the provenance
ClearProvenance ==
    /\ At("finish", "clear")
    /\ marker /\ registered /\ provenance /\ ~unsaved
    /\ provenance' = FALSE
    /\ step' = "close"
    /\ UNCHANGED <<vars, page, marker, registered, binding, token, live, stored, opened,
                   unsaved, work, sending, way, abandon, late, lost>>

\* Mutant: the provenance is not put back.
CleanupForgets ==
    /\ way = "finish" /\ step \in {"clear", "close", "unregister"} \cup (Database \ opened)
    /\ Resume(Finish)
    /\ Stay
    /\ UNCHANGED <<workspace, stored, opened, unsaved, work, sending, abandon, late, lost>>

\* A failed write or deletion, or a workspace that cannot be verified: the provenance is
\* put back, if that does not fail as well.
CleanupFails ==
    /\ way = "finish" /\ step \in {"clear", "close", "unregister"} \cup (Database \ opened)
    /\ Resume(Finish)
    /\ \/ step = "clear" /\ UNCHANGED <<provenance, binding>>
       \/ step # "clear" /\ provenance' = TRUE /\ UNCHANGED binding
       \/ step # "clear" /\ provenance' = FALSE /\ binding' = "torn"
    /\ Stay
    /\ UNCHANGED <<page, marker, registered, token, live, stored, opened, unsaved, work,
                   sending, abandon, late, lost>>

\* The finish is over; the page is about to be loaded again.
FinishReturns ==
    /\ At("finish", "done")
    /\ Resume(Finish)
    /\ Stay
    /\ UNCHANGED <<workspace, stored, opened, unsaved, work, sending, abandon, late, lost>>

--------------------------------------------------------------------------------
(* The end of a workspace, finished or left *)

\* setDeviceMode("personal"): leaveEmptyTemporaryWorkspace, with nothing to find.
Leave ==
    /\ way = "stay" /\ page = "temporary" /\ ~token
    /\ marker /\ registered /\ ~unsaved
    /\ stored = {} /\ ~provenance
    /\ way' = "leave" /\ step' = "close"
    /\ late' = FALSE /\ abandon' = FALSE
    /\ UNCHANGED <<vars, workspace, stored, opened, unsaved, work, sending, lost>>

LeaveFails ==
    /\ way = "leave" /\ step \in {"close", "unregister"} \cup (Database \ opened)
    /\ Stay
    /\ UNCHANGED <<vars, workspace, stored, opened, unsaved, work, sending, abandon, late,
                   lost>>

CloseDatabases ==
    /\ step = "close"
    /\ opened' = {}
    /\ step' = "annotations"
    /\ UNCHANGED <<vars, workspace, stored, unsaved, work, sending, way, abandon, late, lost>>

\* deleteDB waits for a connection that the page opened again, and nothing closes one.
DeleteDatabase ==
    /\ step \in Database \ opened
    /\ stored' = stored \ {step}
    /\ provenance' = (provenance /\ step # "sync")
    /\ IF stored' \cap Content = {} THEN work' = "none" /\ Loses ELSE UNCHANGED <<work, lost>>
    /\ step' = AfterDeletion[step]
    /\ UNCHANGED <<vars, page, marker, registered, binding, token, live, opened, unsaved,
                   sending, way, abandon, late>>

Unregister ==
    /\ step = "unregister"
    /\ registered' = FALSE
    /\ step' = "unmark"
    /\ UNCHANGED <<vars, page, marker, provenance, binding, token, live, stored, opened,
                   unsaved, work, sending, way, abandon, late, lost>>

Unmark ==
    /\ step = "unmark"
    /\ marker' = FALSE
    /\ Loses
    /\ IF way = "finish" THEN way' = way /\ step' = "done" ELSE Stay
    /\ UNCHANGED <<vars, page, registered, provenance, binding, token, live, stored, opened,
                   unsaved, work, sending, abandon, late>>

--------------------------------------------------------------------------------

TemporaryNext ==
    \/ Edit \/ Save
    \/ Register \/ Mark \/ MarkFails \/ Expire \/ Reload \/ Connect \/ BeginProvenance
    \/ Operates \/ StartUpload \/ EndUpload
    \/ \E q \in Closer \ {Finish} : Disconnect(q)
    \/ FinishUploads \/ FinishChecks \/ FinishRefused \/ FinishDrained
    \/ FinishRevokes \/ FinishNotRevoked \/ ClearProvenance \/ CleanupFails \/ FinishReturns
    \/ Leave \/ LeaveFails
    \/ CloseDatabases \/ DeleteDatabase \/ Unregister \/ Unmark

TemporarySpec == TemporaryInit /\ [][TemporaryNext]_<<vars, session>>

--------------------------------------------------------------------------------
(* Properties *)

\* Local data goes only after the device session: while a clean-up erases, and once the
\* workspace is given up, the broker honours no session of it, however often the
\* revocation failed, its answer was lost or the page was opened again before.
ErasedIsRevoked == (~marker \/ (way = "finish" /\ step \in Erasing)) => ~live

\* A clean-up that fails can be tried again: the provenance without which Finish refuses
\* to run, and which keeps the workspace from being left as if it were empty, is back
\* when the failed clean-up is over. Excused is a page closed in the middle of one.
FailedCleanupCanBeRetried ==
    (binding = "bound" /\ marker /\ ~(way = "finish" /\ step \in Erasing))
        => provenance /\ registered

\* When the tab gives a workspace up its databases are gone, but for those an editor
\* wrote to, and thereby made again, after the clean-up had closed them.
GivenUpIsErased == [][marker /\ ~marker' => stored \subseteq opened]_<<vars, session>>

\* What was written before the user was asked is uploaded before it is erased, or the user
\* agreed to lose it; an edit in the middle of the upload is asked about as well.
KnownWorkIsKept == lost # "known"

\* "Finish refuses silent abandonment of remaining dirty work." It does not: the check
\* comes before the wait for the operations, the revocation and the clean-up, and what
\* is written in the meantime is erased unasked.
FinishAsks == lost # "finish"

================================================================================
