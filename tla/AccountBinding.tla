---------------------------- MODULE AccountBinding ----------------------------
(* Which Google account and which Drive folder a browser works with: the OAuth    *)
(* broker (sync-worker), the session a page holds (googleIdentity.ts), and what    *)
(* paperCoordinator.ts keeps of an account in IndexedDB: the device profile, the   *)
(* sync state of the papers and the catalog. Connecting leaves the page for         *)
(* Google's; the page that is loaded on return exchanges its grant for a session   *)
(* and binds the account, in several writes of which any may fail or be the last.  *)
(*                                                                                 *)
(* One browser and one paper. Other browsers of the same accounts authorize,       *)
(* refresh, disconnect and publish. Abstracted: a transfer and the reading of      *)
(* Drive are one step (PaperSync, LocalRemoval and DiscoveryCatalog have their     *)
(* steps); a request with a session of the account may be served or fail; tokens,  *)
(* challenges and expiry; temporary devices.                                       *)

EXTENDS Integers, Sequences, FiniteSets

CONSTANTS Account,
          Root,         \* managed folders there may be
          Owner,        \* the account of each
          None,
          MaxNotes,     \* bound: notes written on any device
          MaxSessions,  \* bound: sessions of this browser
          MaxElsewhere  \* bound: what others do to the accounts, folders and sessions

ASSUME OwnerAssumption == Owner \in [Root -> Account] /\ None \notin Account \cup Root
ASSUME BoundAssumption == MaxNotes \in Nat /\ MaxSessions \in Nat /\ MaxElsewhere \in Nat

VARIABLES user,       \* broker: the refresh token of each account
          sessions,   \* broker: sessions of this browser, by the order they were created
          refreshing, \* broker: accounts with a refresh on its way to Google and back
          exchange,   \* broker: the exchange of a grant, or None
          roots,      \* Drive: managed folders
          drive,      \* Drive: the paper in each, and how often it changed
          disk,       \* IndexedDB: profile, state and catalog
          local,      \* IndexedDB: the paper itself
          arriving,   \* the account of the grant the next page is loaded with, or None
          page,       \* the page
          written,    \* bound: notes written so far
          elsewhere,  \* bound: what others have done so far
          ended,      \* history: sessions there were when everything was disconnected
          excused     \* history: what no code path made up for, of Excuses

vars == <<user, sessions, refreshing, exchange, roots, drive, disk, local, arriving, page,
          written, elsewhere, ended, excused>>

broker == <<user, sessions, refreshing, exchange, ended>>
cloud == <<roots, drive>>

--------------------------------------------------------------------------------

Note == 1..MaxNotes

Steps == {"closed", "exchange", "bind", "catalog", "profile", "idle", "commit"}

\* "torn": the binding of another account was interrupted, or the paper removed between its
\* writes, when its state was severed and the catalog not yet emptied; "forgotten": an
\* account was bound after the one the paper's state is about had been forgotten;
\* "rerooted": another folder of the account was taken.
Excuses == {"torn", "forgotten", "rerooted"}

Optional(S) == S \cup {None}

Cursor == [account : Account, root : Root, at : Nat]

\* PaperSyncDeviceProfile. A session is known by its position in sessions, 0 is none.
Profile == [account : Optional(Account), token : Nat, root : Optional(Root),
            cursor : Optional(Cursor)]

\* PaperSyncState: "known" is the folder its remote heads and files are in.
PaperState == [avail : {"local-only", "local-and-cloud", "cloud-only"}, dirty : BOOLEAN,
               known : Optional(Root)]

\* PaperCloudSummary: the folder it was read in, and the change it shows
Summary == [root : Root, at : Nat, ok : BOOLEAN]

ASSUME NoneAssumption == None \notin PaperState /\ None \notin Summary

NoProfile == [account |-> None, token |-> 0, root |-> None, cursor |-> None]

Stored == [profile |-> NoProfile, sync |-> None, catalog |-> None]

\* Beside what it loaded, a page has its session, the folder of its repository,
\* the account it binds and the position it will commit.
Closed == [step |-> "closed", profile |-> NoProfile, sync |-> None, catalog |-> None,
           session |-> 0, repository |-> None, binding |-> None, position |-> 0]

Init ==
    /\ user = [a \in Account |-> "none"] /\ sessions = <<>> /\ refreshing = {}
    /\ exchange = None /\ ended = {}
    /\ roots = {}
    /\ drive = [r \in Root |-> [notes |-> {}, at |-> 0]]
    /\ disk = Stored /\ local = [present |-> FALSE, notes |-> {}]
    /\ arriving = None /\ page = Closed
    /\ written = 0 /\ elsewhere = 0 /\ excused = {}

At(step) == page.step = step

\* The profile is saved as it is in memory.
Saved(profile) == [disk EXCEPT !.profile = profile]

--------------------------------------------------------------------------------
(* The broker *)

\* getAuthenticatedSession
Authenticates(s) == s > 0 /\ sessions[s].active /\ user[sessions[s].account] = "active"

\* Mutant: only the refresh token is given up.
RevokeUserOnly(a) ==
    /\ user' = [user EXCEPT ![a] = "revoked"]
    /\ ended' = ended \cup {s \in DOMAIN sessions : sessions[s].account = a}
    /\ UNCHANGED sessions

\* revokeUserAndSessions, one batch
RevokeUserAndSessions(a) ==
    /\ user' = [user EXCEPT ![a] = "revoked"]
    /\ sessions' = [s \in DOMAIN sessions |->
                      IF sessions[s].account = a THEN [sessions[s] EXCEPT !.active = FALSE]
                      ELSE sessions[s]]
    /\ ended' = ended \cup {s \in DOMAIN sessions : sessions[s].account = a}

\* The exchange of a grant, before its first write: the user has not been revoked.
CheckGrant ==
    /\ exchange # None /\ exchange.step = "check"
    /\ IF user[exchange.account] = "active"
       THEN exchange' = [exchange EXCEPT !.step = "create"] /\ UNCHANGED page
       ELSE /\ exchange' = None
            /\ page' = IF At("exchange") THEN [page EXCEPT !.step = "idle"] ELSE page
    /\ UNCHANGED <<user, sessions, refreshing, ended, cloud, disk, local, arriving, written,
                   elsewhere, excused>>

\* The sessions of the browser are revoked and a new one is created.
CreateSession ==
    /\ exchange # None /\ exchange.step = "create"
    /\ sessions' = Append([s \in DOMAIN sessions |->
                             IF sessions[s].account = exchange.account
                             THEN [sessions[s] EXCEPT !.active = FALSE] ELSE sessions[s]],
                          [account |-> exchange.account, active |-> TRUE])
    /\ exchange' = [exchange EXCEPT !.step = "answer"]
    /\ UNCHANGED <<user, refreshing, ended, cloud, disk, local, arriving, page, written,
                   elsewhere, excused>>

\* A token is requested of Google for a session; meanwhile the account may be disconnected.
BeginRefresh(a) ==
    /\ user[a] = "active" /\ a \notin refreshing
    /\ elsewhere < MaxElsewhere /\ elsewhere' = elsewhere + 1
    /\ refreshing' = refreshing \cup {a}
    /\ UNCHANGED <<user, sessions, exchange, ended, cloud, disk, local, arriving, page, written,
                   excused>>

\* The answer: nothing new, a rotated refresh token, or a refusal.
EndRefresh(a) ==
    /\ a \in refreshing
    /\ refreshing' = refreshing \ {a}
    /\ \/ UNCHANGED <<user, sessions, ended>>
       \/ user' = [user EXCEPT ![a] = "active"] /\ UNCHANGED <<sessions, ended>>
       \/ RevokeUserAndSessions(a)
    /\ UNCHANGED <<exchange, cloud, disk, local, arriving, page, written, elsewhere, excused>>

--------------------------------------------------------------------------------
(* Others *)

AuthorizeElsewhere(a) ==
    /\ user[a] # "active"
    /\ elsewhere < MaxElsewhere /\ elsewhere' = elsewhere + 1
    /\ user' = [user EXCEPT ![a] = "active"]
    /\ UNCHANGED <<sessions, refreshing, exchange, ended, cloud, disk, local, arriving, page,
                   written, excused>>

DisconnectElsewhere(a) ==
    /\ user[a] = "active"
    /\ elsewhere < MaxElsewhere /\ elsewhere' = elsewhere + 1
    /\ RevokeUserAndSessions(a)
    /\ UNCHANGED <<refreshing, exchange, cloud, disk, local, arriving, page, written, excused>>

PublishElsewhere(r) ==
    /\ r \in roots /\ written < MaxNotes
    /\ written' = written + 1
    /\ drive' = [drive EXCEPT ![r] = [notes |-> @.notes \cup {written + 1}, at |-> @.at + 1]]
    /\ UNCHANGED <<broker, roots, disk, local, arriving, page, elsewhere, excused>>

\* A folder is put into the Trash, or appears: another browser made it.
RootChanges(r) ==
    /\ elsewhere < MaxElsewhere /\ elsewhere' = elsewhere + 1
    /\ roots' = IF r \in roots THEN roots \ {r} ELSE roots \cup {r}
    /\ UNCHANGED <<broker, drive, disk, local, arriving, page, written, excused>>

--------------------------------------------------------------------------------
(* The page: initializeOnce and bindAuthorizedAccount *)

\* What is in IndexedDB is loaded; a grant is taken out of the address and exchanged. An
\* earlier exchange is over by the time the user is back from Google.
Load ==
    /\ At("closed")
    /\ arriving # None => exchange = None
    /\ page' = [Closed EXCEPT !.step = IF arriving = None THEN "idle" ELSE "exchange",
                              !.profile = disk.profile, !.sync = disk.sync,
                              !.catalog = disk.catalog, !.session = disk.profile.token]
    /\ arriving' = None
    /\ exchange' = IF arriving = None THEN exchange ELSE [account |-> arriving, step |-> "check"]
    /\ UNCHANGED <<user, sessions, refreshing, ended, cloud, disk, local, written, elsewhere,
                   excused>>

\* beginAuthorization leaves the page; the callback stores the refresh token and comes
\* back with a grant, or without.
Connect(a) ==
    /\ At("idle")
    /\ Len(sessions) < MaxSessions
    /\ page' = Closed
    /\ \/ arriving' = a /\ user' = [user EXCEPT ![a] = "active"]
       \/ UNCHANGED <<arriving, user>>
    /\ UNCHANGED <<sessions, refreshing, exchange, ended, cloud, disk, local, written, elsewhere,
                   excused>>

\* The account the page binds is not the one its profile names.
Severing == page.binding # None /\ page.profile.account \notin {None, page.binding}

\* The page is closed or crashes; the broker goes on with what it was asked.
ClosePage ==
    /\ ~At("closed")
    /\ page' = Closed
    /\ excused' = IF At("profile") /\ Severing THEN excused \cup {"torn"} ELSE excused
    /\ UNCHANGED <<broker, cloud, disk, local, arriving, written, elsewhere>>

\* The answer of the exchange arrives, or is lost on the way.
ReceiveSession ==
    /\ exchange # None /\ exchange.step = "answer"
    /\ exchange' = None
    /\ page' = IF ~At("exchange") THEN page
               ELSE [page EXCEPT !.step = "bind", !.binding = exchange.account,
                                 !.session = Len(sessions)]
    /\ UNCHANGED <<user, sessions, refreshing, ended, cloud, disk, local, arriving, written,
                   elsewhere, excused>>

LoseSession ==
    /\ exchange # None
    /\ At("exchange")
    /\ page' = [page EXCEPT !.step = "idle"]
    /\ UNCHANGED <<broker, cloud, disk, local, arriving, written, elsewhere, excused>>

\* Folders, other than r, the state of the paper or the catalog speaks of
Strange(r) ==
    {x \in Root \ {r} :
        \/ \E s \in {page.sync, disk.sync} : s # None /\ s.known = x
        \/ \E c \in {page.catalog, disk.catalog} : c # None /\ c.root = x}

\* The profile names no account, or this one: nothing is severed.
BindSame ==
    /\ At("bind") /\ ~Severing
    /\ page' = [page EXCEPT !.step = "profile"]
    /\ excused' = IF /\ page.profile.account = None
                     /\ \E x \in Strange(None) : Owner[x] # page.binding
                  THEN excused \cup {"forgotten"} ELSE excused
    /\ UNCHANGED <<broker, cloud, disk, local, arriving, written, elsewhere>>

\* Mutant: what is severed from an account is not marked.
SeveredUnmarked(s) == IF s = None THEN None
                      ELSE [s EXCEPT !.avail = "local-only", !.known = None]

\* A paper of another account is local only, and all of it is to be uploaded.
Severed(s) == IF s = None THEN None
              ELSE [avail |-> "local-only", dirty |-> TRUE, known |-> None]

\* The states are severed in memory, and saved.
SeverStates ==
    /\ At("bind") /\ Severing
    /\ page' = [page EXCEPT !.step = "catalog", !.sync = Severed(@)]
    /\ disk' = [disk EXCEPT !.sync = Severed(page.sync)]
    /\ UNCHANGED <<broker, cloud, local, arriving, written, elsewhere, excused>>

\* Mutant: the catalog is cleared on the screen only.
ClearView ==
    /\ At("catalog")
    /\ page' = [page EXCEPT !.step = "profile", !.catalog = None,
                            !.profile.root = None, !.profile.cursor = None]
    /\ UNCHANGED <<broker, cloud, disk, local, arriving, written, elsewhere, excused>>

\* The stored catalog is emptied, then the one on the screen, the folder and the cursor go.
ClearCatalog ==
    /\ At("catalog")
    /\ disk' = [disk EXCEPT !.catalog = None]
    /\ page' = [page EXCEPT !.step = "profile", !.catalog = None,
                            !.profile.root = None, !.profile.cursor = None]
    /\ UNCHANGED <<broker, cloud, local, arriving, written, elsewhere, excused>>

\* Mutant: the page goes on as if it still bound the account.
BindWithoutEnd ==
    /\ At("profile")
    /\ LET profile == [page.profile EXCEPT !.account = page.binding, !.token = page.session]
       IN  page' = [page EXCEPT !.step = "idle", !.profile = profile] /\ disk' = Saved(profile)
    /\ UNCHANGED <<broker, cloud, local, arriving, written, elsewhere, excused>>

\* The profile gets the account and the session, and is saved.
BindProfile ==
    /\ At("profile")
    /\ LET profile == [page.profile EXCEPT !.account = page.binding, !.token = page.session]
       IN  /\ page' = [page EXCEPT !.step = "idle", !.profile = profile, !.binding = None]
           /\ disk' = Saved(profile)
    /\ UNCHANGED <<broker, cloud, local, arriving, written, elsewhere, excused>>

\* A write of the binding is refused: what was changed in memory stays, the page goes on.
BindFails ==
    /\ page.step \in {"bind", "catalog", "profile"}
    /\ At("bind") => Severing
    /\ page' = [page EXCEPT
                  !.step = "idle", !.binding = None,
                  !.sync = IF At("bind") THEN Severed(@) ELSE @,
                  !.profile.account = IF At("profile") THEN page.binding ELSE @,
                  !.profile.token = IF At("profile") THEN page.session ELSE @]
    /\ excused' = IF Severing THEN excused \cup {"torn"} ELSE excused
    /\ UNCHANGED <<broker, cloud, disk, local, arriving, written, elsewhere>>

\* This browser is disconnected, which takes a session the broker accepts. The answer may
\* be lost, and saving the profile fail.
Disconnect ==
    /\ At("idle")
    /\ page.session > 0 => Authenticates(page.session)
    /\ sessions' = IF page.session = 0 THEN sessions
                   ELSE [sessions EXCEPT ![page.session].active = FALSE]
    /\ LET forgetting == [page EXCEPT !.profile.token = 0, !.session = 0]
       IN  \/ page' \in {page, forgetting} /\ disk' = disk
           \/ /\ page' = [forgetting EXCEPT !.repository = None]
              /\ disk' = Saved(page'.profile)
    /\ UNCHANGED <<user, refreshing, exchange, ended, cloud, local, arriving, written, elsewhere,
                   excused>>

\* Every browser is disconnected, and the account forgotten; the states and the stored
\* catalog stay.
DisconnectAll ==
    /\ At("idle")
    /\ Authenticates(page.session)
    /\ RevokeUserAndSessions(sessions[page.session].account)
    /\ LET forgetting == [page EXCEPT !.profile = NoProfile, !.session = 0]
       IN  \/ page' \in {page, forgetting} /\ disk' = disk
           \/ /\ page' = [forgetting EXCEPT !.repository = None, !.catalog = None]
              /\ disk' = Saved(NoProfile)
    /\ UNCHANGED <<refreshing, exchange, cloud, local, arriving, written, elsewhere, excused>>

--------------------------------------------------------------------------------
(* The folder: ensureRepository, chooseRoot, createReplacementRoot *)

Connected == At("idle") /\ page.session > 0

\* The account the page works with, as Google sees it
Signed == sessions[page.session].account

Mine == {r \in roots : Owner[r] = Signed}

\* Another folder of the account than the state and the catalog speak of
Excusing(r) == IF \E x \in Strange(r) : Owner[x] = Owner[r] THEN excused \cup {"rerooted"}
               ELSE excused

\* The folder r becomes that of the profile and of the repository.
Take(r, profile) ==
    /\ page' = [page EXCEPT !.profile = profile, !.repository = r]
    /\ disk' = Saved(profile)
    /\ excused' = Excusing(r)

\* ensureRepository, until the page has one. A folder the profile names has to be there
\* and of the account; without one, the only folder there is, or a new one.
EnsureRepository ==
    /\ Connected /\ page.repository = None
    /\ \E r \in Root :
         /\ Owner[r] = Signed
         /\ IF page.profile.root # None THEN r = page.profile.root /\ r \in Mine
            ELSE Mine = {r} \/ (Mine = {} /\ drive[r].at = 0)
         /\ roots' = roots \cup {r}
         /\ Take(r, [page.profile EXCEPT !.root = r,
                                         !.cursor = IF page.profile.root = r THEN @ ELSE None])
    /\ UNCHANGED <<broker, drive, local, arriving, written, elsewhere>>

\* A folder is chosen of several, or another one than the profile's. That it was offered
\* does not matter: it is looked up again.
ChooseRoot(r) ==
    /\ Connected
    /\ r \in Mine
    /\ Take(r, [page.profile EXCEPT !.root = r, !.cursor = None])
    /\ UNCHANGED <<broker, cloud, local, arriving, written, elsewhere>>

CreateReplacementRoot(r) ==
    /\ Connected
    /\ Mine = {} /\ Owner[r] = Signed /\ drive[r].at = 0
    /\ roots' = roots \cup {r}
    /\ Take(r, [page.profile EXCEPT !.root = r, !.cursor = None])
    /\ UNCHANGED <<broker, drive, local, arriving, written, elsewhere>>

--------------------------------------------------------------------------------
(* The paper *)

\* Every operation starts with a repository whose folder is still there.
Working == Connected /\ page.repository # None /\ page.repository \in Mine

\* createDefaultPaperSyncState and markDirty
Marked(s) ==
    IF s = None THEN [avail |-> "local-only", dirty |-> TRUE, known |-> None]
    ELSE [s EXCEPT !.dirty = TRUE,
                   !.avail = IF s.known = None THEN "local-only" ELSE "local-and-cloud"]

\* A note is written on an open page, also while an account is bound.
Edit ==
    /\ ~At("closed") /\ written < MaxNotes
    /\ written' = written + 1
    /\ local' = [present |-> TRUE, notes |-> local.notes \cup {written + 1}]
    /\ page' = [page EXCEPT !.sync = Marked(@)]
    /\ disk' = [disk EXCEPT !.sync = Marked(page.sync)]
    /\ UNCHANGED <<broker, cloud, arriving, elsewhere, excused>>

\* The paper is removed from this browser, and cloud-only if Drive is known to have it.
RemoveLocal ==
    /\ ~At("closed") /\ local.present
    /\ local' = [present |-> FALSE, notes |-> {}]
    /\ LET known == page.catalog # None \/ (page.sync # None /\ page.sync.known # None)
           s == IF ~known THEN None
                ELSE [avail |-> "cloud-only", dirty |-> FALSE,
                      known |-> IF page.catalog # None THEN page.catalog.root
                                ELSE page.sync.known]
       IN  page' = [page EXCEPT !.sync = s] /\ disk' = [disk EXCEPT !.sync = s]
    /\ excused' = IF At("catalog") THEN excused \cup {"torn"} ELSE excused
    /\ UNCHANGED <<broker, cloud, arriving, written, elsewhere>>

\* What a transfer leaves: the paper is in the folder, and the catalog says so. The
\* profile is saved as well.
Transferred(dirty) ==
    LET r == page.repository
        s == [avail |-> "local-and-cloud", dirty |-> dirty, known |-> r]
        c == [root |-> r, at |-> drive'[r].at, ok |-> TRUE]
    IN  /\ page' = [page EXCEPT !.sync = s, !.catalog = c]
        /\ disk' = [profile |-> page.profile, sync |-> s, catalog |-> c]

Upload ==
    /\ Working /\ page.sync # None /\ page.sync.dirty /\ local.present
    /\ LET r == page.repository
       IN  drive' = IF drive[r].at > 0 /\ local.notes \subseteq drive[r].notes THEN drive
                    ELSE [drive EXCEPT ![r] = [notes |-> @.notes \cup local.notes,
                                               at |-> @.at + 1]]
    /\ Transferred(FALSE)
    /\ UNCHANGED <<broker, roots, local, arriving, written, elsewhere, excused>>

\* Pending changes are merged into what is downloaded; without any it is replaced.
Download ==
    /\ Working /\ page.catalog # None /\ page.catalog.root = page.repository
    /\ LET changed == page.sync # None /\ page.sync.dirty /\ local.present
       IN  /\ local' = [present |-> TRUE,
                        notes |-> drive[page.repository].notes
                                    \cup (IF changed THEN local.notes ELSE {})]
           /\ UNCHANGED drive
           /\ Transferred(changed)
    /\ UNCHANGED <<broker, roots, arriving, written, elsewhere, excused>>

--------------------------------------------------------------------------------
(* Scans *)

\* discoverWithFastPath: the cursor is of this account and folder.
CursorIsCurrent(profile) ==
    /\ profile.cursor # None
    /\ profile.cursor.account = profile.account /\ profile.cursor.root = profile.root

\* reconcileLocalPaperStates
Reconciled(s) ==
    IF local.present
    THEN IF s = None THEN [avail |-> "local-only", dirty |-> TRUE, known |-> None]
         ELSE [s EXCEPT !.avail = IF @ # "cloud-only" THEN @
                                  ELSE IF s.known # None THEN "local-and-cloud"
                                  ELSE "local-only"]
    ELSE IF s # None /\ s.known # None THEN [s EXCEPT !.avail = "cloud-only", !.dirty = FALSE]
    ELSE s

\* What a full audit lists: the paper as it is in the folder; a known one that is not
\* there is retained, from the screen or from its state, and needs attention.
Audited(s) ==
    LET r == page.repository
    IN  IF drive[r].at > 0 THEN [root |-> r, at |-> drive[r].at, ok |-> TRUE]
        ELSE IF page.catalog # None THEN [page.catalog EXCEPT !.ok = FALSE]
        ELSE IF s # None /\ s.known # None THEN [root |-> s.known, at |-> 0, ok |-> FALSE]
        ELSE None

\* What an incremental scan lists: the catalog, with the paper read again if it changed.
Rescanned ==
    LET r == page.repository
    IN  IF drive[r].at > page.profile.cursor.at
        THEN [root |-> r, at |-> drive[r].at, ok |-> TRUE]
        ELSE page.catalog

\* applyDiscovery: a paper that is listed is known to be there.
Discovered(s, c) ==
    IF c = None THEN s
    ELSE LET avail == IF local.present THEN "local-and-cloud" ELSE "cloud-only"
         IN  [avail |-> avail, dirty |-> s # None /\ s.dirty,
              known |-> c.root]

\* A scan up to its cursor: the states and the catalog are saved; a paper that needs
\* attention makes it fail. An incremental one goes on from a current cursor; a full audit
\* may be due.
Scan ==
    /\ Working
    /\ \E incremental \in {CursorIsCurrent(page.profile), FALSE} :
         LET s == Reconciled(page.sync)
             changed == ~incremental \/ drive[page.repository].at > page.profile.cursor.at
             c == IF incremental THEN Rescanned ELSE Audited(s)
             next == IF changed THEN Discovered(s, c) ELSE s
         IN  /\ page' = [page EXCEPT
                           !.sync = next, !.catalog = c,
                           !.step = IF changed /\ c # None /\ ~c.ok THEN "idle" ELSE "commit",
                           !.position = drive[page.repository].at]
             /\ disk' = [disk EXCEPT !.sync = next, !.catalog = IF changed THEN c ELSE @]
    /\ UNCHANGED <<broker, cloud, local, arriving, written, elsewhere, excused>>

Committed(at) ==
    LET profile == [page.profile EXCEPT
                      !.cursor = [account |-> page.profile.account,
                                  root |-> page.profile.root, at |-> at]]
    IN  /\ page' = [page EXCEPT !.step = "idle", !.profile = profile, !.position = 0]
        /\ disk' = Saved(profile)

\* Mutant: the position is that of the latest change.
CommitLatest ==
    /\ At("commit")
    /\ page.profile.account # None
    /\ Committed(drive[page.repository].at)
    /\ UNCHANGED <<broker, cloud, local, arriving, written, elsewhere, excused>>

\* commitDriveChangeCursor
CommitCursor ==
    /\ At("commit")
    /\ page.profile.account # None
    /\ Committed(page.position)
    /\ UNCHANGED <<broker, cloud, local, arriving, written, elsewhere, excused>>

\* The cursor cannot be saved, or the scan is aborted.
CommitFails ==
    /\ At("commit")
    /\ page' = [page EXCEPT !.step = "idle", !.position = 0]
    /\ UNCHANGED <<broker, cloud, disk, local, arriving, written, elsewhere, excused>>

--------------------------------------------------------------------------------

Broker ==
    \/ CheckGrant \/ CreateSession
    \/ \E a \in Account : BeginRefresh(a) \/ EndRefresh(a)

Others ==
    \/ \E a \in Account : AuthorizeElsewhere(a) \/ DisconnectElsewhere(a)
    \/ \E r \in Root : PublishElsewhere(r) \/ RootChanges(r)

Binding ==
    \/ Load \/ ClosePage \/ ReceiveSession \/ LoseSession
    \/ BindSame \/ SeverStates \/ ClearCatalog \/ BindProfile \/ BindFails
    \/ Disconnect \/ DisconnectAll
    \/ \E a \in Account : Connect(a)

Folder ==
    \/ EnsureRepository
    \/ \E r \in Root : ChooseRoot(r) \/ CreateReplacementRoot(r)

Library == Edit \/ RemoveLocal \/ Upload \/ Download \/ Scan \/ CommitCursor \/ CommitFails

Next == Broker \/ Others \/ Binding \/ Folder \/ Library

Spec == Init /\ [][Next]_vars

--------------------------------------------------------------------------------
(* Properties *)

Session == [account : Account, active : BOOLEAN]

Exchange == [account : Account, step : {"check", "create", "answer"}]

Kept == [profile : Profile, sync : Optional(PaperState), catalog : Optional(Summary)]

Page == [step : Steps, profile : Profile, sync : Optional(PaperState),
         catalog : Optional(Summary), session : Nat, repository : Optional(Root),
         binding : Optional(Account), position : Nat]

BrokerOK ==
    /\ user \in [Account -> {"none", "active", "revoked"}]
    /\ sessions \in Seq(Session) /\ ended \subseteq DOMAIN sessions
    /\ refreshing \subseteq Account
    /\ exchange \in Optional(Exchange) /\ arriving \in Optional(Account)

DriveOK == roots \subseteq Root /\ drive \in [Root -> [notes : SUBSET Note, at : Nat]]

BrowserOK == disk \in Kept /\ page \in Page

LibraryOK ==
    /\ local \in [present : BOOLEAN, notes : SUBSET Note]
    /\ written \in 0..MaxNotes /\ elsewhere \in 0..MaxElsewhere /\ excused \subseteq Excuses

\* A page binds an account exactly while it is between the steps of doing so, and what it
\* and IndexedDB know of sessions are sessions there were.
StepsOK ==
    /\ (page.binding # None) <=> page.step \in {"bind", "catalog", "profile"}
    /\ disk.profile.token <= Len(sessions) /\ page.profile.token <= Len(sessions)
    /\ page.session <= Len(sessions)

TypeOK == BrokerOK /\ DriveOK /\ BrowserOK /\ LibraryOK /\ StepsOK

\* Whatever accounts and folders a browser worked with before, a paper that is here and
\* has nothing to upload is in the folder the profile names: no note is taken for synced
\* because another account has it.
CleanIsInRoot ==
    excused = {} =>
        \A c \in {disk, page} :
            (c.profile.root # None /\ local.present /\ c.sync # None /\ ~c.sync.dirty)
                => local.notes \subseteq drive[c.profile.root].notes

\* The catalog, stored and on the screen, lists no paper of another folder, which the
\* next full audit would retain as one that is missing.
CatalogIsOfRoot ==
    excused = {} =>
        \A c \in {disk, page} :
            (c.profile.root # None /\ c.catalog # None) => c.catalog.root = c.profile.root

\* A cursor that a scan would go on from has nothing before it that the catalog does not
\* show, but where the binding of an account was interrupted.
CatalogCoversCursor ==
    ("torn" \notin excused /\ ~Severing) =>
        \A c \in {disk, page} :
            (CursorIsCurrent(c.profile) /\ c.profile.cursor.at > 0)
                => /\ c.catalog # None /\ c.catalog.root = c.profile.root
                   /\ c.catalog.at >= c.profile.cursor.at

\* A session there was when its account was disconnected everywhere is never accepted
\* again, whoever authorizes the account and whatever refresh was under way.
DisconnectedStaysDisconnected == \A s \in ended : ~Authenticates(s)

================================================================================
