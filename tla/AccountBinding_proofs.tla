------------------------- MODULE AccountBinding_proofs -------------------------
(* Sessions that were disconnected stay out, and the cursor of the change feed    *)
(* hides nothing; then, a browser that goes from account to account and from      *)
(* folder to folder takes nothing of one for something of another. For any        *)
(* accounts, folders and numbers of notes and sessions.                           *)

EXTENDS AccountBinding, SequenceTheorems, TLAPS

--------------------------------------------------------------------------------
(* The invariant *)

\* A catalog shows what a scan from the cursor of a profile would not read again.
Covers(catalog, profile) ==
    (CursorIsCurrent(profile) /\ profile.cursor.at > 0)
        => catalog # None /\ catalog.root = profile.root /\ catalog.at >= profile.cursor.at

\* A cursor belongs to a bound account and is not ahead of Drive.
CursorOK(profile) ==
    profile.cursor # None
        => profile.account # None /\ profile.cursor.at <= drive[profile.cursor.root].at

Cursors == CursorOK(disk.profile) /\ CursorOK(page.profile)

\* A page works in the folder its profile names, in memory and as saved, and in none
\* while it binds an account.
Folders ==
    page.repository # None =>
        /\ page.step \in {"idle", "commit"}
        /\ page.session > 0 => /\ page.profile.root = page.repository
                               /\ disk.profile.root = page.repository

Bindings == At("catalog") => Severing

Emptied == At("profile") /\ Severing

\* The catalogs show all there was when the position to be committed was read.
Position(catalog) ==
    page.position > 0 => /\ catalog # None /\ catalog.root = page.repository
                         /\ catalog.at >= page.position

Commits ==
    At("commit") => /\ page.session > 0 /\ page.repository # None
                    /\ page.position <= drive[page.repository].at

Positions == At("commit") => Position(disk.catalog) /\ Position(page.catalog)

\* Each catalog covers each profile, since either may be written beside the other; of a
\* page that is closed or emptied its catalogs there is only one.
Coverings ==
    /\ ~Emptied => Covers(disk.catalog, disk.profile)
    /\ ~Emptied /\ ~At("closed") => /\ Covers(page.catalog, disk.profile)
                                   /\ Covers(disk.catalog, page.profile)
                                   /\ Covers(page.catalog, page.profile)
    /\ Emptied \/ At("closed") => page.profile.cursor = None

Sound == "torn" \notin excused => Positions /\ Coverings

Reading == Cursors /\ Folders /\ Bindings /\ Commits /\ Sound

CInv == TypeOK /\ Reading

\* Sessions that were disconnected are inactive.
Inactive == \A s \in ended : ~sessions[s].active

--------------------------------------------------------------------------------
(* Types *)

\* The sessions are numbered from 1.
LEMMA SessionsAreNumbered ==
    ASSUME BrokerOK
    PROVE  Len(sessions) \in Nat /\ DOMAIN sessions = 1..Len(sessions)
BY DEF BrokerOK

\* Sessions that are only changed, revokeUserAndSessions and revokeSession, stay sessions.
LEMMA ChangedSessions ==
    ASSUME BrokerOK, NEW f, f = [s \in DOMAIN sessions |-> f[s]],
           \A s \in DOMAIN sessions : f[s] \in Session
    PROVE  f \in Seq(Session) /\ Len(f) = Len(sessions) /\ DOMAIN f = DOMAIN sessions
<1>1. Len(sessions) \in Nat /\ f \in [1..Len(sessions) -> Session]
  BY SessionsAreNumbered
<1> QED BY <1>1, SessionsAreNumbered

\* The session of a page is one there is.
LEMMA SessionOfPage ==
    ASSUME BrokerOK, BrowserOK, StepsOK, page.session > 0
    PROVE  sessions[page.session] \in Session
<1>1. page.session \in 1..Len(sessions)
  BY SessionsAreNumbered DEF BrowserOK, Page, StepsOK
<1> QED BY <1>1, SessionsAreNumbered DEF BrokerOK

\* The sessions of an account are revoked.
LEMMA RevocationTypes ==
    ASSUME BrokerOK, NEW a \in Account, RevokeUserAndSessions(a)
    PROVE  /\ user' \in [Account -> {"none", "active", "revoked"}]
           /\ sessions' \in Seq(Session) /\ ended' \subseteq DOMAIN sessions'
           /\ Len(sessions') = Len(sessions) /\ DOMAIN sessions' = DOMAIN sessions
<1>1. \A s \in DOMAIN sessions : sessions[s] \in Session
  BY DEF BrokerOK
<1>2. \A s \in DOMAIN sessions : sessions'[s] \in Session
  BY <1>1 DEF RevokeUserAndSessions, Session
<1>3. sessions' = [s \in DOMAIN sessions |-> sessions'[s]]
  BY DEF RevokeUserAndSessions
<1>4. /\ sessions' \in Seq(Session) /\ Len(sessions') = Len(sessions)
      /\ DOMAIN sessions' = DOMAIN sessions
  BY <1>2, <1>3, ChangedSessions
<1> QED BY <1>4 DEF RevokeUserAndSessions, BrokerOK

\* A session is created for an account.
LEMMA CreationTypes ==
    ASSUME BrokerOK, CreateSession
    PROVE  /\ BrokerOK' /\ Len(sessions') = Len(sessions) + 1
           /\ \A s \in DOMAIN sessions : sessions'[s].active => sessions[s].active
<1> DEFINE f == [s \in DOMAIN sessions |->
                   IF sessions[s].account = exchange.account
                   THEN [sessions[s] EXCEPT !.active = FALSE] ELSE sessions[s]]
           e == [account |-> exchange.account, active |-> TRUE]
<1>1. \A s \in DOMAIN sessions : sessions[s] \in Session
  BY DEF BrokerOK
<1>2. \A s \in DOMAIN sessions : f[s] \in Session /\ (f[s].active => sessions[s].active)
  BY <1>1 DEF Session
<1>3. f \in Seq(Session) /\ Len(f) = Len(sessions) /\ DOMAIN f = DOMAIN sessions
  <2> HIDE DEF f
  <2>1. f = [s \in DOMAIN sessions |-> f[s]]
    BY DEF f
  <2> QED BY <1>2, <2>1, ChangedSessions
<1>4. e \in Session
  BY DEF CreateSession, BrokerOK, Exchange, Optional, Session
<1>5. sessions' = Append(f, e)
  BY DEF CreateSession
<1> HIDE DEF f, e
<1>6. sessions' \in Seq(Session) /\ Len(sessions') = Len(sessions) + 1
  BY <1>3, <1>4, <1>5
<1>7. \A s \in DOMAIN sessions : sessions'[s] = f[s]
  BY <1>3, <1>4, <1>5, SessionsAreNumbered
<1>8. ended' \subseteq DOMAIN sessions'
  BY <1>6, SessionsAreNumbered DEF CreateSession, BrokerOK, broker
<1>9. exchange' \in Optional(Exchange)
  BY DEF CreateSession, BrokerOK, Exchange, Optional
<1> QED BY <1>2, <1>6, <1>7, <1>8, <1>9 DEF CreateSession, BrokerOK

\* A page that is closed.
LEMMA ClosedIsPage == Closed \in Page
BY DEF Closed, NoProfile, Page, Profile, Optional, Steps

\* What binding another account makes of a state.
LEMMA SeveredIsState ==
    ASSUME NEW s \in Optional(PaperState)
    PROVE  Severed(s) \in Optional(PaperState)
BY DEF Severed, PaperState, Optional

\* What an edit makes of a state.
LEMMA MarkedIsState ==
    ASSUME NEW s \in Optional(PaperState)
    PROVE  Marked(s) \in Optional(PaperState)
BY DEF Marked, PaperState, Optional

\* What reconcileLocalPaperStates makes of a state.
LEMMA ReconciledIsState ==
    ASSUME NEW s \in Optional(PaperState)
    PROVE  Reconciled(s) \in Optional(PaperState)
<1>1. CASE s = None
  BY <1>1 DEF Reconciled, PaperState, Optional
<1>2. CASE s # None
  <2>1. s \in PaperState
    BY <1>2 DEF Optional
  <2>2. CASE local.present
    BY <1>2, <2>1, <2>2 DEF Reconciled, PaperState, Optional
  <2>3. CASE ~local.present
    BY <1>2, <2>1, <2>3 DEF Reconciled, PaperState, Optional
  <2> QED BY <2>2, <2>3
<1> QED BY <1>1, <1>2

\* What applyDiscovery makes of a state.
LEMMA DiscoveredIsState ==
    ASSUME NEW s \in Optional(PaperState), NEW c \in Optional(Summary)
    PROVE  Discovered(s, c) \in Optional(PaperState)
<1>1. CASE c = None
  BY <1>1 DEF Discovered
<1>2. CASE c # None
  <2>1. (s # None /\ s.dirty) \in BOOLEAN /\ c.root \in Root
    BY <1>2 DEF Optional, Summary
  <2> QED BY <1>2, <2>1 DEF Discovered, PaperState, Optional
<1> QED BY <1>1, <1>2

\* What a full audit lists.
LEMMA AuditedIsSummary ==
    ASSUME BrowserOK, DriveOK, page.repository # None, NEW s \in Optional(PaperState)
    PROVE  Audited(s) \in Optional(Summary)
<1>1. page.repository \in Root /\ page.catalog \in Optional(Summary)
  BY DEF BrowserOK, Page, Optional
<1>2. drive[page.repository].at \in Nat
  BY <1>1 DEF DriveOK
<1> QED BY <1>1, <1>2 DEF Audited, Summary, PaperState, Optional

\* What an incremental scan lists.
LEMMA RescannedIsSummary ==
    ASSUME BrowserOK, DriveOK, page.repository # None
    PROVE  Rescanned \in Optional(Summary)
<1>1. page.repository \in Root /\ page.catalog \in Optional(Summary)
  BY DEF BrowserOK, Page, Optional
<1>2. drive[page.repository].at \in Nat
  BY <1>1 DEF DriveOK
<1> QED BY <1>1, <1>2 DEF Rescanned, Summary, Optional

\* CheckGrant keeps the types.
LEMMA CheckGrantTypes ==
    ASSUME TypeOK, CheckGrant
    PROVE  TypeOK'
<1>1. BrokerOK'
  BY DEF TypeOK, CheckGrant, BrokerOK, Session, Exchange, Optional, At
<1>2. BrowserOK'
  BY DEF TypeOK, CheckGrant, BrowserOK, Kept, Page, Optional, Steps, At
<1>3. StepsOK'
  BY DEF TypeOK, CheckGrant, StepsOK, BrowserOK, Kept, Page, Optional, Steps, Profile, At
<1> QED BY <1>1, <1>2, <1>3 DEF TypeOK, CheckGrant, broker, cloud, DriveOK, LibraryOK

\* CreateSession keeps the types.
LEMMA CreateSessionTypes ==
    ASSUME TypeOK, CreateSession
    PROVE  TypeOK'
<1>1. BrokerOK'
  BY CreationTypes DEF TypeOK
<1>2. StepsOK'
  BY CreationTypes, SessionsAreNumbered
    DEF TypeOK, CreateSession, StepsOK, BrowserOK, Kept, Page, Profile
<1> QED BY <1>1, <1>2 DEF TypeOK, CreateSession, broker, cloud, DriveOK, BrowserOK, LibraryOK

\* BeginRefresh keeps the types.
LEMMA BeginRefreshTypes ==
    ASSUME NEW a \in Account, TypeOK, BeginRefresh(a)
    PROVE  TypeOK'
<1>1. BrokerOK'
  BY DEF TypeOK, BeginRefresh, BrokerOK, Session, Exchange, Optional
<1>2. LibraryOK'
  BY BoundAssumption DEF TypeOK, BeginRefresh, LibraryOK, Note, Excuses
<1> QED BY <1>1, <1>2 DEF TypeOK, BeginRefresh, broker, cloud, DriveOK, BrowserOK, StepsOK

\* EndRefresh keeps the types.
LEMMA EndRefreshTypes ==
    ASSUME NEW a \in Account, TypeOK, EndRefresh(a)
    PROVE  TypeOK'
<1>1. BrokerOK'
  <2>1. CASE RevokeUserAndSessions(a)
    BY <2>1, RevocationTypes DEF TypeOK, EndRefresh, BrokerOK, Optional
  <2>2. CASE UNCHANGED <<sessions, ended>>
    BY <2>2 DEF TypeOK, EndRefresh, BrokerOK, RevokeUserAndSessions
  <2> QED BY <2>1, <2>2 DEF EndRefresh
<1>2. StepsOK'
  <2>1. Len(sessions') = Len(sessions)
    BY RevocationTypes DEF TypeOK, EndRefresh
  <2> QED BY <2>1 DEF TypeOK, EndRefresh, StepsOK
<1> QED BY <1>1, <1>2 DEF TypeOK, EndRefresh, broker, cloud, DriveOK, BrowserOK, LibraryOK

\* AuthorizeElsewhere keeps the types.
LEMMA AuthorizeElsewhereTypes ==
    ASSUME NEW a \in Account, TypeOK, AuthorizeElsewhere(a)
    PROVE  TypeOK'
<1>1. BrokerOK'
  BY DEF TypeOK, AuthorizeElsewhere, BrokerOK, Session, Exchange, Optional
<1>2. LibraryOK'
  BY BoundAssumption DEF TypeOK, AuthorizeElsewhere, LibraryOK, Note, Excuses
<1> QED BY <1>1, <1>2 DEF TypeOK, AuthorizeElsewhere, broker, cloud, DriveOK, BrowserOK, StepsOK

\* DisconnectElsewhere keeps the types.
LEMMA DisconnectElsewhereTypes ==
    ASSUME NEW a \in Account, TypeOK, DisconnectElsewhere(a)
    PROVE  TypeOK'
<1>1. BrokerOK'
  BY RevocationTypes DEF TypeOK, DisconnectElsewhere, BrokerOK
<1>2. LibraryOK'
  BY BoundAssumption DEF TypeOK, DisconnectElsewhere, LibraryOK, Note, Excuses
<1>3. StepsOK'
  <2>1. Len(sessions') = Len(sessions)
    BY RevocationTypes DEF TypeOK, DisconnectElsewhere
  <2> QED BY <2>1 DEF TypeOK, DisconnectElsewhere, StepsOK
<1> QED BY <1>1, <1>2, <1>3 DEF TypeOK, DisconnectElsewhere, broker, cloud, DriveOK, BrowserOK

\* PublishElsewhere keeps the types.
LEMMA PublishElsewhereTypes ==
    ASSUME NEW r \in Root, TypeOK, PublishElsewhere(r)
    PROVE  TypeOK'
<1>1. DriveOK'
  BY BoundAssumption DEF TypeOK, PublishElsewhere, DriveOK, Note, LibraryOK
<1>2. LibraryOK'
  BY BoundAssumption DEF TypeOK, PublishElsewhere, LibraryOK, Note, Excuses
<1> QED BY <1>1, <1>2 DEF TypeOK, PublishElsewhere, broker, cloud, BrokerOK, BrowserOK, StepsOK

\* RootChanges keeps the types.
LEMMA RootChangesTypes ==
    ASSUME NEW r \in Root, TypeOK, RootChanges(r)
    PROVE  TypeOK'
<1>1. DriveOK'
  BY DEF TypeOK, RootChanges, DriveOK, Note
<1>2. LibraryOK'
  BY BoundAssumption DEF TypeOK, RootChanges, LibraryOK, Note, Excuses
<1> QED BY <1>1, <1>2 DEF TypeOK, RootChanges, broker, cloud, BrokerOK, BrowserOK, StepsOK

\* Load keeps the types.
LEMMA LoadTypes ==
    ASSUME TypeOK, Load
    PROVE  TypeOK'
<1>1. BrokerOK'
  BY DEF TypeOK, Load, BrokerOK, Session, Exchange, Optional
<1>2. BrowserOK'
  <2>1. disk' \in Kept
    BY ClosedIsPage DEF TypeOK, Load, BrowserOK, Kept, Page, Optional, Steps, Profile
  <2>2. page' \in Page
    BY ClosedIsPage DEF TypeOK, Load, BrowserOK, Kept, Page, Optional, Steps, Profile
  <2> QED BY <2>1, <2>2 DEF BrowserOK
<1>3. StepsOK'
  BY DEF TypeOK, Load, StepsOK, BrowserOK, Kept, Page, Optional, Steps, Profile, Closed
<1> QED BY <1>1, <1>2, <1>3 DEF TypeOK, Load, broker, cloud, DriveOK, LibraryOK

\* Connect keeps the types.
LEMMA ConnectTypes ==
    ASSUME NEW a \in Account, TypeOK, Connect(a)
    PROVE  TypeOK'
<1>1. BrokerOK'
  BY DEF TypeOK, Connect, BrokerOK, Session, Exchange, Optional
<1>2. BrowserOK'
  BY ClosedIsPage DEF TypeOK, Connect, BrowserOK, Kept, Page, Optional, Steps
<1>3. StepsOK'
  BY SessionsAreNumbered
    DEF TypeOK, Connect, StepsOK, BrowserOK, Kept, Page, Optional, Steps, Profile, Closed,
        NoProfile, At
<1> QED BY <1>1, <1>2, <1>3 DEF TypeOK, Connect, broker, cloud, DriveOK, LibraryOK

\* ClosePage keeps the types.
LEMMA ClosePageTypes ==
    ASSUME TypeOK, ClosePage
    PROVE  TypeOK'
<1>1. BrowserOK'
  BY ClosedIsPage DEF TypeOK, ClosePage, BrowserOK, Kept, Page, Optional, Steps
<1>2. LibraryOK'
  BY BoundAssumption DEF TypeOK, ClosePage, LibraryOK, Note, Excuses
<1>3. StepsOK'
  BY SessionsAreNumbered
    DEF TypeOK, ClosePage, StepsOK, BrowserOK, Kept, Page, Optional, Steps, Profile,
        Closed, NoProfile, At, broker
<1> QED BY <1>1, <1>2, <1>3 DEF TypeOK, ClosePage, broker, cloud, BrokerOK, DriveOK

\* ReceiveSession keeps the types.
LEMMA ReceiveSessionTypes ==
    ASSUME TypeOK, ReceiveSession
    PROVE  TypeOK'
<1>1. BrokerOK'
  BY DEF TypeOK, ReceiveSession, BrokerOK, Session, Exchange, Optional
<1>2. BrowserOK'
  <2>1. exchange.account \in Account /\ Len(sessions) \in Nat
    BY SessionsAreNumbered DEF TypeOK, ReceiveSession, BrokerOK, Exchange, Optional
  <2> QED BY <2>1 DEF TypeOK, ReceiveSession, At, BrowserOK, Kept, Page, Optional, Steps
<1>3. StepsOK'
  <2>1. exchange.account \in Account /\ exchange.account # None /\ Len(sessions) \in Nat
    BY SessionsAreNumbered, OwnerAssumption
      DEF TypeOK, ReceiveSession, BrokerOK, Exchange, Optional
  <2> QED BY <2>1
    DEF TypeOK, ReceiveSession, At, StepsOK, BrowserOK, Kept, Page, Optional, Steps
<1> QED BY <1>1, <1>2, <1>3 DEF TypeOK, ReceiveSession, broker, cloud, DriveOK, LibraryOK

\* LoseSession keeps the types.
LEMMA LoseSessionTypes ==
    ASSUME TypeOK, LoseSession
    PROVE  TypeOK'
<1>1. BrowserOK'
  BY DEF TypeOK, LoseSession, BrowserOK, Kept, Page, Optional, Steps, At
<1>2. StepsOK'
  BY DEF TypeOK, LoseSession, StepsOK, BrowserOK, Kept, Page, Optional, Steps, Profile, At,
         broker
<1> QED BY <1>1, <1>2 DEF TypeOK, LoseSession, broker, cloud, BrokerOK, DriveOK, LibraryOK

\* BindSame keeps the types.
LEMMA BindSameTypes ==
    ASSUME TypeOK, BindSame
    PROVE  TypeOK'
<1>1. BrowserOK'
  BY DEF TypeOK, BindSame, BrowserOK, Kept, Page, Optional, Steps, At
<1>2. LibraryOK'
  BY BoundAssumption DEF TypeOK, BindSame, LibraryOK, Note, Excuses
<1>3. StepsOK'
  BY DEF TypeOK, BindSame, StepsOK, BrowserOK, Kept, Page, Optional, Steps, Profile, At, broker
<1> QED BY <1>1, <1>2, <1>3 DEF TypeOK, BindSame, broker, cloud, BrokerOK, DriveOK

\* SeverStates keeps the types.
LEMMA SeverStatesTypes ==
    ASSUME TypeOK, SeverStates
    PROVE  TypeOK'
<1>1. BrowserOK'
  <2>1. disk' \in Kept
    BY SeveredIsState DEF TypeOK, SeverStates, BrowserOK, Kept, Page, Optional, Steps, Profile
  <2>2. page' \in Page
    BY SeveredIsState DEF TypeOK, SeverStates, BrowserOK, Kept, Page, Optional, Steps, Profile
  <2> QED BY <2>1, <2>2 DEF BrowserOK
<1>2. StepsOK'
  BY DEF TypeOK, SeverStates, StepsOK, BrowserOK, Kept, Page, Optional, Steps, Profile, At,
         broker, Severed
<1> QED BY <1>1, <1>2 DEF TypeOK, SeverStates, broker, cloud, BrokerOK, DriveOK, LibraryOK

\* ClearCatalog keeps the types.
LEMMA ClearCatalogTypes ==
    ASSUME TypeOK, ClearCatalog
    PROVE  TypeOK'
<1>1. BrowserOK'
  <2> DEFINE p == [page.profile EXCEPT !.root = None, !.cursor = None]
  <2>1. p \in Profile
    BY DEF TypeOK, BrowserOK, Page, Profile, Optional
  <2>2. page' = [page EXCEPT !.step = "profile", !.catalog = None, !.profile = p]
    BY DEF TypeOK, ClearCatalog, BrowserOK, Page, Profile
  <2>3. disk' = [disk EXCEPT !.catalog = None]
    BY DEF ClearCatalog
  <2> HIDE DEF p
  <2> QED BY <2>1, <2>2, <2>3 DEF TypeOK, BrowserOK, Kept, Page, Optional, Steps
<1>2. StepsOK'
  BY DEF TypeOK, ClearCatalog, StepsOK, BrowserOK, Kept, Page, Optional, Steps, Profile, At,
         broker
<1> QED BY <1>1, <1>2 DEF TypeOK, ClearCatalog, broker, cloud, BrokerOK, DriveOK, LibraryOK

\* BindProfile keeps the types.
LEMMA BindProfileTypes ==
    ASSUME TypeOK, BindProfile
    PROVE  TypeOK'
<1>1. BrowserOK'
  <2>1. disk' \in Kept
    BY DEF TypeOK, BindProfile, BrowserOK, Kept, Page, Optional, Steps, Profile, Saved
  <2>2. page' \in Page
    BY DEF TypeOK, BindProfile, BrowserOK, Kept, Page, Optional, Steps, Profile, Saved
  <2> QED BY <2>1, <2>2 DEF BrowserOK
<1>2. StepsOK'
  BY DEF TypeOK, BindProfile, StepsOK, BrowserOK, Kept, Page, Optional, Steps, Profile, At,
         broker, Saved
<1> QED BY <1>1, <1>2 DEF TypeOK, BindProfile, broker, cloud, BrokerOK, DriveOK, LibraryOK

\* BindFails keeps the types.
LEMMA BindFailsTypes ==
    ASSUME TypeOK, BindFails
    PROVE  TypeOK'
<1>1. BrowserOK'
  <2>1. Severed(page.sync) \in Optional(PaperState)
    BY SeveredIsState DEF TypeOK, BrowserOK, Page
  <2> DEFINE p == [page.profile EXCEPT !.account = IF At("profile") THEN page.binding ELSE @,
                                       !.token = IF At("profile") THEN page.session ELSE @]
             t == IF At("bind") THEN Severed(page.sync) ELSE page.sync
  <2>2. p \in Profile /\ t \in Optional(PaperState)
    BY <2>1 DEF TypeOK, BrowserOK, Page, Profile, Optional
  <2>3. page' = [page EXCEPT !.step = "idle", !.binding = None, !.sync = t, !.profile = p]
    BY DEF TypeOK, BindFails, BrowserOK, Page, Profile
  <2> HIDE DEF p, t
  <2>4. page' \in Page
    BY <2>2, <2>3 DEF TypeOK, BrowserOK, Page, Optional, Steps
  <2> QED BY <2>4 DEF TypeOK, BindFails, BrowserOK
<1>2. LibraryOK'
  BY BoundAssumption DEF TypeOK, BindFails, LibraryOK, Note, Excuses
<1>3. StepsOK'
  BY DEF TypeOK, BindFails, StepsOK, BrowserOK, Kept, Page, Optional, Steps, Profile, At, broker
<1> QED BY <1>1, <1>2, <1>3 DEF TypeOK, BindFails, broker, cloud, BrokerOK, DriveOK

\* Disconnect keeps the types.
LEMMA DisconnectTypes ==
    ASSUME TypeOK, Disconnect
    PROVE  TypeOK'
<1>1. BrokerOK'
  <2>1. \A s \in DOMAIN sessions : sessions[s] \in Session
    BY DEF TypeOK, BrokerOK
  <2>2. \A s \in DOMAIN sessions : sessions'[s] \in Session
    BY <2>1 DEF Disconnect, Session
  <2>3. sessions' = [s \in DOMAIN sessions |-> sessions'[s]]
    <3>1. sessions = [s \in DOMAIN sessions |-> sessions[s]]
      BY SessionsAreNumbered DEF TypeOK, BrokerOK
    <3>2. CASE page.session = 0
      BY <3>1, <3>2 DEF Disconnect
    <3>3. CASE page.session # 0
      BY <3>3 DEF Disconnect
    <3> QED BY <3>2, <3>3
  <2>4. sessions' \in Seq(Session) /\ DOMAIN sessions' = DOMAIN sessions
    BY <2>2, <2>3, ChangedSessions DEF TypeOK
  <2> QED BY <2>4 DEF TypeOK, BrokerOK, Disconnect
<1>2. BrowserOK'
  <2>1. [page EXCEPT !.profile.token = 0, !.session = 0] \in Page
    BY DEF TypeOK, Profile, BrowserOK, Kept, Page, Optional, Steps
  <2>2. [[page EXCEPT !.profile.token = 0, !.session = 0] EXCEPT !.repository = None] \in Page
    BY <2>1 DEF Page, Optional
  <2>3. page' \in Page
    BY <2>1, <2>2 DEF TypeOK, BrowserOK, Disconnect
  <2>4. disk' \in Kept
    BY <2>3 DEF TypeOK, BrowserOK, Disconnect, Saved, Kept, Page
  <2> QED BY <2>3, <2>4 DEF BrowserOK
<1>3. StepsOK'
  <2>1. Len(sessions') = Len(sessions)
    BY SessionsAreNumbered DEF TypeOK, BrokerOK, Disconnect
  <2> DEFINE forgetting == [page EXCEPT !.profile.token = 0, !.session = 0]
  <2>2. /\ forgetting.profile.token = 0 /\ forgetting.session = 0
        /\ forgetting.step = page.step /\ forgetting.binding = page.binding
        /\ forgetting \in Page
    BY DEF TypeOK, BrowserOK, Page, Profile
  <2>3. \/ page' \in {page, forgetting} /\ disk' = disk
        \/ page' = [forgetting EXCEPT !.repository = None] /\ disk' = Saved(page'.profile)
    BY DEF Disconnect
  <2> HIDE DEF forgetting
  <2> QED BY <2>1, <2>2, <2>3, SessionsAreNumbered
    DEF TypeOK, Saved, StepsOK, BrowserOK, Page, Kept, Profile
<1> QED BY <1>1, <1>2, <1>3 DEF TypeOK, Disconnect, broker, cloud, DriveOK, LibraryOK

\* DisconnectAll keeps the types.
LEMMA DisconnectAllTypes ==
    ASSUME TypeOK, DisconnectAll
    PROVE  TypeOK'
<1>1. BrokerOK'
  <2>1. sessions[page.session].account \in Account
    BY SessionOfPage DEF TypeOK, DisconnectAll, Authenticates, Session
  <2> QED BY <2>1, RevocationTypes DEF TypeOK, BrokerOK, DisconnectAll
<1>2. BrowserOK'
  <2>1. NoProfile \in Profile
    BY DEF NoProfile, Profile, Optional
  <2> DEFINE forgetting == [page EXCEPT !.profile = NoProfile, !.session = 0]
  <2>4. forgetting \in Page
    BY <2>1 DEF TypeOK, BrowserOK, Page
  <2>5. page' \in {page, forgetting, [forgetting EXCEPT !.repository = None, !.catalog = None]}
    BY DEF DisconnectAll
  <2> HIDE DEF forgetting
  <2>2. page' \in Page
    BY <2>4, <2>5 DEF TypeOK, BrowserOK, Page, Optional
  <2>3. disk' \in Kept
    BY <2>1 DEF TypeOK, DisconnectAll, Saved, BrowserOK, Kept
  <2> QED BY <2>2, <2>3 DEF BrowserOK
<1>3. StepsOK'
  <2>1. sessions[page.session].account \in Account
    BY SessionOfPage DEF TypeOK, DisconnectAll, Authenticates, Session
  <2>2. Len(sessions') = Len(sessions) /\ Len(sessions) \in Nat
    BY <2>1, RevocationTypes, SessionsAreNumbered DEF TypeOK, DisconnectAll
  <2> DEFINE forgetting == [page EXCEPT !.profile = NoProfile, !.session = 0]
  <2>3. /\ forgetting.profile.token = 0 /\ forgetting.session = 0
        /\ forgetting.step = page.step /\ forgetting.binding = page.binding
        /\ DOMAIN forgetting = DOMAIN page
    BY DEF TypeOK, BrowserOK, Page, NoProfile
  <2>4. \/ page' \in {page, forgetting} /\ disk' = disk
        \/ /\ page' = [forgetting EXCEPT !.repository = None, !.catalog = None]
           /\ disk' = Saved(NoProfile)
    BY DEF DisconnectAll
  <2>5. Saved(NoProfile).profile.token = 0
    BY DEF TypeOK, BrowserOK, Kept, Saved, NoProfile
  <2>6. [forgetting EXCEPT !.repository = None, !.catalog = None].profile = forgetting.profile
        /\ [forgetting EXCEPT !.repository = None, !.catalog = None].session = forgetting.session
        /\ [forgetting EXCEPT !.repository = None, !.catalog = None].step = forgetting.step
        /\ [forgetting EXCEPT !.repository = None, !.catalog = None].binding = forgetting.binding
    BY <2>3 DEF TypeOK, BrowserOK, Page
  <2> HIDE DEF forgetting
  <2>7. CASE page' = page /\ disk' = disk
    BY <2>2, <2>7 DEF TypeOK, StepsOK
  <2>8. CASE page' = forgetting /\ disk' = disk
    BY <2>2, <2>3, <2>8 DEF TypeOK, StepsOK
  <2>9. CASE /\ page' = [forgetting EXCEPT !.repository = None, !.catalog = None]
             /\ disk' = Saved(NoProfile)
    BY <2>2, <2>3, <2>5, <2>6, <2>9 DEF TypeOK, StepsOK
  <2> QED BY <2>4, <2>7, <2>8, <2>9
<1> QED BY <1>1, <1>2, <1>3 DEF TypeOK, DisconnectAll, broker, cloud, DriveOK, LibraryOK

\* EnsureRepository keeps the types.
LEMMA EnsureRepositoryTypes ==
    ASSUME TypeOK, EnsureRepository
    PROVE  TypeOK'
<1>1. DriveOK'
  BY DEF TypeOK, EnsureRepository, DriveOK, Note, Take
<1>2. BrowserOK'
  <2>1. PICK r \in Root : Take(r, [page.profile EXCEPT !.root = r,
                                         !.cursor = IF page.profile.root = r THEN @ ELSE None])
    BY DEF EnsureRepository
  <2> DEFINE p == [page.profile EXCEPT !.root = r,
                                       !.cursor = IF page.profile.root = r THEN @ ELSE None]
  <2>4. p \in Profile
    BY DEF TypeOK, BrowserOK, Page, Profile, Optional
  <2>5. page' = [page EXCEPT !.profile = p, !.repository = r] /\ disk' = Saved(p)
    BY <2>1 DEF Take
  <2> HIDE DEF p
  <2>2. page' \in Page
    BY <2>4, <2>5 DEF TypeOK, BrowserOK, Page, Optional
  <2>3. disk' \in Kept
    BY <2>4, <2>5 DEF TypeOK, BrowserOK, Kept, Saved
  <2> QED BY <2>2, <2>3 DEF BrowserOK
<1>3. LibraryOK'
  BY BoundAssumption DEF TypeOK, EnsureRepository, LibraryOK, Note, Excuses, Take, Excusing
<1>4. StepsOK'
  <2>1. PICK r \in Root : Take(r, [page.profile EXCEPT !.root = r,
                                         !.cursor = IF page.profile.root = r THEN @ ELSE None])
    BY DEF EnsureRepository
  <2> DEFINE p == [page.profile EXCEPT !.root = r,
                                       !.cursor = IF page.profile.root = r THEN @ ELSE None]
  <2>2. p.token = page.profile.token
    BY DEF TypeOK, BrowserOK, Page, Profile
  <2>3. page' = [page EXCEPT !.profile = p, !.repository = r] /\ disk' = Saved(p)
    BY <2>1 DEF Take
  <2> HIDE DEF p
  <2> QED BY <2>2, <2>3
    DEF TypeOK, EnsureRepository, broker, StepsOK, Saved, BrowserOK, Page, Kept
<1> QED BY <1>1, <1>2, <1>3, <1>4 DEF TypeOK, EnsureRepository, broker, cloud, BrokerOK

\* ChooseRoot keeps the types.
LEMMA ChooseRootTypes ==
    ASSUME NEW r \in Root, TypeOK, ChooseRoot(r)
    PROVE  TypeOK'
<1>1. BrowserOK'
  BY DEF TypeOK, ChooseRoot, BrowserOK, Kept, Page, Optional, Steps, Take, Saved, Profile
<1>2. LibraryOK'
  BY BoundAssumption DEF TypeOK, ChooseRoot, LibraryOK, Note, Excuses, Take, Excusing
<1>3. StepsOK'
  BY DEF TypeOK, ChooseRoot, StepsOK, BrowserOK, Kept, Page, Optional, Steps, Profile, Take,
         Saved, At, broker, Connected
<1> QED BY <1>1, <1>2, <1>3 DEF TypeOK, ChooseRoot, broker, cloud, BrokerOK, DriveOK

\* CreateReplacementRoot keeps the types.
LEMMA CreateReplacementRootTypes ==
    ASSUME NEW r \in Root, TypeOK, CreateReplacementRoot(r)
    PROVE  TypeOK'
<1>1. DriveOK'
  BY DEF TypeOK, CreateReplacementRoot, DriveOK, Note, Take
<1>2. BrowserOK'
  BY DEF TypeOK, CreateReplacementRoot, BrowserOK, Kept, Page, Optional, Steps, Take, Saved,
         Profile
<1>3. LibraryOK'
  BY BoundAssumption DEF TypeOK, CreateReplacementRoot, LibraryOK, Note, Excuses, Take, Excusing
<1>4. StepsOK'
  BY DEF TypeOK, CreateReplacementRoot, StepsOK, BrowserOK, Kept, Page, Optional, Steps,
         Profile, Take, Saved, At, broker, Connected
<1> QED BY <1>1, <1>2, <1>3, <1>4 DEF TypeOK, CreateReplacementRoot, broker, cloud, BrokerOK

\* Edit keeps the types.
LEMMA EditTypes ==
    ASSUME TypeOK, Edit
    PROVE  TypeOK'
<1>1. BrowserOK'
  <2>1. disk' \in Kept
    BY MarkedIsState DEF TypeOK, Edit, BrowserOK, Kept, Page, Optional, Steps, Profile
  <2>2. page' \in Page
    BY MarkedIsState DEF TypeOK, Edit, BrowserOK, Kept, Page, Optional, Steps, Profile
  <2> QED BY <2>1, <2>2 DEF BrowserOK
<1>2. LibraryOK'
  BY BoundAssumption DEF TypeOK, Edit, LibraryOK, Note, Excuses
<1>3. StepsOK'
  BY DEF TypeOK, Edit, StepsOK, BrowserOK, Kept, Page, Optional, Steps, Profile, At, broker
<1> QED BY <1>1, <1>2, <1>3 DEF TypeOK, Edit, broker, cloud, BrokerOK, DriveOK

\* RemoveLocal keeps the types.
LEMMA RemoveLocalTypes ==
    ASSUME TypeOK, RemoveLocal
    PROVE  TypeOK'
<1>1. BrowserOK'
  <2> DEFINE known == page.catalog # None \/ (page.sync # None /\ page.sync.known # None)
             s == IF ~known THEN None
                  ELSE [avail |-> "cloud-only", dirty |-> FALSE,
                        known |-> IF page.catalog # None THEN page.catalog.root
                                  ELSE page.sync.known]
  <2>1. s \in Optional(PaperState)
    BY DEF TypeOK, BrowserOK, Page, Optional, PaperState, Summary
  <2>2. page' = [page EXCEPT !.sync = s] /\ disk' = [disk EXCEPT !.sync = s]
    BY DEF RemoveLocal
  <2> HIDE DEF s
  <2> QED BY <2>1, <2>2 DEF TypeOK, BrowserOK, Kept, Page, Optional, Steps
<1>2. LibraryOK'
  BY BoundAssumption DEF TypeOK, RemoveLocal, LibraryOK, Note, Excuses
<1>3. StepsOK'
  BY DEF TypeOK, RemoveLocal, StepsOK, BrowserOK, Kept, Page, Optional, Steps, Profile, At,
         broker
<1> QED BY <1>1, <1>2, <1>3 DEF TypeOK, RemoveLocal, broker, cloud, BrokerOK, DriveOK

\* What a transfer leaves in memory and in IndexedDB.
LEMMA TransferTypes ==
    ASSUME BrowserOK, DriveOK', NEW dirty \in BOOLEAN, page.repository \in Root, Transferred(dirty)
    PROVE  BrowserOK'
<1> DEFINE s == [avail |-> "local-and-cloud", dirty |-> dirty, known |-> page.repository]
           c == [root |-> page.repository, at |-> drive'[page.repository].at, ok |-> TRUE]
<1>1. s \in Optional(PaperState)
  BY DEF PaperState, Optional
<1>2. c \in Optional(Summary)
  BY DEF DriveOK, Summary, Optional
<1>3. page' = [page EXCEPT !.sync = s, !.catalog = c]
      /\ disk' = [profile |-> page.profile, sync |-> s, catalog |-> c]
  BY DEF Transferred
<1> HIDE DEF s, c
<1> QED BY <1>1, <1>2, <1>3 DEF BrowserOK, Page, Kept

\* Upload keeps the types.
LEMMA UploadTypes ==
    ASSUME TypeOK, Upload
    PROVE  TypeOK'
<1>1. DriveOK'
  <2>1. page.repository \in Root
    BY DEF TypeOK, Upload, Working, BrowserOK, Page, Optional
  <2>2. local.notes \subseteq Note
    BY DEF TypeOK, LibraryOK
  <2> QED BY <2>1, <2>2 DEF TypeOK, Upload, DriveOK
<1>2. BrowserOK'
  <2>1. Transferred(FALSE) /\ page.repository \in Root
    BY DEF TypeOK, Upload, Working, BrowserOK, Page, Optional
  <2> QED BY <1>1, <2>1, TransferTypes DEF TypeOK
<1>3. StepsOK'
  BY DEF TypeOK, Upload, StepsOK, BrowserOK, Kept, Page, Optional, Steps, Profile,
         Transferred, Working, Connected, At, broker
<1> QED BY <1>1, <1>2, <1>3 DEF TypeOK, Upload, broker, cloud, BrokerOK, LibraryOK

\* Download keeps the types.
LEMMA DownloadTypes ==
    ASSUME TypeOK, Download
    PROVE  TypeOK'
<1>1. BrowserOK'
  <2>1. page.repository \in Root /\ DriveOK'
    BY DEF TypeOK, Download, Working, BrowserOK, Page, Optional, DriveOK
  <2>2. PICK dirty \in BOOLEAN : Transferred(dirty)
    BY Zenon DEF Download
  <2> QED BY <2>1, <2>2, TransferTypes DEF TypeOK
<1>2. LibraryOK'
  <2>1. page.repository \in Root
    BY DEF TypeOK, Download, Working, BrowserOK, Page, Optional
  <2>2. drive[page.repository].notes \subseteq Note /\ local.notes \subseteq Note
    BY <2>1 DEF TypeOK, DriveOK, LibraryOK
  <2> QED BY <2>2 DEF TypeOK, Download, LibraryOK
<1>3. StepsOK'
  BY DEF TypeOK, Download, StepsOK, BrowserOK, Kept, Page, Optional, Steps, Profile,
         Transferred, Working, Connected, At, broker
<1> QED BY <1>1, <1>2, <1>3 DEF TypeOK, Download, broker, cloud, BrokerOK, DriveOK

\* Scan keeps the types.
LEMMA ScanTypes ==
    ASSUME TypeOK, Scan
    PROVE  TypeOK'
<1>1. BrowserOK'
  <2>1. page.repository \in Root /\ page.repository # None
    BY DEF TypeOK, Scan, Working, BrowserOK, Page, Optional
  <2>2. drive[page.repository].at \in Nat
    BY <2>1 DEF TypeOK, DriveOK
  <2>3. PICK s \in Optional(PaperState), c \in Optional(Summary), d \in Optional(Summary),
             step \in {"idle", "commit"} :
          /\ page' = [page EXCEPT !.sync = s, !.catalog = c, !.step = step,
                                  !.position = drive[page.repository].at]
          /\ disk' = [disk EXCEPT !.sync = s, !.catalog = d]
    <3>1. page.sync \in Optional(PaperState) /\ disk.catalog \in Optional(Summary)
      BY DEF TypeOK, BrowserOK, Page, Kept
    <3>2. Reconciled(page.sync) \in Optional(PaperState)
      BY <3>1, ReconciledIsState
    <3>3. Rescanned \in Optional(Summary) /\ Audited(Reconciled(page.sync)) \in Optional(Summary)
      BY <2>1, <3>2, RescannedIsSummary, AuditedIsSummary DEF TypeOK
    <3>4. /\ Discovered(Reconciled(page.sync), Rescanned) \in Optional(PaperState)
          /\ Discovered(Reconciled(page.sync), Audited(Reconciled(page.sync)))
               \in Optional(PaperState)
      BY <3>2, <3>3, DiscoveredIsState
    <3> QED BY <3>1, <3>2, <3>3, <3>4 DEF Scan
  <2> QED BY <2>2, <2>3 DEF TypeOK, BrowserOK, Kept, Page, Optional, Steps
<1>2. StepsOK'
  BY DEF TypeOK, Scan, Working, Connected, At, broker, StepsOK, BrowserOK, Kept, Page,
         Optional, Steps
<1> QED BY <1>1, <1>2 DEF TypeOK, Scan, broker, cloud, BrokerOK, DriveOK, LibraryOK

\* CommitCursor keeps the types.
LEMMA CommitCursorTypes ==
    ASSUME TypeOK, Folders, Commits, CommitCursor
    PROVE  TypeOK'
<1>1. BrowserOK'
  <2> DEFINE cursor == [account |-> page.profile.account, root |-> page.profile.root,
                        at |-> page.position]
  <2>1. cursor \in Cursor
    BY DEF TypeOK, Folders, Commits, CommitCursor, BrowserOK, Page, Profile, Cursor, Optional
  <2> QED BY <2>1
    DEF TypeOK, CommitCursor, Committed, Saved, Profile, BrowserOK, Kept, Page, Optional,
        Steps
<1>2. StepsOK'
  BY DEF TypeOK, CommitCursor, StepsOK, BrowserOK, Kept, Page, Optional, Steps, Profile,
         Committed, Saved, At, broker
<1> QED BY <1>1, <1>2 DEF TypeOK, CommitCursor, broker, cloud, BrokerOK, DriveOK, LibraryOK

\* CommitFails keeps the types.
LEMMA CommitFailsTypes ==
    ASSUME TypeOK, CommitFails
    PROVE  TypeOK'
<1>1. BrowserOK'
  BY DEF TypeOK, CommitFails, BrowserOK, Kept, Page, Optional, Steps, At
<1>2. StepsOK'
  BY DEF TypeOK, CommitFails, StepsOK, BrowserOK, Kept, Page, Optional, Steps, Profile, At,
         broker
<1> QED BY <1>1, <1>2 DEF TypeOK, CommitFails, broker, cloud, BrokerOK, DriveOK, LibraryOK

--------------------------------------------------------------------------------
(* The cursor, step by step *)

\* A page and what it stores, as records.
LEMMA Fields ==
    ASSUME TypeOK
    PROVE  /\ disk \in Kept /\ page \in Page
           /\ disk.profile \in Profile /\ page.profile \in Profile
           /\ \A r \in Root : drive[r].at \in Nat
BY DEF TypeOK, BrowserOK, DriveOK, Kept, Page

\* Where profile, catalogs and position stay, and Drive only goes on: the broker, other
\* browsers, an edit and a removal disturb nothing.
LEMMA Undisturbed ==
    ASSUME TypeOK, Reading,
           disk'.profile = disk.profile, disk'.catalog = disk.catalog,
           page'.profile = page.profile, page'.catalog = page.catalog,
           page'.step = page.step, page'.binding = page.binding,
           page'.repository = page.repository, page'.session = page.session,
           page'.position = page.position,
           excused \subseteq excused',
           \A r \in Root : drive'[r].at \in Nat /\ drive'[r].at >= drive[r].at
    PROVE  Reading'
<1>1. Cursors'
  BY Fields DEF Reading, Cursors, CursorOK, Profile, Cursor, Optional
<1>2. Folders' /\ Bindings'
  BY DEF Reading, Folders, Bindings, At, Severing
<1>3. Commits'
  BY Fields DEF Reading, Commits, At, Page, Optional
<1>4. Sound'
  BY DEF Reading, Sound, Positions, Position, Coverings, Covers, Emptied, Severing, At,
         CursorIsCurrent
<1> QED BY <1>1, <1>2, <1>3, <1>4 DEF Reading

\* A page that goes on to another step of the exchange or the binding of an account, or
\* becomes idle, and keeps what it loaded.
LEMMA StepTaken ==
    ASSUME TypeOK, Reading, UNCHANGED drive, excused \subseteq excused',
           disk'.profile = disk.profile, disk'.catalog = disk.catalog,
           page'.profile = page.profile, page'.catalog = page.catalog,
           ~At("closed"), ~Emptied,
           page'.step \notin {"closed", "commit"}, ~Emptied', Bindings',
           page'.repository # None =>
               /\ page'.repository = page.repository /\ page'.step = "idle"
               /\ page'.session > 0 => page.session > 0
    PROVE  Reading'
<1>1. Cursors'
  BY DEF Reading, Cursors, CursorOK
<1>2. Folders'
  BY DEF Reading, Folders
<1>3. Commits'
  BY DEF Commits, At
<1>4. Sound'
  BY DEF Reading, Sound, Positions, Coverings, Covers, At, CursorIsCurrent
<1> QED BY <1>1, <1>2, <1>3, <1>4 DEF Reading

\* A page is closed, or left for Google's.
LEMMA PageLeft ==
    ASSUME TypeOK, Reading, UNCHANGED <<drive, disk>>, page' = Closed,
           excused \subseteq excused', Emptied => "torn" \in excused'
    PROVE  Reading'
<1>1. /\ page'.step = "closed" /\ page'.profile.cursor = None
      /\ page'.repository = None /\ page'.binding = None
  BY DEF Closed, NoProfile
<1>2. Cursors' /\ Folders' /\ Bindings' /\ Commits'
  BY <1>1 DEF Reading, Cursors, CursorOK, Folders, Bindings, Commits, At
<1>3. Sound'
  BY <1>1 DEF Reading, Sound, Positions, Coverings, Covers, Emptied, At, CursorIsCurrent
<1> QED BY <1>2, <1>3 DEF Reading

\* A profile that is saved with no cursor, or with the account, the folder and the cursor
\* it had, covers what it covered.
LEMMA ProfileSaved ==
    ASSUME TypeOK, Reading, UNCHANGED drive, excused \subseteq excused',
           ~At("closed"), ~Emptied, page'.step = "idle",
           disk'.profile \in {disk.profile, page'.profile}, disk'.catalog = disk.catalog,
           page'.catalog \in {page.catalog, None},
           page'.catalog # page.catalog =>
               page'.profile.cursor = None /\ disk'.profile = page'.profile,
           \/ page'.profile.cursor = None
           \/ /\ page'.profile.account = page.profile.account
              /\ page'.profile.root = page.profile.root
              /\ page'.profile.cursor = page.profile.cursor,
           page'.repository # None /\ page'.session > 0 =>
               /\ page'.profile.root = page'.repository
               /\ disk'.profile.root = page'.repository
    PROVE  Reading'
<1>1. Cursors'
  BY DEF Reading, Cursors, CursorOK
<1>2. Folders' /\ Bindings' /\ Commits' /\ ~Emptied' /\ ~(At("closed"))'
  BY DEF Folders, Bindings, Commits, Emptied, At
<1>3. Sound'
  BY <1>2 DEF Reading, Sound, Positions, Coverings, Covers, At, CursorIsCurrent
<1> QED BY <1>1, <1>2, <1>3 DEF Reading

\* The broker and other browsers disturb no cursor.
LEMMA OthersRead ==
    ASSUME TypeOK, Reading,
           \/ CreateSession
           \/ \E a \in Account : BeginRefresh(a) \/ EndRefresh(a)
           \/ Others
    PROVE  Reading'
<1>1. UNCHANGED <<disk, page, excused>>
  BY DEF CreateSession, BeginRefresh, EndRefresh, Others, AuthorizeElsewhere,
         DisconnectElsewhere, PublishElsewhere, RootChanges
<1>2. \A r \in Root : drive'[r].at \in Nat /\ drive'[r].at >= drive[r].at
  <2>1. CASE UNCHANGED drive
    BY <2>1, Fields
  <2>2. CASE \E r \in Root : PublishElsewhere(r)
    BY <2>2, Fields DEF PublishElsewhere, TypeOK, DriveOK
  <2> QED
    BY <2>1, <2>2 DEF CreateSession, BeginRefresh, EndRefresh, Others, AuthorizeElsewhere,
       DisconnectElsewhere, RootChanges, cloud
<1> QED BY <1>1, <1>2, Undisturbed

\* A grant is checked.
LEMMA CheckGrantReads ==
    ASSUME TypeOK, Reading, CheckGrant
    PROVE  Reading'
<1>1. CASE page' = page
  BY <1>1, Fields, Undisturbed DEF CheckGrant, cloud
<1>2. CASE page' # page
  <2>1. At("exchange") /\ page' = [page EXCEPT !.step = "idle"]
        /\ UNCHANGED <<drive, disk, excused>>
    BY <1>2 DEF CheckGrant, cloud
  <2> QED BY <2>1, Fields, StepTaken DEF At, Page, Emptied, Bindings, Reading, Folders
<1> QED BY <1>1, <1>2

\* A page is loaded with what is stored.
LEMMA LoadReads ==
    ASSUME TypeOK, Reading, Load
    PROVE  Reading'
<1>1. /\ page'.profile = disk.profile /\ page'.catalog = disk.catalog
      /\ page'.repository = None /\ page'.binding = None /\ page'.position = 0
      /\ page'.step \in {"idle", "exchange"} /\ page.step = "closed"
      /\ UNCHANGED <<drive, disk, excused>>
  BY DEF Load, At, Closed, cloud
<1>2. Cursors' /\ Folders' /\ Bindings' /\ Commits' /\ ~Emptied' /\ ~Emptied
  BY <1>1 DEF Reading, Cursors, CursorOK, Folders, Bindings, Commits, Emptied, At
<1>3. Sound'
  BY <1>1, <1>2 DEF Reading, Sound, Positions, Coverings, Covers, At, CursorIsCurrent
<1> QED BY <1>2, <1>3 DEF Reading

\* A page is left to authorize an account.
LEMMA ConnectReads ==
    ASSUME TypeOK, Reading, NEW a \in Account, Connect(a)
    PROVE  Reading'
BY PageLeft DEF Connect, cloud, At, Emptied

\* A page is closed.
LEMMA ClosePageReads ==
    ASSUME TypeOK, Reading, ClosePage
    PROVE  Reading'
BY PageLeft DEF ClosePage, cloud, Emptied

\* The session of an exchange arrives.
LEMMA ReceiveSessionReads ==
    ASSUME TypeOK, Reading, ReceiveSession
    PROVE  Reading'
<1>1. CASE ~At("exchange")
  BY <1>1, Fields, Undisturbed DEF ReceiveSession, cloud
<1>2. CASE At("exchange")
  <2>1. /\ page' = [page EXCEPT !.step = "bind", !.binding = exchange.account,
                                !.session = Len(sessions)]
        /\ UNCHANGED <<drive, disk, excused>>
    BY <1>2 DEF ReceiveSession, cloud
  <2>2. page.repository = None
    BY <1>2 DEF Reading, Folders, At
  <2> QED BY <1>2, <2>1, <2>2, Fields, StepTaken DEF At, Page, Emptied, Bindings
<1> QED BY <1>1, <1>2

\* The session of an exchange is lost.
LEMMA LoseSessionReads ==
    ASSUME TypeOK, Reading, LoseSession
    PROVE  Reading'
BY Fields, StepTaken DEF LoseSession, cloud, At, Page, Emptied, Bindings, Reading, Folders

\* The account of the profile, or the first one, is bound.
LEMMA BindSameReads ==
    ASSUME TypeOK, Reading, BindSame
    PROVE  Reading'
BY Fields, StepTaken
  DEF BindSame, cloud, At, Page, Emptied, Bindings, Severing, Reading, Folders

\* The states of another account are severed.
LEMMA SeverStatesRead ==
    ASSUME TypeOK, Reading, SeverStates
    PROVE  Reading'
BY Fields, StepTaken
   DEF SeverStates, cloud, At, Page, Kept, Emptied, Bindings, Severing, Reading, Folders

\* The catalog of another account is emptied, and the cursor of the page goes.
LEMMA ClearCatalogReads ==
    ASSUME TypeOK, Reading, ClearCatalog
    PROVE  Reading'
<1> DEFINE p == [page.profile EXCEPT !.root = None, !.cursor = None]
<1>1. p.account = page.profile.account /\ p.cursor = None
  BY Fields DEF Profile
<1>2. page' = [page EXCEPT !.step = "profile", !.catalog = None, !.profile = p]
      /\ disk' = [disk EXCEPT !.catalog = None] /\ UNCHANGED <<drive, excused>>
  BY Fields DEF ClearCatalog, Page, Profile, cloud
<1> HIDE DEF p
<1>3. /\ page'.step = "profile" /\ page'.profile = p /\ page'.binding = page.binding
      /\ page'.repository = page.repository /\ disk'.profile = disk.profile
  BY <1>2, Fields DEF Page, Kept
<1>4. page.repository = None /\ Severing
  BY DEF ClearCatalog, Reading, Folders, Bindings, At
<1>5. Cursors' /\ Folders' /\ Bindings' /\ Commits' /\ Emptied'
  BY <1>1, <1>2, <1>3, <1>4
  DEF Reading, Cursors, CursorOK, Folders, Bindings, Commits, Emptied, Severing, At
<1>6. Sound'
  BY <1>1, <1>3, <1>5 DEF Sound, Positions, Coverings, At
<1> QED BY <1>5, <1>6 DEF Reading

\* The account and the session are saved.
LEMMA BindProfileReads ==
    ASSUME TypeOK, Reading, BindProfile
    PROVE  Reading'
<1> DEFINE p == [page.profile EXCEPT !.account = page.binding, !.token = page.session]
<1>1. p.account = page.binding /\ p.root = page.profile.root /\ p.cursor = page.profile.cursor
  BY Fields DEF Profile
<1>2. page' = [page EXCEPT !.step = "idle", !.profile = p, !.binding = None]
      /\ disk' = [disk EXCEPT !.profile = p] /\ UNCHANGED <<drive, excused>>
  BY DEF BindProfile, Saved, cloud
<1> HIDE DEF p
<1>3. /\ page'.step = "idle" /\ page'.profile = p /\ page'.binding = None
      /\ page'.repository = page.repository /\ page'.catalog = page.catalog
      /\ disk'.profile = p /\ disk'.catalog = disk.catalog
  BY <1>2, Fields DEF Page, Kept
<1>4. page.repository = None /\ page.step = "profile" /\ page.binding # None
  BY DEF BindProfile, Reading, Folders, At, TypeOK, StepsOK
<1>5. Folders' /\ Bindings' /\ Commits' /\ ~Emptied'
  BY <1>3, <1>4 DEF Folders, Bindings, Commits, Emptied, At
<1>6. Cursors'
  BY <1>1, <1>2, <1>3, <1>4 DEF Reading, Cursors, CursorOK
<1>7. Sound'
  <2>1. CASE Emptied
    BY <1>1, <1>2, <1>3, <1>5, <2>1
      DEF Reading, Sound, Positions, Coverings, Covers, At, CursorIsCurrent
  <2>2. CASE ~Emptied
    <3>1. page.profile.cursor = None \/ p.account = page.profile.account
      BY <1>1, <1>4, <2>2 DEF Emptied, Severing, At, Reading, Cursors, CursorOK
    <3> QED BY <1>1, <1>2, <1>3, <1>4, <1>5, <2>2, <3>1
            DEF Reading, Sound, Positions, Coverings, Covers, At, CursorIsCurrent
  <2> QED BY <2>1, <2>2
<1> QED BY <1>5, <1>6, <1>7 DEF Reading

\* A write of the binding fails.
LEMMA BindFailsReads ==
    ASSUME TypeOK, Reading, BindFails
    PROVE  Reading'
<1> DEFINE p == [page.profile EXCEPT !.account = IF At("profile") THEN page.binding ELSE @,
                                     !.token = IF At("profile") THEN page.session ELSE @]
<1>1. /\ p.root = page.profile.root /\ p.cursor = page.profile.cursor
      /\ p.account = IF At("profile") THEN page.binding ELSE page.profile.account
  BY Fields DEF Profile
<1>2. /\ page'.step = "idle" /\ page'.profile = p /\ page'.binding = None
      /\ page'.repository = page.repository /\ page'.catalog = page.catalog
      /\ UNCHANGED <<drive, disk>>
  BY Fields DEF BindFails, Page, Profile, cloud
<1> HIDE DEF p
<1>3. page.repository = None /\ page.step # "closed" /\ page.binding # None
  BY DEF BindFails, Reading, Folders, At, TypeOK, StepsOK
<1>4. Folders' /\ Bindings' /\ Commits' /\ ~Emptied'
  BY <1>2, <1>3 DEF Folders, Bindings, Commits, Emptied, At
<1>5. Cursors'
  BY <1>1, <1>2, <1>3 DEF Reading, Cursors, CursorOK
<1>6. Sound'
  <2>1. CASE Severing
    BY <2>1 DEF BindFails, Sound
  <2>2. CASE ~Severing
    <3>1. UNCHANGED excused /\ ~Emptied
      BY <2>2 DEF BindFails, Emptied
    <3>2. page.profile.cursor = None \/ p.account = page.profile.account
      BY <1>1, <1>3, <2>2 DEF Severing, Reading, Cursors, CursorOK
    <3> QED BY <1>1, <1>2, <1>3, <1>4, <3>1, <3>2
            DEF Reading, Sound, Positions, Coverings, Covers, At, CursorIsCurrent
  <2> QED BY <2>1, <2>2
<1> QED BY <1>4, <1>5, <1>6 DEF Reading

\* The browser is disconnected.
LEMMA DisconnectReads ==
    ASSUME TypeOK, Reading, Disconnect
    PROVE  Reading'
<1> DEFINE p == [page.profile EXCEPT !.token = 0]
           forgetting == [page EXCEPT !.profile = p, !.session = 0]
<1>1. p.account = page.profile.account /\ p.root = page.profile.root
      /\ p.cursor = page.profile.cursor
  BY Fields DEF Profile
<1>2. \/ page' = page /\ disk' = disk
      \/ page' = forgetting /\ disk' = disk
      \/ page' = [forgetting EXCEPT !.repository = None] /\ disk' = Saved(page'.profile)
  BY Fields DEF Disconnect, Page, Profile
<1>3. UNCHANGED <<drive, excused>> /\ page.step = "idle"
  BY DEF Disconnect, cloud, At
<1> HIDE DEF p
<1>4. CASE page' = page /\ disk' = disk
  BY <1>3, <1>4, Fields, Undisturbed
<1>5. CASE page' = forgetting /\ disk' = disk
  <2>1. page'.profile = p /\ page'.catalog = page.catalog /\ page'.step = "idle"
        /\ page'.session = 0
    BY <1>3, <1>5, Fields DEF Page
  <2> QED BY <1>1, <1>3, <1>5, <2>1, ProfileSaved DEF At, Emptied
<1>6. CASE page' = [forgetting EXCEPT !.repository = None] /\ disk' = Saved(page'.profile)
  <2>1. page'.profile = p /\ page'.catalog = page.catalog /\ page'.step = "idle"
        /\ page'.session = 0 /\ disk'.profile = page'.profile /\ disk'.catalog = disk.catalog
    BY <1>3, <1>6, Fields DEF Page, Kept, Saved
  <2> QED BY <1>1, <1>3, <2>1, ProfileSaved DEF At, Emptied
<1> QED BY <1>2, <1>4, <1>5, <1>6

\* Every browser is disconnected.
LEMMA DisconnectAllReads ==
    ASSUME TypeOK, Reading, DisconnectAll
    PROVE  Reading'
<1> DEFINE forgetting == [page EXCEPT !.profile = NoProfile, !.session = 0]
<1>1. NoProfile.cursor = None
  BY DEF NoProfile
<1>2. \/ page' = page /\ disk' = disk
      \/ page' = forgetting /\ disk' = disk
      \/ /\ page' = [forgetting EXCEPT !.repository = None, !.catalog = None]
         /\ disk' = Saved(NoProfile)
  BY DEF DisconnectAll
<1>3. UNCHANGED <<drive, excused>> /\ page.step = "idle"
  BY DEF DisconnectAll, cloud, At
<1>4. CASE page' = page /\ disk' = disk
  BY <1>3, <1>4, Fields, Undisturbed
<1>5. CASE page' = forgetting /\ disk' = disk
  <2>1. page'.profile = NoProfile /\ page'.catalog = page.catalog /\ page'.step = "idle"
        /\ page'.session = 0
    BY <1>3, <1>5, Fields DEF Page
  <2> QED BY <1>1, <1>3, <1>5, <2>1, ProfileSaved DEF At, Emptied
<1>6. CASE /\ page' = [forgetting EXCEPT !.repository = None, !.catalog = None]
           /\ disk' = Saved(NoProfile)
  <2>1. /\ page'.profile = NoProfile /\ page'.catalog = None /\ page'.step = "idle"
        /\ page'.session = 0 /\ disk'.profile = page'.profile /\ disk'.catalog = disk.catalog
    BY <1>3, <1>6, Fields DEF Page, Kept, Saved
  <2> QED BY <1>1, <1>3, <2>1, ProfileSaved DEF At, Emptied
<1> QED BY <1>2, <1>4, <1>5, <1>6

\* A folder is taken, with the cursor of the profile only if it is the profile's.
LEMMA TakeReads ==
    ASSUME TypeOK, Reading, NEW r \in Root, NEW p \in Profile, Take(r, p), p.root = r,
           \/ p.cursor = None
           \/ p = page.profile,
           page.step = "idle", UNCHANGED drive
    PROVE  Reading'
<1>1. /\ page'.profile = p /\ page'.repository = r /\ page'.catalog = page.catalog
      /\ page'.step = "idle" /\ disk'.profile = p /\ disk'.catalog = disk.catalog
  BY Fields DEF Take, Saved, Page, Kept
<1>2. excused \subseteq excused'
  BY DEF Take, Excusing
<1> QED BY <1>1, <1>2, ProfileSaved DEF At, Emptied

\* The repository is made.
LEMMA EnsureRepositoryReads ==
    ASSUME TypeOK, Reading, EnsureRepository
    PROVE  Reading'
<1>1. PICK r \in Root : Take(r, [page.profile EXCEPT !.root = r,
                                       !.cursor = IF page.profile.root = r THEN @ ELSE None])
  BY DEF EnsureRepository
<1> DEFINE p == [page.profile EXCEPT !.root = r,
                                     !.cursor = IF page.profile.root = r THEN @ ELSE None]
<1>2. p \in Profile /\ p.root = r /\ (p.cursor = None \/ p = page.profile)
  BY Fields DEF Profile, Optional
<1>3. Take(r, p)
  BY <1>1
<1> HIDE DEF p
<1> QED BY <1>2, <1>3, TakeReads DEF EnsureRepository, Connected, At

\* A folder is chosen, or a new one made.
LEMMA RootTaken ==
    ASSUME TypeOK, Reading, NEW r \in Root, ChooseRoot(r) \/ CreateReplacementRoot(r)
    PROVE  Reading'
<1> DEFINE p == [page.profile EXCEPT !.root = r, !.cursor = None]
<1>1. p \in Profile /\ p.root = r /\ p.cursor = None
  BY Fields DEF Profile, Optional
<1>2. Take(r, p) /\ page.step = "idle" /\ UNCHANGED drive
  BY DEF ChooseRoot, CreateReplacementRoot, Connected, At, cloud
<1> HIDE DEF p
<1> QED BY <1>1, <1>2, TakeReads

\* A note is written.
LEMMA EditReads ==
    ASSUME TypeOK, Reading, Edit
    PROVE  Reading'
BY Fields, Undisturbed DEF Edit, cloud, Page, Kept

\* The paper is removed from the browser.
LEMMA RemoveLocalReads ==
    ASSUME TypeOK, Reading, RemoveLocal
    PROVE  Reading'
<1>1. PICK s : page' = [page EXCEPT !.sync = s] /\ disk' = [disk EXCEPT !.sync = s]
  BY DEF RemoveLocal
<1> QED BY <1>1, Fields, Undisturbed DEF RemoveLocal, cloud, Page, Kept

\* A page that works has the folder of its profile, in memory and as saved.
LEMMA WorkingFolder ==
    ASSUME TypeOK, Reading, Working
    PROVE  /\ page.step = "idle" /\ page.repository \in Root
           /\ page.repository # None /\ page.session > 0
           /\ page.profile.root = page.repository /\ disk.profile.root = page.repository
BY DEF Working, Connected, Mine, At, Reading, Folders, TypeOK, DriveOK

\* A cursor in use is not ahead of the folder.
LEMMA CurrentCursor ==
    ASSUME TypeOK, Reading, NEW p \in {disk.profile, page.profile}, CursorIsCurrent(p)
    PROVE  p.root \in Root /\ p.cursor.at \in Nat /\ p.cursor.at <= drive[p.root].at
<1>1. p \in Profile /\ p.cursor # None
  BY Fields DEF CursorIsCurrent
<1>2. p.cursor \in Cursor
  BY <1>1 DEF Profile, Optional
<1> QED BY <1>1, <1>2 DEF Cursor, CursorIsCurrent, Reading, Cursors, CursorOK

\* The paper is in the folder, and the catalogs say so.
LEMMA TransferReads ==
    ASSUME TypeOK, Reading, Working, NEW dirty \in BOOLEAN, Transferred(dirty),
           excused' = excused,
           \A r \in Root : drive'[r].at \in Nat /\ drive'[r].at >= drive[r].at
    PROVE  Reading'
<1> DEFINE r == page.repository
           c == [root |-> r, at |-> drive'[r].at, ok |-> TRUE]
<1>1. /\ page'.profile = page.profile /\ page'.catalog = c /\ page'.step = "idle"
      /\ page'.repository = r /\ page'.session = page.session
      /\ disk'.profile = page.profile /\ disk'.catalog = c
  BY WorkingFolder, Fields DEF Transferred, Page
<1>2. Folders' /\ Bindings' /\ Commits' /\ ~Emptied'
  BY <1>1, WorkingFolder DEF Folders, Bindings, Commits, Emptied, At
<1>3. Cursors'
  <2>1. CASE page.profile.cursor = None
    BY <1>1, <2>1 DEF Cursors, CursorOK
  <2>2. CASE page.profile.cursor # None
    <3>1. page.profile.cursor \in Cursor
      BY <2>2, Fields DEF Profile, Optional
    <3> QED BY <1>1, <2>2, <3>1, Fields DEF Cursor, Reading, Cursors, CursorOK
  <2> QED BY <2>1, <2>2
<1>4. Covers(c, page.profile)
  <2> SUFFICES ASSUME CursorIsCurrent(page.profile)
               PROVE  c # None /\ c.root = page.profile.root /\ c.at >= page.profile.cursor.at
    BY DEF Covers
  <2>1. c \in Summary
    BY WorkingFolder DEF Summary
  <2>2. /\ r \in Root /\ page.profile.root = r
        /\ page.profile.cursor.at \in Nat /\ page.profile.cursor.at <= drive[r].at
    BY WorkingFolder, CurrentCursor
  <2>3. drive'[r].at >= page.profile.cursor.at
    BY <2>2, Fields
  <2> QED BY <2>1, <2>2, <2>3, NoneAssumption
<1> HIDE DEF c
<1>5. Sound'
  <2>1. Covers(disk.catalog, disk.profile)' /\ Covers(page.catalog, disk.profile)'
        /\ Covers(disk.catalog, page.profile)' /\ Covers(page.catalog, page.profile)'
    BY <1>1, <1>4 DEF Covers, CursorIsCurrent
  <2> QED BY <1>1, <1>2, <2>1 DEF Sound, Positions, Coverings, At
<1> QED BY <1>2, <1>3, <1>5 DEF Reading

\* The paper is uploaded.
LEMMA UploadReads ==
    ASSUME TypeOK, Reading, Upload
    PROVE  Reading'
<1>1. \A r \in Root : drive'[r].at \in Nat /\ drive'[r].at >= drive[r].at
  BY WorkingFolder, Fields DEF Upload, TypeOK, DriveOK
<1> QED BY <1>1, TransferReads DEF Upload

\* The paper is downloaded.
LEMMA DownloadReads ==
    ASSUME TypeOK, Reading, Download
    PROVE  Reading'
<1>1. \A r \in Root : drive'[r].at \in Nat /\ drive'[r].at >= drive[r].at
  BY Fields DEF Download
<1>2. PICK dirty \in BOOLEAN : Transferred(dirty)
  BY Zenon DEF Download
<1> QED BY <1>1, <1>2, TransferReads DEF Download

\* A full audit of a folder the paper is in lists it as it is there.
LEMMA AuditedAt ==
    ASSUME TypeOK, Reading, Working, NEW s, drive[page.repository].at > 0
    PROVE  /\ Audited(s) # None /\ Audited(s).root = page.repository
           /\ Audited(s).at = drive[page.repository].at
<1>1. [root |-> page.repository, at |-> drive[page.repository].at, ok |-> TRUE] \in Summary
  BY WorkingFolder, Fields DEF Summary
<1> QED BY <1>1, NoneAssumption DEF Audited

\* What a scan lists shows all there is in the folder.
LEMMA ScanLists ==
    ASSUME TypeOK, Reading, Scan, "torn" \notin excused,
           drive[page.repository].at > 0
    PROVE  \A c \in {disk'.catalog, page'.catalog} :
               c # None /\ c.root = page.repository /\ c.at >= drive[page.repository].at
<1> DEFINE r == page.repository
           Shows(c) == c # None /\ c.root = r /\ c.at >= drive[r].at
<1>1. Working /\ r \in Root /\ drive[r].at \in Nat
  BY WorkingFolder, Fields DEF Scan
<1>2. PICK incremental \in {CursorIsCurrent(page.profile), FALSE} :
        LET changed == ~incremental \/ drive[r].at > page.profile.cursor.at
            c == IF incremental THEN Rescanned ELSE Audited(Reconciled(page.sync))
        IN  /\ page'.catalog = c
            /\ disk'.catalog = IF changed THEN c ELSE disk.catalog
  BY Fields DEF Scan, Page, Kept
<1>3. CASE ~incremental
  <2>1. Shows(Audited(Reconciled(page.sync)))
    BY <1>1, AuditedAt
  <2> QED BY <1>2, <1>3, <2>1
<1>4. CASE incremental
  <2>1. CursorIsCurrent(page.profile)
    BY <1>2, <1>4
  <2>2. page.profile.root = r /\ page.profile.cursor.at \in Nat
    BY <1>1, <2>1, WorkingFolder, CurrentCursor
  <2>3. CASE drive[r].at > page.profile.cursor.at
    <3>1. Rescanned = [root |-> r, at |-> drive[r].at, ok |-> TRUE]
      BY <2>3 DEF Rescanned
    <3>2. Rescanned \in Summary
      BY <1>1, <3>1 DEF Summary
    <3>3. Shows(Rescanned)
      <4>1. Rescanned # None
        BY <3>2, NoneAssumption
      <4>2. Rescanned.root = r /\ Rescanned.at = drive[r].at
        BY <3>1
      <4> QED BY <1>1, <4>1, <4>2
    <3> QED BY <1>2, <1>4, <2>3, <3>3
  <2>4. CASE ~(drive[r].at > page.profile.cursor.at)
    <3>1. page.profile.cursor.at > 0 /\ page.profile.cursor.at >= drive[r].at
      BY <1>1, <2>2, <2>4
    <3>2. Covers(disk.catalog, page.profile) /\ Covers(page.catalog, page.profile)
      BY <1>1, WorkingFolder DEF Reading, Sound, Coverings, Emptied, At
    <3>3. \A c \in {disk.catalog, page.catalog} :
            c # None /\ c.root = r /\ c.at >= page.profile.cursor.at
      BY <2>1, <2>2, <3>1, <3>2 DEF Covers
    <3>4. \A c \in {disk.catalog, page.catalog} : c # None => c.at \in Nat
      BY Fields DEF Kept, Page, Summary, Optional
    <3>5. Shows(disk.catalog) /\ Shows(page.catalog)
      BY <1>1, <2>2, <3>1, <3>3, <3>4
    <3>6. page'.catalog = page.catalog /\ disk'.catalog = disk.catalog
      BY <1>2, <1>4, <2>4 DEF Rescanned
    <3> QED BY <3>5, <3>6
  <2> QED BY <2>3, <2>4
<1> QED BY <1>2, <1>3, <1>4

\* A folder is scanned.
LEMMA ScanReads ==
    ASSUME TypeOK, TypeOK', Reading, Scan
    PROVE  Reading'
<1> DEFINE r == page.repository
<1>1. /\ Working /\ r \in Root /\ r # None /\ drive[r].at \in Nat /\ page.session > 0
      /\ page.profile.root = r /\ disk.profile.root = r /\ page.step = "idle"
  BY WorkingFolder, Fields DEF Scan
<1>2. /\ page'.profile = page.profile /\ disk'.profile = disk.profile
      /\ page'.repository = r /\ page'.session = page.session
      /\ page'.step \in {"idle", "commit"} /\ page'.position = drive[r].at
      /\ UNCHANGED <<drive, excused>>
  BY Fields DEF Scan, cloud, Page, Kept
<1>3. Cursors' /\ Folders' /\ Bindings' /\ Commits' /\ ~Emptied'
  BY <1>1, <1>2 DEF Reading, Cursors, CursorOK, Folders, Bindings, Commits, Emptied, At
<1>4. Sound'
  <2> SUFFICES ASSUME "torn" \notin excused
               PROVE  (Positions /\ Coverings)'
    BY <1>2 DEF Sound
  <2>1. Positions'
    BY <1>1, <1>2, ScanLists DEF Positions, Position
  <2>2. \A c \in {disk'.catalog, page'.catalog}, p \in {disk.profile, page.profile} :
          (CursorIsCurrent(p) /\ p.cursor.at > 0)
              => c # None /\ c.root = p.root /\ c.at >= p.cursor.at
    <3> SUFFICES ASSUME NEW c \in {disk'.catalog, page'.catalog},
                        NEW p \in {disk.profile, page.profile},
                        CursorIsCurrent(p), p.cursor.at > 0
                 PROVE  c # None /\ c.root = p.root /\ c.at >= p.cursor.at
      OBVIOUS
    <3>1. p.root = r /\ p.cursor.at \in Nat /\ p.cursor.at <= drive[r].at
      BY <1>1, CurrentCursor
    <3>2. c # None /\ c.root = r /\ c.at >= drive[r].at
      BY <1>1, <3>1, ScanLists
    <3>3. c.at \in Nat
      BY <3>2 DEF TypeOK, BrowserOK, Kept, Page, Summary, Optional
    <3> QED BY <1>1, <3>1, <3>2, <3>3
  <2>3. Coverings'
    BY <1>2, <1>3, <2>2 DEF Coverings, Covers, CursorIsCurrent, At
  <2> QED BY <2>1, <2>3
<1> QED BY <1>3, <1>4 DEF Reading

\* The position of the scan becomes the cursor.
LEMMA CommitCursorReads ==
    ASSUME TypeOK, Reading, CommitCursor
    PROVE  Reading'
<1> DEFINE r == page.repository
           cursor == [account |-> page.profile.account, root |-> page.profile.root,
                      at |-> page.position]
           p == [page.profile EXCEPT !.cursor = cursor]
<1>1. /\ p.account = page.profile.account /\ p.root = page.profile.root
      /\ p.cursor = cursor /\ page.profile.account # None
      /\ cursor.account = page.profile.account /\ cursor.root = page.profile.root
      /\ cursor.at = page.position
  BY Fields DEF Profile, CommitCursor
<1>2. /\ page' = [page EXCEPT !.step = "idle", !.profile = p, !.position = 0]
      /\ disk' = [disk EXCEPT !.profile = p] /\ UNCHANGED <<drive, excused>>
  BY DEF CommitCursor, Committed, Saved, cloud
<1> HIDE DEF p, cursor
<1>3. /\ page'.step = "idle" /\ page'.profile = p /\ page'.repository = r
      /\ page'.catalog = page.catalog /\ page'.session = page.session
      /\ disk'.profile = p /\ disk'.catalog = disk.catalog
  BY <1>2, Fields DEF Page, Kept
<1>4. page.session > 0 /\ page.profile.root = r /\ page.position <= drive[r].at
  BY DEF CommitCursor, Reading, Commits, Folders
<1>5. Cursors' /\ Folders' /\ Bindings' /\ Commits' /\ ~Emptied'
  BY <1>1, <1>2, <1>3, <1>4 DEF Cursors, CursorOK, Folders, Bindings, Commits, Emptied, At
<1>6. Sound'
  BY <1>1, <1>2, <1>3, <1>4, <1>5
  DEF CommitCursor, Reading, Sound, Positions, Position, Coverings, Covers, At
<1> QED BY <1>5, <1>6 DEF Reading

\* The cursor is not saved.
LEMMA CommitFailsReads ==
    ASSUME TypeOK, Reading, CommitFails
    PROVE  Reading'
<1>1. /\ page'.step = "idle" /\ page'.profile = page.profile
      /\ page'.repository = page.repository /\ page'.catalog = page.catalog
      /\ page'.session = page.session /\ page'.binding = page.binding
      /\ page.step = "commit" /\ UNCHANGED <<drive, disk, excused>>
  BY Fields DEF CommitFails, At, Page, cloud
<1> QED BY <1>1, StepTaken DEF At, Emptied, Bindings

--------------------------------------------------------------------------------
(* Sessions *)

\* Sessions that were disconnected stay inactive: those of a browser are only revoked, and
\* a new one is another session.
LEMMA StayInactive ==
    ASSUME TypeOK, Inactive, Next
    PROVE  Inactive'
<1>1. ended \subseteq DOMAIN sessions /\ \A s \in DOMAIN sessions : sessions[s] \in Session
  BY DEF TypeOK, BrokerOK
<1>2. CASE UNCHANGED <<sessions, ended>>
  BY <1>2 DEF Inactive
<1>3. CASE CreateSession
  <2>1. ended' = ended
    BY <1>3 DEF CreateSession
  <2> QED BY <1>1, <1>3, <2>1, CreationTypes DEF TypeOK, Inactive
<1>4. ASSUME NEW a, RevokeUserAndSessions(a)
      PROVE  Inactive'
  BY <1>1, <1>4 DEF RevokeUserAndSessions, Inactive, Session
<1>5. CASE Disconnect
  BY <1>1, <1>5, SessionsAreNumbered
    DEF TypeOK, BrowserOK, Page, StepsOK, Disconnect, Inactive, Session
<1>6. CASE Broker
  BY <1>2, <1>3, <1>4, <1>6 DEF Broker, CheckGrant, BeginRefresh, EndRefresh
<1>7. CASE Others
  BY <1>2, <1>4, <1>7
  DEF Others, AuthorizeElsewhere, DisconnectElsewhere, PublishElsewhere, RootChanges, broker
<1>8. CASE Binding
  BY <1>2, <1>4, <1>5, <1>8
  DEF Binding, Load, ClosePage, ReceiveSession, LoseSession, BindSame, SeverStates, ClearCatalog,
      BindProfile, BindFails, DisconnectAll, Connect, broker
<1>9. CASE Folder \/ Library
  BY <1>2, <1>9
  DEF Folder, EnsureRepository, ChooseRoot, CreateReplacementRoot, Library, Edit, RemoveLocal,
      Upload, Download, Scan, CommitCursor, CommitFails, broker
<1> QED BY <1>6, <1>7, <1>8, <1>9 DEF Next

--------------------------------------------------------------------------------
(* The theorems *)

\* The types and the invariant hold at first.
LEMMA InitCInv == Init => CInv /\ Inactive
<1> SUFFICES ASSUME Init PROVE CInv /\ Inactive
  OBVIOUS
<1>1. BrokerOK
  <2>1. sessions \in Seq(Session) /\ ended = {}
    BY DEF Init
  <2> QED BY <2>1 DEF Init, BrokerOK, Optional
<1>2. DriveOK /\ LibraryOK
  BY BoundAssumption DEF Init, DriveOK, LibraryOK
<1>3. BrowserOK
  BY ClosedIsPage DEF Init, BrowserOK, Stored, Kept, NoProfile, Profile, Optional
<1>4. StepsOK
  BY DEF Init, StepsOK, Stored, Closed, NoProfile
<1>5. Cursors /\ Folders /\ Bindings /\ Commits /\ Sound /\ Inactive
  BY DEF Init, Stored, Closed, NoProfile, Cursors, CursorOK, Folders, Bindings, Commits, Sound,
         Positions, Coverings, Covers, CursorIsCurrent, Emptied, At, Inactive
<1> QED BY <1>1, <1>2, <1>3, <1>4, <1>5 DEF CInv, Reading, TypeOK

\* Every step of the broker and of others keeps the types and the invariant.
LEMMA OthersStep ==
    ASSUME TypeOK, Reading, Broker \/ Others
    PROVE  TypeOK' /\ Reading'
<1>1. CASE CheckGrant
  BY <1>1, CheckGrantTypes, CheckGrantReads
<1>2. CASE CreateSession
  BY <1>2, CreateSessionTypes, OthersRead
<1>3. ASSUME NEW a \in Account, BeginRefresh(a) \/ EndRefresh(a)
      PROVE  TypeOK' /\ Reading'
  BY <1>3, BeginRefreshTypes, EndRefreshTypes, OthersRead
<1>4. CASE Others
  <2>1. TypeOK'
    BY <1>4, AuthorizeElsewhereTypes, DisconnectElsewhereTypes, PublishElsewhereTypes,
       RootChangesTypes DEF Others
  <2> QED BY <1>4, <2>1, OthersRead
<1> QED BY <1>1, <1>2, <1>3, <1>4 DEF Broker

\* Every step of connecting and disconnecting does.
LEMMA BindingStep ==
    ASSUME TypeOK, Reading, Binding
    PROVE  TypeOK' /\ Reading'
<1>1. CASE Load
  BY <1>1, LoadTypes, LoadReads
<1>2. CASE ClosePage
  BY <1>2, ClosePageTypes, ClosePageReads
<1>3. CASE ReceiveSession
  BY <1>3, ReceiveSessionTypes, ReceiveSessionReads
<1>4. CASE LoseSession
  BY <1>4, LoseSessionTypes, LoseSessionReads
<1>5. CASE BindSame
  BY <1>5, BindSameTypes, BindSameReads
<1>6. CASE SeverStates
  BY <1>6, SeverStatesTypes, SeverStatesRead
<1>7. CASE ClearCatalog
  BY <1>7, ClearCatalogTypes, ClearCatalogReads
<1>8. CASE BindProfile
  BY <1>8, BindProfileTypes, BindProfileReads
<1>9. CASE BindFails
  BY <1>9, BindFailsTypes, BindFailsReads
<1>10. CASE Disconnect
  BY <1>10, DisconnectTypes, DisconnectReads
<1>11. CASE DisconnectAll
  BY <1>11, DisconnectAllTypes, DisconnectAllReads
<1>12. ASSUME NEW a \in Account, Connect(a)
       PROVE  TypeOK' /\ Reading'
  BY <1>12, ConnectTypes, ConnectReads
<1> QED
  BY <1>1, <1>2, <1>3, <1>4, <1>5, <1>6, <1>7, <1>8, <1>9, <1>10, <1>11, <1>12 DEF Binding

\* Every step with the folder and the paper does.
LEMMA LibraryStep ==
    ASSUME TypeOK, Reading, Folder \/ Library
    PROVE  TypeOK' /\ Reading'
<1>1. CASE EnsureRepository
  BY <1>1, EnsureRepositoryTypes, EnsureRepositoryReads
<1>2. ASSUME NEW r \in Root, ChooseRoot(r) \/ CreateReplacementRoot(r)
      PROVE  TypeOK' /\ Reading'
  BY <1>2, ChooseRootTypes, CreateReplacementRootTypes, RootTaken
<1>3. CASE Edit
  BY <1>3, EditTypes, EditReads
<1>4. CASE RemoveLocal
  BY <1>4, RemoveLocalTypes, RemoveLocalReads
<1>5. CASE Upload
  BY <1>5, UploadTypes, UploadReads
<1>6. CASE Download
  BY <1>6, DownloadTypes, DownloadReads
<1>7. CASE Scan
  BY <1>7, ScanTypes, ScanReads
<1>8. CASE CommitCursor
  BY <1>8, CommitCursorTypes, CommitCursorReads DEF Reading
<1>9. CASE CommitFails
  BY <1>9, CommitFailsTypes, CommitFailsReads
<1> QED BY <1>1, <1>2, <1>3, <1>4, <1>5, <1>6, <1>7, <1>8, <1>9 DEF Folder, Library

\* Every step keeps the invariant, and sessions that were disconnected inactive.
LEMMA NextCInv ==
    ASSUME CInv, Inactive, [Next]_vars
    PROVE  CInv' /\ Inactive'
<1>1. TypeOK /\ Reading
  BY DEF CInv, Reading
<1>2. CASE UNCHANGED vars
  <2>1. TypeOK' /\ Inactive'
    BY <1>1, <1>2 DEF vars, TypeOK, BrokerOK, DriveOK, BrowserOK, LibraryOK, StepsOK, Inactive
  <2>2. Reading'
    BY <1>1, <1>2, Fields, Undisturbed DEF vars
  <2> QED BY <2>1, <2>2 DEF CInv, Reading
<1>3. CASE Next
  <2>1. TypeOK' /\ Reading'
    BY <1>1, <1>3, OthersStep, BindingStep, LibraryStep DEF Next
  <2>2. Inactive'
    BY <1>1, <1>3, StayInactive
  <2> QED BY <2>1, <2>2 DEF CInv, Reading
<1> QED BY <1>2, <1>3

\* What the invariant says of the cursors and the sessions.
LEMMA CInvCovers == CInv => CatalogCoversCursor
<1> SUFFICES ASSUME CInv, "torn" \notin excused, ~Severing
             PROVE  Covers(disk.catalog, disk.profile) /\ Covers(page.catalog, page.profile)
  BY DEF CatalogCoversCursor, Covers
<1>1. ~Emptied /\ Coverings
  BY DEF CInv, Reading, Sound, Emptied
<1> QED BY <1>1 DEF Coverings, Covers, CursorIsCurrent

\* The invariant holds of every behaviour.
LEMMA AlwaysCInv == Spec => [](CInv /\ Inactive)
BY InitCInv, NextCInv, PTL DEF Spec

\* The broker, Drive, the browser and its page have their types, and a page binds an account
\* exactly in the steps of doing so: every early return of initializeOnce and of
\* bindAuthorizedAccount leaves it bound or not.
THEOREM TypeCorrect == Spec => []TypeOK
<1>1. CInv => TypeOK
  BY DEF CInv
<1> QED BY <1>1, AlwaysCInv, PTL

\* A scan goes on only from a cursor before which the catalog shows all there is, through
\* connecting and disconnecting, other folders and whatever write fails: but for a binding
\* interrupted between the states and the catalog (paperCoordinator.ts, the order of
\* bindAuthorizedAccount).
THEOREM CursorCovered == Spec => []CatalogCoversCursor
BY AlwaysCInv, CInvCovers, PTL

\* A session that was disconnected everywhere is never accepted again: a refresh that was
\* on its way may make its account active, but revives no session.
THEOREM DisconnectedStays == Spec => []DisconnectedStaysDisconnected
<1>1. Inactive => DisconnectedStaysDisconnected
  BY DEF Inactive, DisconnectedStaysDisconnected, Authenticates
<1> QED BY <1>1, AlwaysCInv, PTL


--------------------------------------------------------------------------------
(* Accounts and folders: the invariant *)

\* Folders that what is kept of the paper speaks of, here or on the page
Known(c) == {x \in Root : \/ c.sync # None /\ c.sync.known = x
                          \/ c.catalog # None /\ c.catalog.root = x}

Spoken == Known(disk) \cup Known(page)

\* They are folders of the account of a profile, and no other than its own.
Belongs(c) ==
    \A x \in Spoken : /\ c.profile.account # None => Owner[x] = c.profile.account
                      /\ c.profile.root # None => x = c.profile.root

\* A page about to save the account speaks of no folder of another one.
Prepared ==
    /\ At("catalog") => \A c \in {disk, page} : c.sync # None => c.sync.known = None
    /\ Emptied => Spoken = {}
    /\ At("profile") => \A x \in Spoken : Owner[x] = page.binding

FoldersApart == excused = {} => Belongs(disk) /\ Belongs(page) /\ Prepared

\* A paper with nothing to upload is in the folder its state names.
Clean(c) ==
    (local.present /\ c.sync # None /\ ~c.sync.dirty)
        => c.sync.known \in Root /\ local.notes \subseteq drive[c.sync.known].notes

NothingToUpload == excused = {} => Clean(disk) /\ Clean(page)

\* A profile names the account of its session, and the broker answers with a session of
\* the account it was asked for.
Signs(profile, s) == s > 0 => profile.account = sessions[s].account

Signatures ==
    /\ Signs(disk.profile, disk.profile.token) /\ Signs(page.profile, page.profile.token)
    /\ page.step \in {"idle", "commit", "exchange"} => Signs(page.profile, page.session)
    /\ page.binding # None => page.session > 0 /\ sessions[page.session].account = page.binding
    /\ (page.repository # None /\ page.session > 0)
           => disk.profile.account = page.profile.account

Answered ==
    (exchange # None /\ exchange.step = "answer")
        => Len(sessions) > 0 /\ sessions[Len(sessions)].account = exchange.account

Signing == excused = {} => Signatures /\ Answered

FInv == Signing /\ FoldersApart /\ NothingToUpload

--------------------------------------------------------------------------------
(* Sessions and profiles *)

\* Where sessions keep their accounts, and a profile keeps its session or loses it, every
\* profile goes on to name the account of its session.
LEMMA SigningKept ==
    ASSUME TypeOK, Signing, excused \subseteq excused',
           Len(sessions') = Len(sessions),
           \A s \in 1..Len(sessions) : sessions'[s].account = sessions[s].account,
           \/ exchange' \in {exchange, None}
           \/ exchange'.step # "answer",
           page'.binding \in {page.binding, None},
           page'.session \in {page.session, 0},
           page'.binding # None => page'.session = page.session,
           page'.profile.token \in {page.profile.token, 0},
           (page'.profile.token > 0 \/ page'.session > 0)
               => page'.profile.account = page.profile.account,
           \/ disk'.profile = disk.profile
           \/ disk'.profile = page'.profile,
           page'.step \in {"idle", "commit", "exchange"} /\ page'.session > 0
               => page.step \in {"idle", "commit", "exchange"},
           (page'.repository # None /\ page'.session > 0)
               => \/ disk'.profile.account = page'.profile.account
                  \/ /\ page.repository # None /\ page.session > 0
                     /\ disk'.profile = disk.profile
    PROVE  Signing'
<1> SUFFICES ASSUME excused' = {}
             PROVE  (Signatures /\ Answered)'
  BY DEF Signing
<1>1. Signatures /\ Answered
  BY DEF Signing
<1>2. /\ Len(sessions) \in Nat /\ page.session \in 0..Len(sessions)
      /\ disk.profile.token \in 0..Len(sessions) /\ page.profile.token \in 0..Len(sessions)
  BY SessionsAreNumbered, Fields DEF TypeOK, StepsOK, Page, Profile
<1>3. Answered'
  BY <1>1, <1>2 DEF Answered
<1>4. Signs(disk.profile, disk.profile.token)' /\ Signs(page.profile, page.profile.token)'
  BY <1>1, <1>2 DEF Signatures, Signs
<1>5. (page.step \in {"idle", "commit", "exchange"} => Signs(page.profile, page.session))'
  BY <1>1, <1>2 DEF Signatures, Signs
<1>6. (page.binding # None
         => page.session > 0 /\ sessions[page.session].account = page.binding)'
  BY <1>1, <1>2 DEF Signatures
<1>7. ((page.repository # None /\ page.session > 0)
         => disk.profile.account = page.profile.account)'
  BY <1>1 DEF Signatures
<1> QED BY <1>3, <1>4, <1>5, <1>6, <1>7 DEF Signatures

\* Revoking sessions leaves them the accounts they are of.
LEMMA RevocationKeepsAccounts ==
    ASSUME TypeOK, NEW a, RevokeUserAndSessions(a)
    PROVE  /\ Len(sessions') = Len(sessions)
           /\ \A s \in 1..Len(sessions) : sessions'[s].account = sessions[s].account
<1>1. \A s \in DOMAIN sessions : sessions[s] \in Session
  BY DEF TypeOK, BrokerOK
<1>2. Len(sessions) \in Nat /\ DOMAIN sessions = 1..Len(sessions)
  BY SessionsAreNumbered DEF TypeOK
<1>3. \A s \in DOMAIN sessions :
        sessions'[s] \in Session /\ sessions'[s].account = sessions[s].account
  BY <1>1 DEF RevokeUserAndSessions, Session
<1>4. sessions' = [s \in DOMAIN sessions |-> sessions'[s]]
  BY DEF RevokeUserAndSessions
<1>5. Len(sessions') = Len(sessions)
  BY <1>3, <1>4, ChangedSessions DEF TypeOK
<1> QED BY <1>2, <1>3, <1>5

\* The broker, other than creating a session, and other browsers
LEMMA OthersSign ==
    ASSUME TypeOK, Signing,
           \/ CheckGrant
           \/ \E a \in Account : BeginRefresh(a) \/ EndRefresh(a)
           \/ Others
    PROVE  Signing'
<1>1. /\ Len(sessions') = Len(sessions)
      /\ \A s \in 1..Len(sessions) : sessions'[s].account = sessions[s].account
  <2>1. CASE UNCHANGED sessions
    BY <2>1
  <2>2. CASE \E a \in Account : RevokeUserAndSessions(a)
    BY <2>2, RevocationKeepsAccounts
  <2> QED
    BY <2>1, <2>2
    DEF CheckGrant, BeginRefresh, EndRefresh, Others, AuthorizeElsewhere, DisconnectElsewhere,
        PublishElsewhere, RootChanges, broker
<1>2. CASE UNCHANGED page
  <2>1. UNCHANGED <<disk, excused>> /\ (exchange' \in {exchange, None} \/ exchange'.step # "answer")
    <3>1. CASE CheckGrant
      BY <3>1 DEF CheckGrant, TypeOK, BrokerOK, Exchange, Optional
    <3> QED BY <3>1
      DEF BeginRefresh, EndRefresh, Others, AuthorizeElsewhere, DisconnectElsewhere,
          PublishElsewhere, RootChanges, broker
  <2>2. (page.repository # None /\ page.session > 0) =>
            disk.profile.account = page.profile.account \/ excused # {}
    BY DEF Signing, Signatures
  <2> QED BY <1>1, <1>2, <2>1, SigningKept, Zenon
<1>3. CASE ~UNCHANGED page
  <2>1. /\ page' = [page EXCEPT !.step = "idle"] /\ page.step = "exchange"
        /\ exchange' = None /\ UNCHANGED <<disk, excused>>
    BY <1>3
    DEF CheckGrant, BeginRefresh, EndRefresh, Others, AuthorizeElsewhere, DisconnectElsewhere,
        PublishElsewhere, RootChanges, At
  <2>2. /\ page'.step = "idle" /\ page'.profile = page.profile /\ page'.binding = page.binding
        /\ page'.session = page.session /\ page'.repository = page.repository
    BY <2>1, Fields DEF Page
  <2> QED BY <1>1, <2>1, <2>2, SigningKept
<1> QED BY <1>2, <1>3

\* The session that is created is the last one, and of the account of the grant.
LEMMA CreateSessionSigns ==
    ASSUME TypeOK, Signing, CreateSession
    PROVE  Signing'
<1> DEFINE f == [s \in DOMAIN sessions |->
                   IF sessions[s].account = exchange.account
                   THEN [sessions[s] EXCEPT !.active = FALSE] ELSE sessions[s]]
           e == [account |-> exchange.account, active |-> TRUE]
<1>1. /\ Len(sessions) \in Nat /\ DOMAIN sessions = 1..Len(sessions)
      /\ \A s \in DOMAIN sessions : sessions[s] \in Session
  BY SessionsAreNumbered DEF TypeOK, BrokerOK
<1>2. \A s \in DOMAIN sessions : f[s] \in Session /\ f[s].account = sessions[s].account
  BY <1>1 DEF Session
<1>3. f \in Seq(Session) /\ Len(f) = Len(sessions) /\ DOMAIN f = DOMAIN sessions
  <2> HIDE DEF f
  <2>1. f = [s \in DOMAIN sessions |-> f[s]]
    BY DEF f
  <2> QED BY <1>2, <2>1, ChangedSessions DEF TypeOK
<1>4. e \in Session /\ e.account = exchange.account
  BY DEF CreateSession, TypeOK, BrokerOK, Exchange, Optional, Session
<1>5. sessions' = Append(f, e) /\ exchange' = [exchange EXCEPT !.step = "answer"]
      /\ UNCHANGED <<disk, page, excused>>
  BY DEF CreateSession
<1> HIDE DEF f, e
<1>6. /\ Len(sessions') = Len(sessions) + 1
      /\ sessions'[Len(sessions) + 1] = e
      /\ \A s \in 1..Len(sessions) : sessions'[s].account = sessions[s].account
  BY <1>1, <1>2, <1>3, <1>4, <1>5
<1>7. exchange'.account = exchange.account
  BY <1>5 DEF CreateSession, TypeOK, BrokerOK, Exchange, Optional
<1>8. Signing => (excused = {} => Answered')
  BY <1>1, <1>4, <1>6, <1>7 DEF Answered
<1>9. Signing => (excused = {} => Signatures')
  <2> SUFFICES ASSUME Signatures PROVE Signatures'
    BY DEF Signing
  <2>1. /\ page.session \in 0..Len(sessions) /\ disk.profile.token \in 0..Len(sessions)
        /\ page.profile.token \in 0..Len(sessions)
    BY <1>1, Fields DEF TypeOK, StepsOK, Page, Profile
  <2> QED BY <1>5, <1>6, <2>1 DEF Signatures, Signs
<1> QED BY <1>5, <1>8, <1>9 DEF Signing

\* A page is loaded: its session is the one of its profile.
LEMMA LoadSigns ==
    ASSUME TypeOK, Signing, Load
    PROVE  Signing'
<1>1. /\ page'.profile = disk.profile /\ page'.session = disk.profile.token
      /\ page'.repository = None /\ page'.binding = None
      /\ exchange' = exchange \/ exchange'.step = "check"
      /\ UNCHANGED <<disk, sessions, excused>>
  BY DEF Load, Closed
<1>2. Signing => (excused = {} => Signatures' /\ Answered')
  BY <1>1 DEF Signing, Signatures, Signs, Answered
<1> QED BY <1>1, <1>2 DEF Signing

\* A page is left or closed.
LEMMA LeavingSigns ==
    ASSUME TypeOK, Signing, ClosePage \/ (\E a \in Account : Connect(a))
    PROVE  Signing'
<1>1. /\ page' = Closed /\ UNCHANGED <<disk, sessions, exchange>> /\ excused \subseteq excused'
  BY DEF ClosePage, Connect, broker
<1>2. /\ page'.profile.token = 0 /\ page'.session = 0 /\ page'.binding = None
  BY <1>1 DEF Closed, NoProfile
<1> QED BY <1>1, <1>2, SigningKept

\* The answer of the exchange arrives.
LEMMA ReceiveSessionSigns ==
    ASSUME TypeOK, Reading, Signing, ReceiveSession
    PROVE  Signing'
<1>1. exchange' = None /\ UNCHANGED <<sessions, disk, excused>>
  BY DEF ReceiveSession
<1>2. CASE ~At("exchange")
  BY <1>1, <1>2 DEF ReceiveSession, Signing, Signatures, Answered, Signs
<1>3. CASE At("exchange")
  <2>1. /\ page'.step = "bind" /\ page'.profile = page.profile
        /\ page'.binding = exchange.account /\ page'.session = Len(sessions)
        /\ page'.repository = None
    BY <1>3, Fields DEF ReceiveSession, Page, Reading, Folders, At
  <2>2. excused = {} =>
            Len(sessions) > 0 /\ sessions[Len(sessions)].account = exchange.account
    BY DEF ReceiveSession, Signing, Answered
  <2> QED BY <1>1, <2>1, <2>2 DEF Signing, Signatures, Signs, Answered
<1> QED BY <1>2, <1>3

\* The account and the session are saved, or fail to be.
LEMMA BindingSigns ==
    ASSUME TypeOK, Reading, Signing, BindProfile \/ BindFails
    PROVE  Signing'
<1>1. page.repository = None /\ page.binding # None
  BY DEF BindProfile, BindFails, Reading, Folders, At, TypeOK, StepsOK
<1>2. page'.step = "idle" /\ page'.binding = None /\ page'.session = page.session
      /\ page'.repository = None /\ UNCHANGED <<sessions, exchange>>
  BY <1>1, Fields DEF BindProfile, BindFails, Page, broker
<1>3. CASE At("profile")
  <2>1. page'.profile.account = page.binding /\ page'.profile.token = page.session
    <3>1. CASE BindProfile
      BY <3>1, Fields DEF BindProfile, Page, Profile
    <3>2. CASE BindFails
      <4> DEFINE p == [page.profile EXCEPT !.account = page.binding, !.token = page.session]
      <4>1. page'.profile = p
        BY <1>3, <3>2, Fields DEF BindFails, Page, Profile
      <4> QED BY <4>1, Fields DEF Profile
    <3> QED BY <3>1, <3>2
  <2>2. disk'.profile \in {disk.profile, page'.profile} /\ excused \subseteq excused'
    BY <1>3, Fields DEF BindProfile, BindFails, Page, Kept, Saved
  <2> QED BY <1>1, <1>2, <2>1, <2>2 DEF Signing, Signatures, Signs, Answered
<1>4. CASE ~At("profile")
  <2>1. Severing
    BY <1>4 DEF BindProfile, BindFails, Reading, Bindings, At
  <2> QED BY <1>4, <2>1 DEF BindProfile, BindFails, Signing
<1> QED BY <1>3, <1>4

\* The other steps of the binding
LEMMA BindingStepSigns ==
    ASSUME TypeOK, Signing, LoseSession \/ BindSame \/ SeverStates \/ ClearCatalog
    PROVE  Signing'
<1>1. UNCHANGED <<sessions, exchange>> /\ excused \subseteq excused'
  BY DEF LoseSession, BindSame, SeverStates, ClearCatalog, broker
<1>2. /\ page'.binding = page.binding /\ page'.session = page.session
      /\ page'.repository = page.repository
      /\ page'.profile.token = page.profile.token
      /\ page'.profile.account = page.profile.account
      /\ disk'.profile = disk.profile
  <2>1. CASE ClearCatalog
    <3>1. page'.profile = [page.profile EXCEPT !.root = None, !.cursor = None]
      BY <2>1, Fields DEF ClearCatalog, Page, Profile
    <3> QED BY <2>1, <3>1, Fields DEF ClearCatalog, Page, Kept, Profile
  <2> QED BY <2>1, Fields DEF LoseSession, BindSame, SeverStates, Page, Kept
<1>3. page'.step \in {"idle", "commit", "exchange"} => page.step = "exchange"
  BY Fields DEF LoseSession, BindSame, SeverStates, ClearCatalog, Page, At
<1>4. CASE page.repository = None
  BY <1>1, <1>2, <1>3, <1>4, SigningKept
<1>5. CASE page.repository # None
  BY <1>1, <1>2, <1>3, <1>5, SigningKept
<1> QED BY <1>4, <1>5

\* The browser, or every browser, is disconnected.
LEMMA DisconnectSigns ==
    ASSUME TypeOK, Signing, Disconnect \/ DisconnectAll
    PROVE  Signing'
<1> DEFINE profile == IF DisconnectAll THEN NoProfile ELSE [page.profile EXCEPT !.token = 0]
<1>1. /\ Len(sessions') = Len(sessions)
      /\ \A s \in 1..Len(sessions) : sessions'[s].account = sessions[s].account
  <2>1. CASE DisconnectAll
    BY <2>1, RevocationKeepsAccounts DEF DisconnectAll
  <2>2. CASE Disconnect
    <3>1. \A s \in 1..Len(sessions) : sessions[s] \in Session
      BY SessionsAreNumbered DEF TypeOK, BrokerOK
    <3>2. Len(sessions) \in Nat /\ DOMAIN sessions = 1..Len(sessions)
      BY SessionsAreNumbered DEF TypeOK
    <3> QED BY <2>2, <3>1, <3>2 DEF Disconnect, Session, TypeOK, BrokerOK
  <2> QED BY <2>1, <2>2
<1>2. exchange' = exchange /\ UNCHANGED excused /\ page.step = "idle"
  BY DEF Disconnect, DisconnectAll, At
<1>3. CASE UNCHANGED <<page, disk>>
  <2>1. CASE page.repository = None
    BY <1>1, <1>2, <1>3, <2>1, SigningKept
  <2>2. CASE page.repository # None
    BY <1>1, <1>2, <1>3, <2>2, SigningKept
  <2> QED BY <2>1, <2>2
<1>4. CASE ~UNCHANGED <<page, disk>>
  <2>1. \/ page' = [page EXCEPT !.profile = profile, !.session = 0] /\ disk' = disk
        \/ \E catalog \in {page.catalog, None} :
             page' = [page EXCEPT !.profile = profile, !.session = 0, !.repository = None,
                                  !.catalog = catalog]
             /\ disk' = Saved(page'.profile)
    <3>1. CASE DisconnectAll
      <4>1. CASE page' = [page EXCEPT !.profile = NoProfile, !.session = 0] /\ disk' = disk
        BY <3>1, <4>1
      <4>2. CASE /\ page' = [page EXCEPT !.profile = NoProfile, !.session = 0,
                                         !.repository = None, !.catalog = None]
                 /\ disk' = Saved(NoProfile)
        BY <3>1, <4>2, Fields DEF Page
      <4> QED BY <1>4, <3>1, <4>1, <4>2, Fields DEF DisconnectAll, Page
    <3>2. CASE ~DisconnectAll
      BY <1>4, <3>2, Fields DEF Disconnect, Page, Profile
    <3> QED BY <3>1, <3>2
  <2>2. profile.token = 0
    BY Fields DEF NoProfile, Profile
  <2> HIDE DEF profile
  <2>3. /\ page'.profile = profile /\ page'.session = 0 /\ page'.binding = page.binding
        /\ page.binding = None
        /\ disk' = disk \/ disk'.profile = page'.profile
    BY <1>2, <2>1, Fields DEF Page, Kept, Saved, TypeOK, StepsOK
  <2> QED BY <1>1, <1>2, <2>2, <2>3, SigningKept
<1> QED BY <1>3, <1>4

\* A folder is taken: the profile keeps its account and its session.
LEMMA FolderSigns ==
    ASSUME TypeOK, Signing, Folder
    PROVE  Signing'
<1>1. PICK r, p :
        /\ Take(r, p) /\ p.account = page.profile.account /\ p.token = page.profile.token
  <2>1. CASE EnsureRepository
    <3>1. PICK r \in Root : Take(r, [page.profile EXCEPT
                !.root = r, !.cursor = IF page.profile.root = r THEN @ ELSE None])
      BY <2>1 DEF EnsureRepository
    <3> DEFINE p == [page.profile EXCEPT
                       !.root = r, !.cursor = IF page.profile.root = r THEN @ ELSE None]
    <3>2. Take(r, p)
      BY <3>1
    <3>3. p.account = page.profile.account /\ p.token = page.profile.token
      BY Fields DEF Profile
    <3> HIDE DEF p
    <3> QED BY <3>2, <3>3
  <2>2. ASSUME NEW r \in Root, ChooseRoot(r) \/ CreateReplacementRoot(r)
        PROVE  \E p : /\ Take(r, p) /\ p.account = page.profile.account
                      /\ p.token = page.profile.token
    <3> DEFINE p == [page.profile EXCEPT !.root = r, !.cursor = None]
    <3>1. Take(r, p)
      BY <2>2 DEF ChooseRoot, CreateReplacementRoot
    <3>2. p.account = page.profile.account /\ p.token = page.profile.token
      BY Fields DEF Profile
    <3> HIDE DEF p
    <3> QED BY <3>1, <3>2
  <2> QED BY <2>1, <2>2 DEF Folder
<1>2. /\ page'.profile = p /\ disk'.profile = p /\ page'.binding = page.binding
      /\ page'.session = page.session /\ page'.step = page.step
  BY <1>1, Fields DEF Take, Saved, Page, Kept
<1>3. UNCHANGED <<sessions, exchange>> /\ excused \subseteq excused'
  BY <1>1 DEF Folder, EnsureRepository, ChooseRoot, CreateReplacementRoot, broker, Take, Excusing
<1> QED BY <1>1, <1>2, <1>3, SigningKept

\* Whatever is done with the paper
LEMMA LibrarySigns ==
    ASSUME TypeOK, Reading, Signing, Library
    PROVE  Signing'
<1>1. UNCHANGED <<sessions, exchange>> /\ excused \subseteq excused'
  BY DEF Library, Edit, RemoveLocal, Upload, Download, Scan, CommitCursor, CommitFails, broker
<1>2. /\ page'.profile.account = page.profile.account
      /\ page'.profile.token = page.profile.token
      /\ page'.binding = page.binding /\ page'.session = page.session
      /\ page'.repository = page.repository
      /\ page'.step = page.step \/ page.step \in {"idle", "commit"}
      /\ disk'.profile \in {disk.profile, page'.profile}
  <2>1. CASE Edit
    BY <2>1, Fields DEF Edit, Page, Kept
  <2>2. CASE RemoveLocal
    <3>1. PICK s : page' = [page EXCEPT !.sync = s] /\ disk' = [disk EXCEPT !.sync = s]
      BY <2>2 DEF RemoveLocal
    <3> QED BY <3>1, Fields DEF Page, Kept
  <2>3. CASE Upload \/ Download
    <3>1. PICK dirty \in BOOLEAN : Transferred(dirty)
      BY <2>3, Zenon DEF Upload, Download
    <3>2. PICK s, c : /\ page' = [page EXCEPT !.sync = s, !.catalog = c]
                      /\ disk' = [profile |-> page.profile, sync |-> s, catalog |-> c]
      BY <3>1 DEF Transferred
    <3> QED BY <3>2, Fields DEF Page
  <2>4. CASE Scan
    <3>1. page.step = "idle"
      BY <2>4, WorkingFolder DEF Scan
    <3> QED BY <2>4, <3>1, Fields DEF Scan, Page, Kept
  <2>5. CASE CommitCursor
    <3> DEFINE p == [page.profile EXCEPT
                       !.cursor = [account |-> page.profile.account,
                                   root |-> page.profile.root, at |-> page.position]]
    <3>1. p.account = page.profile.account /\ p.token = page.profile.token
      BY Fields DEF Profile
    <3>2. /\ page' = [page EXCEPT !.step = "idle", !.profile = p, !.position = 0]
          /\ disk' = [disk EXCEPT !.profile = p] /\ page.step = "commit"
      BY <2>5 DEF CommitCursor, Committed, Saved, At
    <3> HIDE DEF p
    <3> QED BY <3>1, <3>2, Fields DEF Page, Kept
  <2>6. CASE CommitFails
    BY <2>6, Fields DEF CommitFails, Page, At
  <2> QED BY <2>1, <2>2, <2>3, <2>4, <2>5, <2>6 DEF Library
<1> HIDE DEF Library
<1>3. CASE disk'.profile = disk.profile
  <2>1. CASE page.repository = None
    BY <1>1, <1>2, <1>3, <2>1, SigningKept
  <2>2. CASE page.repository # None
    BY <1>1, <1>2, <1>3, <2>2, SigningKept
  <2> QED BY <2>1, <2>2
<1>4. CASE disk'.profile = page'.profile
  BY <1>1, <1>2, <1>4, SigningKept
<1> QED BY <1>2, <1>3, <1>4

\* Every step keeps the names of the sessions right.
LEMMA SigningStep ==
    ASSUME TypeOK, Reading, Signing, Next
    PROVE  Signing'
BY OthersSign, CreateSessionSigns, LoadSigns, LeavingSigns, ReceiveSessionSigns, BindingSigns,
   BindingStepSigns, DisconnectSigns, FolderSigns, LibrarySigns
DEF Next, Broker, Binding

--------------------------------------------------------------------------------
(* Folders *)

\* Every name of a folder in what is kept of the paper is one of those it speaks of.
LEMMA KnownIsSpoken ==
    ASSUME TypeOK, NEW c \in {disk, page}
    PROVE  /\ c.sync # None => c.sync.known = None \/ c.sync.known \in Spoken
           /\ c.catalog # None => c.catalog.root \in Spoken
<1>1. c.sync \in Optional(PaperState) /\ c.catalog \in Optional(Summary)
  BY Fields DEF Page, Kept
<1>2. c.sync # None => c.sync.known \in Optional(Root)
  BY <1>1 DEF Optional, PaperState
<1>3. c.catalog # None => c.catalog.root \in Root
  BY <1>1 DEF Optional, Summary
<1> QED BY <1>2, <1>3 DEF Spoken, Known, Optional

\* The same of what the sources of a folder, with another one taken, speak of
LEMMA StrangeIsSpoken ==
    ASSUME NEW r, TypeOK
    PROVE  Strange(r) = Spoken \ {r}
<1>1. ASSUME NEW x
      PROVE  x \in Strange(r) <=> x \in Spoken \ {r}
  BY Zenon DEF Strange, Spoken, Known
<1> QED BY <1>1

\* Where nothing new is spoken of, and a profile names no other account or folder than
\* before, everything stays apart.
LEMMA FoldersKept ==
    ASSUME TypeOK, FoldersApart, excused \subseteq excused',
           Spoken' \subseteq Spoken,
           \A c \in {disk', page'} :
               \E d \in {disk, page} :
                   /\ c.profile.account \in {d.profile.account, None}
                   /\ \E e \in {disk, page} : c.profile.root \in {e.profile.root, None},
           \/ page'.step \notin {"catalog", "profile"}
           \/ excused' = {} => Prepared'
    PROVE  FoldersApart'
<1> SUFFICES ASSUME excused' = {}
             PROVE  (Belongs(disk) /\ Belongs(page) /\ Prepared)'
  BY DEF FoldersApart
<1>1. Belongs(disk) /\ Belongs(page)
  BY DEF FoldersApart
<1>2. Belongs(disk)' /\ Belongs(page)'
  BY <1>1 DEF Belongs
<1>3. Prepared'
  BY DEF Prepared, At, Emptied
<1> QED BY <1>2, <1>3

\* What the page and IndexedDB speak of depends on their states and catalogs only.
LEMMA SpokenFrom ==
    ASSUME disk'.sync = disk.sync \/ disk'.sync = page.sync \/ disk'.sync = None
           \/ disk'.sync.known = None,
           page'.sync = page.sync \/ page'.sync = disk.sync \/ page'.sync = None
           \/ page'.sync.known = None,
           disk'.catalog \in {disk.catalog, page.catalog, None},
           page'.catalog \in {disk.catalog, page.catalog, None}
    PROVE  Spoken' \subseteq Spoken
<1> SUFFICES ASSUME NEW x \in Root, x \in Known(disk)' \cup Known(page)'
             PROVE  x \in Known(disk) \cup Known(page)
  BY DEF Spoken, Known
<1>1. x # None
  BY OwnerAssumption
<1> QED BY <1>1 DEF Known

\* The broker and others
LEMMA OthersApart ==
    ASSUME TypeOK, FoldersApart, Broker \/ Others
    PROVE  FoldersApart'
<1>1. UNCHANGED <<disk, excused>>
  BY DEF Broker, Others, CheckGrant, CreateSession, BeginRefresh, EndRefresh, AuthorizeElsewhere,
         DisconnectElsewhere, PublishElsewhere, RootChanges
<1>2. CASE UNCHANGED page
  BY <1>1, <1>2 DEF FoldersApart, Belongs, Spoken, Known, Prepared, At, Emptied, Severing
<1>3. CASE ~UNCHANGED page
  <2>1. page' = [page EXCEPT !.step = "idle"]
    BY <1>3
    DEF Broker, Others, CheckGrant, CreateSession, BeginRefresh, EndRefresh, AuthorizeElsewhere,
        DisconnectElsewhere, PublishElsewhere, RootChanges
  <2>2. /\ page'.step = "idle" /\ page'.profile = page.profile
        /\ page'.sync = page.sync /\ page'.catalog = page.catalog
    BY <2>1, Fields DEF Page
  <2> QED BY <1>1, <2>2, SpokenFrom, FoldersKept
<1> QED BY <1>2, <1>3

\* A page is loaded, left or closed, or its session comes or is lost.
LEMMA LoadingApart ==
    ASSUME TypeOK, FoldersApart,
           \/ Load \/ ClosePage \/ ReceiveSession \/ LoseSession
           \/ \E a \in Account : Connect(a)
    PROVE  FoldersApart'
<1>1. disk' = disk /\ excused \subseteq excused'
  BY DEF Load, ClosePage, ReceiveSession, LoseSession, Connect
<1>2. CASE Load
  <2>1. /\ page'.profile = disk.profile /\ page'.sync = disk.sync
        /\ page'.catalog = disk.catalog /\ page'.step \in {"idle", "exchange"}
    BY <1>2 DEF Load, Closed
  <2> QED BY <1>1, <2>1, SpokenFrom, FoldersKept
<1>3. CASE ClosePage \/ \E a \in Account : Connect(a)
  <2>1. page' = Closed
    BY <1>3 DEF ClosePage, Connect
  <2>2. /\ page'.profile.account = None /\ page'.profile.root = None
        /\ page'.sync = None /\ page'.catalog = None /\ page'.step = "closed"
    BY <2>1 DEF Closed, NoProfile
  <2> QED BY <1>1, <2>2, SpokenFrom, FoldersKept
<1>4. CASE (ReceiveSession /\ At("exchange")) \/ LoseSession
  <2>1. /\ page'.profile = page.profile /\ page'.sync = page.sync
        /\ page'.catalog = page.catalog /\ page'.step \in {"idle", "bind"}
    BY <1>4, Fields DEF ReceiveSession, LoseSession, Page, At
  <2> QED BY <1>1, <2>1, SpokenFrom, FoldersKept
<1>5. CASE ReceiveSession /\ ~At("exchange")
  BY <1>1, <1>5
  DEF ReceiveSession, FoldersApart, Belongs, Spoken, Known, Prepared, At, Emptied, Severing
<1> QED BY <1>2, <1>3, <1>4, <1>5

\* The account of the profile is bound, or the first one: if anything kept speaks of a
\* folder of another account, that is excused.
LEMMA BindSameApart ==
    ASSUME TypeOK, FoldersApart, BindSame
    PROVE  FoldersApart'
<1>1. /\ page'.profile = page.profile /\ page'.sync = page.sync
      /\ page'.catalog = page.catalog /\ page'.step = "profile"
      /\ page'.binding = page.binding /\ disk' = disk /\ excused \subseteq excused'
  BY Fields DEF BindSame, Page
<1>2. Spoken' = Spoken
  BY <1>1 DEF Spoken, Known
<1>3. excused' = {} => \A x \in Spoken : Owner[x] = page.binding
  <2> SUFFICES ASSUME excused' = {}, NEW x \in Spoken
               PROVE  Owner[x] = page.binding
    OBVIOUS
  <2>1. CASE page.profile.account = None
    <3>1. x \in Strange(None)
      BY StrangeIsSpoken, OwnerAssumption DEF Spoken, Known
    <3> QED BY <2>1, <3>1 DEF BindSame
  <2>2. CASE page.profile.account # None
    <3>1. page.profile.account = page.binding
      BY <2>2 DEF BindSame, Severing, TypeOK, StepsOK, At
    <3> QED BY <1>1, <2>2, <3>1 DEF FoldersApart, Belongs
  <2> QED BY <2>1, <2>2
<1>4. excused' = {} => Prepared'
  BY <1>1, <1>2, <1>3 DEF Prepared, At, Emptied, Severing, BindSame
<1> QED BY <1>1, <1>2, <1>4, FoldersKept

\* The states are severed.
LEMMA SeverStatesApart ==
    ASSUME TypeOK, FoldersApart, SeverStates
    PROVE  FoldersApart'
<1>1. /\ page'.profile = page.profile /\ page'.catalog = page.catalog
      /\ page'.step = "catalog" /\ page'.sync = Severed(page.sync)
      /\ disk'.profile = disk.profile /\ disk'.catalog = disk.catalog
      /\ disk'.sync = Severed(page.sync) /\ excused' = excused
  BY Fields DEF SeverStates, Page, Kept
<1>2. Severed(page.sync) = None \/ Severed(page.sync).known = None
  BY DEF Severed
<1>3. Spoken' \subseteq Spoken
  BY <1>1, <1>2, SpokenFrom
<1>4. Prepared'
  BY <1>1, <1>2 DEF Prepared, At, Emptied
<1> QED BY <1>1, <1>3, <1>4, FoldersKept

\* With the catalog emptied, nothing of the account before is left.
LEMMA ClearCatalogApart ==
    ASSUME TypeOK, FoldersApart, ClearCatalog
    PROVE  FoldersApart'
<1> DEFINE p == [page.profile EXCEPT !.root = None, !.cursor = None]
<1>1. p.account = page.profile.account /\ p.root = None
  BY Fields DEF Profile
<1>2. page' = [page EXCEPT !.step = "profile", !.catalog = None, !.profile = p]
      /\ disk' = [disk EXCEPT !.catalog = None] /\ excused' = excused
  BY Fields DEF ClearCatalog, Page, Profile
<1> HIDE DEF p
<1>3. /\ page'.profile = p /\ page'.catalog = None /\ page'.sync = page.sync
      /\ disk'.profile = disk.profile /\ disk'.catalog = None /\ disk'.sync = disk.sync
  BY <1>2, Fields DEF Page, Kept
<1>4. excused' = {} => Spoken' = {}
  BY <1>2, <1>3, OwnerAssumption DEF ClearCatalog, FoldersApart, Prepared, Spoken, Known, At
<1> QED BY <1>1, <1>2, <1>3, <1>4 DEF FoldersApart, Belongs, Prepared, At, ClearCatalog

\* The account is saved, or fails to be.
LEMMA BindingApart ==
    ASSUME TypeOK, Reading, FoldersApart, BindProfile \/ BindFails
    PROVE  FoldersApart'
<1> DEFINE p == [page.profile EXCEPT !.account = page.binding, !.token = page.session]
<1>1. p.account = page.binding /\ p.root = page.profile.root
  BY Fields DEF Profile
<1>2. CASE At("profile")
  <2>1. \/ page' = [page EXCEPT !.step = "idle", !.binding = None, !.profile = p]
        \/ page' = [page EXCEPT !.step = "idle", !.binding = None, !.profile = p,
                                !.sync = page.sync]
    BY <1>2, Fields DEF BindProfile, BindFails, Page, Profile, At
  <2>2. \/ disk' = [disk EXCEPT !.profile = p]
        \/ disk' = disk
    BY DEF BindProfile, BindFails, Saved
  <2>3. excused \subseteq excused'
    BY DEF BindProfile, BindFails
  <2> HIDE DEF p
  <2>4. /\ page'.step = "idle" /\ page'.profile = p /\ page'.sync = page.sync
        /\ page'.catalog = page.catalog /\ disk'.profile \in {disk.profile, p}
        /\ disk'.sync = disk.sync /\ disk'.catalog = disk.catalog
    BY <2>1, <2>2, Fields DEF Page, Kept
  <2>5. Spoken' = Spoken
    BY <2>4 DEF Spoken, Known
  <2>6. excused' = {} => Belongs(disk)' /\ Belongs(page)'
    BY <1>1, <1>2, <2>3, <2>4, <2>5 DEF FoldersApart, Belongs, Prepared
  <2> QED BY <2>4, <2>6 DEF FoldersApart, Prepared, At, Emptied
<1>3. CASE ~At("profile")
  <2>1. Severing
    BY <1>3 DEF BindProfile, BindFails, Reading, Bindings, At
  <2> QED BY <1>3, <2>1 DEF BindProfile, BindFails, FoldersApart
<1> QED BY <1>2, <1>3

\* The browser, or every browser, is disconnected.
LEMMA DisconnectApart ==
    ASSUME TypeOK, FoldersApart, Disconnect \/ DisconnectAll
    PROVE  FoldersApart'
<1>1. excused' = excused /\ page.step = "idle"
  BY DEF Disconnect, DisconnectAll, At
<1>2. /\ page'.profile.account \in {page.profile.account, None}
      /\ page'.profile.root \in {page.profile.root, None}
      /\ page'.step = "idle" /\ page'.sync = page.sync
      /\ page'.catalog \in {page.catalog, None}
      /\ disk'.profile \in {disk.profile, page'.profile}
      /\ disk'.sync = disk.sync /\ disk'.catalog = disk.catalog
  <2>1. CASE page' = page /\ disk' = disk
    BY <1>1, <2>1
  <2>2. CASE DisconnectAll /\ ~(page' = page /\ disk' = disk)
    <3>1. \/ page' = [page EXCEPT !.profile = NoProfile, !.session = 0] /\ disk' = disk
          \/ /\ page' = [page EXCEPT !.profile = NoProfile, !.session = 0,
                                     !.repository = None, !.catalog = None]
             /\ disk' = Saved(NoProfile)
      BY <2>2, Fields DEF DisconnectAll, Page
    <3>2. NoProfile.account = None /\ NoProfile.root = None
      BY DEF NoProfile
    <3> QED BY <1>1, <3>1, <3>2, Fields DEF Page, Kept, Saved
  <2>3. CASE Disconnect /\ ~(page' = page /\ disk' = disk)
    <3> DEFINE p == [page.profile EXCEPT !.token = 0]
    <3>1. p.account = page.profile.account /\ p.root = page.profile.root
      BY Fields DEF Profile
    <3>2. \/ page' = [page EXCEPT !.profile = p, !.session = 0] /\ disk' = disk
          \/ /\ page' = [page EXCEPT !.profile = p, !.session = 0, !.repository = None]
             /\ disk' = [disk EXCEPT !.profile = p]
      BY <2>3, Fields DEF Disconnect, Saved, Page, Profile
    <3> HIDE DEF p
    <3> QED BY <1>1, <3>1, <3>2, Fields DEF Page, Kept
  <2> QED BY <2>1, <2>2, <2>3
<1>3. Spoken' \subseteq Spoken
  BY <1>2, SpokenFrom
<1> QED BY <1>1, <1>2, <1>3, FoldersKept

\* The account of a page that has a session is that of its profile.
LEMMA SignedAccount ==
    ASSUME TypeOK, Signing, excused = {}, page.session > 0,
           page.step \in {"idle", "commit", "exchange"}
    PROVE  page.profile.account = Signed /\ Signed \in Account
BY SessionOfPage DEF Signing, Signatures, Signs, Signed, Session, TypeOK

\* A folder is taken: of what is kept, other folders of the account are excused, and folders
\* of other accounts there are none.
LEMMA TakeApart ==
    ASSUME TypeOK, Signing, FoldersApart, NEW r \in Root, NEW p, Take(r, p),
           p.root = r, p.account = page.profile.account,
           Connected, Owner[r] = Signed
    PROVE  FoldersApart'
<1>1. /\ page'.profile = p /\ page'.sync = page.sync /\ page'.catalog = page.catalog
      /\ page'.step = page.step /\ page.step = "idle"
      /\ disk'.profile = p /\ disk'.sync = disk.sync /\ disk'.catalog = disk.catalog
  BY Fields DEF Take, Saved, Page, Kept, Connected, At
<1>2. Spoken' = Spoken
  BY <1>1 DEF Spoken, Known
<1>3. ASSUME excused' = {}, NEW x \in Spoken
      PROVE  Owner[x] = p.account /\ x = r
  <2>1. excused = {} /\ \A y \in Strange(r) : Owner[y] # Owner[r]
    BY <1>3 DEF Take, Excusing
  <2>2. page.profile.account = Signed /\ page.profile.account # None
    BY <2>1, SignedAccount, OwnerAssumption DEF Connected, At
  <2>3. Owner[x] = page.profile.account
    BY <1>3, <2>1, <2>2 DEF FoldersApart, Belongs
  <2>4. x \notin Strange(r)
    BY <2>1, <2>2, <2>3
  <2> QED BY <1>3, <2>3, <2>4, StrangeIsSpoken
<1> QED BY <1>1, <1>2, <1>3 DEF FoldersApart, Belongs, Prepared, At, Emptied

\* The repository is made, a folder chosen, or a new one made.
LEMMA FolderApart ==
    ASSUME TypeOK, Signing, FoldersApart, Folder
    PROVE  FoldersApart'
<1>1. CASE EnsureRepository
  <2>1. PICK r \in Root : /\ Take(r, [page.profile EXCEPT
                                !.root = r, !.cursor = IF page.profile.root = r THEN @ ELSE None])
                          /\ Owner[r] = Signed
    BY <1>1 DEF EnsureRepository
  <2> DEFINE p == [page.profile EXCEPT
                     !.root = r, !.cursor = IF page.profile.root = r THEN @ ELSE None]
  <2>2. Take(r, p) /\ p.root = r /\ p.account = page.profile.account
    BY <2>1, Fields DEF Profile
  <2> HIDE DEF p
  <2> QED BY <1>1, <2>1, <2>2, TakeApart DEF EnsureRepository
<1>2. ASSUME NEW r \in Root, ChooseRoot(r) \/ CreateReplacementRoot(r)
      PROVE  FoldersApart'
  <2> DEFINE p == [page.profile EXCEPT !.root = r, !.cursor = None]
  <2>1. Take(r, p) /\ Owner[r] = Signed /\ Connected
    BY <1>2 DEF ChooseRoot, CreateReplacementRoot, Mine
  <2>2. p.root = r /\ p.account = page.profile.account
    BY Fields DEF Profile
  <2> HIDE DEF p
  <2> QED BY <2>1, <2>2, TakeApart
<1> QED BY <1>1, <1>2 DEF Folder

\* A note is written: the state speaks of what it spoke of.
LEMMA EditApart ==
    ASSUME TypeOK, FoldersApart, Edit
    PROVE  FoldersApart'
<1>1. /\ page'.profile = page.profile /\ page'.catalog = page.catalog
      /\ page'.step = page.step /\ page'.binding = page.binding
      /\ page'.sync = Marked(page.sync)
      /\ disk'.profile = disk.profile /\ disk'.catalog = disk.catalog
      /\ disk'.sync = Marked(page.sync) /\ excused' = excused
  BY Fields DEF Edit, Page, Kept
<1>2. /\ page.sync = None => Marked(page.sync).known = None
      /\ page.sync # None => Marked(page.sync).known = page.sync.known
  <2>1. page.sync # None => page.sync \in PaperState
    BY Fields DEF Page, Optional
  <2> QED BY <2>1 DEF Marked, PaperState
<1>3. Spoken' \subseteq Spoken
  <2> SUFFICES ASSUME NEW x \in Root, x \in Known(disk)' \cup Known(page)'
               PROVE  x \in Known(disk) \cup Known(page)
    BY DEF Spoken, Known
  <2>1. x # None
    BY OwnerAssumption
  <2> QED BY <1>1, <1>2, <2>1 DEF Known
<1>4. excused' = {} => Prepared'
  BY <1>1, <1>2, <1>3 DEF FoldersApart, Prepared, At, Emptied, Severing
<1> QED BY <1>1, <1>3, <1>4, FoldersKept

\* The paper is removed: what was known of it is still what its state speaks of.
LEMMA RemoveLocalApart ==
    ASSUME TypeOK, FoldersApart, RemoveLocal
    PROVE  FoldersApart'
<1>1. PICK s : /\ page' = [page EXCEPT !.sync = s] /\ disk' = [disk EXCEPT !.sync = s]
               /\ s # None => \/ page.catalog # None /\ s.known = page.catalog.root
                              \/ page.sync # None /\ s.known = page.sync.known
  <2> DEFINE known == page.catalog # None \/ (page.sync # None /\ page.sync.known # None)
             s == IF ~known THEN None
                  ELSE [avail |-> "cloud-only", dirty |-> FALSE,
                        known |-> IF page.catalog # None THEN page.catalog.root
                                  ELSE page.sync.known]
  <2>1. page' = [page EXCEPT !.sync = s] /\ disk' = [disk EXCEPT !.sync = s]
    BY DEF RemoveLocal
  <2>2. s # None => \/ page.catalog # None /\ s.known = page.catalog.root
                    \/ page.sync # None /\ s.known = page.sync.known
    OBVIOUS
  <2> HIDE DEF s
  <2> QED BY <2>1, <2>2
<1>2. /\ page'.profile = page.profile /\ page'.catalog = page.catalog
      /\ page'.step = page.step /\ page'.binding = page.binding /\ page'.sync = s
      /\ disk'.profile = disk.profile /\ disk'.catalog = disk.catalog
      /\ disk'.sync = s
  BY <1>1, Fields DEF Page, Kept
<1>3. excused \subseteq excused' /\ (At("catalog") => excused' # {})
  BY DEF RemoveLocal
<1>4. Spoken' \subseteq Spoken
  BY <1>1, <1>2 DEF Spoken, Known
<1>5. excused' = {} => Prepared'
  BY <1>2, <1>3, <1>4 DEF FoldersApart, Prepared, At, Emptied, Severing
<1> QED BY <1>2, <1>3, <1>4, <1>5, FoldersKept

\* A page that works has the folder of its profile, and it is of its account.
LEMMA WorkingAccount ==
    ASSUME TypeOK, Reading, Signing, Working, excused = {}
    PROVE  /\ page.profile.account = Owner[page.repository]
           /\ disk.profile.account = Owner[page.repository]
<1>1. page.profile.account = Signed /\ Owner[page.repository] = Signed
  BY WorkingFolder, SignedAccount DEF Working, Mine
<1>2. disk.profile.account = page.profile.account
  BY WorkingFolder DEF Signing, Signatures
<1> QED BY <1>1, <1>2

\* A step of a page that works and speaks of nothing new but its folder
LEMMA WorkingApart ==
    ASSUME TypeOK, Reading, Signing, FoldersApart, Working,
           Spoken' \subseteq Spoken \cup {page.repository},
           disk'.profile \in {disk.profile, page.profile}, page'.profile = page.profile,
           page'.step \in {"idle", "commit"}, excused' = excused
    PROVE  FoldersApart'
<1> SUFFICES ASSUME excused = {}
             PROVE  (Belongs(disk) /\ Belongs(page) /\ Prepared)'
  BY DEF FoldersApart
<1>1. Belongs(disk) /\ Belongs(page)
  BY DEF FoldersApart
<1>2. Belongs(disk)' /\ Belongs(page)'
  BY <1>1, WorkingFolder, WorkingAccount DEF Belongs
<1> QED BY <1>2 DEF Prepared, At, Emptied

\* The paper is uploaded or downloaded.
LEMMA TransferApart ==
    ASSUME TypeOK, Reading, Signing, FoldersApart, Upload \/ Download
    PROVE  FoldersApart'
<1>1. PICK dirty \in BOOLEAN : Transferred(dirty)
  BY Zenon DEF Upload, Download
<1>2. PICK s, c : /\ page' = [page EXCEPT !.sync = s, !.catalog = c]
                  /\ disk' = [profile |-> page.profile, sync |-> s, catalog |-> c]
                  /\ s.known = page.repository /\ c.root = page.repository
  <2> DEFINE s == [avail |-> "local-and-cloud", dirty |-> dirty, known |-> page.repository]
             c == [root |-> page.repository, at |-> drive'[page.repository].at, ok |-> TRUE]
  <2>1. /\ page' = [page EXCEPT !.sync = s, !.catalog = c]
        /\ disk' = [profile |-> page.profile, sync |-> s, catalog |-> c]
    BY <1>1 DEF Transferred
  <2>2. s.known = page.repository /\ c.root = page.repository
    OBVIOUS
  <2> HIDE DEF s, c
  <2> QED BY <2>1, <2>2
<1>3. Working /\ excused' = excused
  BY DEF Upload, Download
<1>4. /\ page'.profile = page.profile /\ page'.step = page.step /\ disk'.profile = page.profile
      /\ page'.sync = s /\ page'.catalog = c /\ disk'.sync = s /\ disk'.catalog = c
  BY <1>2, Fields DEF Page
<1>5. Spoken' \subseteq {page.repository}
  BY <1>2, <1>4 DEF Spoken, Known
<1> QED BY <1>3, <1>4, <1>5, WorkingFolder, WorkingApart

\* What a scan leaves of the state and the catalog
LEMMA ScanLeaves ==
    ASSUME TypeOK, Reading, Scan
    PROVE  \E s, t, c, d :
             /\ s = Reconciled(page.sync)
             /\ c = Rescanned \/ c = Audited(s)
             /\ t = s \/ t = Discovered(s, c)
             /\ d \in {c, disk.catalog}
             /\ page'.sync = t /\ page'.catalog = c /\ disk'.sync = t /\ disk'.catalog = d
             /\ page'.profile = page.profile /\ disk'.profile = disk.profile
             /\ page'.step \in {"idle", "commit"} /\ excused' = excused
             /\ UNCHANGED <<local, drive>>
<1> DEFINE s == Reconciled(page.sync)
<1>1. PICK incremental \in BOOLEAN, changed \in BOOLEAN, step \in {"idle", "commit"} :
        LET c == IF incremental THEN Rescanned ELSE Audited(s)
            t == IF changed THEN Discovered(s, c) ELSE s
        IN  /\ page' = [page EXCEPT !.sync = t, !.catalog = c, !.step = step,
                                    !.position = drive[page.repository].at]
            /\ disk' = [disk EXCEPT !.sync = t, !.catalog = IF changed THEN c ELSE @]
  BY DEF Scan, CursorIsCurrent
<1> DEFINE c == IF incremental THEN Rescanned ELSE Audited(s)
           t == IF changed THEN Discovered(s, c) ELSE s
           d == IF changed THEN c ELSE disk.catalog
<1>2. /\ page' = [page EXCEPT !.sync = t, !.catalog = c, !.step = step,
                              !.position = drive[page.repository].at]
      /\ disk' = [disk EXCEPT !.sync = t, !.catalog = d]
  BY <1>1
<1>3. /\ c = Rescanned \/ c = Audited(s)
      /\ t = s \/ t = Discovered(s, c)
      /\ d \in {c, disk.catalog}
  OBVIOUS
<1> HIDE DEF s, c, t, d
<1>4. /\ page'.sync = t /\ page'.catalog = c /\ disk'.sync = t /\ disk'.catalog = d
      /\ page'.profile = page.profile /\ disk'.profile = disk.profile
      /\ page'.step \in {"idle", "commit"}
  BY <1>2, Fields DEF Page, Kept
<1>5. excused' = excused /\ UNCHANGED <<local, drive>>
  BY DEF Scan, cloud
<1>6. s = Reconciled(page.sync)
  BY DEF s
<1> QED BY <1>3, <1>4, <1>5, <1>6

\* Of what a scan leaves, only the folder of the page may be new.
LEMMA ScanSpeaks ==
    ASSUME TypeOK, Reading, Working, NEW s, s = Reconciled(page.sync),
           NEW c, c = Rescanned \/ c = Audited(s)
    PROVE  /\ c # None => c.root \in Spoken \cup {page.repository}
           /\ s # None => s.known = None \/ s.known \in Spoken
           /\ Discovered(s, c) # None =>
                  Discovered(s, c).known \in Spoken \cup {page.repository, None}
<1>1. page.sync # None => page.sync \in PaperState
  BY Fields DEF Page, Optional
<1>2. page.catalog # None => page.catalog \in Summary
  BY Fields DEF Page, Optional
<1>3. s # None => s.known = None \/ s.known \in Spoken
  <2>1. CASE page.sync = None
    BY <2>1 DEF Reconciled
  <2>2. CASE page.sync # None
    <3>1. s.known = page.sync.known
      BY <1>1, <2>2 DEF Reconciled, PaperState
    <3> QED BY <2>2, <3>1, KnownIsSpoken
  <2> QED BY <2>1, <2>2
<1>4. c # None => c.root \in Spoken \cup {page.repository}
  <2>1. page.catalog # None => page.catalog.root \in Spoken
    BY KnownIsSpoken
  <2>2. CASE c = Rescanned
    BY <2>1, <2>2 DEF Rescanned
  <2>3. CASE c = Audited(s)
    <3>1. page.catalog # None => [page.catalog EXCEPT !.ok = FALSE].root = page.catalog.root
      BY <1>2 DEF Summary
    <3> QED BY <1>3, <2>1, <2>3, <3>1 DEF Audited
  <2> QED BY <2>2, <2>3
<1>5. Discovered(s, c) # None =>
          Discovered(s, c).known \in Spoken \cup {page.repository, None}
  BY <1>3, <1>4 DEF Discovered
<1> QED BY <1>3, <1>4, <1>5

\* A folder is scanned.
LEMMA ScanApart ==
    ASSUME TypeOK, Reading, Signing, FoldersApart, Scan
    PROVE  FoldersApart'
<1>1. Working
  BY DEF Scan
<1>2. PICK s, t, c, d :
        /\ s = Reconciled(page.sync)
        /\ c = Rescanned \/ c = Audited(s)
        /\ t = s \/ t = Discovered(s, c)
        /\ d \in {c, disk.catalog}
        /\ page'.sync = t /\ page'.catalog = c /\ disk'.sync = t /\ disk'.catalog = d
        /\ page'.profile = page.profile /\ disk'.profile = disk.profile
        /\ page'.step \in {"idle", "commit"} /\ excused' = excused
  BY ScanLeaves
<1>3. /\ c # None => c.root \in Spoken \cup {page.repository}
      /\ t # None => t.known \in Spoken \cup {page.repository, None}
  BY <1>1, <1>2, ScanSpeaks
<1>4. d # None => d.root \in Spoken \cup {page.repository}
  BY <1>2, <1>3, KnownIsSpoken
<1>5. Spoken' \subseteq Spoken \cup {page.repository}
  <2> SUFFICES ASSUME NEW x \in Root, x \in Known(disk)' \cup Known(page)'
               PROVE  x \in Spoken \cup {page.repository}
    BY DEF Spoken, Known
  <2>1. x # None
    BY OwnerAssumption
  <2> QED BY <1>2, <1>3, <1>4, <2>1 DEF Known
<1> QED BY <1>1, <1>2, <1>5, WorkingApart

\* The cursor is saved or not.
LEMMA CommitApart ==
    ASSUME TypeOK, FoldersApart, CommitCursor \/ CommitFails
    PROVE  FoldersApart'
<1> DEFINE p == [page.profile EXCEPT
                   !.cursor = [account |-> page.profile.account,
                               root |-> page.profile.root, at |-> page.position]]
<1>1. p.account = page.profile.account /\ p.root = page.profile.root
  BY Fields DEF Profile
<1>2. \/ /\ page' = [page EXCEPT !.step = "idle", !.profile = p, !.position = 0]
         /\ disk' = [disk EXCEPT !.profile = p]
      \/ page' = [page EXCEPT !.step = "idle", !.position = 0] /\ disk' = disk
  BY DEF CommitCursor, CommitFails, Committed, Saved
<1> HIDE DEF p
<1>3. /\ page'.profile \in {p, page.profile} /\ page'.step = "idle"
      /\ page'.sync = page.sync /\ page'.catalog = page.catalog
      /\ disk'.profile \in {p, disk.profile}
      /\ disk'.sync = disk.sync /\ disk'.catalog = disk.catalog
  BY <1>2, Fields DEF Page, Kept
<1>4. excused' = excused /\ Spoken' \subseteq Spoken
  BY <1>3, SpokenFrom DEF CommitCursor, CommitFails
<1> QED BY <1>1, <1>3, <1>4, FoldersKept

\* Every step keeps accounts and folders apart.
LEMMA ApartStep ==
    ASSUME TypeOK, Reading, Signing, FoldersApart, Next
    PROVE  FoldersApart'
<1>1. CASE Binding
  BY <1>1, LoadingApart, BindSameApart, SeverStatesApart, ClearCatalogApart, BindingApart,
     DisconnectApart DEF Binding
<1>2. CASE Library
  BY <1>2, EditApart, RemoveLocalApart, TransferApart, ScanApart, CommitApart DEF Library
<1> QED BY <1>1, <1>2, OthersApart, FolderApart DEF Next

--------------------------------------------------------------------------------
(* Notes *)

\* Where the paper stays, a state is taken over as it is, and no folder loses notes,
\* nothing that was clean is not.
LEMMA CleanKept ==
    ASSUME TypeOK, NothingToUpload, excused \subseteq excused', local' = local,
           disk'.sync = disk.sync,
           page'.sync \in {page.sync, disk.sync, None},
           \A r \in Root : drive[r].notes \subseteq drive'[r].notes
    PROVE  NothingToUpload'
BY DEF NothingToUpload, Clean

\* Where every state has something to upload
LEMMA DirtyIsNotClean ==
    ASSUME disk'.sync # None => disk'.sync.dirty, page'.sync # None => page'.sync.dirty
    PROVE  NothingToUpload'
BY DEF NothingToUpload, Clean

\* The broker, others and the steps of the binding but the severing leave states as they are.
LEMMA OthersClean ==
    ASSUME TypeOK, NothingToUpload,
           Broker \/ Others \/ (Binding /\ ~SeverStates /\ ~BindFails)
    PROVE  NothingToUpload'
<1>1. local' = local /\ excused \subseteq excused'
  BY DEF Broker, Others, CheckGrant, CreateSession, BeginRefresh, EndRefresh, AuthorizeElsewhere,
         DisconnectElsewhere, PublishElsewhere, RootChanges, Binding, Load, ClosePage,
         ReceiveSession, LoseSession, BindSame, ClearCatalog, BindProfile, Disconnect,
         DisconnectAll, Connect
<1>2. \A r \in Root : drive[r].notes \subseteq drive'[r].notes
  <2>1. CASE UNCHANGED drive
    BY <2>1
  <2>2. CASE \E r \in Root : PublishElsewhere(r)
    BY <2>2 DEF PublishElsewhere, TypeOK, DriveOK
  <2> QED
    BY <2>1, <2>2
    DEF Broker, Others, CheckGrant, CreateSession, BeginRefresh, EndRefresh, AuthorizeElsewhere,
        DisconnectElsewhere, RootChanges, Binding, Load, ClosePage, ReceiveSession, LoseSession,
        BindSame, ClearCatalog, BindProfile, Disconnect, DisconnectAll, Connect, cloud
<1>3. disk'.sync = disk.sync
  BY Fields
  DEF Broker, Others, CheckGrant, CreateSession, BeginRefresh, EndRefresh, AuthorizeElsewhere,
      DisconnectElsewhere, PublishElsewhere, RootChanges, Binding, Load, ClosePage,
      ReceiveSession, LoseSession, BindSame, ClearCatalog, BindProfile, Disconnect,
      DisconnectAll, Connect, Saved, Kept
<1>4. page'.sync \in {page.sync, disk.sync, None}
  <2>1. CASE Broker \/ Others
    BY <2>1, Fields
    DEF Broker, Others, CheckGrant, CreateSession, BeginRefresh, EndRefresh, AuthorizeElsewhere,
        DisconnectElsewhere, PublishElsewhere, RootChanges, Page
  <2>2. CASE Load
    BY <2>2 DEF Load, Closed
  <2>8. CASE ClosePage \/ (\E a \in Account : Connect(a))
    <3>1. page' = Closed
      BY <2>8 DEF ClosePage, Connect
    <3> QED BY <3>1 DEF Closed
  <2>3. CASE ReceiveSession \/ LoseSession \/ BindSame
    BY <2>3, Fields DEF ReceiveSession, LoseSession, BindSame, Page
  <2>4. CASE ClearCatalog
    BY <2>4, Fields DEF ClearCatalog, Page
  <2>5. CASE BindProfile
    BY <2>5, Fields DEF BindProfile, Page
  <2>6. CASE Disconnect
    BY <2>6, Fields DEF Disconnect, Page
  <2>7. CASE DisconnectAll
    BY <2>7, Fields DEF DisconnectAll, Page
  <2> QED BY <2>1, <2>2, <2>3, <2>4, <2>5, <2>6, <2>7, <2>8 DEF Binding
<1> QED BY <1>1, <1>2, <1>3, <1>4, CleanKept

\* What is severed has everything to upload; where the severing is not saved, that is
\* excused.
LEMMA SeveringCleans ==
    ASSUME TypeOK, Reading, NothingToUpload, SeverStates \/ BindFails
    PROVE  NothingToUpload'
<1>1. CASE SeverStates
  <2>1. disk'.sync = Severed(page.sync) /\ page'.sync = Severed(page.sync)
    BY <1>1, Fields DEF SeverStates, Page, Kept
  <2>2. Severed(page.sync) # None => Severed(page.sync).dirty
    BY DEF Severed
  <2> QED BY <2>1, <2>2, DirtyIsNotClean
<1>2. CASE BindFails /\ Severing
  BY <1>2 DEF BindFails, NothingToUpload
<1>3. CASE BindFails /\ ~Severing
  <2>1. ~At("bind")
    BY <1>3 DEF BindFails
  <2>2. page'.sync = page.sync /\ disk' = disk /\ UNCHANGED <<local, drive>>
        /\ excused \subseteq excused'
    BY <1>3, <2>1, Fields DEF BindFails, Page, cloud
  <2> QED BY <2>2, CleanKept
<1> QED BY <1>1, <1>2, <1>3

\* A folder is taken.
LEMMA FolderCleans ==
    ASSUME TypeOK, NothingToUpload, Folder
    PROVE  NothingToUpload'
<1>1. PICK r, p : Take(r, p)
  BY DEF Folder, EnsureRepository, ChooseRoot, CreateReplacementRoot
<1>2. disk'.sync = disk.sync /\ page'.sync = page.sync /\ excused \subseteq excused'
  BY <1>1, Fields DEF Take, Saved, Excusing, Page, Kept
<1>3. UNCHANGED <<local, drive>>
  BY DEF Folder, EnsureRepository, ChooseRoot, CreateReplacementRoot, cloud
<1> QED BY <1>2, <1>3, CleanKept

\* The paper is uploaded: its notes are in the folder its state then names.
LEMMA UploadCleans ==
    ASSUME TypeOK, Reading, Upload
    PROVE  NothingToUpload'
<1>1. page.repository \in Root /\ local' = local
  BY WorkingFolder DEF Upload
<1>2. local.notes \subseteq drive'[page.repository].notes
  BY <1>1 DEF Upload, TypeOK, DriveOK
<1> DEFINE s == [avail |-> "local-and-cloud", dirty |-> FALSE, known |-> page.repository]
<1>3. PICK c : /\ page' = [page EXCEPT !.sync = s, !.catalog = c]
               /\ disk' = [profile |-> page.profile, sync |-> s, catalog |-> c]
  BY DEF Upload, Transferred
<1>4. s.known = page.repository
  OBVIOUS
<1> HIDE DEF s
<1>5. page'.sync = s /\ disk'.sync = s
  BY <1>3, Fields DEF Page
<1> QED BY <1>1, <1>2, <1>4, <1>5 DEF NothingToUpload, Clean

\* It is downloaded: its notes are those of the folder, or its state has some to upload.
LEMMA DownloadCleans ==
    ASSUME TypeOK, Reading, Download
    PROVE  NothingToUpload'
<1> DEFINE changed == page.sync # None /\ page.sync.dirty /\ local.present
           s == [avail |-> "local-and-cloud", dirty |-> changed, known |-> page.repository]
<1>1. page.repository \in Root /\ drive' = drive
  BY WorkingFolder DEF Download
<1>2. ~changed => local'.notes = drive[page.repository].notes
  BY DEF Download
<1>3. PICK c : /\ page' = [page EXCEPT !.sync = s, !.catalog = c]
               /\ disk' = [profile |-> page.profile, sync |-> s, catalog |-> c]
  BY DEF Download, Transferred
<1>4. s.known = page.repository /\ (s.dirty <=> changed)
  OBVIOUS
<1> HIDE DEF s, changed
<1>5. page'.sync = s /\ disk'.sync = s
  BY <1>3, Fields DEF Page
<1> QED BY <1>1, <1>2, <1>4, <1>5 DEF NothingToUpload, Clean

\* A scan finds a paper that was clean in the folder the profile names, which is the one its
\* state named.
LEMMA ScanCleans ==
    ASSUME TypeOK, Reading, Signing, FoldersApart, FoldersApart', NothingToUpload, Scan
    PROVE  NothingToUpload'
<1>1. PICK s, t, c, d :
        /\ s = Reconciled(page.sync)
        /\ c = Rescanned \/ c = Audited(s)
        /\ t = s \/ t = Discovered(s, c)
        /\ d \in {c, disk.catalog}
        /\ page'.sync = t /\ page'.catalog = c /\ disk'.sync = t /\ disk'.catalog = d
        /\ page'.profile = page.profile /\ disk'.profile = disk.profile
        /\ page'.step \in {"idle", "commit"} /\ excused' = excused
        /\ UNCHANGED <<local, drive>>
  BY ScanLeaves
<1> SUFFICES ASSUME excused = {}, local.present, t # None, ~t.dirty
             PROVE  t.known \in Root /\ local.notes \subseteq drive[t.known].notes
  BY <1>1 DEF NothingToUpload, Clean
<1>2. page.sync # None => page.sync \in PaperState
  BY Fields DEF Page, Optional
<1>3. page.sync # None /\ s # None /\ ~s.dirty /\ ~page.sync.dirty
  <2>1. s # None
    <3>1. CASE page.sync = None
      <4>1. s = [avail |-> "local-only", dirty |-> TRUE, known |-> None]
        BY <1>1, <3>1 DEF Reconciled
      <4>2. [avail |-> "local-only", dirty |-> TRUE, known |-> None] \in PaperState
        BY DEF PaperState, Optional
      <4> QED BY <4>1, <4>2, NoneAssumption
    <3>2. CASE page.sync # None
      <4>1. s \in PaperState
        BY <1>1, <1>2, <3>2 DEF Reconciled, PaperState, Optional
      <4> QED BY <4>1, NoneAssumption
    <3> QED BY <3>1, <3>2
  <2>2. ~s.dirty
    <3>1. CASE t = Discovered(s, c) /\ c # None
      <4>1. t.dirty = (s # None /\ s.dirty)
        BY <3>1 DEF Discovered
      <4> QED BY <2>1, <4>1
    <3>2. CASE t = s \/ c = None
      BY <1>1, <3>2 DEF Discovered
    <3> QED BY <1>1, <3>1, <3>2
  <2>3. page.sync # None
    BY <1>1, <2>2 DEF Reconciled
  <2> QED BY <1>1, <1>2, <2>1, <2>2, <2>3 DEF Reconciled, PaperState
<1>4. /\ page.sync.known \in Root /\ local.notes \subseteq drive[page.sync.known].notes
      /\ s.known = page.sync.known
  BY <1>1, <1>2, <1>3 DEF NothingToUpload, Clean, Reconciled, PaperState
<1>5. page.sync.known = page.repository
  <2>1. page.sync.known \in Spoken
    BY <1>3, <1>4 DEF Spoken, Known
  <2> QED BY <2>1, WorkingFolder DEF Scan, FoldersApart, Belongs
<1>6. CASE t = s
  BY <1>4, <1>6
<1>7. CASE t = Discovered(s, c)
  <2>1. CASE c = None
    BY <1>4, <1>7, <2>1 DEF Discovered
  <2>2. CASE c # None
    <3>1. t.known = c.root
      BY <1>7, <2>2 DEF Discovered
    <3>2. c.root \in Spoken \cup {page.repository}
      BY <1>1, <2>2, ScanSpeaks DEF Scan
    <3>3. c.root = page.repository
      BY <3>2, WorkingFolder DEF Scan, FoldersApart, Belongs
    <3> QED BY <1>4, <1>5, <3>1, <3>3
  <2> QED BY <2>1, <2>2
<1> QED BY <1>1, <1>6, <1>7

\* Whatever is done with the paper
LEMMA LibraryCleans ==
    ASSUME TypeOK, Reading, Signing, FoldersApart, FoldersApart', NothingToUpload, Library
    PROVE  NothingToUpload'
<1>1. CASE Edit
  <2>1. disk'.sync = Marked(page.sync) /\ page'.sync = Marked(page.sync)
    BY <1>1, Fields DEF Edit, Page, Kept
  <2>2. Marked(page.sync).dirty
    <3>1. page.sync # None => page.sync \in PaperState
      BY Fields DEF Page, Optional
    <3> QED BY <3>1 DEF Marked, PaperState
  <2> QED BY <2>1, <2>2, DirtyIsNotClean
<1>2. CASE RemoveLocal
  BY <1>2 DEF RemoveLocal, NothingToUpload, Clean
<1>3. CASE CommitCursor \/ CommitFails
  <2>1. disk'.sync = disk.sync /\ page'.sync = page.sync /\ UNCHANGED <<local, drive, excused>>
    BY <1>3, Fields DEF CommitCursor, CommitFails, Committed, Saved, Page, Kept, cloud
  <2> QED BY <2>1, CleanKept
<1> QED BY <1>1, <1>2, <1>3, UploadCleans, DownloadCleans, ScanCleans DEF Library

--------------------------------------------------------------------------------
(* The theorems *)

\* The invariant holds at first.
LEMMA InitFInv == Init => FInv
BY DEF Init, Stored, Closed, NoProfile, FInv, Signing, Signatures, Signs, Answered, FoldersApart,
       Belongs, Prepared, Spoken, Known, At, Emptied, NothingToUpload, Clean

\* Every step keeps it.
LEMMA NextFInv ==
    ASSUME CInv, FInv, [Next]_vars
    PROVE  FInv'
<1>1. TypeOK /\ Reading /\ Signing /\ FoldersApart /\ NothingToUpload
  BY DEF CInv, FInv
<1>2. CASE UNCHANGED vars
  BY <1>2
  DEF vars, FInv, Signing, Signatures, Signs, Answered, FoldersApart, Belongs, Prepared, Spoken,
      Known, At, Emptied, Severing, NothingToUpload, Clean
<1>3. CASE Next
  <2>1. Signing' /\ FoldersApart'
    BY <1>1, <1>3, SigningStep, ApartStep
  <2>2. NothingToUpload'
    BY <1>1, <1>3, <2>1, OthersClean, SeveringCleans, FolderCleans, LibraryCleans DEF Next
  <2> QED BY <2>1, <2>2 DEF FInv
<1> QED BY <1>2, <1>3

\* What the invariant says of clean papers
LEMMA FInvClean == TypeOK /\ FInv => CleanIsInRoot
<1> SUFFICES ASSUME TypeOK, FInv, excused = {}, NEW c \in {disk, page},
                    c.profile.root # None, local.present, c.sync # None, ~c.sync.dirty
             PROVE  local.notes \subseteq drive[c.profile.root].notes
  BY DEF CleanIsInRoot
<1>1. c.sync.known \in Root /\ local.notes \subseteq drive[c.sync.known].notes
  BY DEF FInv, NothingToUpload, Clean
<1>2. c.sync.known \in Spoken
  BY <1>1 DEF Spoken, Known
<1> QED BY <1>1, <1>2 DEF FInv, FoldersApart, Belongs

\* What it says of the catalog
LEMMA FInvCatalog == TypeOK /\ FInv => CatalogIsOfRoot
<1> SUFFICES ASSUME TypeOK, FInv, excused = {}, NEW c \in {disk, page},
                    c.profile.root # None, c.catalog # None
             PROVE  c.catalog.root = c.profile.root
  BY DEF CatalogIsOfRoot
<1> QED BY KnownIsSpoken DEF FInv, FoldersApart, Belongs

\* The invariant holds of every behaviour.
LEMMA AlwaysFInv == Spec => [](CInv /\ FInv)
<1>1. Init => CInv /\ FInv /\ Inactive
  BY InitCInv, InitFInv
<1>2. CInv /\ FInv /\ Inactive /\ [Next]_vars => (CInv /\ FInv /\ Inactive)'
  BY NextCInv, NextFInv
<1> QED BY <1>1, <1>2, PTL DEF Spec

\* A paper that is here and counts as uploaded is in the folder of the profile, whatever
\* accounts and folders there were before: bindAuthorizedAccount, ensureRepository and every
\* scan keep it so, where excused is empty.
THEOREM CleanStaysInRoot == Spec => []CleanIsInRoot
<1>1. CInv /\ FInv => CleanIsInRoot
  BY FInvClean DEF CInv
<1> QED BY <1>1, AlwaysFInv, PTL

\* The catalog lists nothing of another folder than the profile's: bindAuthorizedAccount
\* empties it, in memory and in IndexedDB, before the account of the profile changes.
THEOREM CatalogStaysOfRoot == Spec => []CatalogIsOfRoot
<1>1. CInv /\ FInv => CatalogIsOfRoot
  BY FInvCatalog DEF CInv
<1> QED BY <1>1, AlwaysFInv, PTL

================================================================================
