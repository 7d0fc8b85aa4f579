------------------------- MODULE TenantServicesProofs -------------------------
(***************************************************************************)
(* Proofs about the tenant services, for any operators, escalations,       *)
(* workspaces, sessions, pages, callers, rules, profiles and requests: the *)
(* inductive invariant of each service, and what they promise together.    *)
(***************************************************************************)
EXTENDS MCTenantServices, PromptProfilesProofs

-----------------------------------------------------------------------------
(* The operators' console: who acts on an escalation.                        *)

Act == [kind : {"none", "take", "resolve"}, esc : Escalations \cup {Nobody}, client : Clients \cup {Nobody},
        at : {"none", "sent", "checked", "applied"}, revision : Nat]

\* A request that passed the check is by somebody who may write for its client, or whose access was
\* revoked since.
CheckedMayWrite ==
    \A o \in AnchorOperators : acts[o].at = "checked" =>
        /\ RoleOf[o] # "read-only"
        /\ RoleOf[o] = "admin" \/ <<o, acts[o].client>> \in access \/ o \in revokedAmid

ActsInv == /\ acts \in [AnchorOperators -> Act]
           /\ selected \in [AnchorOperators -> Clients \cup {Nobody}]
           /\ CheckedMayWrite

-----------------------------------------------------------------------------
(* The pages of workspaces: who may link one.                                *)

Selection == [pc : {"checked", "linked", "paged", "completed"}, page : MetaPages]
Selects(s) == selecting[s] # NotSelecting

ConnectionTypeOK ==
    /\ pageChannel \in [MetaPages -> PageChannel \cup {NoChannel}]
    /\ oauth \in [OauthSessions -> OauthSession]
    /\ selecting \in [OauthSessions -> Selection \cup {NotSelecting}]
    /\ disturbed \in BOOLEAN

\* A session selects only after it was started by a workspace.
SelectsWhenStarted ==
    \A s \in OauthSessions :
        /\ oauth[s].status = "unused" => oauth[s].pages = {} /\ ~Selects(s)
        /\ oauth[s].status # "unused" => oauth[s].client \in Workspaces

\* Undisturbed, one session at most selects.
OneSelects == ~disturbed => \A s, t \in OauthSessions : Selects(s) /\ Selects(t) => s = t

\* Undisturbed, a page that passed the check is nobody else's until it is linked.
CheckedIsFree ==
    ~disturbed => \A s \in OauthSessions :
        selecting[s].pc = "checked" => pageChannel[selecting[s].page].owner \in {oauth[s].client, Nothing}

ConnectionInv == ConnectionTypeOK /\ SelectsWhenStarted /\ OneSelects /\ CheckedIsFree

-----------------------------------------------------------------------------
(* The console keeps its invariant.                                          *)

LEMMA AnchorInitActs == AnchorInit => ActsInv
PROOF
  BY DEF AnchorInit, ActsInv, Act, NoAct, CheckedMayWrite

\* Steps that leave the requests and the rights of the operators alone.
LEMMA ActsStay ==
    ASSUME ActsInv, UNCHANGED <<access, acts, revokedAmid>>, selected' \in [AnchorOperators -> Clients \cup {Nobody}]
    PROVE  ActsInv'
PROOF
  BY DEF ActsInv, CheckedMayWrite

\* A request moves on: it is pressed, ends, or is applied, and keeps no check it did not have.
LEMMA ActMoves ==
    ASSUME ActsInv, NEW o \in AnchorOperators, NEW a \in Act, a.at # "checked",
           acts' = [acts EXCEPT ![o] = a], UNCHANGED <<selected, access, revokedAmid>>
    PROVE  ActsInv'
PROOF
  BY DEF ActsInv, CheckedMayWrite

LEMMA RightsSteps ==
    ASSUME ActsInv, NEW o \in AnchorOperators, NEW c \in Clients, Grant(o, c) \/ Revoke(o, c)
    PROVE  ActsInv'
PROOF
<1>1. UNCHANGED <<acts, selected>>
  BY DEF Grant, Revoke
<1>2. ASSUME NEW p \in AnchorOperators, acts[p].at = "checked"
      PROVE  RoleOf[p] = "admin" \/ <<p, acts[p].client>> \in access' \/ p \in revokedAmid'
  <2>1. RoleOf[p] = "admin" \/ <<p, acts[p].client>> \in access \/ p \in revokedAmid
    BY <1>2 DEF ActsInv, CheckedMayWrite
  <2>2. CASE Grant(o, c)
    BY <2>1, <2>2 DEF Grant
  <2>3. CASE Revoke(o, c)
    BY <2>3, <1>2, <2>1 DEF Revoke
  <2> QED
    BY <2>2, <2>3
<1> QED
  BY <1>1, <1>2 DEF ActsInv, CheckedMayWrite

LEMMA CheckStep ==
    ASSUME ActsInv, NEW o \in AnchorOperators, ActIsChecked(o)
    PROVE  ActsInv'
PROOF
<1>1. /\ acts' = [acts EXCEPT ![o] = [@ EXCEPT !.at = "checked"]]
      /\ revokedAmid' = revokedAmid \ {o}
      /\ UNCHANGED <<selected, access>>
      /\ HasAccess(o, acts[o].client) /\ RoleOf[o] # "read-only"
  BY DEF ActIsChecked, MayWrite
<1>2. acts' \in [AnchorOperators -> Act]
  BY <1>1 DEF ActsInv, Act
<1>3. acts'[o].client = acts[o].client /\ \A p \in AnchorOperators : p # o => acts'[p] = acts[p]
  BY <1>1 DEF ActsInv, Act
<1>4. ASSUME NEW p \in AnchorOperators, acts'[p].at = "checked"
      PROVE  /\ RoleOf[p] # "read-only"
             /\ RoleOf[p] = "admin" \/ <<p, acts'[p].client>> \in access' \/ p \in revokedAmid'
  BY <1>1, <1>3, <1>4 DEF HasAccess, ActsInv, CheckedMayWrite
<1> QED
  BY <1>1, <1>2, <1>4 DEF ActsInv, CheckedMayWrite

LEMMA AnchorStepActs == ActsInv /\ [AnchorNext]_anchorVars => ActsInv'
PROOF
<1> SUFFICES ASSUME ActsInv, [AnchorNext]_anchorVars PROVE ActsInv'
  OBVIOUS
<1>1. NoAct \in Act /\ NoAct.at = "none"
  BY DEF NoAct, Act
<1>2. ASSUME NEW e \in Escalations, Raise(e) \/ ColleagueActs(e, "take") \/ ColleagueActs(e, "resolve")
      PROVE  ActsInv'
  BY <1>2, ActsStay DEF Raise, ColleagueActs, ActsInv
<1>3. ASSUME NEW o \in AnchorOperators, NEW c \in Clients, Grant(o, c) \/ Revoke(o, c) \/ SelectAnchorClient(o, c)
      PROVE  ActsInv'
  BY ActsStay, <1>3, RightsSteps DEF SelectAnchorClient, ActsInv, Reload, StartLoad
<1>4. ASSUME NEW o \in AnchorOperators,
             PressRefresh(o) \/ ActIsChecked(o) \/ ActIsApplied(o) \/ ActAnswered(o) \/ ActFails(o)
      PROVE  ActsInv'
  <2>1. CASE PressRefresh(o)
    BY <2>1, ActsStay DEF PressRefresh, ActsInv
  <2>2. CASE ActIsChecked(o)
    BY <2>2, CheckStep
  <2>3. CASE ActIsApplied(o)
    BY <2>3, ActMoves DEF ActIsApplied, ActsInv, Act
  <2>4. CASE ActAnswered(o) \/ ActFails(o)
    BY <2>4, <1>1, ActMoves DEF ActAnswered, ActFails
  <2> QED
    BY <1>4, <2>1, <2>2, <2>3, <2>4
<1>5. ASSUME NEW l \in loads, LoadIsServed(l) \/ LoadArrives(l) \/ LoadFails(l)
      PROVE  ActsInv'
  BY <1>5, ActsStay DEF LoadIsServed, LoadArrives, LoadFails, ActsInv
<1>6. ASSUME NEW o \in AnchorOperators, NEW r \in QueueRow, NEW kind \in {"take", "resolve"}, PressAct(o, r, kind)
      PROVE  ActsInv'
  <2> DEFINE a == [kind |-> kind, esc |-> r.esc, client |-> selected[o], at |-> "sent", revision |-> r.revision]
  <2>1. acts' = [acts EXCEPT ![o] = a] /\ UNCHANGED <<selected, access, revokedAmid>>
    BY <1>6 DEF PressAct
  <2>2. r.esc \in Escalations /\ r.revision \in Nat
    BY AnchorAssumption DEF QueueRow
  <2>3. a \in Act /\ a.at # "checked"
    BY <2>2 DEF Act, ActsInv
  <2> HIDE DEF a
  <2> QED
    BY <2>1, <2>3, ActMoves
<1>7. CASE UNCHANGED anchorVars
  BY <1>7, ActsStay DEF anchorVars, ActsInv
<1> QED
  BY <1>2, <1>3, <1>4, <1>5, <1>6, <1>7 DEF AnchorNext

\* Only the request that is applied becomes "applied".
LEMMA AppliedIsApplied ==
    ASSUME ActsInv, [AnchorNext]_anchorVars, NEW o \in AnchorOperators,
           acts[o].at = "checked", acts'[o].at = "applied"
    PROVE  ActIsApplied(o)
PROOF
<1>1. acts' # acts
  OBVIOUS
<1>2. PICK p \in AnchorOperators :
          \/ ActIsChecked(p) \/ ActIsApplied(p) \/ ActAnswered(p) \/ ActFails(p)
          \/ \E r \in QueueRow, kind \in {"take", "resolve"} : PressAct(p, r, kind)
  BY <1>1 DEF AnchorNext, anchorVars, Raise, ColleagueActs, Grant, Revoke, SelectAnchorClient, PressRefresh,
              LoadIsServed, LoadArrives, LoadFails
<1>3. \E a : acts' = [acts EXCEPT ![p] = a]
  BY <1>2 DEF ActIsChecked, ActIsApplied, ActAnswered, ActFails, PressAct
<1>4. p = o
  BY <1>3 DEF ActsInv
<1>5. acts \in [AnchorOperators -> Act] /\ NoAct.at = "none"
  BY DEF ActsInv, NoAct
<1>6. ~ActIsChecked(o) /\ ~ActAnswered(o)
  BY <1>5 DEF ActIsChecked, ActAnswered
<1>7. ~ActFails(o)
  BY <1>5 DEF ActFails
<1>8. ASSUME NEW r \in QueueRow, NEW kind \in {"take", "resolve"}, PressAct(o, r, kind) PROVE FALSE
  BY <1>5, <1>8 DEF PressAct
<1> QED
  BY <1>2, <1>4, <1>6, <1>7, <1>8

LEMMA AppliedToItsClient ==
    ASSUME ActsInv, [AnchorNext]_anchorVars, NEW e \in Escalations, NEW o \in AnchorOperators,
           acts[o].esc = e, acts[o].at = "checked", acts'[o].at = "applied", acts[o].client # ClientOf[e]
    PROVE  escalations'[e] = escalations[e]
PROOF
  BY AppliedIsApplied DEF ActIsApplied, Found

LEMMA AppliedByRight ==
    ASSUME ActsInv, NEW o \in AnchorOperators, acts[o].at = "checked"
    PROVE  \/ RoleOf[o] = "admin"
           \/ RoleOf[o] = "operator" /\ (<<o, acts[o].client>> \in access \/ o \in revokedAmid)
PROOF
  BY AnchorAssumption DEF ActsInv, CheckedMayWrite

-----------------------------------------------------------------------------
(* The connection of pages keeps its invariant.                              *)

LEMMA PagesInitInv == PagesInit => ConnectionInv
PROOF
<1> SUFFICES ASSUME PagesInit PROVE ConnectionInv
  OBVIOUS
<1> USE DEF PagesInit
<1>1. ConnectionTypeOK
  BY DEF ConnectionTypeOK, OauthSession, OauthStatuses
<1>2. \A s \in OauthSessions : ~Selects(s) /\ selecting[s].pc = "idle"
  BY DEF Selects, NotSelecting
<1> QED
  BY <1>1, <1>2 DEF ConnectionInv, SelectsWhenStarted, OneSelects, CheckedIsFree

\* A session is started, called back, expires or completes: its client and its selection stay.
LEMMA SessionSteps ==
    ASSUME ConnectionInv, NEW s \in OauthSessions,
           \/ CallbackDenied(s) \/ SessionExpires(s)
           \/ \E c \in Workspaces : StartOauth(s, c)
           \/ \E pages \in SUBSET MetaPages : HandleCallback(s, pages)
    PROVE  ConnectionInv'
PROOF
<1> USE DEF ConnectionInv
<1>1. UNCHANGED <<pageChannel, selecting, disturbed>>
  BY DEF CallbackDenied, SessionExpires, StartOauth, HandleCallback, pageVars
<1>2. oauth \in [OauthSessions -> OauthSession]
  BY DEF ConnectionTypeOK
<1>3. PICK now \in OauthSession :
        /\ oauth' = [oauth EXCEPT ![s] = now]
        /\ now.status # "unused" /\ now.client \in Workspaces
        /\ oauth[s].status # "unused" => now.client = oauth[s].client
  <2>1. ASSUME NEW c \in Workspaces, StartOauth(s, c)
        PROVE  \E now \in OauthSession :
                 /\ oauth' = [oauth EXCEPT ![s] = now]
                 /\ now.status # "unused" /\ now.client \in Workspaces
                 /\ oauth[s].status # "unused" => now.client = oauth[s].client
    <3> DEFINE now == [client |-> c, status |-> "started", pages |-> {}, expired |-> FALSE]
    <3>1. now \in OauthSession
      BY DEF OauthSession, OauthStatuses
    <3>2. oauth' = [oauth EXCEPT ![s] = now] /\ oauth[s].status = "unused"
      BY <2>1 DEF StartOauth
    <3> QED
      BY <3>1, <3>2
  <2>2. ASSUME NEW pages \in SUBSET MetaPages, HandleCallback(s, pages)
        PROVE  \E now \in OauthSession :
                 /\ oauth' = [oauth EXCEPT ![s] = now]
                 /\ now.status # "unused" /\ now.client \in Workspaces
                 /\ oauth[s].status # "unused" => now.client = oauth[s].client
    <3> DEFINE now == [client |-> oauth[s].client, status |-> IF pages = {} THEN "no_pages" ELSE "pages_ready",
                       pages |-> pages, expired |-> FALSE]
    <3>1. now \in OauthSession
      BY <1>2 DEF OauthSession, OauthStatuses
    <3>2. oauth' = [oauth EXCEPT ![s] = now] /\ oauth[s].status # "unused"
      BY <1>2, <2>2 DEF HandleCallback
    <3> QED
      BY <3>1, <3>2 DEF SelectsWhenStarted
  <2>3. ASSUME CallbackDenied(s) \/ SessionExpires(s)
        PROVE  \E now \in OauthSession :
                 /\ oauth' = [oauth EXCEPT ![s] = now]
                 /\ now.status # "unused" /\ now.client \in Workspaces
                 /\ oauth[s].status # "unused" => now.client = oauth[s].client
    <3>1. PICK st \in {oauth[s].status, "failed"}, ex \in {oauth[s].expired, TRUE} :
             oauth' = [oauth EXCEPT ![s] = [client |-> oauth[s].client, status |-> st, pages |-> oauth[s].pages,
                                            expired |-> ex]]
      BY <1>2, <2>3 DEF CallbackDenied, SessionExpires, OauthSession
    <3>2. oauth[s].status # "unused"
      BY <2>3 DEF CallbackDenied, SessionExpires
    <3>3. [client |-> oauth[s].client, status |-> st, pages |-> oauth[s].pages, expired |-> ex] \in OauthSession
      BY <1>2, <3>1 DEF OauthSession, OauthStatuses
    <3> QED
      BY <3>1, <3>2, <3>3 DEF SelectsWhenStarted
  <2> QED
    BY <2>1, <2>2, <2>3
<1>4. oauth' \in [OauthSessions -> OauthSession] /\ oauth'[s] = now
      /\ \A t \in OauthSessions : t # s => oauth'[t] = oauth[t]
  BY <1>2, <1>3
<1>5. ConnectionTypeOK'
  BY <1>1, <1>4 DEF ConnectionTypeOK
<1>6. SelectsWhenStarted'
  BY <1>1, <1>3, <1>4 DEF SelectsWhenStarted, Selects
<1>7. OneSelects'
  BY <1>1 DEF OneSelects, Selects
<1>8. CheckedIsFree'
  BY <1>1, <1>3, <1>4 DEF CheckedIsFree, Selects, NotSelecting, SelectsWhenStarted
<1> QED
  BY <1>5, <1>6, <1>7, <1>8

\* A page is selected, undisturbed only when nothing else is under way.
LEMMA SelectStep ==
    ASSUME ConnectionInv, NEW s \in OauthSessions, NEW page \in MetaPages, SelectPage(s, page)
    PROVE  ConnectionInv'
PROOF
<1> USE DEF ConnectionInv
<1>1. /\ selecting' = [selecting EXCEPT ![s] = [pc |-> "checked", page |-> page]]
      /\ UNCHANGED <<pageChannel, oauth>>
      /\ page \in oauth[s].pages
      /\ \A d \in Workspaces \ {oauth[s].client} : pageChannel[page].owner # d
  BY DEF SelectPage, Selecting, pageVars
<1>2. disturbed' = (disturbed \/ UnderWay)
  BY DEF SelectPage
<1>3. disturbed' \in BOOLEAN /\ (~disturbed' => ~disturbed /\ ~UnderWay)
  BY <1>2
<1>4. ConnectionTypeOK'
  BY <1>1, <1>3 DEF ConnectionTypeOK, Selection
<1>5. /\ selecting'[s] = [pc |-> "checked", page |-> page]
      /\ \A t \in OauthSessions : t # s => selecting'[t] = selecting[t]
  BY <1>1 DEF ConnectionTypeOK
<1>6. SelectsWhenStarted'
  BY <1>1, <1>5 DEF SelectsWhenStarted, Selects
<1>7. ~disturbed' => \A t \in OauthSessions : t # s => selecting'[t] = NotSelecting
  BY <1>3, <1>5 DEF UnderWay
<1>8. OneSelects'
  BY <1>7 DEF OneSelects, Selects
<1>9. CheckedIsFree'
  BY <1>1, <1>5, <1>7 DEF ConnectionTypeOK, PageChannel, NoChannel, NotSelecting, CheckedIsFree
<1> QED
  BY <1>4, <1>6, <1>8, <1>9

\* The channel of the page is made: undisturbed, nobody else selects.
LEMMA LinkStep ==
    ASSUME ConnectionInv, NEW s \in OauthSessions, LinkPage(s)
    PROVE  ConnectionInv'
PROOF
<1> USE DEF ConnectionInv
<1> DEFINE page == selecting[s].page
<1>1. /\ selecting[s].pc = "checked"
      /\ selecting' = [selecting EXCEPT ![s] = [pc |-> "linked", page |-> page]]
      /\ pageChannel' = [pageChannel EXCEPT ![page] = [owner |-> oauth[s].client, by |-> s]]
      /\ UNCHANGED <<oauth, disturbed>>
  BY DEF LinkPage, Selecting
<1>2. Selects(s) /\ page \in MetaPages
  BY <1>1 DEF ConnectionTypeOK, Selection, Selects, NotSelecting
<1>3. oauth[s].client \in Workspaces
  BY <1>2 DEF SelectsWhenStarted
<1>4. ConnectionTypeOK'
  BY <1>1, <1>2, <1>3 DEF ConnectionTypeOK, Selection, PageChannel
<1>5. /\ selecting'[s] = [pc |-> "linked", page |-> page]
      /\ \A t \in OauthSessions : t # s => selecting'[t] = selecting[t]
  BY <1>1 DEF ConnectionTypeOK
<1>6. \A t \in OauthSessions : Selects(t)' => Selects(t)
  BY <1>2, <1>5 DEF Selects
<1>7. SelectsWhenStarted' /\ OneSelects'
  BY <1>1, <1>6 DEF SelectsWhenStarted, OneSelects
<1>8. CheckedIsFree'
  <2>1. ASSUME ~disturbed, NEW t \in OauthSessions, selecting'[t].pc = "checked" PROVE FALSE
    BY <1>5, <2>1, <1>2 DEF Selects, NotSelecting, OneSelects
  <2> QED
    BY <1>1, <2>1 DEF CheckedIsFree
<1> QED
  BY <1>4, <1>7, <1>8

\* The rest of a selection: it goes on, ends or fails without touching a channel or a client.
LEMMA SelectionSteps ==
    ASSUME ConnectionInv, NEW s \in OauthSessions,
           \/ SetWorkspacePage(s) \/ SelectionFails(s) \/ CompleteSession(s)
           \/ \E ok \in BOOLEAN : SubscribePage(s, ok)
    PROVE  ConnectionInv'
PROOF
<1> USE DEF ConnectionInv
<1>1. /\ Selects(s) /\ selecting[s] \in Selection
      /\ selecting \in [OauthSessions -> Selection \cup {NotSelecting}]
  BY DEF SetWorkspacePage, SelectionFails, CompleteSession, SubscribePage, Selects, NotSelecting, ConnectionTypeOK
<1>2. PICK now \in Selection \cup {NotSelecting} :
        /\ selecting' = [selecting EXCEPT ![s] = now]
        /\ now.pc # "checked"
  BY <1>1 DEF SetWorkspacePage, SelectionFails, CompleteSession, SubscribePage, Selecting, Selection, NotSelecting
<1>3. pageChannel' = pageChannel
  BY DEF SetWorkspacePage, SelectionFails, CompleteSession, SubscribePage, pageVars
<1>4. disturbed' \in BOOLEAN /\ (~disturbed' => ~disturbed)
  BY DEF SetWorkspacePage, SelectionFails, CompleteSession, SubscribePage, ConnectionTypeOK
<1>5. /\ oauth' \in [OauthSessions -> OauthSession]
      /\ \A t \in OauthSessions : /\ oauth'[t].client = oauth[t].client
                                  /\ oauth'[t].status = "unused" <=> oauth[t].status = "unused"
                                  /\ oauth'[t].pages = oauth[t].pages
  <2>1. CASE oauth' = oauth
    BY <2>1 DEF ConnectionTypeOK
  <2>2. CASE CompleteSession(s)
    BY <2>2, <1>1 DEF CompleteSession, SelectsWhenStarted, ConnectionTypeOK, OauthSession, OauthStatuses
  <2> QED
    BY <2>1, <2>2 DEF SetWorkspacePage, SelectionFails, SubscribePage
<1>6. /\ selecting' \in [OauthSessions -> Selection \cup {NotSelecting}]
      /\ selecting'[s] = now
      /\ \A t \in OauthSessions : t # s => selecting'[t] = selecting[t]
  BY <1>1, <1>2
<1>7. \A t \in OauthSessions : Selects(t)' => Selects(t)
  BY <1>1, <1>6 DEF Selects
<1>8. ConnectionTypeOK' /\ SelectsWhenStarted'
  BY <1>3, <1>4, <1>5, <1>6, <1>7 DEF ConnectionTypeOK, SelectsWhenStarted
<1>9. OneSelects'
  BY <1>4, <1>7 DEF OneSelects
<1>10. CheckedIsFree'
  BY <1>2, <1>3, <1>4, <1>5, <1>6 DEF CheckedIsFree
<1> QED
  BY <1>8, <1>9, <1>10

\* A workspace disconnects, or a page is set by hand: channels only become free.
LEMMA WorkspaceSteps ==
    ASSUME ConnectionInv, NEW c \in Workspaces,
           DisconnectPage(c) \/ ClearPageId(c) \/ \E page \in MetaPages : SetPageByHand(c, page)
    PROVE  ConnectionInv'
PROOF
<1> USE DEF ConnectionInv
<1>1. UNCHANGED <<oauth, selecting>>
  BY DEF DisconnectPage, ClearPageId, SetPageByHand
<1>2. disturbed' \in BOOLEAN /\ (~disturbed' => ~disturbed)
  <2>1. CASE DisconnectPage(c)
    BY <2>1 DEF DisconnectPage
  <2> QED
    BY <2>1 DEF ClearPageId, SetPageByHand, ConnectionTypeOK
<1>3. /\ pageChannel' \in [MetaPages -> PageChannel \cup {NoChannel}]
      /\ \A g \in MetaPages : pageChannel'[g] \in {pageChannel[g], NoChannel}
  BY DEF ConnectionTypeOK, DisconnectPage, ClearPageId, SetPageByHand
<1>4. ConnectionTypeOK' /\ SelectsWhenStarted' /\ OneSelects'
  BY <1>1, <1>2, <1>3 DEF ConnectionTypeOK, SelectsWhenStarted, OneSelects, Selects
<1>5. CheckedIsFree'
  BY <1>1, <1>2, <1>3 DEF CheckedIsFree, ConnectionTypeOK, Selection, NotSelecting, NoChannel
<1> QED
  BY <1>4, <1>5

LEMMA PagesStepInv == ConnectionInv /\ [PagesNext]_oauthVars => ConnectionInv'
PROOF
<1> SUFFICES ASSUME ConnectionInv, [PagesNext]_oauthVars PROVE ConnectionInv'
  OBVIOUS
<1>1. CASE UNCHANGED oauthVars
  BY <1>1 DEF oauthVars, ConnectionInv, ConnectionTypeOK, SelectsWhenStarted, OneSelects, CheckedIsFree, Selects
<1>2. CASE PagesNext
  BY <1>2, SessionSteps, SelectStep, LinkStep, SelectionSteps, WorkspaceSteps DEF PagesNext
<1> QED
  BY <1>1, <1>2

\* Undisturbed, the channel of a page passes to nobody but "nobody".
LEMMA ChannelStays ==
    ASSUME ConnectionInv, [PagesNext]_oauthVars, ~disturbed, NEW g \in MetaPages, pageChannel[g] # NoChannel
    PROVE  pageChannel'[g].owner \in {pageChannel[g].owner, Nothing}
PROOF
<1>1. CASE pageChannel' = pageChannel
  BY <1>1
<1>2. ASSUME NEW s \in OauthSessions, LinkPage(s)
      PROVE  pageChannel'[g].owner \in {pageChannel[g].owner, Nothing}
  BY <1>2, OauthAssumption DEF LinkPage, ConnectionInv, ConnectionTypeOK, PageChannel, CheckedIsFree
<1>3. ASSUME NEW c \in Workspaces, DisconnectPage(c)
      PROVE  pageChannel'[g].owner \in {pageChannel[g].owner, Nothing}
  BY <1>3 DEF DisconnectPage, NoChannel
<1> QED
  BY <1>1, <1>2, <1>3
     DEF PagesNext, oauthVars, pageVars, CallbackDenied, SessionExpires, SetWorkspacePage, SelectionFails,
         CompleteSession, SubscribePage, StartOauth, HandleCallback, SelectPage, ClearPageId, SetPageByHand

-----------------------------------------------------------------------------
(* Finite sets that change by one element.                                   *)

\* A set that grows by one element at most counts one more at most.
LEMMA CountsOneMore ==
    ASSUME NEW S, IsFiniteSet(S), NEW x, NEW T, T \subseteq S \cup {x}
    PROVE  IsFiniteSet(T) /\ Cardinality(T) \in Nat /\ Cardinality(T) <= Cardinality(S) + 1
PROOF
<1>1. IsFiniteSet(S \cup {x}) /\ Cardinality(S) \in Nat /\ Cardinality(S \cup {x}) \in Nat
  BY FS_AddElement, FS_CardinalityType
<1>2. Cardinality(S \cup {x}) <= Cardinality(S) + 1
  BY <1>1, FS_AddElement
<1>3. IsFiniteSet(T) /\ Cardinality(T) \in Nat /\ Cardinality(T) <= Cardinality(S \cup {x})
  BY <1>1, FS_Subset, FS_CardinalityType
<1> QED
  BY <1>1, <1>2, <1>3

LEMMA CountsOneLess ==
    ASSUME NEW S, IsFiniteSet(S), NEW x \in S, NEW T, T \subseteq S \ {x}
    PROVE  IsFiniteSet(T) /\ Cardinality(T) \in Nat /\ Cardinality(T) + 1 <= Cardinality(S)
PROOF
  BY FS_RemoveElement, FS_CardinalityType, FS_Subset

-----------------------------------------------------------------------------
(* The connection of pages: what a workspace is told, and what can answer.   *)

\* What is stored is of its type; a page is of one workspace at most, and a session that was never started is nobody's.
StoredPages ==
    /\ workspacePage \in [Workspaces -> MetaPages \cup {Nothing}]
    /\ \A c, d \in Workspaces : workspacePage[c] = workspacePage[d] => c = d \/ workspacePage[c] = Nothing
    /\ leaving \subseteq Workspaces /\ subscribed \subseteq MetaPages
    /\ toldConnected \in [Workspaces -> MetaPages \cup {Nothing}]
    /\ oauthOps \in 0..MaxOauthOps
    /\ \A s \in OauthSessions : /\ oauth[s].status = "pages_ready" => oauth[s].pages # {}
                                /\ oauth[s].status = "unused" => oauth[s].client = Nothing

\* How far a selection came: nobody else has its page, it is linked, it is the page of its workspace.
SelectionStands(s) ==
    LET page == selecting[s].page
        c == oauth[s].client IN
    Selects(s) =>
      /\ leaving = {} /\ ~Taken(c, page)
      /\ selecting[s].pc # "checked" => pageChannel[page].owner = c /\ pageChannel[page].by = s
      /\ selecting[s].pc \in {"paged", "completed"} => workspacePage[c] = page

\* A page that routes has a channel of its workspace, with a token of a session of the workspace.
RoutesToItsOwn(c) ==
    c \notin leaving /\ workspacePage[c] # Nothing =>
      /\ pageChannel[workspacePage[c]].owner = c
      /\ oauth[pageChannel[workspacePage[c]].by].client = c

\* A workspace that leaves was told nothing; one that does not select has the page it was told.
ToldStands(c) ==
    /\ c \in leaving => toldConnected[c] = Nothing
    /\ toldConnected[c] # Nothing /\ (\A s \in OauthSessions : oauth[s].client = c => ~Selects(s)) =>
         workspacePage[c] = toldConnected[c] /\ toldConnected[c] \in subscribed

Undisturbed == ~disturbed => /\ \A s \in OauthSessions : SelectionStands(s)
                             /\ \A c \in Workspaces : RoutesToItsOwn(c) /\ ToldStands(c)

PagesInv == ConnectionInv /\ StoredPages /\ Undisturbed

-----------------------------------------------------------------------------

LEMMA PagesStart == PagesInit => PagesInv
PROOF
  BY PagesInitInv, OauthAssumption DEF PagesInit, StoredPages, Selects, Undisturbed, SelectionStands, RoutesToItsOwn,
     ToldStands, PagesInv

\* Only a session moves on: whose client it is stays, once it is somebody's.
LEMMA SessionsMove ==
    ASSUME PagesInv, ConnectionInv', StoredPages',
           UNCHANGED <<workspacePage, pageChannel, selecting, leaving, subscribed, toldConnected, disturbed>>,
           \A t \in OauthSessions : oauth[t].client # Nothing => oauth'[t].client = oauth[t].client
    PROVE  PagesInv'
PROOF
<1> USE DEF PagesInv
<1>1. \A t \in OauthSessions : Selects(t)' <=> Selects(t)
  BY DEF Selects
<1>2. \A t \in OauthSessions : Selects(t) => oauth[t].client # Nothing
  BY OauthAssumption DEF ConnectionInv, SelectsWhenStarted
<1>3. ASSUME ~disturbed PROVE \A t \in OauthSessions : SelectionStands(t)'
  BY <1>1, <1>2, <1>3 DEF SelectionStands, Undisturbed, Taken
<1>4. ASSUME ~disturbed, NEW c \in Workspaces PROVE RoutesToItsOwn(c)'
  <2>1. RoutesToItsOwn(c) /\ c # Nothing
    BY <1>4, OauthAssumption DEF Undisturbed
  <2>2. ASSUME c \notin leaving, workspacePage[c] # Nothing
        PROVE  pageChannel[workspacePage[c]].by \in OauthSessions
    BY <2>1, <2>2 DEF RoutesToItsOwn, StoredPages, NoChannel, ConnectionInv, ConnectionTypeOK, PageChannel
  <2> QED
    BY <2>1, <2>2 DEF RoutesToItsOwn
<1>5. ASSUME ~disturbed, NEW c \in Workspaces PROVE ToldStands(c)'
  BY <1>5, OauthAssumption, <1>1 DEF Undisturbed, ToldStands
<1>6. Undisturbed'
  BY <1>3, <1>4, <1>5 DEF Undisturbed
<1> QED
  BY <1>6

LEMMA SessionKeeps ==
    ASSUME PagesInv, ConnectionInv', NEW s \in OauthSessions,
           \/ CallbackDenied(s) \/ SessionExpires(s)
           \/ \E c \in Workspaces : StartOauth(s, c)
           \/ \E pages \in SUBSET MetaPages : HandleCallback(s, pages)
    PROVE  PagesInv'
PROOF
<1> USE DEF PagesInv
<1>1. UNCHANGED <<workspacePage, pageChannel, selecting, leaving, subscribed, toldConnected, disturbed>>
  BY DEF CallbackDenied, SessionExpires, StartOauth, HandleCallback, pageVars
<1>2. oauth \in [OauthSessions -> OauthSession]
  BY DEF ConnectionInv, ConnectionTypeOK
<1>3. oauthOps' \in 0..MaxOauthOps
  BY OauthAssumption DEF CallbackDenied, SessionExpires, StartOauth, HandleCallback, OauthOp, StoredPages
<1>4. PICK now : /\ oauth' = [oauth EXCEPT ![s] = now]
                 /\ now.status # "unused"
                 /\ now.status = "pages_ready" => now.pages # {}
                 /\ oauth[s].client # Nothing => now.client = oauth[s].client
  <2>1. ASSUME NEW c \in Workspaces, StartOauth(s, c)
        PROVE  \E now : /\ oauth' = [oauth EXCEPT ![s] = now]
                        /\ now.status # "unused"
                        /\ now.status = "pages_ready" => now.pages # {}
                        /\ oauth[s].client # Nothing => now.client = oauth[s].client
    <3> DEFINE now == [client |-> c, status |-> "started", pages |-> {}, expired |-> FALSE]
    <3>1. oauth' = [oauth EXCEPT ![s] = now] /\ oauth[s].status = "unused"
      BY <2>1 DEF StartOauth
    <3>2. now.status = "started"
      OBVIOUS
    <3> QED
      BY <3>1, <3>2 DEF StoredPages
  <2>2. ASSUME NEW pages \in SUBSET MetaPages, HandleCallback(s, pages)
        PROVE  \E now : /\ oauth' = [oauth EXCEPT ![s] = now]
                        /\ now.status # "unused"
                        /\ now.status = "pages_ready" => now.pages # {}
                        /\ oauth[s].client # Nothing => now.client = oauth[s].client
    <3> DEFINE now == [client |-> oauth[s].client, status |-> IF pages = {} THEN "no_pages" ELSE "pages_ready",
                       pages |-> pages, expired |-> FALSE]
    <3>1. oauth' = [oauth EXCEPT ![s] = now]
      BY <1>2, <2>2 DEF HandleCallback
    <3>2. now.status \in {"no_pages", "pages_ready"} /\ (now.status = "pages_ready" => now.pages # {})
          /\ now.client = oauth[s].client
      OBVIOUS
    <3> QED
      BY <3>1, <3>2
  <2>3. ASSUME CallbackDenied(s) \/ SessionExpires(s)
        PROVE  \E now : /\ oauth' = [oauth EXCEPT ![s] = now]
                        /\ now.status # "unused"
                        /\ now.status = "pages_ready" => now.pages # {}
                        /\ oauth[s].client # Nothing => now.client = oauth[s].client
    <3>1. PICK st \in {oauth[s].status, "failed"}, ex \in {oauth[s].expired, TRUE} :
             oauth' = [oauth EXCEPT ![s] = [client |-> oauth[s].client, status |-> st, pages |-> oauth[s].pages,
                                            expired |-> ex]]
      BY <1>2, <2>3 DEF CallbackDenied, SessionExpires, OauthSession
    <3> DEFINE now == [client |-> oauth[s].client, status |-> st, pages |-> oauth[s].pages, expired |-> ex]
    <3>2. oauth[s].status # "unused"
      BY <2>3 DEF CallbackDenied, SessionExpires
    <3>3. now.status = st /\ now.pages = oauth[s].pages /\ now.client = oauth[s].client
      OBVIOUS
    <3> QED
      BY <3>1, <3>2, <3>3 DEF StoredPages
  <2> QED
    BY <2>1, <2>2, <2>3
<1>5. oauth'[s] = now /\ \A t \in OauthSessions : t # s => oauth'[t] = oauth[t]
  BY <1>2, <1>4
<1>6. \A t \in OauthSessions : oauth[t].client # Nothing => oauth'[t].client = oauth[t].client
  BY <1>4, <1>5
<1>7. StoredPages'
  BY <1>1, <1>3, <1>4, <1>5 DEF StoredPages
<1> QED
  BY <1>1, <1>6, <1>7, SessionsMove

\* A page is selected: undisturbed nothing else is under way, and nobody else has it.
LEMMA SelectKeeps ==
    ASSUME PagesInv, ConnectionInv', NEW s \in OauthSessions, NEW page \in MetaPages, SelectPage(s, page)
    PROVE  PagesInv'
PROOF
<1> USE DEF PagesInv
<1>1. /\ selecting' = [selecting EXCEPT ![s] = [pc |-> "checked", page |-> page]]
      /\ UNCHANGED <<workspacePage, pageChannel, oauth, leaving, subscribed, toldConnected>>
      /\ \A d \in Workspaces \ {oauth[s].client} : workspacePage[d] # page
      /\ oauthOps' \in 0..MaxOauthOps
  BY OauthAssumption DEF SelectPage, Selecting, pageVars, OauthOp, StoredPages
<1>2. disturbed' = (disturbed \/ UnderWay)
  BY DEF SelectPage
<1>3. /\ selecting'[s] = [pc |-> "checked", page |-> page]
      /\ \A t \in OauthSessions : t # s => selecting'[t] = selecting[t]
  BY <1>1 DEF ConnectionInv, ConnectionTypeOK
<1>4. StoredPages'
  BY <1>1 DEF StoredPages
<1>5. ASSUME ~disturbed'
      PROVE  (\A t \in OauthSessions : SelectionStands(t)') /\ (\A c \in Workspaces : RoutesToItsOwn(c)' /\ ToldStands(c)')
  <2>1. ~disturbed /\ leaving = {} /\ \A t \in OauthSessions : t # s => ~Selects(t)' /\ ~Selects(t)
    BY <1>2, <1>3, <1>5 DEF UnderWay, Selects
  <2>2. \A t \in OauthSessions : ~Selects(t)
    BY <1>2, <1>5 DEF UnderWay, Selects
  <2>3. SelectionStands(s)'
    BY <1>1, <1>3, <2>1 DEF SelectionStands, Taken
  <2>4. \A t \in OauthSessions : SelectionStands(t)'
    BY <2>1, <2>3 DEF SelectionStands
  <2>5. \A c \in Workspaces : RoutesToItsOwn(c)'
    BY <1>1, <2>1 DEF Undisturbed, RoutesToItsOwn
  <2>6. \A c \in Workspaces : ToldStands(c)'
    BY <1>1, <2>1, <2>2 DEF Undisturbed, ToldStands
  <2> QED
    BY <2>4, <2>5, <2>6
<1> QED
  BY <1>4, <1>5 DEF Undisturbed

\* A selection goes on: undisturbed it is the only one, nobody leaves, and its workspace is of the type.
LEMMA TheSelection ==
    ASSUME PagesInv, NEW s \in OauthSessions, Selects(s)
    PROVE  /\ selecting[s] \in Selection /\ selecting[s].page \in MetaPages /\ oauth[s].client \in Workspaces
           /\ oauth[s].status # "unused"
           /\ ~disturbed => /\ leaving = {} /\ ~Taken(oauth[s].client, selecting[s].page)
                            /\ \A t \in OauthSessions : t # s => ~Selects(t)
PROOF
  BY DEF PagesInv, ConnectionInv, ConnectionTypeOK, Selects, Selection, SelectsWhenStarted, Undisturbed,
     SelectionStands, OneSelects

LEMMA LinkKeeps ==
    ASSUME PagesInv, ConnectionInv', NEW s \in OauthSessions, LinkPage(s)
    PROVE  PagesInv'
PROOF
<1> USE DEF PagesInv
<1> DEFINE page == selecting[s].page
           own == [owner |-> oauth[s].client, by |-> s]
<1>1. /\ selecting[s].pc = "checked"
      /\ selecting' = [selecting EXCEPT ![s] = [pc |-> "linked", page |-> page]]
      /\ pageChannel' = [pageChannel EXCEPT ![page] = own]
      /\ UNCHANGED <<workspacePage, oauth, leaving, subscribed, toldConnected, disturbed, oauthOps>>
  BY DEF LinkPage, Selecting
<1>2. Selects(s)
  BY <1>1 DEF Selects, NotSelecting
<1>3. /\ page \in MetaPages /\ oauth[s].client \in Workspaces
      /\ ~disturbed => leaving = {} /\ ~Taken(oauth[s].client, page) /\ \A t \in OauthSessions : t # s => ~Selects(t)
  BY <1>2, TheSelection
<1>4. /\ selecting'[s] = [pc |-> "linked", page |-> page]
      /\ \A t \in OauthSessions : t # s => selecting'[t] = selecting[t]
  BY <1>1 DEF ConnectionInv, ConnectionTypeOK
<1>5. selecting'[s].pc = "linked" /\ selecting'[s].page = page /\ Selects(s)'
      /\ \A t \in OauthSessions : Selects(t)' <=> Selects(t)
  BY <1>2, <1>4 DEF Selects, NotSelecting
<1>6. /\ pageChannel'[page] = own /\ own.owner = oauth[s].client /\ own.by = s
      /\ \A g \in MetaPages : g # page => pageChannel'[g] = pageChannel[g]
  BY <1>1, <1>3 DEF ConnectionInv, ConnectionTypeOK
<1> HIDE DEF page, own
<1>7. StoredPages'
  BY <1>1 DEF StoredPages
<1>8. ASSUME ~disturbed
      PROVE  (\A t \in OauthSessions : SelectionStands(t)') /\ (\A c \in Workspaces : RoutesToItsOwn(c)' /\ ToldStands(c)')
  <2>1. SelectionStands(s)'
    BY <1>1, <1>3, <1>5, <1>6, <1>8 DEF SelectionStands, Taken
  <2>2. \A t \in OauthSessions : SelectionStands(t)'
    BY <1>3, <1>5, <1>8, <2>1 DEF SelectionStands
  <2>3. ASSUME NEW c \in Workspaces PROVE RoutesToItsOwn(c)'
    BY <1>8, <1>3, <1>1, <1>6 DEF Undisturbed, Taken, StoredPages, RoutesToItsOwn
  <2>4. \A c \in Workspaces : ToldStands(c)'
    BY <1>1, <1>5, <1>8 DEF Undisturbed, ToldStands
  <2> QED
    BY <2>2, <2>3, <2>4
<1> QED
  BY <1>1, <1>7, <1>8 DEF Undisturbed

LEMMA PageIdKeeps ==
    ASSUME PagesInv, ConnectionInv', NEW s \in OauthSessions, SetWorkspacePage(s)
    PROVE  PagesInv'
PROOF
<1> USE DEF PagesInv
<1> DEFINE page == selecting[s].page
           me == oauth[s].client
<1>1. /\ selecting[s].pc = "linked" /\ ~Taken(me, page)
      /\ selecting' = [selecting EXCEPT ![s] = [pc |-> "paged", page |-> page]]
      /\ workspacePage' = [workspacePage EXCEPT ![me] = page]
      /\ UNCHANGED <<pageChannel, oauth, leaving, subscribed, toldConnected, disturbed, oauthOps>>
  BY DEF SetWorkspacePage, Selecting
<1>2. Selects(s)
  BY <1>1 DEF Selects, NotSelecting
<1>3. /\ page \in MetaPages /\ me \in Workspaces
      /\ ~disturbed => leaving = {} /\ \A t \in OauthSessions : t # s => ~Selects(t)
  BY <1>2, TheSelection
<1>4. /\ selecting'[s] = [pc |-> "paged", page |-> page]
      /\ \A t \in OauthSessions : t # s => selecting'[t] = selecting[t]
  BY <1>1 DEF ConnectionInv, ConnectionTypeOK
<1>5. selecting'[s].pc = "paged" /\ selecting'[s].page = page /\ Selects(s)'
      /\ \A t \in OauthSessions : Selects(t)' <=> Selects(t)
  BY <1>2, <1>4 DEF Selects, NotSelecting
<1>6. /\ workspacePage'[me] = page /\ \A d \in Workspaces : d # me => workspacePage'[d] = workspacePage[d]
      /\ workspacePage' \in [Workspaces -> MetaPages \cup {Nothing}]
  BY <1>1, <1>3 DEF StoredPages
<1>7. \A d \in Workspaces : d # me => workspacePage[d] # page
  BY <1>1 DEF Taken
<1>8. ~disturbed => pageChannel[page].owner = me /\ pageChannel[page].by = s
  BY <1>1, <1>2 DEF Undisturbed, SelectionStands
<1>9. oauth[s].client = me
  OBVIOUS
<1> HIDE DEF page, me
<1>10. StoredPages'
  BY <1>1, <1>6, <1>7 DEF StoredPages
<1>11. ASSUME ~disturbed
      PROVE  (\A t \in OauthSessions : SelectionStands(t)') /\ (\A c \in Workspaces : RoutesToItsOwn(c)' /\ ToldStands(c)')
  <2>1. SelectionStands(s)'
    BY <1>1, <1>3, <1>5, <1>6, <1>7, <1>8, <1>9, <1>11 DEF SelectionStands, Taken
  <2>2. \A t \in OauthSessions : SelectionStands(t)'
    BY <1>3, <1>5, <1>11, <2>1 DEF SelectionStands
  <2>3. ASSUME NEW c \in Workspaces PROVE RoutesToItsOwn(c)'
    BY <1>11, <1>1, <1>6, <1>8, <1>9 DEF Undisturbed, RoutesToItsOwn
  <2>4. ASSUME NEW c \in Workspaces PROVE ToldStands(c)'
    BY <1>11, <1>1, <1>2, <1>5, <1>9, <1>6 DEF Undisturbed, ToldStands
  <2> QED
    BY <2>2, <2>3, <2>4
<1> QED
  BY <1>1, <1>10, <1>11 DEF Undisturbed

LEMMA CompleteKeeps ==
    ASSUME PagesInv, ConnectionInv', NEW s \in OauthSessions, CompleteSession(s)
    PROVE  PagesInv'
PROOF
<1> USE DEF PagesInv
<1> DEFINE page == selecting[s].page
<1>1. /\ selecting[s].pc = "paged"
      /\ selecting' = [selecting EXCEPT ![s] = [pc |-> "completed", page |-> page]]
      /\ oauth' = [oauth EXCEPT ![s].status = "completed"]
      /\ UNCHANGED <<workspacePage, pageChannel, leaving, subscribed, toldConnected, disturbed, oauthOps>>
  BY DEF CompleteSession, Selecting, pageVars
<1>2. Selects(s)
  BY <1>1 DEF Selects, NotSelecting
<1>3. /\ page \in MetaPages /\ oauth[s].client \in Workspaces /\ oauth[s].status # "unused"
      /\ ~disturbed => leaving = {} /\ \A t \in OauthSessions : t # s => ~Selects(t)
  BY <1>2, TheSelection
<1>4. /\ selecting'[s] = [pc |-> "completed", page |-> page]
      /\ \A t \in OauthSessions : t # s => selecting'[t] = selecting[t]
  BY <1>1 DEF ConnectionInv, ConnectionTypeOK
<1>5. selecting'[s].pc = "completed" /\ selecting'[s].page = page /\ Selects(s)'
      /\ \A t \in OauthSessions : Selects(t)' <=> Selects(t)
  BY <1>2, <1>4 DEF Selects, NotSelecting
<1>6. /\ \A t \in OauthSessions : oauth'[t].client = oauth[t].client /\ (t # s => oauth'[t] = oauth[t])
      /\ oauth'[s].status = "completed"
  BY <1>1 DEF ConnectionInv, ConnectionTypeOK, OauthSession
<1>7. StoredPages'
  BY <1>1, <1>6 DEF StoredPages
<1>8. ASSUME ~disturbed
      PROVE  (\A t \in OauthSessions : SelectionStands(t)') /\ (\A c \in Workspaces : RoutesToItsOwn(c)' /\ ToldStands(c)')
  <2>1. SelectionStands(s)
    BY <1>8 DEF Undisturbed
  <2>2. SelectionStands(s)'
    BY <1>1, <1>2, <1>5, <1>6, <2>1 DEF SelectionStands, Taken
  <2>3. \A t \in OauthSessions : SelectionStands(t)'
    BY <1>3, <1>5, <1>8, <2>2 DEF SelectionStands
  <2>4. ASSUME NEW c \in Workspaces PROVE RoutesToItsOwn(c)'
    <3>1. RoutesToItsOwn(c) /\ c # Nothing
      BY <1>8, OauthAssumption DEF Undisturbed
    <3>2. ASSUME c \notin leaving, workspacePage[c] # Nothing PROVE pageChannel[workspacePage[c]].by \in OauthSessions
      BY <3>1, <3>2 DEF RoutesToItsOwn, StoredPages, NoChannel, ConnectionInv, ConnectionTypeOK, PageChannel
    <3> QED
      BY <1>1, <1>6, <3>1, <3>2 DEF RoutesToItsOwn
  <2>5. \A c \in Workspaces : ToldStands(c)'
    BY <1>1, <1>5, <1>6, <1>8 DEF Undisturbed, ToldStands
  <2> QED
    BY <2>3, <2>4, <2>5
<1> QED
  BY <1>1, <1>7, <1>8 DEF Undisturbed

LEMMA SubscribeKeeps ==
    ASSUME PagesInv, ConnectionInv', NEW s \in OauthSessions, NEW ok \in BOOLEAN, SubscribePage(s, ok)
    PROVE  PagesInv'
PROOF
<1> USE DEF PagesInv
<1> DEFINE page == selecting[s].page
           me == oauth[s].client
           heard == IF ok THEN page ELSE Nothing
<1>1. /\ selecting[s].pc = "completed" /\ selecting' = [selecting EXCEPT ![s] = NotSelecting]
      /\ subscribed' = (IF ok THEN subscribed \cup {page} ELSE subscribed)
      /\ toldConnected' = [toldConnected EXCEPT ![me] = heard]
      /\ UNCHANGED <<workspacePage, pageChannel, oauth, leaving, disturbed, oauthOps>>
  BY DEF SubscribePage, pageVars
<1>2. Selects(s)
  BY <1>1 DEF Selects, NotSelecting
<1>3. /\ page \in MetaPages /\ me \in Workspaces
      /\ ~disturbed => leaving = {} /\ \A t \in OauthSessions : t # s => ~Selects(t)
  BY <1>2, TheSelection
<1>4. ~Selects(s)' /\ \A t \in OauthSessions : t # s => selecting'[t] = selecting[t]
  BY <1>1 DEF ConnectionInv, ConnectionTypeOK, Selects
<1>5. subscribed \subseteq subscribed' /\ subscribed' \subseteq MetaPages /\ (ok => page \in subscribed')
  BY <1>1, <1>3 DEF StoredPages
<1>6. ~disturbed => workspacePage[me] = page
  BY <1>1, <1>2 DEF Undisturbed, SelectionStands
<1>7. heard \in {page, Nothing} /\ (heard # Nothing => ok)
  OBVIOUS
<1>8. \A t \in OauthSessions : t # s => (Selects(t)' <=> Selects(t))
  BY <1>4 DEF Selects
<1>9. oauth[s].client = me
  OBVIOUS
<1> HIDE DEF page, me, heard
<1>10. toldConnected'[me] = heard /\ \A d \in Workspaces : d # me => toldConnected'[d] = toldConnected[d]
  BY <1>1, <1>3 DEF StoredPages
<1>11. StoredPages'
  BY <1>1, <1>3, <1>5, <1>7 DEF StoredPages
<1>12. ASSUME ~disturbed
      PROVE  (\A t \in OauthSessions : SelectionStands(t)') /\ (\A c \in Workspaces : RoutesToItsOwn(c)' /\ ToldStands(c)')
  <2>1. \A t \in OauthSessions : SelectionStands(t)'
    BY <1>3, <1>4, <1>8, <1>12 DEF SelectionStands
  <2>2. \A c \in Workspaces : RoutesToItsOwn(c)'
    BY <1>1, <1>12 DEF Undisturbed, RoutesToItsOwn
  <2>3. ASSUME NEW c \in Workspaces PROVE ToldStands(c)'
    <3>1. ToldStands(c)
      BY <1>12 DEF Undisturbed
    <3>2. CASE c = me
      BY <1>1, <1>3, <1>5, <1>6, <1>7, <1>10, <1>12, <3>2 DEF ToldStands
    <3>3. CASE c # me
      BY <1>1, <1>8, <1>9, <3>3, <1>10, <1>5, <3>1 DEF ToldStands
    <3> QED
      BY <3>2, <3>3
  <2> QED
    BY <2>1, <2>2, <2>3
<1> QED
  BY <1>1, <1>11, <1>12 DEF Undisturbed

LEMMA FailKeeps ==
    ASSUME PagesInv, ConnectionInv', NEW s \in OauthSessions, SelectionFails(s)
    PROVE  PagesInv'
PROOF
  BY DEF SelectionFails, pageVars, PagesInv, StoredPages, Undisturbed

\* A workspace disconnects: it was told nothing, undisturbed nobody selects.
LEMMA DisconnectKeeps ==
    ASSUME PagesInv, ConnectionInv', NEW me \in Workspaces, DisconnectPage(me)
    PROVE  PagesInv'
PROOF
<1> USE DEF PagesInv
<1>1. /\ leaving' = leaving \cup {me}
      /\ pageChannel' = [g \in MetaPages |-> IF pageChannel[g].owner = me THEN NoChannel ELSE pageChannel[g]]
      /\ toldConnected' = [toldConnected EXCEPT ![me] = Nothing]
      /\ disturbed' = (disturbed \/ UnderWay)
      /\ oauthOps' \in 0..MaxOauthOps
      /\ UNCHANGED <<workspacePage, oauth, selecting, subscribed>>
  BY OauthAssumption DEF DisconnectPage, OauthOp, StoredPages
<1>2. /\ toldConnected'[me] = Nothing /\ \A d \in Workspaces : d # me => toldConnected'[d] = toldConnected[d]
      /\ toldConnected' \in [Workspaces -> MetaPages \cup {Nothing}]
  BY <1>1 DEF StoredPages
<1>3. StoredPages'
  BY <1>1, <1>2 DEF StoredPages
<1>4. ASSUME ~disturbed'
      PROVE  (\A t \in OauthSessions : SelectionStands(t)') /\ (\A c \in Workspaces : RoutesToItsOwn(c)' /\ ToldStands(c)')
  <2>1. ~disturbed /\ \A t \in OauthSessions : ~Selects(t) /\ ~Selects(t)'
    BY <1>1, <1>4 DEF UnderWay, Selects
  <2>2. \A t \in OauthSessions : SelectionStands(t)'
    BY <2>1 DEF SelectionStands
  <2>3. ASSUME NEW c \in Workspaces PROVE RoutesToItsOwn(c)' /\ ToldStands(c)'
    <3>1. RoutesToItsOwn(c) /\ ToldStands(c)
      BY <2>1 DEF Undisturbed
    <3>2. CASE c = me
      BY <1>1, <1>2, <3>2 DEF RoutesToItsOwn, ToldStands
    <3>3. CASE c # me
      <4>1. RoutesToItsOwn(c)'
        BY <1>1, <3>3, <3>1 DEF StoredPages, RoutesToItsOwn
      <4>2. ToldStands(c)'
        BY <1>1, <1>2, <2>1, <3>1, <3>3 DEF ToldStands
      <4> QED
        BY <4>1, <4>2
    <3> QED
      BY <3>2, <3>3
  <2> QED
    BY <2>2, <2>3
<1> QED
  BY <1>3, <1>4 DEF Undisturbed

LEMMA ClearKeeps ==
    ASSUME PagesInv, ConnectionInv', NEW me \in Workspaces, ClearPageId(me)
    PROVE  PagesInv'
PROOF
<1> USE DEF PagesInv
<1>1. /\ me \in leaving /\ leaving' = leaving \ {me}
      /\ workspacePage' = [workspacePage EXCEPT ![me] = Nothing]
      /\ UNCHANGED <<pageChannel, oauth, selecting, subscribed, toldConnected, disturbed, oauthOps>>
  BY DEF ClearPageId
<1>2. /\ workspacePage'[me] = Nothing /\ \A d \in Workspaces : d # me => workspacePage'[d] = workspacePage[d]
      /\ workspacePage' \in [Workspaces -> MetaPages \cup {Nothing}]
  BY <1>1 DEF StoredPages
<1>3. StoredPages'
  BY <1>1, <1>2 DEF StoredPages
<1>4. ASSUME ~disturbed
      PROVE  (\A t \in OauthSessions : SelectionStands(t)') /\ (\A c \in Workspaces : RoutesToItsOwn(c)' /\ ToldStands(c)')
  <2>1. \A t \in OauthSessions : ~Selects(t)
    BY <1>1, <1>4 DEF Undisturbed, SelectionStands
  <2>2. \A t \in OauthSessions : ~Selects(t)'
    BY <1>1, <2>1 DEF Selects
  <2>3. \A t \in OauthSessions : SelectionStands(t)'
    BY <2>2 DEF SelectionStands
  <2>4. ASSUME NEW c \in Workspaces PROVE RoutesToItsOwn(c)' /\ ToldStands(c)'
    BY <1>4, <1>1, <1>2, <2>1 DEF Undisturbed, RoutesToItsOwn, ToldStands
  <2> QED
    BY <2>3, <2>4
<1> QED
  BY <1>1, <1>3, <1>4 DEF Undisturbed

LEMMA ByHandKeeps ==
    ASSUME PagesInv, ConnectionInv', NEW me \in Workspaces, NEW page \in MetaPages, SetPageByHand(me, page)
    PROVE  PagesInv'
PROOF
  BY OauthAssumption DEF SetPageByHand, OauthOp, PagesInv, StoredPages, Taken, Undisturbed

LEMMA PagesStep == PagesInv /\ [PagesNext]_oauthVars => PagesInv'
PROOF
<1> SUFFICES ASSUME PagesInv, [PagesNext]_oauthVars PROVE PagesInv'
  OBVIOUS
<1>1. ConnectionInv'
  BY PagesStepInv DEF PagesInv
<1>2. CASE UNCHANGED oauthVars
  BY <1>2, <1>1 DEF oauthVars, PagesInv, StoredPages, Undisturbed, SelectionStands, RoutesToItsOwn, ToldStands,
     Selects, Taken
<1>3. CASE PagesNext
  BY <1>1, <1>3, SessionKeeps, SelectKeeps, LinkKeeps, PageIdKeeps, FailKeeps, CompleteKeeps, SubscribeKeeps,
     DisconnectKeeps, ClearKeeps, ByHandKeeps DEF PagesNext
<1> QED
  BY <1>2, <1>3

LEMMA PagesKeep == PagesInv => PagesTypeOK /\ ToldPageIsLive /\ RoutedPageCanAnswer
PROOF
<1> SUFFICES ASSUME PagesInv PROVE PagesTypeOK /\ ToldPageIsLive /\ RoutedPageCanAnswer
  OBVIOUS
<1> USE DEF PagesInv
<1>1. PagesTypeOK
  BY DEF PagesTypeOK, ConnectionInv, ConnectionTypeOK, StoredPages, Selection
<1>2. ToldPageIsLive
  BY DEF ToldPageIsLive, Undisturbed, ToldStands, RoutesToItsOwn, Selects
<1>3. RoutedPageCanAnswer
  BY DEF RoutedPageCanAnswer, Undisturbed, RoutesToItsOwn, UnderWay
<1> QED
  BY <1>1, <1>2, <1>3

-----------------------------------------------------------------------------
(* The operators' console: queues, and what they show.                       *)

\* A row of a queue, or a request made from one, is older than the escalation or shows it open.
SeenOpen(r) ==
    /\ r.esc \in Escalations /\ r.revision \in Nat /\ r.revision <= escalations[r.esc].revision
    /\ r.revision = escalations[r.esc].revision => escalations[r.esc].status = "open"

AnchorLoad == [by : AnchorOperators, client : Clients \cup {Nobody}, at : {"sent", "served"}, rows : SUBSET QueueRow]

EscalationsInv ==
    /\ escalations \in [Escalations -> EscalationRow]
    /\ \A e \in Escalations : escalations[e].status = "taken" => escalations[e].assignedTo # Nobody

LoadsInv ==
    /\ access \subseteq AnchorOperators \X Clients
    /\ queue \in [AnchorOperators -> SUBSET QueueRow]
    /\ loads \subseteq AnchorLoad
    /\ \A o \in AnchorOperators : IsFiniteSet(LoadsOf(o)) /\ Cardinality(LoadsOf(o)) <= MaxLoads[o]

SeenInv ==
    /\ \A o \in AnchorOperators : \A r \in queue[o] : SeenOpen(r)
    /\ \A l \in loads : \A r \in l.rows : SeenOpen(r)
    /\ \A o \in AnchorOperators : acts[o] # NoAct => SeenOpen(acts[o])
    /\ ~knowingly

\* An operator who did not waver has one load at most, for the client that is selected.
QueueInv ==
    /\ \A l \in loads : \A r \in l.rows : ClientOf[r.esc] = l.client
    /\ \A o \in AnchorOperators \ wavered :
         /\ \A l \in LoadsOf(o) : l.client = selected[o]
         /\ \A l, m \in LoadsOf(o) : l = m
    /\ QueueIsOfSelected

AnchorInv == ActsInv /\ EscalationsInv /\ LoadsInv /\ SeenInv /\ QueueInv

-----------------------------------------------------------------------------
LEMMA AnchorStarts == AnchorInit => AnchorInv
  <1> SUFFICES ASSUME AnchorInit
               PROVE  AnchorInv
    OBVIOUS
  <1> USE AnchorAssumption
  <1>1. ActsInv
    BY AnchorInitActs
  <1>2. /\ escalations = [e \in Escalations |-> [status |-> "none", assignedTo |-> Nobody, revision |-> 0]]
        /\ access = {} /\ queue = [o \in AnchorOperators |-> {}] /\ loads = {} /\ acts = [o \in AnchorOperators |-> NoAct]
        /\ knowingly = FALSE
    BY DEF AnchorInit
  <1>3. EscalationsInv
    BY <1>2 DEF EscalationsInv, EscalationRow, AnchorStatuses
  <1>4. \A o \in AnchorOperators : LoadsOf(o) = {}
    BY <1>2 DEF LoadsOf
  <1>5. LoadsInv
    <2>1. \A o \in AnchorOperators : IsFiniteSet(LoadsOf(o)) /\ Cardinality(LoadsOf(o)) <= MaxLoads[o]
      BY FS_EmptySet, <1>4
    <2> QED  BY <1>2, <2>1 DEF LoadsInv
  <1>6. SeenInv
    BY <1>2 DEF SeenInv
  <1>7. QueueInv
    BY <1>2, <1>4 DEF QueueInv, QueueIsOfSelected
  <1> QED  BY <1>1, <1>3, <1>5, <1>6, <1>7 DEF AnchorInv

\* What a take or a resolution makes of a row.
LEMMA RowApplied ==
    ASSUME NEW row \in EscalationRow, NEW w \in AnchorOperators \cup {Colleague}, NEW kind, row.revision < MaxRevision
    PROVE  /\ Applied(row, w, kind) \in EscalationRow
           /\ Applied(row, w, kind).revision = row.revision + 1
           /\ Applied(row, w, kind).status = "taken" => Applied(row, w, kind).assignedTo # Nobody
  <1> DEFINE st == IF kind = "take" THEN "taken" ELSE "resolved"
             own == IF kind = "take" THEN w ELSE row.assignedTo
  <1>1. Applied(row, w, kind) = [row EXCEPT !.status = st, !.assignedTo = own, !.revision = row.revision + 1]
    BY DEF Applied
  <1>2. row.revision + 1 \in 0..MaxRevision
    <2>1. row.revision \in 0..MaxRevision /\ MaxRevision \in Nat /\ row.revision < MaxRevision
      BY AnchorAssumption DEF EscalationRow
    <2> QED  BY ONLY <2>1
  <1>3. st \in AnchorStatuses /\ own \in AnchorOperators \cup {Colleague, Nobody}
    BY DEF AnchorStatuses, EscalationRow
  <1>4. st = "taken" => own # Nobody
    BY AnchorAssumption
  <1> HIDE DEF st, own
  <1> QED  BY <1>1, <1>2, <1>3, <1>4 DEF EscalationRow

\* A row that is applied: nothing seen before shows it as it is.
LEMMA RowMoves ==
    ASSUME EscalationsInv, NEW e \in Escalations, NEW w \in AnchorOperators \cup {Colleague}, NEW kind,
           escalations[e].revision < MaxRevision,
           escalations' = [escalations EXCEPT ![e] = Applied(escalations[e], w, kind)]
    PROVE  EscalationsInv' /\ \A r : SeenOpen(r) => SeenOpen(r)'
  <1> DEFINE new == Applied(escalations[e], w, kind)
  <1>1. escalations[e] \in EscalationRow
    BY DEF EscalationsInv
  <1>2. /\ new \in EscalationRow /\ new.revision = escalations[e].revision + 1
        /\ new.status = "taken" => new.assignedTo # Nobody
    BY <1>1, RowApplied
  <1>3. escalations' = [escalations EXCEPT ![e] = new]
    OBVIOUS
  <1> HIDE DEF new
  <1>4. EscalationsInv'
    BY <1>2, <1>3 DEF EscalationsInv
  <1>5. ASSUME NEW r, SeenOpen(r)
        PROVE  SeenOpen(r)'
    <2>1. CASE r.esc = e
      <3>1. /\ r.revision \in Nat /\ escalations[e].revision \in Nat /\ r.revision <= escalations[e].revision
            /\ new.revision = escalations[e].revision + 1
        BY <1>1, <1>2, <1>5, <2>1 DEF SeenOpen, EscalationRow
      <3>2. r.revision <= new.revision /\ r.revision # new.revision
        BY ONLY <3>1
      <3>3. escalations'[e] = new
        BY <1>3 DEF EscalationsInv
      <3> QED  BY <1>5, <2>1, <3>2, <3>3 DEF SeenOpen
    <2>2. CASE r.esc # e
      BY <1>3, <1>5, <2>2 DEF SeenOpen, EscalationsInv
    <2> QED  BY <2>1, <2>2
  <1> QED  BY <1>4, <1>5

LEMMA RowRaised ==
    ASSUME EscalationsInv, NEW e \in Escalations, Raise(e)
    PROVE  EscalationsInv' /\ \A r : SeenOpen(r) => SeenOpen(r)'
  <1> DEFINE new == [escalations[e] EXCEPT !.status = "open"]
  <1>1. escalations[e] \in EscalationRow
    BY DEF EscalationsInv
  <1>2. new \in EscalationRow /\ new.revision = escalations[e].revision /\ new.status = "open"
    BY <1>1 DEF EscalationRow, AnchorStatuses
  <1>3. escalations' = [escalations EXCEPT ![e] = new]
    BY DEF Raise
  <1> HIDE DEF new
  <1>4. EscalationsInv'
    BY <1>2, <1>3 DEF EscalationsInv
  <1>5. ASSUME NEW r, SeenOpen(r)
        PROVE  SeenOpen(r)'
    BY <1>2, <1>3, <1>5 DEF SeenOpen, EscalationsInv
  <1> QED  BY <1>4, <1>5

\* Every step leaves the rows, or moves one so that nothing seen before shows it as it is.
LEMMA EscalationsStep ==
    ASSUME AnchorInv, [AnchorNext]_anchorVars
    PROVE  EscalationsInv' /\ \A r : SeenOpen(r) => SeenOpen(r)'
  <1>0. EscalationsInv /\ ActsInv /\ SeenInv
    BY DEF AnchorInv
  <1>1. CASE escalations' = escalations
    BY <1>0, <1>1 DEF EscalationsInv, SeenOpen
  <1>2. ASSUME NEW e \in Escalations, Raise(e)
        PROVE  EscalationsInv' /\ \A r : SeenOpen(r) => SeenOpen(r)'
    BY <1>0, <1>2, RowRaised
  <1>3. ASSUME NEW e \in Escalations, NEW kind, ColleagueActs(e, kind)
        PROVE  EscalationsInv' /\ \A r : SeenOpen(r) => SeenOpen(r)'
    BY <1>3, <1>0, RowMoves DEF ColleagueActs
  <1>4. ASSUME NEW o \in AnchorOperators, ActIsApplied(o), escalations' # escalations
        PROVE  EscalationsInv' /\ \A r : SeenOpen(r) => SeenOpen(r)'
    <2>1. /\ escalations' = [escalations EXCEPT ![acts[o].esc] = Applied(escalations[acts[o].esc], o, acts[o].kind)]
          /\ escalations[acts[o].esc].revision < MaxRevision /\ acts[o].at = "checked"
      BY <1>4 DEF ActIsApplied
    <2>2. acts[o] # NoAct
      BY <2>1 DEF NoAct
    <2>3. acts[o].esc \in Escalations
      BY <1>0, <2>2 DEF SeenInv, SeenOpen
    <2> QED  BY <1>0, <2>1, <2>3, RowMoves
  <1> QED
    BY <1>1, <1>2, <1>3, <1>4 DEF AnchorNext, anchorVars, Grant, Revoke, SelectAnchorClient, PressRefresh, LoadIsServed,
       LoadArrives, LoadFails, PressAct, ActIsChecked, ActAnswered, ActFails

\* What is seen stays seen.
LEMMA SeenStep ==
    ASSUME AnchorInv, [AnchorNext]_anchorVars
    PROVE  SeenInv'
  <1>0. EscalationsInv /\ ActsInv /\ SeenInv /\ LoadsInv
    BY DEF AnchorInv
  <1>1. \A r : SeenOpen(r) => SeenOpen(r)'
    BY EscalationsStep
  <1>2. \A o \in AnchorOperators : \A r \in queue'[o] : SeenOpen(r)'
    <2>1. ASSUME NEW l \in loads, LoadArrives(l)
          PROVE  \A o \in AnchorOperators : \A r \in queue'[o] : SeenOpen(r)
      BY <1>0, <2>1 DEF LoadArrives, SeenInv, LoadsInv
    <2>2. CASE queue' = queue
      BY <1>0, <1>1, <2>2 DEF SeenInv
    <2> QED
      BY <1>1, <2>1, <2>2 DEF AnchorNext, anchorVars, Raise, ColleagueActs, Grant, Revoke, SelectAnchorClient, PressRefresh,
         LoadIsServed, LoadFails, PressAct, ActIsChecked, ActIsApplied, ActAnswered, ActFails
  <1>3. \A l \in loads' : \A r \in l.rows : SeenOpen(r)
    <2>1. CASE loads' \subseteq loads
      BY <1>0, <2>1 DEF SeenInv
    <2>2. ASSUME NEW o, NEW c, StartLoad(o, c)
          PROVE  \A l \in loads' : \A r \in l.rows : SeenOpen(r)
      BY <1>0, <2>2 DEF StartLoad, Load, SeenInv
    <2>3. ASSUME NEW l \in loads, LoadIsServed(l)
          PROVE  \A m \in loads' : \A r \in m.rows : SeenOpen(r)
      <3> DEFINE rows == {[esc |-> e, revision |-> escalations[e].revision] : e \in ListOpen(l.client)}
                 new == [l EXCEPT !.at = "served", !.rows = rows]
      <3>1. \A r \in rows : SeenOpen(r)
        BY <1>0 DEF SeenOpen, ListOpen, EscalationsInv, EscalationRow
      <3>2. new.rows = rows
        BY <1>0, <2>3 DEF LoadsInv, AnchorLoad
      <3>3. loads' = (loads \ {l}) \cup {new}
        BY <2>3 DEF LoadIsServed
      <3> HIDE DEF rows, new
      <3> QED  BY <1>0, <3>1, <3>2, <3>3 DEF SeenInv
    <2> QED
      BY <2>1, <2>2, <2>3 DEF AnchorNext, anchorVars, Raise, ColleagueActs, Grant, Revoke, SelectAnchorClient, Reload,
         PressRefresh, LoadArrives, LoadFails, PressAct, ActIsChecked, ActIsApplied, ActAnswered, ActFails
  <1>4. \A o \in AnchorOperators : acts'[o] # NoAct => SeenOpen(acts'[o])
    <2>0. acts \in [AnchorOperators -> Act]
      BY <1>0 DEF ActsInv
    <2>1. CASE acts' = acts
      BY <1>0, <2>1 DEF SeenInv
    <2>2. ASSUME NEW o \in AnchorOperators, acts' = [acts EXCEPT ![o] = NoAct]
          PROVE  \A u \in AnchorOperators : acts'[u] # NoAct => SeenOpen(acts'[u])
      BY <1>0, <2>0, <2>2 DEF SeenInv
    <2>3. ASSUME NEW o \in AnchorOperators, ActIsChecked(o) \/ ActIsApplied(o)
          PROVE  \A u \in AnchorOperators : acts'[u] # NoAct => SeenOpen(acts'[u])
      BY <2>3, <1>0, <2>0 DEF ActIsChecked, ActIsApplied, NoAct, SeenInv, Act, SeenOpen
    <2>4. ASSUME NEW o \in AnchorOperators, NEW r \in QueueRow, NEW kind, PressAct(o, r, kind)
          PROVE  \A u \in AnchorOperators : acts'[u] # NoAct => SeenOpen(acts'[u])
      <3> DEFINE new == [kind |-> kind, esc |-> r.esc, client |-> selected[o], at |-> "sent", revision |-> r.revision]
      <3>1. SeenOpen(r) /\ acts' = [acts EXCEPT ![o] = new]
        BY <1>0, <2>4 DEF PressAct, SeenInv
      <3>2. SeenOpen(new)
        BY <3>1 DEF SeenOpen
      <3> HIDE DEF new
      <3> QED  BY <1>0, <2>0, <3>1, <3>2 DEF SeenInv
    <2> QED
      BY <2>1, <2>2, <2>3, <2>4 DEF AnchorNext, anchorVars, Raise, ColleagueActs, Grant, Revoke, SelectAnchorClient,
         PressRefresh, LoadIsServed, LoadArrives, LoadFails, ActAnswered, ActFails
  <1>5. ~knowingly'
    <2>1. CASE knowingly' = knowingly
      BY <1>0, <2>1 DEF SeenInv
    <2>2. ASSUME NEW o \in AnchorOperators, ActIsApplied(o)
          PROVE  ~knowingly'
      <3>1. acts[o].at = "checked" /\ NoAct.at = "none"
        BY <2>2 DEF ActIsApplied, NoAct
      <3>2. SeenOpen(acts[o]) /\ ~knowingly
        BY <1>0, <3>1 DEF SeenInv
      <3> QED  BY <2>2, <3>2 DEF ActIsApplied, SeenOpen
    <2> QED
      BY <2>1, <2>2 DEF AnchorNext, anchorVars, Raise, ColleagueActs, Grant, Revoke, SelectAnchorClient,
         PressRefresh, LoadIsServed, LoadArrives, LoadFails, PressAct, ActIsChecked, ActAnswered, ActFails
  <1> QED  BY <1>1, <1>2, <1>3, <1>4, <1>5 DEF SeenInv

\* One load more, within the operator's bound.
LEMMA LoadStarts ==
    ASSUME LoadsInv, NEW o \in AnchorOperators, NEW c \in Clients \cup {Nobody}, StartLoad(o, c),
           access' = access, queue' = queue
    PROVE  LoadsInv'
  <1>1. Cardinality(LoadsOf(o)) < MaxLoads[o] /\ loads' = loads \cup {Load(o, c)}
    BY DEF StartLoad
  <1>2. Load(o, c) \in AnchorLoad /\ Load(o, c).by = o
    BY DEF Load, AnchorLoad
  <1>3. LoadsOf(o)' \subseteq LoadsOf(o) \cup {Load(o, c)} /\ \A u \in AnchorOperators : u # o => LoadsOf(u)' = LoadsOf(u)
    BY <1>1, <1>2 DEF LoadsOf
  <1>4. IsFiniteSet(LoadsOf(o)') /\ Cardinality(LoadsOf(o)') <= MaxLoads[o]
    <2> DEFINE T == LoadsOf(o)'
    <2>1. IsFiniteSet(LoadsOf(o)) /\ Cardinality(LoadsOf(o)) \in Nat /\ MaxLoads[o] \in Nat
      BY AnchorAssumption, FS_CardinalityType DEF LoadsInv
    <2>2. T \subseteq LoadsOf(o) \cup {Load(o, c)}
      BY <1>3
    <2> HIDE DEF T
    <2>3. IsFiniteSet(T) /\ Cardinality(T) \in Nat /\ Cardinality(T) <= Cardinality(LoadsOf(o)) + 1
      BY <2>1, <2>2, CountsOneMore
    <2>4. Cardinality(T) <= MaxLoads[o]
      BY <1>1, <2>1, <2>3
    <2> QED  BY <2>3, <2>4 DEF T
  <1>5. loads' \subseteq AnchorLoad
    BY <1>1, <1>2 DEF LoadsInv
  <1>6. \A u \in AnchorOperators : IsFiniteSet(LoadsOf(u)') /\ Cardinality(LoadsOf(u)') <= MaxLoads[u]
    BY <1>3, <1>4 DEF LoadsInv
  <1> QED  BY <1>5, <1>6 DEF LoadsInv

\* A load that is answered or gone.
LEMMA LoadEnds ==
    ASSUME LoadsInv, NEW l \in loads, loads' = loads \ {l}, access' = access, queue' \in [AnchorOperators -> SUBSET QueueRow]
    PROVE  LoadsInv'
  <1>1. ASSUME NEW u \in AnchorOperators
        PROVE  IsFiniteSet(LoadsOf(u)') /\ Cardinality(LoadsOf(u)') <= MaxLoads[u]
    <2> DEFINE T == LoadsOf(u)'
    <2>1. IsFiniteSet(LoadsOf(u)) /\ Cardinality(LoadsOf(u)) \in Nat /\ MaxLoads[u] \in Nat
          /\ Cardinality(LoadsOf(u)) <= MaxLoads[u]
      BY AnchorAssumption, FS_CardinalityType DEF LoadsInv
    <2>2. T \subseteq LoadsOf(u)
      BY DEF LoadsOf
    <2> HIDE DEF T
    <2>3. IsFiniteSet(T) /\ Cardinality(T) \in Nat /\ Cardinality(T) <= Cardinality(LoadsOf(u))
      BY <2>1, <2>2, FS_Subset, FS_CardinalityType
    <2>4. Cardinality(T) <= MaxLoads[u]
      BY <2>1, <2>3
    <2> QED  BY <2>3, <2>4 DEF T
  <1> QED  BY <1>1 DEF LoadsInv

LEMMA LoadServed ==
    ASSUME LoadsInv, EscalationsInv, NEW l \in loads, LoadIsServed(l)
    PROVE  LoadsInv'
  <1> DEFINE rows == {[esc |-> e, revision |-> escalations[e].revision] : e \in ListOpen(l.client)}
             new == [l EXCEPT !.at = "served", !.rows = rows]
  <1>1. l \in AnchorLoad /\ rows \subseteq QueueRow
    BY DEF LoadsInv, ListOpen, EscalationsInv, EscalationRow, QueueRow
  <1>2. loads' = (loads \ {l}) \cup {new} /\ access' = access /\ queue' = queue
    BY DEF LoadIsServed
  <1> HIDE DEF rows
  <1>3. new \in AnchorLoad /\ new.by = l.by
    BY <1>1 DEF AnchorLoad
  <1> HIDE DEF new
  <1>4. ASSUME NEW u \in AnchorOperators
        PROVE  IsFiniteSet(LoadsOf(u)') /\ Cardinality(LoadsOf(u)') <= MaxLoads[u]
    <2> DEFINE T == LoadsOf(u)'
    <2>1. IsFiniteSet(LoadsOf(u)) /\ Cardinality(LoadsOf(u)) \in Nat /\ MaxLoads[u] \in Nat
          /\ Cardinality(LoadsOf(u)) <= MaxLoads[u]
      BY AnchorAssumption, FS_CardinalityType DEF LoadsInv
    <2>2. CASE l.by # u
      <3>1. T \subseteq LoadsOf(u)
        BY <1>2, <1>3, <2>2 DEF LoadsOf
      <3> HIDE DEF T
      <3>3. IsFiniteSet(T) /\ Cardinality(T) \in Nat /\ Cardinality(T) <= Cardinality(LoadsOf(u))
        BY <2>1, <3>1, FS_Subset, FS_CardinalityType
      <3>4. Cardinality(T) <= MaxLoads[u]
        BY <2>1, <3>3
      <3> QED  BY <3>3, <3>4 DEF T
    <2>3. CASE l.by = u
      <3> DEFINE S == LoadsOf(u) \ {l}
      <3>1. l \in LoadsOf(u) /\ T \subseteq S \cup {new}
        BY <1>2, <1>3, <2>3 DEF LoadsOf
      <3>2. IsFiniteSet(S) /\ Cardinality(S) \in Nat /\ Cardinality(S) + 1 <= Cardinality(LoadsOf(u))
        BY <2>1, <3>1, CountsOneLess
      <3> HIDE DEF T, S
      <3>3. IsFiniteSet(T) /\ Cardinality(T) \in Nat /\ Cardinality(T) <= Cardinality(S) + 1
        BY <3>1, <3>2, CountsOneMore
      <3>4. Cardinality(T) <= MaxLoads[u]
        BY <2>1, <3>2, <3>3
      <3> QED  BY <3>3, <3>4 DEF T
    <2> QED  BY <2>2, <2>3
  <1>5. loads' \subseteq AnchorLoad
    BY <1>2, <1>3 DEF LoadsInv
  <1> QED  BY <1>2, <1>4, <1>5 DEF LoadsInv

LEMMA LoadsStep ==
    ASSUME AnchorInv, [AnchorNext]_anchorVars
    PROVE  LoadsInv'
  <1>0. EscalationsInv /\ ActsInv /\ SeenInv /\ LoadsInv /\ ActsInv'
    BY AnchorStepActs DEF AnchorInv
  <1>1. CASE loads' = loads /\ queue' = queue /\ access' \subseteq AnchorOperators \X Clients
    BY <1>0, <1>1 DEF LoadsInv, LoadsOf
  <1>2. ASSUME NEW o \in AnchorOperators, NEW c \in Clients, SelectAnchorClient(o, c)
        PROVE  LoadsInv'
    BY <1>0, <1>2, LoadStarts DEF SelectAnchorClient, Reload
  <1>3. ASSUME NEW o \in AnchorOperators, PressRefresh(o)
        PROVE  LoadsInv'
    BY <1>0, <1>3, LoadStarts DEF ActsInv, PressRefresh
  <1>4. ASSUME NEW o \in AnchorOperators, ActAnswered(o)
        PROVE  LoadsInv'
    BY <1>0, <1>4, LoadStarts DEF ActsInv, Act, ActAnswered
  <1>5. ASSUME NEW l \in loads, LoadIsServed(l)
        PROVE  LoadsInv'
    BY <1>0, <1>5, LoadServed
  <1>6. ASSUME NEW l \in loads, LoadArrives(l)
        PROVE  LoadsInv'
    BY <1>0, <1>6, LoadEnds DEF LoadsInv, AnchorLoad, LoadArrives
  <1>7. ASSUME NEW l \in loads, LoadFails(l)
        PROVE  LoadsInv'
    BY <1>0, <1>7, LoadEnds DEF LoadFails, LoadsInv
  <1>8. ASSUME NEW o \in AnchorOperators, NEW c \in Clients, Grant(o, c) \/ Revoke(o, c)
        PROVE  LoadsInv'
    BY <1>0, <1>8, <1>1 DEF Grant, Revoke, LoadsInv
  <1>9. CASE loads' = loads /\ queue' = queue /\ access' = access
    BY <1>0, <1>1, <1>9 DEF LoadsInv
  <1> QED
    BY <1>2, <1>3, <1>4, <1>5, <1>6, <1>7, <1>8, <1>9 DEF AnchorNext, anchorVars, Raise, ColleagueActs,
       PressAct, ActIsChecked, ActIsApplied, ActFails

\* A load begun: the one of an operator who does not waver, for the client that is selected.
LEMMA QueueAsked ==
    ASSUME LoadsInv, QueueInv, NEW o \in AnchorOperators, NEW c, StartLoad(o, c), queue' = queue,
           \A u \in AnchorOperators : u # o => selected'[u] = selected[u]
    PROVE  QueueInv'
  <1>1. /\ loads' = loads \cup {Load(o, c)} /\ wavered \subseteq wavered'
        /\ LoadsOf(o) # {} \/ c # selected'[o] => o \in wavered'
    BY DEF StartLoad
  <1>2. Load(o, c).by = o /\ Load(o, c).client = c /\ Load(o, c).rows = {}
    BY DEF Load
  <1>3. \A u \in AnchorOperators : u # o => LoadsOf(u)' = LoadsOf(u)
    BY <1>1, <1>2 DEF LoadsOf
  <1>4. Load(o, c) \in LoadsOf(o)'
    BY <1>1, <1>2 DEF LoadsOf
  <1>5. o \notin wavered' => c = selected'[o] /\ LoadsOf(o)' \subseteq {Load(o, c)}
    BY <1>1 DEF LoadsOf
  <1>6. \A l \in loads' : \A r \in l.rows : ClientOf[r.esc] = l.client
    BY <1>1, <1>2 DEF QueueInv
  <1>7. ASSUME NEW u \in AnchorOperators, u \notin wavered'
        PROVE  /\ \A l \in LoadsOf(u)' : l.client = selected'[u]
               /\ \A l, m \in LoadsOf(u)' : l = m
               /\ LoadsOf(u)' = {} => \A r \in queue'[u] : ClientOf[r.esc] = selected'[u]
    BY <1>2, <1>4, <1>5, <1>7, <1>1, <1>3 DEF QueueInv, QueueIsOfSelected
  <1> QED  BY <1>6, <1>7 DEF QueueInv, QueueIsOfSelected

LEMMA QueueStep ==
    ASSUME AnchorInv, [AnchorNext]_anchorVars
    PROVE  QueueInv'
  <1>0. EscalationsInv /\ ActsInv /\ LoadsInv /\ QueueInv
    BY DEF AnchorInv
  <1>1. CASE loads' = loads /\ queue' = queue /\ wavered' = wavered /\ selected' = selected
    BY <1>0, <1>1 DEF QueueInv, QueueIsOfSelected, LoadsOf
  <1>2. ASSUME NEW o \in AnchorOperators, NEW c \in Clients, SelectAnchorClient(o, c)
        PROVE  QueueInv'
    BY <1>0, <1>2, QueueAsked DEF SelectAnchorClient, ActsInv, Reload
  <1>3. ASSUME NEW o \in AnchorOperators, PressRefresh(o)
        PROVE  QueueInv'
    BY <1>0, <1>3, QueueAsked DEF PressRefresh
  <1>4. ASSUME NEW o \in AnchorOperators, ActAnswered(o)
        PROVE  QueueInv'
    BY <1>0, <1>4, QueueAsked DEF ActAnswered
  <1>5. ASSUME NEW l \in loads, LoadIsServed(l)
        PROVE  QueueInv'
    <2> DEFINE rows == {[esc |-> e, revision |-> escalations[e].revision] : e \in ListOpen(l.client)}
               new == [l EXCEPT !.at = "served", !.rows = rows]
    <2>1. l \in AnchorLoad /\ \A r \in rows : ClientOf[r.esc] = l.client
      BY <1>0 DEF LoadsInv, ListOpen
    <2>2. loads' = (loads \ {l}) \cup {new} /\ queue' = queue /\ wavered' = wavered /\ selected' = selected
      BY <1>5 DEF LoadIsServed
    <2> HIDE DEF rows
    <2>3. new.by = l.by /\ new.client = l.client /\ new.rows = rows
      BY <2>1 DEF AnchorLoad
    <2> HIDE DEF new
    <2>4. \A m \in loads' : \A r \in m.rows : ClientOf[r.esc] = m.client
      BY <1>0, <2>1, <2>2, <2>3 DEF QueueInv
    <2>5. ASSUME NEW u \in AnchorOperators, u \notin wavered'
          PROVE  /\ \A m \in LoadsOf(u)' : m.client = selected'[u]
                 /\ \A k, m \in LoadsOf(u)' : k = m
                 /\ LoadsOf(u)' = {} => \A r \in queue'[u] : ClientOf[r.esc] = selected'[u]
      <3>0. /\ \A m \in LoadsOf(u) : m.client = selected[u]
            /\ \A k, m \in LoadsOf(u) : k = m
            /\ LoadsOf(u) = {} => \A r \in queue[u] : ClientOf[r.esc] = selected[u]
        BY <1>0, <2>2, <2>5 DEF QueueInv, QueueIsOfSelected
      <3>1. CASE l.by = u
        BY <2>2, <2>3, <3>1, <3>0 DEF LoadsOf
      <3>2. CASE l.by # u
        BY <2>2, <2>3, <3>2, <3>0 DEF LoadsOf
      <3> QED  BY <3>1, <3>2
    <2> QED  BY <2>4, <2>5 DEF QueueInv, QueueIsOfSelected
  <1>6. ASSUME NEW l \in loads, LoadArrives(l)
        PROVE  QueueInv'
    <2>1. /\ queue' = [queue EXCEPT ![l.by] = l.rows] /\ loads' = loads \ {l} /\ wavered' = wavered
          /\ selected' = selected /\ l.by \in AnchorOperators
      BY <1>0, <1>6 DEF LoadArrives, LoadsInv, AnchorLoad
    <2>2. \A m \in loads' : \A r \in m.rows : ClientOf[r.esc] = m.client
      BY <1>0, <2>1 DEF QueueInv
    <2>3. ASSUME NEW u \in AnchorOperators, u \notin wavered'
          PROVE  /\ \A m \in LoadsOf(u)' : m.client = selected'[u]
                 /\ \A k, m \in LoadsOf(u)' : k = m
                 /\ LoadsOf(u)' = {} => \A r \in queue'[u] : ClientOf[r.esc] = selected'[u]
      <3>0. /\ \A m \in LoadsOf(u) : m.client = selected[u]
            /\ \A k, m \in LoadsOf(u) : k = m
            /\ LoadsOf(u) = {} => \A r \in queue[u] : ClientOf[r.esc] = selected[u]
        BY <1>0, <2>1, <2>3 DEF QueueInv, QueueIsOfSelected
      <3>1. CASE l.by = u
        BY <2>1, <3>1, <1>0, <3>0 DEF LoadsOf, LoadsInv, QueueInv
      <3>2. CASE l.by # u
        BY <1>0, <2>1, <3>2, <3>0 DEF LoadsOf, LoadsInv
      <3> QED  BY <3>1, <3>2
    <2> QED  BY <2>2, <2>3 DEF QueueInv, QueueIsOfSelected
  <1>7. ASSUME NEW l \in loads, LoadFails(l)
        PROVE  QueueInv'
    BY <1>7, <1>0 DEF LoadFails, LoadsOf, QueueInv, QueueIsOfSelected
  <1> QED
    BY <1>1, <1>2, <1>3, <1>4, <1>5, <1>6, <1>7 DEF AnchorNext, anchorVars, Raise, ColleagueActs, Grant, Revoke,
       PressAct, ActIsChecked, ActIsApplied, ActFails

LEMMA AnchorStep == AnchorInv /\ [AnchorNext]_anchorVars => AnchorInv'
  BY EscalationsStep, SeenStep, LoadsStep, QueueStep, AnchorStepActs DEF AnchorInv

LEMMA AnchorKeeps == AnchorInv => AnchorTypeOK /\ ReworkedOnlyUnseen /\ QueueIsOfSelected
  BY DEF AnchorInv, EscalationsInv, LoadsInv, SeenInv, QueueInv, AnchorTypeOK, ReworkedOnlyUnseen

-----------------------------------------------------------------------------
(* The threads of callers, and their numbers.                                *)

\* The requests a job can be.
JobKind ==
    {Free}
      \cup [pc : {"dialled"}, number : Numbers, tenant : Tenants]
      \cup [pc : {"asking"}, at : Threads, field : StateFields]
      \cup [pc : {"read"}, at : Threads, field : StateFields, said : FieldValue, got : ThreadFields, moved : BOOLEAN]
      \cup [pc : {"patching"}, at : Threads, field : StateFields, said : FieldValue]
      \cup [pc : {"judging"}, of : Tenants, holds : SUBSET StateFields, config : IcpConfig]

\* A value is the caller's, or one the system gave; rules are none, or some the client had.
Answered(v) == v.from = "system" => v.val \in answeredTurns
Ruled(config, c) == config.on # {} => config \in everRuled[c]

\* A request knows a client that had the number, a thread there is, values that were given, and unless
\* another patch came between or was lost the fields as they are.
JobOK(x) ==
    /\ x \in JobKind
    /\ x.pc = "dialled" => x.tenant \in everOwned[x.number]
    /\ x.pc \in {"asking", "read", "patching"} => x.at \in threadSeen
    /\ x.pc \in {"read", "patching"} => Answered(x.said)
    /\ x.pc = "read" => /\ \A f \in StateFields : Answered(x.got[f])
                        /\ ~x.moved /\ x.at \notin lostPatch => x.got = captured[x.at]
    /\ x.pc = "judging" => Ruled(x.config, x.of)

NumbersInv ==
    /\ ownerOf \in NumberRows /\ everOwned \in [Numbers -> SUBSET Tenants]
    /\ \A n \in Numbers : ownerOf[n] # NoTenant => ownerOf[n] \in everOwned[n]
    /\ inbound \subseteq [number : Numbers, tenant : Tenants] /\ NoFallbackTenant

ThreadsInv ==
    /\ threadSeen \subseteq Threads /\ lostPatch \subseteq threadSeen /\ answeredTurns \subseteq 1..MaxOps
    /\ captured \in [Threads -> ThreadFields] /\ acknowledged \in [Threads -> ThreadFields]
    /\ \A t \in Threads \ threadSeen : \A f \in StateFields : captured[t][f] = NotNoted
    /\ PatchesAddUp /\ NeverFabricated

RulesInv ==
    /\ threadRules \in RuleRows /\ everRuled \in [Tenants -> SUBSET IcpConfig] /\ verdicts \in VerdictRows
    /\ \A c \in Tenants : Ruled(threadRules[c], c)
    /\ QualifiedByARule

CallerInv ==
    /\ NumbersInv /\ ThreadsInv /\ RulesInv /\ ops \in 0..MaxOps
    /\ DOMAIN job = VoiceJobs /\ job = [j \in VoiceJobs |-> job[j]] /\ \A j \in VoiceJobs : \A x \in {job[j]} : JobOK(x)

-----------------------------------------------------------------------------
\* What each request holds.
LEMMA JobKinds ==
    ASSUME NEW x \in JobKind
    PROVE  /\ x.pc = "dialled" => x.number \in Numbers /\ x.tenant \in Tenants
           /\ x.pc \in {"asking", "read", "patching"} => x.at \in Threads /\ x.field \in StateFields
           /\ x.pc \in {"read", "patching"} => x.said \in FieldValue
           /\ x.pc = "read" => x.got \in ThreadFields /\ x.moved \in BOOLEAN
           /\ x.pc = "judging" => x.of \in Tenants /\ x.holds \in SUBSET StateFields /\ x.config \in IcpConfig
  BY DEF JobKind, Free

LEMMA FreeIsOK == JobOK(Free)
  BY DEF JobOK, JobKind, Free

\* A request is not disturbed by what only grows.
LEMMA JobsStay ==
    ASSUME \A n \in Numbers : everOwned[n] \subseteq everOwned'[n],
           \A c \in Tenants : everRuled[c] \subseteq everRuled'[c],
           threadSeen \subseteq threadSeen', answeredTurns \subseteq answeredTurns',
           captured' = captured, lostPatch' = lostPatch, NEW x, JobOK(x)
    PROVE  JobOK(x)'
  BY JobKinds DEF JobOK, Answered, Ruled

\* One request moves on.
LEMMA JobMoves ==
    ASSUME CallerInv, NEW j \in VoiceJobs, NEW new, \A x \in {new} : JobOK(x)', Becomes(j, new),
           \A n \in Numbers : everOwned[n] \subseteq everOwned'[n],
           \A c \in Tenants : everRuled[c] \subseteq everRuled'[c],
           threadSeen \subseteq threadSeen', answeredTurns \subseteq answeredTurns',
           captured' = captured, lostPatch' = lostPatch
    PROVE  /\ DOMAIN job' = VoiceJobs /\ job' = [k \in VoiceJobs |-> job'[k]]
           /\ \A k \in VoiceJobs : \A x \in {job'[k]} : JobOK(x)'
  <1>1. /\ DOMAIN job' = VoiceJobs /\ job' = [k \in VoiceJobs |-> job'[k]]
        /\ \A k \in VoiceJobs : job'[k] = IF k = j THEN new ELSE job[k]
    BY DEF CallerInv, Becomes
  <1>2. ASSUME NEW k \in VoiceJobs
        PROVE  \A x \in {job'[k]} : JobOK(x)'
    <2> TAKE x \in {job'[k]}
    <2>1. x = job'[k]
      OBVIOUS
    <2>2. JobOK(x)'
      <3>1. CASE k = j
        BY <1>1, <2>1, <3>1
      <3>2. CASE k # j
        BY <1>1, <2>1, <3>2, JobsStay DEF CallerInv
      <3> QED  BY <3>1, <3>2
    <2> QED  BY <2>1, <2>2
  <1> QED  BY <1>1, <1>2

\* The parts that do not depend on the requests.
LEMMA PartsStay ==
    /\ NumbersInv /\ UNCHANGED <<numberVars, inbound>> => NumbersInv'
    /\ ThreadsInv /\ UNCHANGED threadVars => ThreadsInv'
    /\ RulesInv /\ UNCHANGED <<threadRuleVars, verdicts>> => RulesInv'
  BY DEF NumbersInv, numberVars, NoFallbackTenant, ThreadsInv, threadVars, PatchesAddUp, NeverFabricated,
     RulesInv, threadRuleVars, Ruled, QualifiedByARule

LEMMA OpsMove == CallerInv /\ OneMore => ops' \in 0..MaxOps /\ ops + 1 \in 1..MaxOps /\ ops' = ops + 1
  <1> SUFFICES ASSUME CallerInv, OneMore
               PROVE  ops' \in 0..MaxOps /\ ops + 1 \in 1..MaxOps /\ ops' = ops + 1
    OBVIOUS
  <1>1. ops \in 0..MaxOps /\ MaxOps \in Nat /\ ops < MaxOps /\ ops' = ops + 1
    BY CallerAssumption DEF CallerInv, OneMore
  <1> QED  BY ONLY <1>1

\* A step of one request that changes nothing but the request.
LEMMA OnlyTheJob ==
    ASSUME CallerInv, NEW j \in VoiceJobs, NEW new, JobOK(new), Becomes(j, new), ops' \in 0..MaxOps,
           UNCHANGED <<numberVars, inbound, threadVars, threadRuleVars, verdicts>>
    PROVE  CallerInv'
  BY JobsStay, JobMoves, PartsStay DEF numberVars, threadVars, threadRuleVars, CallerInv

\* A step that moves no request.
LEMMA NoJob ==
    ASSUME CallerInv, job' = job,
           \A n \in Numbers : everOwned[n] \subseteq everOwned'[n],
           \A c \in Tenants : everRuled[c] \subseteq everRuled'[c],
           threadSeen \subseteq threadSeen', answeredTurns \subseteq answeredTurns',
           captured' = captured, lostPatch' = lostPatch
    PROVE  /\ DOMAIN job' = VoiceJobs /\ job' = [k \in VoiceJobs |-> job'[k]]
           /\ \A k \in VoiceJobs : \A x \in {job'[k]} : JobOK(x)'
  <1>1. ASSUME NEW k \in VoiceJobs
        PROVE  \A x \in {job'[k]} : JobOK(x)'
    <2> TAKE x \in {job'[k]}
    <2>2. JobOK(x)
      BY DEF CallerInv
    <2> QED  BY <2>2, JobsStay
  <1> QED  BY <1>1 DEF CallerInv

LEMMA NumberRegistered ==
    ASSUME CallerInv, NEW c \in Tenants, NEW n \in Numbers, RegisterNumber(c, n)
    PROVE  CallerInv'
  BY PartsStay, NoJob, OpsMove DEF CallerInv, RegisterNumber, NumbersInv, NumberRows, NoFallbackTenant, threadVars,
     threadRuleVars

LEMMA ThreadMade ==
    ASSUME CallerInv, NEW t \in Threads, GetOrCreateThread(t)
    PROVE  CallerInv'
  BY PartsStay, NoJob DEF CallerInv, GetOrCreateThread, ThreadsInv, PatchesAddUp, NeverFabricated, numberVars,
     threadRuleVars

LEMMA RulesSet ==
    ASSUME CallerInv, NEW c \in Tenants, NEW mode \in {"all", "any"}, NEW on \in SUBSET StateFields, SetRules(c, mode, on)
    PROVE  CallerInv'
  <1> DEFINE new == [mode |-> mode, on |-> on]
  <1>0. NumbersInv /\ ThreadsInv /\ RulesInv
    BY DEF CallerInv
  <1>1. /\ threadRules' = [threadRules EXCEPT ![c] = new] /\ everRuled' = [everRuled EXCEPT ![c] = everRuled[c] \cup {new}]
        /\ UNCHANGED <<numberVars, inbound>> /\ UNCHANGED threadVars /\ verdicts' = verdicts /\ job' = job
    BY DEF SetRules
  <1>2. new \in IcpConfig
    BY DEF IcpConfig
  <1> HIDE DEF new
  <1>3. /\ threadRules' \in RuleRows /\ everRuled' \in [Tenants -> SUBSET IcpConfig]
        /\ \A d \in Tenants : everRuled[d] \subseteq everRuled'[d]
    BY <1>0, <1>1, <1>2 DEF RulesInv, RuleRows
  <1>4. \A d \in Tenants : threadRules'[d].on # {} => threadRules'[d] \in everRuled'[d]
    BY <1>0, <1>1, <1>3 DEF RulesInv, RuleRows, Ruled
  <1>5. QualifiedByARule'
    BY <1>0, <1>1, <1>3 DEF RulesInv, QualifiedByARule, VerdictRows, Verdict
  <1>6. RulesInv'
    BY <1>0, <1>1, <1>3, <1>4, <1>5 DEF RulesInv, Ruled
  <1>7. NumbersInv' /\ ThreadsInv'
    BY <1>0, <1>1, PartsStay
  <1>8. /\ DOMAIN job' = VoiceJobs /\ job' = [k \in VoiceJobs |-> job'[k]] /\ \A k \in VoiceJobs : \A x \in {job'[k]} : JobOK(x)'
    BY <1>1, <1>3, NoJob DEF threadVars, numberVars
  <1>9. ops' \in 0..MaxOps
    BY OpsMove DEF SetRules
  <1> QED  BY <1>6, <1>7, <1>8, <1>9 DEF CallerInv

LEMMA NumberResolved ==
    ASSUME CallerInv, NEW j \in VoiceJobs, NEW n \in Numbers, ResolveNumber(j, n)
    PROVE  CallerInv'
  <1> DEFINE new == [pc |-> "dialled", number |-> n, tenant |-> ownerOf[n]]
  <1>1. ownerOf[n] \in Tenants /\ ownerOf[n] \in everOwned[n]
    BY DEF ResolveNumber, CallerInv, NumbersInv, NumberRows
  <1>2. JobOK(new)
    BY <1>1 DEF JobOK, JobKind
  <1>3. Becomes(j, new) /\ OneMore /\ UNCHANGED <<numberVars, inbound, threadVars, threadRuleVars, verdicts>>
    BY DEF ResolveNumber
  <1> HIDE DEF new
  <1> QED  BY <1>2, <1>3, OpsMove, OnlyTheJob

LEMMA CallStarted ==
    ASSUME CallerInv, NEW j \in VoiceJobs, StartInboundCall(j)
    PROVE  CallerInv'
  <1>0. NumbersInv /\ ThreadsInv /\ RulesInv /\ JobOK(job[j])
    BY DEF CallerInv
  <1>1. job[j].number \in Numbers /\ job[j].tenant \in Tenants /\ job[j].tenant \in everOwned[job[j].number]
    BY <1>0, JobKinds DEF JobOK, StartInboundCall
  <1>2. /\ Becomes(j, Free) /\ inbound' = inbound \cup {[number |-> job[j].number, tenant |-> job[j].tenant]}
        /\ ops' = ops /\ UNCHANGED numberVars /\ UNCHANGED threadVars /\ UNCHANGED <<threadRuleVars, verdicts>>
    BY DEF StartInboundCall
  <1>3. NumbersInv'
    BY <1>0, <1>1, <1>2 DEF NumbersInv, numberVars, NoFallbackTenant
  <1>4. ThreadsInv' /\ RulesInv'
    BY <1>0, <1>2, PartsStay
  <1>5. \A x \in {Free} : JobOK(x)'
    BY DEF JobOK, JobKind, Free
  <1>6. /\ DOMAIN job' = VoiceJobs /\ job' = [k \in VoiceJobs |-> job'[k]] /\ \A k \in VoiceJobs : \A x \in {job'[k]} : JobOK(x)'
    BY <1>2, <1>5, JobMoves DEF numberVars, threadVars, threadRuleVars
  <1> QED  BY <1>2, <1>3, <1>4, <1>6 DEF CallerInv

LEMMA PatchStarted ==
    ASSUME CallerInv, NEW j \in VoiceJobs, NEW t \in Threads, NEW f \in StateFields, StartPatch(j, t, f) \/ StartLookup(j, t, f)
    PROVE  CallerInv'
  <1>1. OneMore /\ UNCHANGED <<numberVars, inbound, threadVars, threadRuleVars, verdicts>> /\ t \in threadSeen
    BY DEF StartPatch, StartLookup, threadVars
  <1>2. CASE StartLookup(j, t, f)
    <2> DEFINE new == [pc |-> "asking", at |-> t, field |-> f]
    <2>1. JobOK(new)
      BY <1>1 DEF JobOK, JobKind
    <2>2. Becomes(j, new)
      BY <1>2 DEF StartLookup
    <2> HIDE DEF new
    <2> QED  BY <1>1, <2>1, <2>2, OpsMove, OnlyTheJob
  <1>3. CASE StartPatch(j, t, f)
    <2> DEFINE v == [val |-> ops + 1, from |-> "caller"]
               new == [pc |-> "patching", at |-> t, field |-> f, said |-> v]
    <2>1. ops + 1 \in 0..MaxOps
      BY <1>1, OpsMove, CallerAssumption
    <2>2. v \in FieldValue /\ Answered(v)
      BY <2>1 DEF FieldValue, Answered
    <2>3. Becomes(j, new)
      BY <1>3 DEF StartPatch
    <2> HIDE DEF v
    <2>4. JobOK(new)
      BY <1>1, <2>2 DEF JobOK, JobKind
    <2> HIDE DEF new
    <2> QED  BY <1>1, <2>3, <2>4, OpsMove, OnlyTheJob
  <1> QED  BY <1>2, <1>3

LEMMA FieldsRead ==
    ASSUME CallerInv, NEW j \in VoiceJobs, ReadFields(j)
    PROVE  CallerInv'
  <1> DEFINE x == job[j]
             new == [pc |-> "read", at |-> x.at, field |-> x.field, said |-> x.said, got |-> captured[x.at],
                     moved |-> FALSE]
  <1>1. x \in JobKind /\ JobOK(x) /\ x.pc = "patching"
    BY DEF CallerInv, JobOK, ReadFields
  <1>2. x.at \in Threads /\ x.field \in StateFields /\ x.said \in FieldValue /\ x.at \in threadSeen /\ Answered(x.said)
    BY <1>1, JobKinds DEF JobOK
  <1>3. captured[x.at] \in ThreadFields /\ \A f \in StateFields : Answered(captured[x.at][f])
    BY <1>2 DEF CallerInv, ThreadsInv, NeverFabricated, Answered
  <1>4. Becomes(j, new) /\ ops' = ops /\ UNCHANGED <<numberVars, inbound, threadVars, threadRuleVars, verdicts>>
    BY DEF ReadFields
  <1> HIDE DEF x
  <1>5. JobOK(new)
    BY <1>2, <1>3 DEF JobOK, JobKind
  <1>6. ops' \in 0..MaxOps
    BY <1>4 DEF CallerInv
  <1> HIDE DEF new
  <1> QED  BY <1>4, <1>5, <1>6, OnlyTheJob

LEMMA SystemAnswered ==
    ASSUME CallerInv, NEW j \in VoiceJobs, SystemAnswers(j)
    PROVE  CallerInv'
  <1> DEFINE r == job[j]
             v == [val |-> ops + 1, from |-> "system"]
             new == [pc |-> "patching", at |-> r.at, field |-> r.field, said |-> v]
  <1>0. NumbersInv /\ ThreadsInv /\ RulesInv
    BY DEF CallerInv
  <1>1. r \in JobKind /\ JobOK(r) /\ r.pc = "asking"
    BY DEF CallerInv, JobOK, SystemAnswers
  <1>2. r.at \in Threads /\ r.field \in StateFields /\ r.at \in threadSeen
    BY <1>1, JobKinds DEF JobOK
  <1>3. /\ Becomes(j, new) /\ answeredTurns' = answeredTurns \cup {ops + 1} /\ OneMore
        /\ UNCHANGED <<numberVars, inbound>> /\ UNCHANGED <<threadSeen, captured, acknowledged, lostPatch>>
        /\ UNCHANGED <<threadRuleVars, verdicts>>
    BY DEF SystemAnswers, Fold
  <1>4. ops + 1 \in 1..MaxOps /\ ops + 1 \in 0..MaxOps /\ ops' \in 0..MaxOps
    BY <1>3, OpsMove, CallerAssumption
  <1>5. v \in FieldValue /\ v.val \in answeredTurns'
    BY <1>3, <1>4 DEF FieldValue
  <1> HIDE DEF r, v
  <1>6. \A x \in {new} : JobOK(x)'
    <2> TAKE x \in {new}
    <2>1. x \in JobKind /\ x.pc = "patching" /\ x.at = r.at /\ x.said = v
      BY <1>2, <1>5 DEF JobKind
    <2> HIDE DEF new
    <2> QED  BY <1>2, <1>3, <1>5, <2>1 DEF JobOK, Answered
  <1> HIDE DEF new
  <1>7. /\ DOMAIN job' = VoiceJobs /\ job' = [k \in VoiceJobs |-> job'[k]] /\ \A k \in VoiceJobs : \A x \in {job'[k]} : JobOK(x)'
    BY <1>3, <1>6, JobMoves DEF numberVars, threadRuleVars
  <1>8. ThreadsInv'
    BY <1>0, <1>3, <1>4 DEF ThreadsInv, PatchesAddUp, NeverFabricated
  <1>9. NumbersInv' /\ RulesInv'
    BY <1>0, <1>3, PartsStay
  <1> QED  BY <1>4, <1>7, <1>8, <1>9 DEF CallerInv

LEMMA RulesRead ==
    ASSUME CallerInv, NEW j \in VoiceJobs, NEW c \in Tenants, NEW holds \in SUBSET StateFields, ReadRules(j, c, holds)
    PROVE  CallerInv'
  <1> DEFINE new == [pc |-> "judging", of |-> c, holds |-> holds, config |-> threadRules[c]]
  <1>1. threadRules[c] \in IcpConfig /\ Ruled(threadRules[c], c)
    BY DEF CallerInv, RulesInv, RuleRows
  <1>2. JobOK(new)
    BY <1>1 DEF JobOK, JobKind
  <1>3. Becomes(j, new) /\ OneMore /\ UNCHANGED <<numberVars, inbound, threadVars, threadRuleVars, verdicts>>
    BY DEF ReadRules
  <1> HIDE DEF new
  <1> QED  BY <1>2, <1>3, OpsMove, OnlyTheJob

LEMMA Judged ==
    ASSUME CallerInv, NEW j \in VoiceJobs, Qualify(j)
    PROVE  CallerInv'
  <1> DEFINE r == job[j]
             b == EvaluateIcp(r.config, r.holds)
             v == [tenant |-> r.of, holds |-> r.holds, qualified |-> b]
  <1>0. NumbersInv /\ ThreadsInv /\ RulesInv
    BY DEF CallerInv
  <1>1. r \in JobKind /\ JobOK(r) /\ r.pc = "judging"
    BY DEF CallerInv, JobOK, Qualify
  <1>2. r.of \in Tenants /\ r.holds \in SUBSET StateFields /\ r.config \in IcpConfig /\ Ruled(r.config, r.of)
    BY <1>1, JobKinds DEF JobOK
  <1>3. /\ Becomes(j, Free) /\ verdicts' = verdicts \cup {v} /\ ops' = ops
        /\ UNCHANGED <<numberVars, inbound>> /\ UNCHANGED threadVars /\ UNCHANGED threadRuleVars
    BY DEF Qualify
  <1>4. b \in BOOLEAN /\ (b => /\ r.config.on # {} /\ r.holds \cap r.config.on # {}
                               /\ r.config.mode = "all" => r.config.on \subseteq r.holds)
    BY <1>2 DEF EvaluateIcp, IcpConfig
  <1>5. b => r.config \in everRuled[r.of]
    BY <1>2, <1>4 DEF Ruled
  <1> HIDE DEF r, b
  <1>6. v \in Verdict /\ v.tenant = r.of /\ v.holds = r.holds /\ v.qualified = b
    BY <1>2, <1>4 DEF Verdict
  <1> HIDE DEF v
  <1>7. RulesInv'
    BY <1>3, <1>4, <1>5, <1>6, <1>0 DEF threadRuleVars, RulesInv, QualifiedByARule, VerdictRows, Ruled
  <1>8. NumbersInv' /\ ThreadsInv'
    BY <1>0, <1>3, PartsStay
  <1>9. \A x \in {Free} : JobOK(x)'
    BY DEF JobOK, JobKind, Free
  <1>10. /\ DOMAIN job' = VoiceJobs /\ job' = [k \in VoiceJobs |-> job'[k]] /\ \A k \in VoiceJobs : \A x \in {job'[k]} : JobOK(x)'
    BY <1>3, <1>9, JobMoves DEF numberVars, threadVars, threadRuleVars
  <1> QED  BY <1>3, <1>7, <1>8, <1>10 DEF CallerInv

\* The merged document is written over what there is: those who read before are behind.
LEMMA FieldsWritten ==
    ASSUME CallerInv, NEW j \in VoiceJobs, WriteFields(j)
    PROVE  CallerInv'
  <1> DEFINE r == job[j]
             doc == MergeThreadFields(r.got, r.field, r.said)
             ack == [acknowledged[r.at] EXCEPT ![r.field] = r.said]
  <1>0. NumbersInv /\ ThreadsInv /\ RulesInv
    BY DEF CallerInv
  <1>1. r \in JobKind /\ JobOK(r) /\ r.pc = "read"
    BY DEF CallerInv, JobOK, WriteFields
  <1>2. /\ r.at \in Threads /\ r.field \in StateFields /\ r.said \in FieldValue /\ r.got \in ThreadFields
        /\ r.moved \in BOOLEAN /\ r.at \in threadSeen /\ Answered(r.said) /\ \A f \in StateFields : Answered(r.got[f])
        /\ ~r.moved /\ r.at \notin lostPatch => r.got = captured[r.at]
    BY <1>1, JobKinds DEF JobOK
  <1>3. /\ captured' = [captured EXCEPT ![r.at] = doc]
        /\ acknowledged' = [acknowledged EXCEPT ![r.at] = ack]
        /\ lostPatch' = (IF r.moved THEN lostPatch \cup {r.at} ELSE lostPatch)
        /\ job' = [k \in VoiceJobs |->
                     IF k = j THEN Free
                     ELSE IF job[k].pc = "read" /\ job[k].at = r.at THEN [job[k] EXCEPT !.moved = TRUE]
                     ELSE job[k]]
        /\ ops' = ops /\ UNCHANGED <<numberVars, inbound>> /\ threadSeen' = threadSeen
        /\ answeredTurns' = answeredTurns /\ UNCHANGED <<threadRuleVars, verdicts>>
    BY DEF WriteFields
  <1> HIDE DEF r
  <1>4. /\ doc \in ThreadFields /\ \A f \in StateFields : Answered(doc[f])
        /\ ack \in ThreadFields
        /\ r.got = acknowledged[r.at] => doc = ack
    BY <1>0, <1>2 DEF ThreadsInv, MergeThreadFields, ThreadFields
  <1> HIDE DEF doc, ack
  <1>5. ThreadsInv'
    <2>1. /\ captured' \in [Threads -> ThreadFields] /\ acknowledged' \in [Threads -> ThreadFields]
          /\ lostPatch' \subseteq threadSeen' /\ lostPatch \subseteq lostPatch'
      BY <1>0, <1>2, <1>3, <1>4 DEF ThreadsInv
    <2>2. /\ captured'[r.at] = doc /\ acknowledged'[r.at] = ack
          /\ \A t \in Threads : t # r.at => captured'[t] = captured[t] /\ acknowledged'[t] = acknowledged[t]
      BY <1>0, <1>2, <1>3 DEF ThreadsInv
    <2>3. r.at \notin lostPatch' => doc = ack
      <3>1. HAVE r.at \notin lostPatch'
      <3>2. ~r.moved /\ r.at \notin lostPatch
        BY <1>3, <3>1
      <3>3. captured[r.at] = acknowledged[r.at]
        BY <1>0, <1>2, <3>2 DEF ThreadsInv, PatchesAddUp
      <3> QED  BY <1>2, <1>4, <3>2, <3>3
    <2>4. PatchesAddUp'
      BY <1>0, <2>1, <2>2, <2>3 DEF ThreadsInv, PatchesAddUp
    <2>5. NeverFabricated'
      BY <1>0, <1>3, <1>4, <2>2 DEF ThreadsInv, NeverFabricated, Answered
    <2>6. \A t \in Threads \ threadSeen' : \A f \in StateFields : captured'[t][f] = NotNoted
      BY <1>0, <1>2, <1>3, <2>2 DEF ThreadsInv
    <2> QED  BY <1>0, <1>3, <2>1, <2>4, <2>5, <2>6 DEF ThreadsInv
  <1>6. NumbersInv' /\ RulesInv'
    BY <1>0, <1>3, PartsStay
  <1>7. DOMAIN job' = VoiceJobs /\ job' = [k \in VoiceJobs |-> job'[k]]
    BY <1>3
  <1>8. ASSUME NEW k \in VoiceJobs
        PROVE  \A x \in {job'[k]} : JobOK(x)'
    <2> TAKE y \in {job'[k]}
    <2>1. y = job'[k]
      OBVIOUS
    <2>2. PICK x : x = job[k]
      OBVIOUS
    <2>3. JobOK(x) /\ x \in JobKind
      BY <2>2 DEF CallerInv, JobOK
    <2>4. \A v : Answered(v) => Answered(v)'
      BY <1>3 DEF Answered
    <2>5. \A t \in Threads : t # r.at => captured'[t] = captured[t] /\ (t \notin lostPatch' => t \notin lostPatch)
      BY <1>0, <1>3 DEF ThreadsInv
    <2>6. /\ everOwned' = everOwned /\ everRuled' = everRuled /\ threadSeen' = threadSeen
      BY <1>3 DEF numberVars, threadRuleVars
    <2>7. JobOK(y)'
      <3>1. CASE k = j
        BY <1>3, <2>1, <3>1 DEF JobOK, JobKind, Free
      <3>2. CASE k # j /\ x.pc = "read" /\ x.at = r.at
        <4>1. y = [x EXCEPT !.moved = TRUE]
          BY <1>3, <2>1, <2>2, <3>2
        <4>2. x \in [pc : {"read"}, at : Threads, field : StateFields, said : FieldValue, got : ThreadFields, moved : BOOLEAN]
          BY <2>3, <3>2 DEF JobKind, Free
        <4>3. /\ y \in JobKind /\ y.pc = "read" /\ y.at = x.at /\ y.said = x.said /\ y.got = x.got /\ y.moved
          BY <4>1, <4>2 DEF JobKind
        <4>4. Answered(x.said)' /\ \A f \in StateFields : Answered(x.got[f])'
          BY <2>3, <2>4, <3>2 DEF JobOK
        <4>5. x.at \in threadSeen'
          BY <2>3, <2>6, <3>2 DEF JobOK
        <4> QED  BY <4>3, <4>4, <4>5 DEF JobOK
      <3>3. CASE k # j /\ ~(x.pc = "read" /\ x.at = r.at)
        <4>1. y = x
          BY <1>3, <2>1, <2>2, <3>3
        <4>2. x.pc = "read" => /\ \A f \in StateFields : Answered(x.got[f])'
                               /\ ~x.moved /\ x.at \notin lostPatch' => x.got = captured'[x.at]
          BY <2>3, <2>4, <2>5, <3>3, JobKinds DEF JobOK
        <4>3. x.pc \in {"read", "patching"} => Answered(x.said)'
          BY <2>3, <2>4 DEF JobOK
        <4>4. x.pc = "judging" => Ruled(x.config, x.of)'
          BY <2>3, <2>6 DEF JobOK, Ruled
        <4> QED  BY <2>3, <2>6, <4>1, <4>2, <4>3, <4>4 DEF JobOK
      <3> QED  BY <3>1, <3>2, <3>3
    <2> QED  BY <2>7
  <1>9. ops' \in 0..MaxOps
    BY <1>3 DEF CallerInv
  <1> QED  BY <1>5, <1>6, <1>7, <1>8, <1>9 DEF CallerInv

LEMMA CallerStep == CallerInv /\ [CallerNext]_callerVars => CallerInv'
  <1> SUFFICES ASSUME CallerInv, [CallerNext]_callerVars
               PROVE  CallerInv'
    OBVIOUS
  <1>1. ASSUME NEW j \in VoiceJobs, LookupUnknown(j)
        PROVE  CallerInv'
    BY <1>1, FreeIsOK, OnlyTheJob DEF LookupUnknown, CallerInv
  <1>2. CASE UNCHANGED callerVars
    BY <1>2, PartsStay, NoJob DEF CallerInv, callerVars, numberVars, threadVars, threadRuleVars
  <1> QED
    BY <1>1, <1>2, NumberRegistered, ThreadMade, RulesSet, NumberResolved, CallStarted, PatchStarted, FieldsRead,
       FieldsWritten, SystemAnswered, RulesRead, Judged DEF CallerNext

LEMMA CallerStarts == CallerInit => CallerInv
  <1> SUFFICES ASSUME CallerInit
               PROVE  CallerInv
    OBVIOUS
  <1>1. /\ ownerOf = [n \in Numbers |-> NoTenant] /\ everOwned = [n \in Numbers |-> {}]
        /\ inbound = {} /\ threadSeen = {}
        /\ captured = [t \in Threads |-> [f \in StateFields |-> NotNoted]] /\ acknowledged = captured
        /\ lostPatch = {} /\ answeredTurns = {}
        /\ threadRules = [c \in Tenants |-> NoRules] /\ everRuled = [c \in Tenants |-> {}] /\ verdicts = {}
        /\ job = [j \in VoiceJobs |-> Free] /\ ops = 0
    BY DEF CallerInit
  <1>2. NumbersInv
    BY <1>1 DEF NumbersInv, NumberRows, NoFallbackTenant
  <1>3. ThreadsInv
    BY CallerAssumption, <1>1 DEF NotNoted, FieldValue, ThreadFields, ThreadsInv, PatchesAddUp, NeverFabricated
  <1>4. RulesInv
    BY <1>1 DEF RulesInv, RuleRows, IcpConfig, NoRules, Ruled, QualifiedByARule, VerdictRows
  <1>5. ops \in 0..MaxOps
    BY <1>1, CallerAssumption
  <1> QED  BY <1>1, <1>2, <1>3, <1>4, <1>5, FreeIsOK DEF CallerInv

LEMMA CallerKeeps == CallerInv => CallerTypeOK /\ PatchesAddUp /\ QualifiedByARule /\ NoFallbackTenant /\ NeverFabricated
  BY DEF CallerInv, JobOK, CallerTypeOK, NumbersInv, ThreadsInv, RulesInv, JobKind

-----------------------------------------------------------------------------
(* The rules of a channel, and its health.                                   *)

EditKind ==
    {NoEdit, [pc |-> "count"], [pc |-> "seed"]}
      \cup [pc : {"read"}, rule : Rules, patch : Patches]
      \cup [pc : {"write"}, rule : Rules, patch : Patches, base : RuleRow]
ToldRow == [type : {Holiday, OffHours}, enabled : BOOLEAN, start : Parts]
WritesTo(o, r) == edit[o].pc = "write" /\ edit[o].rule = r
Seeders == {o \in Operators : edit[o] = [pc |-> "seed"]}

\* Of a rule whose edits do not overlap one edit at most is between its read and its write, and it
\* read the rule as it is.
RowsInv ==
    /\ rules \in [Rules -> RuleRow \cup {NoRule}] /\ told \in [Rules -> ToldRow] /\ mixed \subseteq Rules
    /\ edit \in [Operators -> EditKind]
    /\ \A r \in Rules \ mixed :
         /\ \A o \in Operators : WritesTo(o, r) => edit[o].base = rules[r]
         /\ \A o, p \in Operators : WritesTo(o, r) /\ WritesTo(p, r) => o = p
    /\ RuleEditsAreKept

\* Whoever is about to seed met an empty table, and has a batch to its name at most.
SeedInv ==
    /\ seeding \in [batches : Nat, met : BOOLEAN]
    /\ seeding.batches + Cardinality(Seeders) <= Cardinality(Operators)
    /\ Present = {} => seeding.batches = 0
    /\ ~seeding.met => /\ seeding.batches <= 1
                       /\ Seeders # {} => seeding.batches = 0
                       /\ \A o, p \in Seeders : o = p

ReplyInv ==
    /\ answered = NotAnswered \/ answered \in [rule : RuleRow, at : Moments, all : SUBSET RuleRow]
    /\ HolidayComesFirst

HealthInv ==
    /\ traffic \in [ever : BOOLEAN, recent : BOOLEAN]
    /\ health = NoEdit \/ health \in HealthCheck
    /\ health.pc = "seen" /\ health.last = "recent" => traffic.recent
    /\ RecentIsCounted
    /\ ruleOps \in 0..MaxRuleOps

RuleInv == RowsInv /\ SeedInv /\ ReplyInv /\ HealthInv

-----------------------------------------------------------------------------
\* What an edit under way holds.
LEMMA EditKinds ==
    ASSUME NEW x \in EditKind
    PROVE  /\ x.pc \in {"none", "count", "seed", "read", "write"}
           /\ x.pc = "seed" => x = [pc |-> "seed"]
           /\ x.pc = "count" => x = [pc |-> "count"]
           /\ x.pc \in {"read", "write"} => x.rule \in Rules /\ x.patch \in Patches /\ x # [pc |-> "seed"]
           /\ x.pc = "write" => x.base \in RuleRow
  BY DEF EditKind, NoEdit

LEMMA RowKinds ==
    /\ NoRule \notin RuleRow
    /\ \A w \in RuleRow : Says(w) \in ToldRow
    /\ SeedRules \subseteq RuleRow /\ SeedRules # {}
  <1>1. NoRule \notin RuleRow
    BY DEF NoRule, RuleRow, Holiday, OffHours
  <1>2. \A w \in RuleRow : Says(w) \in ToldRow
    BY DEF Says, RuleRow, ToldRow
  <1>3. SeedRules \subseteq RuleRow /\ SeedRules # {}
    BY DEF Days, Parts, SeedRules, RuleRow
  <1> QED  BY <1>1, <1>2, <1>3

\* An edit that moves to something that does not write.
LEMMA EditMoves ==
    ASSUME RowsInv, NEW o \in Operators, NEW new \in EditKind, new.pc # "write", edit' = [edit EXCEPT ![o] = new],
           rules' = rules, told' = told, mixed' = mixed
    PROVE  RowsInv'
  BY DEF RowsInv, WritesTo, RuleEditsAreKept, Present

\* The rule is read: another edit that is to write it now overlaps.
LEMMA RuleFound ==
    ASSUME RowsInv, NEW o \in Operators, FindRule(o)
    PROVE  RowsInv'
  <1> DEFINE r == edit[o].rule
             w == [pc |-> "write", rule |-> r, patch |-> edit[o].patch, base |-> rules[r]]
  <1>1. edit[o] \in EditKind /\ edit[o].pc = "read"
    BY DEF RowsInv, FindRule
  <1>2. r \in Rules /\ edit[o].patch \in Patches
    BY <1>1, EditKinds
  <1>3. /\ edit' = [edit EXCEPT ![o] = IF r \notin Present THEN NoEdit ELSE w]
        /\ mixed' = (IF \E p \in Operators : WritesTo(p, r) THEN mixed \cup {r} ELSE mixed)
        /\ rules' = rules /\ told' = told
    BY DEF FindRule, WritesTo
  <1>4. /\ mixed' \subseteq Rules /\ mixed \subseteq mixed'
        /\ r \notin mixed' => \A p \in Operators : ~WritesTo(p, r)
    BY <1>2, <1>3 DEF RowsInv
  <1>5. RuleEditsAreKept'
    BY <1>3, <1>4 DEF RowsInv, RuleEditsAreKept, Present
  <1>6. CASE r \notin Present
    BY <1>3, <1>6, <1>4, <1>5 DEF NoEdit, EditKind, RowsInv, WritesTo
  <1>7. CASE r \in Present
    <2>1. rules[r] \in RuleRow
      BY <1>2, <1>7 DEF Present, RowsInv
    <2>2. w \in EditKind /\ w.pc = "write" /\ w.rule = r /\ w.base = rules[r]
      BY <1>2, <2>1 DEF EditKind
    <2>3. edit' = [edit EXCEPT ![o] = w]
      BY <1>3, <1>7
    <2> HIDE DEF w, r
    <2>4. edit' \in [Operators -> EditKind] /\ \A p \in Operators : edit'[p] = IF p = o THEN w ELSE edit[p]
      BY <2>2, <2>3 DEF RowsInv
    <2>5. \A s : \A p \in Operators : p # o => ((WritesTo(p, s)' <=> WritesTo(p, s)) /\ edit'[p] = edit[p])
      BY <2>4 DEF WritesTo
    <2>6. \A s : WritesTo(o, s)' => s = r
      BY <2>2, <2>4 DEF WritesTo
    <2>7. ASSUME NEW s \in Rules, s \notin mixed', NEW p \in Operators, WritesTo(p, s)'
          PROVE  edit'[p].base = rules'[s]
      BY <1>3, <2>2, <2>4, <2>6, <2>7, <1>4, <2>5 DEF RowsInv
    <2>8. ASSUME NEW s \in Rules, s \notin mixed', NEW p \in Operators, NEW q \in Operators, WritesTo(p, s)', WritesTo(q, s)'
          PROVE  p = q
      BY <1>4, <2>5, <2>8, <2>6 DEF RowsInv
    <2> QED  BY <1>3, <1>4, <1>5, <2>4, <2>7, <2>8 DEF RowsInv
  <1> QED  BY <1>6, <1>7

\* What the write makes of a rule: what the edit says, and of the rest what was read.
LEMMA Merged ==
    ASSUME NEW base \in RuleRow, NEW patch \in Patches, NEW legacy \in BOOLEAN, NEW new, NEW t \in ToldRow,
           new = IF legacy THEN RuleDataLegacy(Merge(base, patch)) ELSE RuleData(Merge(base, patch))
    PROVE  /\ new \in RuleRow
           /\ Merge(t, patch) \in ToldRow
           /\ Says(base) = t => Says(new) = Merge(t, patch)
  <1> DEFINE m == Merge(base, patch)
             u == Merge(t, patch)
  <1>1. 0 \in Days /\ 0 \in Parts
    BY DEF Days, Parts
  <1>2. m \in RuleRow
    BY <1>1 DEF Merge, RuleRow, Patches
  <1>3. u \in ToldRow
    BY <1>1 DEF Merge, ToldRow, Patches
  <1>4. Says(base) = t => m.type = u.type /\ m.enabled = u.enabled /\ m.start = u.start
    BY DEF Merge, Says, RuleRow, ToldRow
  <1>5. new = IF legacy THEN RuleDataLegacy(m) ELSE RuleData(m)
    OBVIOUS
  <1> HIDE DEF m, u
  <1>6. new \in RuleRow /\ new.type = m.type /\ new.enabled = m.enabled /\ new.start = m.start
    <2>1. CASE legacy
      <3> DEFINE d == IF m.type = OffHours THEN m.day ELSE AnyDay
      <3>1. new = [m EXCEPT !.day = d, !.new = TRUE]
        BY <1>5, <2>1 DEF RuleDataLegacy
      <3>2. d \in Days \cup {AnyDay}
        BY <1>2 DEF RuleRow
      <3> HIDE DEF d
      <3> QED  BY <1>2, <3>1, <3>2 DEF RuleRow
    <2>2. CASE ~legacy
      <3> DEFINE d == IF m.type = OffHours THEN m.day ELSE AnyDay
                 f == IF m.type = Holiday THEN m.from ELSE 0
                 g == IF m.type = Holiday THEN m.to ELSE 0
      <3>1. new = [m EXCEPT !.day = d, !.from = f, !.to = g, !.new = TRUE]
        BY <1>5, <2>2 DEF RuleData
      <3>2. d \in Days \cup {AnyDay} /\ f \in Days /\ g \in Days
        BY <1>1, <1>2 DEF RuleRow
      <3> HIDE DEF d, f, g
      <3> QED  BY <1>2, <3>1, <3>2 DEF RuleRow
    <2> QED  BY <2>1, <2>2
  <1>7. u = [type |-> u.type, enabled |-> u.enabled, start |-> u.start]
    BY <1>3 DEF ToldRow
  <1>8. Says(base) = t => Says(new) = u
    BY <1>4, <1>6, <1>7 DEF Says
  <1> QED  BY <1>3, <1>6, <1>8 DEF u

LEMMA RuleWritten ==
    ASSUME RowsInv, NEW o \in Operators, NEW legacy \in BOOLEAN, WriteRule(o, legacy)
    PROVE  RowsInv'
  <1> DEFINE e == edit[o]
             new == IF legacy THEN RuleDataLegacy(Merge(e.base, e.patch)) ELSE RuleData(Merge(e.base, e.patch))
             say == Merge(told[e.rule], e.patch)
  <1>1. e \in EditKind /\ e.pc = "write"
    BY DEF RowsInv, WriteRule
  <1>2. e.rule \in Rules /\ e.patch \in Patches /\ e.base \in RuleRow
    BY <1>1, EditKinds
  <1>3. NoEdit \in EditKind /\ NoEdit.pc = "none"
    BY DEF NoEdit, EditKind
  <1>4. edit' = [edit EXCEPT ![o] = NoEdit] /\ mixed' = mixed
    BY DEF WriteRule
  <1>5. CASE e.rule \notin Present
    BY <1>3, <1>4, <1>5, EditMoves DEF WriteRule
  <1>6. CASE e.rule \in Present
    <2>1. rules' = [rules EXCEPT ![e.rule] = new] /\ told' = [told EXCEPT ![e.rule] = say]
      BY <1>6 DEF WriteRule
    <2>2. told[e.rule] \in ToldRow
      BY <1>2 DEF RowsInv
    <2>3. new \in RuleRow /\ say \in ToldRow /\ (Says(e.base) = told[e.rule] => Says(new) = say)
      BY <1>2, <2>2, Merged
    <2>4. WritesTo(o, e.rule)
      BY <1>1 DEF WritesTo
    <2>5. e.rule \notin mixed => Says(new) = say
      BY <1>2, <1>6, <2>3, <2>4 DEF RowsInv, RuleEditsAreKept
    <2> HIDE DEF e, new, say
    <2>6. /\ edit' \in [Operators -> EditKind] /\ \A p \in Operators : edit'[p] = IF p = o THEN NoEdit ELSE edit[p]
          /\ rules' \in [Rules -> RuleRow \cup {NoRule}] /\ told' \in [Rules -> ToldRow]
          /\ rules'[e.rule] = new /\ told'[e.rule] = say
          /\ \A r \in Rules : r # e.rule => rules'[r] = rules[r] /\ told'[r] = told[r]
      BY <1>2, <1>3, <1>4, <2>1, <2>3 DEF RowsInv
    <2>7. \A s : \A p \in Operators : WritesTo(p, s)' => p # o /\ WritesTo(p, s) /\ edit'[p] = edit[p]
      BY <1>3, <2>6 DEF WritesTo
    <2>8. \A s \in Rules \ mixed' : \A p \in Operators : WritesTo(p, s)' => s # e.rule
      BY <1>2, <1>4, <2>4, <2>7 DEF RowsInv
    <2>9. \A s \in Rules \ mixed' : \A p \in Operators : WritesTo(p, s)' => edit'[p].base = rules'[s]
      BY <1>4, <2>6, <2>7, <2>8 DEF RowsInv
    <2>10. \A s \in Rules \ mixed' : \A p, q \in Operators : WritesTo(p, s)' /\ WritesTo(q, s)' => p = q
      BY <1>4, <2>7 DEF RowsInv
    <2>11. \A r \in Rules \ mixed' : rules'[r] # NoRule => Says(rules'[r]) = told'[r]
      BY <1>4, <2>5, <2>6 DEF RowsInv, RuleEditsAreKept, Present
    <2> QED  BY <1>4, <2>6, <2>9, <2>10, <2>11 DEF RowsInv, RuleEditsAreKept, Present
  <1> QED  BY <1>5, <1>6

\* Rules that were not there: nobody is about to write them, unless their edits overlapped.
LEMMA RulesAppear ==
    ASSUME RowsInv, edit' = edit, mixed' = mixed, rules' \in [Rules -> RuleRow \cup {NoRule}], told' \in [Rules -> ToldRow],
           \A r \in Rules : \/ rules'[r] = rules[r] /\ told'[r] = told[r]
                            \/ rules[r] = NoRule /\ rules'[r] \in RuleRow /\ told'[r] = Says(rules'[r])
    PROVE  RowsInv'
  <1>1. \A s : \A p \in Operators : WritesTo(p, s)' <=> WritesTo(p, s)
    BY DEF WritesTo
  <1>2. ASSUME NEW s \in Rules \ mixed, NEW p \in Operators, WritesTo(p, s)
        PROVE  edit[p].base = rules[s] /\ rules[s] # NoRule
    BY <1>2, EditKinds, RowKinds DEF RowsInv, WritesTo
  <1>3. \A s \in Rules \ mixed' : \A p \in Operators : WritesTo(p, s)' => edit'[p].base = rules'[s]
    BY <1>1, <1>2
  <1>4. \A s \in Rules \ mixed' : \A p, q \in Operators : WritesTo(p, s)' /\ WritesTo(q, s)' => p = q
    BY <1>1 DEF RowsInv
  <1>5. \A r \in Rules \ mixed' : rules'[r] # NoRule => Says(rules'[r]) = told'[r]
    BY DEF RowsInv, RuleEditsAreKept, Present
  <1> QED  BY <1>3, <1>4, <1>5 DEF RowsInv, RuleEditsAreKept, Present

\* The seeds: each row is one of them, or as it was.
LEMMA SeedsAppear ==
    ASSUME RowsInv, NEW o \in Operators, SeedRulesInserted(o)
    PROVE  RowsInv' /\ Present' # {}
  <1>1. PICK ids \in [SeedRules -> Rules \ Present] :
         /\ \A a, b \in SeedRules : a # b => ids[a] # ids[b]
         /\ rules' = [r \in Rules |-> IF \E s \in SeedRules : ids[s] = r
                                      THEN CHOOSE s \in SeedRules : ids[s] = r ELSE rules[r]]
         /\ told' = [r \in Rules |-> IF \E s \in SeedRules : ids[s] = r
                                     THEN Says(CHOOSE s \in SeedRules : ids[s] = r) ELSE told[r]]
    BY DEF SeedRulesInserted
  <1>2. edit' = [edit EXCEPT ![o] = NoEdit] /\ mixed' = mixed
    BY DEF SeedRulesInserted
  <1>3. ASSUME NEW r \in Rules
        PROVE  \/ ~(\E s \in SeedRules : ids[s] = r) /\ rules'[r] = rules[r] /\ told'[r] = told[r]
               \/ rules[r] = NoRule /\ rules'[r] \in RuleRow /\ told'[r] = Says(rules'[r])
    <2>1. CASE \E s \in SeedRules : ids[s] = r
      BY <2>1, <1>1, RowKinds DEF Present
    <2>2. CASE ~\E s \in SeedRules : ids[s] = r
      BY <1>1, <2>2
    <2> QED  BY <2>1, <2>2
  <1>4. rules' \in [Rules -> RuleRow \cup {NoRule}]
    BY <1>3, <1>1 DEF RowsInv
  <1>5. told' \in [Rules -> ToldRow]
    BY <1>3, RowKinds, <1>1 DEF RowsInv
  <1>6. edit' \in [Operators -> EditKind] /\ \A p \in Operators : edit'[p] = IF p = o THEN NoEdit ELSE edit[p]
    BY <1>2 DEF RowsInv, EditKind
  <1>7. \A s : \A p \in Operators : WritesTo(p, s)' => WritesTo(p, s) /\ edit'[p] = edit[p]
    BY <1>6 DEF WritesTo, NoEdit
  <1>8. ASSUME NEW s \in Rules \ mixed, NEW p \in Operators, WritesTo(p, s)
        PROVE  edit[p].base = rules[s] /\ rules[s] # NoRule
    BY <1>8, EditKinds, RowKinds DEF RowsInv, WritesTo
  <1>9. \A s \in Rules \ mixed' : \A p \in Operators : WritesTo(p, s)' => edit'[p].base = rules'[s]
    BY <1>2, <1>3, <1>7, <1>8
  <1>10. \A s \in Rules \ mixed' : \A p, q \in Operators : WritesTo(p, s)' /\ WritesTo(q, s)' => p = q
    BY <1>2, <1>7 DEF RowsInv
  <1>11. \A r \in Rules \ mixed' : rules'[r] # NoRule => Says(rules'[r]) = told'[r]
    BY <1>2, <1>3 DEF RowsInv, RuleEditsAreKept, Present
  <1>12. Present' # {}
    <2>1. PICK a \in SeedRules : TRUE
      BY RowKinds
    <2>2. ids[a] \in Rules /\ rules'[ids[a]] \in RuleRow
      BY <1>1, <1>3, <2>1
    <2> QED  BY <2>2, RowKinds DEF Present
  <1> QED  BY <1>2, <1>4, <1>5, <1>6, <1>9, <1>10, <1>11, <1>12 DEF RowsInv, RuleEditsAreKept, Present

LEMMA RuleCreated ==
    ASSUME RowsInv, NEW r \in Rules, NEW type \in {Holiday, OffHours}, CreateRule(r, type)
    PROVE  RowsInv' /\ Present' # {}
  <1> DEFINE rule == [type |-> type, from |-> 1, to |-> 1, day |-> 1, start |-> 0, end |-> 2,
                      enabled |-> TRUE, new |-> TRUE]
  <1>1. rule \in RuleRow
    BY DEF RuleRow, Days, Parts
  <1>2. /\ rules[r] = NoRule /\ rules' = [rules EXCEPT ![r] = rule] /\ told' = [told EXCEPT ![r] = Says(rule)]
        /\ edit' = edit /\ mixed' = mixed
    BY DEF CreateRule, Present
  <1>3. Says(rule) \in ToldRow
    BY <1>1, RowKinds
  <1> HIDE DEF rule
  <1>4. rules' \in [Rules -> RuleRow \cup {NoRule}] /\ told' \in [Rules -> ToldRow]
    BY <1>1, <1>2, <1>3 DEF RowsInv
  <1>5. \A s \in Rules : \/ rules'[s] = rules[s] /\ told'[s] = told[s]
                         \/ rules[s] = NoRule /\ rules'[s] \in RuleRow /\ told'[s] = Says(rules'[s])
    BY <1>1, <1>2 DEF RowsInv
  <1>6. rules'[r] # NoRule
    BY <1>1, <1>2, RowKinds DEF RowsInv
  <1> QED  BY <1>2, <1>4, <1>5, <1>6, RulesAppear DEF Present

LEMMA RuleDeleted ==
    ASSUME RowsInv, NEW r \in Rules, DeleteRule(r)
    PROVE  RowsInv'
  BY DEF DeleteRule, RowsInv, WritesTo, RuleEditsAreKept, Present

LEMMA RowsStep ==
    ASSUME RuleInv, [RuleNext]_ruleVars
    PROVE  RowsInv'
  <1>0. RowsInv /\ NoEdit \in EditKind /\ NoEdit.pc = "none"
    BY DEF RuleInv, NoEdit, EditKind
  <1>1. ASSUME NEW o \in Operators, ListRules(o)
        PROVE  RowsInv'
    BY <1>0, <1>1, EditMoves DEF EditKind, ListRules
  <1>2. ASSUME NEW o \in Operators, CountRules(o)
        PROVE  RowsInv'
    <2> DEFINE new == IF Present = {} THEN [pc |-> "seed"] ELSE NoEdit
    <2>1. new \in EditKind /\ new.pc # "write"
      BY <1>0 DEF EditKind
    <2>2. edit' = [edit EXCEPT ![o] = new] /\ rules' = rules /\ told' = told /\ mixed' = mixed
      BY <1>2 DEF CountRules
    <2> HIDE DEF new
    <2> QED  BY <1>0, <2>1, <2>2, EditMoves
  <1>3. ASSUME NEW o \in Operators, NEW r \in Rules, NEW patch \in Patches, UpdateRule(o, r, patch)
        PROVE  RowsInv'
    BY <1>3, <1>0, EditMoves DEF EditKind, UpdateRule
  <1>4. CASE rules' = rules /\ edit' = edit /\ told' = told /\ mixed' = mixed
    BY <1>0, <1>4 DEF RowsInv, RuleEditsAreKept, Present, WritesTo
  <1> QED
    BY <1>0, <1>1, <1>2, <1>3, <1>4, RuleFound, RuleWritten, SeedsAppear, RuleCreated, RuleDeleted
    DEF RuleNext, ruleVars, FindActiveReply, ConversationSeen, DayPasses, ReadLastSeen, CountEvents

-----------------------------------------------------------------------------
\* Those about to seed are operators, so they are as many at most.
LEMMA SeedersAreFew ==
    ASSUME NEW S, S \subseteq Operators
    PROVE  IsFiniteSet(S) /\ Cardinality(S) \in Nat /\ Cardinality(Operators) \in Nat /\ Cardinality(S) <= Cardinality(Operators)
  BY RuleAssumption, FS_Subset, FS_CardinalityType

\* Nobody more is about to seed, and the table is not emptied.
LEMMA SeedingStays ==
    ASSUME SeedInv, seeding' = seeding, Present' = {} => Present = {}, NEW S, S = Seeders', S \subseteq Seeders
    PROVE  SeedInv'
  BY SeedersAreFew, FS_Subset, FS_CardinalityType DEF Seeders, SeedInv

\* The count of an empty table: one more is about to seed.
LEMMA TableCounted ==
    ASSUME RuleInv, NEW o \in Operators, CountRules(o)
    PROVE  SeedInv'
  <1> DEFINE met == seeding.met \/ (\E p \in Operators \ {o} : edit[p] = [pc |-> "seed"])
             S == {p \in Operators : edit'[p] = [pc |-> "seed"]}
  <1>1. /\ edit[o] = [pc |-> "count"] /\ edit' = [edit EXCEPT ![o] = IF Present = {} THEN [pc |-> "seed"] ELSE NoEdit]
        /\ seeding' = [seeding EXCEPT !.met = met] /\ rules' = rules
    BY DEF CountRules
  <1>2. seeding \in [batches : Nat, met : BOOLEAN] /\ edit \in [Operators -> EditKind]
    BY DEF RuleInv, RowsInv, SeedInv
  <1>3. /\ seeding' \in [batches : Nat, met : BOOLEAN] /\ seeding'.batches = seeding.batches /\ seeding'.met = met
        /\ Present' = Present /\ Seeders' = S
    BY <1>1, <1>2 DEF Present, Seeders
  <1>4. o \notin Seeders /\ S \subseteq Seeders \cup {o} /\ S \subseteq Operators /\ (Present # {} => S \subseteq Seeders)
    BY <1>1, <1>2 DEF NoEdit, Seeders
  <1>5. ~met => ~seeding.met /\ Seeders = {}
    BY <1>4 DEF Seeders
  <1> HIDE DEF S, met
  <1>6. seeding.batches + Cardinality(S) <= Cardinality(Operators)
    <2>1. /\ seeding.batches \in Nat /\ Cardinality(S) \in Nat /\ Cardinality(Operators) \in Nat
          /\ Cardinality(S) <= Cardinality(Operators)
      BY <1>2, <1>4, SeedersAreFew
    <2>2. CASE Present = {}
      BY <2>2, <2>1 DEF RuleInv, SeedInv
    <2>3. CASE Present # {}
      BY SeedersAreFew, <1>4, <2>3, FS_Subset, <2>1 DEF Seeders, RuleInv, SeedInv
    <2> QED  BY <2>2, <2>3
  <1>7. ~met => /\ seeding.batches <= 1
                /\ S # {} => seeding.batches = 0
                /\ \A p, q \in S : p = q
    BY <1>4, <1>5 DEF RuleInv, SeedInv
  <1>8. Present = {} => seeding.batches = 0
    BY DEF RuleInv, SeedInv
  <1> QED  BY <1>3, <1>6, <1>7, <1>8 DEF SeedInv

\* The seeds are inserted by one of those who were about to.
LEMMA BatchInserted ==
    ASSUME RuleInv, NEW o \in Operators, SeedRulesInserted(o)
    PROVE  SeedInv'
  <1> DEFINE S == {p \in Operators : edit'[p] = [pc |-> "seed"]}
  <1>1. /\ edit[o] = [pc |-> "seed"] /\ edit' = [edit EXCEPT ![o] = NoEdit]
        /\ seeding' = [seeding EXCEPT !.batches = seeding.batches + 1]
    BY DEF SeedRulesInserted
  <1>2. seeding \in [batches : Nat, met : BOOLEAN] /\ edit \in [Operators -> EditKind]
    BY DEF RuleInv, RowsInv, SeedInv
  <1>3. /\ seeding' \in [batches : Nat, met : BOOLEAN] /\ seeding'.batches = seeding.batches + 1
        /\ seeding'.met = seeding.met /\ Seeders' = S
    BY <1>1, <1>2 DEF Seeders
  <1>4. o \in Seeders /\ S \subseteq Seeders \ {o} /\ Seeders \subseteq Operators
    BY <1>1, <1>2 DEF NoEdit, Seeders
  <1>5. Present' # {}
    BY SeedsAppear DEF RuleInv
  <1> HIDE DEF S
  <1>6. (seeding.batches + 1) + Cardinality(S) <= Cardinality(Operators)
    <2>1. IsFiniteSet(Seeders) /\ Cardinality(Seeders) \in Nat /\ Cardinality(Operators) \in Nat
      BY <1>4, SeedersAreFew
    <2>2. IsFiniteSet(S) /\ Cardinality(S) \in Nat /\ Cardinality(S) <= Cardinality(Seeders \ {o})
      BY <1>4, <2>1, FS_RemoveElement, FS_Subset, FS_CardinalityType
    <2>3. Cardinality(Seeders \ {o}) = Cardinality(Seeders) - 1
      BY <1>4, <2>1, FS_RemoveElement
    <2>4. seeding.batches \in Nat /\ seeding.batches + Cardinality(Seeders) <= Cardinality(Operators)
      BY DEF RuleInv, SeedInv
    <2> QED  BY <2>1, <2>2, <2>3, <2>4
  <1>7. ~seeding.met => seeding.batches = 0 /\ S = {}
    BY <1>4 DEF RuleInv, SeedInv
  <1>8. ~seeding.met => seeding.batches + 1 <= 1
    BY <1>7
  <1> QED  BY <1>3, <1>5, <1>6, <1>7, <1>8 DEF SeedInv

LEMMA SeedsForgotten ==
    ASSUME RuleInv, NEW r \in Rules, DeleteRule(r)
    PROVE  SeedInv'
  <1> DEFINE met == \E o \in Operators : edit[o].pc \in {"count", "seed"}
  <1>1. /\ rules' = [rules EXCEPT ![r] = NoRule] /\ edit' = edit
        /\ seeding' = (IF Present = {r} THEN [seeding EXCEPT !.batches = 0, !.met = met] ELSE seeding)
    BY DEF DeleteRule
  <1>2. /\ seeding \in [batches : Nat, met : BOOLEAN] /\ rules \in [Rules -> RuleRow \cup {NoRule}]
        /\ Seeders' = Seeders
    BY <1>1 DEF RuleInv, RowsInv, SeedInv, Seeders
  <1>3. CASE Present = {r}
    <2>1. ~met => Seeders = {}
      BY DEF Seeders
    <2>2. met \in BOOLEAN
      OBVIOUS
    <2> HIDE DEF met
    <2>3. seeding' \in [batches : Nat, met : BOOLEAN] /\ seeding'.batches = 0 /\ seeding'.met = met
      BY <1>1, <1>2, <1>3, <2>2
    <2>4. Seeders \subseteq Operators
      BY DEF Seeders
    <2>5. 0 + Cardinality(Seeders) <= Cardinality(Operators)
      BY <2>4, SeedersAreFew
    <2> QED  BY <1>2, <2>1, <2>3, <2>5 DEF SeedInv
  <1>4. CASE Present # {r}
    BY <1>1, <1>2, <1>4, SeedingStays DEF Present, RuleInv
  <1> QED  BY <1>3, <1>4

LEMMA SeedStep ==
    ASSUME RuleInv, [RuleNext]_ruleVars
    PROVE  SeedInv'
  <1>0. RowsInv /\ SeedInv /\ NoEdit # [pc |-> "seed"] /\ edit \in [Operators -> EditKind]
    BY DEF RuleInv, NoEdit, RowsInv
  <1>1. ASSUME NEW o \in Operators, NEW new, edit' = [edit EXCEPT ![o] = new], new # [pc |-> "seed"], seeding' = seeding,
               Present' = {} => Present = {}
        PROVE  SeedInv'
    BY <1>0, <1>1, SeedingStays DEF Seeders
  <1>2. ASSUME NEW o \in Operators, ListRules(o)
        PROVE  SeedInv'
    BY <1>2, <1>1 DEF ListRules, Present
  <1>3. ASSUME NEW o \in Operators, NEW r \in Rules, NEW patch \in Patches, UpdateRule(o, r, patch)
        PROVE  SeedInv'
    <2> DEFINE new == [pc |-> "read", rule |-> r, patch |-> patch]
    <2>1. new # [pc |-> "seed"] /\ Present' = Present
      BY <1>3 DEF UpdateRule, Present
    <2>2. edit' = [edit EXCEPT ![o] = new] /\ seeding' = seeding
      BY <1>3 DEF UpdateRule
    <2> HIDE DEF new
    <2> QED  BY <1>1, <2>1, <2>2
  <1>4. ASSUME NEW o \in Operators, FindRule(o)
        PROVE  SeedInv'
    <2> DEFINE new == IF edit[o].rule \notin Present THEN NoEdit
                      ELSE [pc |-> "write", rule |-> edit[o].rule, patch |-> edit[o].patch, base |-> rules[edit[o].rule]]
    <2>1. new # [pc |-> "seed"]
      BY DEF NoEdit
    <2>2. edit' = [edit EXCEPT ![o] = new] /\ seeding' = seeding /\ Present' = Present
      BY <1>4 DEF FindRule, Present
    <2> HIDE DEF new
    <2> QED  BY <1>1, <2>1, <2>2
  <1>5. ASSUME NEW o \in Operators, NEW legacy \in BOOLEAN, WriteRule(o, legacy)
        PROVE  SeedInv'
    <2>1. Present' = {} => Present = {}
      <3>1. CASE edit[o].rule \notin Present
        BY <1>5, <3>1 DEF WriteRule, Present
      <3>2. CASE edit[o].rule \in Present
        <4> DEFINE e == edit[o]
                   new == IF legacy THEN RuleDataLegacy(Merge(e.base, e.patch)) ELSE RuleData(Merge(e.base, e.patch))
        <4>1. rules' = [rules EXCEPT ![e.rule] = new] /\ e.pc = "write" /\ e \in EditKind
          BY <1>0, <1>5, <3>2 DEF WriteRule
        <4>2. e.rule \in Rules /\ e.base \in RuleRow /\ e.patch \in Patches
          BY <4>1, EditKinds
        <4>3. told[e.rule] \in ToldRow
          BY <1>0, <4>2 DEF RowsInv
        <4>4. new \in RuleRow
          BY <4>2, <4>3, Merged
        <4> HIDE DEF new, e
        <4>5. rules'[e.rule] = new /\ new # NoRule
          BY <1>0, <4>1, <4>2, <4>4, RowKinds DEF RowsInv
        <4> QED  BY <4>2, <4>5 DEF Present
      <3> QED  BY <3>1, <3>2
    <2>2. edit' = [edit EXCEPT ![o] = NoEdit] /\ seeding' = seeding
      BY <1>5 DEF WriteRule
    <2> QED  BY <1>0, <1>1, <2>1, <2>2
  <1>6. ASSUME NEW r \in Rules, NEW type \in {Holiday, OffHours}, CreateRule(r, type)
        PROVE  SeedInv'
    BY <1>0, <1>6, RuleCreated, SeedingStays DEF CreateRule, Seeders
  <1>7. CASE rules' = rules /\ edit' = edit /\ seeding' = seeding
    BY <1>7, <1>0, SeedingStays DEF Seeders, Present
  <1> QED
    BY <1>2, <1>3, <1>4, <1>5, <1>6, <1>7, TableCounted, BatchInserted, SeedsForgotten
    DEF RuleNext, ruleVars, FindActiveReply, ConversationSeen, DayPasses, ReadLastSeen, CountEvents

-----------------------------------------------------------------------------
LEMMA ReplyStep ==
    ASSUME RuleInv, [RuleNext]_ruleVars
    PROVE  ReplyInv'
  <1>0. RowsInv /\ ReplyInv
    BY DEF RuleInv
  <1>1. ASSUME NEW r \in Rules, NEW at \in Moments, FindActiveReply(r, at)
        PROVE  ReplyInv'
    <2> DEFINE all == {rules[q] : q \in Enabled}
               new == [rule |-> rules[r], at |-> at, all |-> all]
    <2>1. \A q \in Enabled : rules[q] \in RuleRow
      BY <1>0 DEF Enabled, Present, RowsInv
    <2>2. answered' = new /\ r \in Enabled
      BY <1>1 DEF FindActiveReply
    <2>3. new \in [rule : RuleRow, at : Moments, all : SUBSET RuleRow]
      BY <2>1, <2>2
    <2>4. ASSUME rules[r].type = OffHours, NEW w \in all, w.type = Holiday
          PROVE  ~RuleMatches(w, at)
      BY <2>4, <1>1 DEF Holiday, OffHours, FindActiveReply
    <2>5. HolidayComesFirst'
      <3>1. new.rule = rules[r] /\ new.at = at /\ new.all = all
        OBVIOUS
      <3> HIDE DEF new, all
      <3>2. ASSUME answered'.rule.type = OffHours, NEW w \in answered'.all, w.type = Holiday
            PROVE  ~RuleMatches(w, answered'.at)
        BY <2>2, <2>4, <3>1, <3>2
      <3> QED  BY <3>2 DEF HolidayComesFirst, RuleMatches
    <2> QED  BY <2>2, <2>3, <2>5 DEF ReplyInv
  <1>2. CASE answered' = answered
    BY <1>0, <1>2 DEF ReplyInv, HolidayComesFirst, RuleMatches
  <1> QED
    BY <1>1, <1>2 DEF RuleNext, ruleVars, ListRules, CountRules, SeedRulesInserted, FindRule, UpdateRule, WriteRule,
       CreateRule, DeleteRule, ConversationSeen, DayPasses, ReadLastSeen, CountEvents

LEMMA HealthStep ==
    ASSUME RuleInv, [RuleNext]_ruleVars
    PROVE  HealthInv'
  <1>0. HealthInv /\ ruleOps \in 0..MaxRuleOps
    BY DEF RuleInv, HealthInv
  <1>1. RuleOp => ruleOps' \in 0..MaxRuleOps
    <2>1. HAVE RuleOp
    <2>2. ruleOps \in 0..MaxRuleOps /\ MaxRuleOps \in Nat /\ ruleOps < MaxRuleOps /\ ruleOps' = ruleOps + 1
      BY <1>0, <2>1, RuleAssumption DEF RuleOp
    <2> QED  BY ONLY <2>2
  <1>2. CASE ConversationSeen
    BY <1>0, <1>2 DEF ConversationSeen, HealthInv, RecentIsCounted
  <1>3. CASE DayPasses
    BY <1>0, <1>3 DEF DayPasses, HealthInv, RecentIsCounted
  <1>4. CASE ReadLastSeen
    BY <1>4, <1>1, <1>0 DEF ReadLastSeen, HealthCheck, Last, HealthInv, RecentIsCounted
  <1>5. CASE CountEvents
    <2> DEFINE seen == traffic.recent
    <2>1. health \in HealthCheck /\ seen \in BOOLEAN /\ traffic' = traffic /\ ruleOps' = ruleOps
      BY <1>0, <1>5 DEF CountEvents, HealthInv, NoEdit
    <2>2. health' = [health EXCEPT !.pc = "shown", !.events = seen]
      BY <1>5 DEF CountEvents
    <2>3. health.last = "recent" => seen
      BY <1>0, <1>5 DEF CountEvents, HealthInv
    <2> HIDE DEF seen
    <2>4. health' \in HealthCheck /\ health'.pc = "shown" /\ health'.last = health.last /\ health'.events = seen
      BY <2>1, <2>2 DEF HealthCheck
    <2>5. health'.last = "recent" => health'.events
      BY <2>3, <2>4
    <2> QED  BY <1>0, <2>1, <2>4, <2>5 DEF HealthInv, RecentIsCounted
  <1>6. CASE traffic' = traffic /\ health' = health /\ (RuleOp \/ ruleOps' = ruleOps)
    BY <1>0, <1>1, <1>6 DEF HealthInv, RecentIsCounted
  <1> QED
    BY <1>2, <1>3, <1>4, <1>5, <1>6 DEF RuleNext, ruleVars, ListRules, CountRules, SeedRulesInserted, FindRule, UpdateRule,
       WriteRule, CreateRule, DeleteRule, FindActiveReply

LEMMA RuleStep == RuleInv /\ [RuleNext]_ruleVars => RuleInv'
  BY RowsStep, SeedStep, ReplyStep, HealthStep DEF RuleInv

LEMMA RuleStarts == RuleInit => RuleInv
  <1> SUFFICES ASSUME RuleInit
               PROVE  RuleInv
    OBVIOUS
  <1>1. /\ rules = [r \in Rules |-> NoRule] /\ edit = [o \in Operators |-> NoEdit]
        /\ told = [r \in Rules |-> [type |-> Holiday, enabled |-> FALSE, start |-> 0]]
        /\ mixed = {} /\ seeding = [batches |-> 0, met |-> FALSE] /\ answered = NotAnswered
        /\ traffic = [ever |-> FALSE, recent |-> FALSE] /\ health = NoEdit /\ ruleOps = 0
    BY DEF RuleInit
  <1>2. NoEdit \in EditKind /\ NoEdit.pc = "none" /\ NoEdit # [pc |-> "seed"]
    BY DEF NoEdit, EditKind
  <1>3. RowsInv
    BY <1>1, <1>2 DEF ToldRow, Parts, WritesTo, Present, RowsInv, RuleEditsAreKept
  <1>4. SeedInv
    <2>1. Seeders = {}
      BY <1>1, <1>2 DEF Seeders
    <2>2. Cardinality({}) = 0 /\ Cardinality(Operators) \in Nat
      BY FS_EmptySet, RuleAssumption, FS_CardinalityType
    <2>3. 0 + Cardinality(Seeders) <= Cardinality(Operators)
      BY <2>1, <2>2
    <2> QED  BY <1>1, <2>1, <2>3 DEF SeedInv
  <1>5. ReplyInv
    BY <1>1 DEF ReplyInv, HolidayComesFirst
  <1>6. HealthInv
    BY <1>1, <1>2, RuleAssumption DEF HealthInv, RecentIsCounted
  <1> QED  BY <1>3, <1>4, <1>5, <1>6 DEF RuleInv

LEMMA RuleKeeps == RuleInv => RuleTypeOK /\ SeededOnce /\ RuleEditsAreKept /\ HolidayComesFirst /\ RecentIsCounted
  <1> SUFFICES ASSUME RuleInv
               PROVE  RuleTypeOK /\ SeededOnce /\ RuleEditsAreKept /\ HolidayComesFirst /\ RecentIsCounted
    OBVIOUS
  <1>0. RowsInv /\ SeedInv /\ ReplyInv /\ HealthInv
    BY DEF RuleInv
  <1>1. seeding \in [batches : 0..Cardinality(Operators), met : BOOLEAN]
    BY SeedersAreFew, <1>0 DEF Seeders, SeedInv
  <1>2. RuleTypeOK
    BY <1>0, <1>1 DEF RuleTypeOK, RowsInv, EditKind, ToldRow, ReplyInv, HealthInv
  <1> QED  BY <1>0, <1>2 DEF RowsInv, SeedInv, SeededOnce, ReplyInv, HealthInv

-----------------------------------------------------------------------------
(* The set-up of a workspace.                                                *)

\* Only the status has a third step.
TightRow == {r \in ProfileRow : \A f \in Fields \ {"status"} : r[f] \in 0..2}
PatchKind ==
    {NoPatch}
      \cup [pc : {"read", "done", "failed"}, space : Sellers, patch : TightRow]
      \cup [pc : {"write"}, space : Sellers, patch : TightRow, base : [Document -> 0..2]]

Writes(v, w) == patches[v].pc = "write" /\ patches[v].space = w

\* While no two updates of a workspace overlapped, one at most is between its read and its write, and it read
\* what is stored.
DocumentInv ==
    /\ setupProfiles \in [Sellers -> TightRow] /\ askedFor \in [Sellers -> ProfileRow]
    /\ patches \in [Writers -> PatchKind]
    /\ crossed \subseteq Sellers
    /\ \A w \in Sellers \ crossed :
         /\ \A v \in Writers : Writes(v, w) => \A f \in Document : patches[v].base[f] = setupProfiles[w][f]
         /\ \A u, v \in Writers : Writes(u, w) /\ Writes(v, w) => u = v
    /\ AcknowledgedIsKept

\* Where the seller's page stands, and the patch it has under way.
GuideInv ==
    /\ guide \in Guide /\ requests \in Nat /\ setupOps \in 0..MaxSetupOps
    /\ requests + (IF guide.pc = "submit" THEN 1 ELSE 0) <= setupOps
    /\ guide.pc = "patch" <=> patches["seller"] # NoPatch
    /\ guide.pc = "submit" => guide.typed /\ guide.step = "knowledge"
    /\ guide.step = "left" => guide.pc = "idle"
    /\ guide.step \in {"profile", "channels"} => ~guide.typed /\ requests = 0
    /\ guide.typed /\ (guide.pc = "patch" \/ guide.step = "left") => requests > 0
    /\ ~guide.retried => /\ requests <= 1
                         /\ requests = 1 => guide.typed /\ (guide.pc = "patch" \/ guide.step = "left")
    /\ guide.step = "knowledge" /\ guide.pc = "patch" =>
         patches["seller"].space = Newcomer /\ patches["seller"].patch["status"] = 3
    /\ guide.step = "left" \/ (guide.step = "knowledge" /\ patches["seller"].pc = "done") =>
         guide.steered \/ askedFor[Newcomer]["status"] = 3

ReviewInv ==
    /\ review \in Review /\ review.listed \in [Sellers -> TightRow]
    /\ FormIsOfSelected

SetupInv == DocumentInv /\ GuideInv /\ ReviewInv

-----------------------------------------------------------------------------
\* A patch is none, or it has a workspace and tight fields.
LEMMA PatchKinds ==
    ASSUME NEW p \in PatchKind
    PROVE  /\ p = NoPatch => p.pc = "none"
           /\ p # NoPatch => /\ p.pc \in {"read", "write", "done", "failed"}
                             /\ p.space \in Sellers /\ p.patch \in TightRow
           /\ p.pc = "write" => p.base \in [Document -> 0..2]
           /\ p.pc \in {"read", "write", "done", "failed"} => p # NoPatch
  BY DEF PatchKind, NoPatch

\* The fields of a row.
LEMMA TightRows ==
    /\ \A r \in TightRow : r \in ProfileRow /\ \A f \in Fields : r[f] \in 0..3
    /\ \A r \in TightRow : \A f \in Fields \ {"status"} : r[f] \in 0..2
    /\ \A r : r \in [Fields -> 0..3] /\ (\A f \in Fields \ {"status"} : r[f] \in 0..2) => r \in TightRow
    /\ Blank \in TightRow
  BY SMT DEF TightRow, ProfileRow, Blank, Unset, Fields

\* A patch that is set to something that does not write leaves the document as it was.
LEMMA PatchMoves ==
    ASSUME DocumentInv, NEW w \in Writers, NEW p \in PatchKind, p.pc # "write",
           setupProfiles' = setupProfiles, askedFor' = askedFor, crossed' = crossed,
           patches' = [patches EXCEPT ![w] = p]
    PROVE  DocumentInv'
  BY DEF DocumentInv, Writes, AcknowledgedIsKept

\* The document does not depend on the screens.
LEMMA DocumentStays ==
    ASSUME DocumentInv, setupProfiles' = setupProfiles, askedFor' = askedFor, crossed' = crossed,
           patches' = patches
    PROVE  DocumentInv'
  BY DEF DocumentInv, AcknowledgedIsKept, Writes

\* A patch of the writer that is read stores the document of now.
LEMMA DocumentRead ==
    ASSUME DocumentInv, NEW w \in Writers, ReadProfile(w)
    PROVE  DocumentInv'
  <1> DEFINE space == patches[w].space
             base == [f \in Document |-> setupProfiles[space][f]]
             p == [pc |-> "write", space |-> space, patch |-> patches[w].patch, base |-> base]
  <1>1. patches[w] \in PatchKind /\ patches[w].pc = "read"
    BY DEF DocumentInv, ReadProfile
  <1>2. space \in Sellers /\ patches[w].patch \in TightRow
    BY <1>1, PatchKinds
  <1>3. setupProfiles[space] \in TightRow
    BY <1>2 DEF DocumentInv
  <1>4. base \in [Document -> 0..2]
    BY <1>3, TightRows DEF Document, Fields
  <1>5. p \in PatchKind
    BY <1>2, <1>4 DEF PatchKind
  <1>6. /\ setupProfiles' = setupProfiles /\ askedFor' = askedFor
        /\ patches' = [patches EXCEPT ![w] = p]
        /\ crossed' = IF \E v \in Writers : patches[v].pc = "write" /\ patches[v].space = space
                      THEN crossed \cup {space} ELSE crossed
    BY DEF ReadProfile
  <1>7. p.pc = "write" /\ p.space = space /\ p.base = base
    OBVIOUS
  <1>8. \A f \in Document : base[f] = setupProfiles[space][f]
    OBVIOUS
  <1> HIDE DEF p, base
  <1>9. \A v \in Writers : patches'[v] = IF v = w THEN p ELSE patches[v]
    BY <1>6 DEF DocumentInv
  <1>10. patches' \in [Writers -> PatchKind]
    BY <1>5, <1>6 DEF DocumentInv
  <1>11. crossed' \subseteq Sellers /\ crossed \subseteq crossed'
    BY <1>6, <1>2 DEF DocumentInv
  <1>12. \A s : \A v \in Writers : v # w => (Writes(v, s)' <=> Writes(v, s)) /\ patches'[v] = patches[v]
    BY <1>9 DEF Writes
  <1>13. \A s : Writes(w, s)' => s = space
    BY <1>9, <1>7 DEF Writes
  <1>14. space \notin crossed' => \A v \in Writers : ~Writes(v, space)
    BY <1>6 DEF Writes
  <1>15. ASSUME NEW s \in Sellers \ crossed', NEW v \in Writers, Writes(v, s)'
         PROVE  \A f \in Document : patches'[v].base[f] = setupProfiles'[s][f]
    BY <1>6, <1>7, <1>8, <1>9, <1>13, <1>15, <1>11, <1>12 DEF DocumentInv
  <1>16. ASSUME NEW s \in Sellers \ crossed', NEW u \in Writers, NEW v \in Writers, Writes(u, s)', Writes(v, s)'
         PROVE  u = v
    BY <1>11, <1>12, <1>16, <1>13, <1>14 DEF DocumentInv
  <1>17. AcknowledgedIsKept'
    BY <1>6, <1>11 DEF AcknowledgedIsKept, DocumentInv
  <1> QED  BY <1>6, <1>10, <1>11, <1>15, <1>16, <1>17 DEF DocumentInv

\* A write that merges the document of its read.
LEMMA DocumentWritten ==
    ASSUME DocumentInv, NEW w \in Writers, WriteProfile(w)
    PROVE  DocumentInv'
  <1> DEFINE p == patches[w]
             space == patches[w].space
             G == Given(p.patch)
             new == [f \in Fields |-> IF f \in G THEN p.patch[f]
                                      ELSE IF f \in Document /\ Document \cap G # {}
                                           THEN p.base[f] ELSE setupProfiles[space][f]]
             ask == [f \in Fields |-> IF f \in G THEN p.patch[f] ELSE askedFor[space][f]]
             done == [pc |-> "done", space |-> space, patch |-> p.patch]
  <1>1. p \in PatchKind /\ p.pc = "write"
    BY DEF DocumentInv, WriteProfile
  <1>2. space \in Sellers /\ p.patch \in TightRow /\ p.base \in [Document -> 0..2]
    BY <1>1, PatchKinds
  <1>3. setupProfiles[space] \in TightRow /\ askedFor[space] \in ProfileRow
    BY <1>2 DEF DocumentInv
  <1>4. new \in TightRow
    <2>1. ASSUME NEW f \in Fields
          PROVE  p.patch[f] \in 0..3 /\ setupProfiles[space][f] \in 0..3 /\ (f \in Document => p.base[f] \in 0..2)
      BY <1>2, <1>3, <2>1, TightRows
    <2>2. ASSUME NEW f \in Fields \ {"status"}
          PROVE  p.patch[f] \in 0..2 /\ setupProfiles[space][f] \in 0..2
      BY <1>2, <1>3, <2>2, TightRows
    <2> HIDE DEF p, space, G
    <2>4. \A k : k \in 0..2 => k \in 0..3
      OBVIOUS
    <2>5. new \in [Fields -> 0..3]
      BY <2>1, <2>4
    <2>6. \A f \in Fields \ {"status"} : new[f] \in 0..2
      BY <2>1, <2>2
    <2> QED  BY <2>5, <2>6, TightRows
  <1>5. ask \in ProfileRow
    BY <1>2, TightRows, <1>3 DEF ProfileRow
  <1>6. done \in PatchKind /\ done.pc = "done"
    BY <1>2 DEF PatchKind
  <1>7. /\ setupProfiles' = [setupProfiles EXCEPT ![space] = new]
        /\ askedFor' = [askedFor EXCEPT ![space] = ask]
        /\ patches' = [patches EXCEPT ![w] = done] /\ crossed' = crossed
    BY DEF WriteProfile, Acknowledge
  <1>8. space \notin crossed => new = ask
    <2>1. HAVE space \notin crossed
    <2>2. setupProfiles[space] = askedFor[space]
      BY <2>1, <1>2 DEF DocumentInv, AcknowledgedIsKept
    <2>3. Writes(w, space)
      BY <1>1 DEF Writes
    <2>4. \A f \in Document : p.base[f] = setupProfiles[space][f]
      BY <2>1, <2>3, <1>2 DEF DocumentInv
    <2> HIDE DEF p, space, G
    <2> QED  BY <2>2, <2>4
  <1>9. Writes(w, space)
    BY <1>1 DEF Writes
  <1> HIDE DEF new, ask, done, G
  <1>10. /\ \A v \in Writers : patches'[v] = IF v = w THEN done ELSE patches[v]
         /\ \A s \in Sellers : s # space => setupProfiles'[s] = setupProfiles[s] /\ askedFor'[s] = askedFor[s]
         /\ setupProfiles'[space] = new /\ askedFor'[space] = ask
    BY <1>2, <1>7 DEF DocumentInv
  <1>11. /\ setupProfiles' \in [Sellers -> TightRow] /\ askedFor' \in [Sellers -> ProfileRow]
         /\ patches' \in [Writers -> PatchKind] /\ crossed' \subseteq Sellers
    BY <1>4, <1>5, <1>6, <1>7 DEF DocumentInv
  <1>12. \A s : \A v \in Writers : Writes(v, s)' => v # w /\ Writes(v, s) /\ patches'[v] = patches[v]
    BY <1>10, <1>6 DEF Writes
  <1>13. \A s \in Sellers \ crossed', v \in Writers : Writes(v, s)' => s # space
    BY <1>2, <1>7, <1>9, <1>12 DEF DocumentInv
  <1>14. ASSUME NEW s \in Sellers \ crossed', NEW v \in Writers, Writes(v, s)'
         PROVE  \A f \in Document : patches'[v].base[f] = setupProfiles'[s][f]
    BY <1>7, <1>10, <1>12, <1>13, <1>14 DEF DocumentInv
  <1>15. ASSUME NEW s \in Sellers \ crossed', NEW u \in Writers, NEW v \in Writers, Writes(u, s)', Writes(v, s)'
         PROVE  u = v
    BY <1>7, <1>12, <1>15 DEF DocumentInv
  <1>16. AcknowledgedIsKept'
    BY <1>7, <1>8, <1>10 DEF AcknowledgedIsKept, DocumentInv
  <1> QED  BY <1>11, <1>14, <1>15, <1>16 DEF DocumentInv

\* disconnectWhatsApp writes the document of its read too.
LEMMA DocumentDisconnected ==
    ASSUME DocumentInv, DisconnectWhatsApp
    PROVE  DocumentInv'
  <1> DEFINE p == patches["team"]
             space == patches["team"].space
             new == [f \in Fields |-> CASE f = "poc" -> Unset [] f = "whatsapp" -> Skip
                                        [] f = "focus" -> p.base[f] [] OTHER -> setupProfiles[space][f]]
             ask == [askedFor[space] EXCEPT !["poc"] = Unset, !["whatsapp"] = Skip]
  <1>0. "team" \in Writers
    BY DEF Writers
  <1>1. p \in PatchKind /\ p.pc = "write"
    BY <1>0 DEF DocumentInv, DisconnectWhatsApp
  <1>2. space \in Sellers /\ p.patch \in TightRow /\ p.base \in [Document -> 0..2]
    BY <1>1, PatchKinds
  <1>3. setupProfiles[space] \in TightRow /\ askedFor[space] \in ProfileRow
    BY <1>2 DEF DocumentInv
  <1>4. /\ setupProfiles' = [setupProfiles EXCEPT ![space] = new]
        /\ askedFor' = [askedFor EXCEPT ![space]["poc"] = Unset, ![space]["whatsapp"] = Skip]
        /\ patches' = [patches EXCEPT !["team"] = NoPatch] /\ crossed' = crossed
    BY DEF DisconnectWhatsApp
  <1>5. /\ Fields = {"category", "poc", "status", "focus", "whatsapp"} /\ Document = {"focus", "whatsapp"}
        /\ Unset = 0 /\ Skip = 2
    BY DEF Fields, Document, Unset, Skip
  <1>6. new \in TightRow
    <2>1. \A f \in Fields : setupProfiles[space][f] \in 0..3
      BY <1>3, TightRows
    <2>2. \A f \in Fields \ {"status"} : setupProfiles[space][f] \in 0..2
      BY <1>3, TightRows
    <2>3. p.base["focus"] \in 0..2
      BY <1>2, <1>5
    <2> HIDE DEF p, space
    <2>4. new \in [Fields -> 0..3]
      BY <1>5, <2>1, <2>3
    <2>5. \A f \in Fields \ {"status"} : new[f] \in 0..2
      BY <1>5, <2>2, <2>3
    <2> QED  BY <2>4, <2>5, TightRows
  <1>7. ask \in ProfileRow
    BY <1>3, <1>5 DEF ProfileRow
  <1>8. /\ \A s \in Sellers : s # space => setupProfiles'[s] = setupProfiles[s] /\ askedFor'[s] = askedFor[s]
        /\ setupProfiles'[space] = new /\ askedFor'[space] = ask
    BY <1>2, <1>4 DEF DocumentInv
  <1>9. askedFor' \in [Sellers -> ProfileRow]
    BY <1>4, <1>7, <1>2 DEF DocumentInv
  <1>10. Writes("team", space)
    BY <1>1 DEF Writes
  <1>11. space \notin crossed => new = ask
    <2>1. HAVE space \notin crossed
    <2>2. setupProfiles[space] = askedFor[space]
      BY <2>1, <1>2 DEF DocumentInv, AcknowledgedIsKept
    <2>3. p.base["focus"] = setupProfiles[space]["focus"]
      BY <2>1, <1>0, <1>10, <1>2, <1>5 DEF DocumentInv
    <2>4. DOMAIN ask = Fields /\ ask["poc"] = 0 /\ ask["whatsapp"] = 2
          /\ \A f \in Fields : f \notin {"poc", "whatsapp"} => ask[f] = askedFor[space][f]
      BY <1>3, <1>5 DEF ProfileRow
    <2>5. DOMAIN new = Fields /\ new["poc"] = 0 /\ new["whatsapp"] = 2 /\ new["focus"] = p.base["focus"]
          /\ new["category"] = setupProfiles[space]["category"] /\ new["status"] = setupProfiles[space]["status"]
      BY <1>5
    <2>6. ask = [f \in Fields |-> ask[f]] /\ new = [f \in Fields |-> new[f]]
      BY <1>7, <1>6 DEF ProfileRow, TightRow
    <2>7. \A f \in Fields : new[f] = ask[f]
      <3> HIDE DEF p, space, new, ask
      <3> QED  BY <1>5, <2>2, <2>3, <2>4, <2>5
    <2> HIDE DEF p, space, new, ask
    <2> QED  BY <2>6, <2>7
  <1>12. NoPatch \in PatchKind /\ NoPatch.pc # "write"
    BY DEF PatchKind, NoPatch
  <1> HIDE DEF new, ask
  <1>13. \A v \in Writers : patches'[v] = IF v = "team" THEN NoPatch ELSE patches[v]
    BY <1>4, <1>0 DEF DocumentInv
  <1>14. /\ setupProfiles' \in [Sellers -> TightRow]
         /\ patches' \in [Writers -> PatchKind] /\ crossed' \subseteq Sellers
    BY <1>4, <1>6, <1>12, <1>0 DEF DocumentInv
  <1>15. \A s : \A v \in Writers : Writes(v, s)' => v # "team" /\ Writes(v, s) /\ patches'[v] = patches[v]
    BY <1>13, <1>12 DEF Writes
  <1>16. \A s \in Sellers \ crossed', v \in Writers : Writes(v, s)' => s # space
    BY <1>0, <1>2, <1>4, <1>10, <1>15 DEF DocumentInv
  <1>17. ASSUME NEW s \in Sellers \ crossed', NEW v \in Writers, Writes(v, s)'
         PROVE  \A f \in Document : patches'[v].base[f] = setupProfiles'[s][f]
    BY <1>4, <1>8, <1>15, <1>16, <1>17 DEF DocumentInv
  <1>18. ASSUME NEW s \in Sellers \ crossed', NEW u \in Writers, NEW v \in Writers, Writes(u, s)', Writes(v, s)'
         PROVE  u = v
    BY <1>4, <1>15, <1>18 DEF DocumentInv
  <1>19. AcknowledgedIsKept'
    BY <1>4, <1>8, <1>11 DEF AcknowledgedIsKept, DocumentInv
  <1> QED  BY <1>9, <1>14, <1>17, <1>18, <1>19 DEF DocumentInv

\* The patches the screens and the team begin.
LEMMA PatchesKept ==
    /\ NoPatch \in PatchKind /\ NoPatch.pc = "none"
    /\ \A q \in {"read", "done", "failed"} : \A s \in Sellers : \A r \in TightRow :
         [pc |-> q, space |-> s, patch |-> r] \in PatchKind
  BY DEF PatchKind, NoPatch

LEMMA TightUpdates ==
    /\ \A f \in Fields : \A v \in Value(f) : [Blank EXCEPT ![f] = v] \in TightRow
    /\ \A k \in 1..3 : [Blank EXCEPT !["status"] = k] \in TightRow
    /\ \A c \in 1..2 : [Blank EXCEPT !["category"] = c, !["focus"] = 1, !["status"] = 1] \in TightRow
  <1>1. Blank \in [Fields -> 0..3] /\ \A f \in Fields : Blank[f] = 0
    BY DEF Blank, Unset
  <1>2. Fields = {"category", "poc", "status", "focus", "whatsapp"}
    BY DEF Fields
  <1>3. ASSUME NEW f \in Fields, NEW v \in Value(f)
        PROVE  [Blank EXCEPT ![f] = v] \in TightRow
    <2>1. v \in 0..3 /\ (f # "status" => v \in 0..2)
      BY DEF Value, SetupStatus
    <2>2. [Blank EXCEPT ![f] = v] \in [Fields -> 0..3]
      BY <1>1, <2>1
    <2>3. \A g \in Fields \ {"status"} : [Blank EXCEPT ![f] = v][g] \in 0..2
      BY <1>1, <2>1
    <2> QED  BY <2>2, <2>3, TightRows
  <1>4. ASSUME NEW k \in 1..3
        PROVE  [Blank EXCEPT !["status"] = k] \in TightRow
    <2>1. k \in 0..3
      OBVIOUS
    <2>2. [Blank EXCEPT !["status"] = k] \in [Fields -> 0..3]
      BY <1>1, <2>1
    <2>3. \A g \in Fields \ {"status"} : [Blank EXCEPT !["status"] = k][g] \in 0..2
      BY <1>1
    <2> QED  BY <2>2, <2>3, TightRows
  <1>5. ASSUME NEW c \in 1..2
        PROVE  [Blank EXCEPT !["category"] = c, !["focus"] = 1, !["status"] = 1] \in TightRow
    <2> DEFINE r == [Blank EXCEPT !["category"] = c, !["focus"] = 1, !["status"] = 1]
    <2>2. r \in [Fields -> 0..3]
      BY <1>1, <1>2
    <2>3. \A g \in Fields \ {"status"} : r[g] \in 0..2
      BY <1>1, <1>2
    <2> HIDE DEF r
    <2>4. r \in TightRow
      BY <2>2, <2>3, TightRows
    <2> QED  BY <2>4 DEF r
  <1> QED  BY <1>3, <1>4, <1>5

\* A writer that begins: nothing of the document moves.
LEMMA DocumentBegins ==
    ASSUME DocumentInv, NEW w \in Writers, NEW s \in Sellers, NEW r \in TightRow, Begin(w, s, r),
           setupProfiles' = setupProfiles, askedFor' = askedFor, crossed' = crossed
    PROVE  DocumentInv'
  BY PatchesKept, PatchMoves DEF Begin

\* An answer that is seen: the patch is gone.
LEMMA DocumentEnds ==
    ASSUME DocumentInv, NEW w \in Writers, patches' = [patches EXCEPT ![w] = NoPatch],
           setupProfiles' = setupProfiles, askedFor' = askedFor, crossed' = crossed
    PROVE  DocumentInv'
  BY PatchesKept, PatchMoves

LEMMA DocumentStep ==
    ASSUME SetupInv, [SetupNext]_setupVars
    PROVE  DocumentInv'
  <1> USE SetupAssumption
  <1>0. /\ DocumentInv /\ ReviewInv
        /\ "seller" \in Writers /\ "review" \in Writers /\ "team" \in Writers
    BY DEF SetupInv, Writers
  <1>1. ASSUME NEW w \in Writers, ReadProfile(w)
        PROVE  DocumentInv'
    BY <1>0, <1>1, DocumentRead
  <1>2. ASSUME NEW w \in Writers, WriteProfile(w)
        PROVE  DocumentInv'
    BY <1>0, <1>2, DocumentWritten
  <1>3. ASSUME NEW w \in Writers, PatchFails(w)
        PROVE  DocumentInv'
    BY <1>0, <1>3, PatchKinds, PatchesKept, PatchMoves DEF DocumentInv, PatchFails
  <1>4. ASSUME NEW w \in Sellers, NEW f \in Fields, NEW v \in 1..3, UpdateProfile(w, f, v)
        PROVE  DocumentInv'
    BY <1>4, TightUpdates, <1>0, DocumentBegins DEF UpdateProfile
  <1>5. ASSUME DisconnectWhatsApp
        PROVE  DocumentInv'
    BY <1>0, <1>5, DocumentDisconnected
  <1>6. ASSUME TeamAnswered
        PROVE  DocumentInv'
    BY <1>0, <1>6, DocumentEnds DEF TeamAnswered
  <1>7. ASSUME NEW c \in 1..2, SaveProfile(c)
        PROVE  DocumentInv'
    BY TightUpdates, <1>0, <1>7, DocumentBegins DEF SaveProfile, Send
  <1>8. ASSUME SaveChannels
        PROVE  DocumentInv'
    BY TightUpdates, <1>0, <1>8, DocumentBegins DEF SaveChannels, Send
  <1>9. ASSUME NEW typed \in BOOLEAN, FinishOnboarding(typed)
        PROVE  DocumentInv'
    BY TightUpdates, <1>0, <1>9, DocumentStays, DocumentBegins DEF FinishOnboarding
  <1>10. ASSUME SubmitRequest
         PROVE  DocumentInv'
    BY TightUpdates, <1>0, <1>10, DocumentBegins DEF SubmitRequest
  <1>11. ASSUME StepDone
         PROVE  DocumentInv'
    BY <1>0, <1>11, DocumentEnds DEF StepDone
  <1>12. ASSUME StepFails
         PROVE  DocumentInv'
    BY <1>0, <1>12, DocumentEnds DEF StepFails
  <1>13. ASSUME SaveReview
         PROVE  DocumentInv'
    <2> DEFINE q == IF review.form["focus"] = Unset THEN "failed" ELSE "read"
               r == [f \in Fields |-> IF f \in DOMAIN review.form THEN review.form[f] ELSE Unset]
    <2>1. q \in {"read", "failed"} /\ review.space \in Sellers /\ review.form \in [{"category", "focus"} -> 0..2]
      BY <1>0 DEF ReviewInv, Review
    <2>2. r \in TightRow
      <3>1. \A f \in Fields : r[f] \in 0..2
        BY <2>1 DEF Unset
      <3>2. r \in [Fields -> 0..3]
        <4>1. DOMAIN r = Fields /\ r = [f \in Fields |-> r[f]]
          OBVIOUS
        <4>2. \A k : k \in 0..2 => k \in 0..3
          OBVIOUS
        <4> HIDE DEF r
        <4> QED  BY <4>1, <4>2, <3>1
      <3> HIDE DEF r
      <3> QED  BY <3>1, <3>2, TightRows
    <2>3. [pc |-> q, space |-> review.space, patch |-> r] \in PatchKind
      <3> HIDE DEF q, r
      <3> QED  BY <2>1, <2>2, PatchesKept
    <2>4. /\ patches' = [patches EXCEPT !["review"] = [pc |-> q, space |-> review.space, patch |-> r]]
          /\ setupProfiles' = setupProfiles /\ askedFor' = askedFor /\ crossed' = crossed
      BY <1>13 DEF SaveReview
    <2>5. [pc |-> q, space |-> review.space, patch |-> r].pc # "write"
      BY <2>1
    <2> HIDE DEF q, r
    <2> QED  BY <1>0, <2>3, <2>4, <2>5, PatchMoves
  <1>14. ASSUME ShowSaved
         PROVE  DocumentInv'
    BY <1>0, <1>14, DocumentEnds DEF ShowSaved
  <1>15. ASSUME SaveFails
         PROVE  DocumentInv'
    BY <1>0, <1>15, DocumentEnds DEF SaveFails
  <1>16. ASSUME SubmitFails \/ (\E w \in Sellers : SelectClient(w))
                \/ (\E f \in {"category", "focus"}, v \in 0..1 : EditForm(f, v)) \/ UNCHANGED setupVars
         PROVE  DocumentInv'
    BY <1>0, <1>16, DocumentStays DEF SubmitFails, SelectClient, EditForm, setupVars
  <1> QED
    BY <1>1, <1>2, <1>3, <1>4, <1>5, <1>6, <1>7, <1>8, <1>9, <1>10, <1>11, <1>12, <1>13, <1>14, <1>15, <1>16
    DEF SetupNext

\* The page stays as it is, with its patch: nothing said of it moves.
LEMMA GuideStays ==
    ASSUME GuideInv, guide' = guide, requests' = requests, setupOps' \in 0..MaxSetupOps, setupOps <= setupOps',
           patches'["seller"] = patches["seller"], askedFor'[Newcomer]["status"] = askedFor[Newcomer]["status"]
    PROVE  GuideInv'
  <1>1. requests + (IF guide.pc = "submit" THEN 1 ELSE 0) <= setupOps'
    <2>1. requests \in Nat /\ setupOps \in Nat /\ setupOps' \in Nat /\ setupOps <= setupOps'
          /\ requests + (IF guide.pc = "submit" THEN 1 ELSE 0) <= setupOps
      BY SetupAssumption DEF GuideInv
    <2> QED  BY ONLY <2>1
  <1> QED  BY <1>1 DEF GuideInv

\* An acknowledged update of another writer: a status it set is said, one it did not set stays.
LEMMA GuideSteered ==
    ASSUME SetupInv, NEW w \in Writers, WriteProfile(w)
    PROVE  GuideInv'
  <1> USE SetupAssumption
  <1> DEFINE p == patches[w]
             st == guide.steered \/ (w # "seller" /\ "status" \in Given(p.patch))
  <1>0. GuideInv /\ DocumentInv /\ "seller" \in Writers
    BY DEF SetupInv, Writers
  <1>1. /\ p \in PatchKind /\ p.pc = "write"
        /\ patches' = [patches EXCEPT ![w] = [pc |-> "done", space |-> p.space, patch |-> p.patch]]
        /\ requests' = requests /\ setupOps' = setupOps
        /\ guide' = [guide EXCEPT !.steered = st]
        /\ askedFor' = [askedFor EXCEPT ![p.space] =
             [f \in Fields |-> IF f \in Given(p.patch) THEN p.patch[f] ELSE askedFor[p.space][f]]]
    BY <1>0 DEF WriteProfile, Acknowledge, DocumentInv
  <1>2. p.space \in Sellers /\ p.patch \in TightRow
    BY <1>1, PatchKinds
  <1>3. guide \in Guide /\ st \in BOOLEAN
    BY <1>0 DEF GuideInv, Guide
  <1> HIDE DEF st
  <1>4. /\ guide' \in Guide /\ guide'.step = guide.step /\ guide'.pc = guide.pc
        /\ guide'.typed = guide.typed /\ guide'.retried = guide.retried /\ guide'.steered = st
    BY <1>1, <1>3 DEF Guide
  <1>5. "status" \in Fields /\ askedFor[Newcomer] \in ProfileRow
    BY <1>0 DEF Fields, DocumentInv
  <1>6. askedFor'[Newcomer]["status"] =
          IF p.space = Newcomer /\ "status" \in Given(p.patch) THEN p.patch["status"] ELSE askedFor[Newcomer]["status"]
    BY <1>0, <1>1, <1>2, <1>5 DEF DocumentInv
  <1>7. guide.steered => st
    BY DEF st
  <1>8. /\ patches'["seller"] # NoPatch <=> patches["seller"] # NoPatch
        /\ patches'["seller"].space = patches["seller"].space
        /\ patches'["seller"].patch = patches["seller"].patch
        /\ w # "seller" => patches'["seller"] = patches["seller"]
    <2>1. CASE w = "seller"
      BY <1>0, <1>1, <2>1 DEF DocumentInv, NoPatch
    <2>2. CASE w # "seller"
      BY <1>0, <1>1, <2>2 DEF DocumentInv
    <2> QED  BY <2>1, <2>2
  <1>9. guide'.step = "left" \/ (guide'.step = "knowledge" /\ patches'["seller"].pc = "done") =>
          guide'.steered \/ askedFor'[Newcomer]["status"] = 3
    <2> SUFFICES ASSUME guide.step = "left" \/ (guide.step = "knowledge" /\ patches'["seller"].pc = "done")
                 PROVE  st \/ askedFor'[Newcomer]["status"] = 3
      BY <1>4
    <2>1. CASE w = "seller"
      BY <1>0, <1>1, <2>1, <1>6, <1>5 DEF GuideInv, NoPatch, Given, Unset
    <2>2. CASE w # "seller"
      BY <1>0, <1>8, <2>2, <1>6, <1>7 DEF GuideInv, st
    <2> QED  BY <2>1, <2>2
  <1>10. requests' + (IF guide'.pc = "submit" THEN 1 ELSE 0) <= setupOps'
    BY <1>0, <1>1, <1>4 DEF GuideInv
  <1> HIDE DEF p
  <1>11. guide'.pc = "patch" <=> patches'["seller"] # NoPatch
    BY <1>0, <1>4, <1>8 DEF GuideInv
  <1>12. guide'.step = "knowledge" /\ guide'.pc = "patch" =>
           patches'["seller"].space = Newcomer /\ patches'["seller"].patch["status"] = 3
    BY <1>0, <1>4, <1>8 DEF GuideInv
  <1> QED  BY <1>0, <1>1, <1>4, <1>9, <1>10, <1>11, <1>12 DEF GuideInv

\* The seller's patch moves on, short of an answer that succeeded.
LEMMA GuidePatchMoves ==
    ASSUME GuideInv, DocumentInv, NEW w \in Writers, NEW q, patches[w] # NoPatch, q # NoPatch, q.pc # "done",
           q.space = patches[w].space, q.patch = patches[w].patch, patches' = [patches EXCEPT ![w] = q],
           guide' = guide, requests' = requests, setupOps' = setupOps, askedFor' = askedFor
    PROVE  GuideInv'
  <1>1. "seller" \in Writers
    BY DEF Writers
  <1>2. CASE w = "seller"
    BY <1>1, <1>2 DEF DocumentInv, GuideInv
  <1>3. CASE w # "seller"
    BY <1>1, <1>3, SetupAssumption, GuideStays DEF DocumentInv, GuideInv
  <1> QED  BY <1>2, <1>3

\* A click is within the bound.
LEMMA Clicked ==
    ASSUME GuideInv, SetupClick
    PROVE  /\ setupOps' \in 0..MaxSetupOps /\ setupOps <= setupOps' /\ setupOps' = setupOps + 1
           /\ setupOps \in Nat /\ setupOps' \in Nat
  <1>1. setupOps \in 0..MaxSetupOps /\ MaxSetupOps \in Nat /\ setupOps < MaxSetupOps /\ setupOps' = setupOps + 1
    BY SetupAssumption DEF GuideInv, SetupClick
  <1> QED  BY ONLY <1>1

\* The seller's page sends a patch from a step that is not the last.
LEMMA GuideSends ==
    ASSUME SetupInv, NEW r, Send(r), guide.step \in {"profile", "channels"}
    PROVE  GuideInv'
  <1>0. GuideInv /\ DocumentInv /\ "seller" \in Writers /\ Newcomer \in Sellers
    BY SetupAssumption DEF SetupInv, Writers
  <1>1. /\ SetupClick /\ guide.pc = "idle" /\ guide' = [guide EXCEPT !.pc = "patch"] /\ requests' = requests
        /\ patches' = [patches EXCEPT !["seller"] = [pc |-> "read", space |-> Newcomer, patch |-> r]]
        /\ askedFor' = askedFor
    BY DEF Send, Begin
  <1>2. guide \in Guide
    BY <1>0 DEF GuideInv
  <1>3. /\ guide' \in Guide /\ guide'.step = guide.step /\ guide'.pc = "patch" /\ guide'.typed = guide.typed
        /\ guide'.retried = guide.retried /\ guide'.steered = guide.steered
    BY <1>1, <1>2 DEF Guide
  <1>4. patches'["seller"] = [pc |-> "read", space |-> Newcomer, patch |-> r] /\ patches'["seller"] # NoPatch
    BY <1>0, <1>1 DEF DocumentInv, NoPatch
  <1>5. requests' + (IF guide'.pc = "submit" THEN 1 ELSE 0) <= setupOps' /\ setupOps' \in 0..MaxSetupOps
    BY <1>0, <1>1, Clicked, <1>3 DEF GuideInv
  <1>6. /\ ~guide.typed /\ requests = 0 /\ guide.step # "knowledge" /\ guide.step # "left"
    BY <1>0 DEF GuideInv
  <1> QED  BY <1>0, <1>1, <1>3, <1>4, <1>5, <1>6 DEF GuideInv

LEMMA GuideFinishes ==
    ASSUME SetupInv, NEW typed \in BOOLEAN, FinishOnboarding(typed)
    PROVE  GuideInv'
  <1>0. GuideInv /\ DocumentInv /\ "seller" \in Writers /\ Newcomer \in Sellers
    BY SetupAssumption DEF SetupInv, Writers
  <1> DEFINE q == IF typed THEN "submit" ELSE "patch"
  <1>1. /\ SetupClick /\ guide.step = "knowledge" /\ guide.pc = "idle" /\ requests' = requests /\ askedFor' = askedFor
        /\ guide' = [guide EXCEPT !.pc = q, !.typed = typed]
    BY DEF FinishOnboarding
  <1>2. guide \in Guide /\ requests \in Nat
    BY <1>0 DEF GuideInv
  <1>3. /\ guide' \in Guide /\ guide'.step = "knowledge" /\ guide'.pc = q
        /\ guide'.typed = typed /\ guide'.retried = guide.retried /\ guide'.steered = guide.steered
    BY <1>1, <1>2 DEF Guide
  <1>4. requests' + (IF guide'.pc = "submit" THEN 1 ELSE 0) <= setupOps' /\ setupOps' \in 0..MaxSetupOps
    <2>1. requests \in Nat /\ setupOps \in Nat /\ setupOps' \in Nat /\ setupOps' = setupOps + 1 /\ requests <= setupOps
          /\ requests' = requests
      BY <1>0, <1>1, <1>2, Clicked DEF GuideInv
    <2>2. requests' + 1 <= setupOps' /\ requests' + 0 <= setupOps'
      BY ONLY <2>1
    <2> QED  BY <2>2, <1>0, <1>1, Clicked
  <1>5. ~guide.retried => requests = 0
    BY <1>0, <1>1, <1>2 DEF GuideInv
  <1>6. patches["seller"] = NoPatch
    BY <1>0, <1>1 DEF GuideInv
  <1>7. CASE typed
    <2>1. patches' = patches /\ q = "submit"
      BY <1>7 DEF FinishOnboarding
    <2> HIDE DEF q
    <2>2. patches["seller"].pc # "done"
      BY <1>6 DEF NoPatch
    <2> QED  BY <1>0, <1>1, <1>2, <1>3, <1>4, <1>5, <1>6, <1>7, <2>1, <2>2 DEF GuideInv
  <1>8. CASE ~typed
    <2>1. /\ patches' = [patches EXCEPT !["seller"] =
               [pc |-> "read", space |-> Newcomer, patch |-> [Blank EXCEPT !["status"] = 3]]]
          /\ q = "patch"
      BY <1>8 DEF FinishOnboarding, Begin
    <2>2. /\ patches'["seller"] = [pc |-> "read", space |-> Newcomer, patch |-> [Blank EXCEPT !["status"] = 3]]
          /\ patches'["seller"] # NoPatch /\ patches'["seller"].pc = "read"
      BY <1>0, <2>1 DEF DocumentInv, NoPatch
    <2>3. patches'["seller"].space = Newcomer /\ patches'["seller"].patch["status"] = 3
      BY <2>2 DEF Blank, Fields
    <2> HIDE DEF q
    <2> QED  BY <1>0, <1>1, <1>2, <1>3, <1>4, <1>5, <1>8, <2>1, <2>2, <2>3 DEF GuideInv
  <1> QED  BY <1>7, <1>8

LEMMA GuideSubmits ==
    ASSUME SetupInv, SubmitRequest
    PROVE  GuideInv'
  BY SetupAssumption DEF SetupInv, Writers, SubmitRequest, Begin, GuideInv, Guide, DocumentInv, NoPatch, Blank,
     Fields

LEMMA GuideSubmitFails ==
    ASSUME SetupInv, SubmitFails
    PROVE  GuideInv'
  BY SetupAssumption DEF SetupInv, SubmitFails, GuideInv, Guide

LEMMA GuideAdvances ==
    ASSUME SetupInv, StepDone
    PROVE  GuideInv'
  <1>0. GuideInv /\ DocumentInv /\ "seller" \in Writers
    BY DEF SetupInv, Writers
  <1>1. /\ patches["seller"].pc = "done" /\ patches' = [patches EXCEPT !["seller"] = NoPatch]
        /\ guide' = [guide EXCEPT !.pc = "idle", !.step = AfterStep[guide.step]]
        /\ requests' = requests /\ askedFor' = askedFor /\ setupOps' = setupOps
    BY DEF StepDone
  <1>2. /\ guide \in Guide /\ requests \in Nat /\ setupOps \in 0..MaxSetupOps
        /\ patches["seller"] # NoPatch /\ guide.pc = "patch"
    BY <1>0, <1>1 DEF GuideInv, NoPatch
  <1>3. guide.step \in {"profile", "channels", "knowledge"}
    BY <1>0, <1>2 DEF GuideInv, Guide
  <1>4. /\ guide.step = "profile" => AfterStep[guide.step] = "channels"
        /\ guide.step = "channels" => AfterStep[guide.step] = "knowledge"
        /\ guide.step = "knowledge" => AfterStep[guide.step] = "left"
    BY DEF AfterStep
  <1>5. /\ guide' \in Guide /\ guide'.step = AfterStep[guide.step] /\ guide'.pc = "idle" /\ guide'.typed = guide.typed
        /\ guide'.retried = guide.retried /\ guide'.steered = guide.steered
    BY <1>1, <1>2, <1>3, <1>4 DEF Guide
  <1>6. patches'["seller"] = NoPatch /\ NoPatch.pc = "none"
    BY <1>0, <1>1 DEF DocumentInv, NoPatch
  <1>7. requests' + 0 <= setupOps'
    BY <1>0, <1>1, <1>2 DEF GuideInv
  <1>8. guide.step = "knowledge" => guide.steered \/ askedFor[Newcomer]["status"] = 3
    BY <1>0, <1>1 DEF GuideInv
  <1> QED  BY <1>0, <1>1, <1>2, <1>3, <1>4, <1>5, <1>6, <1>7, <1>8 DEF GuideInv

LEMMA GuideStepFails ==
    ASSUME SetupInv, StepFails
    PROVE  GuideInv'
  <1>0. GuideInv /\ DocumentInv /\ "seller" \in Writers
    BY DEF SetupInv, Writers
  <1> DEFINE re == guide.retried \/ guide.typed
  <1>1. /\ patches["seller"].pc = "failed" /\ patches' = [patches EXCEPT !["seller"] = NoPatch]
        /\ guide' = [guide EXCEPT !.pc = "idle", !.retried = re]
        /\ requests' = requests /\ askedFor' = askedFor /\ setupOps' = setupOps
    BY DEF StepFails
  <1>2. /\ guide \in Guide /\ requests \in Nat /\ setupOps \in 0..MaxSetupOps
        /\ patches["seller"] # NoPatch /\ guide.pc = "patch" /\ re \in BOOLEAN
    BY <1>0, <1>1 DEF GuideInv, NoPatch
  <1>3. ~re => ~guide.retried /\ ~guide.typed
    OBVIOUS
  <1> HIDE DEF re
  <1>5. /\ guide' \in Guide /\ guide'.step = guide.step /\ guide'.pc = "idle" /\ guide'.typed = guide.typed
        /\ guide'.retried = re /\ guide'.steered = guide.steered
    BY <1>1, <1>2 DEF Guide
  <1>6. patches'["seller"] = NoPatch /\ NoPatch.pc = "none"
    BY <1>0, <1>1 DEF DocumentInv, NoPatch
  <1>7. requests' + 0 <= setupOps' /\ guide.step # "left"
    BY <1>0, <1>1, <1>2 DEF GuideInv
  <1> QED  BY <1>0, <1>1, <1>2, <1>3, <1>5, <1>6, <1>7 DEF GuideInv

LEMMA GuideStep ==
    ASSUME SetupInv, [SetupNext]_setupVars
    PROVE  GuideInv'
  <1> USE SetupAssumption
  <1>0. /\ GuideInv /\ DocumentInv /\ setupOps \in 0..MaxSetupOps /\ setupOps <= setupOps
        /\ "seller" \in Writers /\ "review" \in Writers /\ "team" \in Writers
    BY DEF SetupInv, Writers, GuideInv
  <1>1. ASSUME NEW w \in Writers, ReadProfile(w)
        PROVE  GuideInv'
    <2> DEFINE q == [pc |-> "write", space |-> patches[w].space, patch |-> patches[w].patch,
                     base |-> [f \in Document |-> setupProfiles[patches[w].space][f]]]
    <2>1. patches[w] # NoPatch
      BY <1>1 DEF ReadProfile, NoPatch
    <2>2. q # NoPatch /\ q.pc # "done" /\ q.space = patches[w].space /\ q.patch = patches[w].patch
      BY DEF NoPatch
    <2>3. /\ patches' = [patches EXCEPT ![w] = q] /\ guide' = guide /\ requests' = requests
          /\ setupOps' = setupOps /\ askedFor' = askedFor
      BY <1>1 DEF ReadProfile
    <2> HIDE DEF q
    <2> QED  BY <1>0, <2>1, <2>2, <2>3, GuidePatchMoves
  <1>2. ASSUME NEW w \in Writers, WriteProfile(w)
        PROVE  GuideInv'
    BY <1>2, GuideSteered
  <1>3. ASSUME NEW w \in Writers, PatchFails(w)
        PROVE  GuideInv'
    <2> DEFINE q == [pc |-> "failed", space |-> patches[w].space, patch |-> patches[w].patch]
    <2>1. patches[w] # NoPatch
      BY <1>3 DEF PatchFails, NoPatch
    <2>2. q # NoPatch /\ q.pc # "done" /\ q.space = patches[w].space /\ q.patch = patches[w].patch
      BY DEF NoPatch
    <2>3. /\ patches' = [patches EXCEPT ![w] = q] /\ guide' = guide /\ requests' = requests
          /\ setupOps' = setupOps /\ askedFor' = askedFor
      BY <1>3 DEF PatchFails
    <2> HIDE DEF q
    <2> QED  BY <1>0, <2>1, <2>2, <2>3, GuidePatchMoves
  <1>4. ASSUME NEW w \in Sellers, NEW f \in Fields, NEW v \in 1..3, UpdateProfile(w, f, v)
        PROVE  GuideInv'
    BY <1>0, <1>4, Clicked, GuideStays DEF UpdateProfile, Begin, DocumentInv
  <1>5. ASSUME DisconnectWhatsApp
        PROVE  GuideInv'
    <2> DEFINE space == patches["team"].space
    <2>1. /\ guide' = guide /\ requests' = requests /\ setupOps' = setupOps
          /\ askedFor' = [askedFor EXCEPT ![space]["poc"] = Unset, ![space]["whatsapp"] = Skip]
          /\ patches'["seller"] = patches["seller"] /\ patches["team"].pc = "write"
      BY <1>0, <1>5 DEF DisconnectWhatsApp, DocumentInv
    <2>2. space \in Sellers
      BY <1>0, <2>1, PatchKinds DEF DocumentInv
    <2>3. askedFor[space] \in ProfileRow /\ askedFor \in [Sellers -> ProfileRow]
      BY <1>0, <2>2 DEF DocumentInv
    <2>4. [askedFor[space] EXCEPT !["poc"] = Unset, !["whatsapp"] = Skip]["status"] = askedFor[space]["status"]
      BY <2>3 DEF ProfileRow, Fields
    <2>5. askedFor'[Newcomer]["status"] = askedFor[Newcomer]["status"]
      BY <2>1, <2>2, <2>3, <2>4
    <2> QED  BY <1>0, <2>1, <2>5, GuideStays
  <1>6. ASSUME TeamAnswered \/ SaveReview \/ ShowSaved \/ SaveFails \/ (\E w \in Sellers : SelectClient(w))
               \/ (\E f \in {"category", "focus"}, v \in 0..1 : EditForm(f, v)) \/ UNCHANGED setupVars
        PROVE  GuideInv'
    BY <1>6, <1>0, Clicked, GuideStays DEF TeamAnswered, SaveReview, ShowSaved, SaveFails, SelectClient, EditForm,
       setupVars, DocumentInv
  <1>7. ASSUME NEW c \in 1..2, SaveProfile(c)
        PROVE  GuideInv'
    BY <1>7, GuideSends DEF SaveProfile
  <1>8. ASSUME SaveChannels
        PROVE  GuideInv'
    BY <1>8, GuideSends DEF SaveChannels
  <1>9. ASSUME NEW typed \in BOOLEAN, FinishOnboarding(typed)
        PROVE  GuideInv'
    BY <1>9, GuideFinishes
  <1>10. ASSUME SubmitRequest \/ SubmitFails \/ StepDone \/ StepFails
         PROVE  GuideInv'
    BY <1>10, GuideSubmits, GuideSubmitFails, GuideAdvances, GuideStepFails
  <1> QED
    BY <1>1, <1>2, <1>3, <1>4, <1>5, <1>6, <1>7, <1>8, <1>9, <1>10 DEF SetupNext

\* The list and the form of the review screen.
LEMMA ReviewStep ==
    ASSUME SetupInv, [SetupNext]_setupVars
    PROVE  ReviewInv'
  <1> USE SetupAssumption
  <1> DEFINE Form == [{"category", "focus"} -> 0..2]
  <1>0. /\ ReviewInv /\ DocumentInv /\ "review" \in Writers
        /\ review \in Review /\ review.listed \in [Sellers -> TightRow]
    BY DEF SetupInv, Writers, ReviewInv
  <1>1. /\ review.space \in Sellers /\ review.form \in Form /\ review.edited \in BOOLEAN
        /\ review.switched \in BOOLEAN /\ review.listed \in SetupRows
    BY <1>0 DEF Review
  <1>2. [Sellers -> TightRow] \subseteq SetupRows
    BY TightRows DEF SetupRows
  <1>3. \A r \in TightRow : FormFromClient(r) \in Form
    BY TightRows DEF Fields, FormFromClient
  <1>4. ASSUME NEW w \in Sellers, SelectClient(w)
        PROVE  ReviewInv'
    <2> DEFINE fm == FormFromClient(review.listed[w])
    <2>1. fm \in Form /\ Saving \in BOOLEAN
      BY <1>0, <1>3 DEF Saving
    <2>2. review' = [review EXCEPT !.space = w, !.form = fm, !.edited = FALSE, !.switched = Saving]
      BY <1>4 DEF SelectClient
    <2>3. review'.form = FormFromClient(review'.listed[review'.space])
      BY <1>0, <2>2 DEF Review
    <2> HIDE DEF fm
    <2>4. review' \in Review /\ review'.listed = review.listed
      BY <1>0, <2>1, <2>2 DEF Review
    <2> QED  BY <1>0, <2>3, <2>4 DEF ReviewInv, FormIsOfSelected
  <1>5. ASSUME NEW f \in {"category", "focus"}, NEW v \in 0..1, EditForm(f, v)
        PROVE  ReviewInv'
    <2> DEFINE fm == [review.form EXCEPT ![f] = v]
    <2>1. fm \in Form
      BY <1>1
    <2>2. review' = [review EXCEPT !.form = fm, !.edited = TRUE]
      BY <1>5 DEF EditForm
    <2> HIDE DEF fm
    <2>3. review' \in Review /\ review'.listed = review.listed /\ review'.edited
      BY <1>0, <2>1, <2>2 DEF Review
    <2> QED  BY <1>0, <2>3 DEF ReviewInv, FormIsOfSelected
  <1>6. ASSUME ShowSaved
        PROVE  ReviewInv'
    <2> DEFINE space == patches["review"].space
               row == setupProfiles[space]
               fm == FormFromClient(row)
               sw == space # review.space
               ls == [review.listed EXCEPT ![space] = row]
    <2>1. patches["review"] \in PatchKind /\ patches["review"].pc = "done"
      BY <1>0, <1>6 DEF DocumentInv, ShowSaved
    <2>2. space \in Sellers /\ row \in TightRow
      BY <2>1, PatchKinds, <1>0 DEF DocumentInv
    <2>3. fm \in Form /\ ls \in [Sellers -> TightRow] /\ sw \in BOOLEAN
      BY <1>0, <1>3, <2>2
    <2>4. review' = [review EXCEPT !.listed = ls, !.form = fm, !.edited = FALSE, !.switched = sw]
      BY <1>6 DEF ShowSaved
    <2>5. ls[space] = row
      BY <1>0, <2>2
    <2>6. ~sw => fm = FormFromClient(ls[review.space])
      BY <2>5
    <2> HIDE DEF fm, ls, sw
    <2>7. /\ review' \in Review /\ review'.listed = ls /\ review'.switched = sw /\ review'.form = fm
          /\ review'.space = review.space
      BY <1>0, <1>2, <2>3, <2>4 DEF Review
    <2> QED  BY <2>3, <2>6, <2>7 DEF ReviewInv, FormIsOfSelected
  <1>7. CASE UNCHANGED review
    BY <1>0, <1>7 DEF ReviewInv, FormIsOfSelected
  <1> QED
    BY <1>4, <1>5, <1>6, <1>7 DEF SetupNext, ReadProfile, WriteProfile, PatchFails, UpdateProfile, DisconnectWhatsApp,
       TeamAnswered, SaveProfile, SaveChannels, Send, FinishOnboarding, SubmitRequest, SubmitFails, StepDone,
       StepFails, SaveReview, SaveFails, setupVars

LEMMA SetupStarts == SetupInit => SetupInv
  <1> SUFFICES ASSUME SetupInit
               PROVE  SetupInv
    OBVIOUS
  <1> USE SetupAssumption
  <1>1. /\ setupProfiles = [w \in Sellers |-> Blank] /\ askedFor = setupProfiles /\ crossed = {}
        /\ patches = [w \in Writers |-> NoPatch] /\ requests = 0 /\ setupOps = 0
        /\ guide = [step |-> "profile", typed |-> FALSE, pc |-> "idle", retried |-> FALSE, steered |-> FALSE]
        /\ review = [space |-> Newcomer, form |-> FormFromClient(Blank), edited |-> FALSE,
                     listed |-> setupProfiles, switched |-> FALSE]
    BY DEF SetupInit
  <1>2. Blank \in TightRow /\ Blank \in ProfileRow
    BY TightRows
  <1>3. DocumentInv
    BY PatchesKept, <1>1, <1>2 DEF Writes, DocumentInv, AcknowledgedIsKept
  <1>4. GuideInv
    BY <1>1 DEF Writers, NoPatch, Guide, GuideInv
  <1>5. ReviewInv
    BY <1>1, <1>2 DEF Blank, Fields, Unset, FormFromClient, SetupRows, Review, ReviewInv, FormIsOfSelected
  <1> QED  BY <1>3, <1>4, <1>5 DEF SetupInv

LEMMA SetupStep == SetupInv /\ [SetupNext]_setupVars => SetupInv'
  BY DocumentStep, GuideStep, ReviewStep DEF SetupInv

LEMMA SetupKeeps == SetupInv => SetupTypeOK /\ AcknowledgedIsKept /\ FormIsOfSelected /\ OnboardedIsSubmitted
  <1> SUFFICES ASSUME SetupInv
               PROVE  SetupTypeOK /\ AcknowledgedIsKept /\ FormIsOfSelected /\ OnboardedIsSubmitted
    OBVIOUS
  <1>0. DocumentInv /\ GuideInv /\ ReviewInv
    BY DEF SetupInv
  <1>1. SetupTypeOK
    <2>1. setupProfiles \in SetupRows /\ askedFor \in SetupRows
      BY <1>0, TightRows DEF DocumentInv, SetupRows
    <2>2. ASSUME NEW w \in Writers
          PROVE  \/ patches[w] = NoPatch
                 \/ patches[w] \in [pc : {"read", "done", "failed"}, space : Sellers, patch : ProfileRow]
                 \/ patches[w] \in [pc : {"write"}, space : Sellers, patch : ProfileRow, base : [Document -> 0..2]]
      BY <1>0 DEF DocumentInv, TightRow, PatchKind
    <2>3. requests \in 0..MaxSetupOps
      <3>1. /\ requests \in Nat /\ setupOps \in Nat /\ setupOps <= MaxSetupOps /\ MaxSetupOps \in Nat
            /\ requests + (IF guide.pc = "submit" THEN 1 ELSE 0) <= setupOps
        BY <1>0, SetupAssumption DEF GuideInv
      <3> QED  BY ONLY <3>1
    <2> QED  BY <1>0, <2>1, <2>2, <2>3 DEF SetupTypeOK, DocumentInv, GuideInv, ReviewInv
  <1>2. OnboardedIsSubmitted
    BY <1>0 DEF GuideInv, OnboardedIsSubmitted
  <1> QED  BY <1>0, <1>1, <1>2 DEF DocumentInv, ReviewInv

-----------------------------------------------------------------------------
(* The codes of the sign-in and the sign-up.                                 *)

\* The requests a tab can have under way, with so many workspaces and these challenges.
CallKind(n, known) ==
    {NoCall, [pc |-> "signup"], [pc |-> "failed"], [pc |-> "opening"]}
      \cup [pc : {"request"}, space : 0..n]
      \cup [pc : {"deliver"}, space : 1..n, code : known]
      \cup [pc : {"answer"}, space : 0..n, code : 1..Fake, mode : Modes, expires : 0..(MaxSignClock + CodeLife)]
      \cup [pc : {"verify"}, code : 1..Fake, right : BOOLEAN]
      \cup [pc : {"consume", "open"}, code : known]
TabRow(n) == [code : 0..Fake, space : 0..n, error : BOOLEAN, expires : 0..(MaxSignClock + CodeLife), opened : BOOLEAN]

SigningUp == {t \in Tabs : calls[t].pc = "signup"}
Created == {t \in SignupTabs : tab[t].space # 0}

SignShape ==
    /\ codes \in Seq(CodeRow) /\ Len(codes) <= MaxCodes
    /\ spaces \in Nat \ {0} /\ inactive \in BOOLEAN
    /\ tab \in [Tabs -> TabRow(spaces)]
    /\ calls \in [Tabs -> CallKind(spaces, DOMAIN codes)]
    /\ unheard \subseteq Tabs /\ signClock \in 0..MaxSignClock /\ signOps \in 0..MaxSignOps

\* No more workspaces than clicks, and unless an answer was lost than tabs that show one.
SpacesAreCounted ==
    /\ IsFiniteSet(SigningUp) /\ spaces + Cardinality(SigningUp) <= signOps + 1
    /\ IsFiniteSet(Created) /\ (SignupTabs \cap unheard = {} => spaces - 1 <= Cardinality(Created))

\* The answer that is on its way brings a challenge to show.
Brings(x) == x.pc = "answer" /\ x.mode # "dry-run"

\* A challenge of the tab nobody used, newer than what the tab shows.
Fresh(t, c) == c \in DOMAIN codes /\ codes[c].tab = t /\ ~codes[c].spent /\ tab[t].code < c

CallFits(t, x) ==
    /\ x.pc = "signup" => t \in SignupTabs /\ tab[t].space = 0
    /\ x.pc \in {"request", "deliver", "answer"} /\ t \in SignupTabs => x.space = tab[t].space /\ x.space # 0
    /\ x.pc = "deliver" => Fresh(t, x.code) /\ ~codes[x.code].mailed
    /\ Brings(x) => Fresh(t, x.code) /\ codes[x.code].expires = x.expires
    /\ x.pc \in {"verify", "consume", "open"} => x.code = tab[t].code /\ x.code # 0

Shows(t) == tab[t].code # 0 => /\ tab[t].code \in DOMAIN codes /\ codes[tab[t].code].tab = t
                               /\ codes[tab[t].code].expires = tab[t].expires

HeardOf(t) ==
    t \notin unheard =>
      \A c \in DOMAIN codes : codes[c].tab = t /\ codes[c].mailed =>
        c <= tab[t].code \/ (Brings(calls[t]) /\ c <= calls[t].code)

SignInv == /\ SignShape /\ SpacesAreCounted /\ SpentCodeIsSaid
           /\ \A t \in Tabs : CallFits(t, calls[t]) /\ Shows(t) /\ HeardOf(t)

-----------------------------------------------------------------------------

LEMMA CallFacts ==
    ASSUME NEW n \in Nat, NEW known, NEW x \in CallKind(n, known)
    PROVE  /\ x.pc = "none" <=> x = NoCall
           /\ x.pc = "request" => x.space \in 0..n
           /\ x.pc = "deliver" => x.space \in 1..n /\ x.code \in known
           /\ x.pc = "answer" => /\ x.space \in 0..n /\ x.code \in 1..Fake /\ x.mode \in Modes
                                 /\ x.expires \in 0..(MaxSignClock + CodeLife)
           /\ x.pc = "verify" => x.code \in 1..Fake /\ x.right \in BOOLEAN
           /\ x.pc \in {"consume", "open"} => x.code \in known
PROOF
  BY DEF CallKind, NoCall

\* More workspaces and challenges allow more requests.
LEMMA CallsGrow ==
    ASSUME NEW n \in Nat, NEW m \in Nat, n <= m, NEW known, NEW more, known \subseteq more
    PROVE  CallKind(n, known) \subseteq CallKind(m, more) /\ TabRow(n) \subseteq TabRow(m)
PROOF
  BY DEF CallKind, TabRow

LEMMA SignNumbers ==
    /\ CodeLife \in Nat /\ MaxSignClock \in Nat /\ MaxCodes \in Nat /\ MaxSignOps \in Nat
    /\ Fake = MaxCodes + 1 /\ Fake \in Nat
PROOF
  BY SignAssumption DEF Fake

LEMMA SignStarts == SignInit => SignInv
PROOF
<1> SUFFICES ASSUME SignInit PROVE SignInv
  OBVIOUS
<1> USE DEF SignInit
<1>1. SigningUp = {} /\ Created = {}
  BY DEF SigningUp, Created, NoCall, NoTab, Tabs
<1>2. IsFiniteSet(SigningUp) /\ Cardinality(SigningUp) = 0 /\ IsFiniteSet(Created) /\ Cardinality(Created) = 0
  BY <1>1, FS_EmptySet
<1>3. NoTab \in TabRow(1) /\ NoCall \in CallKind(1, {})
  BY SignNumbers DEF NoTab, TabRow, NoCall, CallKind
<1>4. DOMAIN codes = {} /\ Len(codes) = 0 /\ codes \in Seq(CodeRow)
  OBVIOUS
<1>5. SignShape
  <2>1. DOMAIN codes = {} /\ spaces = 1 /\ tab = [t \in Tabs |-> NoTab] /\ calls = [t \in Tabs |-> NoCall]
    BY <1>4
  <2>2. tab \in [Tabs -> TabRow(spaces)] /\ calls \in [Tabs -> CallKind(spaces, DOMAIN codes)]
    BY ONLY <1>3, <2>1
  <2>3. spaces = 1 /\ inactive = FALSE /\ unheard = {} /\ signClock = 0 /\ signOps = 0
    OBVIOUS
  <2>4. 0 \in 0..MaxSignClock /\ 0 \in 0..MaxSignOps /\ 0 <= MaxCodes /\ 1 \in Nat \ {0}
    BY ONLY SignNumbers
  <2> QED
    BY ONLY <1>4, <2>2, <2>3, <2>4 DEF SignShape
<1>6. SpacesAreCounted
  BY <1>2 DEF SpacesAreCounted
<1>7. \A t \in Tabs : CallFits(t, calls[t]) /\ Shows(t) /\ HeardOf(t)
  BY <1>4 DEF CallFits, Shows, HeardOf, NoCall, NoTab, Brings
<1>8. SpentCodeIsSaid
  BY <1>4 DEF SpentCodeIsSaid
<1> QED
  BY <1>5, <1>6, <1>7, <1>8 DEF SignInv

\* What is stored stays as it is; the request of one tab moves on, and its page may say or clear an error or open.
LEMMA CallMoves ==
    ASSUME SignInv, NEW t \in Tabs, NEW x \in CallKind(spaces, DOMAIN codes), NEW err \in BOOLEAN, NEW op \in BOOLEAN,
           calls' = [calls EXCEPT ![t] = x],
           tab' = [tab EXCEPT ![t] = [@ EXCEPT !.error = err, !.opened = op]],
           UNCHANGED <<codes, spaces, inactive, signClock>>,
           unheard \subseteq unheard', unheard' \subseteq unheard \cup {t},
           signOps' \in {signOps, signOps + 1}, signOps' \in 0..MaxSignOps,
           x.pc = "signup" => signOps' = signOps + 1,
           CallFits(t, x),
           x = NoCall => err \/ op,
           Brings(calls[t]) => t \in unheard'
    PROVE  SignInv'
PROOF
<1> USE DEF SignInv
<1>1. /\ tab \in [Tabs -> TabRow(spaces)] /\ calls \in [Tabs -> CallKind(spaces, DOMAIN codes)]
      /\ spaces \in Nat \ {0}
  BY DEF SignShape
<1>2. /\ calls'[t] = x /\ \A u \in Tabs : u # t => calls'[u] = calls[u]
      /\ calls' \in [Tabs -> CallKind(spaces, DOMAIN codes)]
  BY <1>1
<1>3. /\ tab' \in [Tabs -> TabRow(spaces)]
      /\ \A u \in Tabs : /\ tab'[u].code = tab[u].code /\ tab'[u].space = tab[u].space
                         /\ tab'[u].expires = tab[u].expires
                         /\ u # t => tab'[u] = tab[u]
      /\ tab'[t].error = err /\ tab'[t].opened = op
  BY <1>1 DEF TabRow
<1>4. SignShape'
  BY <1>2, <1>3 DEF SignShape
<1>5. SpacesAreCounted'
  <2>1. Created' = Created
    BY <1>3 DEF Created, Tabs
  <2>2. SigningUp' \subseteq SigningUp \cup (IF x.pc = "signup" THEN {t} ELSE {})
    BY <1>2 DEF SigningUp
  <2>3. IsFiniteSet(SigningUp) /\ Cardinality(SigningUp) \in Nat /\ spaces + Cardinality(SigningUp) <= signOps + 1
    BY FS_CardinalityType DEF SpacesAreCounted
  <2>4. IsFiniteSet(SigningUp') /\ spaces + Cardinality(SigningUp') <= signOps' + 1
    <3>1. signOps \in Nat /\ signOps' \in Nat
      BY DEF SignShape
    <3>2. CASE x.pc = "signup"
      <4>1. IsFiniteSet(SigningUp') /\ Cardinality(SigningUp') \in Nat /\ Cardinality(SigningUp') <= Cardinality(SigningUp) + 1
        BY <2>2, <2>3, <3>2, CountsOneMore
      <4> QED
        BY <1>1, <2>3, <3>1, <3>2, <4>1
    <3>3. CASE x.pc # "signup"
      BY <2>2, <2>3, <3>3, FS_Subset, FS_CardinalityType, <1>1, <3>1
    <3> QED
      BY <3>2, <3>3
  <2> QED
    BY <2>1, <2>4 DEF SpacesAreCounted
<1>6. \A u \in Tabs : \A y : CallFits(u, y)' <=> CallFits(u, y)
  BY <1>3 DEF CallFits, Fresh, Brings
<1>8. \A u \in Tabs : Shows(u)'
  BY <1>3 DEF Shows
<1>9. \A u \in Tabs : HeardOf(u)'
  BY <1>2, <1>3 DEF HeardOf, Brings
<1>10. SpentCodeIsSaid'
  BY <1>2, <1>3 DEF SpentCodeIsSaid, ReadyToAsk
<1>11. \A u \in Tabs : CallFits(u, calls[u])'
  BY <1>2, <1>6
<1> QED
  BY <1>4, <1>5, <1>8, <1>9, <1>10, <1>11

\* A click of an idle page clears its error.
LEMMA ClickStep ==
    ASSUME SignInv, NEW t \in Tabs,
           \/ \E space \in {0, 1} : SubmitIdentifier(t, space)
           \/ RequestNewCode(t) \/ HandleSubmit(t) \/ ResendCode(t)
           \/ \E right \in BOOLEAN : VerifyClick(t, right)
    PROVE  SignInv'
PROOF
<1> USE DEF SignInv
<1>1. /\ UNCHANGED <<codes, spaces, inactive, signClock, unheard>>
      /\ tab' = [tab EXCEPT ![t].error = FALSE]
      /\ signOps' = signOps + 1 /\ signOps < MaxSignOps /\ calls[t] = NoCall
  BY DEF SubmitIdentifier, RequestNewCode, HandleSubmit, ResendCode, VerifyClick, SignClick, ReadyToAsk
<1>2. tab[t] \in TabRow(spaces) /\ spaces \in Nat \ {0} /\ tab \in [Tabs -> TabRow(spaces)]
  BY DEF SignShape
<1>3. tab' = [tab EXCEPT ![t] = [@ EXCEPT !.error = FALSE, !.opened = tab[t].opened]] /\ tab[t].opened \in BOOLEAN
  BY <1>1, <1>2 DEF TabRow
<1>4. signOps' \in 0..MaxSignOps
  BY <1>1, SignNumbers DEF SignShape
<1>5. PICK x \in CallKind(spaces, DOMAIN codes) : calls' = [calls EXCEPT ![t] = x] /\ CallFits(t, x) /\ x # NoCall
  <2>1. ASSUME NEW space \in {0, 1}, SubmitIdentifier(t, space)
        PROVE  \E x \in CallKind(spaces, DOMAIN codes) : calls' = [calls EXCEPT ![t] = x] /\ CallFits(t, x) /\ x # NoCall
    <3> DEFINE x == [pc |-> "request", space |-> space]
    <3>1. calls' = [calls EXCEPT ![t] = x] /\ t \notin SignupTabs
      BY <2>1, SignAssumption DEF SubmitIdentifier, Call
    <3>2. x \in CallKind(spaces, DOMAIN codes) /\ x # NoCall
      BY <1>2 DEF CallKind, NoCall
    <3>3. CallFits(t, x)
      BY <3>1 DEF CallFits, Brings
    <3> QED
      BY <3>1, <3>2, <3>3
  <2>2. ASSUME RequestNewCode(t) \/ ResendCode(t)
        PROVE  \E x \in CallKind(spaces, DOMAIN codes) : calls' = [calls EXCEPT ![t] = x] /\ CallFits(t, x) /\ x # NoCall
    <3> DEFINE x == [pc |-> "request", space |-> tab[t].space]
    <3>1. calls' = [calls EXCEPT ![t] = x] /\ (t \in SignupTabs => tab[t].space # 0)
      BY <2>2, SignAssumption DEF RequestNewCode, ResendCode, Call
    <3>2. x \in CallKind(spaces, DOMAIN codes) /\ x # NoCall
      BY <1>2 DEF CallKind, NoCall, TabRow
    <3>3. CallFits(t, x)
      BY <3>1 DEF CallFits, Brings
    <3> QED
      BY <3>1, <3>2, <3>3
  <2>3. ASSUME HandleSubmit(t)
        PROVE  \E x \in CallKind(spaces, DOMAIN codes) : calls' = [calls EXCEPT ![t] = x] /\ CallFits(t, x) /\ x # NoCall
    <3> DEFINE x == [pc |-> "signup"]
    <3>1. calls' = [calls EXCEPT ![t] = x] /\ t \in SignupTabs /\ tab[t].space = 0
      BY <2>3 DEF HandleSubmit, Call
    <3>2. x \in CallKind(spaces, DOMAIN codes) /\ x # NoCall
      BY DEF CallKind, NoCall
    <3>3. CallFits(t, x)
      BY <3>1 DEF CallFits, Brings
    <3> QED
      BY <3>1, <3>2, <3>3
  <2>4. ASSUME NEW right \in BOOLEAN, VerifyClick(t, right)
        PROVE  \E x \in CallKind(spaces, DOMAIN codes) : calls' = [calls EXCEPT ![t] = x] /\ CallFits(t, x) /\ x # NoCall
    <3> DEFINE x == [pc |-> "verify", code |-> tab[t].code, right |-> right]
    <3>1. calls' = [calls EXCEPT ![t] = x] /\ tab[t].code # 0
      BY <2>4 DEF VerifyClick, Call
    <3>2. x \in CallKind(spaces, DOMAIN codes) /\ x # NoCall
      BY <1>2, <3>1, SignNumbers DEF TabRow, CallKind, NoCall
    <3>3. CallFits(t, x)
      BY <3>1 DEF CallFits, Brings
    <3> QED
      BY <3>1, <3>2, <3>3
  <2> QED
    BY <2>1, <2>2, <2>3, <2>4
<1>6. ~Brings(calls[t])
  BY <1>1 DEF Brings, NoCall
<1> QED
  BY <1>1, <1>3, <1>4, <1>5, <1>6, CallMoves

\* The service answers, refuses or fails, or the page shows a failure or opens, with nothing stored.
LEMMA AnswerMoves ==
    ASSUME SignInv, NEW t \in Tabs,
           \/ UnknownIdentifier(t) \/ RequestCodeRefused(t) \/ SendFails(t) \/ DeliveryIssue(t) \/ AnswerLost(t)
           \/ VerifyCode(t) \/ InactiveRefused(t) \/ ShowFailure(t) \/ OpenWorkspace(t)
    PROVE  SignInv'
PROOF
<1> USE DEF SignInv
<1> DEFINE Known == DOMAIN codes
<1>1. /\ tab[t] \in TabRow(spaces) /\ spaces \in Nat \ {0} /\ tab \in [Tabs -> TabRow(spaces)]
      /\ calls[t] \in CallKind(spaces, Known) /\ signClock \in 0..MaxSignClock /\ signOps \in 0..MaxSignOps
      /\ CallFits(t, calls[t])
  BY DEF SignShape
<1>2. tab[t].error \in BOOLEAN /\ tab[t].opened \in BOOLEAN
  BY <1>1 DEF TabRow
<1>3. tab = [tab EXCEPT ![t] = [@ EXCEPT !.error = tab[t].error, !.opened = tab[t].opened]]
  BY <1>1 DEF TabRow
<1> DEFINE failed == [pc |-> "failed"]
           opening == [pc |-> "opening"]
<1>4. /\ failed \in CallKind(spaces, Known) /\ failed # NoCall /\ failed.pc = "failed"
      /\ opening \in CallKind(spaces, Known) /\ opening # NoCall /\ opening.pc = "opening"
      /\ NoCall \in CallKind(spaces, Known) /\ NoCall.pc = "none"
  BY DEF CallKind, NoCall
<1>5. CallFits(t, failed) /\ CallFits(t, opening) /\ CallFits(t, NoCall)
  BY <1>4 DEF CallFits, Brings
<1>6. CASE RequestCodeRefused(t) \/ SendFails(t) \/ DeliveryIssue(t) \/ AnswerLost(t) \/ InactiveRefused(t)
  <2>1. /\ calls' = [calls EXCEPT ![t] = failed] /\ UNCHANGED <<codes, spaces, inactive, tab, signClock, signOps>>
        /\ unheard \subseteq unheard' /\ unheard' \subseteq unheard \cup {t}
        /\ Brings(calls[t]) => t \in unheard'
    BY <1>6 DEF RequestCodeRefused, SendFails, DeliveryIssue, AnswerLost, InactiveRefused, Call, Brings
  <2> HIDE DEF failed
  <2> QED
    BY <1>1, <1>2, <1>3, <1>4, <1>5, <2>1, CallMoves
<1>7. CASE UnknownIdentifier(t)
  <2> DEFINE x == [pc |-> "answer", space |-> 0, code |-> Fake, mode |-> "dry-run", expires |-> signClock + CodeLife]
  <2>1. /\ calls' = [calls EXCEPT ![t] = x] /\ UNCHANGED <<codes, spaces, inactive, tab, unheard, signClock, signOps>>
        /\ calls[t].pc = "request" /\ calls[t].space = 0
    BY <1>7 DEF UnknownIdentifier, Call
  <2>2. x \in CallKind(spaces, Known) /\ x # NoCall /\ x.pc = "answer"
    BY <1>1, SignNumbers DEF CallKind, NoCall, Modes
  <2>3. CallFits(t, x)
    BY <1>1, <2>1 DEF CallFits, Brings
  <2>4. ~Brings(calls[t])
    BY <2>1 DEF Brings
  <2> HIDE DEF x
  <2> QED
    BY <1>1, <1>2, <1>3, <2>1, <2>2, <2>3, <2>4, CallMoves
<1>8. CASE VerifyCode(t)
  <2> DEFINE x == [pc |-> "consume", code |-> calls[t].code]
  <2>1. /\ UNCHANGED <<codes, spaces, inactive, tab, unheard, signClock, signOps>> /\ calls[t].pc = "verify"
        /\ \/ calls' = [calls EXCEPT ![t] = failed]
           \/ calls' = [calls EXCEPT ![t] = x] /\ calls[t].code \in Known
    BY <1>8 DEF VerifyCode, Call
  <2>2. ~Brings(calls[t])
    BY <2>1 DEF Brings
  <2>3. CASE calls' = [calls EXCEPT ![t] = failed]
    <3> HIDE DEF failed
    <3> QED
      BY <1>1, <1>2, <1>3, <1>4, <1>5, <2>1, <2>2, <2>3, CallMoves
  <2>4. CASE calls' = [calls EXCEPT ![t] = x] /\ calls[t].code \in Known
    <3>1. x \in CallKind(spaces, Known) /\ x # NoCall /\ x.pc = "consume"
      BY <2>4 DEF CallKind, NoCall
    <3>2. CallFits(t, x)
      BY <1>1, <2>1 DEF CallFits, Brings
    <3> HIDE DEF x
    <3> QED
      BY <1>1, <1>2, <1>3, <2>1, <2>2, <2>4, <3>1, <3>2, CallMoves
  <2> QED
    BY <2>1, <2>3, <2>4
<1>9. CASE ShowFailure(t)
  <2>1. /\ calls' = [calls EXCEPT ![t] = NoCall] /\ UNCHANGED <<codes, spaces, inactive, unheard, signClock, signOps>>
        /\ tab' = [tab EXCEPT ![t].error = TRUE] /\ calls[t].pc = "failed"
    BY <1>9 DEF ShowFailure, Call
  <2>2. tab' = [tab EXCEPT ![t] = [@ EXCEPT !.error = TRUE, !.opened = tab[t].opened]]
    BY <1>1, <2>1 DEF TabRow
  <2>3. ~Brings(calls[t])
    BY <2>1 DEF Brings
  <2> QED
    BY <1>1, <1>2, <1>4, <1>5, <2>1, <2>2, <2>3, CallMoves
<1>10. CASE OpenWorkspace(t)
  <2>1. /\ calls' = [calls EXCEPT ![t] = opening] /\ UNCHANGED <<codes, spaces, inactive, unheard, signClock, signOps>>
        /\ tab' = [tab EXCEPT ![t].opened = TRUE] /\ calls[t].pc = "open"
    BY <1>10 DEF OpenWorkspace, Call
  <2>2. tab' = [tab EXCEPT ![t] = [@ EXCEPT !.error = tab[t].error, !.opened = TRUE]]
    BY <1>1, <2>1 DEF TabRow
  <2>3. ~Brings(calls[t])
    BY <2>1 DEF Brings
  <2> HIDE DEF opening
  <2> QED
    BY <1>1, <1>2, <1>4, <1>5, <2>1, <2>2, <2>3, CallMoves
<1> QED
  BY <1>6, <1>7, <1>8, <1>9, <1>10

\* A workspace is made, and shown unless the answer is lost.
LEMMA SignupStep ==
    ASSUME SignInv, NEW t \in Tabs, SignupCreates(t) \/ SignupUnheard(t)
    PROVE  SignInv'
PROOF
<1> USE DEF SignInv
<1> DEFINE shown == SignupCreates(t)
           x == IF shown THEN [pc |-> "request", space |-> spaces + 1] ELSE [pc |-> "failed"]
           place == IF shown THEN spaces + 1 ELSE 0
<1>1. /\ calls[t].pc = "signup" /\ spaces' = spaces + 1 /\ UNCHANGED <<codes, inactive, signClock, signOps>>
      /\ calls' = [calls EXCEPT ![t] = x]
      /\ unheard \subseteq unheard' /\ unheard' \subseteq Tabs /\ (~shown => t \in unheard')
  BY DEF SignupCreates, SignupUnheard, Call, SignShape
<1>2. CallFits(t, calls[t])
  OBVIOUS
<1>3. t \in SignupTabs /\ tab[t].space = 0
  BY <1>1, <1>2 DEF CallFits
<1>4. /\ tab \in [Tabs -> TabRow(spaces)] /\ calls \in [Tabs -> CallKind(spaces, DOMAIN codes)]
      /\ spaces \in Nat \ {0}
  BY DEF SignShape
<1>5. tab' = [tab EXCEPT ![t].space = place]
  <2>1. CASE shown
    BY <2>1 DEF SignupCreates
  <2>2. CASE ~shown
    BY <2>2, <1>3, <1>4 DEF SignupUnheard, TabRow
  <2> QED
    BY <2>1, <2>2
<1>6. /\ CallKind(spaces, DOMAIN codes) \subseteq CallKind(spaces + 1, DOMAIN codes)
      /\ TabRow(spaces) \subseteq TabRow(spaces + 1)
  BY <1>4, CallsGrow
<1>7. x \in CallKind(spaces + 1, DOMAIN codes) /\ x # NoCall /\ (shown => x.pc = "request" /\ x.space = place)
      /\ (~shown => x.pc = "failed") /\ place \in 0..(spaces + 1) /\ (shown => place # 0)
  BY <1>4 DEF CallKind, NoCall
<1> HIDE DEF x, place, shown
<1>8. /\ calls'[t] = x /\ \A u \in Tabs : u # t => calls'[u] = calls[u]
      /\ calls' \in [Tabs -> CallKind(spaces + 1, DOMAIN codes)]
  BY <1>1, <1>4, <1>6, <1>7
<1>9. /\ tab' \in [Tabs -> TabRow(spaces + 1)]
      /\ \A u \in Tabs : /\ tab'[u].code = tab[u].code /\ tab'[u].expires = tab[u].expires
                         /\ tab'[u].error = tab[u].error /\ tab'[u].opened = tab[u].opened
                         /\ u # t => tab'[u] = tab[u]
      /\ tab'[t].space = place
  BY <1>4, <1>6, <1>7, <1>5 DEF TabRow
<1>10. SignShape'
  BY <1>1, <1>4, <1>8, <1>9 DEF SignShape
<1>11. SpacesAreCounted'
  <2>1. /\ IsFiniteSet(SigningUp) /\ Cardinality(SigningUp) \in Nat /\ spaces + Cardinality(SigningUp) <= signOps + 1
        /\ IsFiniteSet(Created) /\ Cardinality(Created) \in Nat
    BY FS_CardinalityType DEF SpacesAreCounted
  <2>2. t \in SigningUp /\ SigningUp' \subseteq SigningUp \ {t}
    BY <1>7, <1>1, <1>8 DEF SigningUp
  <2>3. IsFiniteSet(SigningUp') /\ Cardinality(SigningUp') \in Nat /\ Cardinality(SigningUp') + 1 <= Cardinality(SigningUp)
    BY <2>1, <2>2, CountsOneLess
  <2>4. spaces' + Cardinality(SigningUp') <= signOps' + 1
    BY <1>1, <1>4, <2>1, <2>3 DEF SignShape
  <2>5. Created' = IF shown THEN Created \cup {t} ELSE Created
    BY <1>7, <1>3, <1>9 DEF Tabs, place, Created
  <2>6. t \notin Created
    BY <1>3 DEF Created
  <2>7. IsFiniteSet(Created \cup {t}) /\ Cardinality(Created \cup {t}) = Cardinality(Created) + 1
    BY <2>1, <2>6, FS_AddElement
  <2>8. IsFiniteSet(Created')
    BY <2>1, <2>5, <2>7
  <2>9. SignupTabs \cap unheard' = {} => spaces' - 1 <= Cardinality(Created')
    <3>1. ASSUME SignupTabs \cap unheard' = {} PROVE spaces' - 1 <= Cardinality(Created')
      BY <1>1, <1>3, <3>1, <1>4, <2>1, <2>5, <2>7 DEF SpacesAreCounted
    <3> QED
      BY <3>1
  <2> QED
    BY <2>3, <2>4, <2>8, <2>9 DEF SpacesAreCounted
<1>13. ASSUME NEW u \in Tabs, u # t PROVE CallFits(u, calls[u])'
  BY <1>1, <1>8, <1>9, <1>13 DEF CallFits, Brings, Fresh
<1>14. CallFits(t, calls[t])'
  BY <1>1, <1>7, <1>8, <1>9 DEF CallFits, Brings
<1>15. \A u \in Tabs : Shows(u)' /\ HeardOf(u)'
  BY <1>1, <1>9, <1>8 DEF Shows, Brings, HeardOf
<1>16. SpentCodeIsSaid'
  BY <1>1, <1>7, <1>8, <1>9 DEF SpentCodeIsSaid, ReadyToAsk
<1> QED
  BY <1>10, <1>11, <1>13, <1>14, <1>15, <1>16

\* The page takes the challenge that was brought.
LEMMA ShowStep ==
    ASSUME SignInv, NEW t \in Tabs, ShowChallenge(t)
    PROVE  SignInv'
PROOF
<1> USE DEF SignInv
<1> DEFINE new == [tab[t] EXCEPT !.code = calls[t].code, !.space = calls[t].space, !.expires = calls[t].expires]
<1>1. /\ Brings(calls[t]) /\ calls' = [calls EXCEPT ![t] = NoCall]
      /\ UNCHANGED <<codes, spaces, inactive, unheard, signClock, signOps>>
      /\ tab' = [tab EXCEPT ![t] = new]
  BY DEF ShowChallenge, Brings, Call
<1>2. /\ tab \in [Tabs -> TabRow(spaces)] /\ calls \in [Tabs -> CallKind(spaces, DOMAIN codes)]
      /\ spaces \in Nat \ {0}
  BY DEF SignShape
<1>3. calls[t].code \in 1..Fake /\ calls[t].space \in 0..spaces /\ calls[t].expires \in 0..(MaxSignClock + CodeLife)
  BY <1>1, <1>2, CallFacts DEF Brings
<1>4. /\ new \in TabRow(spaces) /\ new.code = calls[t].code /\ new.space = calls[t].space
      /\ new.expires = calls[t].expires
  <2>1. tab[t] \in TabRow(spaces) /\ calls[t].code \in 0..Fake
    BY <1>2, <1>3, SignNumbers
  <2> QED
    BY <1>3, <2>1 DEF TabRow
<1> HIDE DEF new
<1>5. CallFits(t, calls[t]) /\ Fresh(t, calls[t].code) /\ codes[calls[t].code].expires = calls[t].expires
  BY <1>1 DEF CallFits
<1>6. t \in SignupTabs => calls[t].space = tab[t].space
  BY <1>1, <1>5 DEF CallFits, Brings
<1>7. /\ calls'[t] = NoCall /\ \A u \in Tabs : u # t => calls'[u] = calls[u]
      /\ tab'[t] = new /\ \A u \in Tabs : u # t => tab'[u] = tab[u]
      /\ NoCall.pc = "none" /\ NoCall \in CallKind(spaces, DOMAIN codes)
  BY <1>1, <1>2 DEF NoCall, CallKind
<1>8. SignShape'
  BY <1>1, <1>2, <1>4, <1>7 DEF SignShape
<1>9. SpacesAreCounted'
  <2>1. Created' = Created
    BY <1>4, <1>6, <1>7 DEF Tabs, Created
  <2>2. SigningUp' = SigningUp
    BY <1>1, <1>7 DEF SigningUp, Brings
  <2> QED
    BY <1>1, <2>1, <2>2 DEF SpacesAreCounted
<1>10. CallFits(t, calls[t])'
  BY <1>7 DEF CallFits, Brings
<1>11. ASSUME NEW u \in Tabs, u # t PROVE CallFits(u, calls[u])'
  BY <1>1, <1>7, <1>11 DEF CallFits, Brings, Fresh
<1>12. \A u \in Tabs : Shows(u)'
  BY <1>1, <1>4, <1>5, <1>7 DEF Shows, Fresh
<1>13. ASSUME NEW u \in Tabs PROVE HeardOf(u)'
  <2>1. CASE u = t
    <3>1. ASSUME t \notin unheard, NEW c \in DOMAIN codes, codes[c].tab = t, codes[c].mailed
          PROVE  c <= new.code
      BY <3>1, <1>5, <1>2, <1>3, <1>4 DEF HeardOf, Fresh, SignShape, TabRow
    <3> QED
      BY <1>1, <1>7, <2>1, <3>1 DEF HeardOf
  <2>2. CASE u # t
    BY <1>1, <1>7, <2>2 DEF HeardOf, Brings
  <2> QED
    BY <2>1, <2>2
<1>14. SpentCodeIsSaid'
  BY <1>4, <1>5, <1>1, <1>7 DEF Fresh, SpentCodeIsSaid, ReadyToAsk
<1> QED
  BY <1>8, <1>9, <1>10, <1>11, <1>12, <1>13, <1>14

\* A challenge is stored, newer than any other.
LEMMA StoreStep ==
    ASSUME SignInv, NEW t \in Tabs, RequestCode(t)
    PROVE  SignInv'
PROOF
<1> USE DEF SignInv
<1> DEFINE row == [tab |-> t, space |-> calls[t].space, expires |-> signClock + CodeLife, mailed |-> FALSE, spent |-> FALSE]
           last == Len(codes) + 1
           x == [pc |-> "deliver", space |-> calls[t].space, code |-> last]
<1>1. /\ calls[t].pc = "request" /\ calls[t].space # 0 /\ Len(codes) < MaxCodes
      /\ codes' = Append(codes, row) /\ calls' = [calls EXCEPT ![t] = x]
      /\ UNCHANGED <<spaces, inactive, tab, unheard, signClock, signOps>>
  BY DEF RequestCode, StoreChallenge, Call
<1>2. /\ tab \in [Tabs -> TabRow(spaces)] /\ calls \in [Tabs -> CallKind(spaces, DOMAIN codes)]
      /\ spaces \in Nat \ {0} /\ codes \in Seq(CodeRow) /\ signClock \in 0..MaxSignClock /\ signOps \in 0..MaxSignOps
      /\ Len(codes) \in Nat
  BY DEF SignShape
<1>3. calls[t].space \in 1..spaces
  BY <1>2, <1>1, CallFacts
<1>4. spaces <= 1 + MaxSignOps
  BY FS_CardinalityType, <1>2, SignNumbers DEF SpacesAreCounted
<1>5. /\ row \in CodeRow /\ row.tab = t /\ ~row.mailed /\ ~row.spent
  BY <1>2, <1>3, <1>4, SignNumbers DEF CodeRow
<1> HIDE DEF row
<1>6. /\ codes' \in Seq(CodeRow) /\ Len(codes') = last /\ codes'[last] = row
      /\ \A c \in DOMAIN codes : codes'[c] = codes[c] /\ c \in DOMAIN codes' /\ c < last /\ c \in Nat
      /\ DOMAIN codes \subseteq DOMAIN codes' /\ last \in DOMAIN codes'
      /\ \A c \in DOMAIN codes' : c \in DOMAIN codes \/ c = last
  BY <1>1, <1>2, <1>5
<1>7. x \in CallKind(spaces, DOMAIN codes') /\ x.pc = "deliver" /\ x.code = last /\ x.space = calls[t].space
  BY <1>3, <1>6 DEF CallKind
<1>8. CallKind(spaces, DOMAIN codes) \subseteq CallKind(spaces, DOMAIN codes')
  BY <1>2, <1>6, CallsGrow
<1> HIDE DEF x
<1>9. /\ calls'[t] = x /\ \A u \in Tabs : u # t => calls'[u] = calls[u]
      /\ calls' \in [Tabs -> CallKind(spaces, DOMAIN codes')]
  BY <1>1, <1>2, <1>7, <1>8
<1>10. SignShape'
  BY <1>1, <1>2, <1>6, SignNumbers, <1>9 DEF SignShape
<1>11. SpacesAreCounted'
  BY <1>1, <1>7, <1>9 DEF Created, SigningUp, SpacesAreCounted
<1>12. \A u \in Tabs : Shows(u) /\ Shows(u)'
  BY <1>1, <1>6 DEF Shows
<1>13. /\ last \in DOMAIN codes' /\ codes'[last].tab = t /\ ~codes'[last].spent /\ ~codes'[last].mailed
       /\ tab[t].code < last
  <2>1. tab[t].code < last
    BY <1>2, <1>6, <1>12 DEF Shows
  <2> QED
    BY <1>5, <1>6, <2>1
<1>14. CallFits(t, calls[t])'
  <2>1. t \in SignupTabs => calls[t].space = tab[t].space /\ calls[t].space # 0
    BY <1>1 DEF CallFits
  <2>3. x.space = tab'[t].space \/ t \notin SignupTabs
    BY <1>1, <1>7, <2>1
  <2> HIDE DEF last
  <2> QED
    BY <1>1, <1>7, <1>9, <1>13, <2>1, <2>3 DEF CallFits, Brings, Fresh
<1>15. ASSUME NEW u \in Tabs, u # t PROVE CallFits(u, calls[u])'
  BY <1>1, <1>6, <1>9, <1>15 DEF Fresh, CallFits, Brings
<1>16. \A u \in Tabs : HeardOf(u)'
  BY <1>1, <1>5, <1>6, <1>7, <1>9 DEF HeardOf, Brings
<1>17. SpentCodeIsSaid'
  BY <1>5, <1>6, <1>7, <1>9, <1>1 DEF ReadyToAsk, NoCall, SpentCodeIsSaid
<1> QED
  BY <1>10, <1>11, <1>12, <1>14, <1>15, <1>16, <1>17

\* The code is mailed or shown, or it is not; its challenge is answered.
LEMMA SendStep ==
    ASSUME SignInv, NEW t \in Tabs, NEW mode \in Modes, SendCode(t, mode)
    PROVE  SignInv'
PROOF
<1> USE DEF SignInv
<1> DEFINE k == calls[t].code
           row == [codes[k] EXCEPT !.mailed = (mode # "dry-run")]
           x == [pc |-> "answer", space |-> calls[t].space, code |-> k, mode |-> mode, expires |-> codes[k].expires]
<1>1. /\ calls[t].pc = "deliver" /\ codes' = [codes EXCEPT ![k] = row] /\ calls' = [calls EXCEPT ![t] = x]
      /\ UNCHANGED <<spaces, inactive, tab, unheard, signClock, signOps>>
  BY DEF SendCode, Call
<1>2. /\ tab \in [Tabs -> TabRow(spaces)] /\ calls \in [Tabs -> CallKind(spaces, DOMAIN codes)]
      /\ spaces \in Nat \ {0} /\ codes \in Seq(CodeRow) /\ Len(codes) \in Nat /\ Len(codes) <= MaxCodes
  BY DEF SignShape
<1>3. calls[t].space \in 1..spaces /\ k \in DOMAIN codes
  BY <1>2, <1>1, CallFacts
<1>4. Fresh(t, k) /\ CallFits(t, calls[t]) /\ ~codes[k].mailed
  BY <1>1 DEF CallFits
<1>5. k \in 1..Len(codes) /\ k \in Nat /\ k \in 1..Fake
  BY <1>2, <1>3, SignNumbers
<1>6. codes[k] \in CodeRow
  BY <1>2, <1>5
<1>7. /\ row \in CodeRow /\ row.tab = codes[k].tab /\ row.spent = codes[k].spent /\ row.expires = codes[k].expires
      /\ row.mailed => mode # "dry-run"
  BY <1>6 DEF CodeRow
<1>8. x \in CallKind(spaces, DOMAIN codes) /\ x.pc = "answer" /\ x.code = k /\ x.space = calls[t].space /\ x.mode = mode
      /\ x.expires = codes[k].expires /\ x # NoCall
  BY <1>3, <1>6, <1>5 DEF CodeRow, CallKind, NoCall
<1> HIDE DEF row, x
<1>9. /\ codes' \in Seq(CodeRow) /\ Len(codes') = Len(codes) /\ DOMAIN codes' = DOMAIN codes
      /\ codes'[k] = row /\ \A c \in DOMAIN codes : c # k => codes'[c] = codes[c]
  BY <1>1, <1>2, <1>5, <1>7
<1>10. /\ calls'[t] = x /\ \A u \in Tabs : u # t => calls'[u] = calls[u]
       /\ calls' \in [Tabs -> CallKind(spaces, DOMAIN codes')]
  BY <1>1, <1>2, <1>8, <1>9
<1>11. /\ \A c \in DOMAIN codes : /\ codes'[c].tab = codes[c].tab /\ codes'[c].spent = codes[c].spent
                                  /\ codes'[c].expires = codes[c].expires
                                  /\ codes'[c].mailed => codes[c].mailed \/ (c = k /\ mode # "dry-run")
                                  /\ codes[c].tab # t => codes'[c] = codes[c]
  BY <1>4, <1>7, <1>9 DEF Fresh
<1>12. SignShape'
  BY <1>1, <1>2, <1>9, <1>10 DEF SignShape
<1>13. SpacesAreCounted'
  BY <1>1, <1>8, <1>10 DEF Created, SigningUp, SpacesAreCounted
<1>14. \A u \in Tabs : Shows(u)'
  BY <1>1, <1>9, <1>11 DEF Shows
<1>15. \A u \in Tabs : \A c : Fresh(u, c) <=> c \in DOMAIN codes' /\ codes'[c].tab = u /\ ~codes'[c].spent /\ tab'[u].code < c
  BY <1>1, <1>9, <1>11 DEF Fresh
<1>16. CallFits(t, calls[t])'
  BY <1>1, <1>4, <1>3, <1>11, <1>15, <1>8, <1>10 DEF CallFits, Brings, Fresh
<1>17. ASSUME NEW u \in Tabs, u # t PROVE CallFits(u, calls[u])'
  BY <1>11, <1>17, <1>1, <1>10, <1>15 DEF Fresh, CallFits, Brings
<1>18. ASSUME NEW u \in Tabs PROVE HeardOf(u)'
  <2>1. CASE u = t
    <3>1. ASSUME t \notin unheard, NEW c \in DOMAIN codes, codes[c].tab = t, codes'[c].mailed
          PROVE  c <= tab[t].code \/ (mode # "dry-run" /\ c <= k)
      <4>1. CASE c = k
        BY <1>5, <1>7, <1>9, <3>1, <4>1
      <4>2. CASE c # k
        BY <1>1, <1>11, <3>1, <4>2 DEF Brings, HeardOf
      <4> QED
        BY <4>1, <4>2
    <3> QED
      BY <1>1, <1>8, <1>9, <1>10, <1>11, <2>1, <3>1 DEF HeardOf, Brings
  <2>2. CASE u # t
    BY <1>1, <1>9, <1>10, <1>11, <2>2 DEF HeardOf, Brings
  <2> QED
    BY <2>1, <2>2
<1>19. SpentCodeIsSaid'
  BY <1>8, <1>10, <1>1, <1>9, <1>11 DEF ReadyToAsk, SpentCodeIsSaid
<1> QED
  BY <1>12, <1>13, <1>14, <1>16, <1>17, <1>18, <1>19

\* A challenge is spent, which is the one its tab shows.
LEMMA ConsumeStep ==
    ASSUME SignInv, NEW t \in Tabs, ConsumeChallenge(t)
    PROVE  SignInv'
PROOF
<1> USE DEF SignInv
<1> DEFINE k == calls[t].code
           row == [codes[k] EXCEPT !.spent = TRUE]
           x == [pc |-> "open", code |-> k]
<1>1. /\ calls[t].pc = "consume" /\ codes' = [codes EXCEPT ![k] = row] /\ calls' = [calls EXCEPT ![t] = x]
      /\ UNCHANGED <<spaces, inactive, tab, unheard, signClock, signOps>>
  BY DEF ConsumeChallenge, Call
<1>2. /\ tab \in [Tabs -> TabRow(spaces)] /\ calls \in [Tabs -> CallKind(spaces, DOMAIN codes)]
      /\ spaces \in Nat \ {0} /\ codes \in Seq(CodeRow) /\ Len(codes) \in Nat /\ Len(codes) <= MaxCodes
  BY DEF SignShape
<1>3. k \in DOMAIN codes
  BY <1>2, <1>1, CallFacts
<1>4. k = tab[t].code /\ k # 0 /\ codes[k].tab = t
  BY <1>1 DEF CallFits, Shows
<1>5. k \in 1..Len(codes) /\ k \in Nat
  BY <1>2, <1>3
<1>6. codes[k] \in CodeRow
  BY <1>2, <1>5
<1>7. row \in CodeRow /\ row.tab = codes[k].tab /\ row.mailed = codes[k].mailed /\ row.expires = codes[k].expires
  BY <1>6 DEF CodeRow
<1>8. x \in CallKind(spaces, DOMAIN codes) /\ x.pc = "open" /\ x.code = k /\ x # NoCall
  BY <1>3 DEF CallKind, NoCall
<1> HIDE DEF row, x
<1>9. /\ codes' \in Seq(CodeRow) /\ Len(codes') = Len(codes) /\ DOMAIN codes' = DOMAIN codes
      /\ codes'[k] = row /\ \A c \in DOMAIN codes : c # k => codes'[c] = codes[c]
  BY <1>1, <1>2, <1>5, <1>7
<1>10. /\ calls'[t] = x /\ \A u \in Tabs : u # t => calls'[u] = calls[u]
       /\ calls' \in [Tabs -> CallKind(spaces, DOMAIN codes')]
  BY <1>1, <1>2, <1>8, <1>9
<1>11. \A c \in DOMAIN codes : /\ codes'[c].tab = codes[c].tab /\ codes'[c].expires = codes[c].expires
                               /\ codes'[c].mailed = codes[c].mailed
                               /\ codes[c].tab # t => codes'[c] = codes[c]
  BY <1>4, <1>7, <1>9
<1>12. SignShape'
  BY <1>1, <1>2, <1>9, <1>10 DEF SignShape
<1>13. SpacesAreCounted'
  BY <1>1, <1>8, <1>10 DEF Created, SigningUp, SpacesAreCounted
<1>14. \A u \in Tabs : Shows(u)'
  BY <1>1, <1>9, <1>11 DEF Shows
<1>15. CallFits(t, calls[t])'
  BY <1>1, <1>4, <1>8, <1>10 DEF CallFits, Brings
<1>16. ASSUME NEW u \in Tabs, u # t PROVE CallFits(u, calls[u])'
  BY <1>9, <1>11, <1>16, <1>1, <1>10 DEF Fresh, CallFits, Brings
<1>17. \A u \in Tabs : HeardOf(u)'
  BY <1>1, <1>9, <1>10, <1>11 DEF Brings, HeardOf
<1>18. SpentCodeIsSaid'
  <2>1. ~ReadyToAsk(t)'
    BY <1>8, <1>10 DEF ReadyToAsk
  <2>2. ASSUME NEW u \in Tabs, u # t, tab[u].code \in DOMAIN codes PROVE codes'[tab[u].code] = codes[tab[u].code]
    BY <1>2, <2>2, <1>11 DEF Shows
  <2> QED
    BY <1>1, <1>9, <1>10, <2>1, <2>2 DEF SpentCodeIsSaid, ReadyToAsk
<1> QED
  BY <1>12, <1>13, <1>14, <1>15, <1>16, <1>17, <1>18

LEMMA SignStep == SignInv /\ [SignNext]_signVars => SignInv'
PROOF
<1> SUFFICES ASSUME SignInv, [SignNext]_signVars PROVE SignInv'
  OBVIOUS
<1>1. CASE TimePasses \/ Deactivated \/ UNCHANGED signVars
  <2>1. UNCHANGED <<codes, spaces, tab, calls, unheard>>
    BY <1>1 DEF TimePasses, Deactivated, signVars
  <2>2. inactive' \in BOOLEAN /\ signClock' \in 0..MaxSignClock /\ signOps' \in 0..MaxSignOps /\ signOps <= signOps'
    <3>1. inactive \in BOOLEAN /\ signClock \in 0..MaxSignClock /\ signOps \in 0..MaxSignOps
      BY DEF SignInv, SignShape
    <3>2. CASE TimePasses
      BY <3>1, <3>2, SignNumbers DEF TimePasses
    <3>3. CASE Deactivated
      BY <3>1, <3>3, SignNumbers DEF Deactivated, SignClick
    <3>4. CASE UNCHANGED signVars
      BY <3>1, <3>4 DEF signVars
    <3> QED
      BY <1>1, <3>2, <3>3, <3>4
  <2>3. SignShape'
    BY <2>1, <2>2 DEF SignInv, SignShape
  <2>4. SpacesAreCounted'
    BY <2>1, <2>2, FS_CardinalityType DEF Created, SigningUp, SignInv, SignShape, SpacesAreCounted
  <2>5. SpentCodeIsSaid'
    BY <2>1 DEF SignInv, SpentCodeIsSaid, ReadyToAsk
  <2>6. \A t \in Tabs : (CallFits(t, calls[t]) /\ Shows(t) /\ HeardOf(t))'
    BY <2>1 DEF SignInv, CallFits, Shows, HeardOf, Fresh, Brings
  <2> QED
    BY <2>3, <2>4, <2>5, <2>6 DEF SignInv
<1>2. CASE \E t \in Tabs :
             \/ \E space \in {0, 1} : SubmitIdentifier(t, space)
             \/ RequestNewCode(t) \/ HandleSubmit(t) \/ ResendCode(t)
             \/ \E right \in BOOLEAN : VerifyClick(t, right)
  BY <1>2, ClickStep
<1>3. CASE \E t \in Tabs :
             \/ UnknownIdentifier(t) \/ RequestCodeRefused(t) \/ SendFails(t) \/ DeliveryIssue(t) \/ AnswerLost(t)
             \/ VerifyCode(t) \/ InactiveRefused(t) \/ ShowFailure(t) \/ OpenWorkspace(t)
  BY <1>3, AnswerMoves
<1>4. CASE \E t \in Tabs : \/ SignupCreates(t) \/ SignupUnheard(t) \/ RequestCode(t) \/ ShowChallenge(t)
                           \/ ConsumeChallenge(t) \/ \E mode \in Modes : SendCode(t, mode)
  BY <1>4, SignupStep, StoreStep, ShowStep, ConsumeStep, SendStep
<1> QED
  BY <1>1, <1>2, <1>3, <1>4 DEF SignNext

LEMMA SignKeeps ==
    SignInv => /\ SignTypeOK /\ ShownChallengeIsStored /\ LatestMailFits /\ SpentCodeIsSaid
               /\ OneSignupOneWorkspace
PROOF
<1> SUFFICES ASSUME SignInv
             PROVE  SignTypeOK /\ ShownChallengeIsStored /\ LatestMailFits /\ SpentCodeIsSaid /\ OneSignupOneWorkspace
  OBVIOUS
<1> USE DEF SignInv
<1>1. SignTypeOK
  <2>1. spaces \in 1..(1 + MaxSignOps)
    BY FS_CardinalityType, SignNumbers DEF SpacesAreCounted, SignShape
  <2>2. ASSUME NEW t \in Tabs
        PROVE  \/ calls[t] \in {NoCall, [pc |-> "signup"], [pc |-> "failed"], [pc |-> "opening"]}
               \/ calls[t] \in [pc : {"request"}, space : 0..spaces]
               \/ calls[t] \in [pc : {"deliver"}, space : 1..spaces, code : DOMAIN codes]
               \/ calls[t] \in [pc : {"answer"}, space : 0..spaces, code : 1..Fake, mode : Modes,
                                expires : 0..(MaxSignClock + CodeLife)]
               \/ calls[t] \in [pc : {"verify"}, code : 1..Fake, right : BOOLEAN]
               \/ calls[t] \in [pc : {"consume", "open"}, code : DOMAIN codes]
    BY DEF SignShape, CallKind
  <2> QED
    BY <2>1, <2>2 DEF SignTypeOK, SignShape, TabRow
<1>2. ShownChallengeIsStored
  BY DEF ShownChallengeIsStored, Shows
<1>3. LatestMailFits
  BY DEF LatestMailFits, HeardOf, Brings, ReadyToAsk, NoCall
<1>4. OneSignupOneWorkspace
  BY DEF OneSignupOneWorkspace, SpacesAreCounted, Created
<1> QED
  BY <1>1, <1>2, <1>3, <1>4

-----------------------------------------------------------------------------
(* The limits of requests.                                                   *)

-----------------------------------------------------------------------------
(* The request limits.                                                       *)

CountedCheck == [pc : {"counted"}, hit : Hits, at : Instances, window : Windows, when : 0..MaxTick]
BusyChecks == {c \in Checks : checks[c] # NotChecking}
AskedChecks == {c \in BusyChecks : checks[c].pc = "asked"}
LostChecks == {c \in BusyChecks : checks[c].pc = "lost"}
\* Counted within the limit in the window of a key that began then, and not answered yet.
PassingChecks(k, began) ==
    {c \in BusyChecks : /\ checks[c].pc = "counted" /\ Key(checks[c].hit) = k
                        /\ checks[c].window.began = began
                        /\ checks[c].window.count <= Limit(checks[c].hit)}

RateShape ==
    /\ tick \in 0..MaxTick /\ rateOps \in 0..MaxRateOps
    /\ redis \in [Keys -> RateBuckets]
    /\ buckets \in [Instances -> [Keys -> RateBuckets]]
    /\ checks \in [Checks -> {NotChecking} \cup CheckInput \cup CountedCheck]
    /\ IsFiniteSet(BusyChecks)

\* What a window counted, and for how long it stands.
OwnWindow(w, k) ==
    w # NoWindow => /\ w.until = w.began + Window /\ w.began <= tick /\ tick < w.until
                    /\ w.passed <= w.count
                    /\ \A h \in w.of : Key(h) = k
HoldsLimit(w, k) == w # NoWindow => \A h \in Hits : Key(h) = k => w.passed <= Limit(h)
WindowsAreOwn ==
    /\ \A k \in Keys : OwnWindow(redis[k], k)
    /\ \A i \in Instances, k \in Keys : OwnWindow(buckets[i][k], k) /\ HoldsLimit(buckets[i][k], k)

\* What a check that was counted carries.
CountedFits ==
    \A c \in Checks : checks[c].pc = "counted" =>
      LET w == checks[c].window
          k == Key(checks[c].hit) IN
      /\ checks[c].when < w.began + Window
      /\ \A h \in w.of : Key(h) = k
      /\ w.began <= tick
      /\ redis[k] = NoWindow => w.began < tick
      /\ redis[k] # NoWindow => w.began <= redis[k].began

\* No window counts more than there were requests and failures.
CountsAreSpent ==
    /\ \A k \in Keys : redis[k].count + Cardinality(AskedChecks) <= rateOps
    /\ \A i \in Instances, k \in Keys : buckets[i][k].count + Cardinality(LostChecks) <= rateOps

\* A window of Redis lets pass what it counted within the limit, once each.
PassedAreCounted ==
    \A k \in Keys : redis[k] # NoWindow =>
      LET pass == redis[k].passed + Cardinality(PassingChecks(k, redis[k].began)) IN
      /\ pass <= redis[k].count
      /\ \A h \in Hits : Key(h) = k => pass <= Limit(h)

RefusalFits == RefusalIsBrief /\ RefusedForItsOwn

RateInv == /\ RateShape /\ WindowsAreOwn /\ CountedFits /\ CountsAreSpent /\ PassedAreCounted
           /\ RefusalFits

-----------------------------------------------------------------------------
\* Requests of one key are of one service, address, path, tenant and page, and have one limit.
LEMMA KeysTellApart ==
    ASSUME NEW h \in Hits, NEW g \in Hits, Key(h) = Key(g)
    PROVE  /\ h.service = g.service /\ h.ip = g.ip /\ h.path = g.path
           /\ h.tenant = g.tenant
           /\ h.tenant = NoScope /\ h.path = "webhook" => h.page = g.page
           /\ Limit(h) = Limit(g)
PROOF
<1>1. /\ Key(h).prefix = h.service /\ Key(h).ip = h.ip /\ Key(h).path = h.path
      /\ Key(g).prefix = g.service /\ Key(g).ip = g.ip /\ Key(g).path = g.path
  BY DEF Key, HonoKey, LegacyKey, LoginKey
<1>2. h.service = g.service /\ h.ip = g.ip /\ h.path = g.path
  BY <1>1
<1>3. Limit(h) = Limit(g)
  BY <1>2 DEF Limit, HonoLimit, LegacyLimit
<1>4. CASE h.service \notin {"hono", "api"}
  BY <1>2, <1>3, <1>4, RateAssumption
<1>5. CASE h.service \in {"hono", "api"}
  <2>1. Key(h).scope = TenantScope(h) /\ Key(g).scope = TenantScope(g)
    BY <1>2, <1>5 DEF Key, HonoKey, LegacyKey, LegacyScope, TenantScope
  <2>2. TenantScope(h) = TenantScope(g)
    BY <2>1
  <2>3. \A x, y, z : /\ [client |-> x] # [page |-> y] /\ [client |-> x] # [none |-> z]
                     /\ [page |-> y] # [none |-> z]
    OBVIOUS
  <2>4. \A x, y : [client |-> x] = [client |-> y] => x = y
    OBVIOUS
  <2>5. \A x, y : [page |-> x] = [page |-> y] => x = y
    OBVIOUS
  <2>6. h.tenant = g.tenant
    BY <2>2, <2>3, <2>4 DEF TenantScope
  <2>7. h.tenant = NoScope /\ h.path = "webhook" => h.page = g.page
    BY <1>2, <2>2, <2>3, <2>5, <2>6 DEF TenantScope
  <2> QED
    BY <1>2, <1>3, <2>6, <2>7
<1> QED
  BY <1>4, <1>5

LEMMA LimitIsPositive == ASSUME NEW h \in Hits PROVE Limit(h) \in Nat \ {0}
PROOF
  BY RateAssumption DEF Limit, HonoLimit, LegacyLimit

LEMMA KeysAreKeys == \A h \in Hits : Key(h) \in Keys
PROOF
  BY DEF Keys

\* A window is one that counts something, or none.
LEMMA WindowFacts ==
    /\ \A w \in Windows : w # NoWindow /\ w.count \in 1..MaxRateOps
    /\ NoWindow.count = 0
    /\ \A w \in RateBuckets : w \in Windows \/ w = NoWindow
    /\ \A w \in RateBuckets : w.count \in 0..MaxRateOps
PROOF
  BY RateAssumption DEF NoWindow, Windows, RateBuckets

LEMMA CheckFacts ==
    /\ \A x \in CheckInput : x # NotChecking /\ x.pc \in {"asked", "lost"} /\ x.hit \in Hits /\ x.at \in Instances
    /\ \A x \in CountedCheck : /\ x # NotChecking /\ x.pc = "counted" /\ x.hit \in Hits /\ x.at \in Instances
                               /\ x.window \in Windows /\ x.when \in 0..MaxTick
    /\ NotChecking.pc = "idle"
PROOF
  BY DEF NotChecking, CheckInput, CountedCheck

LEMMA RateStarts == RateInit => RateInv
PROOF
<1> SUFFICES ASSUME RateInit PROVE RateInv
  OBVIOUS
<1> USE DEF RateInit
<1>1. BusyChecks = {} /\ AskedChecks = {} /\ LostChecks = {}
  BY DEF BusyChecks, AskedChecks, LostChecks
<1>2. IsFiniteSet(BusyChecks) /\ Cardinality(AskedChecks) = 0 /\ Cardinality(LostChecks) = 0
  BY <1>1, FS_EmptySet
<1>3. RateShape
  BY <1>2, RateAssumption DEF RateShape, RateBuckets
<1>4. WindowsAreOwn /\ PassedAreCounted
  BY DEF WindowsAreOwn, OwnWindow, HoldsLimit, PassedAreCounted
<1>5. CountedFits
  BY CheckFacts DEF CountedFits
<1>6. CountsAreSpent
  BY <1>2, WindowFacts DEF CountsAreSpent
<1>7. RefusalFits
  BY DEF RefusalFits, RefusalIsBrief, RefusedForItsOwn
<1> QED
  BY <1>3, <1>4, <1>5, <1>6, <1>7 DEF RateInv

LEMMA SetsAreFinite ==
    ASSUME RateShape
    PROVE  /\ IsFiniteSet(AskedChecks) /\ Cardinality(AskedChecks) \in Nat
           /\ IsFiniteSet(LostChecks) /\ Cardinality(LostChecks) \in Nat
           /\ \A k, b : IsFiniteSet(PassingChecks(k, b)) /\ Cardinality(PassingChecks(k, b)) \in Nat
PROOF
  BY FS_Subset, FS_CardinalityType DEF RateShape, AskedChecks, LostChecks, PassingChecks

WindowAfter(w, h) == IF w = NoWindow THEN Opened(h) ELSE Counted(w, h)
LEMMA WindowGoesOn ==
    ASSUME NEW w \in RateBuckets, NEW h \in Hits, OwnWindow(w, Key(h)), w.count < MaxRateOps,
           tick \in 0..MaxTick
    PROVE  /\ WindowAfter(w, h) \in Windows /\ WindowAfter(w, h) # NoWindow
           /\ OwnWindow(WindowAfter(w, h), Key(h))
           /\ WindowAfter(w, h).count = w.count + 1
           /\ w = NoWindow => WindowAfter(w, h).began = tick /\ WindowAfter(w, h).passed = 0
           /\ w # NoWindow => WindowAfter(w, h).began = w.began /\ WindowAfter(w, h).passed = w.passed
           /\ tick < WindowAfter(w, h).began + Window
PROOF
<1>1. Window \in Nat \ {0} /\ MaxTick \in Nat /\ MaxRateOps \in Nat
  BY RateAssumption
<1>2. CASE w = NoWindow
  <2> DEFINE v == Opened(h)
  <2>1. /\ v.count = 1 /\ v.until = tick + Window /\ v.began = tick /\ v.passed = 0 /\ v.of = {h}
        /\ w.count = 0
    BY <1>2, WindowFacts DEF Opened
  <2>2. 0 < MaxRateOps
    BY <2>1
  <2>3. v \in Windows
    BY <1>1, <2>2 DEF Opened, Windows
  <2>4. OwnWindow(v, Key(h))
    BY <1>1, <2>1 DEF OwnWindow
  <2>5. WindowAfter(w, h) = v
    BY <1>2 DEF WindowAfter
  <2> HIDE DEF v
  <2> QED
    BY <1>1, <1>2, <2>1, <2>3, <2>4, <2>5, WindowFacts
<1>3. CASE w # NoWindow
  <2> DEFINE v == Counted(w, h)
  <2>1. w \in Windows
    BY <1>3 DEF RateBuckets
  <2>2. /\ v.count = w.count + 1 /\ v.until = w.until /\ v.began = w.began /\ v.passed = w.passed
        /\ v.of = w.of \cup {h}
    BY <2>1 DEF Counted, Windows
  <2>3. v \in Windows
    <3>1. w.count + 1 \in 1..MaxRateOps /\ w.of \cup {h} \in SUBSET Hits
      BY <1>1, <2>1 DEF Windows
    <3> QED
      BY <2>1, <3>1 DEF Counted, Windows
  <2>4. w.until = w.began + Window /\ w.began <= tick /\ tick < w.until /\ w.passed <= w.count
        /\ \A g \in w.of : Key(g) = Key(h)
    BY <1>3 DEF OwnWindow
  <2>5. w.passed <= w.count + 1
    BY <2>1, <2>4 DEF Windows
  <2>6. OwnWindow(v, Key(h))
    BY <2>2, <2>4, <2>5 DEF OwnWindow
  <2>7. WindowAfter(w, h) = v
    BY <1>3 DEF WindowAfter
  <2>8. tick < v.began + Window
    BY <2>2, <2>4
  <2> HIDE DEF v
  <2> QED
    BY <1>3, <2>2, <2>3, <2>6, <2>7, <2>8, WindowFacts
<1> QED
  BY <1>2, <1>3

\* The windows and counts stay, no check becomes counted.
LEMMA ChecksMove ==
    ASSUME RateInv, UNCHANGED <<tick, redis>>, refusal' = NoRefusal,
           rateOps' \in {rateOps, rateOps + 1}, rateOps' \in 0..MaxRateOps,
           checks' \in [Checks -> {NotChecking} \cup CheckInput \cup CountedCheck],
           IsFiniteSet(BusyChecks'),
           Cardinality(AskedChecks') <= Cardinality(AskedChecks) + (rateOps' - rateOps),
           Cardinality(LostChecks') <= Cardinality(LostChecks) + (rateOps' - rateOps),
           \A c \in Checks : checks'[c].pc = "counted" => checks'[c] = checks[c],
           buckets' \in [Instances -> [Keys -> RateBuckets]],
           \A i \in Instances, k \in Keys : buckets'[i][k] \in {buckets[i][k], NoWindow}
    PROVE  RateInv'
PROOF
<1> USE DEF RateInv
<1>1. RateShape'
  BY DEF RateShape
<1>2. WindowsAreOwn'
  BY DEF WindowsAreOwn, OwnWindow, HoldsLimit
<1>3. CountedFits'
  BY DEF CountedFits
<1>4. CountsAreSpent'
  <2>1. /\ Cardinality(AskedChecks) \in Nat /\ Cardinality(LostChecks) \in Nat
        /\ Cardinality(AskedChecks') \in Nat /\ Cardinality(LostChecks') \in Nat
    BY SetsAreFinite, FS_Subset, FS_CardinalityType DEF AskedChecks, LostChecks
  <2>2. rateOps \in Nat /\ rateOps' \in Nat
    BY DEF RateShape
  <2>3. ASSUME NEW k \in Keys PROVE redis[k].count + Cardinality(AskedChecks') <= rateOps'
    BY WindowFacts, <2>1, <2>2 DEF RateShape, CountsAreSpent
  <2>4. ASSUME NEW i \in Instances, NEW k \in Keys PROVE buckets'[i][k].count + Cardinality(LostChecks') <= rateOps'
    BY WindowFacts, <2>1, <2>2 DEF RateShape, CountsAreSpent
  <2> QED
    BY <2>3, <2>4 DEF CountsAreSpent
<1>5. PassedAreCounted'
  <2>1. ASSUME NEW k, NEW b
        PROVE  /\ Cardinality(PassingChecks(k, b)') <= Cardinality(PassingChecks(k, b))
               /\ Cardinality(PassingChecks(k, b)') \in Nat /\ Cardinality(PassingChecks(k, b)) \in Nat
    <3>1. PassingChecks(k, b)' \subseteq PassingChecks(k, b)
      BY DEF PassingChecks, BusyChecks
    <3>2. IsFiniteSet(PassingChecks(k, b))
      BY SetsAreFinite
    <3> QED
      BY <3>1, <3>2, FS_Subset, FS_CardinalityType
  <2>2. ASSUME NEW k \in Keys, redis[k] # NoWindow
        PROVE  LET pass == redis[k].passed + Cardinality(PassingChecks(k, redis[k].began)') IN
               /\ pass <= redis[k].count
               /\ \A h \in Hits : Key(h) = k => pass <= Limit(h)
    <3> DEFINE n == Cardinality(PassingChecks(k, redis[k].began))
               m == Cardinality(PassingChecks(k, redis[k].began)')
    <3>1. m <= n /\ m \in Nat /\ n \in Nat
      BY <2>1
    <3>2. redis[k].passed \in Nat /\ redis[k].count \in Nat
      BY <2>2 DEF RateShape, RateBuckets, Windows
    <3>3. redis[k].passed + n <= redis[k].count /\ \A h \in Hits : Key(h) = k => redis[k].passed + n <= Limit(h)
      BY <2>2 DEF PassedAreCounted
    <3>4. \A h \in Hits : Limit(h) \in Nat
      BY LimitIsPositive
    <3> HIDE DEF n, m
    <3>5. redis[k].passed + m <= redis[k].count
      BY <3>1, <3>2, <3>3
    <3>6. \A h \in Hits : Key(h) = k => redis[k].passed + m <= Limit(h)
      BY <3>1, <3>2, <3>3, <3>4
    <3> QED
      BY <3>5, <3>6 DEF m
  <2> QED
    BY <2>2 DEF PassedAreCounted, PassingChecks, BusyChecks
<1>6. RefusalFits'
  BY DEF RefusalFits, RefusalIsBrief, RefusedForItsOwn
<1> QED
  BY <1>1, <1>2, <1>3, <1>4, <1>5, <1>6

LEMMA AskStep ==
    ASSUME RateInv, NEW c \in Checks, NEW h \in Hits, NEW i \in Instances, Ask(c, h, i)
    PROVE  RateInv'
PROOF
<1> USE DEF RateInv
<1>1. PICK x \in CheckInput : checks' = [checks EXCEPT ![c] = x]
  BY DEF Ask, CheckInput
<1>2. /\ checks[c] = NotChecking /\ UNCHANGED <<tick, redis, buckets>> /\ refusal' = NoRefusal
      /\ rateOps' = rateOps + 1 /\ rateOps < MaxRateOps
  BY DEF Ask, RateOp
<1>3. /\ checks' \in [Checks -> {NotChecking} \cup CheckInput \cup CountedCheck]
      /\ checks'[c] = x /\ \A d \in Checks : d # c => checks'[d] = checks[d]
  BY <1>1 DEF RateShape
<1>4. /\ BusyChecks' \subseteq BusyChecks \cup {c} /\ AskedChecks' \subseteq AskedChecks \cup {c}
      /\ LostChecks' \subseteq LostChecks \cup {c}
  BY <1>3 DEF BusyChecks, AskedChecks, LostChecks
<1>5. /\ IsFiniteSet(BusyChecks') /\ Cardinality(AskedChecks') <= Cardinality(AskedChecks) + 1
      /\ Cardinality(LostChecks') <= Cardinality(LostChecks) + 1
  BY <1>4, CountsOneMore, SetsAreFinite DEF RateShape
<1>6. rateOps' \in 0..MaxRateOps /\ rateOps' - rateOps = 1
  BY <1>2, RateAssumption DEF RateShape
<1>7. x.pc # "counted"
  BY CheckFacts
<1>8. \A d \in Checks : checks'[d].pc = "counted" => checks'[d] = checks[d]
  BY <1>3, <1>7
<1>9. buckets' \in [Instances -> [Keys -> RateBuckets]] /\ \A j \in Instances, k \in Keys : buckets'[j][k] = buckets[j][k]
  BY <1>2 DEF RateShape
<1> QED
  BY <1>2, <1>3, <1>5, <1>6, <1>8, <1>9, ChecksMove

LEMMA FailStep ==
    ASSUME RateInv, NEW c \in Checks, RedisFails(c)
    PROVE  RateInv'
PROOF
<1> USE DEF RateInv
<1> DEFINE x == [pc |-> "lost", hit |-> checks[c].hit, at |-> checks[c].at]
<1>1. checks[c] \in CheckInput \cup CountedCheck
  BY CheckFacts DEF RedisFails, RateShape
<1>2. x \in CheckInput /\ x.pc = "lost"
  BY <1>1, CheckFacts DEF CheckInput
<1>3. /\ checks' = [checks EXCEPT ![c] = x] /\ UNCHANGED <<tick, redis, buckets>> /\ refusal' = NoRefusal
      /\ rateOps' = rateOps + 1 /\ rateOps < MaxRateOps
  BY DEF RedisFails, RateOp
<1> HIDE DEF x
<1>4. /\ checks' \in [Checks -> {NotChecking} \cup CheckInput \cup CountedCheck]
      /\ checks'[c] = x /\ \A d \in Checks : d # c => checks'[d] = checks[d]
  BY <1>2, <1>3 DEF RateShape
<1>5. /\ BusyChecks' \subseteq BusyChecks \cup {c} /\ AskedChecks' \subseteq AskedChecks \cup {c}
      /\ LostChecks' \subseteq LostChecks \cup {c}
  BY <1>4 DEF BusyChecks, AskedChecks, LostChecks
<1>6. /\ IsFiniteSet(BusyChecks') /\ Cardinality(AskedChecks') <= Cardinality(AskedChecks) + 1
      /\ Cardinality(LostChecks') <= Cardinality(LostChecks) + 1
  BY <1>5, CountsOneMore, SetsAreFinite DEF RateShape
<1>7. rateOps' \in 0..MaxRateOps /\ rateOps' - rateOps = 1
  BY <1>3, RateAssumption DEF RateShape
<1>8. \A d \in Checks : checks'[d].pc = "counted" => checks'[d] = checks[d]
  BY <1>2, <1>4
<1>9. buckets' \in [Instances -> [Keys -> RateBuckets]] /\ \A j \in Instances, k \in Keys : buckets'[j][k] = buckets[j][k]
  BY <1>3 DEF RateShape
<1> QED
  BY <1>3, <1>4, <1>6, <1>7, <1>8, <1>9, ChecksMove

LEMMA RestartStep ==
    ASSUME RateInv, NEW i \in Instances, Restart(i)
    PROVE  RateInv'
PROOF
<1> USE DEF RateInv
<1>1. /\ checks' = [c \in Checks |-> IF checks[c] # NotChecking /\ checks[c].at = i THEN NotChecking ELSE checks[c]]
      /\ UNCHANGED <<tick, redis>> /\ refusal' = NoRefusal
      /\ rateOps' = rateOps + 1 /\ rateOps < MaxRateOps
      /\ buckets' = [buckets EXCEPT ![i] = [k \in Keys |-> NoWindow]]
  BY DEF Restart, RateOp
<1>2. /\ checks' \in [Checks -> {NotChecking} \cup CheckInput \cup CountedCheck]
      /\ \A d \in Checks : checks'[d] \in {checks[d], NotChecking}
  BY <1>1 DEF RateShape
<1>3. /\ BusyChecks' \subseteq BusyChecks /\ AskedChecks' \subseteq AskedChecks /\ LostChecks' \subseteq LostChecks
  BY <1>2 DEF BusyChecks, AskedChecks, LostChecks
<1>4. /\ IsFiniteSet(BusyChecks') /\ Cardinality(AskedChecks') <= Cardinality(AskedChecks)
      /\ Cardinality(LostChecks') <= Cardinality(LostChecks)
      /\ Cardinality(AskedChecks') \in Nat /\ Cardinality(LostChecks') \in Nat
      /\ Cardinality(AskedChecks) \in Nat /\ Cardinality(LostChecks) \in Nat
  BY <1>3, FS_Subset, FS_CardinalityType, SetsAreFinite DEF RateShape
<1>5. rateOps' \in 0..MaxRateOps /\ rateOps' - rateOps = 1
  BY <1>1, RateAssumption DEF RateShape
<1>6. /\ Cardinality(AskedChecks') <= Cardinality(AskedChecks) + 1
      /\ Cardinality(LostChecks') <= Cardinality(LostChecks) + 1
  BY <1>4
<1>7. \A d \in Checks : checks'[d].pc = "counted" => checks'[d] = checks[d]
  BY <1>2, CheckFacts
<1>8. /\ buckets' \in [Instances -> [Keys -> RateBuckets]]
      /\ \A j \in Instances, k \in Keys : buckets'[j][k] \in {buckets[j][k], NoWindow}
  BY <1>1 DEF RateShape, RateBuckets
<1> QED
  BY <1>1, <1>2, <1>4, <1>5, <1>6, <1>7, <1>8, ChecksMove

\* Time passes: a window that is over goes, and what it counted began before.
LEMMA TickStep ==
    ASSUME RateInv, RateTick
    PROVE  RateInv'
PROOF
<1> USE DEF RateInv
<1> DEFINE Left(w) == IF w # NoWindow /\ w.until <= tick + 1 THEN NoWindow ELSE w
<1>1. /\ tick < MaxTick /\ tick' = tick + 1 /\ refusal' = NoRefusal
      /\ redis' = [k \in Keys |-> Left(redis[k])]
      /\ buckets' = [i \in Instances |-> [k \in Keys |-> Left(buckets[i][k])]]
      /\ UNCHANGED <<checks, rateOps>>
  BY DEF RateTick
<1>2. \A w : Left(w) \in {w, NoWindow} /\ (Left(w) # NoWindow => Left(w) = w /\ ~(w.until <= tick + 1))
  OBVIOUS
<1>3. \A w : w # NoWindow /\ Left(w) = NoWindow => w.until <= tick + 1
  OBVIOUS
<1>4. \A k \in Keys : redis'[k] = Left(redis[k])
  BY <1>1
<1>5. \A i \in Instances, k \in Keys : buckets'[i][k] = Left(buckets[i][k])
  BY <1>1
<1> HIDE DEF Left
<1>6. tick \in Nat /\ tick' \in 0..MaxTick /\ MaxTick \in Nat
  BY <1>1, RateAssumption DEF RateShape
<1>7. RateShape'
  BY <1>2, <1>1, <1>6 DEF RateBuckets, RateShape, BusyChecks
<1>8. ASSUME NEW w \in RateBuckets, NEW k, OwnWindow(w, k)
      PROVE  /\ Left(w) # NoWindow => /\ w.until = w.began + Window /\ w.began <= tick' /\ tick' < w.until
                                      /\ w.passed <= w.count /\ \A h \in w.of : Key(h) = k
             /\ Left(w) = NoWindow /\ w # NoWindow => w.began < tick'
  <2>1. ASSUME Left(w) # NoWindow
        PROVE  /\ w.until = w.began + Window /\ w.began <= tick' /\ tick' < w.until
               /\ w.passed <= w.count /\ \A h \in w.of : Key(h) = k
    BY <1>2, <2>1, RateAssumption, <1>1, <1>6, <1>8 DEF RateBuckets, Windows, OwnWindow
  <2>2. ASSUME Left(w) = NoWindow, w # NoWindow PROVE w.began < tick'
    BY <1>8, <2>2, <1>1, <1>6 DEF OwnWindow, RateBuckets, Windows
  <2> QED
    BY <2>1, <2>2
<1>9. WindowsAreOwn'
  <2>1. ASSUME NEW k \in Keys PROVE OwnWindow(redis[k], k)'
    <3>1. redis[k] \in RateBuckets /\ OwnWindow(redis[k], k)
      BY DEF RateShape, WindowsAreOwn
    <3> QED
      BY <1>2, <1>4, <1>8, <3>1 DEF OwnWindow
  <2>2. ASSUME NEW i \in Instances, NEW k \in Keys PROVE (OwnWindow(buckets[i][k], k) /\ HoldsLimit(buckets[i][k], k))'
    <3>1. buckets[i][k] \in RateBuckets /\ OwnWindow(buckets[i][k], k) /\ HoldsLimit(buckets[i][k], k)
      BY DEF RateShape, WindowsAreOwn
    <3> QED
      BY <1>2, <1>5, <1>8, <3>1 DEF OwnWindow, HoldsLimit
  <2> QED
    BY <2>1, <2>2 DEF WindowsAreOwn
<1>10. CountedFits'
  <2> SUFFICES ASSUME NEW c \in Checks, checks[c].pc = "counted"
               PROVE  LET w == checks[c].window
                          k == Key(checks[c].hit) IN
                      /\ checks[c].when < w.began + Window
                      /\ \A h \in w.of : Key(h) = k
                      /\ w.began <= tick'
                      /\ redis'[k] = NoWindow => w.began < tick'
                      /\ redis'[k] # NoWindow => w.began <= redis'[k].began
    BY <1>1 DEF CountedFits
  <2> DEFINE w == checks[c].window
             k == Key(checks[c].hit)
  <2>1. /\ checks[c].when < w.began + Window /\ \A h \in w.of : Key(h) = k
        /\ w.began <= tick
        /\ redis[k] = NoWindow => w.began < tick
        /\ redis[k] # NoWindow => w.began <= redis[k].began
    BY DEF CountedFits
  <2>2. w \in Windows /\ k \in Keys
    BY CheckFacts, KeysAreKeys DEF RateShape
  <2>3. w.began \in Nat
    BY <2>2 DEF Windows
  <2>4. w.began <= tick'
    BY <1>1, <1>6, <2>1, <2>3
  <2>5. redis[k] \in RateBuckets /\ redis'[k] = Left(redis[k])
    BY <1>4, <2>2 DEF RateShape
  <2>6. redis'[k] # NoWindow => w.began <= redis'[k].began
    BY <1>2, <2>1, <2>5
  <2>7. w.began < tick'
    BY <1>1, <1>6, <2>1, <2>3
  <2> QED
    BY <2>1, <2>4, <2>6, <2>7
<1>11. CountsAreSpent'
  <2>1. AskedChecks' = AskedChecks /\ LostChecks' = LostChecks
    BY <1>1 DEF AskedChecks, LostChecks, BusyChecks
  <2>2. Cardinality(AskedChecks) \in Nat /\ Cardinality(LostChecks) \in Nat /\ rateOps \in Nat
    BY SetsAreFinite DEF RateShape
  <2>3. \A w \in RateBuckets : Left(w).count \in Nat /\ w.count \in Nat /\ Left(w).count <= w.count
    BY WindowFacts, <1>2
  <2>4. ASSUME NEW k \in Keys PROVE redis'[k].count + Cardinality(AskedChecks) <= rateOps
    <3>1. redis[k] \in RateBuckets /\ redis[k].count + Cardinality(AskedChecks) <= rateOps
      BY DEF RateShape, CountsAreSpent
    <3>2. redis'[k].count \in Nat /\ redis[k].count \in Nat /\ redis'[k].count <= redis[k].count
      BY <1>4, <2>3, <3>1
    <3> QED
      BY ONLY <2>2, <3>1, <3>2
  <2>5. ASSUME NEW i \in Instances, NEW k \in Keys PROVE buckets'[i][k].count + Cardinality(LostChecks) <= rateOps
    <3>1. buckets[i][k] \in RateBuckets /\ buckets[i][k].count + Cardinality(LostChecks) <= rateOps
      BY DEF RateShape, CountsAreSpent
    <3>2. buckets'[i][k].count \in Nat /\ buckets[i][k].count \in Nat /\ buckets'[i][k].count <= buckets[i][k].count
      BY <1>5, <2>3, <3>1
    <3> QED
      BY ONLY <2>2, <3>1, <3>2
  <2> QED
    BY <1>1, <2>1, <2>4, <2>5 DEF CountsAreSpent
<1>12. PassedAreCounted'
  <2>1. \A k, b : PassingChecks(k, b)' = PassingChecks(k, b)
    BY <1>1 DEF PassingChecks, BusyChecks
  <2>2. \A k \in Keys : redis'[k] # NoWindow => redis'[k] = redis[k]
    BY <1>2, <1>4
  <2> QED
    BY <2>1, <2>2 DEF PassedAreCounted
<1>13. RefusalFits'
  BY <1>1 DEF RefusalFits, RefusalIsBrief, RefusedForItsOwn
<1> QED
  BY <1>7, <1>9, <1>10, <1>11, <1>12, <1>13

\* Redis counts a request: its window goes on or begins, and lets it pass when the count is within the limit.
LEMMA CountStep ==
    ASSUME RateInv, NEW c \in Checks, RedisCounts(c)
    PROVE  RateInv'
PROOF
<1> USE DEF RateInv
<1> DEFINE h == checks[c].hit
           k == Key(h)
           w == redis[k]
           v == WindowAfter(w, h)
           x == [pc |-> "counted", hit |-> h, at |-> checks[c].at, window |-> v, when |-> tick]
<1>1. /\ checks[c].pc = "asked" /\ redis' = [redis EXCEPT ![k] = v] /\ checks' = [checks EXCEPT ![c] = x]
      /\ refusal' = NoRefusal /\ UNCHANGED <<tick, buckets, rateOps>>
  BY DEF RedisCounts, CountInRedis, WindowAfter
<1>2. checks[c] \in CheckInput
  BY <1>1, CheckFacts DEF RateShape
<1>3. h \in Hits /\ checks[c].at \in Instances /\ k \in Keys /\ c \in AskedChecks
  BY <1>1, <1>2, CheckFacts, KeysAreKeys DEF AskedChecks, BusyChecks
<1>4. w \in RateBuckets /\ OwnWindow(w, k) /\ tick \in 0..MaxTick
  BY <1>3 DEF RateShape, WindowsAreOwn
<1>5. /\ AskedChecks' \subseteq AskedChecks \ {c} /\ LostChecks' \subseteq LostChecks
      /\ BusyChecks' \subseteq BusyChecks
      /\ checks'[c] = x /\ \A d \in Checks : d # c => checks'[d] = checks[d]
      /\ x.pc = "counted" /\ x.hit = h /\ x.window = v /\ x.when = tick
  <2>1. x.pc = "counted" /\ x.hit = h /\ x.window = v /\ x.when = tick
    OBVIOUS
  <2> HIDE DEF x
  <2>2. checks'[c] = x /\ \A d \in Checks : d # c => checks'[d] = checks[d]
    BY <1>1 DEF RateShape
  <2>3. AskedChecks' \subseteq AskedChecks \ {c} /\ LostChecks' \subseteq LostChecks
    BY <2>1, <2>2 DEF AskedChecks, LostChecks, BusyChecks
  <2>4. BusyChecks' \subseteq BusyChecks
    BY <1>3, <2>2 DEF BusyChecks, AskedChecks
  <2> QED
    BY <2>1, <2>2, <2>3, <2>4
<1>6. /\ Cardinality(AskedChecks') + 1 <= Cardinality(AskedChecks)
      /\ Cardinality(LostChecks') <= Cardinality(LostChecks)
      /\ Cardinality(AskedChecks') \in Nat /\ Cardinality(AskedChecks) \in Nat
      /\ Cardinality(LostChecks') \in Nat /\ Cardinality(LostChecks) \in Nat
      /\ IsFiniteSet(BusyChecks')
  BY SetsAreFinite, <1>3, <1>5, CountsOneLess, FS_Subset, FS_CardinalityType DEF RateShape
<1>7. rateOps \in 0..MaxRateOps /\ MaxRateOps \in Nat
  BY RateAssumption DEF RateShape
<1>8. w.count + Cardinality(AskedChecks) <= rateOps /\ w.count \in Nat
  BY <1>3, <1>4, WindowFacts DEF CountsAreSpent
<1>9. w.count < MaxRateOps
  BY <1>6, <1>7, <1>8
<1>10. /\ v \in Windows /\ v # NoWindow /\ OwnWindow(v, k) /\ v.count = w.count + 1
       /\ w = NoWindow => v.began = tick /\ v.passed = 0
       /\ w # NoWindow => v.began = w.began /\ v.passed = w.passed
       /\ tick < v.began + Window
  BY <1>3, <1>4, <1>9, WindowGoesOn
<1>11. x \in CountedCheck
  BY <1>3, <1>4, <1>10 DEF CountedCheck
<1> HIDE DEF x, v, w
<1>12. redis'[k] = v /\ \A p \in Keys : p # k => redis'[p] = redis[p]
  BY <1>1, <1>3 DEF RateShape
<1>13. RateShape'
  BY <1>1, <1>3, <1>10, <1>11, <1>6 DEF RateShape, RateBuckets
<1>14. WindowsAreOwn'
  BY <1>10, <1>12, <1>1 DEF WindowsAreOwn, OwnWindow, HoldsLimit
<1>15. CountedFits'
  <2> DEFINE Fits(y, r) ==
        LET p == Key(y.hit) IN
        /\ y.when < y.window.began + Window
        /\ \A g \in y.window.of : Key(g) = p
        /\ y.window.began <= tick
        /\ r[p] = NoWindow => y.window.began < tick
        /\ r[p] # NoWindow => y.window.began <= r[p].began
  <2>1. Fits(x, redis')
    BY <1>10, <1>5, <1>12 DEF OwnWindow, Windows
  <2>2. ASSUME NEW d \in Checks, d # c, checks[d].pc = "counted" PROVE Fits(checks[d], redis')
    <3>1. Fits(checks[d], redis) /\ checks[d] \in CountedCheck
      BY <2>2, CheckFacts DEF CountedFits, RateShape
    <3>2. Key(checks[d].hit) \in Keys
      BY <3>1, CheckFacts, KeysAreKeys
    <3>3. CASE Key(checks[d].hit) = k
      <4>1. checks[d].window.began <= v.began
        <5>1. CASE w = NoWindow
          BY <1>10, <3>1, <3>3, <5>1, <1>4 DEF w, CountedCheck, Windows
        <5>2. CASE w # NoWindow
          BY <1>10, <3>1, <3>3, <5>2 DEF w
        <5> QED
          BY <5>1, <5>2
      <4> QED
        BY <1>10, <1>12, <3>1, <3>3, <4>1
    <3>4. CASE Key(checks[d].hit) # k
      BY <1>12, <3>1, <3>2, <3>4
    <3> QED
      BY <3>3, <3>4
  <2>3. \A d \in Checks : checks'[d].pc = "counted" => Fits(checks'[d], redis')
    BY <1>5, <2>1, <2>2
  <2>4. CountedFits' <=> \A d \in Checks : checks'[d].pc = "counted" => Fits(checks'[d], redis')
    BY <1>1 DEF CountedFits
  <2> QED
    BY <2>3, <2>4
<1>16. CountsAreSpent'
  <2>1. ASSUME NEW p \in Keys PROVE redis'[p].count + Cardinality(AskedChecks') <= rateOps
    <3>1. CASE p = k
      BY <1>6, <1>7, <1>8, <1>10, <1>12, <3>1
    <3>2. CASE p # k
      BY WindowFacts, <1>6, <1>7, <1>12, <3>2 DEF RateShape, CountsAreSpent
    <3> QED
      BY <3>1, <3>2
  <2>2. ASSUME NEW i \in Instances, NEW p \in Keys PROVE buckets[i][p].count + Cardinality(LostChecks') <= rateOps
    BY WindowFacts, <1>6, <1>7 DEF RateShape, CountsAreSpent
  <2> QED
    BY <1>1, <2>1, <2>2 DEF CountsAreSpent
<1>17. PassedAreCounted'
  <2> DEFINE Passing(p, b) ==
        {d \in BusyChecks' : /\ checks'[d].pc = "counted" /\ Key(checks'[d].hit) = p
                             /\ checks'[d].window.began = b
                             /\ checks'[d].window.count <= Limit(checks'[d].hit)}
  <2>1. ASSUME NEW p, NEW b, Passing(p, b) \subseteq PassingChecks(p, b)
        PROVE  /\ Cardinality(Passing(p, b)) <= Cardinality(PassingChecks(p, b))
               /\ Cardinality(Passing(p, b)) \in Nat /\ Cardinality(PassingChecks(p, b)) \in Nat
    BY <2>1, SetsAreFinite, FS_Subset, FS_CardinalityType
  <2> DEFINE Within(p) ==
        LET pass == redis'[p].passed + Cardinality(Passing(p, redis'[p].began)) IN
        /\ pass <= redis'[p].count
        /\ \A g \in Hits : Key(g) = p => pass <= Limit(g)
  <2>2. ASSUME NEW p \in Keys, p # k, redis'[p] # NoWindow PROVE Within(p)
    <3> DEFINE b == redis[p].began
               n == Cardinality(PassingChecks(p, b))
               m == Cardinality(Passing(p, b))
    <3>1. Passing(p, b) \subseteq PassingChecks(p, b)
      BY <1>5, <1>12, <2>2 DEF PassingChecks, BusyChecks
    <3>2. m <= n /\ m \in Nat /\ n \in Nat
      BY <2>1, <3>1
    <3>3. redis'[p] = redis[p] /\ redis[p].passed \in Nat /\ redis[p].count \in Nat
      BY <1>12, <2>2 DEF RateShape, RateBuckets, Windows
    <3>4. redis[p].passed + n <= redis[p].count /\ \A g \in Hits : Key(g) = p => redis[p].passed + n <= Limit(g)
      BY <2>2, <3>3 DEF PassedAreCounted
    <3>5. Within(p) <=> /\ redis[p].passed + m <= redis[p].count
                        /\ \A g \in Hits : Key(g) = p => redis[p].passed + m <= Limit(g)
      BY <3>3
    <3> HIDE DEF n, m, b
    <3>6. \A g \in Hits : Limit(g) \in Nat
      BY LimitIsPositive
    <3>7. redis[p].passed + m <= redis[p].count
      BY <3>2, <3>3, <3>4
    <3>8. \A g \in Hits : Key(g) = p => redis[p].passed + m <= Limit(g)
      BY <3>2, <3>3, <3>4, <3>6
    <3> QED
      BY <3>5, <3>7, <3>8
  <2>3. Within(k)
    <3> DEFINE b == v.began
               m == Cardinality(Passing(k, b))
               S == PassingChecks(k, b)
               T == Passing(k, b)
    <3>1. \A g \in Hits : Key(g) = k => Limit(g) = Limit(h)
      BY <1>3, KeysTellApart
    <3>2. Limit(h) \in Nat \ {0}
      BY <1>3, LimitIsPositive
    <3>3. Within(k) <=> v.passed + m <= v.count /\ \A g \in Hits : Key(g) = k => v.passed + m <= Limit(g)
      BY <1>12
    <3>4. T \subseteq S \cup {c}
      BY <1>5 DEF PassingChecks, BusyChecks
    <3>5. v.count > Limit(h) => c \notin T
      BY <1>5, <1>10, <3>2 DEF PassingChecks, BusyChecks, Windows
    <3>6. IsFiniteSet(S) /\ Cardinality(S) \in Nat
      BY SetsAreFinite
    <3>7. v.passed \in Nat /\ v.count \in Nat
      BY <1>10 DEF Windows
    <3>8. w = NoWindow => S = {}
      <4>1. ASSUME w = NoWindow, NEW d \in S PROVE FALSE
        BY <1>10, <4>1, <1>4 DEF PassingChecks, BusyChecks, CountedFits, w
      <4> QED
        BY <4>1
    <3>9. v.passed + Cardinality(S) <= w.count /\ v.passed + Cardinality(S) <= Limit(h)
      <4>1. CASE w = NoWindow
        <5>1. Cardinality(S) = 0 /\ v.passed = 0
          BY <1>10, <3>8, <4>1, FS_EmptySet
        <5> QED
          BY ONLY <1>8, <3>2, <5>1
      <4>2. CASE w # NoWindow
        BY <1>10, <4>2, <1>3 DEF PassedAreCounted, w
      <4> QED
        BY <4>1, <4>2
    <3>10. Cardinality(T) \in Nat /\ Cardinality(T) <= Cardinality(S) + 1
      BY <3>4, <3>6, CountsOneMore
    <3>11. v.count > Limit(h) => Cardinality(T) <= Cardinality(S)
      <4>1. ASSUME v.count > Limit(h) PROVE Cardinality(T) <= Cardinality(S)
        BY <3>4, <3>5, <4>1, <3>6, FS_Subset
      <4> QED
        BY <4>1
    <3>12. m = Cardinality(T)
      OBVIOUS
    <3> HIDE DEF m, T, S
    <3>13. v.passed + m <= v.count /\ v.passed + m <= Limit(h)
      BY <1>8, <1>10, <3>2, <3>6, <3>7, <3>9, <3>10, <3>11, <3>12
    <3> QED
      BY <3>1, <3>3, <3>13
  <2>4. \A p \in Keys : redis'[p] # NoWindow => Within(p)
    BY <2>2, <2>3
  <2> QED
    BY <2>4 DEF PassedAreCounted, PassingChecks
<1>18. RefusalFits'
  BY <1>1 DEF RefusalFits, RefusalIsBrief, RefusedForItsOwn
<1> QED
  BY <1>13, <1>14, <1>15, <1>16, <1>17, <1>18

\* An answer lets its request pass in the window that counted it, or refuses it for a window that stood.
LEMMA AnswerStep ==
    ASSUME RateInv, NEW c \in Checks, Answer(c)
    PROVE  RateInv'
PROOF
<1> USE DEF RateInv
<1> DEFINE h == checks[c].hit
           k == Key(h)
           w == checks[c].window
           Lets == Passes(w.count, h) /\ redis[k] # NoWindow /\ redis[k].began = w.began
           v == [redis[k] EXCEPT !.passed = @ + 1]
<1>1. /\ checks[c].pc = "counted" /\ checks' = [checks EXCEPT ![c] = NotChecking]
      /\ UNCHANGED <<tick, buckets, rateOps>>
      /\ Lets => redis' = [redis EXCEPT ![k] = v]
      /\ ~Lets => redis' = redis
  BY DEF Answer
<1>2. refusal' = NoRefusal \/ refusal' = [hit |-> h, window |-> w, at |-> checks[c].when]
  BY DEF Answer, Refuse
<1>3. checks[c] \in CountedCheck
  BY <1>1, CheckFacts DEF RateShape
<1>4. h \in Hits /\ k \in Keys /\ w \in Windows /\ checks[c].when \in Nat /\ c \in BusyChecks
  BY <1>1, <1>3, CheckFacts, KeysAreKeys, RateAssumption DEF BusyChecks
<1>5. Lets <=> w.count <= Limit(h) /\ redis[k] # NoWindow /\ redis[k].began = w.began
  BY DEF Passes
<1>6. /\ checks'[c] = NotChecking /\ \A d \in Checks : d # c => checks'[d] = checks[d]
      /\ checks' \in [Checks -> {NotChecking} \cup CheckInput \cup CountedCheck]
  BY <1>1 DEF RateShape
<1>7. /\ AskedChecks' \subseteq AskedChecks /\ LostChecks' \subseteq LostChecks
      /\ BusyChecks' \subseteq BusyChecks \ {c}
  BY <1>6 DEF AskedChecks, LostChecks, BusyChecks
<1>8. /\ IsFiniteSet(BusyChecks') /\ Cardinality(AskedChecks') <= Cardinality(AskedChecks)
      /\ Cardinality(LostChecks') <= Cardinality(LostChecks)
      /\ Cardinality(AskedChecks') \in Nat /\ Cardinality(AskedChecks) \in Nat
      /\ Cardinality(LostChecks') \in Nat /\ Cardinality(LostChecks) \in Nat
  BY SetsAreFinite, <1>7, FS_Subset, FS_CardinalityType DEF RateShape
<1> DEFINE Passing(p, b) ==
        {d \in BusyChecks' : /\ checks'[d].pc = "counted" /\ Key(checks'[d].hit) = p
                             /\ checks'[d].window.began = b
                             /\ checks'[d].window.count <= Limit(checks'[d].hit)}
<1>9. \A p, b : Passing(p, b) \subseteq PassingChecks(p, b) \ {c}
  BY <1>6, <1>7 DEF PassingChecks, BusyChecks
<1>10. \A p, b : Cardinality(Passing(p, b)) \in Nat /\ Cardinality(Passing(p, b)) <= Cardinality(PassingChecks(p, b))
                 /\ Cardinality(PassingChecks(p, b)) \in Nat
  <2> SUFFICES ASSUME NEW p, NEW b
               PROVE  Cardinality(Passing(p, b)) \in Nat /\ Cardinality(Passing(p, b)) <= Cardinality(PassingChecks(p, b))
                      /\ Cardinality(PassingChecks(p, b)) \in Nat
    OBVIOUS
  <2>1. Passing(p, b) \in SUBSET PassingChecks(p, b)
    BY <1>9
  <2> HIDE DEF Passing
  <2> QED
    BY <2>1, SetsAreFinite, FS_Subset, FS_CardinalityType
<1>11. Lets => Cardinality(Passing(k, w.began)) + 1 <= Cardinality(PassingChecks(k, w.began))
  <2>1. ASSUME Lets PROVE c \in PassingChecks(k, w.began)
    BY <1>1, <1>4, <1>5, <2>1 DEF PassingChecks
  <2>2. Passing(k, w.began) \subseteq PassingChecks(k, w.began) \ {c}
    BY <1>9
  <2>3. IsFiniteSet(PassingChecks(k, w.began))
    BY SetsAreFinite
  <2> HIDE DEF Passing
  <2> QED
    BY <2>1, <2>2, <2>3, CountsOneLess
<1>12. ASSUME Lets
       PROVE  /\ redis[k] \in Windows /\ v \in Windows /\ v # NoWindow
              /\ v.count = redis[k].count /\ v.until = redis[k].until /\ v.began = redis[k].began
              /\ v.of = redis[k].of /\ v.passed = redis[k].passed + 1
              /\ redis[k].passed \in Nat /\ redis[k].count \in Nat
              /\ v.passed + Cardinality(Passing(k, v.began)) <= redis[k].passed + Cardinality(PassingChecks(k, v.began))
              /\ v.passed <= v.count
  <2>1. redis[k] \in Windows /\ redis[k].began = w.began /\ redis[k] # NoWindow
    BY <1>4, <1>5, <1>12 DEF RateShape, RateBuckets
  <2>2. /\ v.count = redis[k].count /\ v.until = redis[k].until /\ v.began = redis[k].began
        /\ v.of = redis[k].of /\ v.passed = redis[k].passed + 1
        /\ redis[k].passed \in Nat /\ redis[k].count \in Nat
        /\ redis[k].count <= MaxRateOps /\ MaxRateOps \in Nat
    BY <2>1, RateAssumption DEF Windows
  <2>3. redis[k].passed + Cardinality(PassingChecks(k, w.began)) <= redis[k].count
    BY <1>4, <2>1 DEF PassedAreCounted
  <2> DEFINE n == Cardinality(PassingChecks(k, w.began))
             m == Cardinality(Passing(k, w.began))
  <2>4. n \in Nat /\ m \in Nat /\ m + 1 <= n /\ redis[k].passed + n <= redis[k].count
    BY <1>10, <1>11, <1>12, <2>3
  <2> HIDE DEF n, m
  <2>5. v.passed + m <= redis[k].passed + n /\ v.passed <= v.count /\ v.passed <= MaxRateOps /\ v.passed \in Nat
    BY <2>2, <2>4
  <2>6. v \in Windows
    BY <2>1, <2>2, <2>5 DEF Windows
  <2>7. v.began = w.began
    BY <2>1, <2>2
  <2>8. v.passed + Cardinality(Passing(k, v.began)) <= redis[k].passed + Cardinality(PassingChecks(k, v.began))
    BY <2>5, <2>7 DEF n, m
  <2> HIDE DEF v, Passing
  <2> QED
    BY <2>1, <2>2, <2>5, <2>6, <2>8, WindowFacts
<1> HIDE DEF v, Passing, Lets
<1>13. /\ \A p \in Keys : p # k => redis'[p] = redis[p]
       /\ Lets => redis'[k] = v
       /\ ~Lets => redis'[k] = redis[k]
  BY <1>1, <1>4 DEF RateShape
<1>14. \A p \in Keys : redis'[p] = NoWindow <=> redis[p] = NoWindow
  BY <1>12, <1>13, WindowFacts
<1>15. RateShape'
  <2>1. redis' \in [Keys -> RateBuckets]
    BY <1>1, <1>4, <1>12 DEF RateShape, RateBuckets
  <2> QED
    BY <1>1, <1>6, <1>8, <2>1 DEF RateShape
<1>16. WindowsAreOwn'
  <2>1. ASSUME NEW p \in Keys PROVE OwnWindow(redis'[p], p)
    <3>1. OwnWindow(redis[p], p)
      BY DEF WindowsAreOwn
    <3>2. CASE p = k /\ Lets
      BY <1>5, <3>2, <1>12, <1>13, <3>1 DEF OwnWindow
    <3>3. CASE ~(p = k /\ Lets)
      BY <1>13, <3>1, <3>3
    <3> QED
      BY <3>2, <3>3
  <2> QED
    BY <1>1, <2>1 DEF WindowsAreOwn, OwnWindow, HoldsLimit
<1>17. CountedFits'
  BY <1>12, <1>13, <1>6, CheckFacts, KeysAreKeys, <1>1, <1>14 DEF RateShape, CountedFits
<1>18. CountsAreSpent'
  <2>1. \A p \in Keys : redis'[p].count = redis[p].count
    BY <1>12, <1>13
  <2>2. \A p \in Keys : redis[p].count \in Nat
    BY WindowFacts DEF RateShape
  <2>3. \A i \in Instances, p \in Keys : buckets[i][p].count \in Nat
    BY WindowFacts DEF RateShape
  <2>4. rateOps \in Nat
    BY DEF RateShape
  <2>5. ASSUME NEW p \in Keys PROVE redis'[p].count + Cardinality(AskedChecks') <= rateOps
    BY <1>8, <2>1, <2>2, <2>4 DEF CountsAreSpent
  <2>6. ASSUME NEW i \in Instances, NEW p \in Keys PROVE buckets[i][p].count + Cardinality(LostChecks') <= rateOps
    BY <1>8, <2>3, <2>4 DEF CountsAreSpent
  <2> QED
    BY <1>1, <2>5, <2>6 DEF CountsAreSpent
<1>19. PassedAreCounted'
  <2>1. ASSUME NEW p \in Keys, redis'[p] # NoWindow
        PROVE  LET pass == redis'[p].passed + Cardinality(Passing(p, redis'[p].began)) IN
               /\ pass <= redis'[p].count
               /\ \A g \in Hits : Key(g) = p => pass <= Limit(g)
    <3> DEFINE b == redis[p].began
               n == Cardinality(PassingChecks(p, b))
               m == Cardinality(Passing(p, b))
               old == redis[p].passed
               new == redis'[p].passed
    <3>1. redis[p] # NoWindow /\ redis[p] \in Windows
      BY <1>14, <2>1 DEF RateShape, RateBuckets
    <3>2. old \in Nat /\ redis[p].count \in Nat
      BY <3>1 DEF Windows
    <3>3. old + n <= redis[p].count /\ \A g \in Hits : Key(g) = p => old + n <= Limit(g)
      BY <3>1 DEF PassedAreCounted
    <3>4. n \in Nat /\ m \in Nat /\ m <= n
      BY <1>10
    <3>5. redis'[p].began = b /\ redis'[p].count = redis[p].count /\ new \in Nat /\ new + m <= old + n
      <4>1. CASE p = k /\ Lets
        BY <1>12, <1>13, <3>2, <4>1
      <4>2. CASE ~(p = k /\ Lets)
        <5>1. redis'[p] = redis[p]
          BY <1>13, <4>2
        <5> HIDE DEF n, m
        <5> QED
          BY <3>2, <3>4, <5>1
      <4> QED
        BY <4>1, <4>2
    <3>6. \A g \in Hits : Limit(g) \in Nat
      BY LimitIsPositive
    <3>7. Cardinality(Passing(p, redis'[p].began)) = m
      BY <3>5
    <3> HIDE DEF n, m, old, new
    <3>8. new + m <= redis'[p].count
      BY <3>2, <3>3, <3>4, <3>5
    <3>9. \A g \in Hits : Key(g) = p => new + m <= Limit(g)
      BY <3>2, <3>3, <3>4, <3>5, <3>6
    <3> QED
      BY <3>7, <3>8, <3>9 DEF new
  <2> QED
    BY <2>1 DEF PassedAreCounted, PassingChecks, Passing
<1>20. RefusalFits'
  <2>1. CASE refusal' = NoRefusal
    BY <2>1 DEF RefusalFits, RefusalIsBrief, RefusedForItsOwn
  <2>2. CASE refusal' = [hit |-> h, window |-> w, at |-> checks[c].when]
    BY <1>1, <1>4, RateAssumption, KeysTellApart, <2>2 DEF CountedFits, Windows, RefusalFits, RefusalIsBrief,
       RefusedForItsOwn
  <2> QED
    BY <1>2, <2>1, <2>2
<1> QED
  BY <1>15, <1>16, <1>17, <1>18, <1>19, <1>20

\* The instance's memory counts a request and answers at once.
LEMMA MemoryStep ==
    ASSUME RateInv, NEW c \in Checks, MemoryCheck(c)
    PROVE  RateInv'
PROOF
<1> USE DEF RateInv
<1> DEFINE h == checks[c].hit
           k == Key(h)
           i == checks[c].at
           w == buckets[i][k]
           v == WindowAfter(w, h)
           Lets == v.count = 1 \/ v.count <= Limit(h)
           u == [v EXCEPT !.passed = @ + 1]
           y == IF Lets THEN u ELSE v
<1>1. /\ checks[c].pc = "lost" /\ checks' = [checks EXCEPT ![c] = NotChecking]
      /\ UNCHANGED <<tick, redis, rateOps>>
      /\ buckets' = [buckets EXCEPT ![i][k] = y]
      /\ refusal' \in {NoRefusal, [hit |-> h, window |-> v, at |-> tick]}
  BY DEF MemoryCheck, WindowAfter, Passes, Refuse
<1>2. checks[c] \in CheckInput
  BY <1>1, CheckFacts DEF RateShape
<1>3. h \in Hits /\ k \in Keys /\ i \in Instances /\ c \in LostChecks
  BY <1>1, <1>2, CheckFacts, KeysAreKeys DEF LostChecks, BusyChecks
<1>4. w \in RateBuckets /\ OwnWindow(w, k) /\ HoldsLimit(w, k) /\ tick \in 0..MaxTick
  BY <1>3 DEF RateShape, WindowsAreOwn
<1>5. /\ checks'[c] = NotChecking /\ \A d \in Checks : d # c => checks'[d] = checks[d]
      /\ checks' \in [Checks -> {NotChecking} \cup CheckInput \cup CountedCheck]
  BY <1>1 DEF RateShape
<1>6. /\ AskedChecks' \subseteq AskedChecks /\ LostChecks' \subseteq LostChecks \ {c}
      /\ BusyChecks' \subseteq BusyChecks
  BY <1>5 DEF AskedChecks, LostChecks, BusyChecks
<1>7. /\ IsFiniteSet(BusyChecks') /\ Cardinality(AskedChecks') <= Cardinality(AskedChecks)
      /\ Cardinality(LostChecks') + 1 <= Cardinality(LostChecks)
      /\ Cardinality(AskedChecks') \in Nat /\ Cardinality(AskedChecks) \in Nat
      /\ Cardinality(LostChecks') \in Nat /\ Cardinality(LostChecks) \in Nat
  BY SetsAreFinite, <1>3, <1>6, CountsOneLess, FS_Subset, FS_CardinalityType DEF RateShape
<1>8. rateOps \in 0..MaxRateOps /\ MaxRateOps \in Nat
  BY RateAssumption DEF RateShape
<1>9. w.count + Cardinality(LostChecks) <= rateOps /\ w.count \in Nat
  BY <1>3, <1>4, WindowFacts DEF CountsAreSpent
<1>10. w.count < MaxRateOps
  BY <1>7, <1>8, <1>9
<1>11. /\ v \in Windows /\ v # NoWindow /\ OwnWindow(v, k) /\ v.count = w.count + 1
       /\ w = NoWindow => v.passed = 0
       /\ w # NoWindow => v.passed = w.passed
       /\ tick < v.began + Window
  BY <1>3, <1>4, <1>10, WindowGoesOn
<1>12. Limit(h) \in Nat \ {0} /\ \A g \in Hits : Key(g) = k => Limit(g) = Limit(h)
  BY <1>3, LimitIsPositive, KeysTellApart
<1> HIDE DEF v
<1>13. /\ u.count = v.count /\ u.until = v.until /\ u.began = v.began /\ u.of = v.of /\ u.passed = v.passed + 1
       /\ v.passed \in Nat /\ v.count \in Nat /\ v.count <= MaxRateOps
  BY <1>8, <1>11 DEF Windows
<1>14. v.passed <= w.count /\ (w # NoWindow => v.passed <= Limit(h))
  <2>1. CASE w = NoWindow
    <3> HIDE DEF w
    <3> QED
      BY <1>9, <1>11, <2>1
  <2>2. CASE w # NoWindow
    BY <1>3, <1>4, <2>2, <1>11 DEF OwnWindow, HoldsLimit
  <2> QED
    BY <2>1, <2>2
<1>15. u \in Windows
  <2>1. v.passed + 1 \in 0..MaxRateOps
    BY <1>8, <1>9, <1>10, <1>13, <1>14
  <2> QED
    BY <1>11, <2>1 DEF Windows
<1> HIDE DEF u
<1>16. y \in Windows /\ y # NoWindow /\ OwnWindow(y, k) /\ HoldsLimit(y, k) /\ y.count = w.count + 1
  <2>1. CASE Lets
    <3>1. y = u
      BY <2>1
    <3>2. u.passed <= u.count
      BY <1>9, <1>11, <1>13, <1>14
    <3>3. OwnWindow(u, k)
      BY <1>11, <1>13, <3>2 DEF OwnWindow
    <3>4. u.passed <= Limit(h)
      BY <1>9, <1>11, <1>12, <1>13, <1>14, <2>1
    <3> QED
      BY <1>11, <1>12, <1>13, <1>15, <3>1, <3>3, <3>4, WindowFacts DEF HoldsLimit
  <2>2. CASE ~Lets
    <3>1. y = v
      BY <2>2
    <3>2. v.passed <= Limit(h)
      BY <1>11, <1>12, <1>13, <1>14
    <3> QED
      BY <1>11, <1>12, <3>1, <3>2 DEF HoldsLimit
  <2> QED
    BY <2>1, <2>2
<1> HIDE DEF y, w
<1>17. /\ buckets' \in [Instances -> [Keys -> RateBuckets]]
       /\ buckets'[i][k] = y
       /\ \A j \in Instances, p \in Keys : <<j, p>> # <<i, k>> => buckets'[j][p] = buckets[j][p]
  BY <1>1, <1>3, <1>16 DEF RateShape, RateBuckets
<1>18. RateShape'
  BY <1>1, <1>5, <1>7, <1>17 DEF RateShape
<1>19. WindowsAreOwn'
  <2>1. \A j \in Instances, p \in Keys : OwnWindow(buckets'[j][p], p) /\ HoldsLimit(buckets'[j][p], p)
    BY <1>16, <1>17 DEF WindowsAreOwn
  <2> QED
    BY <1>1, <2>1 DEF WindowsAreOwn, OwnWindow, HoldsLimit
<1>20. CountedFits'
  BY <1>5, CheckFacts, <1>1 DEF CountedFits
<1>21. CountsAreSpent'
  <2>1. ASSUME NEW p \in Keys PROVE redis[p].count + Cardinality(AskedChecks') <= rateOps
    BY WindowFacts, <1>7, <1>8 DEF RateShape, CountsAreSpent
  <2>2. ASSUME NEW j \in Instances, NEW p \in Keys PROVE buckets'[j][p].count + Cardinality(LostChecks') <= rateOps
    <3>1. CASE <<j, p>> = <<i, k>>
      BY <1>16, <1>17, <3>1, <1>7, <1>8, <1>9
    <3>2. CASE <<j, p>> # <<i, k>>
      BY WindowFacts, <1>17, <3>2, <1>7, <1>8 DEF RateShape, CountsAreSpent
    <3> QED
      BY <3>1, <3>2
  <2> QED
    BY <1>1, <2>1, <2>2 DEF CountsAreSpent
<1>22. PassedAreCounted'
  <2> DEFINE Passing(p, b) ==
        {d \in BusyChecks' : /\ checks'[d].pc = "counted" /\ Key(checks'[d].hit) = p
                             /\ checks'[d].window.began = b
                             /\ checks'[d].window.count <= Limit(checks'[d].hit)}
  <2>1. NotChecking.pc # "counted"
    BY CheckFacts
  <2>2. \A p, b : Passing(p, b) = PassingChecks(p, b)
    BY <1>1, <1>5, <2>1 DEF PassingChecks, BusyChecks
  <2>3. \A p \in Keys : redis[p] # NoWindow =>
          LET pass == redis[p].passed + Cardinality(Passing(p, redis[p].began)) IN
          /\ pass <= redis[p].count
          /\ \A g \in Hits : Key(g) = p => pass <= Limit(g)
    BY <2>2 DEF PassedAreCounted
  <2> QED
    BY <1>1, <2>3 DEF PassedAreCounted, PassingChecks
<1>23. RefusalFits'
  <2>1. CASE refusal' = NoRefusal
    BY <2>1 DEF RefusalFits, RefusalIsBrief, RefusedForItsOwn
  <2>2. CASE refusal' = [hit |-> h, window |-> v, at |-> tick]
    BY <1>4, <1>11, RateAssumption, <1>3, KeysTellApart, <2>2 DEF Windows, OwnWindow, RefusalFits, RefusalIsBrief,
       RefusedForItsOwn
  <2> QED
    BY <1>1, <2>1, <2>2
<1> QED
  BY <1>18, <1>19, <1>20, <1>21, <1>22, <1>23

LEMMA RateStep == RateInv /\ [RateNext]_rateVars => RateInv'
PROOF
<1> SUFFICES ASSUME RateInv, [RateNext]_rateVars PROVE RateInv'
  OBVIOUS
<1>1. CASE UNCHANGED rateVars
  BY <1>1 DEF rateVars, RateInv, RateShape, BusyChecks, AskedChecks, LostChecks, PassingChecks, WindowsAreOwn,
              OwnWindow, HoldsLimit, CountedFits, CountsAreSpent, PassedAreCounted, RefusalFits, RefusalIsBrief,
              RefusedForItsOwn
<1>2. CASE RateNext
  BY <1>2, TickStep, AskStep, CountStep, FailStep, AnswerStep, MemoryStep, RestartStep DEF RateNext
<1> QED
  BY <1>1, <1>2

\* What the run checks of the limits follows.
LEMMA RateKeeps == RateInv => RateTypeOK /\ WindowHoldsTheLimit /\ RefusalIsBrief /\ RefusedForItsOwn
PROOF
<1> SUFFICES ASSUME RateInv PROVE RateTypeOK /\ WindowHoldsTheLimit /\ RefusalIsBrief /\ RefusedForItsOwn
  OBVIOUS
<1> USE DEF RateInv
<1>1. RateTypeOK
  BY DEF RateTypeOK, RateShape, RateBuckets, CountedCheck
<1>2. ASSUME NEW k \in Keys, NEW h \in Hits, Key(h) = k, redis[k] # NoWindow PROVE redis[k].passed <= Limit(h)
  <2> DEFINE n == Cardinality(PassingChecks(k, redis[k].began))
  <2>1. n \in Nat /\ redis[k].passed + n <= Limit(h) /\ Limit(h) \in Nat
    BY <1>2, SetsAreFinite, LimitIsPositive DEF PassedAreCounted
  <2>2. redis[k].passed \in Nat
    BY <1>2 DEF RateShape, RateBuckets, Windows
  <2> HIDE DEF n
  <2> QED
    BY <2>1, <2>2
<1>3. \A i \in Instances, k \in Keys, h \in Hits :
        Key(h) = k /\ buckets[i][k] # NoWindow => buckets[i][k].passed <= Limit(h)
  BY DEF WindowsAreOwn, HoldsLimit
<1>4. WindowHoldsTheLimit
  BY <1>2, <1>3 DEF WindowHoldsTheLimit
<1> QED
  BY <1>1, <1>4 DEF RefusalFits

-----------------------------------------------------------------------------
(* The services together: every one of them keeps its own invariant, in a       *)
(* behaviour of any of them.                                                    *)

\* The tenant services run the eight services they are made of.
LEMMA ServicesRunTheirParts ==
    /\ TenantServicesInit => /\ PromptInit /\ AnchorInit /\ CallerInit /\ PagesInit
                             /\ SignInit /\ SetupInit /\ RuleInit /\ RateInit
    /\ [TenantServicesNext]_TenantServicesVars =>
         /\ [PromptNext]_promptVars /\ [AnchorNext]_anchorVars /\ [CallerNext]_callerVars
         /\ [PagesNext]_oauthVars /\ [SignNext]_signVars /\ [SetupNext]_setupVars
         /\ [RuleNext]_ruleVars /\ [RateNext]_rateVars
PROOF
  BY DEF TenantServicesInit, TenantServicesNext, TenantServicesVars

\* The inductive invariant of the services: the conjunction of theirs.
TenantInv ==
    /\ PromptInv /\ AnchorInv /\ CallerInv /\ PagesInv
    /\ SignInv /\ SetupInv /\ RuleInv /\ RateInv

LEMMA TenantStarts == TenantServicesInit => TenantInv
PROOF
  BY ServicesRunTheirParts, PromptStart, AnchorStarts, CallerStarts, PagesStart, SignStarts, SetupStarts,
     RuleStarts, RateStarts DEF TenantInv

LEMMA TenantStep == TenantInv /\ [TenantServicesNext]_TenantServicesVars => TenantInv'
PROOF
  BY ServicesRunTheirParts, PromptStep, AnchorStep, CallerStep, PagesStep, SignStep, SetupStep, RuleStep,
     RateStep DEF TenantInv

\* What TLC checks of the services follows from the invariant.
LEMMA TenantKeeps == TenantInv => TenantInvariant
PROOF
  BY PromptKeep, AnchorKeeps, CallerKeeps, PagesKeep, SignKeeps, SetupKeeps, RuleKeeps, RateKeeps DEF TenantInv,
     TenantInvariant, TenantTypeOK, OverlapLosesNothing, FailureIsContained

\* In every state, whatever the number of tenants, profiles, requests, codes, rules and hits: requests that
\* overlap lose nothing that was acknowledged and mix nothing up, and one that fails half way leaves no lie
\* behind (prompt-store.ts, anchor-console.ts, thread-state.ts, meta-oauth.ts, client-auth.ts, rate-limit.ts
\* and the services of set-up and of the rules of a channel).
THEOREM ServicesAreSound == TenantServicesSpec => []TenantInvariant
PROOF
<1>1. TenantServicesSpec => []TenantInv
  BY TenantStarts, TenantStep, PTL DEF TenantServicesSpec
<1> QED
  BY <1>1, TenantKeeps, PTL

\* No step reaches over to another tenant: a request sent under one client changes no escalation of another
\* (anchor-console.ts), what is changed is changed by right, and the channel of a page is not taken over by a
\* selection of another workspace unless requests overlapped (meta-oauth.ts).
THEOREM TenantsAreApart == TenantServicesSpec => TenantsStayApart
PROOF
<1> DEFINE Own == \A e \in Escalations, o \in AnchorOperators :
                    acts[o].esc = e /\ acts[o].at = "checked" /\ acts'[o].at = "applied" /\ acts[o].client # ClientOf[e]
                      => escalations'[e] = escalations[e]
           Right == \A o \in AnchorOperators : acts[o].at = "checked" /\ acts'[o].at = "applied" =>
                      \/ RoleOf[o] = "admin"
                      \/ RoleOf[o] = "operator" /\ (<<o, acts[o].client>> \in access \/ o \in revokedAmid)
           Stays == ~disturbed => \A g \in MetaPages :
                      pageChannel[g] # NoChannel => pageChannel'[g].owner \in {pageChannel[g].owner, Nothing}
<1>1. TenantServicesInit => ActsInv /\ ConnectionInv
  BY ServicesRunTheirParts, AnchorInitActs, PagesInitInv
<1>2. ActsInv /\ ConnectionInv /\ [TenantServicesNext]_TenantServicesVars => ActsInv' /\ ConnectionInv'
  BY ServicesRunTheirParts, AnchorStepActs, PagesStepInv
<1>3. ActsInv /\ [TenantServicesNext]_TenantServicesVars => [Own]_anchorVars
  BY ServicesRunTheirParts, AppliedToItsClient
<1>4. ActsInv /\ [TenantServicesNext]_TenantServicesVars => [Right]_anchorVars
  BY ServicesRunTheirParts, AppliedByRight
<1>5. ConnectionInv /\ [TenantServicesNext]_TenantServicesVars => [Stays]_oauthVars
  BY ServicesRunTheirParts, ChannelStays
<1>6. TenantServicesSpec => [](ActsInv /\ ConnectionInv)
  BY <1>1, <1>2, PTL DEF TenantServicesSpec
<1>7. TenantServicesSpec => [][Own]_anchorVars
  BY <1>3, <1>6, PTL DEF TenantServicesSpec
<1>8. TenantServicesSpec => [][Right]_anchorVars
  BY <1>4, <1>6, PTL DEF TenantServicesSpec
<1>9. TenantServicesSpec => [][Stays]_oauthVars
  BY <1>5, <1>6, PTL DEF TenantServicesSpec
<1> QED
  BY <1>7, <1>8, <1>9 DEF TenantsStayApart, ClientsStayApart, ChangedWithAccess, PageStaysWithItsWorkspace

=============================================================================
