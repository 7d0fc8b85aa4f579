---------------------------- MODULE PageConnection ----------------------------
(***************************************************************************)
(* Connecting a Facebook page to a workspace (apps/hono-api/src/services/  *)
(* meta-oauth.ts): a session is started, Meta calls back with the pages of *)
(* the login, the client selects one, which four statements and a call to  *)
(* Meta store one after the other.  Routing finds a workspace by its page  *)
(* id, and answers with the token of the page's channel.                   *)
(***************************************************************************)
EXTENDS Naturals, FiniteSets

CONSTANTS
    Workspaces,     \* clients
    MetaPages,      \* pages of Meta
    OauthSessions,  \* sessions ever started
    MaxOauthOps,    \* bound: requests
    Nothing         \* the pending page, no workspace, no session

ASSUME OauthAssumption ==
    MaxOauthOps \in Nat /\ Nothing \notin Workspaces \cup MetaPages \cup OauthSessions

VARIABLES
    workspacePage,  \* clients.page_id, unique; Nothing while pending
    pageChannel,    \* of each page its channel: workspace, session of the token
    oauth,          \* meta_oauth_sessions
    selecting,      \* the selection under way of each session
    leaving,        \* workspaces whose disconnection is under way
    subscribed,     \* the pages that send their messages here, at Meta
    toldConnected,  \* the page a workspace was last told is connected
    disturbed,      \* requests overlapped, failed half way, or a page was set by hand
    oauthOps        \* requests so far

oauthVars == <<workspacePage, pageChannel, oauth, selecting, leaving, subscribed,
               toldConnected, disturbed, oauthOps>>

OauthStatuses == {"unused", "started", "failed", "no_pages", "pages_ready", "completed"}
NotSelecting == [pc |-> "idle", page |-> Nothing]
NoChannel == [owner |-> Nothing, by |-> Nothing]

OauthSession == [client : Workspaces \cup {Nothing}, status : OauthStatuses,
                 pages : SUBSET MetaPages, expired : BOOLEAN]
PageChannel == [owner : Workspaces, by : OauthSessions]

PagesTypeOK ==
    /\ workspacePage \in [Workspaces -> MetaPages \cup {Nothing}]
    /\ \A c, d \in Workspaces :
         workspacePage[c] = workspacePage[d] => c = d \/ workspacePage[c] = Nothing
    /\ \A g \in MetaPages :
         \/ pageChannel[g] = NoChannel
         \/ pageChannel[g] \in PageChannel
    /\ \A s \in OauthSessions :
         /\ oauth[s] \in OauthSession
         /\ oauth[s].status = "pages_ready" => oauth[s].pages # {}
         /\ selecting[s] = NotSelecting
            \/ selecting[s] \in [pc : {"checked", "linked", "paged", "completed"}, page : MetaPages]
    /\ leaving \subseteq Workspaces /\ subscribed \subseteq MetaPages
    /\ toldConnected \in [Workspaces -> MetaPages \cup {Nothing}]
    /\ disturbed \in BOOLEAN /\ oauthOps \in 0..MaxOauthOps

PagesInit ==
    /\ workspacePage = [c \in Workspaces |-> Nothing]
    /\ pageChannel = [g \in MetaPages |-> NoChannel]
    /\ oauth = [s \in OauthSessions |->
                  [client |-> Nothing, status |-> "unused", pages |-> {}, expired |-> FALSE]]
    /\ selecting = [s \in OauthSessions |-> NotSelecting]
    /\ leaving = {} /\ subscribed = {}
    /\ toldConnected = [c \in Workspaces |-> Nothing] /\ disturbed = FALSE /\ oauthOps = 0

pageVars == <<workspacePage, pageChannel>>
OauthOp == oauthOps < MaxOauthOps /\ oauthOps' = oauthOps + 1
UnderWay == leaving # {} \/ \E s \in OauthSessions : selecting[s] # NotSelecting
Selecting(s, pc, page) == selecting' = [selecting EXCEPT ![s] = [pc |-> pc, page |-> page]]

\* start
StartOauth(s, c) ==
    /\ oauth[s].status = "unused"
    /\ oauth' = [oauth EXCEPT ![s] = [client |-> c, status |-> "started", pages |-> {}, expired |-> FALSE]]
    /\ UNCHANGED <<pageVars, selecting, leaving, subscribed, toldConnected, disturbed, oauthOps>>

\* handleCallback: the login was cancelled ...
CallbackDenied(s) ==
    /\ oauth[s].status # "unused" /\ ~oauth[s].expired /\ OauthOp
    /\ oauth' = [oauth EXCEPT ![s].status = "failed"]
    /\ UNCHANGED <<pageVars, selecting, leaving, subscribed, toldConnected, disturbed>>

\* ... or it brings the pages of the login, whatever the session was before.
HandleCallback(s, pages) ==
    /\ oauth[s].status # "unused" /\ ~oauth[s].expired /\ OauthOp
    /\ oauth' = [oauth EXCEPT ![s] =
                  [client |-> @.client, status |-> IF pages = {} THEN "no_pages" ELSE "pages_ready",
                   pages |-> pages, expired |-> FALSE]]
    /\ UNCHANGED <<pageVars, selecting, leaving, subscribed, toldConnected, disturbed>>

SessionExpires(s) ==
    /\ oauth[s].status # "unused" /\ ~oauth[s].expired
    /\ oauth' = [oauth EXCEPT ![s].expired = TRUE]
    /\ UNCHANGED <<pageVars, selecting, leaving, subscribed, toldConnected, disturbed, oauthOps>>

\* Mutant: nothing asks whether another workspace has the page.
SelectsAny(s, page) ==
    /\ selecting[s] = NotSelecting /\ ~oauth[s].expired /\ page \in oauth[s].pages /\ OauthOp
    /\ Selecting(s, "checked", page) /\ disturbed' = (disturbed \/ UnderWay)
    /\ UNCHANGED <<pageVars, oauth, leaving, subscribed, toldConnected>>
\* selectPage: the session has not expired, Meta offered the page, and no other
\* workspace has it as its page or as a channel.
SelectPage(s, page) ==
    /\ selecting[s] = NotSelecting /\ ~oauth[s].expired /\ page \in oauth[s].pages /\ OauthOp
    /\ \A d \in Workspaces \ {oauth[s].client} :
         workspacePage[d] # page /\ pageChannel[page].owner # d
    /\ Selecting(s, "checked", page) /\ disturbed' = (disturbed \/ UnderWay)
    /\ UNCHANGED <<pageVars, oauth, leaving, subscribed, toldConnected>>

\* The channel of the page is made or taken over, with the token of this session.
LinkPage(s) ==
    LET page == selecting[s].page IN
    /\ selecting[s].pc = "checked" /\ Selecting(s, "linked", page)
    /\ pageChannel' = [pageChannel EXCEPT ![page] = [owner |-> oauth[s].client, by |-> s]]
    /\ UNCHANGED <<workspacePage, oauth, leaving, subscribed, toldConnected, disturbed, oauthOps>>

Taken(c, page) == \E d \in Workspaces \ {c} : workspacePage[d] = page

\* It becomes the workspace's page ...
SetWorkspacePage(s) ==
    LET page == selecting[s].page
        c == oauth[s].client IN
    /\ selecting[s].pc = "linked" /\ ~Taken(c, page) /\ Selecting(s, "paged", page)
    /\ workspacePage' = [workspacePage EXCEPT ![c] = page]
    /\ UNCHANGED <<pageChannel, oauth, leaving, subscribed, toldConnected, disturbed, oauthOps>>

\* ... unless another has it meanwhile, or the database fails: the channel stays.
SelectionFails(s) ==
    /\ selecting[s].pc \in {"linked", "paged"} /\ selecting' = [selecting EXCEPT ![s] = NotSelecting]
    /\ disturbed' = TRUE
    /\ UNCHANGED <<pageVars, oauth, leaving, subscribed, toldConnected, oauthOps>>

CompleteSession(s) ==
    /\ selecting[s].pc = "paged" /\ Selecting(s, "completed", selecting[s].page)
    /\ oauth' = [oauth EXCEPT ![s].status = "completed"]
    /\ UNCHANGED <<pageVars, leaving, subscribed, toldConnected, disturbed, oauthOps>>

\* Mutant: that the subscription failed is not told.
SubscribeAnyway(s, ok) ==
    LET page == selecting[s].page IN
    /\ selecting[s].pc = "completed" /\ selecting' = [selecting EXCEPT ![s] = NotSelecting]
    /\ subscribed' = (IF ok THEN subscribed \cup {page} ELSE subscribed)
    /\ toldConnected' = [toldConnected EXCEPT ![oauth[s].client] = page]
    /\ UNCHANGED <<pageVars, oauth, leaving, disturbed, oauthOps>>
\* subscribePage, at last: when Meta refuses, the client is told so, and all that
\* was stored stays.
SubscribePage(s, ok) ==
    LET page == selecting[s].page IN
    /\ selecting[s].pc = "completed" /\ selecting' = [selecting EXCEPT ![s] = NotSelecting]
    /\ subscribed' = (IF ok THEN subscribed \cup {page} ELSE subscribed)
    /\ toldConnected' = [toldConnected EXCEPT ![oauth[s].client] = IF ok THEN page ELSE Nothing]
    /\ UNCHANGED <<pageVars, oauth, leaving, disturbed, oauthOps>>

\* disconnectPage deletes the workspace's channels ...
DisconnectPage(c) ==
    /\ c \notin leaving /\ OauthOp /\ leaving' = leaving \cup {c}
    /\ pageChannel' = [g \in MetaPages |-> IF pageChannel[g].owner = c THEN NoChannel
                                           ELSE pageChannel[g]]
    /\ toldConnected' = [toldConnected EXCEPT ![c] = Nothing]
    /\ disturbed' = (disturbed \/ UnderWay)
    /\ UNCHANGED <<workspacePage, oauth, selecting, subscribed>>

\* ... then its page id.
ClearPageId(c) == /\ c \in leaving /\ leaving' = leaving \ {c}
                  /\ workspacePage' = [workspacePage EXCEPT ![c] = Nothing]
                  /\ UNCHANGED <<pageChannel, oauth, selecting, subscribed, toldConnected,
                                 disturbed, oauthOps>>

\* The profile sets a page id of its own, without a channel.
SetPageByHand(c, page) ==
    /\ ~Taken(c, page) /\ OauthOp /\ workspacePage' = [workspacePage EXCEPT ![c] = page]
    /\ disturbed' = TRUE
    /\ UNCHANGED <<pageChannel, oauth, selecting, leaving, subscribed, toldConnected>>

PagesNext ==
    \/ \E s \in OauthSessions :
         \/ CallbackDenied(s) \/ SessionExpires(s) \/ LinkPage(s) \/ SetWorkspacePage(s)
         \/ SelectionFails(s) \/ CompleteSession(s)
         \/ \E ok \in BOOLEAN : SubscribePage(s, ok)
         \/ \E c \in Workspaces : StartOauth(s, c)
         \/ \E pages \in SUBSET MetaPages : HandleCallback(s, pages)
         \/ \E page \in MetaPages : SelectPage(s, page)
    \/ \E c \in Workspaces : \/ DisconnectPage(c) \/ ClearPageId(c)
                             \/ \E page \in MetaPages : SetPageByHand(c, page)

PagesSpec == PagesInit /\ [][PagesNext]_oauthVars

-----------------------------------------------------------------------------
\* The page a client was told is connected is the one its messages are routed by,
\* has a channel of this client to answer with, and is subscribed at Meta, unless
\* the client selects again, or the proviso of disturbed.
ToldPageIsLive ==
    \A c \in Workspaces :
      LET page == toldConnected[c] IN
      /\ page # Nothing /\ ~disturbed
      /\ \A s \in OauthSessions : oauth[s].client = c => selecting[s] = NotSelecting
      => workspacePage[c] = page /\ pageChannel[page].owner = c /\ page \in subscribed

\* With no request under way, a workspace's page can be answered: it has a channel
\* of that workspace, whose token came with a session of the workspace.
RoutedPageCanAnswer ==
    ~UnderWay /\ ~disturbed =>
        \A c \in Workspaces : workspacePage[c] # Nothing =>
            /\ pageChannel[workspacePage[c]].owner = c
            /\ oauth[pageChannel[workspacePage[c]].by].client = c

\* A page connected to one workspace is never taken over by a selection of
\* another, unless two requests overlapped.
PageStaysWithItsWorkspace ==
    [][~disturbed => \A g \in MetaPages :
         pageChannel[g] # NoChannel => pageChannel'[g].owner \in {pageChannel[g].owner, Nothing}]_oauthVars
=============================================================================
