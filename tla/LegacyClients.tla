---------------------------- MODULE LegacyClients ----------------------------
(***************************************************************************)
(* The channels of a client workspace in the legacy API (apps/api/src/     *)
(* clients/pilot-client.service.ts): its pages and numbers, which of them  *)
(* is the primary one of its kind, and the page id of the client, which    *)
(* the service keeps equal to the primary page by one statement after the  *)
(* other, without a transaction.                                           *)
(***************************************************************************)
EXTENDS Naturals, FiniteSets

CONSTANTS
    Pages,       \* ids of pages and numbers in the providers' systems
    MaxLinks,    \* bound: channels ever made
    MaxEdits,    \* bound: requests
    LinkJobs,    \* requests that may overlap
    NoPage       \* the pending page, and no page given

ASSUME LinkAssumption == MaxLinks \in Nat \ {0} /\ MaxEdits \in Nat /\ NoPage \notin Pages

VARIABLES
    pageId,      \* the client's pageId
    links,       \* its channels, by age: kind, id, disabled, isPrimary
    linkJob,     \* the requests under way
    edits,       \* requests so far
    raced,       \* two of them overlapped
    loose        \* the page was set alone, or a request failed half way

linkVars == <<pageId, links, linkJob, edits, raced, loose>>

LinkKinds == {"messenger", "whatsapp"}
Ids == 1..MaxLinks
PageIds == Pages \cup {NoPage}
Link == [kind : LinkKinds, ext : Pages, off : BOOLEAN, primary : BOOLEAN]
NoLink == [kind |-> "none", ext |-> NoPage, off |-> TRUE, primary |-> FALSE]
ChannelRows == [Ids -> Link \cup {NoLink}]
LinkIdle == [pc |-> "idle", id |-> 0, to |-> NoLink]
Held == {i \in Ids : links[i] # NoLink}
Primaries(kind) == {i \in Held : links[i].kind = kind /\ links[i].primary}
OldestLink(set) == CHOOSE i \in set : \A k \in set : i <= k
\* The unique index on channel and external id.
Unused(kind, ext, but) == \A i \in Held \ {but} : links[i].kind # kind \/ links[i].ext # ext

KindOf(i) == IF i \in Held THEN links[i].kind ELSE "messenger"

LinksTypeOK ==
    /\ pageId \in PageIds
    /\ links \in ChannelRows
    /\ \A i \in Held : Unused(links[i].kind, links[i].ext, i)
    /\ \A j \in LinkJobs :
         linkJob[j] \in [pc : {"idle", "clear", "store", "delete", "ensure", "promote", "sync",
                               "settle", "seek", "attach"},
                         id : 0..MaxLinks, to : Link \cup {NoLink} \cup
                              [kind : LinkKinds, ext : Pages \cup {NoPage}, off : BOOLEAN,
                               primary : BOOLEAN]]
    /\ edits \in 0..MaxEdits /\ raced \in BOOLEAN /\ loose \in BOOLEAN

\* create: a client that names its page starts with it as its primary channel.
CreateClient(page) ==
    /\ pageId = page
    /\ links = [i \in Ids |-> IF i = 1 /\ page # NoPage
                              THEN [kind |-> "messenger", ext |-> page, off |-> FALSE,
                                    primary |-> TRUE] ELSE NoLink]

LinksInit ==
    /\ \E page \in Pages \cup {NoPage} : CreateClient(page)
    /\ linkJob = [j \in LinkJobs |-> LinkIdle] /\ edits = 0 /\ raced = FALSE /\ loose = FALSE

Steps(j, pc, id, to) == linkJob' = [linkJob EXCEPT ![j] = [pc |-> pc, id |-> id, to |-> to]]
Ends(j) == linkJob' = [linkJob EXCEPT ![j] = LinkIdle]
Begins(j, pc, id, to) ==
    /\ linkJob[j] = LinkIdle /\ edits < MaxEdits /\ edits' = edits + 1
    /\ Steps(j, pc, id, to)
    /\ raced' = (raced \/ \E k \in LinkJobs \ {j} : linkJob[k] # LinkIdle)

\* createChannel: primary when asked for, or as the first of its kind.
CreateChannel(j, kind, ext, off, primary) ==
    /\ LET first == \A i \in Held : links[i].kind # kind
           be == IF primary = "auto" THEN first ELSE primary = "yes" IN
       Begins(j, IF be THEN "clear" ELSE "store", 0,
              [kind |-> kind, ext |-> ext, off |-> off, primary |-> be])
    /\ UNCHANGED <<pageId, links, loose>>

\* updateChannel: another kind, id, status or isPrimary, those not given as
\* they were read.
UpdateChannel(j, i, to) ==
    /\ i \in Held /\ to # links[i]
    /\ Begins(j, IF to.primary THEN "clear" ELSE "store", i, to)
    /\ UNCHANGED <<pageId, links, loose>>

DeleteChannel(j, i) ==
    /\ i \in Held /\ Begins(j, "delete", i, links[i])
    /\ UNCHANGED <<pageId, links, loose>>

\* The others of the kind are primary no more ...
ClearPrimary(j) ==
    LET r == linkJob[j] IN
    /\ r.pc = "clear" /\ Steps(j, "store", r.id, r.to)
    /\ links' = [i \in Ids |-> IF links[i].kind = r.to.kind /\ i # r.id
                               THEN [links[i] EXCEPT !.primary = FALSE] ELSE links[i]]
    /\ UNCHANGED <<pageId, edits, raced, loose>>

NextId == OldestLink({i \in Ids : \A k \in Held : k < i})

\* ... and the channel is stored, unless its id is in use; a new one is followed by
\* the page, a changed one by a primary of its kind first.
StoreChannel(j) ==
    LET r == linkJob[j]
        new == r.id = 0 IN
    /\ r.pc = "store" /\ Unused(r.to.kind, r.to.ext, r.id)
    /\ IF new THEN \E i \in Ids : \A k \in Held : k < i ELSE r.id \in Held
    /\ links' = [links EXCEPT ![IF new THEN NextId ELSE r.id] = r.to]
    /\ Steps(j, IF new THEN "sync" ELSE "ensure", 0, r.to)
    /\ UNCHANGED <<pageId, edits, raced, loose>>

RemoveChannel(j) ==
    LET r == linkJob[j] IN
    /\ r.pc = "delete" /\ r.id \in Held /\ links' = [links EXCEPT ![r.id] = NoLink]
    /\ Steps(j, "ensure", 0, r.to)
    /\ UNCHANGED <<pageId, edits, raced, loose>>

\* A statement fails: the id is in use, the channel is gone meanwhile, or the database
\* or the process is; what was done before stays.
StatementFails(j) ==
    /\ linkJob[j] # LinkIdle /\ Ends(j) /\ loose' = TRUE
    /\ UNCHANGED <<pageId, links, edits, raced>>

\* Mutant: a primary channel is looked for among the connected ones only.
EnsureConnected(j) ==
    LET r == linkJob[j]
        able == {i \in Held : links[i].kind = r.to.kind /\ ~links[i].off} IN
    /\ r.pc = "ensure"
    /\ IF (\E i \in able : links[i].primary) \/ able = {} THEN Steps(j, "sync", 0, r.to)
       ELSE Steps(j, "promote", OldestLink(able), r.to)
    /\ UNCHANGED <<pageId, links, edits, raced, loose>>
\* ensurePrimaryChannel: with no primary of the kind, the oldest that is not
\* disabled becomes it.
EnsurePrimary(j) ==
    LET r == linkJob[j]
        able == {i \in Held : links[i].kind = r.to.kind /\ ~links[i].off} IN
    /\ r.pc = "ensure"
    /\ IF Primaries(r.to.kind) # {} \/ able = {} THEN Steps(j, "sync", 0, r.to)
       ELSE Steps(j, "promote", OldestLink(able), r.to)
    /\ UNCHANGED <<pageId, links, edits, raced, loose>>

Promote(j) ==
    LET r == linkJob[j] IN
    /\ r.pc = "promote" /\ r.id \in Held
    /\ links' = [links EXCEPT ![r.id].primary = TRUE] /\ Steps(j, "sync", 0, r.to)
    /\ UNCHANGED <<pageId, edits, raced, loose>>

LinkConnected == {i \in Primaries("messenger") : ~links[i].off}

\* syncLegacyPageId reads a primary page that is not disabled ...
SyncPage(j) ==
    /\ linkJob[j].pc = "sync"
    /\ \E ext \in (IF LinkConnected = {} THEN {NoPage} ELSE {links[i].ext : i \in LinkConnected}) :
         Steps(j, "settle", 0,
               [kind |-> "messenger", ext |-> ext, off |-> FALSE, primary |-> TRUE])
    /\ UNCHANGED <<pageId, links, edits, raced, loose>>

\* ... and makes it the client's page.
SettlePage(j) ==
    /\ linkJob[j].pc = "settle" /\ pageId' = linkJob[j].to.ext /\ loose' = FALSE
    /\ Ends(j) /\ UNCHANGED <<links, edits, raced>>

\* updateProfile sets the page of the client first ...
UpdateProfile(j, page) ==
    /\ Begins(j, IF page = NoPage THEN "sync" ELSE "seek", 0,
              [kind |-> "messenger", ext |-> page, off |-> FALSE, primary |-> TRUE])
    /\ pageId' = page
    /\ UNCHANGED <<links, loose>>

\* ... then (syncPrimaryMessengerChannel) reads the primary channel ...
SeekPrimary(j) ==
    /\ linkJob[j].pc = "seek"
    /\ \E i \in (IF Primaries("messenger") = {} THEN {0} ELSE Primaries("messenger")) :
         Steps(j, "attach", i, linkJob[j].to)
    /\ UNCHANGED <<pageId, links, edits, raced, loose>>

\* ... and gives it the page, connected, or makes a channel for it.
AttachPage(j) ==
    LET r == linkJob[j] IN
    /\ r.pc = "attach" /\ Unused(KindOf(r.id), r.to.ext, r.id)
    /\ IF r.id = 0 THEN \E i \in Ids : \A k \in Held : k < i ELSE r.id \in Held
    /\ links' = IF r.id = 0 THEN [links EXCEPT ![NextId] = r.to]
                ELSE [links EXCEPT ![r.id].ext = r.to.ext, ![r.id].off = FALSE]
    /\ Ends(j) /\ loose' = FALSE
    /\ UNCHANGED <<pageId, edits, raced>>

\* updateOnboarding stores the page the client names, and no channel for it.
UpdateOnboarding(j, page) ==
    /\ linkJob[j] = LinkIdle /\ edits < MaxEdits /\ edits' = edits + 1
    /\ pageId' = page /\ loose' = TRUE
    /\ raced' = (raced \/ \E k \in LinkJobs \ {j} : linkJob[k] # LinkIdle)
    /\ UNCHANGED <<links, linkJob>>

LinksNext ==
    \E j \in LinkJobs :
      \/ \E kind \in LinkKinds, ext \in Pages, off \in BOOLEAN, primary \in {"auto", "yes", "no"} :
            CreateChannel(j, kind, ext, off, primary)
      \/ \E i \in Ids : DeleteChannel(j, i) \/ \E to \in Link : UpdateChannel(j, i, to)
      \/ ClearPrimary(j) \/ StoreChannel(j) \/ RemoveChannel(j) \/ StatementFails(j)
      \/ EnsurePrimary(j) \/ Promote(j) \/ SyncPage(j) \/ SettlePage(j)
      \/ SeekPrimary(j) \/ AttachPage(j)
      \/ \E page \in Pages : UpdateOnboarding(j, page)
      \/ \E page \in Pages \cup {NoPage} : UpdateProfile(j, page)

LinksSpec == LinksInit /\ [][LinksNext]_linkVars

-----------------------------------------------------------------------------
LinksQuiet == \A j \in LinkJobs : linkJob[j] = LinkIdle

\* A kind never has two primary channels, at no step of any request, unless two
\* requests overlapped.
AtMostOnePrimary == raced \/ \A kind \in LinkKinds : Cardinality(Primaries(kind)) <= 1

\* With no request under way, the page messages are routed by is the primary page
\* that is connected, unless requests overlapped, one failed half way, or the page
\* was set by onboarding alone.
PageFollowsPrimary ==
    LinksQuiet /\ ~raced /\ ~loose =>
        pageId = IF LinkConnected = {} THEN NoPage ELSE links[OldestLink(LinkConnected)].ext

\* findByPageId: a message of the page finds the client by its page id or by a
\* channel that is not disabled.
FindByPageId(page) ==
    \/ pageId = page
    \/ \E i \in Held : links[i].kind = "messenger" /\ ~links[i].off /\ links[i].ext = page

\* A disabled or deleted page brings no messages to the client any more, under the
\* same provisos.
DisabledPagesAreSilent ==
    LinksQuiet /\ ~raced /\ ~loose =>
        \A page \in Pages : FindByPageId(page) =>
            \E i \in Held : links[i] \in [kind : {"messenger"}, ext : {page}, off : {FALSE},
                                         primary : BOOLEAN]
=============================================================================
