---------------------------- MODULE MCLegacyApi -----------------------------
(* The NestJS API, checked in one run: a behaviour explores one of its services, *)
(* the others rest at their initial state.                                      *)
EXTENDS ExternalData, LegacyInbox, LegacyKnowledge, SenderMarks, LegacyClients,
        LegacyCompliance, TLC

VARIABLE focus   \* the component whose steps are explored; the others rest at their initial state

R(k, y, n) == [kind |-> k, key |-> y, known |-> n]
\* One edition of the sheet has an unknown status, a row without a key and both tabs; the other repeats a key.
MCEditions == {[rows |-> {R("product", "a", TRUE), R("product", "b", FALSE), R("product", NoKey, TRUE), R("order", "o", TRUE)},
                repeats |-> FALSE],
               [rows |-> {R("product", "a", TRUE)}, repeats |-> TRUE]}
MCFresh == [product |-> 0, order |-> 0]
MCQueries == {[kind |-> "product", keys |-> {"a", "b"}]}
MCTabs == {{"product", "order"}}
Bc == {<<"r", "m1">>}
TOf == [m \in CustMsgs |-> "c1"]
MCTenantOf == [s \in Senders |-> IF s \in {"a1", "a2"} THEN "a" ELSE "b"]

\* Bound: saves overlap each other, not a sync (with one sheet a second save stores what is there).
SheetBound ==
    /\ saveJobs' # saveJobs => syncJobs = [j \in Syncs |-> IdleSync]
    /\ syncJobs' # syncJobs => \A j \in Saves : saveJobs[j].pc # "found"

\* Bounds on operators: senders are blocked and unblocked before their first ticket, and a ticket
\* is assigned to somebody only while a delivery is about to reopen it.
InboxBound ==
    /\ blockedSenders' # blockedSenders => \A t \in LTickets : ~Saved(t)
    /\ \A t \in LTickets :
         Saved(t) /\ tix'[t].status = "assigned" /\ tix[t].status # "assigned" => \E h \in Hooks : hook[h].pc = "reopen"

LegacyApiInit ==
    /\ focus \in {"sheets", "inbox", "knowledge", "entries", "marks", "links", "compliance"}
    /\ SheetInit
    /\ focus # "sheets" => \A u \in Urls : sheets[u] = CHOOSE e \in Editions : TRUE
    /\ InboxInit
    /\ LkInit
    /\ EntriesInit
    /\ MarksInit
    /\ focus # "marks" => marked = {}
    /\ LinksInit
    /\ focus # "links" => pageId = NoPage
    /\ ComplianceInit

LegacyApiNext ==
    \/ /\ focus = "sheets" /\ SheetNext /\ SheetBound
       /\ UNCHANGED <<focus, inboxVars, lkVars, entryVars, markVars, linkVars, complianceVars>>
    \/ /\ focus = "inbox" /\ InboxNext /\ InboxBound
       /\ UNCHANGED <<focus, sheetVars, lkVars, entryVars, markVars, linkVars, complianceVars>>
    \/ /\ focus = "knowledge" /\ LkNext
       /\ UNCHANGED <<focus, sheetVars, inboxVars, entryVars, markVars, linkVars, complianceVars>>
    \/ /\ focus = "entries" /\ EntriesNext
       /\ UNCHANGED <<focus, sheetVars, inboxVars, lkVars, markVars, linkVars, complianceVars>>
    \/ /\ focus = "marks" /\ MarksNext
       /\ UNCHANGED <<focus, sheetVars, inboxVars, lkVars, entryVars, linkVars, complianceVars>>
    \/ /\ focus = "links" /\ LinksNext
       /\ UNCHANGED <<focus, sheetVars, inboxVars, lkVars, entryVars, markVars, complianceVars>>
    \/ /\ focus = "compliance" /\ ComplianceNext
       /\ UNCHANGED <<focus, sheetVars, inboxVars, lkVars, entryVars, markVars, linkVars>>

LegacyApiVars == <<focus, sheetVars, inboxVars, lkVars, entryVars, markVars, linkVars, complianceVars>>
LegacyApiSpec == LegacyApiInit /\ [][LegacyApiNext]_LegacyApiVars

PoolSymmetry == Permutations(Saves) \union Permutations(Sources)

-----------------------------------------------------------------------------
(* Properties.                                                               *)

LegacyTypeOK ==
    /\ SheetTypeOK /\ InboxTypeOK /\ LkTypeOK /\ EntriesTypeOK /\ MarksTypeOK /\ LinksTypeOK /\ ComplianceTypeOK

\* What is looked up first and created then is created once: sources, tickets and replies of a message,
\* answers of a change request, entries of a template or of a ticket.
MadeOnlyOnce == OneSource /\ OneTicketPerMessage /\ RepliedOnce /\ AnswerMadeOnce /\ MadeOnce

\* Pieces written by separate statements tell one story: the cache and its import, a run and the source
\* it ran for, a conversation and its ticket, a request and its events, a channel and the page of the
\* client, the parts of the compliance document.
PartsAgree ==
    /\ CacheIsOneImport /\ StatusOfLastRun /\ QuotesAreFresh
    /\ TicketIsReachable /\ AcknowledgedIsStored /\ UrgentIsPinged /\ GradeIsOfLastReply
    /\ EventsTellState
    /\ OwnMarkIsOffered /\ ListIsService
    /\ AtMostOnePrimary /\ PageFollowsPrimary /\ DisabledPagesAreSilent
    /\ DocumentAddsUp /\ RedactedByPolicy /\ LiveItemIsEarned

\* What holds of every service of the NestJS API in every state, whatever its jobs overlap with and
\* wherever they die.
LegacyInvariant == LegacyTypeOK /\ MadeOnlyOnce /\ PartsAgree

\* No step undoes finished work: a ticket is reopened only when it is resolved, a request is closed as
\* published only after its entry was live, a finished run made all its entries, and an index that
\* becomes stale lost to a reindexing.
WorkIsNotUndone == ReopensOnlyResolved /\ PublishedWasLive /\ RunMakesAll /\ IndexLostToReindexOnly
=============================================================================
