------------------------------ MODULE MCWebApp ------------------------------
(* The other screens of the web application, checked in one run: a behaviour    *)
(* explores one of them, the others rest at their initial state.                *)
EXTENDS ClientDesk, KbReviewScreen, KnowledgeScreen, ConversationScreen, ClientsScreen, AlertCenter,
        ClientKnowledge, PromptScreen, QaQueue, TLC

VARIABLE focus   \* the component whose steps are explored; the others rest at their initial state

CONSTANTS sa, sb, q1, q2, q3
MCOwned == q1 :> sa @@ q2 :> sb

\* Where constants are interchangeable in a component (two loads, two libraries), its first choice among
\* them is fixed: every behaviour left out is one of those kept with the values renamed.
WebAppInit ==
    /\ focus \in {"portal", "review", "library", "talks", "clients", "alerts", "requests", "prompts", "queue"}
    /\ PortalInit
    /\ ReviewInit
    /\ call[CHOOSE l \in Loads : TRUE] # Off
    /\ LibraryInit
    /\ library = (CHOOSE c \in Libraries : TRUE)
    /\ focus # "library" => item = [i \in Items |-> [owner |-> NoItem, status |-> "active"]]
    /\ TalksInit
    /\ focus # "talks" => ticketed = {}
    /\ ShopsInit
    /\ shopRecord[CHOOSE c \in Shops : TRUE] = 1
    /\ focus # "clients" => Cardinality(Onboarded(shopRecord)) = 1
    /\ AlertInit
    /\ ClientInit
    /\ fetches[CHOOSE l \in Fetchers : TRUE] # NotFetching
    /\ PromptScreenInit
    /\ loads[CHOOSE l \in PromptLoads : TRUE] # EditorResting
    /\ focus # "prompts" => shop = sa
    /\ QaInit
    /\ queueLoads[CHOOSE l \in QueueLoads : TRUE] # NotLoading /\ newest[1] = (CHOOSE c \in Chats : TRUE)
    /\ ~chats[newest[1]].risk   \* a bound too: the conversation updated last carries no risk at first
    /\ focus # "queue" => chats = [c \in Chats |-> [grade |-> "none", flag |-> FALSE, auto |-> "none", risk |-> FALSE]]

\* Bounds: at most two requests of the review or the prompt screen are under way; one thing goes wrong among
\* the clients, besides a draft that is sent twice after it; the last poll does not overlap another and no
\* ticket moves after it; once the browser has refused the ids it keeps and finds them.
TwoReviewCalls == Cardinality({k \in Keys : call'[k] # Off}) <= 2
TwoPromptCalls == Cardinality({l \in PromptLoads : loads'[l].pc # "idle"}) + (IF deed'.pc = "idle" THEN 0 ELSE 1) <= 2
OneMishap == Cardinality(mishap' \ {"twice"}) <= 1
LastPollIsAlone ==
    /\ alertOps' = MaxAlertOps => Cardinality({p \in Polls : poll'[p] # Idle}) <= 1
    /\ alertOps = MaxAlertOps => UNCHANGED urgent
RefusesOnce == refused => seenIds' = Latest(seenRef') \/ seenRef' = seenIds' \/ UNCHANGED <<seenIds, seenRef>>

WebAppNext ==
    \/ /\ focus = "portal" /\ PortalNext
       /\ UNCHANGED <<focus, reviewVars, libVars, talkVars, shopVars, alertVars, clientVars,
           promptScreenVars, qaVars>>
    \/ /\ focus = "review" /\ ReviewNext /\ TwoReviewCalls
       /\ UNCHANGED <<focus, portalVars, libVars, talkVars, shopVars, alertVars, clientVars,
           promptScreenVars, qaVars>>
    \/ /\ focus = "library" /\ LibraryNext
       /\ UNCHANGED <<focus, portalVars, reviewVars, talkVars, shopVars, alertVars, clientVars,
           promptScreenVars, qaVars>>
    \/ /\ focus = "talks" /\ TalksNext
       /\ UNCHANGED <<focus, portalVars, reviewVars, libVars, shopVars, alertVars, clientVars,
           promptScreenVars, qaVars>>
    \/ /\ focus = "clients" /\ ShopsNext /\ OneMishap
       /\ UNCHANGED <<focus, portalVars, reviewVars, libVars, talkVars, alertVars, clientVars,
           promptScreenVars, qaVars>>
    \/ /\ focus = "alerts" /\ AlertNext /\ LastPollIsAlone /\ RefusesOnce
       /\ UNCHANGED <<focus, portalVars, reviewVars, libVars, talkVars, shopVars, clientVars,
           promptScreenVars, qaVars>>
    \/ /\ focus = "requests" /\ ClientNext
       /\ UNCHANGED <<focus, portalVars, reviewVars, libVars, talkVars, shopVars, alertVars,
           promptScreenVars, qaVars>>
    \/ /\ focus = "prompts" /\ PromptScreenNext /\ TwoPromptCalls
       /\ UNCHANGED <<focus, portalVars, reviewVars, libVars, talkVars, shopVars, alertVars, clientVars,
           qaVars>>
    \/ /\ focus = "queue" /\ QaNext
       /\ UNCHANGED <<focus, portalVars, reviewVars, libVars, talkVars, shopVars, alertVars, clientVars,
           promptScreenVars>>

WebAppVars == <<focus, portalVars, reviewVars, libVars, talkVars, shopVars, alertVars, clientVars,
    promptScreenVars, qaVars>>
WebAppSpec == WebAppInit /\ [][WebAppNext]_WebAppVars

PoolSymmetry == Permutations(Searches) \union Permutations(PortalTickets)

-----------------------------------------------------------------------------
(* Properties.                                                               *)

WebTypeOK ==
    /\ DeskTypeOK /\ ReviewTypeOK /\ LibraryTypeOK /\ TalksTypeOK /\ ShopsTypeOK /\ AlertTypeOK
    /\ ClientTypeOK /\ PromptScreenTypeOK /\ QaTypeOK

\* In whatever order answers come, a screen at rest shows one thing: the detail, list, versions, form
\* or result of what is selected, typed or filtered now.
ShowsOneThing ==
    /\ DetailIsOfTheTicket /\ DelegationIsShown
    /\ TabShowsItsOwn /\ OneEntryIsShown
    /\ StoryIsOfPicked /\ ResultsAreOfField
    /\ FormsAreCurrent
    /\ RaisedIsOnStack /\ AnnouncedOnce /\ SeenIsAnnounced
    /\ ShownFitsFilter
    /\ ListIsCurrent /\ EditorIsCurrent /\ VersionsAreOfTheSelected
    /\ GradedLeavesTheQueue /\ ClearIsClear /\ UngradedBeforeItsLike

\* What a screen sends belongs together although it was loaded piece by piece, and what it says of the
\* answer is true: wordings, entries with their versions, drafts of clients, requests, grades.
SendsWhatIsMeant ==
    /\ WordingIsOwn /\ WritesAreOfOnePiece /\ LinkIsOwn
    /\ StoredIsTypedForIt /\ OneClientPerDraft
    /\ StoredIsAsSubmitted /\ NoticeIsTrue /\ WordsAreKept
    /\ RestoredIsItsOwn /\ NoticeFits
    /\ SavedIsStored

\* What holds of every screen in every state.
ScreenInvariant == WebTypeOK /\ ShowsOneThing /\ SendsWhatIsMeant

\* No step of a screen acts on something else than what its user saw: a client overrides no status that
\* changed unseen, a change of a prompt stays with its tenant, and what was typed is not lost.
ScreensKeepTheirSubject == NoBlindOverride /\ ChangesStayWithTheShop /\ DraftStays
=============================================================================
