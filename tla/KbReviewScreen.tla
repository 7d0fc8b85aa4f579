--------------------------- MODULE KbReviewScreen ---------------------------
(***************************************************************************)
(* The console screen on which change requests for the knowledge base are  *)
(* decided (apps/web/src/app/internal/kb-review): the queue with its tabs, *)
(* the request in detail with the form of the final wording, and the       *)
(* decisions.  Loading the queue goes on by opening a request, a decision  *)
(* goes on by loading the queue, and every step works with the tab it was  *)
(* started under, whatever the operator has done since.                    *)
(***************************************************************************)
EXTENDS Naturals, FiniteSets

CONSTANTS
    Asks,          \* the change requests
    Loads,         \* requests of the screen that may be under way at once
    ReviewSaving,        \* the request a decision goes out with
    Moves,         \* the statuses a decision leads to
    MaxMoves,      \* bound: decisions of all operators
    NoAsk          \* nothing selected, nothing loaded

ASSUME ReviewAssumption ==
    /\ MaxMoves \in Nat /\ ReviewSaving \notin Loads
    /\ NoAsk \notin [id : Asks, status : {"submitted"} \cup Moves]

VARIABLES
    askStatus,  \* the server's status of each request
    decidedBy,  \* the request whose form the published wording was typed in
    moves,      \* decisions so far
    tab,        \* queueTab
    requestRows,       \* the queue as loaded, or NoAsk
    opened,     \* detail: the request shown
    form,       \* the request the fields of the form were filled from
    call,       \* the requests under way
    overlapped  \* requests overlapped since the last refresh of a quiet screen

reviewVars == <<askStatus, decidedBy, moves, tab, requestRows, opened, form, call, overlapped>>

\* The tabs and the statuses each collects.
TabStatuses == [pending |-> {"submitted", "in_review"}, approved |-> {"published"},
                rejected |-> {"rejected"}, needs_info |-> {"needs_clarification"}]
Tabs == {t \in DOMAIN TabStatuses : TabStatuses[t] \cap (Moves \cup {"submitted"}) # {}}
ReviewStatuses == {"submitted"} \cup Moves
Keys == Loads \cup {ReviewSaving}

Off == [pc |-> "off"]
AskReviewList(want) == [pc |-> "list", under |-> tab, want |-> want]
AskOne(a) == [pc |-> "one", of |-> a]

ReviewTypeOK ==
    /\ askStatus \in [Asks -> ReviewStatuses] /\ decidedBy \in [Asks -> Asks \cup {NoAsk}]
    /\ moves \in 0..MaxMoves /\ tab \in Tabs /\ overlapped \in BOOLEAN
    /\ requestRows = NoAsk \/ requestRows \in [Asks -> ReviewStatuses]
    /\ opened = NoAsk \/ opened \in [id : Asks, status : ReviewStatuses]
    /\ form \in Asks \cup {NoAsk} /\ (opened # NoAsk => form = opened.id)
    /\ \A k \in Keys : \/ call[k] = Off
                       \/ call[k] \in [pc : {"one"}, of : Asks]
                       \/ call[k] \in [pc : {"list"}, under : Tabs, want : Asks \cup {NoAsk}]
                       \/ k = ReviewSaving /\ call[k] \in [pc : {"decide"}, of : Asks, to : Moves,
                                                     wording : Asks, under : Tabs]

ReviewInit ==
    /\ askStatus = [a \in Asks |-> "submitted"] /\ decidedBy = [a \in Asks |-> NoAsk]
    /\ moves = 0 /\ tab = "pending" /\ requestRows = NoAsk /\ opened = NoAsk /\ form = NoAsk
    /\ \E k \in Loads : call = [c \in Keys |-> IF c = k THEN AskReviewList(NoAsk) ELSE Off]
    /\ overlapped = FALSE

Quiet == \A k \in Keys : call[k] = Off

\* What the tab collects of a loaded queue.
InTab(list, t) == {a \in Asks : list[a] \in TabStatuses[t]}

\* A new request of the screen: it overlaps with those under way; one that
\* loads the queue on a quiet screen starts afresh.
Launch(ask) == /\ \E k \in Loads : call[k] = Off /\ call' = [call EXCEPT ![k] = ask]
               /\ overlapped' = IF Quiet THEN overlapped /\ ask.pc # "list" ELSE TRUE

\* The refresh button, the retry and the filters' apply load the queue anew.
Refresh == /\ Launch(AskReviewList(IF opened = NoAsk THEN NoAsk ELSE opened.id))
           /\ UNCHANGED <<askStatus, decidedBy, moves, tab, requestRows, opened, form>>

\* A click on a row opens that request.
OpenRow(a) == /\ requestRows # NoAsk /\ a \in InTab(requestRows, tab)
              /\ Launch(AskOne(a))
              /\ UNCHANGED <<askStatus, decidedBy, moves, tab, requestRows, opened, form>>

\* Another tab: the open request stays when the tab has it (by the status it
\* was loaded with); otherwise the first one the tab has is opened, or none.
ChooseTab(t) ==
    /\ t # tab /\ tab' = t
    /\ LET listed == IF requestRows = NoAsk THEN {} ELSE InTab(requestRows, t)
           stays == IF opened = NoAsk THEN FALSE ELSE opened.status \in TabStatuses[t] IN
       IF stays \/ listed = {}
       THEN /\ opened' = IF stays THEN opened ELSE NoAsk
            /\ overlapped' = (overlapped \/ ~Quiet) /\ UNCHANGED call
       ELSE /\ \E a \in listed : Launch(AskOne(a))
            /\ UNCHANGED opened
    /\ UNCHANGED <<askStatus, decidedBy, moves, requestRows, form>>

\* The queue arrives: the wanted request is opened when the tab the load was
\* started under has it, otherwise the first one that tab has, or none.
QueueArrives(k) ==
    /\ call[k].pc = "list" /\ requestRows' = askStatus
    /\ LET visible == InTab(askStatus, call[k].under) IN
       IF visible = {} THEN opened' = NoAsk /\ call' = [call EXCEPT ![k] = Off]
       ELSE /\ \E a \in IF call[k].want \in visible THEN {call[k].want} ELSE visible :
                  call' = [call EXCEPT ![k] = AskOne(a)]
            /\ UNCHANGED opened
    /\ UNCHANGED <<askStatus, decidedBy, moves, tab, form, overlapped>>

ReviewQueueFails(k) == /\ call[k].pc = "list" /\ call' = [call EXCEPT ![k] = Off] /\ overlapped' = TRUE
                 /\ UNCHANGED <<askStatus, decidedBy, moves, tab, requestRows, opened, form>>

\* Mutant: a form that was filled before keeps its words.
FormIsKept(k) == /\ call[k].pc = "one"
                 /\ opened' = [id |-> call[k].of, status |-> askStatus[call[k].of]]
                 /\ form' = IF form = NoAsk THEN call[k].of ELSE form
                 /\ call' = [call EXCEPT ![k] = Off]
                 /\ UNCHANGED <<askStatus, decidedBy, moves, tab, requestRows, overlapped>>
\* The detail arrives and replaces what is shown together with every field of
\* the form, whatever was typed into it and whatever is wanted by now.
DetailOpens(k) == /\ call[k].pc = "one"
                  /\ opened' = [id |-> call[k].of, status |-> askStatus[call[k].of]]
                  /\ form' = call[k].of
                  /\ call' = [call EXCEPT ![k] = Off]
                  /\ UNCHANGED <<askStatus, decidedBy, moves, tab, requestRows, overlapped>>

DetailLost(k) == /\ call[k].pc = "one" /\ opened' = NoAsk /\ overlapped' = TRUE
                 /\ call' = [call EXCEPT ![k] = Off]
                 /\ UNCHANGED <<askStatus, decidedBy, moves, tab, requestRows, form>>

\* A decision on the request shown, with the words in the form.
PressDecision(to) ==
    /\ opened # NoAsk /\ call[ReviewSaving] = Off
    /\ call' = [call EXCEPT ![ReviewSaving] = [pc |-> "decide", of |-> opened.id, to |-> to,
                                         wording |-> form, under |-> tab]]
    /\ overlapped' = (overlapped \/ ~Quiet)
    /\ UNCHANGED <<askStatus, decidedBy, moves, tab, requestRows, opened, form>>

\* The decision is stored; the queue is loaded again under the tab of the press
\* and with the buttons off until that has ended.
DecisionIsSaved ==
    /\ call[ReviewSaving].pc = "decide" /\ moves < MaxMoves /\ moves' = moves + 1
    /\ askStatus' = [askStatus EXCEPT ![call[ReviewSaving].of] = call[ReviewSaving].to]
    /\ decidedBy' = IF call[ReviewSaving].to # "published" THEN decidedBy
                    ELSE [decidedBy EXCEPT ![call[ReviewSaving].of] = call[ReviewSaving].wording]
    /\ call' = [call EXCEPT ![ReviewSaving] = [pc |-> "list", under |-> @.under, want |-> @.of]]
    /\ UNCHANGED <<tab, requestRows, opened, form, overlapped>>

DecisionFails == /\ call[ReviewSaving].pc = "decide" /\ call' = [call EXCEPT ![ReviewSaving] = Off]
                 /\ UNCHANGED <<askStatus, decidedBy, moves, tab, requestRows, opened, form, overlapped>>

\* A colleague decides on a screen of their own.
ColleagueDecides(a, to) ==
    /\ moves < MaxMoves /\ moves' = moves + 1 /\ askStatus[a] # to
    /\ askStatus' = [askStatus EXCEPT ![a] = to]
    /\ decidedBy' = IF to = "published" THEN [decidedBy EXCEPT ![a] = a] ELSE decidedBy
    /\ UNCHANGED <<tab, requestRows, opened, form, call, overlapped>>

ReviewNext ==
    \/ Refresh \/ DecisionIsSaved \/ DecisionFails
    \/ \E a \in Asks : OpenRow(a) \/ \E to \in Moves : ColleagueDecides(a, to)
    \/ \E t \in Tabs : ChooseTab(t)
    \/ \E to \in Moves : PressDecision(to)
    \/ \E k \in Keys : QueueArrives(k) \/ ReviewQueueFails(k) \/ DetailOpens(k) \/ DetailLost(k)

ReviewSpec == ReviewInit /\ [][ReviewNext]_reviewVars

-----------------------------------------------------------------------------
\* What was published for a request was typed in the form of that request,
\* though forms are filled by answers in any order and kept across requests.
WordingIsOwn == \A a \in Asks : decidedBy[a] \in {a, NoAsk}

\* On a quiet screen whose requests did not overlap, the open request is one the
\* queue lists under the chosen tab, and nothing is open only where it lists none.
TabShowsItsOwn ==
    Quiet /\ ~overlapped /\ requestRows # NoAsk
      => IF opened = NoAsk THEN InTab(requestRows, tab) = {}
         ELSE opened.id \in InTab(requestRows, tab) \/ opened.status \in TabStatuses[tab]
=============================================================================
