---------------------------- MODULE ClientKnowledge ----------------------------
(***************************************************************************)
(* The knowledge page of a client (apps/web client/knowledge/page.tsx):    *)
(* approved entries, the change requests in one status, and the form of a  *)
(* request, which stays open to typing and to other entries while it is    *)
(* being submitted.  What becomes of a request in the service is the       *)
(* subject of KnowledgeBase; here it is stored, and moves on.              *)
(***************************************************************************)
EXTENDS Naturals, Sequences, FiniteSets

CONSTANTS
    Articles,     \* approved entries
    NewArticle,   \* the form proposes a new one
    Fetchers,     \* loads that can be under way at once
    MaxAsks,      \* bound: requests stored
    MaxPageOps    \* bound: clicks and keys

ASSUME ArticleAssumption == NewArticle \notin Articles /\ {MaxAsks, MaxPageOps} \subseteq Nat

VARIABLES
    asks,         \* the change requests stored, in their order
    approved,     \* entries the client may see
    askForm,      \* the form: the entry, what is written
    written,      \* what the client last chose and wrote
    submission,   \* the submission under way
    askNotice,    \* the kind of request the page says it has submitted
    askFilter,    \* the status chosen
    shownAsks,    \* what the page shows: the status asked for, the requests, the entries
    fetches,      \* loads under way
    spinning,     \* isLoading: any load clears it
    hasty,        \* the client used the form while it was being submitted
    muddled,      \* loads overlapped, one failed, or the status changed during a submission
    pageOps

clientVars == <<asks, approved, askForm, written, submission, askNotice, askFilter, shownAsks,
                fetches, spinning, hasty, muddled, pageOps>>
askService == <<asks, approved>>
askFormVars == <<askForm, written, hasty>>
askPage == <<askFilter, shownAsks, fetches, spinning, muddled>>

AskStatuses == {"submitted", "published"}
AskFilters == AskStatuses \cup {"all"}
Wordings == 0..2                           \* 0: too short to be sent
AskForms == [entry : Articles \cup {NewArticle}, wording : Wordings]
EmptyForm == [entry |-> NewArticle, wording |-> 0]
NoSubmission == [pc |-> "idle"]
NotFetching == [pc |-> "idle"]
AskKind(f) == IF f.entry = NewArticle THEN "request" ELSE "edit"

ClientTypeOK ==
    /\ asks \in Seq([entry : Articles \cup {NewArticle}, wording : Wordings \ {0},
                     status : AskStatuses]) /\ Len(asks) <= MaxAsks
    /\ approved \subseteq Articles /\ askForm \in AskForms /\ written \in AskForms
    /\ \/ submission = NoSubmission
       \/ submission \in [pc : {"sent", "stored", "failed"}, form : AskForms, as : 0..MaxAsks,
                          status : AskFilters]
       \/ submission \in [pc : {"reloading"}, by : Fetchers]
    /\ askNotice \in {"none", "request", "edit"} /\ askFilter \in AskFilters
    /\ shownAsks \in [status : AskFilters, asks : SUBSET (1..MaxAsks), entries : SUBSET Articles]
    /\ \A l \in Fetchers :
         \/ fetches[l] = NotFetching
         \/ fetches[l] \in [pc : {"asked"}, status : AskFilters]
         \/ fetches[l] \in [pc : {"answered"}, status : AskFilters, asks : SUBSET (1..MaxAsks),
                            entries : SUBSET Articles]
    /\ {spinning, hasty, muddled} \subseteq BOOLEAN /\ pageOps \in 0..MaxPageOps

\* The page opens, loading everything.
ClientInit ==
    /\ asks = <<>> /\ approved = Articles /\ askForm = EmptyForm /\ written = EmptyForm
    /\ submission = NoSubmission /\ askNotice = "none" /\ askFilter = "all"
    /\ shownAsks = [status |-> "all", asks |-> {}, entries |-> {}]
    /\ \E l \in Fetchers :
         fetches = [m \in Fetchers |-> IF m = l THEN [pc |-> "asked", status |-> "all"]
                                       ELSE NotFetching]
    /\ spinning = TRUE /\ hasty = FALSE /\ muddled = FALSE /\ pageOps = 0

PageClick == pageOps < MaxPageOps /\ pageOps' = pageOps + 1
Fetching == \E l \in Fetchers : fetches[l] # NotFetching
Submitting == submission # NoSubmission

-----------------------------------------------------------------------------
\* The form.  Its fields and the entries stay in use during a submission.
UseForm(f) ==
    /\ PageClick /\ f # askForm /\ askForm' = f /\ written' = f
    /\ hasty' = (hasty \/ Submitting)
    /\ UNCHANGED <<askService, submission, askPage>>

TypeForm(w) == UseForm([askForm EXCEPT !.wording = w]) /\ UNCHANGED askNotice
\* selectEdit: the form of an entry that is shown; what it says is taken over.
SelectEdit(e) ==
    e \in shownAsks.entries /\ UseForm([entry |-> e, wording |-> 1]) /\ askNotice' = "none"
\* resetForm: the clear button rests during a submission, the new button does not.
ResetForm ==
    /\ Submitting => askForm.entry # NewArticle
    /\ UseForm(EmptyForm) /\ UNCHANGED askNotice

\* handleSubmit: sent for the entry being edited, or as a new one; refused in the page
\* when something is too short.
HandleRequest ==
    /\ PageClick /\ ~Submitting /\ askNotice' = "none"
    /\ submission' = IF askForm.wording = 0 THEN NoSubmission
                     ELSE [pc |-> "sent", form |-> askForm, as |-> 0, status |-> askFilter]
    /\ UNCHANGED <<askService, askFormVars, askPage>>

\* Mutant: what is in the form by the time of the request.
StoreForm ==
    /\ submission.pc = "sent" /\ Len(asks) < MaxAsks /\ askForm.wording # 0
    /\ asks' = Append(asks, [entry |-> askForm.entry, wording |-> askForm.wording,
                             status |-> "submitted"])
    /\ submission' = [submission EXCEPT !.pc = "stored", !.as = Len(asks) + 1]
    /\ UNCHANGED <<approved, askFormVars, askNotice, askPage, pageOps>>
\* The request is stored; an entry that was withdrawn meanwhile can still be edited.
StoreRequest ==
    /\ submission.pc = "sent" /\ Len(asks) < MaxAsks
    /\ asks' = Append(asks, [entry |-> submission.form.entry, wording |-> submission.form.wording,
                             status |-> "submitted"])
    /\ submission' = [submission EXCEPT !.pc = "stored", !.as = Len(asks) + 1]
    /\ UNCHANGED <<approved, askFormVars, askNotice, askPage, pageOps>>
\* Any request may fail.
RefuseRequest ==
    /\ submission.pc = "sent" /\ submission' = [submission EXCEPT !.pc = "failed"]
    /\ UNCHANGED <<askService, askFormVars, askNotice, askPage, pageOps>>

\* loadKnowledge(status) in a free slot.
Load(l, status) ==
    /\ fetches[l] = NotFetching /\ spinning' = TRUE
    /\ fetches' = [fetches EXCEPT ![l] = [pc |-> "asked", status |-> status]]

\* The page says so, empties the form, whatever it holds by now, and loads everything
\* again, in the status that was chosen when the request was submitted.
SayStored(l) ==
    /\ submission.pc = "stored" /\ Load(l, submission.status)
    /\ askNotice' = AskKind(submission.form) /\ askForm' = EmptyForm
    /\ muddled' = (muddled \/ Fetching) /\ submission' = [pc |-> "reloading", by |-> l]
    /\ UNCHANGED <<askService, written, hasty, askFilter, shownAsks, pageOps>>

SayFailed ==
    /\ submission.pc = "failed" /\ submission' = NoSubmission
    /\ UNCHANGED <<askService, askFormVars, askNotice, askPage, pageOps>>

-----------------------------------------------------------------------------
\* The team: a request is published, an entry withdrawn.
RequestMoves(i) ==
    /\ i \in DOMAIN asks /\ asks[i].status = "submitted"
    /\ asks' = [asks EXCEPT ![i].status = "published"]
    /\ UNCHANGED <<approved, askFormVars, submission, askNotice, askPage, pageOps>>
EntryWithdrawn(e) ==
    /\ e \in approved /\ approved' = approved \ {e}
    /\ UNCHANGED <<asks, askFormVars, submission, askNotice, askPage, pageOps>>

\* The refresh button rests while isLoading is set.
RefreshPage(l) ==
    /\ PageClick /\ ~spinning /\ Load(l, askFilter) /\ muddled' = (muddled \/ Fetching)
    /\ UNCHANGED <<askService, askFormVars, submission, askNotice, askFilter, shownAsks>>

\* The buttons of the filter never rest.
SetRequestStatus(l, f) ==
    /\ PageClick /\ f # askFilter /\ askFilter' = f /\ Load(l, f)
    /\ muddled' = (muddled \/ Fetching \/ Submitting)
    /\ UNCHANGED <<askService, askFormVars, submission, askNotice, shownAsks>>

InStatus(f) == {i \in DOMAIN asks : f = "all" \/ asks[i].status = f}
AnswerFetch(l) ==
    /\ fetches[l].pc = "asked"
    /\ fetches' = [fetches EXCEPT ![l] = [pc |-> "answered", status |-> @.status,
                                          asks |-> InStatus(@.status), entries |-> approved]]
    /\ UNCHANGED <<askService, askFormVars, submission, askNotice, askFilter, shownAsks, spinning,
                   muddled, pageOps>>
\* A load ends: isLoading is cleared, and a submission that waits for it is over.
EndFetch(l) ==
    /\ fetches' = [fetches EXCEPT ![l] = NotFetching] /\ spinning' = FALSE
    /\ submission' = IF submission = [pc |-> "reloading", by |-> l] THEN NoSubmission
                     ELSE submission
    /\ UNCHANGED <<askService, askFormVars, askNotice, askFilter, pageOps>>
ShowKnowledge(l) ==
    /\ fetches[l].pc = "answered" /\ EndFetch(l) /\ UNCHANGED muddled
    /\ shownAsks' = [status |-> fetches[l].status, asks |-> fetches[l].asks,
                     entries |-> fetches[l].entries]
FetchFails(l) ==
    /\ fetches[l] # NotFetching /\ EndFetch(l) /\ muddled' = TRUE /\ UNCHANGED shownAsks

ClientNext ==
    \/ \E w \in Wordings : TypeForm(w)
    \/ \E e \in Articles : SelectEdit(e) \/ EntryWithdrawn(e)
    \/ ResetForm \/ HandleRequest \/ StoreRequest \/ RefuseRequest \/ SayFailed
    \/ \E i \in 1..MaxAsks : RequestMoves(i)
    \/ \E l \in Fetchers : SayStored(l) \/ RefreshPage(l) \/ AnswerFetch(l) \/ ShowKnowledge(l)
                           \/ FetchFails(l) \/ \E f \in AskFilters : SetRequestStatus(l, f)

ClientSpec == ClientInit /\ [][ClientNext]_clientVars

-----------------------------------------------------------------------------
\* A request is stored for the entry and with the words the client submitted, also
\* when the form was used between the click and the request.
StoredIsAsSubmitted ==
    submission.pc = "stored" =>
        /\ asks[submission.as].entry = submission.form.entry
        /\ asks[submission.as].wording = submission.form.wording

\* What the page says it has submitted, a request or an edit, is what was stored last.
NoticeIsTrue ==
    askNotice # "none" => asks # <<>> /\ askNotice = AskKind(asks[Len(asks)])

\* What the client wrote is in the form or in a stored request, unless the client went
\* on writing during a submission; a failed request in particular leaves the form alone.
WordsAreKept ==
    ~hasty => \/ askForm = written
              \/ \E i \in DOMAIN asks : [asks[i] EXCEPT !.status = "any"]
                                        = [entry |-> written.entry, wording |-> written.wording,
                                           status |-> "any"]

\* A page at rest shows the requests in the status that is chosen, unless loads
\* overlapped or failed, or the status was changed during a submission: then the
\* reload that follows asks for the status of before.
ShownFitsFilter ==
    ~Fetching /\ ~Submitting /\ ~muddled => shownAsks.status = askFilter
=============================================================================
