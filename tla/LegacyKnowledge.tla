-------------------------- MODULE LegacyKnowledge --------------------------
(***************************************************************************)
(* The knowledge of the legacy API (apps/api/src/knowledge), in two parts. *)
(*                                                                         *)
(* Change requests: suggestion from a ticket, submission, review,          *)
(* publication.  A publication is several transactions: it reads the       *)
(* request, drafts the entry, activates it, closes the request and records *)
(* the event; reviews and other publications run in between, and the       *)
(* process may stop.                                                       *)
(*                                                                         *)
(* Entries and what makes them: staff, file and page imports, industry     *)
(* templates, answers harvested from resolved tickets.  A change of an     *)
(* entry, its search index and its version row are one transaction; a      *)
(* reindexing of the whole base is not: it writes one index after the      *)
(* other from entries read at its start.  What makes entries looks first,  *)
(* and creates then.                                                       *)
(***************************************************************************)
EXTENDS Naturals, FiniteSets

(* Change requests. *)
CONSTANTS
    Articles,   \* entries
    ChangeAsks, \* change requests
    LkJobs,     \* requests the API works on at once
    ReviewStates, \* what a review may leave a request in: in_review, rejected, ...
    Escalated,  \* tickets whose answers are suggested as entries
    NoArticle   \* no row, no job, nothing

ASSUME LkAssumption ==
    /\ NoArticle \notin Articles \cup ChangeAsks \cup LkJobs \cup Escalated
    /\ "published" \notin ReviewStates

VARIABLES
    article,  \* the entries: status and the request they come from
    ask,      \* the change requests
    told,     \* per request, whether an event tells the state it is in
    lkJob,    \* what each request to the API is doing
    blurred   \* (history) requests that two jobs worked on at once, that were cut short, or
              \* that went back to review after publication

lkVars == <<article, ask, told, lkJob, blurred>>

Article == [status : {"draft", "active", "archived"}, from : ChangeAsks \cup {NoArticle}]
Ask == [status : {"submitted", "published"} \cup ReviewStates, target : Articles \cup {NoArticle},
        key : Escalated \cup {NoArticle}, out : Articles \cup {NoArticle}]
NoJob == [pc |-> "idle", on |-> NoArticle]

\* "No row" is not a row.
ASSUME NoArticleAssumption == NoArticle \notin Article \cup Ask

LkTypeOK ==
    /\ article \in [Articles -> Article \cup {NoArticle}]
    /\ ask \in [ChangeAsks -> Ask \cup {NoArticle}]
    /\ told \in [ChangeAsks -> BOOLEAN]
    /\ \A j \in LkJobs :
         \/ lkJob[j] = NoJob
         \/ lkJob[j] \in [pc : {"accepted"}, on : ChangeAsks]
         \/ lkJob[j] \in [pc : {"drafted", "live"}, on : ChangeAsks, art : Articles]
         \/ lkJob[j] \in [pc : {"event"}, on : ChangeAsks,
                          type : {"submitted", "published"} \cup ReviewStates]
         \/ lkJob[j] \in [pc : {"reviewing"}, on : ChangeAsks, to : ReviewStates]
         \/ lkJob[j] \in [pc : {"toSuggest"}, on : Escalated]
    /\ blurred \subseteq ChangeAsks

LkInit ==
    /\ article = [a \in Articles |-> NoArticle]
    /\ ask = [q \in ChangeAsks |-> NoArticle] /\ told = [q \in ChangeAsks |-> FALSE]
    /\ lkJob = [j \in LkJobs |-> NoJob]
    /\ blurred = {}

Become(j, r) == lkJob' = [lkJob EXCEPT ![j] = r]
Others(j, on) == \E k \in LkJobs \ {j} : lkJob[k].on = on
Blur(yes, x) == blurred' = IF yes THEN blurred \cup {x} ELSE blurred

\* The transactions of the entries (the second part has their details).
CreateDraft(a, from) ==
    /\ article[a] = NoArticle
    /\ article' = [article EXCEPT ![a] = [status |-> "draft", from |-> from]]
UpdateEntry(a) ==
    /\ article[a] # NoArticle
    /\ article' = [article EXCEPT ![a].status = "draft"]
SetStatus(a, status) ==
    /\ article[a] # NoArticle
    /\ article' = [article EXCEPT ![a].status = status]

\* Work on the entries outside of change requests.
StaffWorks(a) == /\ \/ CreateDraft(a, NoArticle) \/ UpdateEntry(a)
                    \/ SetStatus(a, "active") \/ SetStatus(a, "archived")
                 /\ UNCHANGED <<ask, told, lkJob, blurred>>

NewAsk(q, target, key) ==
    /\ ask[q] = NoArticle
    /\ ask' = [ask EXCEPT ![q] = [status |-> "submitted", target |-> target, key |-> key, out |-> NoArticle]]

\* A client submits a change: the row, then its event.
Submit(j, q) ==
    /\ lkJob[j] = NoJob
    /\ \E t \in {a \in Articles : article[a] # NoArticle} \cup {NoArticle} :
          NewAsk(q, t, NoArticle)
    /\ Become(j, [pc |-> "event", on |-> q, type |-> "submitted"])
    /\ UNCHANGED <<article, told, blurred>>

\* An escalated ticket suggests an entry, unless a suggestion for it is found.
LookForSuggestion(j, k) ==
    /\ lkJob[j] = NoJob /\ ~\E q \in ChangeAsks : ask[q] # NoArticle /\ ask[q].key = k
    /\ Become(j, [pc |-> "toSuggest", on |-> k])
    /\ UNCHANGED <<article, ask, told, blurred>>

\* The unique index refuses a second one; the caller gets the first.
Suggest(j, q) ==
    /\ lkJob[j].pc = "toSuggest"
    /\ IF \E p \in ChangeAsks : ask[p] # NoArticle /\ ask[p].key = lkJob[j].on
       THEN Become(j, NoJob) /\ UNCHANGED ask
       ELSE /\ NewAsk(q, NoArticle, lkJob[j].on)
            /\ Become(j, [pc |-> "event", on |-> q, type |-> "submitted"])
    /\ UNCHANGED <<article, told, blurred>>

\* Clarification, rejection and review: any state but publication, from any state.
StartReview(j, q) ==
    /\ lkJob[j] = NoJob /\ ask[q] # NoArticle
    /\ \E s \in ReviewStates : Become(j, [pc |-> "reviewing", on |-> q, to |-> s])
    /\ UNCHANGED <<article, ask, told, blurred>>
UpdateReviewState(j) ==
    /\ lkJob[j].pc = "reviewing"
    /\ LET q == lkJob[j].on IN
       /\ ask' = [ask EXCEPT ![q].status = lkJob[j].to]
       /\ Become(j, [pc |-> "event", on |-> q, type |-> lkJob[j].to])
       /\ told' = [told EXCEPT ![q] = FALSE]
       /\ Blur(ask[q].out # NoArticle \/ Others(j, q), q)
    /\ UNCHANGED <<article>>

\* Mutant: a published request is published again.
StartAny(j, q) == /\ lkJob[j] = NoJob /\ ask[q] # NoArticle /\ ask[q].status # "rejected"
                  /\ Become(j, [pc |-> "accepted", on |-> q]) /\ Blur(Others(j, q), q)
                  /\ UNCHANGED <<article, ask, told>>
\* Publication: not of what is published or rejected.
StartPublish(j, q) ==
    /\ lkJob[j] = NoJob /\ ask[q] # NoArticle /\ ask[q].status \notin {"published", "rejected"}
    /\ Become(j, [pc |-> "accepted", on |-> q]) /\ Blur(Others(j, q), q)
    /\ UNCHANGED <<article, ask, told>>

\* The entry of a new answer, or a new wording of the target (which is a draft
\* from here until it is activated).
PublishDraft(j, a) ==
    /\ lkJob[j].pc = "accepted"
    /\ LET q == lkJob[j].on IN
       /\ IF ask[q].target = NoArticle THEN CreateDraft(a, q)
          ELSE a = ask[q].target /\ UpdateEntry(a)
       /\ Become(j, [pc |-> "drafted", on |-> q, art |-> a])
    /\ UNCHANGED <<ask, told, blurred>>
PublishEntry(j) ==
    /\ lkJob[j].pc = "drafted"
    /\ SetStatus(lkJob[j].art, "active")
    /\ lkJob' = [lkJob EXCEPT ![j].pc = "live"]
    /\ UNCHANGED <<ask, told, blurred>>

PublishAsk(j) ==
    /\ lkJob[j].pc = "live"
    /\ ask' = [ask EXCEPT ![lkJob[j].on].status = "published", ![lkJob[j].on].out = lkJob[j].art]
    /\ told' = [told EXCEPT ![lkJob[j].on] = FALSE]
    /\ Become(j, [pc |-> "event", on |-> lkJob[j].on, type |-> "published"])
    /\ UNCHANGED <<article, blurred>>

RecordEvent(j) ==
    /\ lkJob[j].pc = "event"
    /\ told' = [told EXCEPT ![lkJob[j].on] = @ \/ lkJob[j].type = ask[lkJob[j].on].status]
    /\ Become(j, NoJob)
    /\ UNCHANGED <<article, ask, blurred>>

\* A statement fails or the process stops: what was committed stays.
JobDies(j) ==
    /\ lkJob[j] # NoJob /\ Become(j, NoJob)
    /\ Blur(lkJob[j].pc \notin {"accepted", "reviewing", "toSuggest"}, lkJob[j].on)
    /\ UNCHANGED <<article, ask, told>>

LkNext ==
    \/ \E a \in Articles : StaffWorks(a)
    \/ \E j \in LkJobs :
         \/ UpdateReviewState(j) \/ PublishEntry(j) \/ PublishAsk(j) \/ RecordEvent(j) \/ JobDies(j)
         \/ \E q \in ChangeAsks : \/ Submit(j, q) \/ Suggest(j, q)
                                  \/ StartReview(j, q) \/ StartPublish(j, q)
         \/ \E k \in Escalated : LookForSuggestion(j, k)
         \/ \E a \in Articles : PublishDraft(j, a)

LkSpec == LkInit /\ [][LkNext]_lkVars

-----------------------------------------------------------------------------
\* A request for a new answer has made at most one entry, unless two reviewers
\* worked on it at once, a publication was cut short, or it went back to
\* review after publication.
AnswerMadeOnce ==
    \A q \in ChangeAsks \ blurred : Cardinality({a \in Articles : article[a] # NoArticle
                                                                  /\ article[a].from = q}) <= 1

\* A request marked published names an entry that was made active for it (and
\* edits name their target).
PublishedWasLive ==
    [][\A q \in ChangeAsks : ask[q] # NoArticle /\ ask'[q].status = "published"
                             /\ ask[q].status # "published"
          => LET a == ask'[q].out IN
             /\ a # NoArticle /\ article[a] # NoArticle
             /\ ask[q].target \in {NoArticle, a}
             /\ article[a].status = "active" \/ \E j \in LkJobs : lkJob[j].pc = "live"]_lkVars

\* The events of a request tell the state it is in, except where a job
\* stopped between the change and its event.
EventsTellState ==
    \A q \in ChangeAsks \ blurred :
        ask[q] # NoArticle => \/ told[q]
                              \/ \E j \in LkJobs : lkJob[j].pc = "event" /\ lkJob[j].on = q
                                                   /\ lkJob[j].type = ask[q].status

-----------------------------------------------------------------------------
(* Entries. *)
CONSTANTS
    Entries,  \* rows of the knowledge base
    Makers,   \* harvests, template applications and imports at work at once
    Origins,  \* what an entry is to be made from once: tickets, template slugs
    EntryBatches,  \* what one maker works through: sets of origins
    NoEntry   \* no row, no origin, nothing to do

ASSUME EntriesAssumption == NoEntry \notin Entries \cup Origins /\ EntryBatches \subseteq SUBSET Origins

VARIABLES
    entry,   \* status, whether the index is of the wording, and the origin
    wordings, \* how many wordings the version rows of an entry hold: one, or more
    reread,  \* the reindexing under way: per entry left, whether it read the present wording
    maker,   \* what each maker has left, and what it found to create
    entriesRaced    \* (history) origins that two makers handled at once

entryVars == <<entry, wordings, reread, maker, entriesRaced>>

EntryRow == [status : {"draft", "active", "archived"}, indexed : BOOLEAN, from : Origins \cup {NoEntry}]

\* "No row" is not a row.
ASSUME NoEntryAssumption == NoEntry \notin EntryRow

IdleMaker == [batch |-> {}, left |-> {}, create |-> NoEntry]

EntriesTypeOK ==
    /\ entry \in [Entries -> {NoEntry} \cup EntryRow]
    /\ wordings \in [Entries -> {"none", "one", "more"}]
    /\ reread \in [Entries -> {"none", "same", "old"}]
    /\ maker \in [Makers -> [batch : EntryBatches \cup {{}}, left : SUBSET Origins,
                             create : Origins \cup {NoEntry}]]
    /\ entriesRaced \subseteq Origins

EntriesInit ==
    /\ entry = [e \in Entries |-> NoEntry] /\ wordings = [e \in Entries |-> "none"]
    /\ reread = [e \in Entries |-> "none"]
    /\ maker = [m \in Makers |-> IdleMaker] /\ entriesRaced = {}

\* A new wording: row, index and version row together.  A reindexing that has
\* read the entry holds an old wording from then on.
Word(e, row) == /\ entry' = [entry EXCEPT ![e] = row]
                /\ wordings' = [wordings EXCEPT ![e] = IF @ = "none" THEN "one" ELSE "more"]
                /\ reread' = [reread EXCEPT ![e] = IF @ = "none" THEN @ ELSE "old"]

NewEntry(e, from) == /\ entry[e] = NoEntry
                     /\ Word(e, [status |-> "draft", indexed |-> TRUE, from |-> from])

\* An entry by hand, or one of the drafts of an imported file or page.
CreateEntry(e) == NewEntry(e, NoEntry) /\ UNCHANGED <<maker, entriesRaced>>

EditEntry(e) == /\ entry[e] # NoEntry
                /\ Word(e, [entry[e] EXCEPT !.status = "draft", !.indexed = TRUE])
                /\ UNCHANGED <<maker, entriesRaced>>

\* The wording of an earlier version row comes back as a draft.
RollBack(e) == /\ wordings[e] = "more"
               /\ Word(e, [entry[e] EXCEPT !.status = "draft", !.indexed = TRUE])
               /\ UNCHANGED <<maker, entriesRaced>>

\* Activation indexes the entry again; archiving leaves the index alone.
SetEntryStatus(e, s) ==
    /\ entry[e] # NoEntry /\ entry[e].status # s
    /\ entry' = [entry EXCEPT ![e].status = s, ![e].indexed = @ \/ s = "active"]
    /\ UNCHANGED <<wordings, reread, maker, entriesRaced>>

ReindexAll ==
    /\ \A e \in Entries : reread[e] = "none"
    /\ reread' = [e \in Entries |-> IF entry[e] = NoEntry \/ entry[e].status = "archived"
                                    THEN "none" ELSE "same"]
    /\ reread' # reread
    /\ UNCHANGED <<entry, wordings, maker, entriesRaced>>

WriteEmbedding(e) ==
    /\ reread[e] # "none"
    /\ entry' = [entry EXCEPT ![e].indexed = (reread[e] = "same")]
    /\ reread' = [reread EXCEPT ![e] = "none"]
    /\ UNCHANGED <<wordings, maker, entriesRaced>>

MadeFrom(o) == {e \in Entries : entry[e] # NoEntry /\ entry[e].from = o}

\* A resolved ticket is harvested, or a template applied.
StartMaker(m) == /\ maker[m] = IdleMaker
                 /\ \E b \in EntryBatches : maker' = [maker EXCEPT ![m].batch = b, ![m].left = b]
                 /\ UNCHANGED <<entry, wordings, reread, entriesRaced>>

\* Mutant: the lookup is of active entries only.
LookForActive(m) ==
    /\ maker[m].create = NoEntry
    /\ \E o \in maker[m].left :
         /\ maker' = [maker EXCEPT ![m].left = @ \ {o},
                                   ![m].create = IF \E e \in MadeFrom(o) : entry[e].status = "active"
                                                 THEN NoEntry ELSE o]
         /\ entriesRaced' = IF \E k \in Makers \ {m} : maker[k].create = o THEN entriesRaced \cup {o} ELSE entriesRaced
    /\ UNCHANGED <<entry, wordings, reread>>
\* The next origin: skipped where an entry from it is found.
LookForEntry(m) ==
    /\ maker[m].create = NoEntry
    /\ \E o \in maker[m].left :
         /\ maker' = [maker EXCEPT ![m].left = @ \ {o},
                                   ![m].create = IF MadeFrom(o) # {} THEN NoEntry ELSE o]
         /\ entriesRaced' = IF \E k \in Makers \ {m} : maker[k].create = o THEN entriesRaced \cup {o} ELSE entriesRaced
    /\ UNCHANGED <<entry, wordings, reread>>

MakeEntry(m, e) == /\ maker[m].create # NoEntry /\ NewEntry(e, maker[m].create)
                   /\ maker' = [maker EXCEPT ![m].create = NoEntry]
                   /\ UNCHANGED entriesRaced

MakerEnds(m) == /\ maker[m] # IdleMaker /\ maker[m].left = {} /\ maker[m].create = NoEntry
                /\ maker' = [maker EXCEPT ![m] = IdleMaker]
                /\ UNCHANGED <<entry, wordings, reread, entriesRaced>>

\* A statement fails or the process stops; what was made so far stays.
MakerDies(m) == /\ maker[m].left # {} \/ maker[m].create # NoEntry
                /\ maker' = [maker EXCEPT ![m] = IdleMaker]
                /\ UNCHANGED <<entry, wordings, reread, entriesRaced>>

EntriesNext ==
    \/ ReindexAll
    \/ \E e \in Entries : \/ CreateEntry(e) \/ EditEntry(e) \/ RollBack(e) \/ WriteEmbedding(e)
                          \/ \E s \in {"active", "archived"} : SetEntryStatus(e, s)
    \/ \E m \in Makers : \/ StartMaker(m) \/ LookForEntry(m) \/ MakerEnds(m) \/ MakerDies(m)
                         \/ \E e \in Entries : MakeEntry(m, e)

EntriesSpec == EntriesInit /\ [][EntriesNext]_entryVars

-----------------------------------------------------------------------------
\* A resolved ticket or a template slug becomes one entry, unless two runs
\* handled it at once (nothing in the schema forbids a second row).
MadeOnce == \A o \in Origins \ entriesRaced : Cardinality(MadeFrom(o)) <= 1

\* A run that ends has an entry for everything it was given, also when an
\* earlier run over the same template was cut short.
RunMakesAll ==
    [][\A m \in Makers : maker[m] # IdleMaker /\ maker'[m] = IdleMaker /\ maker[m].left = {}
                         /\ maker[m].create = NoEntry
          => \A o \in maker[m].batch : MadeFrom(o) # {}]_entryVars

\* The index of an entry stops matching its wording only when a reindexing
\* writes what it read before the entry was changed.
IndexLostToReindexOnly ==
    [][\A e \in Entries : entry[e] # NoEntry /\ entry[e].indexed /\ ~entry'[e].indexed
          => reread[e] = "old"]_entryVars
=============================================================================
