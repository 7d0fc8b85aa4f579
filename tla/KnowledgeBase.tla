---------------------------- MODULE KnowledgeBase ----------------------------
(***************************************************************************)
(* The knowledge base of one tenant (services/knowledge.ts): entries with  *)
(* their version history and search index, and the change requests clients *)
(* submit and internal reviewers decide.                                   *)
(*                                                                         *)
(* No operation is a transaction.  Each HTTP request is a job of its own:  *)
(* the UPDATE or INSERT of the entry, the index, the history row, the      *)
(* activation, the request row and its audit event are separate statements *)
(* between which other jobs run, and after each of which the job may die.  *)
(***************************************************************************)
EXTENDS Integers, FiniteSets, TLC

CONSTANTS
  Entries,     \* bound: ids of entries, handed out in increasing order
  Contents,    \* what an entry may say
  Requests,    \* change requests clients may submit
  Jobs,        \* HTTP requests that can be in progress together
  MaxCalls,    \* bound on the HTTP requests that are made
  MaxFailures  \* bound on jobs that die

None == "none"

ASSUME KnowledgeAssumption ==
  /\ Entries \subseteq Nat \ {0} /\ 1 \in Entries
  /\ Contents # {}
  /\ None \notin Requests
  /\ MaxCalls \in Nat /\ MaxFailures \in Nat

VARIABLES
  entry,     \* id -> version, content, status; status "none" before the INSERT
  indexed,   \* id -> content the embedding was computed from
  versions,  \* rows of the version history
  req,       \* change request -> its row
  events,    \* audit events of the change requests
  job,       \* HTTP requests in progress
  calls,     \* HTTP requests made so far
  source,    \* history: id -> change request whose publication created the entry
  disturbed, \* history: entries two jobs worked on at the same time
  contested, \* history: change requests two jobs worked on at the same time
  reopened,  \* history: change requests reviewed again after publication
  failures

vars == <<entry, indexed, versions, req, events, job, calls, source, disturbed,
          contested, reopened, failures>>
history == <<source, disturbed, contested, reopened, failures>>

EntryStatus == {"draft", "active", "archived"}
ReviewOutcome == {"in_review", "needs_clarification", "rejected"}
RequestStatus == ReviewOutcome \union {"submitted", "published"}
Row == [entry : Entries, version : Nat \ {0}, content : Contents, status : EntryStatus]
NoRow == [entry |-> 0, version |-> 0, content |-> None, status |-> None]
Idle == [pc |-> "idle", next |-> "idle", row |-> NoRow, todo |-> {}, request |-> None,
         type |-> None, previous |-> None, content |-> None]

Entry == [version : Nat, content : Contents \union {None}, status : EntryStatus \union {None}]
Request == [status : RequestStatus \union {None}, target : Entries \union {0},
            proposed : Contents \union {None}, seen : Row \union {NoRow},
            decided : Contents \union {None}, publishedEntry : Entries \union {0}]
Event == [request : Requests, type : RequestStatus, previous : RequestStatus \union {None}]
Job == [pc : {"idle", "embed", "record", "reindex", "review", "draft", "activate", "close", "event"},
        next : {"idle", "activate", "close"}, row : Row \union {NoRow}, todo : SUBSET Row,
        request : Requests \union {None}, type : RequestStatus \union {None},
        previous : RequestStatus \union {None}, content : Contents \union {None}]

Exists(e) == entry[e].status # None
RowOf(e) == [entry |-> e, version |-> entry[e].version, content |-> entry[e].content,
             status |-> entry[e].status]

TypeOK ==
  /\ entry \in [Entries -> Entry]
  /\ indexed \in [Entries -> Contents \union {None}]
  /\ versions \subseteq Row
  /\ req \in [Requests -> Request]
  /\ events \subseteq Event
  /\ job \in [Jobs -> Job]
  /\ calls \in 0..MaxCalls
  /\ source \in [Entries -> Requests \union {None}]
  /\ disturbed \subseteq Entries
  /\ contested \subseteq Requests /\ reopened \subseteq Requests
  /\ failures \in 0..MaxFailures

\* A tenant with one published entry and its history.
Init ==
  \E c \in Contents :
    LET first == [entry |-> 1, version |-> 1, content |-> c, status |-> "active"] IN
      /\ entry = [e \in Entries |->
           IF e = 1 THEN [version |-> 1, content |-> c, status |-> "active"]
                    ELSE [version |-> 0, content |-> None, status |-> None]]
      /\ indexed = [e \in Entries |-> IF e = 1 THEN c ELSE None]
      /\ versions = {[first EXCEPT !.status = "draft"], first}
      /\ req = [r \in Requests |-> [status |-> None, target |-> 0, proposed |-> None,
                                    seen |-> NoRow, decided |-> None, publishedEntry |-> 0]]
      /\ events = {}
      /\ job = [w \in Jobs |-> Idle]
      /\ calls = 0
      /\ source = [e \in Entries |-> None]
      /\ disturbed = {} /\ contested = {} /\ reopened = {}
      /\ failures = 0

Ready(w) ==
  /\ job[w].pc = "idle"
  /\ calls < MaxCalls
  /\ calls' = calls + 1

\* Jobs that write entry e, or are about to with what they have read.
Busy(w, e) ==
  \/ job[w].row.entry = e
  \/ \E row \in job[w].todo : row.entry = e
  \/ job[w].pc = "draft" /\ req[job[w].request].target = e

Touch(w, es) ==
  disturbed' = disturbed \union {e \in es : \E u \in Jobs \ {w} : Busy(u, e)}

Contest(w, r) ==
  contested' = contested \union {q \in {r} : \E u \in Jobs \ {w} : job[u].request = q}

-----------------------------------------------------------------------------
(* Statements on entries.                                                  *)

\* INSERT of createDraft.
Insert(w, c, next, r) ==
  \E e \in Entries :
    /\ ~Exists(e)
    /\ \A d \in Entries : d < e => Exists(d)
    /\ entry' = [entry EXCEPT ![e] = [version |-> 1, content |-> c, status |-> "draft"]]
    /\ source' = [source EXCEPT ![e] = r]
    /\ job' = [job EXCEPT ![w] = [@ EXCEPT !.pc = "embed", !.next = next, !.row =
         [entry |-> e, version |-> 1, content |-> c, status |-> "draft"]]]
    /\ UNCHANGED disturbed

\* Mutant: a change does not count.
SameVersion(e) == entry[e].version

NextVersion(e) == entry[e].version + 1

\* UPDATE of update and rollback: the entry becomes a draft again, live or not.
Rewrite(w, e, c, next) ==
  LET new == [version |-> NextVersion(e), content |-> c, status |-> "draft"] IN
  /\ Exists(e)
  /\ entry' = [entry EXCEPT ![e] = new]
  /\ job' = [job EXCEPT ![w] = [@ EXCEPT !.pc = "embed", !.next = next, !.row =
       [entry |-> e, version |-> new.version, content |-> c, status |-> "draft"]]]
  /\ Touch(w, {e})
  /\ UNCHANGED source

\* Mutant: the history gets the row as it was before.
ReadRow(e, s) == RowOf(e)

ReturnedRow(e, s) == [RowOf(e) EXCEPT !.status = s]

\* UPDATE of setStatus, whatever the entry says by now.
ChangeStatus(w, e, s, next) ==
  /\ Exists(e)
  /\ entry' = [entry EXCEPT ![e].status = s]
  /\ job' = [job EXCEPT ![w] = [@ EXCEPT !.pc = "record", !.next = next,
                                         !.row = ReturnedRow(e, s)]]
  /\ Touch(w, {e})

-----------------------------------------------------------------------------
(* Requests of the internal knowledge workspace.                           *)

CreateDraft(w, c) ==
  /\ Ready(w)
  /\ Insert(w, c, "idle", None)
  /\ UNCHANGED <<indexed, versions, req, events, contested, reopened, failures>>

Update(w, e, c) ==
  /\ Ready(w)
  /\ Rewrite(w, e, c, "idle")
  /\ UNCHANGED <<indexed, versions, req, events, contested, reopened, failures>>

\* The snapshot never changes, so reading it early makes no difference.
Rollback(w, v) ==
  /\ Ready(w)
  /\ Rewrite(w, v.entry, v.content, "idle")
  /\ UNCHANGED <<indexed, versions, req, events, contested, reopened, failures>>

SetStatus(w, e, s) ==
  /\ Ready(w)
  /\ ChangeStatus(w, e, s, "idle")
  /\ UNCHANGED <<indexed, versions, req, events, source, contested, reopened, failures>>

\* Mutant: an index that exists is kept.
IndexOnce(e, c) == IF indexed[e] = None THEN c ELSE indexed[e]

NewIndex(e, c) == c

\* writeEmbedding: of the row its caller holds.
WriteEmbedding(w) ==
  LET row == job[w].row IN
  /\ job[w].pc = "embed"
  /\ indexed' = [indexed EXCEPT ![row.entry] = NewIndex(row.entry, row.content)]
  /\ job' = [job EXCEPT ![w].pc = "record"]
  /\ UNCHANGED <<calls, entry, versions, req, events, history>>

RecordVersion(w) ==
  /\ job[w].pc = "record"
  /\ versions' = versions \union {job[w].row}
  /\ job' = [job EXCEPT ![w] = 
       IF job[w].next = "idle" THEN Idle ELSE [job[w] EXCEPT !.pc = job[w].next]]
  /\ UNCHANGED <<calls, entry, indexed, req, events, history>>

\* reindex reads every entry that is not archived, then writes one index after
\* the other.
Reindex(w) ==
  LET rows == {RowOf(e) : e \in {d \in Entries : entry[d].status \in {"draft", "active"}}} IN
  /\ Ready(w)
  /\ rows # {}
  /\ job' = [job EXCEPT ![w] = [@ EXCEPT !.pc = "reindex", !.todo = rows]]
  /\ Touch(w, {row.entry : row \in rows})
  /\ UNCHANGED <<entry, indexed, versions, req, events, source, contested, reopened, failures>>

ReindexEntry(w) ==
  /\ job[w].pc = "reindex"
  /\ \E row \in job[w].todo :
       /\ indexed' = [indexed EXCEPT ![row.entry] = NewIndex(row.entry, row.content)]
       /\ job' = [job EXCEPT ![w] =
            IF job[w].todo = {row} THEN Idle ELSE [job[w] EXCEPT !.todo = @ \ {row}]]
  /\ UNCHANGED <<calls, entry, versions, req, events, history>>

-----------------------------------------------------------------------------
(* Change requests.                                                        *)

\* create; target 0 asks for a new entry.  The entry is read just before.
Submit(w, r, target, c) ==
  /\ Ready(w)
  /\ req[r].status = None
  /\ target # 0 => Exists(target)
  /\ req' = [req EXCEPT ![r] = [@ EXCEPT !.status = "submitted", !.target = target,
       !.proposed = c, !.seen = IF target = 0 THEN NoRow ELSE RowOf(target)]]
  /\ job' = [job EXCEPT ![w] = [@ EXCEPT !.pc = "event", !.request = r, !.type = "submitted"]]
  /\ UNCHANGED <<entry, indexed, versions, events, history>>

\* updateReviewState: find, which also yields the previous status for the event.
BeginReview(w, r, s) ==
  /\ Ready(w)
  /\ req[r].status # None
  /\ job' = [job EXCEPT ![w] = [@ EXCEPT !.pc = "review", !.request = r, !.type = s,
                                         !.previous = req[r].status]]
  /\ Contest(w, r)
  /\ UNCHANGED <<entry, indexed, versions, req, events, source, disturbed, reopened, failures>>

\* The UPDATE: from any status to any other.
Review(w) ==
  LET r == job[w].request IN
  /\ job[w].pc = "review"
  /\ req' = [req EXCEPT ![r].status = job[w].type]
  /\ reopened' = reopened \union {q \in {r} : req[q].status = "published"}
  /\ job' = [job EXCEPT ![w].pc = "event"]
  /\ UNCHANGED <<calls, entry, indexed, versions, events, source, disturbed, contested, failures>>

\* Mutant: only a rejection is final.
NotRejected(r) == req[r].status \notin {None, "rejected"}

Publishable(r) == req[r].status \notin {None, "published", "rejected"}

\* publish: the checks.  The reviewer takes the proposal or edits it.
BeginPublish(w, r, c) ==
  /\ Ready(w)
  /\ Publishable(r)
  /\ job' = [job EXCEPT ![w] = [@ EXCEPT !.pc = "draft", !.request = r, !.type = "published",
                                         !.previous = req[r].status, !.content = c]]
  /\ Touch(w, {req[r].target} \ {0})
  /\ Contest(w, r)
  /\ UNCHANGED <<entry, indexed, versions, req, events, source, reopened, failures>>

\* createDraft or update, with their index and history, by the same job.
PublishDraft(w) ==
  LET r == job[w].request IN
  /\ job[w].pc = "draft"
  /\ IF req[r].target = 0
       THEN Insert(w, job[w].content, "activate", r)
       ELSE Rewrite(w, req[r].target, job[w].content, "activate")
  /\ UNCHANGED <<calls, indexed, versions, req, events, contested, reopened, failures>>

\* Mutants: the draft stays a draft; the entry gets the status of the request.
StaysDraft == "draft"
StatusOfRequest == "published"

PublishedStatus == "active"

Activate(w) ==
  /\ job[w].pc = "activate"
  /\ ChangeStatus(w, job[w].row.entry, PublishedStatus, "close")
  /\ UNCHANGED <<calls, indexed, versions, req, events, source, contested, reopened, failures>>

\* The UPDATE of the request, named only by its id.
Close(w) ==
  /\ job[w].pc = "close"
  /\ req' = [req EXCEPT ![job[w].request] = [@ EXCEPT !.status = "published",
       !.decided = job[w].content, !.publishedEntry = job[w].row.entry]]
  /\ job' = [job EXCEPT ![w].pc = "event"]
  /\ UNCHANGED <<calls, entry, indexed, versions, events, history>>

\* Mutant: the event repeats the status the job had read.
PreviousType(w) == IF job[w].previous = None THEN job[w].type ELSE job[w].previous

EventType(w) == job[w].type

RecordEvent(w) ==
  /\ job[w].pc = "event"
  /\ events' = events \union {[request |-> job[w].request, type |-> EventType(w),
                               previous |-> job[w].previous]}
  /\ job' = [job EXCEPT ![w] = Idle]
  /\ UNCHANGED <<calls, entry, indexed, versions, req, history>>

\* The request dies between two statements.
Crash(w) ==
  /\ job[w].pc # "idle"
  /\ failures < MaxFailures
  /\ failures' = failures + 1
  /\ job' = [job EXCEPT ![w] = Idle]
  /\ UNCHANGED <<calls, entry, indexed, versions, req, events, source, disturbed, contested, reopened>>

Next ==
  \E w \in Jobs :
    \/ \E c \in Contents : CreateDraft(w, c)
    \/ \E e \in Entries, c \in Contents : Update(w, e, c)
    \/ \E v \in versions : Rollback(w, v)
    \/ \E e \in Entries, s \in EntryStatus : SetStatus(w, e, s)
    \/ WriteEmbedding(w) \/ RecordVersion(w) \/ Reindex(w) \/ ReindexEntry(w)
    \/ \E r \in Requests, target \in Entries \union {0}, c \in Contents : Submit(w, r, target, c)
    \/ \E r \in Requests, s \in ReviewOutcome : BeginReview(w, r, s)
    \/ Review(w)
    \/ \E r \in Requests, c \in Contents : BeginPublish(w, r, c)
    \/ PublishDraft(w) \/ Activate(w) \/ Close(w) \/ RecordEvent(w)
    \/ Crash(w)

Spec == Init /\ [][Next]_vars

-----------------------------------------------------------------------------
(* Properties.                                                             *)

\* A version number names one content: however updates, rollbacks and
\* publications of an entry interleave, history rows of one version agree with
\* each other and with the entry, so a rollback restores what the number showed.
VersionNamesContent ==
  LET rows == versions \union {RowOf(e) : e \in {d \in Entries : Exists(d)}} IN
  \A v, w \in rows : v.entry = w.entry /\ v.version = w.version => v.content = w.content

\* Without a crash every state of an entry has its history row, or the job that
\* produced it is about to write one, whoever else changed the entry meanwhile.
HistoryComplete ==
  failures = 0 =>
    \A e \in Entries : Exists(e) =>
      RowOf(e) \in versions \union {job[w].row : w \in {u \in Jobs : job[u].pc \in {"embed", "record"}}}

\* The index of an entry nobody worked on together with somebody else is that of
\* its current content as soon as its last job is done.
IndexCurrent ==
  failures = 0 =>
    \A e \in Entries \ disturbed :
      Exists(e) /\ (\A w \in Jobs : ~Busy(w, e)) => indexed[e] = entry[e].content

\* The status of a change request is in its audit trail, or the job that set it is
\* about to record it, even when reviewers overtake each other.
RequestAudited ==
  failures = 0 =>
    \A r \in Requests : req[r].status # None =>
      \/ \E ev \in events : ev.request = r /\ ev.type = req[r].status
      \/ \E w \in Jobs : job[w].pc = "event" /\ job[w].request = r /\ job[w].type = req[r].status

\* What a request says was published is in the history of the entry it names, as
\* a draft with the decided content and as a live row, crashes or not.
PublishedIsBacked ==
  \A r \in Requests : req[r].publishedEntry # 0 =>
    /\ \E v \in versions : v.entry = req[r].publishedEntry /\ v.content = req[r].decided
    /\ \E v \in versions : v.entry = req[r].publishedEntry /\ v.status = "active"

\* When the request is closed as published and nobody else worked on the entry,
\* customers get the decided content.
PublicationGoesLive ==
  [][\A r \in Requests, w \in Jobs :
       /\ job[w].pc = "close" /\ job[w].request = r /\ job'[w].pc = "event"
       /\ job[w].row.entry \notin disturbed
       => /\ entry[job[w].row.entry].status = "active"
          /\ entry[job[w].row.entry].content = req'[r].decided]_vars

CreatedBy(r) == {e \in Entries : source[e] = r}

\* Without crash, competition and renewed review a change request creates at most
\* one entry.
RequestCreatesOnce ==
  failures = 0 =>
    \A r \in Requests \ (contested \union reopened) : Cardinality(CreatedBy(r)) <= 1

-----------------------------------------------------------------------------
\* Jobs, contents and requests are interchangeable: no definition tells one from another.
KnowledgeSymmetry == Permutations(Jobs) \union Permutations(Contents) \union Permutations(Requests)
=============================================================================
