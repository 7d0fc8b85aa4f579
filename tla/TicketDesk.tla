----------------------------- MODULE TicketDesk -----------------------------
(***************************************************************************)
(* One ticket worked on by several people at once: operators in the        *)
(* internal console (services/conversations.ts) and the client's own       *)
(* dashboard (services/clients.ts).  Status and owner are guarded by an    *)
(* optimistic version; every request is a few statements outside any       *)
(* transaction, so the UPDATE, its audit event and the live-learning draft *)
(* are steps that interleave and that a crash can separate.                *)
(***************************************************************************)
EXTENDS Integers, FiniteSets

CONSTANTS
  Actors,      \* people with the ticket open
  Assignees,   \* operators a ticket can be given to
  Status,      \* ticket statuses, "resolved" among them
  NoOwner,     \* the null assigneeId
  MaxVersion,  \* bound on the versions from which a write starts
  MaxClock,    \* bound on Date.now(), in milliseconds
  MaxFailures  \* bound on crashed requests

ASSUME DeskAssumption ==
  /\ NoOwner \notin Assignees
  /\ "open" \in Status /\ "resolved" \in Status
  /\ MaxVersion \in Nat /\ MaxClock \in Nat /\ MaxFailures \in Nat

VARIABLES
  row,        \* the Ticket row: version, status, assigneeId
  comments,   \* number of TicketComment rows
  events,     \* status and assignee events, keyed as their primary key is
  commentEvents, \* number of comment_added events
  drafts,     \* knowledge drafts harvested from the ticket
  actor,      \* each person's open view and the request in progress
  clock,
  lostEvents, \* history: writes whose event was never stored
  lostBumps,  \* history: comments whose version bump never happened
  failures

vars == <<row, comments, events, commentEvents, drafts, actor, clock,
          lostEvents, lostBumps, failures>>

Owner == Assignees \union {NoOwner}
Row == [version : Nat, status : Status, owner : Owner]
Kind == {"status", "client-status", "assignee"}
Event == [kind : Kind, value : Status \union Owner, at : Nat]
PC == {"idle", "reading", "viewing", "event", "harvest", "commentEvent", "commentBump"}
Person == [pc : PC, seen : Row, seenComments : Nat, kind : Kind, value : Status \union Owner]

TypeOK ==
  /\ row \in Row
  /\ comments \in Nat
  /\ events \subseteq Event
  /\ commentEvents \in Nat
  /\ drafts \in Nat
  /\ actor \in [Actors -> Person]
  /\ clock \in 0..MaxClock
  /\ lostEvents \in Nat
  /\ lostBumps \in Nat
  /\ failures \in 0..MaxFailures

\* A fresh ticket: saveTicket stores version 0 and no owner.
NewRow == [version |-> 0, status |-> "open", owner |-> NoOwner]

Init ==
  /\ row = NewRow
  /\ comments = 0
  /\ events = {}
  /\ commentEvents = 0
  /\ drafts = 0
  /\ actor = [a \in Actors |-> [pc |-> "idle", seen |-> NewRow, seenComments |-> 0,
                                kind |-> "status", value |-> "open"]]
  /\ clock = 0
  /\ lostEvents = 0
  /\ lostBumps = 0
  /\ failures = 0

-----------------------------------------------------------------------------
Goto(a, pc) == actor' = [actor EXCEPT ![a].pc = pc]
Finish(a) == actor' = [actor EXCEPT ![a].pc = "idle", ![a].kind = "status", ![a].value = "open"]

\* getTicketDetail reads the ticket first and its comments last; the page may
\* load it again at any time.
View(a) ==
  /\ actor[a].pc \in {"idle", "viewing"}
  /\ actor' = [actor EXCEPT ![a].pc = "reading", ![a].seen = row]
  /\ UNCHANGED <<row, comments, events, commentEvents, drafts, clock, lostEvents,
                 lostBumps, failures>>

ViewComments(a) ==
  /\ actor[a].pc = "reading"
  /\ actor' = [actor EXCEPT ![a].pc = "viewing", ![a].seenComments = comments]
  /\ UNCHANGED <<row, comments, events, commentEvents, drafts, clock, lostEvents,
                 lostBumps, failures>>

\* The WHERE clause: with an expectedVersion the row must still carry it.
Matches(a, checked) == checked => row.version = actor[a].seen.version

\* Mutants: the UPDATE keeps the version of the row; it counts down.
SameVersion(r) == r.version
StepsBack(r) == r.version - 1

NextVersion(r) == r.version + 1

\* No row matched: ConflictError, nothing written.
Conflict(a, checked) ==
  /\ actor[a].pc = "viewing"
  /\ ~Matches(a, checked)
  /\ Finish(a)
  /\ UNCHANGED <<row, comments, events, commentEvents, drafts, clock, lostEvents,
                 lostBumps, failures>>

\* updateTicketStatus (console) and updateClientTicketStatus (client dashboard),
\* the UPDATE statement; they differ in the event they leave and in the harvest.
UpdateStatus(a, s, kind, checked) ==
  /\ actor[a].pc = "viewing"
  /\ row.version < MaxVersion
  /\ Matches(a, checked)
  /\ row' = [row EXCEPT !.status = s, !.version = NextVersion(row)]
  /\ actor' = [actor EXCEPT ![a].pc = "event", ![a].value = s, ![a].kind = kind]
  /\ UNCHANGED <<comments, events, commentEvents, drafts, clock, lostEvents,
                 lostBumps, failures>>

\* updateTicketAssignee, the UPDATE statement.  An empty owner is an undefined
\* column, which the UPDATE leaves as it is; the event still says unassigned.
UpdateAssignee(a, x, checked) ==
  /\ actor[a].pc = "viewing"
  /\ row.version < MaxVersion
  /\ Matches(a, checked)
  /\ row' = [row EXCEPT !.owner = IF x = NoOwner THEN @ ELSE x, !.version = NextVersion(row)]
  /\ actor' = [actor EXCEPT ![a].pc = "event", ![a].value = x, ![a].kind = "assignee"]
  /\ UNCHANGED <<comments, events, commentEvents, drafts, clock, lostEvents,
                 lostBumps, failures>>

\* Mutant: the event records the status the author was looking at.
EventOfView(a) == [kind |-> actor[a].kind, value |-> actor[a].seen.status, at |-> clock]

EventOf(a) == [kind |-> actor[a].kind, value |-> actor[a].value, at |-> clock]

\* Mutant: a resolution in the dashboard is harvested too.
HarvestsAny(e) == e.value = "resolved"

\* Only updateStatus, the console's way, feeds the knowledge base.
Harvests(e) == e.kind = "status" /\ e.value = "resolved"

\* The audit event.  Its primary key holds the new value and the millisecond, so
\* a second write of the same value in the same millisecond is refused and the
\* request throws although its UPDATE stands.
InsertEvent(a) ==
  LET e == EventOf(a) IN
  /\ actor[a].pc = "event"
  /\ IF e \in events
       THEN Finish(a) /\ lostEvents' = lostEvents + 1
       ELSE /\ IF Harvests(e) THEN Goto(a, "harvest") ELSE Finish(a)
            /\ UNCHANGED lostEvents
  /\ events' = events \union {e}
  /\ UNCHANGED <<row, comments, commentEvents, drafts, clock, lostBumps, failures>>

\* Live learning after a console resolution: one more draft, or a swallowed error.
Harvest(a) ==
  /\ actor[a].pc = "harvest"
  /\ drafts' \in {drafts, drafts + 1}
  /\ Finish(a)
  /\ UNCHANGED <<row, comments, events, commentEvents, clock, lostEvents, lostBumps, failures>>

\* addTicketComment: comment row, then event, then the version bump.
InsertComment(a) ==
  /\ actor[a].pc = "viewing"
  /\ row.version < MaxVersion
  /\ comments' = comments + 1
  /\ Goto(a, "commentEvent")
  /\ UNCHANGED <<row, events, commentEvents, drafts, clock, lostEvents, lostBumps, failures>>

InsertCommentEvent(a) ==
  /\ actor[a].pc = "commentEvent"
  /\ commentEvents' = commentEvents + 1
  /\ Goto(a, "commentBump")
  /\ UNCHANGED <<row, comments, events, drafts, clock, lostEvents, lostBumps, failures>>

\* Mutant: the comment is stored without a new version.
LeavesVersion(a) ==
  /\ actor[a].pc = "commentBump"
  /\ UNCHANGED row
  /\ Finish(a)
  /\ UNCHANGED <<comments, events, commentEvents, drafts, clock, lostEvents, lostBumps, failures>>

BumpVersion(a) ==
  /\ actor[a].pc = "commentBump"
  /\ row' = [row EXCEPT !.version = NextVersion(row)]
  /\ Finish(a)
  /\ UNCHANGED <<comments, events, commentEvents, drafts, clock, lostEvents, lostBumps, failures>>

\* A request dies between two statements; nothing takes its writes back.
Crash(a) ==
  /\ actor[a].pc \in {"event", "harvest", "commentEvent", "commentBump"}
  /\ failures < MaxFailures
  /\ failures' = failures + 1
  /\ lostEvents' = IF actor[a].pc = "event" THEN lostEvents + 1 ELSE lostEvents
  /\ lostBumps' = IF actor[a].pc \in {"commentEvent", "commentBump"} THEN lostBumps + 1 ELSE lostBumps
  /\ Finish(a)
  /\ UNCHANGED <<row, comments, events, commentEvents, drafts, clock>>

Tick ==
  /\ clock < MaxClock
  /\ clock' = clock + 1
  /\ UNCHANGED <<row, comments, events, commentEvents, drafts, actor, lostEvents,
                 lostBumps, failures>>

Request(a) ==
  \/ View(a) \/ ViewComments(a)
  \/ \E checked \in BOOLEAN :
       \/ Conflict(a, checked)
       \/ \E s \in Status, kind \in {"status", "client-status"} : UpdateStatus(a, s, kind, checked)
       \/ \E x \in Owner : UpdateAssignee(a, x, checked)
  \/ InsertEvent(a) \/ Harvest(a)
  \/ InsertComment(a) \/ InsertCommentEvent(a) \/ BumpVersion(a)
  \/ Crash(a)

Next == Tick \/ \E a \in Actors : Request(a)

Spec == Init /\ [][Next]_vars

-----------------------------------------------------------------------------
(* Properties.                                                             *)

At(pcs) == Cardinality({a \in Actors : actor[a].pc \in pcs})

\* A view that still carries the row's version carries its status and owner too,
\* through any mix of checked and unchecked writes, so an accepted
\* expectedVersion never overwrites a change its author had not seen.
VersionDeterminesRow ==
  \A a \in Actors : actor[a].seen.version = row.version => actor[a].seen = row

\* Comments are the exception: addTicketComment stores the comment before it
\* bumps the version, so a view with the current version may miss comments, but
\* only ones still in flight or whose request died.
UnseenCommentsInFlight ==
  \A a \in Actors : actor[a].pc # "reading" /\ actor[a].seen.version = row.version =>
    comments - actor[a].seenComments <= At({"commentEvent", "commentBump"}) + lostBumps

\* The version counts exactly the stored events, the events in flight or lost,
\* and the comments that were bumped: no write is counted twice or escapes audit.
VersionAccounting ==
  row.version = Cardinality(events) + At({"event"}) + lostEvents
                + comments - At({"commentEvent", "commentBump"}) - lostBumps

\* With all requests finished and no event lost, the trail explains the row: its
\* status is the one of some status event, or still the initial one.
StatusIsAudited ==
  At({"event"}) = 0 /\ lostEvents = 0 /\ row.status # "open" =>
    \E e \in events : e.kind # "assignee" /\ e.value = row.status

\* The draft follows its audit event in a statement of its own, so every draft and
\* every pending harvest has a console resolution on record, and no resolution
\* feeds the knowledge base twice, not even when equal events collide.
DraftsAreEarned ==
  drafts + At({"harvest"}) <=
    Cardinality({e \in events : e.kind = "status" /\ e.value = "resolved"})
=============================================================================
