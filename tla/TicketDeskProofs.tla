-------------------------- MODULE TicketDeskProofs --------------------------
(***************************************************************************)
(* Proofs about TicketDesk for any number of people, statuses, owners and  *)
(* any bounds, and, after them, about the ticket screen of the composed    *)
(* specification for any tickets, requests and bounds.                     *)
(***************************************************************************)
EXTENDS MCTicketDesk, FiniteSetTheorems, TLAPS

\* No view is ahead of the row.  Without it a view taken from a future version
\* could meet the row again at that version with other contents.
ViewsLagBehind == \A a \in Actors : actor[a].seen.version <= row.version

\* The inductive invariant: a version, once seen, belongs to one row only.
ViewInv == TypeOK /\ ViewsLagBehind /\ VersionDeterminesRow

\* What a step may do to the row and to the views for ViewInv to survive.
ViewsKept ==
  /\ row' = row \/ row'.version = row.version + 1
  /\ \A b \in Actors :
       \/ actor'[b].seen = actor[b].seen
       \/ row' = row /\ actor'[b].seen = row

-----------------------------------------------------------------------------
LEMMA InitViewInv == Init => ViewInv
BY DeskAssumption DEF Init, ViewInv, TypeOK, ViewsLagBehind, VersionDeterminesRow,
   NewRow, Row, Owner, Event, PC, Person, Kind

LEMMA ViewsSurvive ==
  ASSUME ViewInv, ViewsKept, TypeOK'
  PROVE  ViewInv'
<1> USE DEF ViewInv, ViewsKept
<1>1. \A b \in Actors : actor[b].seen.version \in Nat /\ row.version \in Nat
  BY DEF TypeOK, Person, Row
<1>2. ViewsLagBehind'
  BY <1>1 DEF ViewsLagBehind
<1>3. VersionDeterminesRow'
  BY <1>1 DEF ViewsLagBehind, VersionDeterminesRow
<1> QED
  BY <1>2, <1>3

-----------------------------------------------------------------------------
(* Typing of the people: one lemma per way an action changes a record.     *)

People == actor \in [Actors -> Person]
SameViews == \A b \in Actors : actor'[b].seen = actor[b].seen

LEMMA GotoTyped ==
  ASSUME People, NEW a \in Actors, NEW pc \in PC, Goto(a, pc)
  PROVE  People' /\ SameViews
BY DEF People, SameViews, Goto, Person

LEMMA FinishTyped ==
  ASSUME People, NEW a \in Actors, Finish(a)
  PROVE  People' /\ SameViews
<1>1. "idle" \in PC /\ "status" \in Kind /\ "open" \in Status \union Owner
  BY DeskAssumption DEF PC, Kind
<1> QED
  BY <1>1 DEF People, SameViews, Finish, Person

LEMMA ViewTyped ==
  ASSUME People, row \in Row, NEW a \in Actors, View(a)
  PROVE  People' /\ \A b \in Actors : actor'[b].seen = actor[b].seen \/ actor'[b].seen = row
<1>1. "reading" \in PC
  BY DEF PC
<1> QED
  BY <1>1 DEF People, View, Person

LEMMA ViewCommentsTyped ==
  ASSUME People, comments \in Nat, NEW a \in Actors, ViewComments(a)
  PROVE  People' /\ SameViews
<1>1. "viewing" \in PC
  BY DEF PC
<1> QED
  BY <1>1 DEF People, SameViews, ViewComments, Person

LEMMA WriteTyped ==
  ASSUME People, NEW a \in Actors, NEW v \in Status \union Owner, NEW k \in Kind,
         actor' = [actor EXCEPT ![a].pc = "event", ![a].value = v, ![a].kind = k]
  PROVE  People' /\ SameViews
<1>1. "event" \in PC
  BY DEF PC
<1> QED
  BY <1>1 DEF People, SameViews, Person

\* The rest of TypeOK.
Rest ==
  /\ row \in Row
  /\ comments \in Nat
  /\ events \subseteq Event
  /\ commentEvents \in Nat
  /\ drafts \in Nat
  /\ clock \in 0..MaxClock
  /\ lostEvents \in Nat
  /\ lostBumps \in Nat
  /\ failures \in 0..MaxFailures

LEMMA Split == TypeOK <=> People /\ Rest
BY DEF TypeOK, People, Rest

LEMMA RowTyped ==
  ASSUME row \in Row, NEW s \in Status, NEW x \in Owner,
         row' = [version |-> NextVersion(row), status |-> s, owner |-> x]
  PROVE  row' \in Row /\ row'.version = row.version + 1
BY DEF Row, NextVersion

-----------------------------------------------------------------------------
LEMMA StepTyped ==
  ASSUME TypeOK, [Next]_vars
  PROVE  TypeOK' /\ ViewsKept
<1> DEFINE Goal == People' /\ Rest' /\ ViewsKept
<1>0. People /\ Rest
  BY Split
<1>1. ASSUME Tick PROVE Goal
  BY <1>0, <1>1, DeskAssumption DEF Tick, People, Rest, ViewsKept
<1>2. ASSUME NEW a \in Actors, View(a) PROVE Goal
  <2>1. People' /\ \A b \in Actors : actor'[b].seen = actor[b].seen \/ actor'[b].seen = row
    BY <1>0, <1>2, ViewTyped DEF Rest
  <2>2. Rest' /\ row' = row
    BY <1>0, <1>2 DEF View, Rest
  <2> QED
    BY <2>1, <2>2 DEF ViewsKept
<1>3. ASSUME NEW a \in Actors, ViewComments(a) PROVE Goal
  <2>1. People' /\ SameViews
    BY <1>0, <1>3, ViewCommentsTyped DEF Rest
  <2>2. Rest' /\ row' = row
    BY <1>0, <1>3 DEF ViewComments, Rest
  <2> QED
    BY <2>1, <2>2 DEF ViewsKept, SameViews
<1>4. ASSUME NEW a \in Actors, NEW checked \in BOOLEAN, Conflict(a, checked) PROVE Goal
  <2>1. People' /\ SameViews
    BY <1>0, <1>4, FinishTyped DEF Conflict
  <2>2. Rest' /\ row' = row
    BY <1>0, <1>4 DEF Conflict, Rest
  <2> QED
    BY <2>1, <2>2 DEF ViewsKept, SameViews
<1>5. ASSUME NEW a \in Actors, NEW s \in Status, NEW kind \in {"status", "client-status"},
             NEW checked \in BOOLEAN, UpdateStatus(a, s, kind, checked)
      PROVE Goal
  <2>1. kind \in Kind /\ s \in Status \union Owner
    BY DEF Kind
  <2>2. People' /\ SameViews
    BY <1>0, <1>5, <2>1, WriteTyped DEF UpdateStatus
  <2>3. row' \in Row /\ row'.version = row.version + 1
    <3>1. row.owner \in Owner
      BY <1>0 DEF Rest, Row
    <3>2. row' = [version |-> NextVersion(row), status |-> s, owner |-> row.owner]
      BY <1>0, <1>5 DEF UpdateStatus, Rest, Row
    <3> QED
      BY <1>0, <3>1, <3>2, RowTyped DEF Rest
  <2>4. Rest'
    BY <1>0, <1>5, <2>3 DEF UpdateStatus, Rest
  <2> QED
    BY <2>2, <2>3, <2>4 DEF ViewsKept, SameViews
<1>6. ASSUME NEW a \in Actors, NEW x \in Owner, NEW checked \in BOOLEAN,
             UpdateAssignee(a, x, checked)
      PROVE Goal
  <2>1. "assignee" \in Kind /\ x \in Status \union Owner
    BY DEF Kind
  <2>2. People' /\ SameViews
    BY <1>0, <1>6, <2>1, WriteTyped DEF UpdateAssignee
  <2>3. row' \in Row /\ row'.version = row.version + 1
    <3>1. row.owner \in Owner /\ row.status \in Status
      BY <1>0 DEF Rest, Row
    <3>2. PICK y \in Owner : y = IF x = NoOwner THEN row.owner ELSE x
      BY <3>1
    <3>3. row' = [version |-> NextVersion(row), status |-> row.status, owner |-> y]
      BY <1>0, <1>6, <3>2 DEF UpdateAssignee, Rest, Row
    <3> QED
      BY <1>0, <3>1, <3>3, RowTyped DEF Rest
  <2>4. Rest'
    BY <1>0, <1>6, <2>3 DEF UpdateAssignee, Rest
  <2> QED
    BY <2>2, <2>3, <2>4 DEF ViewsKept, SameViews
<1>7. ASSUME NEW a \in Actors, InsertEvent(a) PROVE Goal
  <2>1. "harvest" \in PC
    BY DEF PC
  <2>2. Goto(a, "harvest") \/ Finish(a)
    BY <1>7 DEF InsertEvent
  <2>3. People' /\ SameViews
    BY <1>0, <2>1, <2>2, GotoTyped, FinishTyped
  <2>4. EventOf(a) \in Event
    <3>1. clock \in Nat
      BY <1>0, DeskAssumption DEF Rest
    <3>2. actor[a].kind \in Kind /\ actor[a].value \in Status \union Owner
      BY <1>0 DEF People, Person
    <3> QED
      BY <3>1, <3>2 DEF EventOf, Event
  <2>5. lostEvents' \in Nat /\ events' \subseteq Event
    BY <1>0, <1>7, <2>4 DEF InsertEvent, Rest
  <2>6. Rest' /\ row' = row
    BY <1>0, <1>7, <2>5 DEF InsertEvent, Rest
  <2> QED
    BY <2>3, <2>6 DEF ViewsKept, SameViews
<1>8. ASSUME NEW a \in Actors, Harvest(a) PROVE Goal
  <2>1. People' /\ SameViews
    BY <1>0, <1>8, FinishTyped DEF Harvest
  <2>2. Rest' /\ row' = row
    BY <1>0, <1>8 DEF Harvest, Rest
  <2> QED
    BY <2>1, <2>2 DEF ViewsKept, SameViews
<1>9. ASSUME NEW a \in Actors, InsertComment(a) PROVE Goal
  <2>1. "commentEvent" \in PC
    BY DEF PC
  <2>2. People' /\ SameViews
    BY <1>0, <1>9, <2>1, GotoTyped DEF InsertComment
  <2>3. Rest' /\ row' = row
    BY <1>0, <1>9 DEF InsertComment, Rest
  <2> QED
    BY <2>2, <2>3 DEF ViewsKept, SameViews
<1>10. ASSUME NEW a \in Actors, InsertCommentEvent(a) PROVE Goal
  <2>1. "commentBump" \in PC
    BY DEF PC
  <2>2. People' /\ SameViews
    BY <1>0, <1>10, <2>1, GotoTyped DEF InsertCommentEvent
  <2>3. Rest' /\ row' = row
    BY <1>0, <1>10 DEF InsertCommentEvent, Rest
  <2> QED
    BY <2>2, <2>3 DEF ViewsKept, SameViews
<1>11. ASSUME NEW a \in Actors, BumpVersion(a) PROVE Goal
  <2>1. People' /\ SameViews
    BY <1>0, <1>11, FinishTyped DEF BumpVersion
  <2>2. row' \in Row /\ row'.version = row.version + 1
    <3>1. row.owner \in Owner /\ row.status \in Status
      BY <1>0 DEF Rest, Row
    <3>2. row' = [version |-> NextVersion(row), status |-> row.status, owner |-> row.owner]
      BY <1>0, <1>11 DEF BumpVersion, Rest, Row
    <3> QED
      BY <1>0, <3>1, <3>2, RowTyped DEF Rest
  <2>3. Rest'
    BY <1>0, <1>11, <2>2 DEF BumpVersion, Rest
  <2> QED
    BY <2>1, <2>2, <2>3 DEF ViewsKept, SameViews
<1>12. ASSUME NEW a \in Actors, Crash(a) PROVE Goal
  <2>1. People' /\ SameViews
    BY <1>0, <1>12, FinishTyped DEF Crash
  <2>2. failures' \in 0..MaxFailures
    BY <1>0, <1>12, DeskAssumption DEF Crash, Rest
  <2>3. lostEvents' \in Nat /\ lostBumps' \in Nat
    BY <1>0, <1>12 DEF Crash, Rest
  <2>4. Rest' /\ row' = row
    BY <1>0, <1>12, <2>2, <2>3 DEF Crash, Rest
  <2> QED
    BY <2>1, <2>4 DEF ViewsKept, SameViews
<1>13. ASSUME UNCHANGED vars PROVE Goal
  BY <1>0, <1>13 DEF vars, People, Rest, ViewsKept
<1>14. Goal
  BY <1>1, <1>2, <1>3, <1>4, <1>5, <1>6, <1>7, <1>8, <1>9, <1>10, <1>11, <1>12, <1>13
     DEF Next, Request
<1> QED
  BY <1>14, Split, PTL

-----------------------------------------------------------------------------
LEMMA StepViewInv == ViewInv /\ [Next]_vars => ViewInv'
BY StepTyped, ViewsSurvive DEF ViewInv

\* Every variable keeps its type in every reachable state: no step of the console
\* or the dashboard leaves the row, the audit trail or a request malformed.
THEOREM TypeCorrect == Spec => []TypeOK
<1>1. ViewInv => TypeOK
  BY DEF ViewInv
<1> QED
  BY InitViewInv, StepViewInv, <1>1, PTL DEF Spec

\* The optimistic lock works for any number of people and any mix of checked and
\* unchecked writes: a view with the row's version shows the row.
THEOREM NoUnseenOverwrite == Spec => []VersionDeterminesRow
<1>1. ViewInv => VersionDeterminesRow
  BY DEF ViewInv
<1> QED
  BY InitViewInv, StepViewInv, <1>1, PTL DEF Spec

-----------------------------------------------------------------------------
(* Counting.  Only people with a request under way are ever counted, and    *)
(* those are finitely many whether or not Actors is finite, so no           *)
(* assumption on Actors is needed.                                          *)

Doing(pcs) == {a \in Actors : actor[a].pc \in pcs}
Busy == {"event", "harvest", "commentEvent", "commentBump"}

\* The people counted and the events counted are finitely many.
CountsAreFinite == IsFiniteSet(Doing(Busy)) /\ IsFiniteSet(events)

\* Everyone but a stays at the same point of the same request.
OthersStay(a) ==
  \A b \in Actors \ {a} : actor'[b] = actor[b]

LEMMA DoingFinite ==
  ASSUME CountsAreFinite, NEW pcs \in SUBSET Busy
  PROVE  IsFiniteSet(Doing(pcs)) /\ At(pcs) \in Nat
<1>1. Doing(pcs) \subseteq Doing(Busy)
  BY DEF Doing
<1>2. IsFiniteSet(Doing(pcs))
  BY <1>1, FS_Subset DEF CountsAreFinite
<1> QED
  BY <1>2, FS_CardinalityType DEF At, Doing

LEMMA BusyStayFinite ==
  ASSUME CountsAreFinite, NEW a \in Actors, OthersStay(a)
  PROVE  IsFiniteSet(Doing(Busy))'
<1>1. IsFiniteSet(Doing(Busy) \union {a})
  BY FS_AddElement DEF CountsAreFinite
<1>2. Doing(Busy)' \subseteq Doing(Busy) \union {a}
  BY DEF Doing, OthersStay
<1> QED
  BY <1>1, <1>2, FS_Subset

\* What one person's move does to a count: it enters, leaves, or neither.
LEMMA CountMoves ==
  ASSUME CountsAreFinite, NEW pcs \in SUBSET Busy, NEW a \in Actors, OthersStay(a)
  PROVE  /\ At(pcs) \in Nat /\ At(pcs)' \in Nat
         /\ At(pcs)' = At(pcs) + (IF actor'[a].pc \in pcs THEN 1 ELSE 0)
                               - (IF actor[a].pc \in pcs THEN 1 ELSE 0)
<1>1. IsFiniteSet(Doing(pcs)) /\ At(pcs) \in Nat
  BY DoingFinite
<1>2. At(pcs) = Cardinality(Doing(pcs)) /\ At(pcs)' = Cardinality(Doing(pcs)')
  BY DEF At, Doing
<1>n. At(pcs)' \in Nat
  <2>1. IsFiniteSet(Doing(Busy))'
    BY BusyStayFinite
  <2>2. Doing(pcs)' \subseteq Doing(Busy)'
    BY DEF Doing
  <2> QED
    BY <1>2, <2>1, <2>2, FS_Subset, FS_CardinalityType
<1>3. CASE actor'[a].pc \in pcs /\ actor[a].pc \notin pcs
  <2>1. Doing(pcs)' = Doing(pcs) \union {a} /\ a \notin Doing(pcs)
    BY <1>3 DEF OthersStay, Doing
  <2>2. Cardinality(Doing(pcs) \union {a}) = Cardinality(Doing(pcs)) + 1
    BY <1>1, <2>1, FS_AddElement
  <2> QED
    BY <1>1, <1>2, <1>n, <1>3, <2>1, <2>2
<1>4. CASE actor'[a].pc \notin pcs /\ actor[a].pc \in pcs
  <2>1. Doing(pcs)' = Doing(pcs) \ {a} /\ a \in Doing(pcs)
    BY <1>4 DEF OthersStay, Doing
  <2>2. Cardinality(Doing(pcs) \ {a}) = Cardinality(Doing(pcs)) - 1
    BY <1>1, <2>1, FS_RemoveElement
  <2> QED
    BY <1>1, <1>2, <1>n, <1>4, <2>1, <2>2
<1>5. CASE actor'[a].pc \in pcs <=> actor[a].pc \in pcs
  <2>1. Doing(pcs)' = Doing(pcs)
    BY <1>5 DEF OthersStay, Doing
  <2> QED
    BY <1>1, <1>2, <1>n, <1>5, <2>1
<1> QED
  BY <1>1, <1>n, <1>3, <1>4, <1>5

\* A resolution in the console: what the harvest follows.
Resolutions == {e \in events : e.kind = "status" /\ e.value = "resolved"}

\* A new event adds one to the events, and one to the resolutions if it is one.
LEMMA EventAdded ==
  ASSUME IsFiniteSet(events), NEW e, e \notin events, events' = events \union {e}
  PROVE  /\ IsFiniteSet(events)'
         /\ Cardinality(events) \in Nat /\ Cardinality(events)' = Cardinality(events) + 1
         /\ Cardinality(Resolutions) \in Nat
         /\ Cardinality(Resolutions)' =
              Cardinality(Resolutions) + (IF Harvests(e) THEN 1 ELSE 0)
<1>1. IsFiniteSet(Resolutions) /\ e \notin Resolutions
  BY FS_Subset DEF Resolutions
<1>2. Resolutions' = Resolutions \union (IF Harvests(e) THEN {e} ELSE {})
  BY DEF Resolutions, Harvests
<1>3. Cardinality(Resolutions \union {e}) = Cardinality(Resolutions) + 1
  BY <1>1, FS_AddElement
<1>4. Cardinality(Resolutions) \in Nat
  BY <1>1, FS_CardinalityType
<1>5. Cardinality(Resolutions)' = Cardinality(Resolutions) + (IF Harvests(e) THEN 1 ELSE 0)
  <2>1. CASE Harvests(e)
    BY <1>2, <1>3, <2>1
  <2>2. CASE ~Harvests(e)
    <3>1. Resolutions' = Resolutions
      BY <1>2, <2>2
    <3> QED
      BY <1>4, <2>2, <3>1
  <2> QED
    BY <2>1, <2>2
<1>6. IsFiniteSet(events)' /\ Cardinality(events') = Cardinality(events) + 1
  BY FS_AddElement
<1> QED
  BY <1>4, <1>5, <1>6, FS_CardinalityType

-----------------------------------------------------------------------------
(* The books of a ticket: version, audit trail, drafts and comments.       *)

\* Where the status of the row comes from: an event on record, one still to be
\* stored, or one that was lost.  StatusIsAudited alone says nothing while a
\* request is under way, so it is not inductive.
StatusTraced ==
  \/ row.status = "open" \/ lostEvents > 0
  \/ \E e \in events : e.kind # "assignee" /\ e.value = row.status
  \/ \E a \in Actors : /\ actor[a].pc = "event" /\ actor[a].kind # "assignee"
                       /\ actor[a].value = row.status

Books == VersionAccounting /\ DraftsAreEarned /\ UnseenCommentsInFlight /\ StatusTraced
BooksInv == ViewInv /\ CountsAreFinite /\ Books

\* The counts the books are made of.
Unaudited == At({"event"})
Harvesting == At({"harvest"})
Unbumped == At({"commentEvent", "commentBump"})

\* The counts after a step of a, from the points before and after it.
Counted(a) ==
  /\ Unaudited \in Nat /\ Harvesting \in Nat /\ Unbumped \in Nat /\ Unbumped' \in Nat
  /\ Unaudited' = Unaudited + (IF actor'[a].pc = "event" THEN 1 ELSE 0)
                            - (IF actor[a].pc = "event" THEN 1 ELSE 0)
  /\ Harvesting' = Harvesting + (IF actor'[a].pc = "harvest" THEN 1 ELSE 0)
                              - (IF actor[a].pc = "harvest" THEN 1 ELSE 0)
  /\ Unbumped' = Unbumped + (IF actor'[a].pc \in {"commentEvent", "commentBump"} THEN 1 ELSE 0)
                          - (IF actor[a].pc \in {"commentEvent", "commentBump"} THEN 1 ELSE 0)

LEMMA CountedAfter ==
  ASSUME CountsAreFinite, NEW a \in Actors, OthersStay(a)
  PROVE  Counted(a) /\ IsFiniteSet(Doing(Busy))'
<1>1. {"event"} \in SUBSET Busy /\ {"harvest"} \in SUBSET Busy
      /\ {"commentEvent", "commentBump"} \in SUBSET Busy
  BY DEF Busy
<1>2. /\ Unaudited \in Nat /\ Unaudited' \in Nat
      /\ Unaudited' = Unaudited + (IF actor'[a].pc = "event" THEN 1 ELSE 0)
                                - (IF actor[a].pc = "event" THEN 1 ELSE 0)
  BY <1>1, CountMoves DEF Unaudited
<1>3. /\ Harvesting \in Nat /\ Harvesting' \in Nat
      /\ Harvesting' = Harvesting + (IF actor'[a].pc = "harvest" THEN 1 ELSE 0)
                                  - (IF actor[a].pc = "harvest" THEN 1 ELSE 0)
  BY <1>1, CountMoves DEF Harvesting
<1>4. /\ Unbumped \in Nat /\ Unbumped' \in Nat
      /\ Unbumped' = Unbumped + (IF actor'[a].pc \in {"commentEvent", "commentBump"} THEN 1 ELSE 0)
                              - (IF actor[a].pc \in {"commentEvent", "commentBump"} THEN 1 ELSE 0)
  BY <1>1, CountMoves DEF Unbumped
<1> QED
  BY <1>2, <1>3, <1>4, BusyStayFinite DEF Counted

\* What Goto and Finish do to the person who moves, and to nobody else.
LEMMA Moves ==
  ASSUME People, NEW a \in Actors
  PROVE  /\ \A pc : Goto(a, pc) => /\ OthersStay(a) /\ actor'[a].pc = pc
                                   /\ actor'[a].seen = actor[a].seen
                                   /\ actor'[a].seenComments = actor[a].seenComments
         /\ Finish(a) => /\ OthersStay(a) /\ actor'[a].pc = "idle"
                         /\ actor'[a].seen = actor[a].seen
                         /\ actor'[a].seenComments = actor[a].seenComments
BY DEF People, Person, Goto, Finish, OthersStay

\* The version, as a sum of the counts.
LEMMA Sums ==
  /\ VersionAccounting <=> row.version = Cardinality(events) + Unaudited + lostEvents
                                         + comments - Unbumped - lostBumps
  /\ DraftsAreEarned <=> drafts + Harvesting <= Cardinality(Resolutions)
BY DEF VersionAccounting, DraftsAreEarned, Unaudited, Unbumped, Harvesting, Resolutions

LEMMA NoMoreUnseen ==
  ASSUME NEW c \in Nat, NEW u \in Nat, NEW l \in Nat, NEW c2 \in Nat, NEW u2 \in Nat, NEW l2 \in Nat,
         NEW n \in Nat, c2 - u2 - l2 <= c - u - l, c - n <= u + l
  PROVE  c2 - n <= u2 + l2
OBVIOUS

\* A bump that is lost is in flight no longer.
LEMMA BumpLost ==
  ASSUME NEW c \in Int, NEW u \in Int, NEW l \in Int, NEW u2 \in Int, NEW l2 \in Int, l2 - l = u - u2
  PROVE  c - u2 - l2 <= c - u - l
OBVIOUS

\* Comments stay explained when the version moves on, since no view has it yet;
\* and otherwise when no comment is stored but the ones in flight.
LEMMA UnseenKept ==
  ASSUME ViewInv, TypeOK', UnseenCommentsInFlight, Unbumped \in Nat, Unbumped' \in Nat,
         \/ /\ row'.version = row.version + 1
            /\ SameViews
         \/ /\ row' = row
            /\ comments' - Unbumped' - lostBumps' <= comments - Unbumped - lostBumps
            /\ \A b \in Actors :
                 \/ actor'[b].pc = "reading"
                 \/ actor'[b].seenComments = comments'
                 \/ /\ actor[b].pc # "reading" /\ actor'[b].seen = actor[b].seen
                    /\ actor'[b].seenComments = actor[b].seenComments
  PROVE  UnseenCommentsInFlight'
<1>0. /\ comments \in Nat /\ lostBumps \in Nat /\ comments' \in Nat /\ lostBumps' \in Nat
      /\ row.version \in Nat
      /\ \A b \in Actors : /\ actor[b].seenComments \in Nat /\ actor'[b].seenComments \in Nat
                           /\ actor[b].seen.version \in Nat /\ actor[b].seen.version <= row.version
  BY DEF ViewInv, TypeOK, Person, Row, ViewsLagBehind
<1>1. SUFFICES ASSUME NEW b \in Actors, actor'[b].pc # "reading",
                      actor'[b].seen.version = row'.version
               PROVE  comments' - actor'[b].seenComments <= Unbumped' + lostBumps'
  BY DEF UnseenCommentsInFlight, Unbumped
<1>2. actor[b].pc # "reading" /\ actor[b].seen.version = row.version =>
        comments - actor[b].seenComments <= Unbumped + lostBumps
  BY DEF UnseenCommentsInFlight, Unbumped
<1>3. CASE row'.version = row.version + 1 /\ SameViews
  BY <1>0, <1>1, <1>3 DEF SameViews
<1>4. CASE /\ row' = row
           /\ comments' - Unbumped' - lostBumps' <= comments - Unbumped - lostBumps
           /\ \A c \in Actors :
                \/ actor'[c].pc = "reading"
                \/ actor'[c].seenComments = comments'
                \/ /\ actor[c].pc # "reading" /\ actor'[c].seen = actor[c].seen
                   /\ actor'[c].seenComments = actor[c].seenComments
  <2>1. CASE actor'[b].seenComments = comments'
    BY <1>0, <2>1
  <2>2. CASE /\ actor[b].pc # "reading" /\ actor'[b].seen = actor[b].seen
             /\ actor'[b].seenComments = actor[b].seenComments
    <3>1. comments - actor[b].seenComments <= Unbumped + lostBumps
      BY <1>1, <1>2, <1>4, <2>2
    <3>2. actor'[b].seenComments = actor[b].seenComments /\ actor[b].seenComments \in Nat
      BY <1>0, <2>2
    <3>3. /\ comments \in Nat /\ lostBumps \in Nat /\ comments' \in Nat /\ lostBumps' \in Nat
          /\ Unbumped \in Nat /\ Unbumped' \in Nat
          /\ comments' - Unbumped' - lostBumps' <= comments - Unbumped - lostBumps
      BY <1>0, <1>4
    <3>4. comments' - actor[b].seenComments <= Unbumped' + lostBumps'
      BY ONLY <3>1, <3>2, <3>3, NoMoreUnseen
    <3> QED
      BY ONLY <3>2, <3>4
  <2> QED
    BY <1>1, <1>4, <2>1, <2>2
<1> QED
  BY <1>3, <1>4

\* A status stays traced when the request that wrote it stores its event or dies.
LEMMA TraceKept ==
  ASSUME StatusTraced, lostEvents \in Nat, lostEvents' \in Nat, lostEvents <= lostEvents',
         NEW a \in Actors, OthersStay(a),
         row'.status = row.status, events \subseteq events',
         actor[a].pc = "event" => EventOf(a) \in events' \/ lostEvents' > 0
  PROVE  StatusTraced'
<1>1. CASE row.status = "open" \/ lostEvents > 0
  BY <1>1 DEF StatusTraced
<1>2. CASE \E e \in events : e.kind # "assignee" /\ e.value = row.status
  BY <1>2 DEF StatusTraced
<1>3. ASSUME NEW b \in Actors, actor[b].pc = "event", actor[b].kind # "assignee",
             actor[b].value = row.status
      PROVE  StatusTraced'
  <2>1. CASE b = a
    <3>1. EventOf(a).kind # "assignee" /\ EventOf(a).value = row.status
      BY <1>3, <2>1 DEF EventOf
    <3> QED
      BY <1>3, <2>1, <3>1 DEF StatusTraced
  <2>2. CASE b # a
    BY <1>3, <2>2 DEF StatusTraced, OthersStay
  <2> QED
    BY <2>1, <2>2
<1> QED
  BY <1>1, <1>2, <1>3 DEF StatusTraced

LEMMA UnseenMoved ==
  ASSUME ViewInv, TypeOK', UnseenCommentsInFlight,
         NEW a \in Actors, OthersStay(a), Counted(a), actor[a].pc # "reading",
         actor'[a].seen = actor[a].seen, actor'[a].seenComments = actor[a].seenComments,
         \/ row'.version = row.version + 1
         \/ /\ row' = row
            /\ comments' - Unbumped' - lostBumps' <= comments - Unbumped - lostBumps
  PROVE  UnseenCommentsInFlight'
<1>1. SameViews
  BY DEF SameViews, OthersStay
<1>2. \A b \in Actors : \/ actor[b].pc # "reading" /\ actor'[b].seen = actor[b].seen
                           /\ actor'[b].seenComments = actor[b].seenComments
                        \/ actor'[b].pc = "reading"
  BY DEF OthersStay
<1>3. Unbumped \in Nat /\ Unbumped' \in Nat
  BY DEF Counted
<1> QED
  BY <1>1, <1>2, <1>3, UnseenKept

-----------------------------------------------------------------------------
LEMMA InitBooks == Init => CountsAreFinite /\ Books
<1> SUFFICES ASSUME Init PROVE CountsAreFinite /\ Books
  OBVIOUS
<1>1. \A pcs : "idle" \notin pcs => Doing(pcs) = {}
  BY DEF Init, Doing
<1>2. Doing(Busy) = {} /\ Doing({"event"}) = {} /\ Doing({"harvest"}) = {}
      /\ Doing({"commentEvent", "commentBump"}) = {}
  BY <1>1 DEF Busy
<1>3. events = {} /\ Resolutions = {}
  BY DEF Init, Resolutions
<1>4. CountsAreFinite /\ Unaudited = 0 /\ Harvesting = 0 /\ Unbumped = 0
      /\ Cardinality(events) = 0 /\ Cardinality(Resolutions) = 0
  BY <1>2, <1>3, FS_EmptySet DEF CountsAreFinite, Unaudited, Harvesting, Unbumped, At, Doing
<1>5. VersionAccounting /\ DraftsAreEarned
  BY <1>4, Sums DEF Init, NewRow
<1>6. UnseenCommentsInFlight
  <2>1. comments = 0 /\ lostBumps = 0 /\ \A a \in Actors : actor[a].seenComments = 0
    BY DEF Init
  <2> QED
    BY <1>4, <2>1 DEF UnseenCommentsInFlight, Unbumped
<1>7. StatusTraced
  BY DEF StatusTraced, Init, NewRow
<1> QED
  BY <1>4, <1>5, <1>6, <1>7 DEF Books

-----------------------------------------------------------------------------
(* Every step keeps the books: one step of the proof per action.           *)

LEMMA StepBooks ==
  ASSUME BooksInv, TypeOK', [Next]_vars
  PROVE  CountsAreFinite' /\ Books'
<1> DEFINE Goal == CountsAreFinite' /\ Books'
<1>0. /\ People /\ ViewInv /\ CountsAreFinite /\ StatusTraced /\ UnseenCommentsInFlight
      /\ IsFiniteSet(events)
      /\ comments \in Nat /\ lostEvents \in Nat /\ lostBumps \in Nat /\ drafts \in Nat
      /\ lostEvents' \in Nat /\ row.version \in Nat /\ row \in Row
      /\ Cardinality(events) \in Nat /\ Cardinality(Resolutions) \in Nat
  <2>1. IsFiniteSet(Resolutions)
    BY FS_Subset DEF BooksInv, CountsAreFinite, Resolutions
  <2> QED
    BY <2>1, Split, FS_CardinalityType DEF BooksInv, ViewInv, Books, CountsAreFinite, TypeOK, Row
<1>s. /\ row.version = Cardinality(events) + Unaudited + lostEvents + comments - Unbumped - lostBumps
      /\ drafts + Harvesting <= Cardinality(Resolutions)
  BY Sums DEF BooksInv, Books
\* The books balance if the numbers in them do.
<1>b. ASSUME /\ row'.version = Cardinality(events)' + Unaudited' + lostEvents' + comments'
                               - Unbumped' - lostBumps'
             /\ drafts' + Harvesting' <= Cardinality(Resolutions)'
             /\ IsFiniteSet(events)' /\ IsFiniteSet(Doing(Busy))'
             /\ UnseenCommentsInFlight' /\ StatusTraced'
      PROVE  Goal
  <2>1. VersionAccounting' /\ DraftsAreEarned'
    BY <1>b DEF VersionAccounting, DraftsAreEarned, Unaudited, Unbumped, Harvesting, Resolutions
  <2> QED
    BY <1>b, <2>1 DEF Books, CountsAreFinite
\* A step that moves a person with nothing to account for.
<1>q. ASSUME NEW a \in Actors, OthersStay(a), actor[a].pc \notin Busy, actor'[a].pc \notin Busy,
             UNCHANGED <<row, comments, events, drafts, lostEvents, lostBumps>>,
             UnseenCommentsInFlight'
      PROVE  Goal
  <2>1. Counted(a) /\ IsFiniteSet(Doing(Busy))'
    BY <1>0, <1>q, CountedAfter
  <2>2. Unaudited' = Unaudited /\ Harvesting' = Harvesting /\ Unbumped' = Unbumped
    BY <1>q, <2>1 DEF Counted, Busy
  <2>3. StatusTraced'
    BY <1>0, <1>q, TraceKept DEF Busy
  <2>4. IsFiniteSet(events)' /\ events' = events /\ Resolutions' = Resolutions
    BY <1>0, <1>q DEF CountsAreFinite, Resolutions
  <2> QED
    BY <1>0, <1>s, <1>q, <1>b, <2>1, <2>2, <2>3, <2>4
<1>1. ASSUME Tick PROVE Goal
  <2>1. UNCHANGED <<row, comments, events, drafts, actor, lostEvents, lostBumps>>
    BY <1>1 DEF Tick
  <2> QED
    BY <1>0, <2>1 DEF BooksInv, CountsAreFinite, Books, VersionAccounting, DraftsAreEarned,
       UnseenCommentsInFlight, StatusTraced, At, Doing
<1>2. ASSUME NEW a \in Actors, View(a) PROVE Goal
  <2>1. OthersStay(a) /\ actor'[a].pc = "reading" /\ actor[a].pc \in {"idle", "viewing"}
    BY <1>0, <1>2 DEF View, OthersStay, People, Person
  <2>2. UNCHANGED <<row, comments, events, drafts, lostEvents, lostBumps>>
    BY <1>2 DEF View
  <2>3. Unbumped \in Nat /\ Unbumped' = Unbumped
    BY <1>0, <2>1, CountedAfter DEF Counted
  <2>4. UnseenCommentsInFlight'
    <3>1. \A b \in Actors : \/ actor'[b].pc = "reading"
                            \/ /\ actor'[b].seen = actor[b].seen /\ actor[b].pc = actor'[b].pc
                               /\ actor'[b].seenComments = actor[b].seenComments
      BY <2>1 DEF OthersStay
    <3> QED
      BY <1>0, <2>2, <2>3, <3>1, UnseenKept
  <2> QED
    BY <1>q, <2>1, <2>2, <2>4 DEF Busy
<1>3. ASSUME NEW a \in Actors, ViewComments(a) PROVE Goal
  <2>1. /\ OthersStay(a) /\ actor'[a].pc = "viewing" /\ actor[a].pc = "reading"
        /\ actor'[a].seenComments = comments
    BY <1>0, <1>3 DEF ViewComments, OthersStay, People, Person
  <2>2. UNCHANGED <<row, comments, events, drafts, lostEvents, lostBumps>>
    BY <1>3 DEF ViewComments
  <2>3. Unbumped \in Nat /\ Unbumped' = Unbumped
    BY <1>0, <2>1, CountedAfter DEF Counted
  <2>4. UnseenCommentsInFlight'
    <3>1. \A b \in Actors : \/ actor'[b].seenComments = comments'
                            \/ actor'[b].pc = "reading"
                            \/ /\ actor'[b].seen = actor[b].seen /\ actor[b].pc # "reading"
                               /\ actor'[b].seenComments = actor[b].seenComments
      BY <2>1, <2>2 DEF OthersStay
    <3> QED
      BY <1>0, <2>2, <2>3, <3>1, UnseenKept
  <2> QED
    BY <1>q, <2>1, <2>2, <2>4 DEF Busy
<1>4. ASSUME NEW a \in Actors, NEW checked \in BOOLEAN, Conflict(a, checked) PROVE Goal
  <2>1. /\ OthersStay(a) /\ actor'[a].pc = "idle" /\ actor[a].pc = "viewing"
        /\ actor'[a].seen = actor[a].seen /\ actor'[a].seenComments = actor[a].seenComments
    BY <1>0, <1>4, Moves DEF Conflict
  <2>2. UNCHANGED <<row, comments, events, drafts, lostEvents, lostBumps>>
    BY <1>4 DEF Conflict
  <2>3. Counted(a) /\ Unbumped \in Nat /\ Unbumped' = Unbumped
    BY <1>0, <2>1, CountedAfter DEF Counted
  <2>4. UnseenCommentsInFlight'
    BY <1>0, <2>1, <2>2, <2>3, UnseenMoved
  <2> QED
    BY <1>q, <2>1, <2>2, <2>4 DEF Busy
\* An UPDATE of the row: a new version, and an event still to be stored.
<1>w. ASSUME NEW a \in Actors, OthersStay(a), actor[a].pc = "viewing", actor'[a].pc = "event",
             actor'[a].seen = actor[a].seen, actor'[a].seenComments = actor[a].seenComments,
             row'.version = row.version + 1,
             UNCHANGED <<comments, events, drafts, lostEvents, lostBumps>>, StatusTraced'
      PROVE  Goal
  <2>1. Counted(a) /\ IsFiniteSet(Doing(Busy))'
    BY <1>0, <1>w, CountedAfter
  <2>2. Unaudited' = Unaudited + 1 /\ Harvesting' = Harvesting /\ Unbumped' = Unbumped
    BY <1>w, <2>1 DEF Counted
  <2>3. UnseenCommentsInFlight'
    BY <1>0, <1>w, <2>1, UnseenMoved
  <2>4. IsFiniteSet(events)' /\ events' = events /\ Resolutions' = Resolutions
    BY <1>0, <1>w DEF Resolutions
  <2>5. Unaudited \in Nat /\ Unbumped \in Nat
    BY <2>1 DEF Counted
  <2> QED
    BY <1>0, <1>s, <1>w, <1>b, <2>1, <2>2, <2>3, <2>4, <2>5
<1>5. ASSUME NEW a \in Actors, NEW s \in Status, NEW kind \in {"status", "client-status"},
             NEW checked \in BOOLEAN, UpdateStatus(a, s, kind, checked)
      PROVE Goal
  <2>1. /\ OthersStay(a) /\ actor[a].pc = "viewing" /\ actor'[a].pc = "event"
        /\ actor'[a].value = s /\ actor'[a].kind = kind
        /\ actor'[a].seen = actor[a].seen /\ actor'[a].seenComments = actor[a].seenComments
    BY <1>0, <1>5 DEF UpdateStatus, OthersStay, People, Person
  <2>2. row'.version = row.version + 1 /\ row'.status = s
    BY <1>0, <1>5 DEF UpdateStatus, NextVersion, Row
  <2>3. UNCHANGED <<comments, events, drafts, lostEvents, lostBumps>>
    BY <1>5 DEF UpdateStatus
  <2>4. StatusTraced'
    BY <2>1, <2>2 DEF StatusTraced
  <2> QED
    BY <1>w, <2>1, <2>2, <2>3, <2>4
<1>6. ASSUME NEW a \in Actors, NEW x \in Owner, NEW checked \in BOOLEAN,
             UpdateAssignee(a, x, checked)
      PROVE Goal
  <2>1. /\ OthersStay(a) /\ actor[a].pc = "viewing" /\ actor'[a].pc = "event"
        /\ actor'[a].seen = actor[a].seen /\ actor'[a].seenComments = actor[a].seenComments
    BY <1>0, <1>6 DEF UpdateAssignee, OthersStay, People, Person
  <2>2. row'.version = row.version + 1 /\ row'.status = row.status
    BY <1>0, <1>6 DEF UpdateAssignee, NextVersion, Row
  <2>3. UNCHANGED <<comments, events, drafts, lostEvents, lostBumps>>
    BY <1>6 DEF UpdateAssignee
  <2>4. StatusTraced'
    BY <1>0, <2>1, <2>2, <2>3, TraceKept
  <2> QED
    BY <1>w, <2>1, <2>2, <2>3, <2>4
<1>7. ASSUME NEW a \in Actors, InsertEvent(a) PROVE Goal
  <2>1. /\ OthersStay(a) /\ actor[a].pc = "event"
        /\ actor'[a].pc = IF EventOf(a) \notin events /\ Harvests(EventOf(a)) THEN "harvest" ELSE "idle"
        /\ actor'[a].seen = actor[a].seen /\ actor'[a].seenComments = actor[a].seenComments
    BY <1>0, <1>7, Moves DEF InsertEvent
  <2>2. UNCHANGED <<row, comments, drafts, lostBumps>> /\ events' = events \union {EventOf(a)}
    BY <1>7 DEF InsertEvent
  <2>3. Counted(a) /\ IsFiniteSet(Doing(Busy))'
    BY <1>0, <2>1, CountedAfter
  <2>4. Unaudited' = Unaudited - 1 /\ Unbumped' = Unbumped /\ Unaudited \in Nat /\ Unbumped \in Nat
        /\ Harvesting \in Nat
    BY <2>1, <2>3 DEF Counted
  <2>5. UnseenCommentsInFlight'
    BY <1>0, <2>1, <2>2, <2>3, <2>4, UnseenMoved
  <2>6. lostEvents' >= lostEvents
    BY <1>0, <1>7 DEF InsertEvent
  <2>7. StatusTraced'
    BY <1>0, <2>1, <2>2, <2>6, TraceKept
  <2>8. CASE EventOf(a) \in events
    <3>1. IsFiniteSet(events)' /\ events' = events /\ Resolutions' = Resolutions
          /\ lostEvents' = lostEvents + 1
      BY <1>0, <1>7, <2>2, <2>8 DEF InsertEvent, Resolutions
    <3>2. Harvesting' = Harvesting
      BY <2>1, <2>3, <2>8 DEF Counted
    <3>3. /\ row' = row /\ comments' = comments /\ lostBumps' = lostBumps
          /\ Cardinality(events)' = Cardinality(events)
      BY <2>2, <3>1
    <3>4. row'.version = Cardinality(events)' + Unaudited' + lostEvents' + comments'
                         - Unbumped' - lostBumps'
      BY ONLY <1>0, <1>s, <2>4, <3>1, <3>3
    <3>5. drafts' + Harvesting' <= Cardinality(Resolutions)'
      BY <1>0, <1>s, <2>2, <2>4, <3>1, <3>2
    <3> QED
      BY <1>b, <2>3, <2>5, <2>7, <3>1, <3>4, <3>5
  <2>9. CASE EventOf(a) \notin events
    <3>1. lostEvents' = lostEvents
      BY <1>7, <2>9 DEF InsertEvent
    <3>2. Harvesting' = Harvesting + (IF Harvests(EventOf(a)) THEN 1 ELSE 0)
      BY <2>1, <2>3, <2>9 DEF Counted
    <3>3. /\ IsFiniteSet(events)' /\ Cardinality(events)' = Cardinality(events) + 1
          /\ Cardinality(Resolutions)' =
               Cardinality(Resolutions) + (IF Harvests(EventOf(a)) THEN 1 ELSE 0)
      BY <1>0, <2>2, <2>9, EventAdded
    <3> HIDE DEF Goal
    <3> QED
      BY <1>0, <1>s, <1>b, <2>2, <2>3, <2>4, <2>5, <2>7, <3>1, <3>2, <3>3
  <2> QED
    BY <2>8, <2>9
<1>8. ASSUME NEW a \in Actors, Harvest(a) PROVE Goal
  <2>1. /\ OthersStay(a) /\ actor[a].pc = "harvest" /\ actor'[a].pc = "idle"
        /\ actor'[a].seen = actor[a].seen /\ actor'[a].seenComments = actor[a].seenComments
    BY <1>0, <1>8, Moves DEF Harvest
  <2>2. UNCHANGED <<row, comments, events, lostEvents, lostBumps>> /\ drafts' \in {drafts, drafts + 1}
    BY <1>8 DEF Harvest
  <2>3. Counted(a) /\ IsFiniteSet(Doing(Busy))'
    BY <1>0, <2>1, CountedAfter
  <2>4. Unaudited' = Unaudited /\ Unbumped' = Unbumped /\ Harvesting' = Harvesting - 1
        /\ Unbumped \in Nat /\ Harvesting \in Nat
    BY <2>1, <2>3 DEF Counted
  <2>5. UnseenCommentsInFlight'
    BY <1>0, <2>1, <2>2, <2>3, <2>4, UnseenMoved
  <2>6. StatusTraced'
    BY <1>0, <2>1, <2>2, TraceKept
  <2>7. IsFiniteSet(events)' /\ events' = events /\ Resolutions' = Resolutions
    BY <1>0, <2>2 DEF Resolutions
  <2>8. drafts' + Harvesting' <= Cardinality(Resolutions)
    BY <1>0, <1>s, <2>2, <2>4
  <2> QED
    BY <1>0, <1>s, <1>b, <2>2, <2>3, <2>4, <2>5, <2>6, <2>7, <2>8
<1>9. ASSUME NEW a \in Actors, InsertComment(a) PROVE Goal
  <2>1. /\ OthersStay(a) /\ actor[a].pc = "viewing" /\ actor'[a].pc = "commentEvent"
        /\ actor'[a].seen = actor[a].seen /\ actor'[a].seenComments = actor[a].seenComments
    BY <1>0, <1>9, Moves DEF InsertComment
  <2>2. UNCHANGED <<row, events, drafts, lostEvents, lostBumps>> /\ comments' = comments + 1
    BY <1>9 DEF InsertComment
  <2>3. Counted(a) /\ IsFiniteSet(Doing(Busy))'
    BY <1>0, <2>1, CountedAfter
  <2>4. Unaudited' = Unaudited /\ Unbumped' = Unbumped + 1 /\ Harvesting' = Harvesting
        /\ Unaudited \in Nat /\ Unbumped \in Nat
    BY <2>1, <2>3 DEF Counted
  <2>5. UnseenCommentsInFlight'
    BY <1>0, <2>1, <2>2, <2>3, <2>4, UnseenMoved
  <2>6. StatusTraced'
    BY <1>0, <2>1, <2>2, TraceKept
  <2>7. IsFiniteSet(events)' /\ events' = events /\ Resolutions' = Resolutions
    BY <1>0, <2>2 DEF Resolutions
  <2> QED
    BY <1>0, <1>s, <1>b, <2>2, <2>3, <2>4, <2>5, <2>6, <2>7
<1>10. ASSUME NEW a \in Actors, InsertCommentEvent(a) PROVE Goal
  <2>1. /\ OthersStay(a) /\ actor[a].pc = "commentEvent" /\ actor'[a].pc = "commentBump"
        /\ actor'[a].seen = actor[a].seen /\ actor'[a].seenComments = actor[a].seenComments
    BY <1>0, <1>10, Moves DEF InsertCommentEvent
  <2>2. UNCHANGED <<row, comments, events, drafts, lostEvents, lostBumps>>
    BY <1>10 DEF InsertCommentEvent
  <2>3. Counted(a) /\ IsFiniteSet(Doing(Busy))'
    BY <1>0, <2>1, CountedAfter
  <2>4. Unaudited' = Unaudited /\ Unbumped' = Unbumped /\ Harvesting' = Harvesting
        /\ Unaudited \in Nat /\ Unbumped \in Nat
    BY <2>1, <2>3 DEF Counted
  <2>5. UnseenCommentsInFlight'
    BY <1>0, <2>1, <2>2, <2>3, <2>4, UnseenMoved
  <2>6. StatusTraced'
    BY <1>0, <2>1, <2>2, TraceKept
  <2>7. IsFiniteSet(events)' /\ events' = events /\ Resolutions' = Resolutions
    BY <1>0, <2>2 DEF Resolutions
  <2> QED
    BY <1>0, <1>s, <1>b, <2>2, <2>3, <2>4, <2>5, <2>6, <2>7
<1>11. ASSUME NEW a \in Actors, BumpVersion(a) PROVE Goal
  <2>1. /\ OthersStay(a) /\ actor[a].pc = "commentBump" /\ actor'[a].pc = "idle"
        /\ actor'[a].seen = actor[a].seen /\ actor'[a].seenComments = actor[a].seenComments
    BY <1>0, <1>11, Moves DEF BumpVersion
  <2>2. UNCHANGED <<comments, events, drafts, lostEvents, lostBumps>>
        /\ row'.version = row.version + 1 /\ row'.status = row.status
    BY <1>0, <1>11 DEF BumpVersion, NextVersion, Row
  <2>3. Counted(a) /\ IsFiniteSet(Doing(Busy))'
    BY <1>0, <2>1, CountedAfter
  <2>4. Unaudited' = Unaudited /\ Unbumped' = Unbumped - 1 /\ Harvesting' = Harvesting
        /\ Unaudited \in Nat /\ Unbumped \in Nat
    BY <2>1, <2>3 DEF Counted
  <2>5. UnseenCommentsInFlight'
    BY <1>0, <2>1, <2>2, <2>3, UnseenMoved
  <2>6. StatusTraced'
    BY <1>0, <2>1, <2>2, TraceKept
  <2>7. IsFiniteSet(events)' /\ events' = events /\ Resolutions' = Resolutions
    BY <1>0, <2>2 DEF Resolutions
  <2> QED
    BY <1>0, <1>s, <1>b, <2>2, <2>3, <2>4, <2>5, <2>6, <2>7
<1>12. ASSUME NEW a \in Actors, Crash(a) PROVE Goal
  <2>1. /\ OthersStay(a) /\ actor[a].pc # "reading" /\ actor'[a].pc = "idle"
        /\ actor'[a].seen = actor[a].seen /\ actor'[a].seenComments = actor[a].seenComments
    BY <1>0, <1>12, Moves DEF Crash, Busy
  <2>2. UNCHANGED <<row, comments, events, drafts>>
    BY <1>12 DEF Crash
  <2>3. Counted(a) /\ IsFiniteSet(Doing(Busy))'
    BY <1>0, <2>1, CountedAfter
  <2>4. /\ lostEvents' - lostEvents = Unaudited - Unaudited' /\ lostEvents <= lostEvents'
        /\ lostBumps' - lostBumps = Unbumped - Unbumped' /\ Harvesting' <= Harvesting
        /\ lostBumps' \in Nat /\ Harvesting \in Nat /\ Harvesting' \in Int
        /\ Unaudited \in Nat /\ Unaudited' \in Int /\ Unbumped \in Nat /\ Unbumped' \in Int
    BY <1>0, <1>12, <2>1, <2>3 DEF Counted, Crash, Busy
  <2>5. UnseenCommentsInFlight'
    <3>1. row' = row /\ comments' = comments
      BY <2>2
    <3>2. /\ comments \in Int /\ lostBumps \in Int /\ lostBumps' \in Int
          /\ Unbumped \in Int /\ Unbumped' \in Int
      BY <1>0, <2>4
    <3>3. lostBumps' - lostBumps = Unbumped - Unbumped'
      BY <2>4
    <3>4. comments - Unbumped' - lostBumps' <= comments - Unbumped - lostBumps
      BY ONLY <3>2, <3>3, BumpLost
    <3>5. comments' - Unbumped' - lostBumps' <= comments - Unbumped - lostBumps
      BY ONLY <3>1, <3>4
    <3> QED
      BY <1>0, <2>1, <2>3, <3>1, <3>5, UnseenMoved
  <2>6. StatusTraced'
    <3>1. actor[a].pc = "event" => lostEvents' > 0
      BY <1>0, <1>12 DEF Crash
    <3> QED
      BY <1>0, <2>1, <2>2, <2>4, <3>1, TraceKept
  <2>7. IsFiniteSet(events)' /\ events' = events /\ Resolutions' = Resolutions
    BY <1>0, <2>2 DEF Resolutions
  <2>8. drafts' + Harvesting' <= Cardinality(Resolutions)
    BY <1>0, <1>s, <2>2, <2>4
  <2> QED
    BY <1>0, <1>s, <1>b, <2>2, <2>3, <2>4, <2>5, <2>6, <2>7, <2>8
<1>13. ASSUME UNCHANGED vars PROVE Goal
  BY <1>0, <1>13 DEF vars, BooksInv, CountsAreFinite, Books, VersionAccounting, DraftsAreEarned,
     UnseenCommentsInFlight, StatusTraced, At, Doing
<1> QED
  BY <1>1, <1>2, <1>3, <1>4, <1>5, <1>6, <1>7, <1>8, <1>9, <1>10, <1>11, <1>12, <1>13
     DEF Next, Request

LEMMA InitBooksInv == Init => BooksInv
BY InitViewInv, InitBooks DEF BooksInv

LEMMA StepBooksInv == BooksInv /\ [Next]_vars => BooksInv'
BY StepViewInv, StepTyped, StepBooks DEF BooksInv, ViewInv

\* Comments outside the optimistic lock: a view with the row's version misses no comment
\* but those whose request is still on its way or died.
THEOREM MissingCommentsAreInFlight == Spec => []UnseenCommentsInFlight
<1>1. BooksInv => UnseenCommentsInFlight
  BY DEF BooksInv, Books
<1> QED
  BY InitBooksInv, StepBooksInv, <1>1, PTL DEF Spec

\* Every version is paid for once: by a stored event, one in flight or lost, or a comment.
THEOREM VersionsAreAccountedFor == Spec => []VersionAccounting
<1>1. BooksInv => VersionAccounting
  BY DEF BooksInv, Books
<1> QED
  BY InitBooksInv, StepBooksInv, <1>1, PTL DEF Spec

\* Live learning never drafts more than the console resolved.
THEOREM EveryDraftIsEarned == Spec => []DraftsAreEarned
<1>1. BooksInv => DraftsAreEarned
  BY DEF BooksInv, Books
<1> QED
  BY InitBooksInv, StepBooksInv, <1>1, PTL DEF Spec

\* With nothing in flight and nothing lost, the audit trail explains the status.
THEOREM TrailExplainsStatus == Spec => []StatusIsAudited
<1>1. BooksInv => StatusIsAudited
  <2> SUFFICES ASSUME BooksInv, At({"event"}) = 0, lostEvents = 0, row.status # "open"
               PROVE  \E e \in events : e.kind # "assignee" /\ e.value = row.status
    BY DEF StatusIsAudited
  <2>1. IsFiniteSet(Doing({"event"}))
    BY DoingFinite DEF BooksInv, Busy
  <2>2. Doing({"event"}) = {}
    BY <2>1, FS_EmptySet DEF At, Doing
  <2> QED
    BY <2>2 DEF BooksInv, Books, StatusTraced, Doing
<1> QED
  BY InitBooksInv, StepBooksInv, <1>1, PTL DEF Spec

-----------------------------------------------------------------------------
(* The ticket screen: its copies of the rows, its panel and the case it acts *)
(* on.                                                                       *)

\* A copy of a row is behind the server's row, and is that row when it has its version.
Behind(rows, t, r) == /\ r.version <= rows[t].version
                      /\ r.version = rows[t].version => r = rows[t]

\* Every copy of the screen, and every one on its way to it or back, is behind.
QueueLags == listed # NoRow => \A t \in DeskTickets : Behind(deskRow, t, listed[t])
AnswerLags == listCall \notin {NoRow, Asked} => \A t \in DeskTickets : Behind(deskRow, t, listCall.rows[t])
PanelLags == panel # NoRow => Behind(deskRow, panel.id, panel.row)
DetailsLag ==
    \A d \in DetailCalls : detailCall[d] \in Shown => Behind(deskRow, detailCall[d].id, detailCall[d].row)
ChangeLags ==
    /\ change.pc \in {"sent", "refused"} => Behind(deskRow, change.saw.id, change.saw.row)
    /\ change.pc \in {"accepted", "read"} => Behind(deskRow, change.got.id, change.got.row)
    /\ change.pc = "read" => Behind(deskRow, change.got.id, change.detail)
BulkLags ==
    \A t \in DeskTickets : bulk[t].st # "none" => bulk[t].saw \in DeskRow /\ Behind(deskRow, t, bulk[t].saw)
NoteLags == noteCall \in Shown => Behind(deskRow, noteCall.id, noteCall.row)

CopiesLag ==
    QueueLags /\ AnswerLags /\ PanelLags /\ DetailsLag /\ ChangeLags /\ BulkLags /\ NoteLags

\* Before the queue is loaded there is nothing to choose, show, mark or change.
NothingBeforeTheQueue ==
    listed = NoRow =>
        /\ chosen = NoRow /\ panel = NoRow /\ ticked = {} /\ bulk = IdleBulk
        /\ \A d \in DetailCalls : detailCall[d] = NoRow
        /\ change = IdleChange /\ noteCall = NoRow

\* A detail request is about a ticket, on its way to the server or back.
Asks(d, t) == detailCall[d] = t \/ (detailCall[d] \in Shown /\ detailCall[d].id = t)

\* The panel shows the selected ticket or one is being asked for, as long as nothing crossed.
PanelIsAsked ==
    ~crossed /\ panel # NoRow =>
        panel.id = chosen \/ (chosen \in DeskTickets /\ \E d \in DetailCalls : Asks(d, chosen))

\* The history shown and the one asked for are of the case on the screen.
PastIsOfCase ==
    /\ past.asked # NoRow => ActiveTicket # NoRow /\ ActiveTicket.id = past.asked
    /\ HistoryIsOfCase

PanelInv == /\ ScreenTypeOK
            /\ NothingBeforeTheQueue
            /\ CopiesLag
            /\ PanelIsAsked
            /\ PastIsOfCase

LEMMA ScreenInitInv == ScreenInit => PanelInv
PROOF
<1> SUFFICES ASSUME ScreenInit PROVE PanelInv
  OBVIOUS
<1> USE DEF ScreenInit
<1>1. ScreenTypeOK
  BY NothingAssumption DEF ScreenTypeOK, DeskRow, IdleChange, IdleBulk
<1>2. NothingBeforeTheQueue /\ PanelIsAsked
  BY DEF NothingBeforeTheQueue, PanelIsAsked
<1>3. CopiesLag
  <2>1. change.pc = "idle" /\ \A t \in DeskTickets : bulk[t].st = "none"
    BY DEF IdleChange, IdleBulk
  <2>2. listCall \in {NoRow, Asked} /\ noteCall \notin Shown /\ \A d \in DetailCalls : detailCall[d] \notin Shown
    BY NothingAssumption
  <2> QED
    BY <2>1, <2>2 DEF CopiesLag, QueueLags, AnswerLags, PanelLags, DetailsLag, ChangeLags, BulkLags, NoteLags
<1>4. PastIsOfCase
  BY DEF PastIsOfCase, HistoryIsOfCase
<1> QED
  BY <1>1, <1>2, <1>3, <1>4 DEF PanelInv

\* A row only moves on to later versions, so that a copy that lags goes on lagging.
RowsAdvance ==
    \/ deskRow' = deskRow
    \/ \E t \in DeskTickets, to \in OfferedStatuses : deskRow' = Changed(t, to)

LEMMA ChangedRow ==
    ASSUME deskRow \in [DeskTickets -> DeskRow], NEW t \in DeskTickets, NEW to \in OfferedStatuses,
           deskRow' = Changed(t, to)
    PROVE  /\ deskRow' \in [DeskTickets -> DeskRow]
           /\ deskRow'[t].version = deskRow[t].version + 1
           /\ \A x \in DeskTickets : x # t => deskRow'[x] = deskRow[x]
PROOF
<1>1. deskRow[t] \in DeskRow /\ deskRow[t].version \in Nat
  BY DEF DeskRow
<1>2. [status |-> to, version |-> deskRow[t].version + 1] \in DeskRow
  BY <1>1 DEF DeskRow
<1> QED
  BY <1>1, <1>2 DEF Changed

LEMMA LagsOn ==
    ASSUME deskRow \in [DeskTickets -> DeskRow], RowsAdvance,
           NEW x \in DeskTickets, NEW r \in DeskRow, Behind(deskRow, x, r)
    PROVE  Behind(deskRow', x, r)
PROOF
<1>1. CASE deskRow' = deskRow
  BY <1>1
<1>2. ASSUME NEW t \in DeskTickets, NEW to \in OfferedStatuses, deskRow' = Changed(t, to)
      PROVE  Behind(deskRow', x, r)
  <2>1. deskRow'[t].version = deskRow[t].version + 1 /\ (x # t => deskRow'[x] = deskRow[x])
    BY <1>2, ChangedRow
  <2>2. r.version \in Nat /\ deskRow[x].version \in Nat
    BY DEF DeskRow
  <2>3. r.version <= deskRow[x].version /\ (r.version = deskRow[x].version => r = deskRow[x])
    BY DEF Behind
  <2>4. CASE x = t
    <3>1. deskRow'[x].version = deskRow[x].version + 1
      BY <2>1, <2>4
    <3>2. r.version <= deskRow'[x].version /\ r.version # deskRow'[x].version
      BY ONLY <2>2, <2>3, <3>1
    <3> QED
      BY <3>2 DEF Behind
  <2>5. CASE x # t
    BY <2>1, <2>3, <2>5 DEF Behind
  <2> QED
    BY <2>4, <2>5
<1> QED
  BY <1>1, <1>2 DEF RowsAdvance

LEMMA RowIsItself ==
    ASSUME deskRow \in [DeskTickets -> DeskRow], NEW t \in DeskTickets
    PROVE  Behind(deskRow, t, deskRow[t])
PROOF
  BY DEF Behind, DeskRow

\* What a change under way holds at each of its steps.
ChangeType(c) ==
    \/ c = IdleChange
    \/ c \in [pc : {"sent", "refused"}, to : OfferedStatuses, saw : Shown]
    \/ c \in [pc : {"accepted"}, got : Shown]
    \/ c \in [pc : {"read"}, got : Shown, detail : DeskRow]

LEMMA ChangeHolds ==
    ASSUME ChangeType(change)
    PROVE  /\ change.pc \in {"idle", "sent", "refused", "accepted", "read"}
           /\ change.pc \in {"sent", "refused"} =>
                change \in [pc : {"sent", "refused"}, to : OfferedStatuses, saw : Shown]
           /\ change.pc \in {"sent", "refused"} => change.to \in OfferedStatuses /\ change.saw \in Shown
           /\ change.pc \in {"accepted", "read"} => change.got \in Shown
           /\ change.pc = "read" => change.detail \in DeskRow
           /\ change.pc = "idle" <=> change = IdleChange
PROOF
  BY DEF ChangeType, IdleChange

\* A copy that a step leaves alone is behind the rows after it as well.
LEMMA CopiesStay ==
    ASSUME PanelInv, RowsAdvance
    PROVE  /\ listed' = listed => QueueLags'
           /\ listCall' = listCall => AnswerLags'
           /\ panel' = panel => PanelLags'
           /\ detailCall' = detailCall => DetailsLag'
           /\ change' = change => ChangeLags'
           /\ bulk' = bulk => BulkLags'
           /\ noteCall' = noteCall => NoteLags'
PROOF
<1> USE DEF PanelInv, CopiesLag
<1>1. \A x \in DeskTickets, r \in DeskRow : Behind(deskRow, x, r) => Behind(deskRow', x, r)
  BY LagsOn DEF ScreenTypeOK
<1>2. \A c \in Shown : c.id \in DeskTickets /\ c.row \in DeskRow
  BY DEF Shown
<1>3. listed' = listed => QueueLags'
  BY <1>1 DEF QueueLags, ScreenTypeOK
<1>4. listCall' = listCall => AnswerLags'
  <2>1. listCall \notin {NoRow, Asked} => listCall.rows \in [DeskTickets -> DeskRow]
    BY DEF ScreenTypeOK
  <2> QED
    BY <1>1, <2>1 DEF AnswerLags
<1>5. panel' = panel => PanelLags'
  BY <1>1, <1>2 DEF PanelLags, ScreenTypeOK
<1>6. detailCall' = detailCall => DetailsLag'
  BY <1>1, <1>2 DEF DetailsLag
<1>7. change' = change => ChangeLags'
  <2>1. ChangeType(change)
    BY DEF ScreenTypeOK, ChangeType
  <2> QED
    BY <1>1, <1>2, <2>1, ChangeHolds DEF ChangeLags
<1>8. bulk' = bulk => BulkLags'
  BY <1>1 DEF BulkLags
<1>9. noteCall' = noteCall => NoteLags'
  BY <1>1, <1>2 DEF NoteLags
<1> QED
  BY <1>3, <1>4, <1>5, <1>6, <1>7, <1>8, <1>9

\* While the panel and what it is chosen from stay, so does what belongs to it.
LEMMA ViewStays ==
    ASSUME PanelInv, UNCHANGED <<listed, chosen, panel, detailCall, past, crossed>>
    PROVE  PanelIsAsked' /\ PastIsOfCase'
PROOF
  BY DEF PanelInv, PanelIsAsked, Asks, PastIsOfCase, HistoryIsOfCase, ActiveTicket

\* The case the panel acts on is a loaded ticket.
LEMMA ActiveIsShown ==
    ASSUME PanelInv, ActiveTicket # NoRow
    PROVE  /\ ActiveTicket \in Shown
           /\ Behind(deskRow, ActiveTicket.id, ActiveTicket.row)
           /\ listed # NoRow
PROOF
<1> USE DEF PanelInv
<1>1. CASE panel # NoRow
  BY <1>1 DEF ActiveTicket, ScreenTypeOK, CopiesLag, PanelLags, NothingBeforeTheQueue
<1>2. CASE panel = NoRow
  <2>1. ActiveTicket = [id |-> chosen, row |-> listed[chosen]] /\ chosen # NoRow /\ listed # NoRow
    BY <1>2 DEF ActiveTicket
  <2>2. chosen \in DeskTickets /\ listed[chosen] \in DeskRow
    BY <2>1 DEF ScreenTypeOK
  <2>3. Behind(deskRow, chosen, listed[chosen])
    BY <2>1, <2>2 DEF CopiesLag, QueueLags
  <2> QED
    BY <2>1, <2>2, <2>3 DEF Shown
<1> QED
  BY <1>1, <1>2

\* The queue is asked for, served or not to be had.
LEMMA QueueSteps ==
    ASSUME PanelInv, RefreshQueue \/ ListIsServed \/ ListFails
    PROVE  PanelInv'
PROOF
<1> USE DEF PanelInv
<1>1. UNCHANGED <<deskRow, listed, chosen, panel, detailCall, change, bulk, ticked, noteCall, past, crossed>>
  BY DEF RefreshQueue, ListIsServed, ListFails
<1>2. listCall' \in {NoRow, Asked} \/ listCall' = [st |-> "served", rows |-> deskRow]
  BY DEF RefreshQueue, ListIsServed, ListFails
<1>3. ScreenTypeOK'
  BY <1>1, <1>2 DEF ScreenTypeOK
<1>4. AnswerLags'
  <2>1. \A t \in DeskTickets : Behind(deskRow, t, deskRow[t])
    BY RowIsItself DEF ScreenTypeOK
  <2> QED
    BY <1>1, <1>2, <2>1 DEF AnswerLags
<1>5. CopiesLag'
  BY <1>1, <1>4, CopiesStay DEF CopiesLag, RowsAdvance
<1>6. NothingBeforeTheQueue'
  BY <1>1 DEF NothingBeforeTheQueue
<1> QED
  BY <1>1, <1>3, <1>5, <1>6, ViewStays

\* A change is pressed, served and read again; colleagues change rows meanwhile.
LEMMA ChangeSteps ==
    ASSUME PanelInv,
           \/ \E s \in OfferedStatuses : PressChange(s)
           \/ ChangeIsServed \/ ChangeIsReread
           \/ \E t \in DeskTickets : ColleagueChanges(t)
    PROVE  PanelInv'
PROOF
<1> USE DEF PanelInv
<1>1. UNCHANGED <<listed, listCall, chosen, panel, detailCall, bulk, ticked, noteCall, past, crossed>>
  BY DEF PressChange, ChangeIsServed, ChangeIsReread, ColleagueChanges
<1>2. deskRow \in [DeskTickets -> DeskRow] /\ ChangeType(change) /\ ChangeLags
  BY DEF ScreenTypeOK, ChangeType, CopiesLag
<1>3. /\ RowsAdvance
      /\ ChangeType(change') /\ ChangeLags'
      /\ listed = NoRow => change' = IdleChange
  <2>1. ASSUME NEW s \in OfferedStatuses, PressChange(s)
        PROVE  RowsAdvance /\ ChangeType(change') /\ ChangeLags' /\ (listed = NoRow => change' = IdleChange)
    <3>1. /\ ActiveTicket # NoRow /\ change' = [pc |-> "sent", to |-> s, saw |-> ActiveTicket]
          /\ deskRow' = deskRow
      BY <2>1 DEF PressChange
    <3>2. ActiveTicket \in Shown /\ Behind(deskRow, ActiveTicket.id, ActiveTicket.row) /\ listed # NoRow
      BY <3>1, ActiveIsShown
    <3>3. /\ ChangeType(change') /\ change'.pc = "sent" /\ change'.saw = ActiveTicket
      BY <3>1, <3>2 DEF ChangeType
    <3> QED
      BY <3>1, <3>2, <3>3 DEF RowsAdvance, ChangeLags
  <2>2. ASSUME ChangeIsServed
        PROVE  RowsAdvance /\ ChangeType(change') /\ ChangeLags' /\ (listed = NoRow => change' = IdleChange)
    <3>1. change.pc = "sent" /\ change.saw \in Shown /\ change.to \in OfferedStatuses /\ listed # NoRow
          /\ change \in [pc : {"sent", "refused"}, to : OfferedStatuses, saw : Shown]
          /\ change.saw.id \in DeskTickets
      BY <2>2, <1>2, ChangeHolds DEF ChangeIsServed, NothingBeforeTheQueue, Shown
    <3>2. CASE /\ deskRow' = Changed(change.saw.id, change.to)
               /\ change' = [pc |-> "accepted", got |-> [id |-> change.saw.id, row |-> deskRow'[change.saw.id]]]
      <4>1. deskRow' \in [DeskTickets -> DeskRow]
        BY <3>1, <3>2, <1>2, ChangedRow
      <4>2. Behind(deskRow', change.saw.id, deskRow'[change.saw.id])
        BY <4>1, <3>1 DEF Behind, DeskRow
      <4>3. RowsAdvance
        BY <3>1, <3>2 DEF RowsAdvance
      <4> QED
        BY <3>1, <3>2, <4>1, <4>2, <4>3 DEF ChangeType, ChangeLags, Shown
    <3>3. CASE change' = [change EXCEPT !.pc = "refused"] /\ UNCHANGED deskRow
      <4>1. /\ change' \in [pc : {"sent", "refused"}, to : OfferedStatuses, saw : Shown]
            /\ change'.pc = "refused" /\ change'.saw = change.saw
        BY <3>1, <3>3
      <4> QED
        BY <3>1, <3>3, <4>1, <1>2 DEF ChangeType, ChangeLags, RowsAdvance
    <3> QED
      BY <2>2, <3>2, <3>3 DEF ChangeIsServed
  <2>3. ASSUME ChangeIsReread
        PROVE  RowsAdvance /\ ChangeType(change') /\ ChangeLags' /\ (listed = NoRow => change' = IdleChange)
    <3>1. change.pc = "accepted" /\ change.got \in Shown /\ deskRow' = deskRow
      BY <2>3, <1>2, ChangeHolds DEF ChangeIsReread
    <3>2. listed # NoRow
      BY <3>1 DEF NothingBeforeTheQueue, IdleChange
    <3>3. CASE change' = IdleChange
      BY <3>1, <3>3 DEF ChangeType, ChangeLags, RowsAdvance, IdleChange
    <3>4. CASE change' = [pc |-> "read", got |-> change.got, detail |-> deskRow[change.got.id]]
      <4>1. change.got.id \in DeskTickets /\ deskRow[change.got.id] \in DeskRow
        BY <3>1, <1>2 DEF Shown
      <4>2. Behind(deskRow, change.got.id, deskRow[change.got.id]) /\ Behind(deskRow, change.got.id, change.got.row)
        BY <3>1, <4>1, <1>2, RowIsItself DEF ChangeLags
      <4>3. ChangeType(change') /\ change'.pc = "read" /\ change'.got = change.got /\ change'.detail = deskRow[change.got.id]
        BY <3>1, <3>4, <4>1 DEF ChangeType
      <4> QED
        BY <3>1, <3>2, <4>2, <4>3 DEF ChangeLags, RowsAdvance
    <3> QED
      BY <2>3, <3>3, <3>4 DEF ChangeIsReread
  <2>4. ASSUME NEW t \in DeskTickets, ColleagueChanges(t)
        PROVE  RowsAdvance /\ ChangeType(change') /\ ChangeLags' /\ (listed = NoRow => change' = IdleChange)
    <3>1. RowsAdvance /\ change' = change
      BY <2>4 DEF ColleagueChanges, RowsAdvance
    <3>2. ChangeLags'
      BY <3>1, CopiesStay
    <3> QED
      BY <3>1, <3>2, <1>2 DEF NothingBeforeTheQueue
  <2> QED
    BY <2>1, <2>2, <2>3, <2>4
<1>4. deskRow' \in [DeskTickets -> DeskRow]
  BY <1>2, <1>3, ChangedRow DEF RowsAdvance
<1>5. ScreenTypeOK'
  BY <1>1, <1>3, <1>4 DEF ScreenTypeOK, ChangeType
<1>6. CopiesLag'
  BY <1>1, <1>3, CopiesStay DEF CopiesLag
<1>7. NothingBeforeTheQueue'
  BY <1>1, <1>3 DEF NothingBeforeTheQueue
<1> QED
  BY <1>1, <1>5, <1>6, <1>7, ViewStays

\* Marks are set and a bulk change runs through.
LEMMA BulkSteps ==
    ASSUME PanelInv,
           \/ \E t \in DeskTickets : TickTicket(t) \/ BulkIsServed(t)
           \/ PressBulk \/ BulkSucceeds \/ BulkFails
    PROVE  PanelInv'
PROOF
<1> USE DEF PanelInv
<1> DEFINE BulkType(b) == b \in [DeskTickets -> [st : {"none", "asked", "ok", "refused"}, saw : DeskRow \cup {NoRow}]]
<1> DEFINE Good == /\ RowsAdvance
                   /\ BulkType(bulk') /\ BulkLags'
                   /\ ticked' \subseteq DeskTickets
                   /\ listed = NoRow => bulk' = IdleBulk /\ ticked' = {}
<1>1. UNCHANGED <<listed, chosen, panel, detailCall, change, noteCall, past, crossed>> /\ listCall' \in {listCall, Asked}
  BY DEF TickTicket, BulkIsServed, PressBulk, BulkSucceeds, BulkFails
<1>2. deskRow \in [DeskTickets -> DeskRow] /\ BulkType(bulk) /\ BulkLags /\ ticked \subseteq DeskTickets
  BY DEF ScreenTypeOK, CopiesLag
<1>3. Good
  <2>1. ASSUME NEW t \in DeskTickets, TickTicket(t) PROVE Good
    <3>1. listed # NoRow /\ UNCHANGED <<deskRow, bulk>> /\ ticked' \subseteq DeskTickets
      BY <2>1, <1>2 DEF TickTicket
    <3> QED
      BY <3>1, <1>2 DEF RowsAdvance, BulkLags
  <2>2. ASSUME NEW t \in DeskTickets, BulkIsServed(t) PROVE Good
    <3>1. bulk[t].st = "asked" /\ bulk[t].saw \in DeskRow /\ ticked' = ticked
      BY <2>2, <1>2 DEF BulkIsServed, BulkLags
    <3>2. listed # NoRow
      BY <3>1 DEF NothingBeforeTheQueue, IdleBulk
    <3>3. PICK st \in {"ok", "refused"} : bulk' = [bulk EXCEPT ![t] = [@ EXCEPT !.st = st]]
      BY <2>2 DEF BulkIsServed
    <3>4. RowsAdvance
      BY <2>2, ScreenAssumption DEF BulkIsServed, RowsAdvance
    <3>5. BulkType(bulk')
      BY <3>3, <1>2
    <3>6. \A x \in DeskTickets : bulk'[x].saw = bulk[x].saw /\ (bulk'[x].st # "none" => bulk[x].st # "none")
      BY <3>1, <3>3, <1>2
    <3>7. \A x \in DeskTickets, r \in DeskRow : Behind(deskRow, x, r) => Behind(deskRow', x, r)
      BY <3>4, <1>2, LagsOn
    <3>8. BulkLags'
      BY <3>6, <3>7, <1>2 DEF BulkLags
    <3> QED
      BY <3>1, <3>2, <3>4, <3>5, <3>8, <1>2
  <2>3. ASSUME PressBulk PROVE Good
    <3>1. listed # NoRow /\ listed \in [DeskTickets -> DeskRow] /\ QueueLags
      BY <2>3 DEF PressBulk, BulkReady, NothingBeforeTheQueue, ScreenTypeOK, CopiesLag
    <3>2. /\ bulk' = [t \in DeskTickets |-> IF t \in ticked /\ listed[t].status # "resolved"
                        THEN [st |-> "asked", saw |-> listed[t]] ELSE [st |-> "none", saw |-> NoRow]]
          /\ UNCHANGED <<deskRow, ticked>>
      BY <2>3 DEF PressBulk
    <3>3. BulkType(bulk')
      BY <3>1, <3>2
    <3>4. BulkLags'
      BY <3>1, <3>2 DEF BulkLags, QueueLags
    <3> QED
      BY <3>1, <3>2, <3>3, <3>4, <1>2 DEF RowsAdvance
  <2>4. ASSUME BulkSucceeds \/ BulkFails PROVE Good
    <3>1. bulk' = IdleBulk /\ deskRow' = deskRow /\ ticked' \in {ticked, {}}
      BY <2>4 DEF BulkSucceeds, BulkFails
    <3> QED
      BY <3>1, <1>2 DEF RowsAdvance, BulkLags, IdleBulk, NothingBeforeTheQueue
  <2> QED
    BY <2>1, <2>2, <2>3, <2>4
<1>4. deskRow' \in [DeskTickets -> DeskRow]
  BY <1>2, <1>3, ChangedRow DEF RowsAdvance
<1>5. ScreenTypeOK'
  BY <1>1, <1>3, <1>4 DEF ScreenTypeOK
<1>6. AnswerLags'
  BY <1>1, <1>3, CopiesStay DEF AnswerLags
<1>7. CopiesLag'
  BY <1>1, <1>3, <1>6, CopiesStay DEF CopiesLag
<1>8. NothingBeforeTheQueue'
  BY <1>1, <1>3 DEF NothingBeforeTheQueue
<1> QED
  BY <1>1, <1>5, <1>7, <1>8, ViewStays

\* A note is on its way to the server or back; the history of the case is loaded.
LEMMA NoteSteps ==
    ASSUME PanelInv, AddNote \/ NoteIsServed \/ PastArrives
    PROVE  PanelInv'
PROOF
<1> USE DEF PanelInv
<1>1. UNCHANGED <<deskRow, listed, listCall, chosen, panel, detailCall, change, bulk, ticked, crossed>>
  BY DEF AddNote, NoteIsServed, PastArrives
<1>2. CASE AddNote \/ NoteIsServed
  <2>1. /\ past' = past
        /\ noteCall' = NoRow \/ noteCall' \in DeskTickets
             \/ (noteCall' \in Shown /\ Behind(deskRow, noteCall'.id, noteCall'.row))
        /\ listed = NoRow => noteCall' = NoRow
    <3>1. CASE AddNote
      <4>1. ActiveTicket # NoRow /\ noteCall' = ActiveTicket.id /\ past' = past
        BY <3>1 DEF AddNote
      <4> QED
        BY <4>1, ActiveIsShown DEF Shown
    <3>2. CASE NoteIsServed
      <4>1. noteCall \in DeskTickets /\ past' = past /\ noteCall' \in {[id |-> noteCall, row |-> deskRow[noteCall]], NoRow}
        BY <3>2 DEF NoteIsServed
      <4>2. [id |-> noteCall, row |-> deskRow[noteCall]] \in Shown /\ Behind(deskRow, noteCall, deskRow[noteCall])
        BY <4>1, RowIsItself DEF ScreenTypeOK, Shown
      <4>3. listed # NoRow
        BY <4>1, NothingAssumption DEF NothingBeforeTheQueue
      <4> QED
        BY <4>1, <4>2, <4>3
    <3> QED
      BY <1>2, <3>1, <3>2
  <2>2. NoteLags'
    BY <2>1, <1>1, NothingAssumption DEF NoteLags
  <2>3. CopiesLag'
    BY <1>1, <2>2, CopiesStay DEF CopiesLag, RowsAdvance
  <2>4. ScreenTypeOK'
    BY <1>1, <2>1 DEF ScreenTypeOK
  <2>5. NothingBeforeTheQueue'
    BY <1>1, <2>1 DEF NothingBeforeTheQueue
  <2> QED
    BY <1>1, <2>1, <2>3, <2>4, <2>5, ViewStays
<1>3. CASE PastArrives
  <2>1. /\ past.asked # NoRow /\ noteCall' = noteCall
        /\ past' \in {[of |-> past.asked, asked |-> NoRow], [of |-> NoRow, asked |-> NoRow]}
    BY <1>3 DEF PastArrives
  <2>2. past' \in [of : DeskTickets \cup {NoRow}, asked : DeskTickets \cup {NoRow}]
    BY <2>1 DEF ScreenTypeOK
  <2>3. ScreenTypeOK' /\ NothingBeforeTheQueue'
    BY <1>1, <2>1, <2>2 DEF ScreenTypeOK, NothingBeforeTheQueue
  <2>4. CopiesLag'
    BY <1>1, <2>1, CopiesStay DEF CopiesLag, RowsAdvance
  <2>5. PanelIsAsked' /\ ActiveTicket' = ActiveTicket
    BY <1>1 DEF PanelIsAsked, Asks, ActiveTicket
  <2>6. PastIsOfCase'
    BY <2>1, <2>5 DEF PastIsOfCase, HistoryIsOfCase
  <2> QED
    BY <2>3, <2>4, <2>5, <2>6
<1> QED
  BY <1>2, <1>3

\* Whatever a step puts on the screen, the history it follows is that of the case shown after it.
LEMMA PastFollows ==
    ASSUME PanelInv, FollowPast, panel' = NoRow \/ panel' \in Shown, chosen' \in DeskTickets \cup {NoRow}
    PROVE  past' \in [of : DeskTickets \cup {NoRow}, asked : DeskTickets \cup {NoRow}] /\ PastIsOfCase'
PROOF
<1>1. past \in [of : DeskTickets \cup {NoRow}, asked : DeskTickets \cup {NoRow}] /\ PastIsOfCase
  BY DEF PanelInv, ScreenTypeOK
<1>2. CASE ActiveTicket' = ActiveTicket /\ listed' = listed
  <2>1. past' = past
    BY <1>2 DEF FollowPast
  <2> QED
    BY <1>1, <1>2, <2>1 DEF PastIsOfCase, HistoryIsOfCase
<1>3. CASE ~(ActiveTicket' = ActiveTicket /\ listed' = listed)
  <2>1. past' = Followed(ActiveTicket')
    BY <1>3 DEF FollowPast
  <2>2. ActiveTicket' # NoRow => ActiveTicket'.id \in DeskTickets
    BY DEF ActiveTicket, Shown
  <2>3. CASE ActiveTicket' = NoRow \/ listed' = NoRow
    <3>1. past' = [of |-> NoRow, asked |-> NoRow]
      BY <2>1, <2>3 DEF Followed
    <3> QED
      BY <3>1 DEF PastIsOfCase, HistoryIsOfCase
  <2>4. CASE ActiveTicket' # NoRow /\ listed' # NoRow
    <3>1. past' = [of |-> past.of, asked |-> ActiveTicket'.id]
      BY <2>1, <2>4 DEF Followed
    <3> QED
      BY <1>1, <2>2, <2>4, <3>1, NothingAssumption DEF PastIsOfCase, HistoryIsOfCase
  <2> QED
    BY <2>3, <2>4
<1> QED
  BY <1>2, <1>3

\* A ticket is selected, by hand or as the first of a queue that arrived, and its detail asked for.
LEMMA SelectSteps ==
    ASSUME PanelInv, ListArrives \/ \E t \in DeskTickets : SelectTicket(t)
    PROVE  PanelInv'
PROOF
<1> USE DEF PanelInv
<1>1. UNCHANGED <<deskRow, panel, change, bulk, ticked, noteCall, crossed>> /\ FollowPast
  BY DEF ListArrives, SelectTicket
<1>2. \/ UNCHANGED <<chosen, detailCall>>
      \/ \E t \in DeskTickets : chosen' = t /\ AskDetail(t)
  BY DEF ListArrives, SelectTicket
<1>3. /\ listed' # NoRow /\ listed' \in [DeskTickets -> DeskRow]
      /\ listCall' \in {listCall, NoRow}
      /\ QueueLags'
  <2>1. CASE ListArrives
    <3>1. /\ listCall \notin {NoRow, Asked} /\ listed' = listCall.rows /\ listCall' = NoRow
          /\ deskRow' = deskRow
      BY <2>1 DEF ListArrives
    <3>2. listCall.rows \in [DeskTickets -> DeskRow]
      BY <3>1 DEF ScreenTypeOK
    <3>3. \A t \in DeskTickets : Behind(deskRow, t, listCall.rows[t])
      BY <3>1 DEF CopiesLag, AnswerLags
    <3> QED
      BY <3>1, <3>2, <3>3, NothingAssumption DEF QueueLags
  <2>2. CASE \E t \in DeskTickets : SelectTicket(t)
    <3>1. listed # NoRow /\ listed' = listed /\ listCall' = listCall
      BY <2>2 DEF SelectTicket
    <3> QED
      BY <1>1, <3>1, CopiesStay DEF RowsAdvance, ScreenTypeOK
  <2> QED
    BY <2>1, <2>2
<1>4. /\ chosen' \in DeskTickets \cup {NoRow}
      /\ detailCall' \in [DetailCalls -> {NoRow} \cup DeskTickets \cup Shown]
      /\ DetailsLag'
      /\ PanelIsAsked'
  <2>1. CASE UNCHANGED <<chosen, detailCall>>
    BY <1>1, <2>1, CopiesStay DEF RowsAdvance, ScreenTypeOK, PanelIsAsked, Asks
  <2>2. ASSUME NEW t \in DeskTickets, chosen' = t, AskDetail(t)
        PROVE  /\ chosen' \in DeskTickets \cup {NoRow}
               /\ detailCall' \in [DetailCalls -> {NoRow} \cup DeskTickets \cup Shown]
               /\ DetailsLag'
               /\ PanelIsAsked'
    <3>1. PICK d \in DetailCalls : detailCall' = [detailCall EXCEPT ![d] = t]
      BY <2>2 DEF AskDetail
    <3>2. detailCall' \in [DetailCalls -> {NoRow} \cup DeskTickets \cup Shown]
      BY <3>1 DEF ScreenTypeOK
    <3>3. detailCall'[d] = t /\ \A x \in DetailCalls : x # d => detailCall'[x] = detailCall[x]
      BY <3>1 DEF ScreenTypeOK
    <3>4. DetailsLag'
      BY <1>1, <3>3, NothingAssumption DEF DetailsLag, CopiesLag
    <3>5. PanelIsAsked'
      BY <2>2, <3>3 DEF PanelIsAsked, Asks
    <3> QED
      BY <2>2, <3>2, <3>4, <3>5
  <2> QED
    BY <1>2, <2>1, <2>2
<1>5. past' \in [of : DeskTickets \cup {NoRow}, asked : DeskTickets \cup {NoRow}] /\ PastIsOfCase'
  BY <1>1, <1>4, PastFollows DEF ScreenTypeOK
<1>6. AnswerLags'
  <2>1. CASE listCall' = listCall
    BY <1>1, <2>1, CopiesStay DEF RowsAdvance
  <2>2. CASE listCall' = NoRow
    BY <2>2 DEF AnswerLags
  <2> QED
    BY <1>3, <2>1, <2>2
<1>7. CopiesLag'
  BY <1>1, <1>3, <1>4, <1>6, CopiesStay DEF CopiesLag, RowsAdvance
<1>8. ScreenTypeOK'
  BY <1>1, <1>3, <1>4, <1>5 DEF ScreenTypeOK
<1>9. NothingBeforeTheQueue'
  BY <1>3 DEF NothingBeforeTheQueue
<1> QED
  BY <1>4, <1>5, <1>7, <1>8, <1>9

\* What an answer puts in the panel is the selected ticket, or the screen has crossed.
LEMMA FillKeeps ==
    ASSUME PanelInv, NEW shown \in Shown, Fill(shown), chosen' = chosen,
           deskRow' = deskRow, Behind(deskRow, shown.id, shown.row)
    PROVE  /\ panel' \in Shown /\ crossed' \in BOOLEAN
           /\ PanelLags' /\ PanelIsAsked'
PROOF
<1>1. panel' = shown
  BY DEF Fill
<1>2. crossed' = (crossed \/ shown.id # chosen)
  BY DEF Fill
<1>3. crossed' \in BOOLEAN /\ (~crossed' => shown.id = chosen)
  BY <1>2
<1> QED
  BY <1>1, <1>3 DEF PanelLags, PanelIsAsked

\* A detail request is served, answered or fails.
LEMMA DetailSteps ==
    ASSUME PanelInv, NEW d \in DetailCalls, DetailIsServed(d) \/ DetailArrives(d) \/ DetailFails(d)
    PROVE  PanelInv'
PROOF
<1> USE DEF PanelInv
<1>1. UNCHANGED <<deskRow, listed, listCall, chosen, change, bulk, ticked, noteCall>>
  BY DEF DetailIsServed, DetailArrives, DetailFails
<1>2. PICK now : /\ detailCall' = [detailCall EXCEPT ![d] = now]
                 /\ \/ now = NoRow
                    \/ /\ detailCall[d] \in DeskTickets
                       /\ now = [id |-> detailCall[d], row |-> deskRow[detailCall[d]]]
  BY DEF DetailIsServed, DetailArrives, DetailFails
<1>3. /\ detailCall[d] # NoRow /\ listed # NoRow
      /\ detailCall \in [DetailCalls -> {NoRow} \cup DeskTickets \cup Shown]
  BY NothingAssumption DEF DetailIsServed, DetailArrives, DetailFails, NothingBeforeTheQueue, ScreenTypeOK
<1>4. now = NoRow \/ (now \in Shown /\ Behind(deskRow, now.id, now.row))
  <2>1. ASSUME detailCall[d] \in DeskTickets, now = [id |-> detailCall[d], row |-> deskRow[detailCall[d]]]
        PROVE  now \in Shown /\ Behind(deskRow, now.id, now.row)
    BY <2>1, RowIsItself DEF ScreenTypeOK, Shown
  <2> QED
    BY <1>2, <2>1
<1>5. /\ detailCall' \in [DetailCalls -> {NoRow} \cup DeskTickets \cup Shown]
      /\ detailCall'[d] = now
      /\ \A x \in DetailCalls : x # d => detailCall'[x] = detailCall[x]
  BY <1>2, <1>3, <1>4
<1>6. DetailsLag'
  BY <1>1, <1>4, <1>5, NothingAssumption DEF DetailsLag, CopiesLag
<1>7. /\ panel' = NoRow \/ panel' \in Shown
      /\ crossed' \in BOOLEAN
      /\ PanelLags' /\ PanelIsAsked'
      /\ past' \in [of : DeskTickets \cup {NoRow}, asked : DeskTickets \cup {NoRow}]
      /\ PastIsOfCase'
  <2>1. ASSUME panel' = panel, past' = past
        PROVE  /\ past' \in [of : DeskTickets \cup {NoRow}, asked : DeskTickets \cup {NoRow}]
               /\ PastIsOfCase' /\ PanelLags' /\ (panel' = NoRow \/ panel' \in Shown)
    BY <1>1, <2>1, CopiesStay DEF RowsAdvance, ScreenTypeOK, PastIsOfCase, HistoryIsOfCase, ActiveTicket
  <2>2. CASE DetailIsServed(d)
    <3>1. UNCHANGED <<panel, past, crossed>>
      BY <2>2 DEF DetailIsServed
    <3>2. /\ detailCall[d] \in DeskTickets /\ detailCall[d] \notin Shown
          /\ detailCall'[d] = [id |-> detailCall[d], row |-> deskRow[detailCall[d]]]
          /\ detailCall'[d] \in Shown /\ detailCall'[d].id = detailCall[d]
      BY <2>2, <1>3, NothingAssumption DEF DetailIsServed, ScreenTypeOK, Shown
    <3>3. ASSUME NEW x \in DetailCalls, NEW t \in DeskTickets, Asks(x, t)
          PROVE  detailCall'[x] = t \/ (detailCall'[x] \in Shown /\ detailCall'[x].id = t)
      <4>1. CASE x = d
        <5>1. detailCall[d] = t
          BY <3>2, <3>3, <4>1 DEF Asks
        <5> QED
          BY <3>2, <4>1, <5>1
      <4>2. CASE x # d
        BY <1>5, <3>3, <4>2 DEF Asks
      <4> QED
        BY <4>1, <4>2
    <3>4. PanelIsAsked'
      BY <1>1, <3>1, <3>3 DEF PanelIsAsked, Asks
    <3> QED
      BY <2>1, <3>1, <3>4 DEF ScreenTypeOK
  <2>3. CASE DetailArrives(d)
    <3>1. detailCall[d] \in Shown /\ Fill(detailCall[d]) /\ FollowPast
      BY <2>3 DEF DetailArrives
    <3>2. Behind(deskRow, detailCall[d].id, detailCall[d].row)
      BY <3>1 DEF CopiesLag, DetailsLag
    <3>3. panel' \in Shown /\ crossed' \in BOOLEAN /\ PanelLags' /\ PanelIsAsked'
      BY <1>1, <3>1, <3>2, FillKeeps
    <3> QED
      BY <1>1, <3>1, <3>3, PastFollows DEF ScreenTypeOK
  <2>4. CASE DetailFails(d)
    <3>1. panel' = panel /\ past' = past
      BY <2>4 DEF DetailFails
    <3>2. crossed' = (crossed \/ (panel # NoRow /\ panel.id # chosen))
      BY <2>4 DEF DetailFails
    <3>3. crossed' \in BOOLEAN /\ (~crossed' /\ panel # NoRow => panel.id = chosen)
      BY <3>2
    <3>4. PanelIsAsked'
      BY <1>1, <3>1, <3>3 DEF PanelIsAsked
    <3> QED
      BY <2>1, <3>1, <3>3, <3>4
  <2> QED
    BY <2>2, <2>3, <2>4
<1>8. CopiesLag'
  BY <1>1, <1>6, <1>7, CopiesStay DEF CopiesLag, RowsAdvance
<1>9. ScreenTypeOK'
  BY <1>1, <1>5, <1>7 DEF ScreenTypeOK
<1>10. NothingBeforeTheQueue'
  BY <1>1, <1>3 DEF NothingBeforeTheQueue
<1> QED
  BY <1>7, <1>8, <1>9, <1>10

\* A change or a note comes back with the row it was about.
LEMMA AnswerSteps ==
    ASSUME PanelInv, ChangeArrives \/ NoteArrives
    PROVE  PanelInv'
PROOF
<1> USE DEF PanelInv
<1>1. UNCHANGED <<deskRow, listCall, chosen, detailCall, bulk, ticked>> /\ FollowPast
  BY DEF ChangeArrives, NoteArrives
<1>2. /\ \A r \in DeskRow, x \in DeskTickets : [id |-> x, row |-> r] \in Shown
      /\ \A c \in Shown : c.id \in DeskTickets /\ c.row \in DeskRow
  BY DEF Shown
<1>3. /\ listed' = NoRow \/ listed' \in [DeskTickets -> DeskRow]
      /\ listed # NoRow => listed' # NoRow
      /\ QueueLags'
      /\ panel' = NoRow \/ panel' \in Shown
      /\ PanelLags' /\ PanelIsAsked'
      /\ crossed' \in BOOLEAN
      /\ change' \in {change, IdleChange} /\ noteCall' \in {noteCall, NoRow}
      /\ listed = NoRow => panel' = NoRow /\ change' = IdleChange /\ listed' = NoRow
  <2>1. CASE ChangeArrives
    <3>1. change' = IdleChange /\ noteCall' = noteCall
      BY <2>1 DEF ChangeArrives
    <3>2. CASE /\ change.pc = "read"
               /\ Fill([id |-> change.got.id, row |-> change.detail])
               /\ listed' = [listed EXCEPT ![change.got.id] = change.got.row]
      <4>1. ChangeType(change)
        BY DEF ScreenTypeOK, ChangeType
      <4>2. change.got \in Shown /\ change.detail \in DeskRow
        BY <3>2, <4>1, ChangeHolds
      <4>3. Behind(deskRow, change.got.id, change.got.row) /\ Behind(deskRow, change.got.id, change.detail)
        BY <3>2 DEF CopiesLag, ChangeLags
      <4>4. listed # NoRow /\ listed \in [DeskTickets -> DeskRow]
        BY <3>2 DEF NothingBeforeTheQueue, IdleChange, ScreenTypeOK
      <4>5. panel' \in Shown /\ crossed' \in BOOLEAN /\ PanelLags' /\ PanelIsAsked'
        <5>1. [id |-> change.got.id, row |-> change.detail] \in Shown
          BY <1>2, <4>2
        <5> QED
          BY <1>1, <3>2, <4>3, <5>1, FillKeeps
      <4>6. listed' \in [DeskTickets -> DeskRow]
        BY <1>2, <3>2, <4>2, <4>4
      <4>7. \A t \in DeskTickets : listed'[t] = IF t = change.got.id THEN change.got.row ELSE listed[t]
        BY <3>2, <4>4
      <4>8. \A t \in DeskTickets : Behind(deskRow, t, listed[t])
        BY <4>4 DEF CopiesLag, QueueLags
      <4>9. \A t \in DeskTickets : Behind(deskRow, t, listed'[t])
        BY <4>3, <4>7, <4>8
      <4>10. QueueLags'
        BY <1>1, <4>9 DEF QueueLags
      <4> QED
        BY <3>1, <4>4, <4>5, <4>6, <4>10, NothingAssumption
    <3>3. CASE UNCHANGED <<panel, listed, crossed>>
      BY <1>1, <3>1, <3>3, CopiesStay DEF RowsAdvance, ScreenTypeOK, PanelIsAsked, Asks, NothingBeforeTheQueue
    <3> QED
      BY <2>1, <3>2, <3>3 DEF ChangeArrives
  <2>2. CASE NoteArrives
    <3>1. /\ noteCall \in Shown /\ Fill(noteCall) /\ noteCall' = NoRow
          /\ listed' = listed /\ change' = change
      BY <2>2 DEF NoteArrives
    <3>2. Behind(deskRow, noteCall.id, noteCall.row)
      BY <3>1 DEF CopiesLag, NoteLags
    <3>3. panel' \in Shown /\ crossed' \in BOOLEAN /\ PanelLags' /\ PanelIsAsked'
      BY <1>1, <3>1, <3>2, FillKeeps
    <3>4. listed # NoRow
      BY <3>1, NothingAssumption DEF NothingBeforeTheQueue
    <3>5. QueueLags'
      BY <1>1, <3>1, CopiesStay DEF RowsAdvance
    <3> QED
      BY <3>1, <3>3, <3>4, <3>5 DEF ScreenTypeOK
  <2> QED
    BY <2>1, <2>2
<1>4. past' \in [of : DeskTickets \cup {NoRow}, asked : DeskTickets \cup {NoRow}] /\ PastIsOfCase'
  BY <1>1, <1>3, PastFollows DEF ScreenTypeOK
<1>5. ChangeLags' /\ NoteLags'
  <2>1. change' = IdleChange => ChangeLags'
    BY DEF ChangeLags, IdleChange
  <2>2. noteCall' = NoRow => NoteLags'
    BY NothingAssumption DEF NoteLags
  <2> QED
    BY <1>1, <1>3, <2>1, <2>2, CopiesStay DEF RowsAdvance
<1>6. CopiesLag'
  BY <1>1, <1>3, <1>5, CopiesStay DEF CopiesLag, RowsAdvance
<1>7. ScreenTypeOK'
  BY <1>1, <1>3, <1>4 DEF ScreenTypeOK
<1>8. NothingBeforeTheQueue'
  <2>1. CASE listed = NoRow
    BY <1>1, <1>3, <2>1 DEF NothingBeforeTheQueue
  <2>2. CASE listed # NoRow
    BY <1>3, <2>2 DEF NothingBeforeTheQueue
  <2> QED
    BY <2>1, <2>2
<1> QED
  BY <1>3, <1>4, <1>6, <1>7, <1>8

\* Every step of the screen keeps the invariant.
LEMMA ScreenStepInv == PanelInv /\ [ScreenNext]_screenVars => PanelInv'
PROOF
<1> SUFFICES ASSUME PanelInv, [ScreenNext]_screenVars PROVE PanelInv'
  OBVIOUS
<1>1. CASE ScreenNext
  <2>1. CASE \E d \in DetailCalls : DetailIsServed(d) \/ DetailArrives(d) \/ DetailFails(d)
    BY <2>1, DetailSteps
  <2>2. CASE ListArrives \/ \E t \in DeskTickets : SelectTicket(t)
    BY <2>2, SelectSteps
  <2>3. CASE RefreshQueue \/ ListIsServed \/ ListFails
    BY <2>3, QueueSteps
  <2>4. CASE \/ \E s \in OfferedStatuses : PressChange(s)
             \/ ChangeIsServed \/ ChangeIsReread
             \/ \E t \in DeskTickets : ColleagueChanges(t)
    BY <2>4, ChangeSteps
  <2>5. CASE \/ \E t \in DeskTickets : TickTicket(t) \/ BulkIsServed(t)
             \/ PressBulk \/ BulkSucceeds \/ BulkFails
    BY <2>5, BulkSteps
  <2>6. CASE AddNote \/ NoteIsServed \/ PastArrives
    BY <2>6, NoteSteps
  <2>7. CASE ChangeArrives \/ NoteArrives
    BY <2>7, AnswerSteps
  <2> QED
    BY <1>1, <2>1, <2>2, <2>3, <2>4, <2>5, <2>6, <2>7 DEF ScreenNext
<1>2. CASE UNCHANGED screenVars
  <2>1. /\ UNCHANGED <<deskRow, listed, listCall, chosen, panel, detailCall, change, bulk, ticked>>
        /\ UNCHANGED <<noteCall, past, crossed>>
    BY <1>2 DEF screenVars
  <2>2. ScreenTypeOK' /\ NothingBeforeTheQueue'
    BY <2>1 DEF PanelInv, ScreenTypeOK, NothingBeforeTheQueue
  <2>3. CopiesLag'
    BY <2>1, CopiesStay DEF CopiesLag, RowsAdvance
  <2>4. PanelIsAsked' /\ PastIsOfCase'
    BY <2>1, ViewStays
  <2> QED
    BY <2>2, <2>3, <2>4 DEF PanelInv
<1> QED
  BY <1>1, <1>2

\* The invariant of the screen is all the panel needs: nothing asked for, the panel shows the selected ticket.
LEMMA PanelInvShows == PanelInv => PanelIsOfItsCase
PROOF
<1> SUFFICES ASSUME PanelInv PROVE PanelIsOfItsCase
  OBVIOUS
<1>1. ScreenTypeOK /\ HistoryIsOfCase
  BY DEF PanelInv, PastIsOfCase
<1>2. ASSUME \A d \in DetailCalls : detailCall[d] = NoRow, ~crossed, chosen # NoRow
      PROVE  ActiveTicket # NoRow /\ ActiveTicket.id = chosen /\ (panel # NoRow => panel.id = chosen)
  <2>1. \A d \in DetailCalls, t \in DeskTickets : ~Asks(d, t)
    BY <1>2, NothingAssumption DEF Asks
  <2>2. panel # NoRow => panel.id = chosen
    BY <1>2, <2>1 DEF PanelInv, PanelIsAsked
  <2>3. listed # NoRow
    BY <1>2 DEF PanelInv, NothingBeforeTheQueue
  <2>4. CASE panel # NoRow
    BY <2>2, <2>4 DEF ActiveTicket
  <2>5. CASE panel = NoRow
    <3>1. ActiveTicket = [id |-> chosen, row |-> listed[chosen]]
      BY <1>2, <2>3, <2>5 DEF ActiveTicket
    <3>2. chosen \in DeskTickets /\ listed[chosen] \in DeskRow
      BY <1>1, <1>2, <2>3 DEF ScreenTypeOK
    <3>3. ActiveTicket \in Shown
      BY <3>1, <3>2 DEF Shown
    <3> QED
      BY <3>1, <3>3, <2>5, NothingAssumption
  <2> QED
    BY <2>4, <2>5
<1> QED
  BY <1>1, <1>2 DEF PanelIsOfItsCase, PanelFollowsSelection

\* A change taken by the server was made on the row the server holds.
LEMMA AcceptedAsSeen ==
    ASSUME PanelInv, [ScreenNext]_screenVars
    PROVE  /\ change.pc = "sent" /\ change'.pc = "accepted" => deskRow[change.saw.id] = change.saw.row
           /\ \A t \in DeskTickets : bulk[t].st = "asked" /\ bulk'[t].st = "ok" => deskRow[t] = bulk[t].saw
PROOF
<1> USE DEF PanelInv
<1>1. ASSUME change.pc = "sent", change'.pc = "accepted"
      PROVE  deskRow[change.saw.id] = change.saw.row
  <2>1. ChangeType(change)
    BY DEF ScreenTypeOK, ChangeType
  <2>2. change # IdleChange /\ change' # change /\ change' # IdleChange
    BY <1>1 DEF IdleChange
  <2>3. ChangeIsServed
    BY <1>1, <2>2
       DEF ScreenNext, screenVars, RefreshQueue, ListIsServed, ListArrives, ListFails, ChangeIsReread,
           ChangeArrives, PressBulk, BulkSucceeds, BulkFails, AddNote, NoteIsServed, NoteArrives, PastArrives,
           SelectTicket, TickTicket, BulkIsServed, ColleagueChanges, DetailIsServed, DetailArrives, DetailFails,
           PressChange
  <2>4. change \in [pc : {"sent", "refused"}, to : OfferedStatuses, saw : Shown]
    BY <1>1, <2>1, ChangeHolds
  <2>5. [change EXCEPT !.pc = "refused"].pc = "refused"
    BY <2>4
  <2>6. deskRow[change.saw.id].version = change.saw.row.version
    BY <1>1, <2>3, <2>5 DEF ChangeIsServed
  <2>7. Behind(deskRow, change.saw.id, change.saw.row)
    BY <1>1 DEF CopiesLag, ChangeLags
  <2> QED
    BY <2>6, <2>7 DEF Behind
<1>2. ASSUME NEW t \in DeskTickets, bulk[t].st = "asked", bulk'[t].st = "ok"
      PROVE  deskRow[t] = bulk[t].saw
  <2>1. bulk' # bulk /\ bulk' # IdleBulk /\ bulk # IdleBulk
    BY <1>2 DEF IdleBulk
  <2>2. PICK x \in DeskTickets : BulkIsServed(x)
    BY <1>2, <2>1
       DEF ScreenNext, screenVars, RefreshQueue, ListIsServed, ListArrives, ListFails, ChangeIsReread,
           ChangeIsServed, ChangeArrives, PressBulk, BulkReady, BulkSucceeds, BulkFails, AddNote, NoteIsServed,
           NoteArrives, PastArrives, SelectTicket, TickTicket, ColleagueChanges, DetailIsServed, DetailArrives,
           DetailFails, PressChange
  <2>3. bulk \in [DeskTickets -> [st : {"none", "asked", "ok", "refused"}, saw : DeskRow \cup {NoRow}]]
    BY DEF ScreenTypeOK
  <2>4. CASE x # t
    <3>1. PICK st : bulk' = [bulk EXCEPT ![x] = [@ EXCEPT !.st = st]]
      BY <2>2 DEF BulkIsServed
    <3> QED
      BY <1>2, <2>3, <2>4, <3>1
  <2>5. CASE x = t
    <3>1. [bulk EXCEPT ![t] = [@ EXCEPT !.st = "refused"]][t].st = "refused"
      BY <2>3
    <3>2. deskRow[t].version = bulk[t].saw.version
      BY <1>2, <2>2, <2>5, <3>1 DEF BulkIsServed
    <3>3. Behind(deskRow, t, bulk[t].saw)
      BY <1>2 DEF CopiesLag, BulkLags
    <3> QED
      BY <3>2, <3>3 DEF Behind
  <2> QED
    BY <2>4, <2>5
<1> QED
  BY <1>1, <1>2

\* The marks are cleared by a bulk change only when none of its tickets was refused.
LEMMA ClearedWhenSaved ==
    ASSUME PanelInv, [ScreenNext]_screenVars,
           bulk # IdleBulk, bulk' = IdleBulk, ticked' = {}, ticked # {}
    PROVE  \A t \in DeskTickets : bulk[t].st # "refused"
PROOF
<1>1. bulk \in [DeskTickets -> [st : {"none", "asked", "ok", "refused"}, saw : DeskRow \cup {NoRow}]]
  BY DEF PanelInv, ScreenTypeOK
<1>2. \A t \in DeskTickets : ~BulkIsServed(t)
  <2> SUFFICES ASSUME NEW t \in DeskTickets, BulkIsServed(t) PROVE FALSE
    OBVIOUS
  <2>1. PICK st \in {"ok", "refused"} : bulk' = [bulk EXCEPT ![t] = [@ EXCEPT !.st = st]]
    BY DEF BulkIsServed
  <2>2. bulk'[t].st = st
    BY <1>1, <2>1
  <2> QED
    BY <2>2 DEF IdleBulk
<1>3. BulkSucceeds
  BY <1>2
     DEF ScreenNext, screenVars, RefreshQueue, ListIsServed, ListArrives, ListFails, ChangeIsReread,
         ChangeIsServed, ChangeArrives, PressBulk, BulkFails, AddNote, NoteIsServed,
         NoteArrives, PastArrives, SelectTicket, TickTicket, ColleagueChanges, DetailIsServed, DetailArrives,
         DetailFails, PressChange
<1> QED
  BY <1>3 DEF BulkSucceeds

-----------------------------------------------------------------------------
\* The screen is part of the desk's specification.
LEMMA DeskRunsTheScreen ==
    /\ TicketDeskInit => ScreenInit
    /\ [TicketDeskNext]_TicketDeskVars => [ScreenNext]_screenVars
PROOF
  BY DEF TicketDeskInit, TicketDeskNext, TicketDeskVars, screenVars

\* Whatever order its answers come in, the panel shows the selected ticket once nothing is under way for it
\* and no answer crossed, and the history beside it is the one of its case (page.tsx of the ticket screen).
THEOREM PanelShowsItsCase == TicketDeskSpec => []PanelIsOfItsCase
PROOF
<1>1. TicketDeskInit => PanelInv
  BY DeskRunsTheScreen, ScreenInitInv
<1>2. PanelInv /\ [TicketDeskNext]_TicketDeskVars => PanelInv'
  BY DeskRunsTheScreen, ScreenStepInv
<1> QED
  BY <1>1, <1>2, PanelInvShows, PTL DEF TicketDeskSpec

\* A change the server takes, single or in bulk, was made on the row as the server holds it, and marks are
\* cleared for the operator only when every ticket of the bulk change was saved.
THEOREM ChangesActOnWhatIsShown == TicketDeskSpec => ActsOnWhatItShows
PROOF
<1> DEFINE Seen == /\ change.pc = "sent" /\ change'.pc = "accepted" => deskRow[change.saw.id] = change.saw.row
                   /\ \A t \in DeskTickets : bulk[t].st = "asked" /\ bulk'[t].st = "ok"
                        => deskRow[t] = bulk[t].saw
           Saved == bulk # IdleBulk /\ bulk' = IdleBulk /\ ticked' = {} /\ ticked # {}
                      => \A t \in DeskTickets : bulk[t].st # "refused"
<1>1. TicketDeskInit => PanelInv
  BY DeskRunsTheScreen, ScreenInitInv
<1>2. PanelInv /\ [TicketDeskNext]_TicketDeskVars => PanelInv'
  BY DeskRunsTheScreen, ScreenStepInv
<1>3. PanelInv /\ [TicketDeskNext]_TicketDeskVars => [Seen]_screenVars
  BY DeskRunsTheScreen, AcceptedAsSeen
<1>4. PanelInv /\ [TicketDeskNext]_TicketDeskVars => [Saved]_screenVars
  BY DeskRunsTheScreen, ClearedWhenSaved
<1>5. TicketDeskSpec => []PanelInv
  BY <1>1, <1>2, PTL DEF TicketDeskSpec
<1>6. TicketDeskSpec => [][Seen]_screenVars
  BY <1>3, <1>5, PTL DEF TicketDeskSpec
<1>7. TicketDeskSpec => [][Saved]_screenVars
  BY <1>4, <1>5, PTL DEF TicketDeskSpec
<1> QED
  BY <1>6, <1>7 DEF ActsOnWhatItShows, NoBlindUpdate, MarksClearedAreSaved
=============================================================================
