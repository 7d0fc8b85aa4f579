------------------------------ MODULE AlertCenter ------------------------------
(***************************************************************************)
(* The alerts of urgent tickets on every internal screen (apps/web         *)
(* internal/_components/P1AlertCenter.tsx): polls that may overlap or      *)
(* fail, the ids already seen, of which the latest are kept in the browser *)
(* and survive the page unless the browser refuses to write or read them,  *)
(* and the stack of alerts.  Tickets are external: they arrive, are        *)
(* resolved and are opened again.  The browser has one such page open.     *)
(***************************************************************************)
EXTENDS Naturals, FiniteSets, Sequences, SequencesExt

CONSTANTS
    Urgents,      \* P1 tickets
    Polls,        \* requests for the tickets that may be under way
    Stack,        \* alerts that are kept (5 in the code)
    Kept,         \* ids that are kept in the browser (200 in the code)
    MaxAlertOps   \* bound: polls and reloads

ASSUME AlertAssumption == {Stack, Kept, MaxAlertOps} \subseteq Nat /\ Stack > 0 /\ Kept > 0 /\ IsFiniteSet(Urgents)

VARIABLES
    urgent,       \* status of each ticket
    poll,         \* what each poll under way is answered
    seenIds,      \* the ids in the browser's storage
    seenRef,      \* the ids of the page, in the order in which they were added
    pending,      \* the stack, latest first
    raised,       \* how often each ticket was announced
    suppressed,   \* tickets marked as seen without being announced: as resolved, or as the initial avalanche
    pushed,       \* tickets that later ones pushed off the stack, or of a page left
    forgotten,    \* tickets a page knew and the next one did not find in the storage
    refused,      \* the browser did not write or read the ids
    alertOps

alertVars == <<urgent, poll, seenIds, seenRef, pending, raised, suppressed, pushed, forgotten, refused,
               alertOps>>

Idle == [pc |-> "idle"]
SeqSet(s) == {s[i] : i \in DOMAIN s}
Distinct(s) == Cardinality(SeqSet(s)) = Len(s)
SeenLists == {s \in Seq(Urgents) : Distinct(s)}
\* The stack: no ticket twice, and none the page has not seen.
PendingIsAStack ==
    /\ Len(pending) <= Stack /\ SeqSet(pending) \subseteq SeqSet(seenRef) /\ Distinct(pending)
AlertTypeOK ==
    /\ urgent \in [Urgents -> {"none", "open", "resolved"}]
    /\ poll \in [Polls -> {Idle} \cup [pc : {"answered"}, open : SUBSET Urgents, resolved : SUBSET Urgents]]
    /\ {seenIds, seenRef} \subseteq SeenLists /\ Len(seenIds) <= Kept
    /\ PendingIsAStack
    /\ raised \in [Urgents -> 0..2] /\ suppressed \subseteq Urgents
    /\ pushed \subseteq Urgents /\ forgotten \subseteq Urgents /\ refused \in BOOLEAN
    /\ alertOps \in 0..MaxAlertOps

AlertInit ==
    /\ urgent = [t \in Urgents |-> "none"] /\ poll = [p \in Polls |-> Idle]
    /\ seenIds = <<>> /\ seenRef = <<>> /\ pending = <<>>
    /\ raised = [t \in Urgents |-> 0] /\ suppressed = {} /\ pushed = {}
    /\ forgotten = {} /\ refused = FALSE /\ alertOps = 0

seenVars == <<seenIds, seenRef, suppressed, forgotten, refused>>
alertStack == <<pending, raised, pushed>>

TicketMoves(t) ==
    /\ urgent' = [urgent EXCEPT ![t] = IF @ = "open" THEN "resolved" ELSE "open"]
    /\ UNCHANGED <<poll, seenVars, alertStack, alertOps>>

\* The timer does not wait for the poll before. The server lists the tickets as they are by then.
StartPoll(p) ==
    /\ alertOps < MaxAlertOps /\ poll[p] = Idle
    /\ poll' = [poll EXCEPT ![p] = [pc |-> "answered",
                                   open |-> {t \in Urgents : urgent[t] = "open"},
                                   resolved |-> {t \in Urgents : urgent[t] = "resolved"}]]
    /\ alertOps' = alertOps + 1
    /\ UNCHANGED <<urgent, seenVars, alertStack>>

\* A poll that fails says nothing.
PollFails(p) ==
    /\ poll[p] # Idle /\ poll' = [poll EXCEPT ![p] = Idle]
    /\ UNCHANGED <<urgent, seenVars, alertStack, alertOps>>

Seen == SeqSet(seenRef)
Fresh(p) == poll[p].open \ Seen
Orders(S) == {s \in [1..Cardinality(S) -> S] : SeqSet(s) = S}
Raise(S) ==
    raised' = [t \in Urgents |-> IF t \in S /\ raised[t] < 2 THEN raised[t] + 1 ELSE raised[t]]
Top(s) == SubSeq(s, 1, IF Len(s) < Stack THEN Len(s) ELSE Stack)

\* Mutant: one id less is kept.
LatestButOne(ids) == SubSeq(ids, IF Len(ids) < Kept THEN 1 ELSE Len(ids) - Kept + 2, Len(ids))
\* The latest of the ids: what writeSeenIds keeps of them.
Latest(ids) == SubSeq(ids, IF Len(ids) <= Kept THEN 1 ELSE Len(ids) - Kept + 1, Len(ids))

\* The ids are added and written; a write the browser refuses is ignored.
MarkSeen(order) ==
    /\ seenRef' = seenRef \o order
    /\ \/ seenIds' = Latest(seenRef \o order) /\ UNCHANGED refused
       \/ seenIds' = seenIds /\ refused' = TRUE

\* Nothing fresh: all that is listed counts as seen, what is resolved too.
NothingFresh(p) ==
    /\ poll[p].pc = "answered" /\ Fresh(p) = {}
    /\ \E order \in Orders(poll[p].resolved \ Seen) : MarkSeen(order)
    /\ suppressed' = suppressed \cup (poll[p].resolved \ Seen)
    /\ poll' = [poll EXCEPT ![p] = Idle]
    /\ UNCHANGED <<urgent, forgotten, alertStack, alertOps>>

\* Fresh tickets while nothing was ever seen: marked, not announced.
FirstRun(p) ==
    /\ poll[p].pc = "answered" /\ Fresh(p) # {} /\ Seen = {}
    /\ \E order \in Orders(Fresh(p)) : MarkSeen(order)
    /\ suppressed' = suppressed \cup Fresh(p) /\ poll' = [poll EXCEPT ![p] = Idle]
    /\ UNCHANGED <<urgent, forgotten, alertStack, alertOps>>

\* Mutant: as many are announced as there is room for.
AnnounceSome(p) ==
    /\ poll[p].pc = "answered" /\ Fresh(p) # {} /\ Seen # {}
    /\ \E order \in Orders(Fresh(p)) :
         MarkSeen(order) /\ pending' = Top(order \o pending) /\ Raise(SeqSet(Top(order)))
    /\ pushed' = pushed \cup (SeqSet(pending) \ SeqSet(pending'))
    /\ poll' = [poll EXCEPT ![p] = Idle]
    /\ UNCHANGED <<urgent, suppressed, forgotten, alertOps>>
\* Fresh tickets later: marked, announced to the browser and put on the stack in
\* reverse, from which the oldest fall.
Announce(p) ==
    /\ poll[p].pc = "answered" /\ Fresh(p) # {} /\ Seen # {}
    /\ \E order \in Orders(Fresh(p)) : MarkSeen(order) /\ pending' = Top(Reverse(order) \o pending)
    /\ Raise(Fresh(p))
    /\ pushed' = pushed \cup (IF Cardinality(Fresh(p)) > Stack
                              THEN (SeqSet(pending) \cup Fresh(p)) \ SeqSet(pending')
                              ELSE SeqSet(pending) \ SeqSet(pending'))
    /\ poll' = [poll EXCEPT ![p] = Idle]
    /\ UNCHANGED <<urgent, suppressed, forgotten, alertOps>>

\* The alert is filtered out of the stack, which holds no ticket twice.
Without(s, i) == SubSeq(s, 1, i - 1) \o SubSeq(s, i + 1, Len(s))
Dismiss(t) ==
    /\ \E i \in DOMAIN pending : pending[i] = t /\ pending' = Without(pending, i)
    /\ pushed' = pushed \cup {t}
    /\ UNCHANGED <<urgent, poll, seenVars, raised, alertOps>>

\* The page is left and opened again: the stack is empty, the ids that were kept are
\* read, none when that fails, and polls of the page before are cancelled.
Remount ==
    /\ alertOps < MaxAlertOps /\ alertOps' = alertOps + 1
    /\ \/ seenRef' = seenIds /\ UNCHANGED refused
       \/ seenRef' = <<>> /\ refused' = TRUE
    /\ forgotten' = forgotten \cup (Seen \ SeqSet(seenRef'))
    /\ pending' = <<>> /\ poll' = [p \in Polls |-> Idle]
    /\ pushed' = pushed \cup SeqSet(pending)
    /\ UNCHANGED <<urgent, seenIds, raised, suppressed>>

AlertNext ==
    \/ \E t \in Urgents : TicketMoves(t) \/ Dismiss(t)
    \/ \E p \in Polls : StartPoll(p) \/ PollFails(p) \/ NothingFresh(p) \/ FirstRun(p) \/ Announce(p)
    \/ Remount

AlertSpec == AlertInit /\ [][AlertNext]_alertVars

-----------------------------------------------------------------------------
\* A ticket that counts as seen has been announced, or a poll left it out on purpose:
\* as resolved, or as the first.
Handled == {t \in Urgents : raised[t] > 0} \cup suppressed
SeenIsAnnounced == Seen \cup SeqSet(seenIds) \subseteq Handled

\* A ticket announced is on the stack until it is dismissed, the page is left, or
\* enough later ones were announced.
RaisedIsOnStack == \A t \in Urgents : raised[t] > 0 => t \in SeqSet(pending) \cup pushed

\* A ticket is announced once, also by polls that overlap and after the page was
\* opened again, unless its id was forgotten; and none is forgotten before there were more
\* urgent tickets than ids that are kept, or the browser refused to keep them.
AnnouncedOnce ==
    /\ \A t \in Urgents : raised[t] > 1 => t \in forgotten
    /\ forgotten # {} => refused \/ Cardinality(Handled) > Kept

=============================================================================
