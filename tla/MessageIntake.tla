---------------------------- MODULE MessageIntake ----------------------------
(***************************************************************************)
(* The inbound-message pipeline of the Hono API: the Messenger and         *)
(* WhatsApp webhooks (routes/channels.ts), the conversation service's      *)
(* handleIncomingMessage and the manual takeover (services/conversations). *)
(*                                                                         *)
(* No request runs in a database transaction, so every awaited statement   *)
(* is a step of its own and the requests interleave at each of them.  A    *)
(* request that throws, or whose isolate dies, answers no 200; the channel *)
(* platform then delivers the same batch again, and it may also deliver a  *)
(* batch again that is still being worked on or was acknowledged.          *)
(***************************************************************************)
EXTENDS Integers, Sequences, FiniteSets

CONSTANTS
  Handlers,       \* webhook requests that can be in flight together
  Operators,      \* operators pressing "take over" in the console
  Messages,       \* inbound items, identified by the platform's message id
  Conversations,  \* (client, channel, external conversation id) triples
  Batches,        \* webhook payloads
  Items,          \* [Batches -> Seq(Messages)], the items of a payload
  ConvOf,         \* [Messages -> Conversations]
  Kind,           \* [Messages -> {"text", "csat", "unroutable"}]
  Outcomes,       \* [Messages -> SUBSET Outcome], what the AI may decide
  MaxFailures,    \* bound on crashes and thrown errors
  MaxDuplicates   \* bound on deliveries the platform did not need to make

\* An answer that needs no human, or the priority of the ticket it raises.
Outcome == {"answer", "P1", "P2", "P3"}

ASSUME IntakeAssumption ==
  /\ "takeover" \notin Messages
  /\ Items \in [Batches -> Seq(Messages)]
  /\ ConvOf \in [Messages -> Conversations]
  /\ Kind \in [Messages -> {"text", "csat", "unroutable"}]
  /\ Outcomes \in [Messages -> (SUBSET Outcome) \ {{}}]
  /\ MaxFailures \in Nat
  /\ MaxDuplicates \in Nat

VARIABLES
  conv,       \* conversation rows: row exists, ticketId (0: null), has a CSAT score
  inbound,    \* messages with an inbound row
  reply,      \* message -> outcome of its "reply:<id>" row, or "none"
  tickets,    \* ticket rows in the order of creation; a ticket's id is its index
  announced,  \* tickets whose "ticket.created" event is stored
  pinged,     \* tickets whose point of contact was alerted
  acked,      \* batches answered with status 200
  run,        \* the requests
  desk,       \* the takeover requests
  sends,      \* history: message -> replies handed to the customer
  admitted,   \* history: message -> runs let past the duplicate check
  failures, duplicates

rows == <<conv, inbound, reply, tickets, announced, pinged>>
vars == <<rows, acked, run, desk, sends, admitted, failures, duplicates>>

NoRun == [pc |-> "idle", batch |-> "none", pos |-> 0, seen |-> FALSE,
          outcome |-> "none", ticket |-> 0]
AtRoute(b, i) == [NoRun EXCEPT !.pc = "route", !.batch = b, !.pos = i]
NoTakeover == [pc |-> "ready", conv |-> "none", ticket |-> 0]

Conversation == [exists : BOOLEAN, ticket : Nat, rated : BOOLEAN]
Ticket == [conv : Conversations, prio : {"P1", "P2", "P3"}, msg : Messages \union {"takeover"}]

RunPC == {"idle", "route", "upsert", "check", "logInbound", "generate", "logReply",
          "insertTicket", "announce", "notify", "saveResult", "send"}
DeskPC == {"ready", "insertTicket", "announce", "attach", "record", "done", "failed"}

TypeOK ==
  /\ conv \in [Conversations -> Conversation]
  /\ inbound \subseteq Messages
  /\ reply \in [Messages -> Outcome \union {"none"}]
  /\ tickets \in Seq(Ticket)
  /\ announced \subseteq Nat
  /\ pinged \subseteq Nat
  /\ acked \subseteq Batches
  /\ run \in [Handlers -> [pc : RunPC, batch : Batches \union {"none"}, pos : Nat,
                           seen : BOOLEAN, outcome : Outcome \union {"none"}, ticket : Nat]]
  /\ desk \in [Operators -> [pc : DeskPC, conv : Conversations \union {"none"}, ticket : Nat]]
  /\ sends \in [Messages -> Nat]
  /\ admitted \in [Messages -> Nat]
  /\ failures \in 0..MaxFailures
  /\ duplicates \in 0..MaxDuplicates

Init ==
  /\ conv = [c \in Conversations |-> [exists |-> FALSE, ticket |-> 0, rated |-> FALSE]]
  /\ inbound = {}
  /\ reply = [m \in Messages |-> "none"]
  /\ tickets = <<>>
  /\ announced = {}
  /\ pinged = {}
  /\ acked = {}
  /\ run = [h \in Handlers |-> NoRun]
  /\ desk = [o \in Operators |-> NoTakeover]
  /\ sends = [m \in Messages |-> 0]
  /\ admitted = [m \in Messages |-> 0]
  /\ failures = 0
  /\ duplicates = 0

-----------------------------------------------------------------------------
(* Deliveries by the channel platform.                                     *)

WorkingOn(b) == \E h \in Handlers : run[h].pc # "idle" /\ run[h].batch = b

Start(h, b) ==
  /\ run[h].pc = "idle"
  /\ run' = [run EXCEPT ![h] = AtRoute(b, 1)]
  /\ UNCHANGED <<rows, acked, desk, sends, admitted, failures>>

\* The first delivery, or the next one after a delivery that was not answered 200.
Deliver(h, b) ==
  /\ b \notin acked
  /\ ~WorkingOn(b)
  /\ Start(h, b)
  /\ UNCHANGED duplicates

\* A delivery on top of one that is in progress or has been acknowledged.
Duplicate(h, b) ==
  /\ duplicates < MaxDuplicates
  /\ b \in acked \/ WorkingOn(b)
  /\ Start(h, b)
  /\ duplicates' = duplicates + 1

-----------------------------------------------------------------------------
(* The request.                                                            *)

Msg(h) == Items[run[h].batch][run[h].pos]
Goto(h, pc) == run' = [run EXCEPT ![h].pc = pc]
NextItem(h) == run' = [run EXCEPT ![h] = AtRoute(run[h].batch, run[h].pos + 1)]
Throw(h) == run' = [run EXCEPT ![h] = NoRun]

AtItem(h, pc) ==
  /\ run[h].pc = pc
  /\ run[h].pos <= Len(Items[run[h].batch])

\* All items handled: the webhook answers 200.
Respond(h) ==
  /\ run[h].pc = "route"
  /\ run[h].pos > Len(Items[run[h].batch])
  /\ acked' = acked \union {run[h].batch}
  /\ Throw(h)
  /\ UNCHANGED <<rows, desk, sends, admitted, failures, duplicates>>

\* The page or number of the entry belongs to no client: NotFoundError aborts
\* the request, the items behind it included.
RejectUnroutable(h) ==
  /\ AtItem(h, "route")
  /\ Kind[Msg(h)] = "unroutable"
  /\ Throw(h)
  /\ UNCHANGED <<rows, acked, desk, sends, admitted, failures, duplicates>>

\* A rating updates the conversation row if there is one (a rating for an
\* unknown conversation is acknowledged and dropped) and is never replied to.
CaptureCsat(h) ==
  /\ AtItem(h, "route")
  /\ Kind[Msg(h)] = "csat"
  /\ conv' = [conv EXCEPT ![ConvOf[Msg(h)]].rated = conv[ConvOf[Msg(h)]].exists]
  /\ NextItem(h)
  /\ UNCHANGED <<inbound, reply, tickets, announced, pinged, acked, desk, sends,
                 admitted, failures, duplicates>>

\* upsertConversation, first statement: look the conversation up.
FindConversation(h) ==
  /\ AtItem(h, "route")
  /\ Kind[Msg(h)] = "text"
  /\ run' = [run EXCEPT ![h] = [@ EXCEPT !.pc = "upsert", !.seen = conv[ConvOf[Msg(h)]].exists]]
  /\ UNCHANGED <<rows, acked, desk, sends, admitted, failures, duplicates>>

OnInsertConflict(h) == Throw(h)

\* Second statement: update the row found, or insert one.  The unique index
\* refuses the insert of a row another request inserted in between.
UpsertConversation(h) ==
  LET c == ConvOf[Msg(h)] IN
  /\ AtItem(h, "upsert")
  /\ IF ~run[h].seen /\ conv[c].exists
       THEN OnInsertConflict(h) /\ UNCHANGED conv
       ELSE Goto(h, "check") /\ conv' = [conv EXCEPT ![c].exists = TRUE]
  /\ UNCHANGED <<inbound, reply, tickets, announced, pinged, acked, desk, sends,
                 admitted, failures, duplicates>>

\* Mutants: no duplicate check; a check on the inbound row instead of the reply.
ForgetsReplies(m) == FALSE
AlreadyReceived(m) == m \in inbound

\* messageExists("reply:<id>").
AlreadyAnswered(m) == reply[m] # "none"

\* A message with a reply row is skipped: no new reply, no ticket, no send.
CheckDuplicate(h) ==
  /\ AtItem(h, "check")
  /\ IF AlreadyAnswered(Msg(h))
       THEN NextItem(h) /\ UNCHANGED admitted
       ELSE /\ Goto(h, "logInbound")
            /\ admitted' = [admitted EXCEPT ![Msg(h)] = @ + 1]
  /\ UNCHANGED <<rows, acked, desk, sends, failures, duplicates>>

\* Mutant: the inbound message is not stored.
InboundNotStored(h) ==
  /\ AtItem(h, "logInbound")
  /\ Goto(h, "generate")
  /\ UNCHANGED <<rows, acked, desk, sends, admitted, failures, duplicates>>

LogInbound(h) ==
  /\ AtItem(h, "logInbound")
  /\ inbound' = inbound \union {Msg(h)}
  /\ Goto(h, "generate")
  /\ UNCHANGED <<conv, reply, tickets, announced, pinged, acked, desk, sends,
                 admitted, failures, duplicates>>

\* Knowledge retrieval, prompt profile and model call: one outcome is chosen.
GenerateReply(h) ==
  /\ AtItem(h, "generate")
  /\ \E r \in Outcomes[Msg(h)] :
       run' = [run EXCEPT ![h] = [@ EXCEPT !.pc = "logReply", !.outcome = r]]
  /\ UNCHANGED <<rows, acked, desk, sends, admitted, failures, duplicates>>

\* Mutants: only urgent replies raise a ticket; every reply does.
OnlyUrgent(outcome) == outcome = "P1"
Always(outcome) == TRUE

ShouldEscalate(outcome) == outcome # "answer"

\* addMessage upserts on the message id: a second run overwrites the row.
UpsertReply(m, outcome) == reply' = [reply EXCEPT ![m] = outcome]

LogReply(h) ==
  /\ AtItem(h, "logReply")
  /\ UpsertReply(Msg(h), run[h].outcome)
  /\ Goto(h, IF ShouldEscalate(run[h].outcome) THEN "insertTicket" ELSE "saveResult")
  /\ UNCHANGED <<conv, inbound, tickets, announced, pinged, acked, desk, sends,
                 admitted, failures, duplicates>>

\* createFromEscalation: every escalation is a ticket of its own.
EscalationTicket(h) == [conv |-> ConvOf[Msg(h)], prio |-> run[h].outcome, msg |-> Msg(h)]

\* saveTicket, first statement.
InsertTicket(h) ==
  /\ AtItem(h, "insertTicket")
  /\ tickets' = Append(tickets, EscalationTicket(h))
  /\ run' = [run EXCEPT ![h] = [@ EXCEPT !.pc = "announce", !.ticket = Len(tickets) + 1]]
  /\ UNCHANGED <<conv, inbound, reply, announced, pinged, acked, desk, sends,
                 admitted, failures, duplicates>>

\* saveTicket, second statement: the "ticket.created" event.
AnnounceTicket(h) ==
  /\ AtItem(h, "announce")
  /\ announced' = announced \union {run[h].ticket}
  /\ Goto(h, "notify")
  /\ UNCHANGED <<conv, inbound, reply, tickets, pinged, acked, desk, sends,
                 admitted, failures, duplicates>>

\* notifyPocForUrgentTicket: only P1 tickets alert, and a failed alert is
\* recorded and swallowed.
NotifyPoc(h) ==
  /\ AtItem(h, "notify")
  /\ \/ run[h].outcome = "P1" /\ pinged' = pinged \union {run[h].ticket}
     \/ UNCHANGED pinged
  /\ Goto(h, "saveResult")
  /\ UNCHANGED <<conv, inbound, reply, tickets, announced, acked, desk, sends,
                 admitted, failures, duplicates>>

\* Mutants: a reply without a ticket clears the link; the newest ticket row is
\* linked instead of the run's own.
ClearsTicket(h) == run[h].ticket
NewestTicket(h) == IF run[h].ticket = 0 THEN conv[ConvOf[Msg(h)]].ticket ELSE Len(tickets)

\* An undefined ticketId is left out of the UPDATE, so the old link stays.
LinkAfter(h) ==
  IF run[h].ticket = 0 THEN conv[ConvOf[Msg(h)]].ticket ELSE run[h].ticket

SaveResult(h) ==
  /\ AtItem(h, "saveResult")
  /\ conv' = [conv EXCEPT ![ConvOf[Msg(h)]].ticket = LinkAfter(h)]
  /\ Goto(h, "send")
  /\ UNCHANGED <<inbound, reply, tickets, announced, pinged, acked, desk, sends,
                 admitted, failures, duplicates>>

\* channelSend.sendText in the route, after the service has returned.
SendReply(h) ==
  /\ AtItem(h, "send")
  /\ sends' = [sends EXCEPT ![Msg(h)] = @ + 1]
  /\ NextItem(h)
  /\ UNCHANGED <<rows, acked, desk, admitted, failures, duplicates>>

\* Any awaited call may reject and any isolate may die: the request ends there.
Fail(h) ==
  /\ run[h].pc # "idle"
  /\ failures < MaxFailures
  /\ failures' = failures + 1
  /\ Throw(h)
  /\ UNCHANGED <<rows, acked, desk, sends, admitted, duplicates>>

-----------------------------------------------------------------------------
(* Manual takeover: createFromManualTakeover.                              *)

\* The conversation is read once; an existing ticket is returned as it is.
BeginTakeover(o, c) ==
  /\ desk[o].pc = "ready"
  /\ conv[c].exists
  /\ desk' = [desk EXCEPT ![o] =
       [pc |-> IF conv[c].ticket # 0 THEN "done" ELSE "insertTicket",
        conv |-> c, ticket |-> conv[c].ticket]]
  /\ UNCHANGED <<rows, acked, run, sends, admitted, failures, duplicates>>

TakeoverInsert(o) ==
  /\ desk[o].pc = "insertTicket"
  /\ tickets' = Append(tickets, [conv |-> desk[o].conv, prio |-> "P2", msg |-> "takeover"])
  /\ desk' = [desk EXCEPT ![o] = [@ EXCEPT !.pc = "announce", !.ticket = Len(tickets) + 1]]
  /\ UNCHANGED <<conv, inbound, reply, announced, pinged, acked, run, sends,
                 admitted, failures, duplicates>>

TakeoverAnnounce(o) ==
  /\ desk[o].pc = "announce"
  /\ announced' = announced \union {desk[o].ticket}
  /\ desk' = [desk EXCEPT ![o].pc = "attach"]
  /\ UNCHANGED <<conv, inbound, reply, tickets, pinged, acked, run, sends,
                 admitted, failures, duplicates>>

TakeoverAttach(o) ==
  /\ desk[o].pc = "attach"
  /\ conv' = [conv EXCEPT ![desk[o].conv].ticket = desk[o].ticket]
  /\ desk' = [desk EXCEPT ![o].pc = "record"]
  /\ UNCHANGED <<inbound, reply, tickets, announced, pinged, acked, run, sends,
                 admitted, failures, duplicates>>

\* The takeover's own audit event, whose contents are left out.
TakeoverRecord(o) ==
  /\ desk[o].pc = "record"
  /\ desk' = [desk EXCEPT ![o].pc = "done"]
  /\ UNCHANGED <<rows, acked, run, sends, admitted, failures, duplicates>>

TakeoverFail(o) ==
  /\ desk[o].pc \in {"insertTicket", "announce", "attach", "record"}
  /\ failures < MaxFailures
  /\ failures' = failures + 1
  /\ desk' = [desk EXCEPT ![o].pc = "failed"]
  /\ UNCHANGED <<rows, acked, run, sends, admitted, duplicates>>

-----------------------------------------------------------------------------
Step(h) ==
  \/ Respond(h) \/ RejectUnroutable(h) \/ CaptureCsat(h)
  \/ FindConversation(h) \/ UpsertConversation(h) \/ CheckDuplicate(h)
  \/ LogInbound(h) \/ GenerateReply(h) \/ LogReply(h)
  \/ InsertTicket(h) \/ AnnounceTicket(h) \/ NotifyPoc(h)
  \/ SaveResult(h) \/ SendReply(h)

Takeover(o) ==
  \/ \E c \in Conversations : BeginTakeover(o, c)
  \/ TakeoverInsert(o) \/ TakeoverAnnounce(o) \/ TakeoverAttach(o)
  \/ TakeoverRecord(o) \/ TakeoverFail(o)

Next ==
  \/ \E h \in Handlers, b \in Batches : Deliver(h, b) \/ Duplicate(h, b)
  \/ \E h \in Handlers : Step(h) \/ Fail(h)
  \/ \E o \in Operators : Takeover(o)

Spec == Init /\ [][Next]_vars

\* A started request runs on, and an unanswered batch is delivered again.  The
\* Worker runtime has no limit like Handlers, hence strong fairness on delivery.
Fairness ==
  /\ \A h \in Handlers : WF_vars(Step(h))
  /\ \A b \in Batches : SF_vars(\E h \in Handlers : Deliver(h, b))

FairSpec == Spec /\ Fairness

-----------------------------------------------------------------------------
(* Properties.                                                             *)

Escalated == {"P1", "P2", "P3"}
TicketsFor(m) == {t \in DOMAIN tickets : tickets[t].msg = m}
PastCheck == RunPC \ {"idle", "route", "upsert", "check"}
BusyWith(m) == \E h \in Handlers : run[h].pc \in PastCheck /\ Msg(h) = m
DeskIdle == \A o \in Operators : desk[o].pc \in {"ready", "done"}
TextIn(b) == {m \in Messages : Kind[m] = "text" /\ \E i \in DOMAIN Items[b] : Items[b][i] = m}

\* The ticket a conversation links, and the ticket an operator is given, is a
\* stored ticket of that very conversation whose creation event is stored too,
\* whatever crashes and however requests overlap (saveTicket writes ticket and
\* event before setConversationResult or attachTicketToConversation link them).
LinkSound ==
  /\ \A c \in Conversations : conv[c].ticket # 0 =>
       /\ conv[c].ticket \in DOMAIN tickets \cap announced
       /\ tickets[conv[c].ticket].conv = c
  /\ \A o \in Operators : desk[o].pc = "done" =>
       /\ desk[o].ticket \in DOMAIN tickets \cap announced
       /\ tickets[desk[o].ticket].conv = desk[o].conv

\* A ticket the AI raised has the customer's message and a reply on record, and
\* only a P1 ticket alerts the point of contact: handleIncomingMessage stores
\* both rows before it creates the ticket.
TicketHasRecord ==
  /\ \A t \in DOMAIN tickets : tickets[t].msg # "takeover" =>
       /\ tickets[t].msg \in inbound
       /\ reply[tickets[t].msg] # "none"
       /\ conv[tickets[t].conv].exists
  /\ \A t \in pinged : tickets[t].prio = "P1"

\* Without a crash no conversation with a ticket ends up without a link to
\* one: a later answer that raises no ticket leaves the link alone.
NoOrphanTicket ==
  (failures = 0 /\ DeskIdle /\ \A h \in Handlers : run[h].pc = "idle") =>
    \A t \in DOMAIN tickets : conv[tickets[t].conv].ticket # 0

\* Without a crash an escalating reply always has, or is about to have, its
\* ticket, duplicates and overlapping requests included.
EscalationRaised ==
  failures = 0 =>
    \A m \in Messages : reply[m] \in Escalated => TicketsFor(m) # {} \/ BusyWith(m)

\* With no crash and no needless delivery every message is answered exactly
\* once, even if a request loses the race for a new conversation row, throws
\* and is delivered again behind items it had already handled.
CleanDeliveryIsExact ==
  failures = 0 /\ duplicates = 0 =>
    /\ \A m \in Messages : sends[m] <= 1 /\ Cardinality(TicketsFor(m)) <= 1
    /\ \A b \in acked : \A m \in TextIn(b) : sends[m] = 1 /\ reply[m] # "none"

\* What intake promises for each message, stated without requests: a message that
\* has a reply on record is not let in again, and every ticket and every send has
\* an admission of its own behind it (duplicate check).
Contract == INSTANCE IntakeContract WITH
  answered <- {m \in Messages : reply[m] # "none"},
  raised <- [m \in Messages |-> Cardinality(TicketsFor(m))]
ImplementsContract == Contract!Spec

Settled(b) == b \in acked /\ \A m \in TextIn(b) : reply[m] # "none" /\ m \in inbound

\* If failures stop, a batch of known pages whose delivery has begun is acknowledged
\* for good, with a reply on record for each of its text messages, although its
\* first delivery may have thrown half way.
EveryBatchSettles ==
  \A b \in Batches : (\A i \in DOMAIN Items[b] : Kind[Items[b][i]] # "unroutable") =>
    (WorkingOn(b) ~> []Settled(b))

\* README.md: "Create a ticket when confidence is too low or escalation
\* language is detected": an acknowledged message whose reply escalates has one.
EscalationHasTicket ==
  \A b \in acked : \A m \in TextIn(b) :
    reply[m] \in Escalated /\ ~BusyWith(m) => TicketsFor(m) # {}
=============================================================================
