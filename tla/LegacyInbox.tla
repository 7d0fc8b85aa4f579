----------------------------- MODULE LegacyInbox -----------------------------
(* Message intake of the NestJS API: the Messenger and WhatsApp webhooks, the *)
(* web chat, ConversationService, TicketService and the repository under     *)
(* them (apps/api/src).  No statement of an intake shares a transaction with *)
(* another, and nothing claims a message: a repeated delivery is recognised  *)
(* by the reply it finds recorded.                                           *)
EXTENDS Naturals, Sequences, FiniteSets

CONSTANTS
    CustMsgs,        \* customer messages, by the channel's message id
    Ratings,         \* those that parse as a CSAT score
    Threads,         \* conversations, each with its one sender
    ThreadOf,        \* message -> conversation
    Hooks,           \* webhook deliveries
    Batches,         \* what a delivery may carry: sequences of messages
    LReplies,        \* replies to choose from: "auto", "answer", "escalate" or "urgent"
    DeskJobs,        \* requests of operators that take several statements
    DeskStatuses,    \* statuses operators set
    LTickets,        \* ticket ids, fresh ones
    TestSenders,     \* conversations whose sender is marked a test customer
    NoTicket

ASSUME InboxAssumption ==
    /\ Ratings \subseteq CustMsgs
    /\ LReplies \subseteq {"auto", "answer", "escalate", "urgent"}
    /\ ThreadOf \in [CustMsgs -> Threads]
    /\ TestSenders \subseteq Threads
    /\ Batches \subseteq Seq(CustMsgs) \ {<< >>}
    /\ NoTicket \notin LTickets
    /\ "none" \notin CustMsgs

VARIABLES
    thread,      \* conversation -> [known, ticket, confidence, autoQa, csat]
    inbound,     \* messages stored
    replied,     \* messages whose reply is stored under reply:<id>
    sent,        \* message -> replies handed to the channel
    tix,         \* ticket -> row, or NoTicket
    blockedSenders,
    hook,        \* delivery -> where it stands
    deskJob,     \* operator request -> where it stands
    inboxOverlapped,  \* history: messages two deliveries worked on at once
    crowded,     \* history: conversations two deliveries worked on at once
    broken,      \* history: conversations on which a delivery or request stopped half-way
    dropped      \* history: messages a delivery let go because their sender was blocked

history == <<inboxOverlapped, crowded, broken, dropped>>
inboxVars == <<thread, inbound, replied, sent, tix, blockedSenders, hook, deskJob, history>>

NoMsg == "none"
TicketRow == [thread : Threads, msg : CustMsgs \cup {NoMsg},
              status : DeskStatuses \cup {"open", "assigned", "reopened"}, urgent : BOOLEAN,
              ping : {"none", "sent", "failed"}]

\* "No ticket" is not a ticket.
ASSUME NoTicketAssumption == NoTicket \notin TicketRow

IdleHook == [pc |-> "idle", batch |-> << >>, at |-> 0, seen |-> NoTicket, fresh |-> FALSE, reply |-> NoMsg]
IdleDesk == [pc |-> "idle", ticket |-> NoTicket, thread |-> NoMsg]

Msg(h) == hook[h].batch[hook[h].at]
Th(h) == ThreadOf[Msg(h)]
HookRuns(h) == hook[h].pc \notin {"idle", "done", "failed"}
DeskRuns(d) == deskJob[d].pc # "idle"
Saved(t) == tix[t] # NoTicket
\* parseCsatScore: the message is a rating.
IsRating(m) == m \in Ratings
\* The service that knows the senders an operator has blocked.
IsBlocked(c) == c \in blockedSenders
\* Replies that make a ticket; getPriority calls a refund or a complaint urgent.
Escalating == {"escalate", "urgent"}

InboxInit ==
    /\ thread = [c \in Threads |-> [known |-> FALSE, ticket |-> NoTicket, confidence |-> NoMsg, autoQa |-> NoMsg,
                                    csat |-> NoMsg]]
    /\ inbound = {} /\ replied = {}
    /\ sent = [m \in CustMsgs |-> 0]
    /\ tix = [t \in LTickets |-> NoTicket]
    /\ blockedSenders = {}
    /\ hook = [h \in Hooks |-> IdleHook]
    /\ deskJob = [d \in DeskJobs |-> IdleDesk]
    /\ inboxOverlapped = {} /\ crowded = {} /\ broken = {} /\ dropped = {}
-----------------------------------------------------------------------------
(* One delivery: its messages in order, each through handleIncomingMessage,  *)
(* then the reply to the channel.                                            *)

Step(h, pc) == hook' = [hook EXCEPT ![h].pc = pc]

\* History: delivery h turns to message m while others run.
Meets(h, m) ==
    LET others == {g \in Hooks \ {h} : HookRuns(g)}
    IN /\ inboxOverlapped' = inboxOverlapped \cup {x \in {m} : \E g \in others : Msg(g) = m}
       /\ crowded' = crowded \cup {c \in {ThreadOf[m]} : \E g \in others : Th(g) = c}

ReceiveDelivery(h, b) ==
    /\ hook[h].pc = "idle"
    /\ hook' = [hook EXCEPT ![h] = [IdleHook EXCEPT !.pc = "begin", !.batch = b, !.at = 1]]
    /\ Meets(h, b[1])
    /\ UNCHANGED <<thread, inbound, replied, sent, tix, blockedSenders, deskJob, broken, dropped>>

\* The next message of the batch, or 200.
NextMessage(h) ==
    /\ hook[h].pc = "next"
    /\ IF hook[h].at < Len(hook[h].batch)
       THEN /\ hook' = [hook EXCEPT ![h] = [IdleHook EXCEPT !.pc = "begin", !.batch = hook[h].batch, !.at = hook[h].at + 1]]
            /\ Meets(h, hook[h].batch[hook[h].at + 1])
       ELSE /\ hook' = [hook EXCEPT ![h] = [IdleHook EXCEPT !.pc = "done", !.batch = hook[h].batch]]
            /\ UNCHANGED <<inboxOverlapped, crowded>>
    /\ UNCHANGED <<thread, inbound, replied, sent, tix, blockedSenders, deskJob, broken, dropped>>

\* A statement or the send throws, or the process dies: 500 or nothing, and the channel delivers again.
DeliveryFails(h) ==
    /\ HookRuns(h)
    /\ hook' = [hook EXCEPT ![h] = [IdleHook EXCEPT !.pc = "failed"]]
    /\ broken' = broken \cup {Th(h)}
    /\ UNCHANGED <<thread, inbound, replied, sent, tix, blockedSenders, deskJob, inboxOverlapped, crowded, dropped>>

\* captureCsatByExternalConversation: nothing is stored for a conversation not known.
CaptureCsat(h) ==
    /\ hook[h].pc = "begin"
    /\ IsRating(Msg(h))
    /\ thread' = IF thread[Th(h)].known THEN [thread EXCEPT ![Th(h)].csat = Msg(h)] ELSE thread
    /\ Step(h, "next")
    /\ UNCHANGED <<inbound, replied, sent, tix, blockedSenders, deskJob, history>>

\* upsertConversation, which tells the ticket it names, and isBlocked.
UpsertConversation(h) ==
    /\ hook[h].pc = "begin"
    /\ ~IsRating(Msg(h))
    /\ thread' = [thread EXCEPT ![Th(h)].known = TRUE]
    /\ IF IsBlocked(Th(h))
       THEN /\ Step(h, "next")
            /\ dropped' = dropped \cup {Msg(h)}
       ELSE /\ hook' = [hook EXCEPT ![h].pc = IF thread[Th(h)].ticket = NoTicket THEN "exists" ELSE "detail",
                                   ![h].seen = thread[Th(h)].ticket]
            /\ UNCHANGED dropped
    /\ UNCHANGED <<inbound, replied, sent, tix, blockedSenders, deskJob, inboxOverlapped, crowded, broken>>

\* reopenIfResolved: the detail is read, then the update names the version that was read.  Versions only grow,
\* so what matters of one is whether the ticket changed since: fresh.
ReadForReopen(h) ==
    /\ hook[h].pc = "detail"
    /\ hook' = IF tix[hook[h].seen].status = "resolved" THEN [hook EXCEPT ![h].pc = "reopen", ![h].fresh = TRUE]
                                                    ELSE [hook EXCEPT ![h].pc = "exists", ![h].seen = NoTicket]
    /\ UNCHANGED <<thread, inbound, replied, sent, tix, blockedSenders, deskJob, history>>

\* Every change of ticket t makes the versions read of it old.
Outdated(t) == [h \in Hooks |-> IF hook[h].seen = t /\ hook[h].pc = "reopen" THEN [hook[h] EXCEPT !.fresh = FALSE] ELSE hook[h]]

Leaving(hs, h) == [hs EXCEPT ![h].pc = "exists", ![h].seen = NoTicket, ![h].fresh = FALSE]

\* Mutant: reopening does not say which version it read.
ReopenAnyVersion(h) ==
    /\ hook[h].pc = "reopen"
    /\ tix' = [tix EXCEPT ![hook[h].seen].status = "reopened"]
    /\ hook' = Leaving(Outdated(hook[h].seen), h)
    /\ UNCHANGED <<thread, inbound, replied, sent, blockedSenders, deskJob, history>>
\* updateTicketStatus finds the row by id and version in one transaction.
Reopen(h) ==
    /\ hook[h].pc = "reopen" /\ hook[h].fresh
    /\ tix' = [tix EXCEPT ![hook[h].seen].status = "reopened"]
    /\ hook' = Leaving(Outdated(hook[h].seen), h)
    /\ UNCHANGED <<thread, inbound, replied, sent, blockedSenders, deskJob, history>>

\* A conflict, or a failure of either statement, is caught and logged, and the message is handled all the same.
ReopenFails(h) ==
    /\ hook[h].pc \in {"detail", "reopen"}
    /\ hook' = Leaving(hook, h)
    /\ UNCHANGED <<thread, inbound, replied, sent, tix, blockedSenders, deskJob, history>>

\* messageExists(reply:<id>): then nothing is stored again and nothing sent.  Otherwise the message is stored,
\* which no other delivery looks at.
StoreInbound(h) ==
    /\ hook[h].pc = "exists"
    /\ Step(h, IF Msg(h) \in replied THEN "next" ELSE "reply")
    /\ inbound' = IF Msg(h) \in replied THEN inbound ELSE inbound \cup {Msg(h)}
    /\ UNCHANGED <<thread, replied, sent, tix, blockedSenders, deskJob, history>>

\* Mutant: the reply is stored only once the ticket is.
StoreReplyLate(h, r) ==
    /\ hook[h].pc = "reply"
    /\ hook' = [hook EXCEPT ![h].pc = IF r \in Escalating THEN "ticket" ELSE "result", ![h].reply = r]
    /\ replied' = IF r \in Escalating THEN replied ELSE replied \cup {Msg(h)}
    /\ UNCHANGED <<thread, inbound, sent, tix, blockedSenders, deskJob, history>>
\* An auto-reply in force, an order or product found, or the model's answer; completeReplyFlow stores it first.
StoreReply(h, r) ==
    /\ hook[h].pc = "reply"
    /\ replied' = replied \cup {Msg(h)}
    /\ hook' = [hook EXCEPT ![h].pc = IF r \in Escalating THEN "ticket" ELSE "result", ![h].reply = r]
    /\ UNCHANGED <<thread, inbound, sent, tix, blockedSenders, deskJob, history>>

NewTicket(c, m, s, urgent) ==
    [thread |-> c, msg |-> m, status |-> s, urgent |-> urgent, ping |-> "none"]

\* createFromEscalation; a failure of the knowledge suggestion it asks for is only logged.
SaveTicket(h, t) ==
    /\ hook[h].pc = "ticket"
    /\ ~Saved(t)
    /\ tix' = [tix EXCEPT ![t] = NewTicket(Th(h), Msg(h), "open", hook[h].reply = "urgent")]
    /\ hook' = [hook EXCEPT ![h].pc = IF hook[h].reply = "urgent" THEN "ping" ELSE "result", ![h].seen = t]
    /\ UNCHANGED <<thread, inbound, replied, sent, blockedSenders, deskJob, history>>

\* notifyPocForUrgentTicket: the outcome becomes an event of the ticket, a failure too.
NotifyPoc(h, works) ==
    /\ hook[h].pc = "ping"
    /\ tix' = [tix EXCEPT ![hook[h].seen].ping = IF works THEN "sent" ELSE "failed"]
    /\ Step(h, "result")
    /\ UNCHANGED <<thread, inbound, replied, sent, blockedSenders, deskJob, history>>

\* setConversationResult (no ticket leaves the link as it is), then isTestCustomer.
SetConversationResult(h) ==
    /\ hook[h].pc = "result"
    /\ thread' = [thread EXCEPT ![Th(h)].confidence = Msg(h),
                                ![Th(h)].ticket = IF hook[h].seen = NoTicket THEN @ ELSE hook[h].seen]
    /\ hook' = [hook EXCEPT ![h].pc = IF Th(h) \in TestSenders THEN "send" ELSE "score", ![h].seen = NoTicket]
    /\ UNCHANGED <<inbound, replied, sent, tix, blockedSenders, deskJob, history>>

\* scoreConversation: a failure is logged and the delivery goes on.
ScoreConversation(h, works) ==
    /\ hook[h].pc = "score"
    /\ thread' = IF works THEN [thread EXCEPT ![Th(h)].autoQa = Msg(h)] ELSE thread
    /\ broken' = IF works THEN broken ELSE broken \cup {Th(h)}
    /\ Step(h, "send")
    /\ UNCHANGED <<inbound, replied, sent, tix, blockedSenders, deskJob, inboxOverlapped, crowded, dropped>>

SendReply(h) ==
    /\ hook[h].pc = "send"
    /\ sent' = [sent EXCEPT ![Msg(h)] = @ + 1]
    /\ hook' = [hook EXCEPT ![h].pc = "next", ![h].reply = NoMsg]
    /\ UNCHANGED <<thread, inbound, replied, tix, blockedSenders, deskJob, history>>
-----------------------------------------------------------------------------
(* Operators.                                                                *)

\* updateStatus and updateAssignee name the version on screen, so they apply to the row as shown or not at all.
\* What a resolution teaches is KnowledgeBase's.
UpdateStatus(t, s) ==
    /\ Saved(t)
    /\ tix' = [tix EXCEPT ![t].status = s]
    /\ hook' = Outdated(t)
    /\ UNCHANGED <<thread, inbound, replied, sent, blockedSenders, deskJob, history>>

UpdateAssignee(t) ==
    /\ Saved(t)
    /\ hook' = Outdated(t)
    /\ UNCHANGED <<thread, inbound, replied, sent, tix, blockedSenders, deskJob, history>>

\* createFromManualTakeover: the ticket the conversation names is handed over; none, and one is made.
TakeOver(d, c) ==
    /\ deskJob[d].pc = "idle"
    /\ thread[c].known
    /\ deskJob' = [deskJob EXCEPT ![d] = IF thread[c].ticket = NoTicket THEN [IdleDesk EXCEPT !.pc = "take", !.thread = c]
                                                                       ELSE IdleDesk]
    /\ UNCHANGED <<thread, inbound, replied, sent, tix, blockedSenders, hook, history>>

SaveTakeover(d, t) ==
    /\ deskJob[d].pc = "take"
    /\ ~Saved(t)
    /\ tix' = [tix EXCEPT ![t] = NewTicket(deskJob[d].thread, NoMsg, "assigned", FALSE)]
    /\ deskJob' = [deskJob EXCEPT ![d].pc = "attach", ![d].ticket = t]
    /\ UNCHANGED <<thread, inbound, replied, sent, blockedSenders, hook, history>>

AttachTicket(d) ==
    /\ deskJob[d].pc = "attach"
    /\ thread' = [thread EXCEPT ![deskJob[d].thread].ticket = deskJob[d].ticket]
    /\ deskJob' = [deskJob EXCEPT ![d] = IdleDesk]
    /\ UNCHANGED <<inbound, replied, sent, tix, blockedSenders, hook, history>>

DeskFails(d) ==
    /\ DeskRuns(d)
    /\ deskJob' = [deskJob EXCEPT ![d] = IdleDesk]
    /\ broken' = broken \cup {IF deskJob[d].ticket = NoTicket THEN deskJob[d].thread ELSE tix[deskJob[d].ticket].thread}
    /\ UNCHANGED <<thread, inbound, replied, sent, tix, blockedSenders, hook, inboxOverlapped, crowded, dropped>>

BlockSender(c) ==
    /\ c \notin blockedSenders
    /\ blockedSenders' = blockedSenders \cup {c}
    /\ UNCHANGED <<thread, inbound, replied, sent, tix, hook, deskJob, history>>
UnblockSender(c) ==
    /\ c \in blockedSenders
    /\ blockedSenders' = blockedSenders \ {c}
    /\ UNCHANGED <<thread, inbound, replied, sent, tix, hook, deskJob, history>>

HookStep(h) ==
    \/ \E b \in Batches : ReceiveDelivery(h, b)
    \/ NextMessage(h) \/ DeliveryFails(h)
    \/ CaptureCsat(h) \/ UpsertConversation(h) \/ ReadForReopen(h) \/ Reopen(h) \/ ReopenFails(h)
    \/ StoreInbound(h) \/ (\E r \in LReplies : StoreReply(h, r))
    \/ (\E t \in LTickets : SaveTicket(h, t))
    \/ (\E works \in BOOLEAN : NotifyPoc(h, works) \/ ScoreConversation(h, works))
    \/ SetConversationResult(h) \/ SendReply(h)

DeskStep(d) ==
    \/ \E t \in LTickets : SaveTakeover(d, t)
    \/ \E c \in Threads : TakeOver(d, c)
    \/ AttachTicket(d) \/ DeskFails(d)

InboxNext ==
    \/ \E h \in Hooks : HookStep(h)
    \/ \E d \in DeskJobs : DeskStep(d)
    \/ \E t \in LTickets : UpdateAssignee(t) \/ (\E s \in DeskStatuses : UpdateStatus(t, s))
    \/ \E c \in Threads : BlockSender(c) \/ UnblockSender(c)

InboxSpec == InboxInit /\ [][InboxNext]_inboxVars
-----------------------------------------------------------------------------
(* Properties.                                                               *)

Quiet(c) ==
    /\ \A h \in Hooks : HookRuns(h) => Th(h) # c
    /\ \A d \in DeskJobs : DeskRuns(d) => deskJob[d].thread # c
TicketsOf(c) == {t \in LTickets : Saved(t) /\ tix[t].thread = c}

\* Links name saved tickets, deliveries and requests stand at one of their statements.
InboxTypeOK ==
    /\ \A c \in Threads : thread[c].ticket \in LTickets \cup {NoTicket} /\ thread[c].confidence \in CustMsgs \cup {NoMsg}
    /\ replied \subseteq CustMsgs /\ inbound \subseteq CustMsgs \ Ratings
    /\ \A h \in Hooks : hook[h].pc \in {"idle", "begin", "next", "detail", "reopen", "exists", "reply",
                                        "ticket", "ping", "result", "score", "send", "done", "failed"}
    /\ blockedSenders \subseteq Threads /\ broken \subseteq Threads /\ inboxOverlapped \subseteq CustMsgs

\* A conversation's link leads to a ticket of that conversation, however intake, takeover and reopening interleave,
\* and once it is at rest with nothing broken off, a conversation with tickets names one: an operator who
\* takes it over gets a ticket that exists, and the next message finds it to reopen.
TicketIsReachable ==
    \A c \in Threads :
        /\ thread[c].ticket # NoTicket => thread[c].ticket \in TicketsOf(c)
        /\ Quiet(c) /\ c \notin broken /\ TicketsOf(c) # {} => thread[c].ticket # NoTicket

\* A message delivered again, after a failure or for no reason, makes no second ticket unless two deliveries
\* of it overlap.
OneTicketPerMessage ==
    \A m \in CustMsgs \ inboxOverlapped : Cardinality({t \in LTickets : Saved(t) /\ tix[t].msg = m}) <= 1

\* A delivery answered 200 has stored each of its messages and a reply to each, but for ratings and what it
\* dropped of a blocked sender: what went wrong it made the channel deliver again.
AcknowledgedIsStored ==
    \A h \in Hooks : hook[h].pc = "done" =>
        \A i \in 1..Len(hook[h].batch) : hook[h].batch[i] \in Ratings \cup dropped \cup (replied \cap inbound)

\* The customer gets a reply to a message once, unless two deliveries of it overlap.
RepliedOnce == \A m \in CustMsgs \ inboxOverlapped : sent[m] <= 1 /\ (sent[m] = 1 => m \in replied)

\* An urgent ticket whose intake was not broken off has the outcome of the call to its owner on record.
UrgentIsPinged ==
    \A t \in LTickets : Saved(t) /\ tix[t].urgent /\ Quiet(tix[t].thread) /\ tix[t].thread \notin broken => tix[t].ping # "none"

\* The two things a conversation says of its last reply, confidence and automatic grade, are about one reply,
\* if no two deliveries ran over each other on it and none broke off.
GradeIsOfLastReply ==
    \A c \in Threads \ (TestSenders \cup broken \cup crowded) : Quiet(c) => thread[c].autoQa = thread[c].confidence

\* A customer's message reopens only what is resolved at that very moment: work an operator resumed in
\* between, or reassigned, is not overwritten.
ReopensOnlyResolved ==
    [][\A h \in Hooks : hook[h].pc = "reopen" /\ hook'[h].pc = "exists" /\ tix' # tix
          => tix[hook[h].seen].status = "resolved"]_inboxVars
=============================================================================
