------------------------- MODULE CustomerContactProofs -------------------------
(***************************************************************************)
(* Proofs about the two ways a customer reaches the agent.  Messages:      *)
(* MessageIntake for any handlers, operators, messages, conversations,     *)
(* batches, outcomes and bounds.  Calls, at both ends: VoiceCalls for any  *)
(* calls, any ceiling and any bounds on turns and outages, and WidgetCall  *)
(* for any presses of Call and End and any number of turns.                *)
(***************************************************************************)
EXTENDS MessageIntake, VoiceCalls, WidgetCall, SequenceTheorems, FiniteSetTheorems, TLAPS

-----------------------------------------------------------------------------
(* Which steps change what.                                                *)

Delivered(h) == \E b \in Batches : Deliver(h, b) \/ Duplicate(h, b)

LEMMA NextCases ==
  Next <=> \/ \E h \in Handlers : Delivered(h) \/ Step(h) \/ Fail(h)
           \/ \E o \in Operators : Takeover(o)
BY DEF Next, Delivered

LEMMA ConvChanges ==
  ASSUME Next
  PROVE  \/ conv' = conv
         \/ \E h \in Handlers : CaptureCsat(h) \/ UpsertConversation(h) \/ SaveResult(h)
         \/ \E o \in Operators : TakeoverAttach(o)
BY NextCases DEF rows, Delivered, Deliver, Duplicate, Start, Step, Fail, Takeover, Respond, RejectUnroutable,
    FindConversation, CheckDuplicate, LogInbound, GenerateReply, LogReply, InsertTicket, AnnounceTicket,
    NotifyPoc, SendReply, BeginTakeover, TakeoverInsert, TakeoverAnnounce, TakeoverRecord, TakeoverFail

LEMMA InboundChanges ==
  ASSUME Next
  PROVE  inbound' = inbound \/ \E h \in Handlers : LogInbound(h)
BY NextCases DEF rows, Delivered, Deliver, Duplicate, Start, Step, Fail, Takeover, Respond, RejectUnroutable,
    CaptureCsat, FindConversation, UpsertConversation, CheckDuplicate, GenerateReply, LogReply,
    InsertTicket, AnnounceTicket, NotifyPoc, SaveResult, SendReply, BeginTakeover, TakeoverInsert,
    TakeoverAnnounce, TakeoverAttach, TakeoverRecord, TakeoverFail

LEMMA ReplyChanges ==
  ASSUME Next
  PROVE  reply' = reply \/ \E h \in Handlers : LogReply(h)
BY NextCases DEF rows, Delivered, Deliver, Duplicate, Start, Step, Fail, Takeover, Respond, RejectUnroutable,
    CaptureCsat, FindConversation, UpsertConversation, CheckDuplicate, LogInbound, GenerateReply,
    InsertTicket, AnnounceTicket, NotifyPoc, SaveResult, SendReply, BeginTakeover, TakeoverInsert,
    TakeoverAnnounce, TakeoverAttach, TakeoverRecord, TakeoverFail

LEMMA TicketsChange ==
  ASSUME Next
  PROVE  \/ tickets' = tickets
         \/ \E h \in Handlers : InsertTicket(h)
         \/ \E o \in Operators : TakeoverInsert(o)
BY NextCases DEF rows, Delivered, Deliver, Duplicate, Start, Step, Fail, Takeover, Respond, RejectUnroutable,
    CaptureCsat, FindConversation, UpsertConversation, CheckDuplicate, LogInbound, GenerateReply, LogReply,
    AnnounceTicket, NotifyPoc, SaveResult, SendReply, BeginTakeover,
    TakeoverAnnounce, TakeoverAttach, TakeoverRecord, TakeoverFail

LEMMA AnnouncedChanges ==
  ASSUME Next
  PROVE  \/ announced' = announced
         \/ \E h \in Handlers : AnnounceTicket(h)
         \/ \E o \in Operators : TakeoverAnnounce(o)
BY NextCases DEF rows, Delivered, Deliver, Duplicate, Start, Step, Fail, Takeover, Respond, RejectUnroutable,
    CaptureCsat, FindConversation, UpsertConversation, CheckDuplicate, LogInbound, GenerateReply, LogReply,
    InsertTicket, NotifyPoc, SaveResult, SendReply, BeginTakeover, TakeoverInsert,
    TakeoverAttach, TakeoverRecord, TakeoverFail

LEMMA PingedChanges ==
  ASSUME Next
  PROVE  pinged' = pinged \/ \E h \in Handlers : NotifyPoc(h)
BY NextCases DEF rows, Delivered, Deliver, Duplicate, Start, Step, Fail, Takeover, Respond, RejectUnroutable,
    CaptureCsat, FindConversation, UpsertConversation, CheckDuplicate, LogInbound, GenerateReply, LogReply,
    InsertTicket, AnnounceTicket, SaveResult, SendReply, BeginTakeover, TakeoverInsert,
    TakeoverAnnounce, TakeoverAttach, TakeoverRecord, TakeoverFail

LEMMA AckedChanges ==
  ASSUME Next
  PROVE  acked' = acked \/ \E h \in Handlers : Respond(h)
BY NextCases DEF rows, Delivered, Deliver, Duplicate, Start, Step, Fail, Takeover, RejectUnroutable,
    CaptureCsat, FindConversation, UpsertConversation, CheckDuplicate, LogInbound, GenerateReply, LogReply,
    InsertTicket, AnnounceTicket, NotifyPoc, SaveResult, SendReply, BeginTakeover, TakeoverInsert,
    TakeoverAnnounce, TakeoverAttach, TakeoverRecord, TakeoverFail

LEMMA SendsChange ==
  ASSUME Next
  PROVE  sends' = sends \/ \E h \in Handlers : SendReply(h)
BY NextCases DEF rows, Delivered, Deliver, Duplicate, Start, Step, Fail, Takeover, Respond, RejectUnroutable,
    CaptureCsat, FindConversation, UpsertConversation, CheckDuplicate, LogInbound, GenerateReply, LogReply,
    InsertTicket, AnnounceTicket, NotifyPoc, SaveResult, BeginTakeover, TakeoverInsert,
    TakeoverAnnounce, TakeoverAttach, TakeoverRecord, TakeoverFail

LEMMA AdmittedChanges ==
  ASSUME Next
  PROVE  admitted' = admitted \/ \E h \in Handlers : CheckDuplicate(h)
BY NextCases DEF rows, Delivered, Deliver, Duplicate, Start, Step, Fail, Takeover, Respond, RejectUnroutable,
    CaptureCsat, FindConversation, UpsertConversation, LogInbound, GenerateReply, LogReply,
    InsertTicket, AnnounceTicket, NotifyPoc, SaveResult, SendReply, BeginTakeover, TakeoverInsert,
    TakeoverAnnounce, TakeoverAttach, TakeoverRecord, TakeoverFail

\* A takeover leaves the requests alone, and a request the takeovers.
LEMMA DeskFrame ==
  ASSUME NEW h \in Handlers, Delivered(h) \/ Step(h) \/ Fail(h)
  PROVE  desk' = desk
BY DEF rows, Delivered, Deliver, Duplicate, Start, Step, Fail, Respond, RejectUnroutable,
    CaptureCsat, FindConversation, UpsertConversation, CheckDuplicate, LogInbound, GenerateReply, LogReply,
    InsertTicket, AnnounceTicket, NotifyPoc, SaveResult, SendReply

LEMMA RunFrame ==
  ASSUME NEW o \in Operators, Takeover(o)
  PROVE  run' = run /\ UNCHANGED <<inbound, reply, pinged, acked, sends, admitted, duplicates>>
BY DEF rows, Takeover, BeginTakeover, TakeoverInsert, TakeoverAnnounce, TakeoverAttach, TakeoverRecord, TakeoverFail

LEMMA BoundsStep ==
  ASSUME TypeOK, Next
  PROVE  /\ failures' \in 0..MaxFailures /\ duplicates' \in 0..MaxDuplicates
         /\ (failures' = 0 => failures = 0) /\ (duplicates' = 0 => duplicates = 0)
         /\ (failures' = 0 => \A h \in Handlers : ~Fail(h)) /\ (failures' = 0 => \A o \in Operators : ~TakeoverFail(o))
         /\ (duplicates' = 0 => \A h \in Handlers, b \in Batches : ~Duplicate(h, b))
<1>1. /\ failures \in 0..MaxFailures /\ duplicates \in 0..MaxDuplicates
      /\ MaxFailures \in Nat /\ MaxDuplicates \in Nat
  BY IntakeAssumption DEF TypeOK
<1>2. \/ failures' = failures
      \/ failures < MaxFailures /\ failures' = failures + 1
  BY NextCases DEF rows, Delivered, Deliver, Duplicate, Start, Step, Fail, Takeover, Respond, RejectUnroutable,
    CaptureCsat, FindConversation, UpsertConversation, CheckDuplicate, LogInbound, GenerateReply, LogReply,
    InsertTicket, AnnounceTicket, NotifyPoc, SaveResult, SendReply, BeginTakeover, TakeoverInsert,
    TakeoverAnnounce, TakeoverAttach, TakeoverRecord, TakeoverFail
<1>3. \/ duplicates' = duplicates
      \/ duplicates < MaxDuplicates /\ duplicates' = duplicates + 1
  BY NextCases DEF rows, Delivered, Deliver, Duplicate, Start, Step, Fail, Takeover, Respond, RejectUnroutable,
    CaptureCsat, FindConversation, UpsertConversation, CheckDuplicate, LogInbound, GenerateReply, LogReply,
    InsertTicket, AnnounceTicket, NotifyPoc, SaveResult, SendReply, BeginTakeover, TakeoverInsert,
    TakeoverAnnounce, TakeoverAttach, TakeoverRecord, TakeoverFail
<1>4. \A h \in Handlers : Fail(h) => failures' = failures + 1
  BY DEF Fail
<1>5. \A o \in Operators : TakeoverFail(o) => failures' = failures + 1
  BY DEF TakeoverFail
<1>6. \A h \in Handlers, b \in Batches : Duplicate(h, b) => duplicates' = duplicates + 1
  BY DEF Duplicate
<1>7. failures + 1 # 0 /\ duplicates + 1 # 0 /\ (failures < MaxFailures => failures + 1 \in 0..MaxFailures)
      /\ (duplicates < MaxDuplicates => duplicates + 1 \in 0..MaxDuplicates)
  BY ONLY <1>1
<1> QED
  BY <1>1, <1>2, <1>3, <1>4, <1>5, <1>6, <1>7

-----------------------------------------------------------------------------
(* The requests.                                                           *)

RunState == [pc : RunPC, batch : Batches \union {"none"}, pos : Nat, seen : BOOLEAN,
             outcome : Outcome \union {"none"}, ticket : Nat]
DeskState == [pc : DeskPC, conv : Conversations \union {"none"}, ticket : Nat]

Replied == {"insertTicket", "announce", "notify", "saveResult", "send"}
Judged == Replied \union {"logReply"}
Heard == Judged \union {"generate"}
Past == Heard \union {"logInbound"}
Ticketed == {"announce", "notify", "saveResult", "send"}

\* What a request knows at each of its steps, and what it has stored by then.
RunForm(h) ==
  /\ run[h].pc # "idle" => run[h].batch \in Batches /\ run[h].pos > 0
  /\ run[h].pc \notin {"idle", "route"} =>
       run[h].pos <= Len(Items[run[h].batch]) /\ Kind[Msg(h)] = "text"
  /\ run[h].pc \notin {"idle", "route", "upsert"} => conv[ConvOf[Msg(h)]].exists
  /\ run[h].pc \in Heard => Msg(h) \in inbound
  /\ run[h].pc \in Judged => run[h].outcome \in Outcome
  /\ run[h].pc \in Replied => reply[Msg(h)] # "none"
  /\ run[h].pc \in {"insertTicket", "announce", "notify"} => run[h].outcome # "answer"
  /\ run[h].pc \notin Ticketed => run[h].ticket = 0
  /\ run[h].pc \in {"announce", "notify"} => run[h].ticket # 0
  /\ run[h].ticket # 0 =>
       run[h].ticket \in DOMAIN tickets /\ tickets[run[h].ticket] = EscalationTicket(h)
  /\ run[h].ticket # 0 /\ run[h].pc # "announce" => run[h].ticket \in announced

DeskForm(o) ==
  /\ desk[o].pc \in {"insertTicket", "announce", "attach", "record", "done"} => desk[o].conv \in Conversations
  /\ desk[o].pc \in {"announce", "attach", "record", "done"} =>
       desk[o].ticket \in DOMAIN tickets /\ tickets[desk[o].ticket].conv = desk[o].conv
  /\ desk[o].pc \in {"attach", "record", "done"} => desk[o].ticket \in announced

Forms == (\A h \in Handlers : RunForm(h)) /\ (\A o \in Operators : DeskForm(o))

LEMMA RowsTyped ==
  ASSUME TypeOK
  PROVE  /\ conv \in [Conversations -> Conversation] /\ inbound \subseteq Messages
         /\ reply \in [Messages -> Outcome \union {"none"}] /\ tickets \in Seq(Ticket)
         /\ DOMAIN tickets = 1..Len(tickets) /\ Len(tickets) \in Nat
         /\ announced \subseteq Nat /\ pinged \subseteq Nat /\ acked \subseteq Batches
         /\ run \in [Handlers -> RunState] /\ desk \in [Operators -> DeskState]
         /\ sends \in [Messages -> Nat] /\ admitted \in [Messages -> Nat]
BY DEF TypeOK, RunState, DeskState

\* The item a request is at.
LEMMA ItemTyped ==
  ASSUME TypeOK, NEW h \in Handlers, RunForm(h), run[h].pc # "idle",
         run[h].pos <= Len(Items[run[h].batch])
  PROVE  /\ run[h].batch \in Batches /\ run[h].pos \in DOMAIN Items[run[h].batch]
         /\ Msg(h) \in Messages /\ ConvOf[Msg(h)] \in Conversations
  BY RowsTyped, IntakeAssumption DEF RunForm, RunState, Msg

LEMMA WorkTyped ==
  ASSUME TypeOK, NEW h \in Handlers, RunForm(h), run[h].pc \notin {"idle", "route"}
  PROVE  /\ run[h].batch \in Batches /\ run[h].pos \in DOMAIN Items[run[h].batch]
         /\ Msg(h) \in Messages /\ ConvOf[Msg(h)] \in Conversations /\ Kind[Msg(h)] = "text"
  BY ItemTyped DEF RunForm

\* A request goes on with its item at pc.
Goes(h, pc) ==
  /\ run' \in [Handlers -> RunState]
  /\ \A g \in Handlers \ {h} : run'[g] = run[g]
  /\ run'[h].pc = pc /\ run'[h].batch = run[h].batch /\ run'[h].pos = run[h].pos

Keeps(h) == run'[h].outcome = run[h].outcome /\ run'[h].ticket = run[h].ticket

\* A request ends, or turns to an item of a batch.
Turns(h) ==
  /\ run' \in [Handlers -> RunState]
  /\ \A g \in Handlers \ {h} : run'[g] = run[g]
  /\ run'[h].pc \in {"idle", "route"} /\ run'[h].ticket = 0
  /\ run'[h].pc = "route" => run'[h].batch \in Batches /\ run'[h].pos > 0

LEMMA GotoGoes ==
  ASSUME TypeOK, NEW h \in Handlers, NEW pc \in RunPC, Goto(h, pc)
  PROVE  Goes(h, pc) /\ Keeps(h)
  BY RowsTyped DEF Goto, RunState, Keeps, Goes

LEMMA AtRouteIs ==
  ASSUME NEW b \in Batches, NEW i \in Nat
  PROVE  /\ AtRoute(b, i) \in RunState /\ AtRoute(b, i).pc = "route" /\ AtRoute(b, i).batch = b
         /\ AtRoute(b, i).pos = i /\ AtRoute(b, i).ticket = 0
BY DEF AtRoute, NoRun, RunState, RunPC

LEMMA NoRunIs == NoRun \in RunState /\ NoRun.pc = "idle" /\ NoRun.ticket = 0
BY DEF NoRun, RunState, RunPC

LEMMA ThrowTurns ==
  ASSUME TypeOK, NEW h \in Handlers, Throw(h)
  PROVE  Turns(h) /\ run'[h].pc = "idle"
  BY RowsTyped, NoRunIs DEF Throw, Turns

LEMMA RouteTurns ==
  ASSUME TypeOK, NEW h \in Handlers, NEW b \in Batches, NEW i \in Nat, i > 0,
         run' = [run EXCEPT ![h] = AtRoute(b, i)]
  PROVE  Turns(h) /\ run'[h].pc = "route" /\ run'[h].batch = b /\ run'[h].pos = i
  BY RowsTyped, AtRouteIs DEF Turns

LEMMA NextItemTurns ==
  ASSUME TypeOK, NEW h \in Handlers, RunForm(h), run[h].pc # "idle", NextItem(h)
  PROVE  Turns(h) /\ run'[h].pc = "route" /\ run'[h].batch = run[h].batch /\ run'[h].pos = run[h].pos + 1
<1>1. run[h].batch \in Batches /\ run[h].pos \in Nat
  BY RowsTyped DEF RunForm, RunState
<1>2. run[h].pos + 1 \in Nat /\ run[h].pos + 1 > 0
  BY ONLY <1>1
<1> QED
  BY <1>1, <1>2, RouteTurns DEF NextItem

\* A new ticket goes to the end.
LEMMA TicketAppended ==
  ASSUME TypeOK, NEW x \in Ticket, tickets' = Append(tickets, x)
  PROVE  /\ tickets' \in Seq(Ticket) /\ Len(tickets) + 1 \in Nat /\ Len(tickets) + 1 # 0
         /\ Len(tickets) + 1 \notin DOMAIN tickets
         /\ DOMAIN tickets' = DOMAIN tickets \union {Len(tickets) + 1}
         /\ \A t \in DOMAIN tickets : tickets'[t] = tickets[t]
         /\ tickets'[Len(tickets) + 1] = x
  BY RowsTyped, AppendProperties

-----------------------------------------------------------------------------
(* What each step of a request does to it.                                 *)

LEMMA RoutedStep ==
  ASSUME TypeOK, NEW h \in Handlers, RunForm(h),
         \/ Delivered(h) \/ Respond(h) \/ RejectUnroutable(h) \/ CaptureCsat(h) \/ SendReply(h) \/ Fail(h)
  PROVE  Turns(h)
<1>1. ASSUME NEW b \in Batches, Deliver(h, b) \/ Duplicate(h, b) PROVE Turns(h)
  BY <1>1, RouteTurns DEF Deliver, Duplicate, Start
<1>2. CASE Respond(h) \/ RejectUnroutable(h) \/ Fail(h)
  BY <1>2, ThrowTurns DEF Respond, RejectUnroutable, Fail
<1>3. CASE CaptureCsat(h) \/ SendReply(h)
  BY <1>3, NextItemTurns DEF CaptureCsat, SendReply, AtItem
<1> QED
  BY <1>1, <1>2, <1>3 DEF Delivered

LEMMA FindConversationDoes ==
  ASSUME TypeOK, NEW h \in Handlers, RunForm(h), FindConversation(h)
  PROVE  /\ run[h].pc = "route" /\ Goes(h, "upsert") /\ Keeps(h)
         /\ run[h].pos <= Len(Items[run[h].batch]) /\ Kind[Msg(h)] = "text"
<1>1. run[h] \in RunState /\ run \in [Handlers -> RunState] /\ conv \in [Conversations -> Conversation]
  BY RowsTyped
<1>2. /\ run[h].pc = "route" /\ run[h].pos <= Len(Items[run[h].batch]) /\ Kind[Msg(h)] = "text"
      /\ run' = [run EXCEPT ![h] = [run[h] EXCEPT !.pc = "upsert", !.seen = conv[ConvOf[Msg(h)]].exists]]
  BY DEF FindConversation, AtItem
<1>3. ConvOf[Msg(h)] \in Conversations
  BY <1>2, ItemTyped
<1>4. conv[ConvOf[Msg(h)]].exists \in BOOLEAN
  BY <1>1, <1>3 DEF Conversation
<1>5. PICK s \in BOOLEAN : run' = [run EXCEPT ![h] = [run[h] EXCEPT !.pc = "upsert", !.seen = s]]
  BY <1>2, <1>4
<1>6. [run[h] EXCEPT !.pc = "upsert", !.seen = s] \in RunState
  BY <1>1 DEF RunState, RunPC
<1>7. /\ run'[h].pc = "upsert" /\ run'[h].batch = run[h].batch /\ run'[h].pos = run[h].pos
      /\ Keeps(h)
  BY <1>1, <1>5 DEF RunState, Keeps
<1>8. run' \in [Handlers -> RunState] /\ \A g \in Handlers \ {h} : run'[g] = run[g]
  BY <1>1, <1>5, <1>6
<1> QED
  BY <1>2, <1>7, <1>8 DEF Goes

LEMMA UpsertConversationDoes ==
  ASSUME TypeOK, NEW h \in Handlers, RunForm(h), UpsertConversation(h)
  PROVE  /\ run[h].pc = "upsert"
         /\ \/ Turns(h) /\ conv' = conv
            \/ /\ Goes(h, "check") /\ Keeps(h)
               /\ conv' = [conv EXCEPT ![ConvOf[Msg(h)]].exists = TRUE]
  BY ThrowTurns, GotoGoes DEF UpsertConversation, AtItem, OnInsertConflict, RunPC

LEMMA CheckDuplicateDoes ==
  ASSUME TypeOK, NEW h \in Handlers, RunForm(h), CheckDuplicate(h)
  PROVE  /\ run[h].pc = "check"
         /\ \/ Turns(h) /\ reply[Msg(h)] # "none" /\ admitted' = admitted
               /\ run'[h].pc = "route" /\ run'[h].batch = run[h].batch /\ run'[h].pos = run[h].pos + 1
            \/ /\ Goes(h, "logInbound") /\ Keeps(h) /\ reply[Msg(h)] = "none"
               /\ admitted' = [admitted EXCEPT ![Msg(h)] = @ + 1]
  BY NextItemTurns, GotoGoes DEF CheckDuplicate, AtItem, AlreadyAnswered, RunPC

LEMMA LogInboundDoes ==
  ASSUME TypeOK, NEW h \in Handlers, RunForm(h), LogInbound(h)
  PROVE  /\ run[h].pc = "logInbound" /\ Goes(h, "generate") /\ Keeps(h)
         /\ inbound' = inbound \union {Msg(h)}
BY GotoGoes DEF LogInbound, AtItem, RunPC

LEMMA GenerateReplyDoes ==
  ASSUME TypeOK, NEW h \in Handlers, RunForm(h), GenerateReply(h)
  PROVE  /\ run[h].pc = "generate" /\ Goes(h, "logReply") /\ run'[h].ticket = run[h].ticket
         /\ run'[h].outcome \in Outcome
<1>1. run[h] \in RunState /\ run \in [Handlers -> RunState]
  BY RowsTyped
<1>2. run[h].pc = "generate"
  BY DEF GenerateReply, AtItem
<1>3. Msg(h) \in Messages
  BY <1>2, WorkTyped
<1>4. PICK r \in Outcomes[Msg(h)] : run' = [run EXCEPT ![h] = [run[h] EXCEPT !.pc = "logReply", !.outcome = r]]
  BY DEF GenerateReply
<1>5. r \in Outcome
  BY <1>3, <1>4, IntakeAssumption
<1>6. [run[h] EXCEPT !.pc = "logReply", !.outcome = r] \in RunState
  BY <1>1, <1>5 DEF RunState, RunPC
<1>7. /\ run'[h].pc = "logReply" /\ run'[h].batch = run[h].batch /\ run'[h].pos = run[h].pos
      /\ run'[h].ticket = run[h].ticket /\ run'[h].outcome = r
  BY <1>1, <1>4 DEF RunState
<1>8. run' \in [Handlers -> RunState] /\ \A g \in Handlers \ {h} : run'[g] = run[g]
  BY <1>1, <1>4, <1>6
<1> QED
  BY <1>2, <1>5, <1>7, <1>8 DEF Goes

LEMMA LogReplyDoes ==
  ASSUME TypeOK, NEW h \in Handlers, RunForm(h), LogReply(h)
  PROVE  /\ run[h].pc = "logReply" /\ Keeps(h) /\ Msg(h) \in Messages /\ run[h].outcome \in Outcome
         /\ reply' = [reply EXCEPT ![Msg(h)] = run[h].outcome]
         /\ \/ run[h].outcome # "answer" /\ Goes(h, "insertTicket")
            \/ run[h].outcome = "answer" /\ Goes(h, "saveResult")
  BY WorkTyped, GotoGoes DEF LogReply, AtItem, UpsertReply, RunForm, Judged, ShouldEscalate, RunPC

LEMMA InsertTicketDoes ==
  ASSUME TypeOK, NEW h \in Handlers, RunForm(h), InsertTicket(h)
  PROVE  /\ run[h].pc = "insertTicket" /\ Goes(h, "announce") /\ run'[h].outcome = run[h].outcome
         /\ Msg(h) \in Messages /\ EscalationTicket(h) \in Ticket
         /\ tickets' = Append(tickets, EscalationTicket(h)) /\ run'[h].ticket = Len(tickets) + 1
<1>1. run[h] \in RunState /\ run \in [Handlers -> RunState] /\ Len(tickets) \in Nat
  BY RowsTyped
<1>2. /\ run[h].pc = "insertTicket" /\ tickets' = Append(tickets, EscalationTicket(h))
      /\ run' = [run EXCEPT ![h] = [run[h] EXCEPT !.pc = "announce", !.ticket = Len(tickets) + 1]]
  BY DEF InsertTicket, AtItem
<1>3. Msg(h) \in Messages /\ ConvOf[Msg(h)] \in Conversations
  BY <1>2, WorkTyped
<1>4. run[h].outcome \in {"P1", "P2", "P3"}
  BY <1>2 DEF RunForm, Judged, Replied, Outcome
<1>5. EscalationTicket(h) \in Ticket
  BY <1>3, <1>4 DEF EscalationTicket, Ticket
<1>6. [run[h] EXCEPT !.pc = "announce", !.ticket = Len(tickets) + 1] \in RunState
  <2>1. Len(tickets) + 1 \in Nat
    BY ONLY <1>1
  <2>2. \A n \in Nat : [run[h] EXCEPT !.pc = "announce", !.ticket = n] \in RunState
    BY <1>1 DEF RunState, RunPC
  <2> QED
    BY <2>1, <2>2
<1>7. /\ run'[h].pc = "announce" /\ run'[h].batch = run[h].batch /\ run'[h].pos = run[h].pos
      /\ run'[h].outcome = run[h].outcome /\ run'[h].ticket = Len(tickets) + 1
  BY <1>1, <1>2 DEF RunState
<1>8. run' \in [Handlers -> RunState] /\ \A g \in Handlers \ {h} : run'[g] = run[g]
  BY <1>1, <1>2, <1>6
<1> QED
  BY <1>2, <1>3, <1>5, <1>7, <1>8 DEF Goes

LEMMA AnnounceTicketDoes ==
  ASSUME TypeOK, NEW h \in Handlers, RunForm(h), AnnounceTicket(h)
  PROVE  /\ run[h].pc = "announce" /\ Goes(h, "notify") /\ Keeps(h)
         /\ announced' = announced \union {run[h].ticket}
BY GotoGoes DEF AnnounceTicket, AtItem, RunPC

LEMMA NotifyPocDoes ==
  ASSUME TypeOK, NEW h \in Handlers, RunForm(h), NotifyPoc(h)
  PROVE  /\ run[h].pc = "notify" /\ Goes(h, "saveResult") /\ Keeps(h)
         /\ \/ pinged' = pinged
            \/ run[h].outcome = "P1" /\ pinged' = pinged \union {run[h].ticket}
BY GotoGoes DEF NotifyPoc, AtItem, RunPC

LEMMA SaveResultDoes ==
  ASSUME TypeOK, NEW h \in Handlers, RunForm(h), SaveResult(h)
  PROVE  /\ run[h].pc = "saveResult" /\ Goes(h, "send") /\ Keeps(h)
         /\ ConvOf[Msg(h)] \in Conversations
         /\ conv' = [conv EXCEPT ![ConvOf[Msg(h)]].ticket = LinkAfter(h)]
  BY WorkTyped, GotoGoes DEF SaveResult, AtItem, RunPC

-----------------------------------------------------------------------------
(* The takeovers.                                                          *)

LEMMA TakeoverTyped ==
  ASSUME TypeOK, NEW o \in Operators, DeskForm(o), Takeover(o)
  PROVE  desk' \in [Operators -> DeskState] /\ \A p \in Operators \ {o} : desk'[p] = desk[p]
<1>1. desk \in [Operators -> DeskState] /\ desk[o] \in DeskState /\ Len(tickets) \in Nat
      /\ conv \in [Conversations -> Conversation]
  BY RowsTyped
<1>2. ASSUME NEW c \in Conversations, BeginTakeover(o, c)
      PROVE  desk' \in [Operators -> DeskState] /\ \A p \in Operators \ {o} : desk'[p] = desk[p]
  BY <1>1, <1>2 DEF Conversation, BeginTakeover, DeskState, DeskPC
<1>3. CASE TakeoverInsert(o)
  <2>1. Len(tickets) + 1 \in Nat
    BY ONLY <1>1
  <2>2. \A n \in Nat : [desk[o] EXCEPT !.pc = "announce", !.ticket = n] \in DeskState
    BY <1>1 DEF DeskState, DeskPC
  <2>3. desk' = [desk EXCEPT ![o] = [desk[o] EXCEPT !.pc = "announce", !.ticket = Len(tickets) + 1]]
    BY <1>3 DEF TakeoverInsert
  <2> QED
    BY <1>1, <2>1, <2>2, <2>3
<1>4. CASE TakeoverAnnounce(o) \/ TakeoverAttach(o) \/ TakeoverRecord(o) \/ TakeoverFail(o)
  <2>1. PICK pc \in {"attach", "record", "done", "failed"} : desk' = [desk EXCEPT ![o] = [desk[o] EXCEPT !.pc = pc]]
    BY <1>4 DEF TakeoverAnnounce, TakeoverAttach, TakeoverRecord, TakeoverFail
  <2>2. [desk[o] EXCEPT !.pc = pc] \in DeskState
    BY <1>1, <2>1 DEF DeskState, DeskPC
  <2> QED
    BY <1>1, <2>1, <2>2
<1> QED
  BY <1>2, <1>3, <1>4 DEF Takeover

LEMMA BeginTakeoverDoes ==
  ASSUME TypeOK, NEW o \in Operators, NEW c \in Conversations, BeginTakeover(o, c)
  PROVE  /\ desk[o].pc = "ready" /\ desk'[o].conv = c /\ desk'[o].ticket = conv[c].ticket
         /\ \/ desk'[o].pc = "done" /\ conv[c].ticket # 0
            \/ desk'[o].pc = "insertTicket"
BY RowsTyped DEF BeginTakeover

LEMMA TakeoverInsertDoes ==
  ASSUME TypeOK, NEW o \in Operators, DeskForm(o), TakeoverInsert(o)
  PROVE  /\ desk[o].pc = "insertTicket" /\ desk'[o].pc = "announce" /\ desk'[o].conv = desk[o].conv
         /\ desk[o].conv \in Conversations /\ desk'[o].ticket = Len(tickets) + 1
         /\ [conv |-> desk[o].conv, prio |-> "P2", msg |-> "takeover"] \in Ticket
         /\ tickets' = Append(tickets, [conv |-> desk[o].conv, prio |-> "P2", msg |-> "takeover"])
  BY RowsTyped DEF TakeoverInsert, DeskForm, Ticket, DeskState

LEMMA TakeoverMoves ==
  ASSUME TypeOK, NEW o \in Operators,
         TakeoverAnnounce(o) \/ TakeoverAttach(o) \/ TakeoverRecord(o) \/ TakeoverFail(o)
  PROVE  /\ desk'[o].conv = desk[o].conv /\ desk'[o].ticket = desk[o].ticket
         /\ \/ TakeoverAnnounce(o) /\ desk[o].pc = "announce" /\ desk'[o].pc = "attach"
               /\ announced' = announced \union {desk[o].ticket}
            \/ TakeoverAttach(o) /\ desk[o].pc = "attach" /\ desk'[o].pc = "record"
               /\ conv' = [conv EXCEPT ![desk[o].conv].ticket = desk[o].ticket]
            \/ TakeoverRecord(o) /\ desk[o].pc = "record" /\ desk'[o].pc = "done"
            \/ TakeoverFail(o) /\ desk'[o].pc = "failed"
  BY RowsTyped DEF TakeoverAnnounce, TakeoverAttach, TakeoverRecord, TakeoverFail, DeskState

-----------------------------------------------------------------------------
(* What is stored stays stored.                                            *)

LEMMA RunStep ==
  ASSUME TypeOK, Forms, Next
  PROVE  run' \in [Handlers -> RunState] /\ desk' \in [Operators -> DeskState]
<1>1. ASSUME NEW h \in Handlers, Delivered(h) \/ Step(h) \/ Fail(h) PROVE run' \in [Handlers -> RunState]
  <2>0. RunForm(h)
    BY DEF Forms
  <2> QED
    BY <1>1, <2>0, RoutedStep, FindConversationDoes, UpsertConversationDoes, CheckDuplicateDoes, LogInboundDoes,
       GenerateReplyDoes, LogReplyDoes, InsertTicketDoes, AnnounceTicketDoes, NotifyPocDoes, SaveResultDoes
       DEF Step, Goes, Turns
<1>2. ASSUME NEW h \in Handlers, Delivered(h) \/ Step(h) \/ Fail(h) PROVE desk' \in [Operators -> DeskState]
  BY <1>2, DeskFrame, RowsTyped
<1>3. ASSUME NEW o \in Operators, Takeover(o)
      PROVE  run' \in [Handlers -> RunState] /\ desk' \in [Operators -> DeskState]
  BY <1>3, RunFrame, RowsTyped, TakeoverTyped DEF Forms
<1> QED
  BY <1>1, <1>2, <1>3, NextCases

\* A conversation row changes by one of its fields at a time; only a ticket of its own
\* request or takeover is linked.
LEMMA ConvStep ==
  ASSUME TypeOK, Forms, Next
  PROVE  /\ conv' \in [Conversations -> Conversation]
         /\ \A c \in Conversations :
              /\ conv[c].exists => conv'[c].exists
              /\ \/ conv'[c].ticket = conv[c].ticket
                 \/ \E h \in Handlers : /\ SaveResult(h) /\ ConvOf[Msg(h)] = c /\ run[h].ticket # 0
                                        /\ conv'[c].ticket = run[h].ticket
                 \/ \E o \in Operators : /\ TakeoverAttach(o) /\ desk[o].conv = c
                                         /\ conv'[c].ticket = desk[o].ticket
<1>0. conv \in [Conversations -> Conversation] /\ run \in [Handlers -> RunState] /\ desk \in [Operators -> DeskState]
  BY RowsTyped
<1> DEFINE Goal ==
      /\ conv' \in [Conversations -> Conversation]
      /\ \A c \in Conversations :
           /\ conv[c].exists => conv'[c].exists
           /\ \/ conv'[c].ticket = conv[c].ticket
              \/ \E h \in Handlers : /\ SaveResult(h) /\ ConvOf[Msg(h)] = c /\ run[h].ticket # 0
                                     /\ conv'[c].ticket = run[h].ticket
              \/ \E o \in Operators : /\ TakeoverAttach(o) /\ desk[o].conv = c
                                      /\ conv'[c].ticket = desk[o].ticket
<1>1. ASSUME NEW h \in Handlers, CaptureCsat(h) PROVE Goal
  <2>1. PICK c \in Conversations : conv' = [conv EXCEPT ![c].rated = conv[c].exists]
    BY <1>1, ItemTyped DEF CaptureCsat, AtItem, Forms
  <2>2. PICK r \in BOOLEAN : conv' = [conv EXCEPT ![c] = [conv[c] EXCEPT !.rated = r]]
    BY <1>0, <2>1 DEF Conversation
  <2>3. [conv[c] EXCEPT !.rated = r] \in Conversation
    BY <1>0, <2>2 DEF Conversation
  <2>4. /\ [conv[c] EXCEPT !.rated = r].ticket = conv[c].ticket
        /\ [conv[c] EXCEPT !.rated = r].exists = conv[c].exists
    BY <1>0, <2>2 DEF Conversation
  <2> QED
    BY <1>0, <2>2, <2>3, <2>4
<1>2. ASSUME NEW h \in Handlers, UpsertConversation(h) PROVE Goal
  <2>1. run[h].pc = "upsert" /\ (conv' = conv \/ conv' = [conv EXCEPT ![ConvOf[Msg(h)]].exists = TRUE])
    BY <1>2, UpsertConversationDoes DEF Forms
  <2>2. PICK c \in Conversations : c = ConvOf[Msg(h)]
    BY <2>1, WorkTyped DEF Forms
  <2>3. /\ [conv[c] EXCEPT !.exists = TRUE] \in Conversation
        /\ [conv[c] EXCEPT !.exists = TRUE].ticket = conv[c].ticket
        /\ [conv[c] EXCEPT !.exists = TRUE].exists
    BY <1>0, <2>2 DEF Conversation
  <2>4. conv' = conv \/ conv' = [conv EXCEPT ![c] = [conv[c] EXCEPT !.exists = TRUE]]
    BY <2>1, <2>2
  <2> QED
    BY <1>0, <2>3, <2>4
<1>3. ASSUME NEW c \in Conversations, NEW n \in Nat, conv' = [conv EXCEPT ![c].ticket = n]
      PROVE  /\ conv' \in [Conversations -> Conversation] /\ conv'[c].ticket = n
             /\ \A d \in Conversations : /\ conv'[d].exists = conv[d].exists
                                         /\ d # c => conv'[d].ticket = conv[d].ticket
  BY <1>3, <1>0 DEF Conversation
<1>4. ASSUME NEW h \in Handlers, SaveResult(h) PROVE Goal
  <2>1. /\ ConvOf[Msg(h)] \in Conversations /\ conv' = [conv EXCEPT ![ConvOf[Msg(h)]].ticket = LinkAfter(h)]
    BY <1>4, SaveResultDoes DEF Forms
  <2>2. PICK c \in Conversations : c = ConvOf[Msg(h)]
    BY <2>1
  <2>3. LinkAfter(h) \in Nat /\ (LinkAfter(h) = conv[c].ticket \/ (run[h].ticket # 0 /\ LinkAfter(h) = run[h].ticket))
    BY <1>0, <2>2 DEF LinkAfter, Conversation, RunState
  <2>4. PICK n \in Nat : n = LinkAfter(h) /\ conv' = [conv EXCEPT ![c].ticket = n]
    BY <2>1, <2>2, <2>3
  <2>5. /\ conv' \in [Conversations -> Conversation] /\ conv'[c].ticket = n
        /\ \A d \in Conversations : /\ conv'[d].exists = conv[d].exists
                                    /\ d # c => conv'[d].ticket = conv[d].ticket
    BY <1>3, <2>4
  <2> QED
    BY <1>4, <2>2, <2>3, <2>4, <2>5
<1>5. ASSUME NEW o \in Operators, TakeoverAttach(o) PROVE Goal
  <2>1. desk[o].conv \in Conversations /\ desk[o].ticket \in Nat
        /\ conv' = [conv EXCEPT ![desk[o].conv].ticket = desk[o].ticket]
    BY <1>0, <1>5 DEF TakeoverAttach, Forms, DeskForm, DeskState
  <2>2. PICK c \in Conversations : c = desk[o].conv
    BY <2>1
  <2>3. /\ conv' \in [Conversations -> Conversation] /\ conv'[c].ticket = desk[o].ticket
        /\ \A d \in Conversations : /\ conv'[d].exists = conv[d].exists
                                    /\ d # c => conv'[d].ticket = conv[d].ticket
    BY <1>3, <2>1, <2>2
  <2> QED
    BY <1>5, <2>2, <2>3
<1>6. ASSUME conv' = conv PROVE Goal
  BY <1>0, <1>6
<1> HIDE DEF Goal
<1>7. Goal
  BY <1>1, <1>2, <1>4, <1>5, <1>6, ConvChanges
<1> QED
  BY <1>7 DEF Goal

LEMMA TicketsStep ==
  ASSUME TypeOK, Forms, Next
  PROVE  /\ tickets' \in Seq(Ticket) /\ DOMAIN tickets \subseteq DOMAIN tickets'
         /\ \A t \in DOMAIN tickets : tickets'[t] = tickets[t]
         /\ \/ tickets' = tickets
            \/ \E n \in Nat \ {0} :
                 /\ n \notin DOMAIN tickets /\ DOMAIN tickets' = DOMAIN tickets \union {n}
                 /\ \/ \E h \in Handlers : /\ InsertTicket(h) /\ run'[h].ticket = n
                                           /\ tickets'[n] = EscalationTicket(h)
                    \/ \E o \in Operators : /\ TakeoverInsert(o) /\ desk'[o].ticket = n
                                            /\ tickets'[n] = [conv |-> desk[o].conv, prio |-> "P2", msg |-> "takeover"]
<1> DEFINE Kept == /\ tickets' \in Seq(Ticket) /\ DOMAIN tickets \subseteq DOMAIN tickets'
                   /\ \A t \in DOMAIN tickets : tickets'[t] = tickets[t]
           New(n) == n \in Nat \ {0} /\ n \notin DOMAIN tickets /\ DOMAIN tickets' = DOMAIN tickets \union {n}
<1>1. ASSUME NEW x \in Ticket, tickets' = Append(tickets, x)
      PROVE  Kept /\ New(Len(tickets) + 1) /\ tickets'[Len(tickets) + 1] = x
  BY <1>1, TicketAppended
<1>2. ASSUME NEW h \in Handlers, InsertTicket(h)
      PROVE  /\ Kept /\ New(Len(tickets) + 1) /\ InsertTicket(h) /\ run'[h].ticket = Len(tickets) + 1
             /\ tickets'[Len(tickets) + 1] = EscalationTicket(h)
  <2>1. /\ EscalationTicket(h) \in Ticket /\ tickets' = Append(tickets, EscalationTicket(h))
        /\ run'[h].ticket = Len(tickets) + 1
    BY <1>2, InsertTicketDoes DEF Forms
  <2> HIDE DEF Kept, New
  <2> QED
    BY <1>1, <1>2, <2>1
<1>3. ASSUME NEW o \in Operators, TakeoverInsert(o)
      PROVE  /\ Kept /\ New(Len(tickets) + 1) /\ TakeoverInsert(o) /\ desk'[o].ticket = Len(tickets) + 1
             /\ tickets'[Len(tickets) + 1] = [conv |-> desk[o].conv, prio |-> "P2", msg |-> "takeover"]
  <2> DEFINE x == [conv |-> desk[o].conv, prio |-> "P2", msg |-> "takeover"]
  <2>1. x \in Ticket /\ tickets' = Append(tickets, x) /\ desk'[o].ticket = Len(tickets) + 1
    BY <1>3, TakeoverInsertDoes DEF Forms
  <2> HIDE DEF Kept, New, x
  <2>2. Kept /\ New(Len(tickets) + 1) /\ tickets'[Len(tickets) + 1] = x
    BY <1>1, <2>1
  <2> QED
    BY <1>3, <2>1, <2>2 DEF x
<1>4. ASSUME tickets' = tickets PROVE Kept
  BY <1>4, RowsTyped
<1>5. \A n : New(n) => n \in Nat \ {0} /\ n \notin DOMAIN tickets /\ DOMAIN tickets' = DOMAIN tickets \union {n}
  OBVIOUS
<1>6. Kept => /\ tickets' \in Seq(Ticket) /\ DOMAIN tickets \subseteq DOMAIN tickets'
              /\ \A t \in DOMAIN tickets : tickets'[t] = tickets[t]
  OBVIOUS
<1> HIDE DEF Kept, New
<1>7. CASE tickets' = tickets
  BY <1>4, <1>6, <1>7
<1>8. CASE \E h \in Handlers : InsertTicket(h)
  BY <1>8, <1>2, <1>5, <1>6
<1>9. CASE \E o \in Operators : TakeoverInsert(o)
  BY <1>9, <1>3, <1>5, <1>6
<1> QED
  BY <1>7, <1>8, <1>9, TicketsChange

LEMMA RepliesStep ==
  ASSUME TypeOK, Forms, Next
  PROVE  /\ reply' \in [Messages -> Outcome \union {"none"}]
         /\ \A m \in Messages : reply[m] # "none" => reply'[m] # "none"
<1>0. reply \in [Messages -> Outcome \union {"none"}]
  BY RowsTyped
<1>1. ASSUME NEW h \in Handlers, LogReply(h)
      PROVE  /\ reply' \in [Messages -> Outcome \union {"none"}]
             /\ \A m \in Messages : reply[m] # "none" => reply'[m] # "none"
  BY <1>1, LogReplyDoes, <1>0 DEF Forms, Outcome
<1> QED
  BY <1>0, <1>1, ReplyChanges

LEMMA SetsStep ==
  ASSUME TypeOK, Forms, Next
  PROVE  /\ inbound \subseteq inbound' /\ inbound' \subseteq Messages
         /\ announced \subseteq announced' /\ announced' \subseteq Nat
         /\ pinged' \subseteq Nat /\ acked' \subseteq Batches
<1>0. /\ inbound \subseteq Messages /\ announced \subseteq Nat /\ pinged \subseteq Nat /\ acked \subseteq Batches
      /\ run \in [Handlers -> RunState] /\ desk \in [Operators -> DeskState]
  BY RowsTyped
<1>1. inbound \subseteq inbound' /\ inbound' \subseteq Messages
  BY <1>0, InboundChanges, LogInboundDoes, WorkTyped DEF Forms
<1>2. announced \subseteq announced' /\ announced' \subseteq Nat
  BY <1>0, AnnouncedChanges DEF AnnounceTicket, TakeoverAnnounce, RunState, DeskState
<1>3. pinged' \subseteq Nat
  <2>1. ASSUME NEW h \in Handlers, NotifyPoc(h) PROVE pinged' = pinged \/ pinged' = pinged \union {run[h].ticket}
    BY <2>1 DEF NotifyPoc
  <2>2. \A h \in Handlers : run[h].ticket \in Nat
    BY <1>0 DEF RunState
  <2> QED
    BY <1>0, <2>1, <2>2, PingedChanges
<1>4. acked' \subseteq Batches
  BY <1>0, AckedChanges DEF Respond, Forms, RunForm
<1> QED
  BY <1>1, <1>2, <1>3, <1>4

\* What a message is credited with only grows, by a send or by an admission.
LEMMA CreditStep ==
  ASSUME TypeOK, Forms, Next
  PROVE  /\ sends' \in [Messages -> Nat] /\ admitted' \in [Messages -> Nat]
         /\ \/ sends' = sends
            \/ \E h \in Handlers : /\ SendReply(h) /\ run[h].pc = "send" /\ Msg(h) \in Messages
                                   /\ sends' = [sends EXCEPT ![Msg(h)] = @ + 1]
         /\ \/ admitted' = admitted
            \/ \E h \in Handlers : /\ CheckDuplicate(h) /\ run[h].pc = "check" /\ Goes(h, "logInbound")
                                   /\ Msg(h) \in Messages /\ reply[Msg(h)] = "none"
                                   /\ admitted' = [admitted EXCEPT ![Msg(h)] = @ + 1]
<1>0. sends \in [Messages -> Nat] /\ admitted \in [Messages -> Nat]
  BY RowsTyped
<1>1. ASSUME NEW f \in [Messages -> Nat], NEW m \in Messages PROVE [f EXCEPT ![m] = @ + 1] \in [Messages -> Nat]
  OBVIOUS
<1>2. ASSUME NEW h \in Handlers, SendReply(h)
      PROVE  run[h].pc = "send" /\ Msg(h) \in Messages /\ sends' = [sends EXCEPT ![Msg(h)] = @ + 1]
  BY <1>2, WorkTyped DEF SendReply, AtItem, Forms
<1>3. ASSUME NEW h \in Handlers, CheckDuplicate(h)
      PROVE  \/ admitted' = admitted
             \/ /\ run[h].pc = "check" /\ Goes(h, "logInbound") /\ Msg(h) \in Messages /\ reply[Msg(h)] = "none"
                /\ admitted' = [admitted EXCEPT ![Msg(h)] = @ + 1]
  BY <1>3, CheckDuplicateDoes, WorkTyped DEF Forms
<1>4. /\ sends' \in [Messages -> Nat]
      /\ \/ sends' = sends
         \/ \E h \in Handlers : /\ SendReply(h) /\ run[h].pc = "send" /\ Msg(h) \in Messages
                                /\ sends' = [sends EXCEPT ![Msg(h)] = @ + 1]
  <2>1. CASE \E h \in Handlers : SendReply(h)
    BY <2>1, <1>2, <1>0, <1>1
  <2> QED
    BY <1>0, <2>1, SendsChange
<1>5. /\ admitted' \in [Messages -> Nat]
      /\ \/ admitted' = admitted
         \/ \E h \in Handlers : /\ CheckDuplicate(h) /\ run[h].pc = "check" /\ Goes(h, "logInbound")
                                /\ Msg(h) \in Messages /\ reply[Msg(h)] = "none"
                                /\ admitted' = [admitted EXCEPT ![Msg(h)] = @ + 1]
  <2>1. CASE \E h \in Handlers : CheckDuplicate(h)
    <3>1. PICK h \in Handlers : CheckDuplicate(h)
      BY <2>1
    <3>2. CASE admitted' = admitted
      BY <1>0, <3>2
    <3>3. CASE admitted' # admitted
      BY <1>3, <3>1, <3>3, <1>0, <1>1
    <3> QED
      BY <3>2, <3>3
  <2> QED
    BY <1>0, <2>1, AdmittedChanges
<1> QED
  BY <1>4, <1>5

LEMMA TypeStep ==
  ASSUME TypeOK, Forms, Next
  PROVE  TypeOK'
  BY RunStep, ConvStep, TicketsStep, RepliesStep, SetsStep, CreditStep, BoundsStep DEF TypeOK, RunState, DeskState

LEMMA Grows ==
  ASSUME TypeOK, Forms, Next
  PROVE  /\ inbound \subseteq inbound' /\ announced \subseteq announced' /\ DOMAIN tickets \subseteq DOMAIN tickets'
         /\ \A t \in DOMAIN tickets : tickets'[t] = tickets[t]
         /\ \A m \in Messages : reply[m] # "none" => reply'[m] # "none"
         /\ \A c \in Conversations : conv[c].exists => conv'[c].exists
BY SetsStep, TicketsStep, RepliesStep, ConvStep

-----------------------------------------------------------------------------
(* The forms are kept.                                                     *)

LEMMA SameItem ==
  ASSUME NEW h \in Handlers, run'[h].batch = run[h].batch, run'[h].pos = run[h].pos
  PROVE  Msg(h)' = Msg(h)
BY DEF Msg

LEMMA SameTicket ==
  ASSUME NEW h \in Handlers, Msg(h)' = Msg(h), run'[h].outcome = run[h].outcome
  PROVE  EscalationTicket(h)' = EscalationTicket(h)
BY DEF EscalationTicket

\* A request that does not move keeps its form, whatever the others do.
LEMMA StandingForm ==
  ASSUME TypeOK, Forms, Next, NEW g \in Handlers, run'[g] = run[g]
  PROVE  RunForm(g)'
  BY SameItem, SameTicket, WorkTyped, Grows DEF Forms, RunForm, Past, Heard, Judged, Replied

LEMMA TurnedForm ==
  ASSUME NEW h \in Handlers, Turns(h)
  PROVE  RunForm(h)'
BY DEF RunForm, Turns, Heard, Judged, Replied, Ticketed

\* A request that moves on keeps what it knew; the step has to add what the new place asks for.
LEMMA MovedForm ==
  ASSUME TypeOK, Forms, Next, NEW h \in Handlers, NEW pc \in RunPC \ {"idle", "route"}, Goes(h, pc),
         run[h].pos <= Len(Items[run[h].batch]), Kind[Msg(h)] = "text", run[h].pc # "idle",
         pc # "upsert" => conv'[ConvOf[Msg(h)]].exists,
         pc \in Heard => Msg(h) \in inbound',
         pc \in Judged => run'[h].outcome \in Outcome,
         pc \in Replied => reply'[Msg(h)] # "none",
         pc \in {"insertTicket", "announce", "notify"} => run'[h].outcome # "answer",
         pc \notin Ticketed => run'[h].ticket = 0,
         pc \in {"announce", "notify"} => run'[h].ticket # 0,
         run'[h].ticket # 0 => /\ run'[h].ticket \in DOMAIN tickets'
                               /\ tickets'[run'[h].ticket] = EscalationTicket(h)'
                               /\ pc # "announce" => run'[h].ticket \in announced'
  PROVE  RunForm(h)'
  BY SameItem DEF Goes, Forms, RunForm

\* What a working request knows is still so after the step.
LEMMA StillKnown ==
  ASSUME TypeOK, Forms, Next, NEW h \in Handlers, run[h].pc \notin {"idle", "route"}
  PROVE  /\ Msg(h) \in Messages /\ run[h].pos <= Len(Items[run[h].batch]) /\ Kind[Msg(h)] = "text"
         /\ run[h].pc # "upsert" => conv'[ConvOf[Msg(h)]].exists
         /\ run[h].pc \in Heard => Msg(h) \in inbound'
         /\ run[h].pc \in Replied => reply'[Msg(h)] # "none"
         /\ run[h].ticket # 0 =>
              /\ run[h].ticket \in DOMAIN tickets' /\ tickets'[run[h].ticket] = EscalationTicket(h)
              /\ run[h].pc # "announce" => run[h].ticket \in announced'
  BY WorkTyped, Grows DEF Forms, RunForm

LEMMA UpsertForm ==
  ASSUME TypeOK, Forms, Next, NEW h \in Handlers, FindConversation(h) \/ UpsertConversation(h)
  PROVE  RunForm(h)'
<1>0. RunForm(h)
  BY DEF Forms
<1>1. CASE FindConversation(h)
  BY <1>0, <1>1, FindConversationDoes, MovedForm DEF RunForm, Keeps, Ticketed, RunPC, Heard, Judged, Replied
<1>2. CASE UpsertConversation(h)
  <2>1. CASE Turns(h)
    BY <2>1, TurnedForm
  <2>2. CASE /\ Goes(h, "check") /\ Keeps(h)
             /\ conv' = [conv EXCEPT ![ConvOf[Msg(h)]].exists = TRUE]
    <3>1. run[h].pc = "upsert"
      BY <1>0, <1>2, UpsertConversationDoes
    <3>2. ConvOf[Msg(h)] \in Conversations /\ conv \in [Conversations -> Conversation]
      BY <1>0, <3>1, WorkTyped, RowsTyped
    <3>3. conv'[ConvOf[Msg(h)]].exists
      BY <2>2, <3>2 DEF Conversation
    <3>4. run'[h].ticket = 0
      BY <1>0, <2>2, <3>1 DEF RunForm, Keeps, Ticketed
    <3>5. run[h].pos <= Len(Items[run[h].batch]) /\ Kind[Msg(h)] = "text"
      BY <3>1, StillKnown
    <3> QED
      BY <2>2, <3>1, <3>3, <3>4, <3>5, MovedForm DEF RunPC, Heard, Judged, Replied, Ticketed
  <2> QED
    BY <1>0, <1>2, <2>1, <2>2, UpsertConversationDoes
<1> QED
  BY <1>1, <1>2

LEMMA CheckForm ==
  ASSUME TypeOK, Forms, Next, NEW h \in Handlers, CheckDuplicate(h) \/ LogInbound(h) \/ GenerateReply(h)
  PROVE  RunForm(h)'
<1>0. RunForm(h)
  BY DEF Forms
<1>1. CASE CheckDuplicate(h)
  <2>1. run[h].pc = "check" /\ (Turns(h) \/ (Goes(h, "logInbound") /\ Keeps(h)))
    BY <1>0, <1>1, CheckDuplicateDoes
  <2>2. CASE Turns(h)
    BY <2>2, TurnedForm
  <2>3. CASE Goes(h, "logInbound") /\ Keeps(h)
    BY <1>0, <2>1, <2>3, StillKnown, MovedForm DEF RunForm, Keeps, Ticketed, RunPC, Heard, Judged, Replied
  <2> QED
    BY <2>1, <2>2, <2>3
<1>2. CASE LogInbound(h)
  BY <1>0, <1>2, LogInboundDoes, StillKnown, MovedForm DEF RunForm, Keeps, Ticketed, RunPC, Heard, Judged, Replied
<1>3. CASE GenerateReply(h)
  BY <1>0, <1>3, GenerateReplyDoes, StillKnown, MovedForm DEF RunForm, Ticketed, RunPC, Heard, Judged, Replied
<1> QED
  BY <1>1, <1>2, <1>3

LEMMA ReplyForm ==
  ASSUME TypeOK, Forms, Next, NEW h \in Handlers, LogReply(h) \/ InsertTicket(h)
  PROVE  RunForm(h)'
<1>0. RunForm(h)
  BY DEF Forms
<1>1. CASE LogReply(h)
  BY <1>0, <1>1, LogReplyDoes, RowsTyped, StillKnown, MovedForm DEF Outcome, RunForm, Keeps, Ticketed, Heard, Judged,
     Replied, RunPC
<1>2. CASE InsertTicket(h)
  BY <1>0, <1>2, InsertTicketDoes, TicketAppended, SameItem, SameTicket, StillKnown, MovedForm DEF Goes, Heard,
     Judged, Replied, RunForm, RunPC, Ticketed
<1> QED
  BY <1>1, <1>2

LEMMA AnnounceForm ==
  ASSUME TypeOK, Forms, Next, NEW h \in Handlers, AnnounceTicket(h) \/ NotifyPoc(h) \/ SaveResult(h)
  PROVE  RunForm(h)'
<1>0. RunForm(h)
  BY DEF Forms
<1>1. PICK pc \in {"notify", "saveResult", "send"} :
        /\ Goes(h, pc) /\ Keeps(h) /\ run[h].pc \in {"announce", "notify", "saveResult"}
        /\ pc = "notify" => run[h].pc = "announce"
        /\ run[h].pc = "announce" => run[h].ticket \in announced'
  BY <1>0, AnnounceTicketDoes, NotifyPocDoes, SaveResultDoes
<1>2. EscalationTicket(h)' = EscalationTicket(h)
  BY <1>1, SameItem, SameTicket DEF Goes, Keeps
<1>3. /\ run[h].pos <= Len(Items[run[h].batch]) /\ Kind[Msg(h)] = "text"
      /\ conv'[ConvOf[Msg(h)]].exists /\ Msg(h) \in inbound' /\ reply'[Msg(h)] # "none"
  BY <1>1, StillKnown DEF Heard, Judged, Replied
<1>4. /\ run'[h].outcome \in Outcome
      /\ run[h].pc \in {"announce", "notify"} => run'[h].outcome # "answer"
      /\ run[h].pc = "announce" => run'[h].ticket # 0
  BY <1>0, <1>1 DEF RunForm, Judged, Replied, Keeps
<1>5. run'[h].ticket # 0 => /\ run'[h].ticket \in DOMAIN tickets'
                            /\ tickets'[run'[h].ticket] = EscalationTicket(h)'
                            /\ run'[h].ticket \in announced'
  BY <1>1, <1>2, StillKnown DEF Keeps
<1> QED
  BY <1>1, <1>3, <1>4, <1>5, MovedForm DEF RunPC, Ticketed

LEMMA RunFormsStep ==
  ASSUME TypeOK, Forms, Next, NEW g \in Handlers
  PROVE  RunForm(g)'
<1>1. ASSUME NEW h \in Handlers, Delivered(h) \/ Step(h) \/ Fail(h) PROVE RunForm(g)'
  <2>0. RunForm(h)
    BY DEF Forms
  <2>1. \/ Turns(h)
        \/ FindConversation(h) \/ UpsertConversation(h)
        \/ CheckDuplicate(h) \/ LogInbound(h) \/ GenerateReply(h)
        \/ LogReply(h) \/ InsertTicket(h)
        \/ AnnounceTicket(h) \/ NotifyPoc(h) \/ SaveResult(h)
    BY <1>1, <2>0, RoutedStep DEF Step
  <2>2. CASE g = h
    <3>1. RunForm(h)'
      BY <2>1, TurnedForm, UpsertForm, CheckForm, ReplyForm, AnnounceForm
    <3>2. run'[g] = run'[h]
      BY <2>2
    <3> QED
      BY <2>2, <3>1, Zenon
  <2>3. CASE g # h
    <3>1. Turns(h) \/ \E pc \in RunPC : Goes(h, pc)
      BY <2>0, <2>1, FindConversationDoes, UpsertConversationDoes, CheckDuplicateDoes, LogInboundDoes,
         GenerateReplyDoes, LogReplyDoes, InsertTicketDoes, AnnounceTicketDoes, NotifyPocDoes, SaveResultDoes
         DEF RunPC
    <3>2. run'[g] = run[g]
      BY <2>3, <3>1 DEF Goes, Turns
    <3> QED
      BY <3>2, StandingForm
  <2> QED
    BY <2>2, <2>3
<1>2. ASSUME NEW o \in Operators, Takeover(o) PROVE RunForm(g)'
  BY <1>2, RunFrame, StandingForm
<1> QED
  BY <1>1, <1>2, NextCases

\* The other takeovers keep their form, and a takeover's own step gives it the next one.
LEMMA DeskFormsStep ==
  ASSUME TypeOK, Forms, LinkSound, Next, NEW p \in Operators
  PROVE  DeskForm(p)'
<1>0. DeskForm(p)
  BY DEF Forms
<1>1. ASSUME desk'[p] = desk[p] PROVE DeskForm(p)'
  BY <1>0, <1>1, Grows DEF DeskForm
<1>2. ASSUME NEW h \in Handlers, Delivered(h) \/ Step(h) \/ Fail(h) PROVE DeskForm(p)'
  BY <1>1, <1>2, DeskFrame
<1>3. ASSUME NEW o \in Operators, Takeover(o), o # p PROVE DeskForm(p)'
  BY <1>1, <1>3, TakeoverTyped DEF Forms
<1>4. ASSUME NEW c \in Conversations, BeginTakeover(p, c) PROVE DeskForm(p)'
  BY <1>4, BeginTakeoverDoes, Grows DEF LinkSound, DeskForm
<1>5. CASE TakeoverInsert(p)
  <2>1. /\ desk'[p].pc = "announce" /\ desk'[p].conv = desk[p].conv
        /\ desk[p].conv \in Conversations /\ desk'[p].ticket = Len(tickets) + 1
        /\ [conv |-> desk[p].conv, prio |-> "P2", msg |-> "takeover"] \in Ticket
        /\ tickets' = Append(tickets, [conv |-> desk[p].conv, prio |-> "P2", msg |-> "takeover"])
    BY <1>0, <1>5, TakeoverInsertDoes
  <2>2. Len(tickets) + 1 \in DOMAIN tickets' /\ tickets'[Len(tickets) + 1].conv = desk[p].conv
    BY <2>1, TicketAppended
  <2> QED
    BY <2>1, <2>2 DEF DeskForm
<1>6. CASE TakeoverAnnounce(p) \/ TakeoverAttach(p) \/ TakeoverRecord(p) \/ TakeoverFail(p)
  <2>1. /\ desk'[p].conv = desk[p].conv /\ desk'[p].ticket = desk[p].ticket
        /\ \/ desk[p].pc = "announce" /\ desk'[p].pc = "attach" /\ desk[p].ticket \in announced'
           \/ desk[p].pc = "attach" /\ desk'[p].pc = "record"
           \/ desk[p].pc = "record" /\ desk'[p].pc = "done"
           \/ desk'[p].pc = "failed"
    BY <1>6, TakeoverMoves
  <2> QED
    BY <1>0, <2>1, Grows DEF DeskForm
<1>7. ASSUME Takeover(p) PROVE DeskForm(p)'
  BY <1>4, <1>5, <1>6, <1>7 DEF Takeover
<1> QED
  BY <1>2, <1>3, <1>7, NextCases

LEMMA FormsStep ==
  ASSUME TypeOK, Forms, LinkSound, Next
  PROVE  Forms'
  BY RunFormsStep, DeskFormsStep DEF Forms

-----------------------------------------------------------------------------
(* Links, records and alerts.                                              *)

LEMMA LinkSoundStep ==
  ASSUME TypeOK, Forms, LinkSound, Next
  PROVE  LinkSound'
<1>1. ASSUME NEW c \in Conversations, conv'[c].ticket # 0
      PROVE  conv'[c].ticket \in DOMAIN tickets' \cap announced' /\ tickets'[conv'[c].ticket].conv = c
  <2>1. PICK n \in DOMAIN tickets \cap announced : n = conv'[c].ticket /\ tickets[n].conv = c
    <3>1. CASE conv'[c].ticket = conv[c].ticket
      BY <1>1, <3>1 DEF LinkSound
    <3>2. ASSUME NEW h \in Handlers, SaveResult(h), ConvOf[Msg(h)] = c, run[h].ticket # 0,
                 conv'[c].ticket = run[h].ticket
          PROVE  \E n \in DOMAIN tickets \cap announced : n = conv'[c].ticket /\ tickets[n].conv = c
      <4>1. run[h].pc = "saveResult"
        BY <3>2 DEF SaveResult, AtItem
      <4>2. /\ run[h].ticket \in DOMAIN tickets \cap announced
            /\ tickets[run[h].ticket] = EscalationTicket(h)
        BY <3>2, <4>1 DEF Forms, RunForm
      <4> QED
        BY <3>2, <4>2 DEF EscalationTicket
    <3>3. ASSUME NEW o \in Operators, TakeoverAttach(o), desk[o].conv = c, conv'[c].ticket = desk[o].ticket
          PROVE  \E n \in DOMAIN tickets \cap announced : n = conv'[c].ticket /\ tickets[n].conv = c
      BY <3>3 DEF TakeoverAttach, Forms, DeskForm
    <3> QED
      BY <3>1, <3>2, <3>3, ConvStep
  <2> QED
    BY <2>1, Grows
<1>2. \A o \in Operators : DeskForm(o)'
  BY DeskFormsStep
<1>3. ASSUME NEW o \in Operators, desk'[o].pc = "done"
      PROVE  desk'[o].ticket \in DOMAIN tickets' \cap announced' /\ tickets'[desk'[o].ticket].conv = desk'[o].conv
  BY <1>2, <1>3 DEF DeskForm
<1> QED
  BY <1>1, <1>3 DEF LinkSound

LEMMA RecordStep ==
  ASSUME TypeOK, Forms, TicketHasRecord, pinged \subseteq DOMAIN tickets, Next
  PROVE  TicketHasRecord' /\ pinged' \subseteq DOMAIN tickets'
<1>0. tickets \in Seq(Ticket) /\ \A t \in DOMAIN tickets : tickets[t] \in Ticket
  BY RowsTyped
<1>1. ASSUME NEW t \in DOMAIN tickets, tickets[t].msg # "takeover"
      PROVE  /\ tickets'[t] = tickets[t] /\ tickets[t].msg \in inbound' /\ reply'[tickets[t].msg] # "none"
             /\ conv'[tickets[t].conv].exists
  BY <1>0, <1>1, Grows DEF Ticket, TicketHasRecord
<1>2. ASSUME NEW h \in Handlers, InsertTicket(h)
      PROVE  Msg(h) \in inbound' /\ reply'[Msg(h)] # "none" /\ conv'[ConvOf[Msg(h)]].exists
  BY <1>2, StillKnown DEF InsertTicket, AtItem, Heard, Judged, Replied
<1>3. ASSUME NEW t \in DOMAIN tickets', tickets'[t].msg # "takeover"
      PROVE  tickets'[t].msg \in inbound' /\ reply'[tickets'[t].msg] # "none" /\ conv'[tickets'[t].conv].exists
  <2>1. CASE t \in DOMAIN tickets
    BY <1>1, <1>3, <2>1, Grows
  <2>2. CASE t \notin DOMAIN tickets
    <3>0. \/ \E h \in Handlers : InsertTicket(h) /\ tickets'[t] = EscalationTicket(h)
          \/ \E o \in Operators : tickets'[t] = [conv |-> desk[o].conv, prio |-> "P2", msg |-> "takeover"]
      <4>1. PICK n \in Nat \ {0} :
              /\ DOMAIN tickets' = DOMAIN tickets \union {n}
              /\ \/ \E h \in Handlers : InsertTicket(h) /\ tickets'[n] = EscalationTicket(h)
                 \/ \E o \in Operators : tickets'[n] = [conv |-> desk[o].conv, prio |-> "P2", msg |-> "takeover"]
        BY <2>2, TicketsStep
      <4>2. t = n
        BY <2>2, <4>1
      <4> QED
        BY <4>1, <4>2
    <3>1. PICK h \in Handlers : InsertTicket(h) /\ tickets'[t] = EscalationTicket(h)
      BY <1>3, <3>0
    <3> QED
      BY <1>2, <3>1 DEF EscalationTicket
  <2> QED
    BY <2>1, <2>2
<1>4. ASSUME NEW t \in pinged' PROVE t \in DOMAIN tickets /\ tickets[t].prio = "P1"
  <2>1. CASE t \in pinged
    BY <2>1 DEF TicketHasRecord
  <2>2. CASE t \notin pinged
    <3>1. PICK h \in Handlers : /\ NotifyPoc(h) /\ run[h].pc = "notify" /\ run[h].outcome = "P1"
                                /\ t = run[h].ticket
      BY <2>2, PingedChanges, NotifyPocDoes DEF Forms
    <3>2. t \in DOMAIN tickets /\ tickets[t] = EscalationTicket(h)
      BY <3>1 DEF Forms, RunForm
    <3> QED
      BY <3>1, <3>2 DEF EscalationTicket
  <2> QED
    BY <2>1, <2>2
<1>5. pinged' \subseteq DOMAIN tickets' /\ \A t \in pinged' : tickets'[t].prio = "P1"
  BY <1>4, Grows
<1> QED
  BY <1>3, <1>5 DEF TicketHasRecord

\* The strengthening of the four safety invariants that hold whatever fails: what a
\* request and a takeover know at each step is in the rows, and stays there.
IntakeInv ==
  /\ TypeOK
  /\ Forms
  /\ LinkSound
  /\ TicketHasRecord
  /\ pinged \subseteq DOMAIN tickets

LEMMA InitInv ==
  ASSUME Init
  PROVE  IntakeInv
<1>1. NoRun \in RunState /\ NoRun.pc = "idle" /\ NoRun.ticket = 0
  BY NoRunIs
<1>2. NoTakeover \in DeskState /\ NoTakeover.pc = "ready"
  BY DEF NoTakeover, DeskState, DeskPC
<1>3. DOMAIN tickets = {} /\ tickets \in Seq(Ticket)
  BY DEF Init
<1>4. /\ run \in [Handlers -> RunState] /\ \A h \in Handlers : run[h] = NoRun
      /\ desk \in [Operators -> DeskState] /\ \A o \in Operators : desk[o] = NoTakeover
  BY <1>1, <1>2 DEF Init
<1>5. TypeOK
  BY IntakeAssumption, <1>3, <1>4 DEF Conversation, Init, TypeOK, RunState, DeskState
<1>6. Forms
  BY <1>1, <1>4, <1>2 DEF RunForm, Heard, Judged, Replied, Ticketed, DeskForm, Forms
<1>7. LinkSound
  BY <1>2, <1>4 DEF Init, LinkSound
<1>8. TicketHasRecord /\ pinged \subseteq DOMAIN tickets
  BY <1>3 DEF Init, TicketHasRecord
<1> QED
  BY <1>5, <1>6, <1>7, <1>8 DEF IntakeInv

LEMMA StutterInv ==
  ASSUME IntakeInv, UNCHANGED vars
  PROVE  IntakeInv'
<1>1. /\ conv' = conv /\ inbound' = inbound /\ reply' = reply /\ tickets' = tickets /\ announced' = announced
      /\ pinged' = pinged /\ acked' = acked /\ run' = run /\ desk' = desk /\ sends' = sends
      /\ admitted' = admitted /\ failures' = failures /\ duplicates' = duplicates
  BY DEF vars, rows
<1>2. TypeOK'
  BY <1>1 DEF IntakeInv, TypeOK
<1>3. Forms'
  BY <1>1 DEF IntakeInv, Forms, RunForm, DeskForm, Msg, EscalationTicket
<1>4. LinkSound' /\ TicketHasRecord' /\ pinged' \subseteq DOMAIN tickets'
  BY <1>1 DEF IntakeInv, LinkSound, TicketHasRecord
<1> QED
  BY <1>2, <1>3, <1>4 DEF IntakeInv

LEMMA StepInv ==
  ASSUME IntakeInv, [Next]_vars
  PROVE  IntakeInv'
  BY TypeStep, FormsStep, LinkSoundStep, RecordStep, StutterInv DEF IntakeInv

\* In every reachable state what a request and a takeover know is in the rows, whatever crashes.
THEOREM Invariance == Spec => []IntakeInv
<1>1. Init => IntakeInv
  BY InitInv
<1>2. IntakeInv /\ [Next]_vars => IntakeInv'
  BY StepInv
<1> QED
  BY <1>1, <1>2, PTL DEF Spec

\* Every variable keeps its type.
THEOREM TypeCorrect == Spec => []TypeOK
BY Invariance, PTL DEF IntakeInv

\* What a conversation links and what an operator is given is a stored, announced ticket
\* of that conversation.
THEOREM LinksAreSound == Spec => []LinkSound
BY Invariance, PTL DEF IntakeInv

\* A ticket of the AI has the message and the reply on record, an alert a P1 ticket.
THEOREM TicketsHaveRecords == Spec => []TicketHasRecord
BY Invariance, PTL DEF IntakeInv

-----------------------------------------------------------------------------
(* Without a failure every ticket gets linked and every escalation its ticket. *)

LEMMA WhoMoves ==
  ASSUME TypeOK, Forms, Next, NEW g \in Handlers
  PROVE  run'[g] = run[g] \/ Delivered(g) \/ Step(g) \/ Fail(g)
<1>1. ASSUME NEW h \in Handlers, Delivered(h) \/ Step(h) \/ Fail(h), h # g PROVE run'[g] = run[g]
  <2>1. RunForm(h)
    BY DEF Forms
  <2>2. Turns(h) \/ \E pc \in RunPC : Goes(h, pc)
    BY <1>1, <2>1, RoutedStep, FindConversationDoes, UpsertConversationDoes, CheckDuplicateDoes, LogInboundDoes,
       GenerateReplyDoes, LogReplyDoes, InsertTicketDoes, AnnounceTicketDoes, NotifyPocDoes, SaveResultDoes
       DEF Step, RunPC
  <2> QED
    BY <1>1, <2>2 DEF Goes, Turns
<1>2. ASSUME NEW o \in Operators, Takeover(o) PROVE run'[g] = run[g]
  BY <1>2, RunFrame
<1> QED
  BY <1>1, <1>2, NextCases

LEMMA WhoTakesOver ==
  ASSUME TypeOK, Forms, Next, NEW p \in Operators
  PROVE  desk'[p] = desk[p] \/ Takeover(p)
  BY DeskFrame, TakeoverTyped, NextCases DEF Forms

\* Which step a request takes where.
LEMMA StepAt ==
  ASSUME NEW h \in Handlers, Delivered(h) \/ Step(h) \/ Fail(h)
  PROVE  /\ run[h].pc = "logInbound" => LogInbound(h) \/ Fail(h)
         /\ run[h].pc = "generate" => GenerateReply(h) \/ Fail(h)
         /\ run[h].pc = "logReply" => LogReply(h) \/ Fail(h)
         /\ run[h].pc = "insertTicket" => InsertTicket(h) \/ Fail(h)
         /\ run[h].pc = "announce" => AnnounceTicket(h) \/ Fail(h)
         /\ run[h].pc = "notify" => NotifyPoc(h) \/ Fail(h)
         /\ run[h].pc = "saveResult" => SaveResult(h) \/ Fail(h)
         /\ run[h].pc = "send" => SendReply(h) \/ Fail(h)
         /\ run[h].pc = "idle" => Delivered(h)
         /\ run[h].pc = "upsert" => UpsertConversation(h) \/ Fail(h)
         /\ run[h].pc = "check" => CheckDuplicate(h) \/ Fail(h)
BY DEF Delivered, Deliver, Duplicate, Start, Step, Fail, AtItem, Respond, RejectUnroutable, CaptureCsat,
    FindConversation, UpsertConversation, CheckDuplicate, LogInbound, GenerateReply, LogReply,
    InsertTicket, AnnounceTicket, NotifyPoc, SaveResult, SendReply

\* Until a ticket is linked its request or its takeover is still under way.
Cared(t) ==
  \/ conv[tickets[t].conv].ticket # 0
  \/ \E h \in Handlers : run[h].pc \in {"announce", "notify", "saveResult"} /\ run[h].ticket = t
  \/ \E o \in Operators : desk[o].pc \in {"announce", "attach"} /\ desk[o].ticket = t

Links == failures = 0 => \A t \in DOMAIN tickets : Cared(t)

\* Between the reply and its ticket the request stands at the insert.
Raising ==
  failures = 0 => \A m \in Messages : reply[m] \in Escalated =>
    \/ TicketsFor(m) # {}
    \/ \E h \in Handlers : run[h].pc = "insertTicket" /\ Msg(h) = m

LEMMA LinksStep ==
  ASSUME IntakeInv, Links, Next
  PROVE  Links'
<1> USE DEF IntakeInv
<1> SUFFICES ASSUME failures' = 0, NEW t \in DOMAIN tickets' PROVE Cared(t)'
  BY DEF Links
<1>0. /\ failures = 0 /\ (\A h \in Handlers : ~Fail(h)) /\ (\A o \in Operators : ~TakeoverFail(o))
  BY BoundsStep
<1>1. CASE t \notin DOMAIN tickets
  <2>1. PICK n \in Nat \ {0} :
          /\ DOMAIN tickets' = DOMAIN tickets \union {n}
          /\ \/ \E h \in Handlers : InsertTicket(h) /\ run'[h].ticket = n
             \/ \E o \in Operators : TakeoverInsert(o) /\ desk'[o].ticket = n
    BY <1>1, TicketsStep
  <2>2. t = n
    BY <1>1, <2>1
  <2>3. ASSUME NEW h \in Handlers, InsertTicket(h) PROVE run'[h].pc = "announce"
    BY <2>3, InsertTicketDoes DEF Forms, Goes
  <2>4. ASSUME NEW o \in Operators, TakeoverInsert(o) PROVE desk'[o].pc = "announce"
    BY <2>4, TakeoverInsertDoes DEF Forms
  <2> QED
    BY <2>1, <2>2, <2>3, <2>4 DEF Cared
<1>2. CASE t \in DOMAIN tickets
  <2>0. /\ tickets[t] \in Ticket /\ tickets[t].conv \in Conversations /\ tickets'[t] = tickets[t] /\ t # 0
    <3>1. tickets \in Seq(Ticket) /\ DOMAIN tickets = 1..Len(tickets)
      BY RowsTyped
    <3>2. tickets[t] \in Ticket /\ t # 0
      BY <1>2, <3>1
    <3>3. tickets[t].conv \in Conversations
      BY <3>2 DEF Ticket
    <3> QED
      BY <1>2, <3>2, <3>3, Grows
  <2>1. CASE conv[tickets[t].conv].ticket # 0
    <3>1. conv'[tickets[t].conv].ticket # 0
      <4>1. \A o \in Operators : TakeoverAttach(o) => desk[o].ticket \in DOMAIN tickets
        BY DEF TakeoverAttach, Forms, DeskForm
      <4>2. \A o \in Operators : TakeoverAttach(o) => desk[o].ticket # 0
        BY <4>1, RowsTyped
      <4> QED
        BY <2>0, <2>1, <4>2, ConvStep
    <3> QED
      BY <2>0, <3>1 DEF Cared
  <2>2. ASSUME NEW h \in Handlers, run[h].pc \in {"announce", "notify", "saveResult"}, run[h].ticket = t
        PROVE  Cared(t)'
    <3>1. CASE run'[h] = run[h]
      BY <2>2, <3>1 DEF Cared
    <3>2. CASE AnnounceTicket(h) \/ NotifyPoc(h)
      BY <2>2, <3>2, AnnounceTicketDoes, NotifyPocDoes DEF Forms, Goes, Keeps, Cared
    <3>3. CASE SaveResult(h)
      <4>1. /\ ConvOf[Msg(h)] \in Conversations /\ conv' = [conv EXCEPT ![ConvOf[Msg(h)]].ticket = LinkAfter(h)]
        BY <3>3, SaveResultDoes DEF Forms
      <4>2. LinkAfter(h) = t /\ tickets[t].conv = ConvOf[Msg(h)]
        <5>1. LinkAfter(h) = t
          BY <2>0, <2>2 DEF LinkAfter
        <5>2. tickets[t] = EscalationTicket(h)
          BY <2>0, <2>2 DEF Forms, RunForm
        <5> QED
          BY <5>1, <5>2 DEF EscalationTicket
      <4>3. conv \in [Conversations -> Conversation]
        BY RowsTyped
      <4>4. conv'[tickets[t].conv].ticket = t
        BY <2>0, <4>1, <4>2, <4>3 DEF Conversation
      <4> QED
        BY <2>0, <4>4 DEF Cared
    <3> QED
      BY <1>0, <2>2, <3>1, <3>2, <3>3, WhoMoves, StepAt
  <2>3. ASSUME NEW o \in Operators, desk[o].pc \in {"announce", "attach"}, desk[o].ticket = t
        PROVE  Cared(t)'
    <3>1. CASE desk'[o] = desk[o]
      BY <2>3, <3>1 DEF Cared
    <3>2. CASE TakeoverAnnounce(o)
      BY <2>3, <3>2, TakeoverMoves DEF Cared, TakeoverAnnounce, TakeoverAttach, TakeoverRecord
    <3>3. CASE TakeoverAttach(o)
      BY <2>3, <3>3, RowsTyped, <2>0 DEF Forms, DeskForm, TakeoverAttach, Conversation, Cared
    <3>4. Takeover(o) => TakeoverAnnounce(o) \/ TakeoverAttach(o)
      BY <1>0, <2>3 DEF Takeover, BeginTakeover, TakeoverInsert, TakeoverRecord
    <3> QED
      BY <3>1, <3>2, <3>3, <3>4, WhoTakesOver
  <2>4. Cared(t)
    BY <1>0, <1>2 DEF Links
  <2> QED
    BY <2>1, <2>2, <2>3, <2>4 DEF Cared
<1> QED
  BY <1>1, <1>2

LEMMA RaisingStep ==
  ASSUME IntakeInv, Raising, Next
  PROVE  Raising'
<1> USE DEF IntakeInv
<1> SUFFICES ASSUME failures' = 0, NEW m \in Messages, reply'[m] \in Escalated
             PROVE  \/ TicketsFor(m)' # {}
                    \/ \E h \in Handlers : run'[h].pc = "insertTicket" /\ Msg(h)' = m
  BY DEF Raising
<1>0. failures = 0 /\ \A h \in Handlers : ~Fail(h)
  BY BoundsStep
<1>1. CASE reply'[m] # reply[m]
  BY <1>1, ReplyChanges, LogReplyDoes, RowsTyped, SameItem DEF Forms, Escalated, Goes
<1>2. CASE TicketsFor(m) # {}
  BY <1>2, Grows DEF TicketsFor
<1>3. ASSUME NEW h \in Handlers, run[h].pc = "insertTicket", Msg(h) = m
      PROVE  \/ TicketsFor(m)' # {}
             \/ \E g \in Handlers : run'[g].pc = "insertTicket" /\ Msg(g)' = m
  <2>1. CASE run'[h] = run[h]
    BY <1>3, <2>1, SameItem
  <2>2. CASE InsertTicket(h)
    <3>1. /\ EscalationTicket(h) \in Ticket /\ tickets' = Append(tickets, EscalationTicket(h))
      BY <2>2, InsertTicketDoes DEF Forms
    <3>2. Len(tickets) + 1 \in DOMAIN tickets' /\ tickets'[Len(tickets) + 1] = EscalationTicket(h)
      BY <3>1, TicketAppended
    <3>3. PICK n \in DOMAIN tickets' : tickets'[n].msg = m
      BY <1>3, <3>2 DEF EscalationTicket
    <3> QED
      BY <3>3 DEF TicketsFor
  <2> QED
    BY <1>0, <1>3, <2>1, <2>2, WhoMoves, StepAt
<1> QED
  BY <1>0, <1>1, <1>2, <1>3 DEF Raising

\* As long as nothing crashed, every ticket is linked or about to be, and every escalating reply has its
\* ticket or a request about to insert it.
THEOREM CleanInvariance == Spec => [](IntakeInv /\ Links /\ Raising)
<1>1. Init => Links /\ Raising
  BY DEF Init, Links, Raising, Escalated
<1>2. IntakeInv /\ (Links /\ Raising) /\ [Next]_vars => (Links /\ Raising)'
  BY LinksStep, RaisingStep DEF Links, Raising, Cared, TicketsFor, Msg, vars, rows
<1> QED
  BY <1>1, <1>2, Invariance, PTL DEF Spec

\* Without a crash no ticket stays behind without a link once nothing is under way.
THEOREM NoTicketIsOrphaned == Spec => []NoOrphanTicket
<1>1. IntakeInv /\ Links => NoOrphanTicket
  BY DEF Links, Cared, NoOrphanTicket, DeskIdle
<1> QED
  BY <1>1, CleanInvariance, PTL

\* Without a crash an escalating reply has its ticket, or a request about to insert it.
THEOREM EscalationsAreRaised == Spec => []EscalationRaised
<1>1. Raising => EscalationRaised
  BY DEF Raising, EscalationRaised, BusyWith, PastCheck, RunPC
<1> QED
  BY <1>1, CleanInvariance, PTL

-----------------------------------------------------------------------------
(* What a message is credited with: admissions pay for sends and tickets.  *)

PastOf(m) == {h \in Handlers : run[h].pc \in Past /\ Msg(h) = m}
Before == {"logInbound", "generate", "logReply", "insertTicket"}
BeforeOf(m) == {h \in Handlers : run[h].pc \in Before /\ Msg(h) = m}

\* Every send made or still to be made, and every ticket, has an admission of its own.
Credited ==
  \A m \in Messages :
    /\ IsFiniteSet(PastOf(m))
    /\ sends[m] + Cardinality(PastOf(m)) <= admitted[m]
    /\ Cardinality(TicketsFor(m)) + Cardinality(BeforeOf(m)) <= admitted[m]

LEMMA BeforeFinite ==
  ASSUME NEW m, IsFiniteSet(PastOf(m))
  PROVE  BeforeOf(m) \subseteq PastOf(m) /\ IsFiniteSet(BeforeOf(m)) /\ Cardinality(BeforeOf(m)) \in Nat
  BY FS_Subset, FS_CardinalityType DEF BeforeOf, PastOf, Before, Past, Heard, Judged, Replied

LEMMA TicketsFinite ==
  ASSUME TypeOK, NEW m
  PROVE  IsFiniteSet(TicketsFor(m)) /\ Cardinality(TicketsFor(m)) \in Nat
<1>1. DOMAIN tickets = 1..Len(tickets) /\ Len(tickets) \in Nat
  BY RowsTyped
<1>2. IsFiniteSet(1..Len(tickets))
  BY <1>1, FS_Interval
<1>3. TicketsFor(m) \subseteq 1..Len(tickets)
  BY <1>1 DEF TicketsFor
<1>4. IsFiniteSet(TicketsFor(m))
  BY <1>2, <1>3, FS_Subset
<1> QED
  BY <1>4, FS_CardinalityType

\* A request gets past the duplicate check by being admitted only.
LEMMA Joins ==
  ASSUME TypeOK, Forms, Next, NEW m \in Messages, NEW h \in Handlers,
         run'[h].pc \in Past, Msg(h)' = m, ~(run[h].pc \in Past /\ Msg(h) = m)
  PROVE  /\ run[h].pc = "check" /\ Msg(h) = m /\ run'[h].pc = "logInbound"
         /\ admitted' = [admitted EXCEPT ![m] = @ + 1]
<1>0. RunForm(h)
  BY DEF Forms
<1>1. run'[h] # run[h]
  BY SameItem
<1>2. ~Turns(h)
  BY DEF Turns, Past, Heard, Judged, Replied
<1>3. CASE CheckDuplicate(h)
  BY <1>0, <1>2, <1>3, CheckDuplicateDoes, SameItem DEF Goes
<1>4. CASE FindConversation(h)
  BY <1>0, <1>4, FindConversationDoes DEF Goes, Past, Heard, Judged, Replied
<1>5. CASE UpsertConversation(h)
  BY <1>0, <1>2, <1>5, UpsertConversationDoes DEF Goes, Past, Heard, Judged, Replied
<1>6. ASSUME NEW pc \in RunPC, Goes(h, pc), run[h].pc \in Past PROVE FALSE
  BY <1>6, SameItem DEF Goes
<1>7. CASE \/ LogInbound(h) \/ GenerateReply(h) \/ LogReply(h) \/ InsertTicket(h) \/ AnnounceTicket(h)
           \/ NotifyPoc(h) \/ SaveResult(h)
  <2>1. run[h].pc \in Past /\ \E pc \in RunPC : Goes(h, pc)
    BY <1>0, <1>7, LogInboundDoes, GenerateReplyDoes, LogReplyDoes, InsertTicketDoes, AnnounceTicketDoes,
       NotifyPocDoes, SaveResultDoes DEF Past, Heard, Judged, Replied, RunPC
  <2> QED
    BY <1>6, <2>1
<1> QED
  BY <1>0, <1>1, <1>2, <1>3, <1>4, <1>5, <1>7, WhoMoves, RoutedStep DEF Step

LEMMA JoinsBefore ==
  ASSUME TypeOK, Forms, Next, NEW m \in Messages, NEW h \in Handlers,
         run'[h].pc \in Before, Msg(h)' = m, ~(run[h].pc \in Before /\ Msg(h) = m)
  PROVE  /\ run[h].pc = "check" /\ Msg(h) = m /\ run'[h].pc = "logInbound"
         /\ admitted' = [admitted EXCEPT ![m] = @ + 1]
<1>0. RunForm(h) /\ run'[h].pc \in Past
  BY DEF Forms, Before, Past, Heard, Judged, Replied
<1>1. run'[h] # run[h]
  BY SameItem
<1>2. CASE run[h].pc \in Past /\ Msg(h) = m
  <2>1. run[h].pc \in {"announce", "notify", "saveResult", "send"}
    BY <1>2 DEF Before, Past, Heard, Judged, Replied
  <2>2. Turns(h) \/ Goes(h, "notify") \/ Goes(h, "saveResult") \/ Goes(h, "send")
    BY <1>0, <1>1, <2>1, WhoMoves, StepAt, RoutedStep, AnnounceTicketDoes, NotifyPocDoes, SaveResultDoes
  <2> QED
    BY <2>2 DEF Turns, Goes, Before
<1> QED
  BY <1>0, <1>2, Joins

\* The requests that have to do with a message: none joins without an admission.
LEMMA PastStep ==
  ASSUME TypeOK, Forms, Next, NEW m \in Messages, admitted'[m] = admitted[m]
  PROVE  PastOf(m)' \subseteq PastOf(m) /\ BeforeOf(m)' \subseteq BeforeOf(m)
  BY RowsTyped, Joins, JoinsBefore DEF PastOf, BeforeOf

LEMMA AdmittedStep ==
  ASSUME TypeOK, Forms, Next, NEW m \in Messages, admitted'[m] # admitted[m]
  PROVE  \E h \in Handlers :
           /\ admitted'[m] = admitted[m] + 1 /\ tickets' = tickets /\ sends' = sends
           /\ h \notin PastOf(m) /\ PastOf(m)' = PastOf(m) \union {h}
           /\ h \notin BeforeOf(m) /\ BeforeOf(m)' = BeforeOf(m) \union {h}
<1>0. admitted \in [Messages -> Nat]
  BY RowsTyped
<1>1. PICK h \in Handlers : /\ CheckDuplicate(h) /\ run[h].pc = "check" /\ Goes(h, "logInbound")
                            /\ Msg(h) \in Messages
                            /\ admitted' = [admitted EXCEPT ![Msg(h)] = @ + 1]
  BY CreditStep
<1>2. Msg(h) = m /\ admitted'[m] = admitted[m] + 1
  BY <1>0, <1>1
<1>3. tickets' = tickets /\ sends' = sends
  BY <1>1 DEF CheckDuplicate, rows
<1>4. Msg(h)' = m /\ run'[h].pc = "logInbound"
  BY <1>1, <1>2, SameItem DEF Goes
<1>5. \A g \in Handlers \ {h} : run'[g] = run[g] /\ Msg(g)' = Msg(g)
  BY <1>1, SameItem DEF Goes
<1>6. h \notin PastOf(m) /\ h \notin BeforeOf(m)
  BY <1>1 DEF PastOf, BeforeOf, Before, Past, Heard, Judged, Replied
<1>7. PastOf(m)' = PastOf(m) \union {h}
  BY <1>4, <1>5 DEF PastOf, Past
<1>8. BeforeOf(m)' = BeforeOf(m) \union {h}
  BY <1>4, <1>5 DEF BeforeOf, Before
<1> QED
  BY <1>2, <1>3, <1>6, <1>7, <1>8

LEMMA SentStep ==
  ASSUME TypeOK, Forms, Next, NEW m \in Messages, sends'[m] # sends[m]
  PROVE  \E h \in PastOf(m) : PastOf(m)' = PastOf(m) \ {h} /\ sends'[m] = sends[m] + 1 /\ tickets' = tickets
<1>0. sends \in [Messages -> Nat]
  BY RowsTyped
<1>1. PICK h \in Handlers : /\ SendReply(h) /\ run[h].pc = "send" /\ Msg(h) \in Messages
                            /\ sends' = [sends EXCEPT ![Msg(h)] = @ + 1]
  BY CreditStep
<1>2. Msg(h) = m /\ sends'[m] = sends[m] + 1
  BY <1>0, <1>1
<1>3. tickets' = tickets
  BY <1>1 DEF SendReply, rows
<1>4. Turns(h)
  BY <1>1, RoutedStep DEF Forms
<1>5. \A g \in Handlers \ {h} : run'[g] = run[g] /\ Msg(g)' = Msg(g)
  BY <1>4, SameItem DEF Turns
<1>6. h \in PastOf(m)
  BY <1>1, <1>2 DEF PastOf, Past, Heard, Judged, Replied
<1>7. PastOf(m)' = PastOf(m) \ {h}
  BY <1>4, <1>5 DEF Turns, Past, Heard, Judged, Replied, PastOf
<1> QED
  BY <1>2, <1>3, <1>6, <1>7

LEMMA TicketedStep ==
  ASSUME TypeOK, Forms, Next, NEW m \in Messages, TicketsFor(m)' # TicketsFor(m)
  PROVE  \E h \in BeforeOf(m), n \in Nat :
           /\ InsertTicket(h) /\ Msg(h) = m /\ BeforeOf(m)' = BeforeOf(m) \ {h}
           /\ n \notin TicketsFor(m) /\ TicketsFor(m)' = TicketsFor(m) \union {n}
<1>1. tickets' # tickets
  BY DEF TicketsFor
<1>2. PICK n \in Nat \ {0} :
        /\ n \notin DOMAIN tickets /\ DOMAIN tickets' = DOMAIN tickets \union {n}
        /\ \/ \E h \in Handlers : InsertTicket(h) /\ tickets'[n] = EscalationTicket(h)
           \/ \E o \in Operators : tickets'[n] = [conv |-> desk[o].conv, prio |-> "P2", msg |-> "takeover"]
  BY <1>1, TicketsStep
<1>3. \A t \in DOMAIN tickets : tickets'[t] = tickets[t]
  BY TicketsStep
<1>4. tickets'[n].msg = m
  BY <1>2, <1>3 DEF TicketsFor
<1>5. m # "takeover"
  BY IntakeAssumption
<1>6. PICK h \in Handlers : InsertTicket(h) /\ tickets'[n] = EscalationTicket(h)
  BY <1>2, <1>4, <1>5
<1>7. Msg(h) = m /\ run[h].pc = "insertTicket"
  <2>1. EscalationTicket(h).msg = Msg(h)
    BY DEF EscalationTicket
  <2> QED
    BY <1>4, <1>6, <2>1 DEF InsertTicket, AtItem
<1>8. TicketsFor(m)' = TicketsFor(m) \union {n} /\ n \notin TicketsFor(m)
  BY <1>2, <1>3, <1>4 DEF TicketsFor
<1>9. Goes(h, "announce")
  BY <1>6, InsertTicketDoes DEF Forms
<1>10. \A g \in Handlers \ {h} : run'[g] = run[g] /\ Msg(g)' = Msg(g)
  BY <1>9, SameItem DEF Goes
<1>11. BeforeOf(m)' = BeforeOf(m) \ {h}
  BY <1>9, <1>10 DEF BeforeOf, Before, Goes
<1>12. h \in BeforeOf(m)
  BY <1>7 DEF BeforeOf, Before
<1> QED
  BY <1>2, <1>6, <1>7, <1>8, <1>11, <1>12

LEMMA CreditedStep ==
  ASSUME IntakeInv, Credited, Next
  PROVE  Credited'
<1> USE DEF IntakeInv
<1> SUFFICES ASSUME NEW m \in Messages
             PROVE  /\ IsFiniteSet(PastOf(m)')
                    /\ sends'[m] + Cardinality(PastOf(m)') <= admitted'[m]
                    /\ Cardinality(TicketsFor(m)') + Cardinality(BeforeOf(m)') <= admitted'[m]
  BY DEF Credited
<1>0. /\ IsFiniteSet(PastOf(m)) /\ IsFiniteSet(BeforeOf(m)) /\ IsFiniteSet(TicketsFor(m))
      /\ sends[m] \in Nat /\ admitted[m] \in Nat
      /\ Cardinality(PastOf(m)) \in Nat /\ Cardinality(BeforeOf(m)) \in Nat /\ Cardinality(TicketsFor(m)) \in Nat
      /\ sends[m] + Cardinality(PastOf(m)) <= admitted[m]
      /\ Cardinality(TicketsFor(m)) + Cardinality(BeforeOf(m)) <= admitted[m]
  BY BeforeFinite, TicketsFinite, RowsTyped, FS_CardinalityType DEF Credited
<1>1. CASE admitted'[m] # admitted[m]
  <2>1. PICK h \in Handlers :
           /\ admitted'[m] = admitted[m] + 1 /\ tickets' = tickets /\ sends' = sends
           /\ h \notin PastOf(m) /\ PastOf(m)' = PastOf(m) \union {h}
           /\ h \notin BeforeOf(m) /\ BeforeOf(m)' = BeforeOf(m) \union {h}
    BY <1>1, AdmittedStep
  <2>2. /\ IsFiniteSet(PastOf(m) \union {h}) /\ Cardinality(PastOf(m) \union {h}) = Cardinality(PastOf(m)) + 1
        /\ Cardinality(BeforeOf(m) \union {h}) = Cardinality(BeforeOf(m)) + 1
    BY <1>0, <2>1, FS_AddElement
  <2>3. TicketsFor(m)' = TicketsFor(m) /\ sends'[m] = sends[m]
    BY <2>1 DEF TicketsFor
  <2>4. /\ sends[m] + (Cardinality(PastOf(m)) + 1) <= admitted[m] + 1
        /\ Cardinality(TicketsFor(m)) + (Cardinality(BeforeOf(m)) + 1) <= admitted[m] + 1
    BY ONLY <1>0
  <2> QED
    BY <2>1, <2>2, <2>3, <2>4
<1>2. CASE admitted'[m] = admitted[m]
  <2>1. PastOf(m)' \subseteq PastOf(m) /\ BeforeOf(m)' \subseteq BeforeOf(m)
    BY <1>2, PastStep
  <2>2. /\ IsFiniteSet(PastOf(m)') /\ Cardinality(PastOf(m)') <= Cardinality(PastOf(m))
        /\ IsFiniteSet(BeforeOf(m)') /\ Cardinality(BeforeOf(m)') <= Cardinality(BeforeOf(m))
    BY <1>0, <2>1, FS_Subset
  <2>3. Cardinality(PastOf(m)') \in Nat /\ Cardinality(BeforeOf(m)') \in Nat
    BY <2>2, FS_CardinalityType
  <2>4. sends'[m] + Cardinality(PastOf(m)') <= admitted[m]
    <3>1. CASE sends'[m] = sends[m]
      <4>1. sends[m] + Cardinality(PastOf(m)') <= admitted[m]
        BY ONLY <1>0, <2>2, <2>3
      <4> QED
        BY <3>1, <4>1
    <3>2. CASE sends'[m] # sends[m]
      <4>1. PICK h \in PastOf(m) : PastOf(m)' = PastOf(m) \ {h} /\ sends'[m] = sends[m] + 1
        BY <3>2, SentStep
      <4>2. Cardinality(PastOf(m) \ {h}) = Cardinality(PastOf(m)) - 1
        BY <1>0, <4>1, FS_RemoveElement
      <4>3. (sends[m] + 1) + (Cardinality(PastOf(m)) - 1) <= admitted[m]
        BY ONLY <1>0
      <4> QED
        BY <4>1, <4>2, <4>3
    <3> QED
      BY <3>1, <3>2
  <2>5. Cardinality(TicketsFor(m)') + Cardinality(BeforeOf(m)') <= admitted[m]
    <3>1. CASE TicketsFor(m)' = TicketsFor(m)
      <4>1. Cardinality(TicketsFor(m)) + Cardinality(BeforeOf(m)') <= admitted[m]
        BY ONLY <1>0, <2>2, <2>3
      <4> QED
        BY <3>1, <4>1
    <3>2. CASE TicketsFor(m)' # TicketsFor(m)
      <4>1. PICK h \in BeforeOf(m), n \in Nat :
              /\ BeforeOf(m)' = BeforeOf(m) \ {h}
              /\ n \notin TicketsFor(m) /\ TicketsFor(m)' = TicketsFor(m) \union {n}
        BY <3>2, TicketedStep
      <4>2. Cardinality(BeforeOf(m) \ {h}) = Cardinality(BeforeOf(m)) - 1
        BY <1>0, <4>1, FS_RemoveElement
      <4>3. Cardinality(TicketsFor(m) \union {n}) = Cardinality(TicketsFor(m)) + 1
        BY <1>0, <4>1, FS_AddElement
      <4>4. (Cardinality(TicketsFor(m)) + 1) + (Cardinality(BeforeOf(m)) - 1) <= admitted[m]
        BY ONLY <1>0
      <4> QED
        BY <4>1, <4>2, <4>3, <4>4
    <3> QED
      BY <3>1, <3>2
  <2> QED
    BY <1>2, <2>2, <2>4, <2>5
<1> QED
  BY <1>1, <1>2

LEMMA InitCredited ==
  ASSUME Init
  PROVE  Credited
<1> SUFFICES ASSUME NEW m \in Messages
             PROVE  /\ IsFiniteSet(PastOf(m))
                    /\ sends[m] + Cardinality(PastOf(m)) <= admitted[m]
                    /\ Cardinality(TicketsFor(m)) + Cardinality(BeforeOf(m)) <= admitted[m]
  BY DEF Credited
<1>1. PastOf(m) = {} /\ BeforeOf(m) = {} /\ TicketsFor(m) = {}
  BY NoRunIs DEF Init, PastOf, BeforeOf, Before, Past, Heard, Judged, Replied, TicketsFor
<1>2. sends[m] = 0 /\ admitted[m] = 0
  BY DEF Init
<1>3. IsFiniteSet({}) /\ Cardinality({}) = 0
  BY FS_EmptySet
<1> QED
  BY <1>1, <1>2, <1>3

LEMMA Invariants == Spec => [](IntakeInv /\ Credited)
<1>1. IntakeInv /\ Credited /\ [Next]_vars => Credited'
  BY CreditedStep DEF Credited, PastOf, BeforeOf, TicketsFor, Msg, vars, rows
<1> QED
  BY <1>1, InitCredited, Invariance, PTL DEF Spec

-----------------------------------------------------------------------------
(* The pipeline implements the contract.                                   *)

Answered == {m \in Messages : reply[m] # "none"}
Raised == [m \in Messages |-> Cardinality(TicketsFor(m))]

\* A request past the check has an admission to its message's name.
LEMMA HasCredit ==
  ASSUME TypeOK, Credited, NEW m \in Messages, NEW h \in Handlers
  PROVE  /\ h \in PastOf(m) => admitted[m] > 0 /\ sends[m] < admitted[m]
         /\ h \in BeforeOf(m) => Cardinality(TicketsFor(m)) < admitted[m]
<1>0. /\ IsFiniteSet(PastOf(m)) /\ IsFiniteSet(BeforeOf(m))
      /\ sends[m] \in Nat /\ admitted[m] \in Nat
      /\ Cardinality(PastOf(m)) \in Nat /\ Cardinality(BeforeOf(m)) \in Nat /\ Cardinality(TicketsFor(m)) \in Nat
      /\ sends[m] + Cardinality(PastOf(m)) <= admitted[m]
      /\ Cardinality(TicketsFor(m)) + Cardinality(BeforeOf(m)) <= admitted[m]
  BY BeforeFinite, TicketsFinite, RowsTyped, FS_CardinalityType DEF Credited
<1>1. h \in PastOf(m) => Cardinality(PastOf(m)) # 0
  BY <1>0, FS_EmptySet
<1>2. h \in BeforeOf(m) => Cardinality(BeforeOf(m)) # 0
  BY <1>0, FS_EmptySet
<1>3. /\ Cardinality(PastOf(m)) # 0 => admitted[m] > 0 /\ sends[m] < admitted[m]
      /\ Cardinality(BeforeOf(m)) # 0 => Cardinality(TicketsFor(m)) < admitted[m]
  BY ONLY <1>0
<1> QED
  BY <1>1, <1>2, <1>3

LEMMA ContractStep ==
  ASSUME IntakeInv, Credited, Next
  PROVE  \/ \E m \in Messages :
              \/ /\ m \notin Answered /\ admitted' = [admitted EXCEPT ![m] = @ + 1]
                 /\ Answered' = Answered /\ Raised' = Raised /\ sends' = sends
              \/ /\ admitted[m] > 0 /\ Answered' = Answered \union {m}
                 /\ admitted' = admitted /\ Raised' = Raised /\ sends' = sends
              \/ /\ m \in Answered /\ Raised[m] < admitted[m] /\ Raised' = [Raised EXCEPT ![m] = @ + 1]
                 /\ admitted' = admitted /\ Answered' = Answered /\ sends' = sends
              \/ /\ m \in Answered /\ sends[m] < admitted[m] /\ sends' = [sends EXCEPT ![m] = @ + 1]
                 /\ admitted' = admitted /\ Answered' = Answered /\ Raised' = Raised
         \/ admitted' = admitted /\ Answered' = Answered /\ Raised' = Raised /\ sends' = sends
<1> USE DEF IntakeInv
<1> DEFINE Goal ==
         \/ \E m \in Messages :
              \/ /\ m \notin Answered /\ admitted' = [admitted EXCEPT ![m] = @ + 1]
                 /\ Answered' = Answered /\ Raised' = Raised /\ sends' = sends
              \/ /\ admitted[m] > 0 /\ Answered' = Answered \union {m}
                 /\ admitted' = admitted /\ Raised' = Raised /\ sends' = sends
              \/ /\ m \in Answered /\ Raised[m] < admitted[m] /\ Raised' = [Raised EXCEPT ![m] = @ + 1]
                 /\ admitted' = admitted /\ Answered' = Answered /\ sends' = sends
              \/ /\ m \in Answered /\ sends[m] < admitted[m] /\ sends' = [sends EXCEPT ![m] = @ + 1]
                 /\ admitted' = admitted /\ Answered' = Answered /\ Raised' = Raised
         \/ admitted' = admitted /\ Answered' = Answered /\ Raised' = Raised /\ sends' = sends
<1>1. ASSUME reply' = reply PROVE Answered' = Answered
  BY <1>1 DEF Answered
<1>2. ASSUME tickets' = tickets PROVE Raised' = Raised
  BY <1>2 DEF Raised, TicketsFor
<1>3. ASSUME NEW h \in Handlers, CheckDuplicate(h), admitted' # admitted PROVE Goal
  BY <1>3, CheckDuplicateDoes, WorkTyped, <1>1, <1>2 DEF Forms, Answered, CheckDuplicate, rows
<1>4. ASSUME NEW h \in Handlers, LogReply(h) PROVE Goal
  <2>1. /\ run[h].pc = "logReply" /\ Msg(h) \in Messages /\ run[h].outcome \in Outcome
        /\ reply' = [reply EXCEPT ![Msg(h)] = run[h].outcome]
    BY <1>4, LogReplyDoes DEF Forms
  <2>2. Answered' = Answered \union {Msg(h)}
    BY <2>1, RowsTyped DEF Answered, Outcome
  <2>3. h \in PastOf(Msg(h))
    BY <2>1 DEF PastOf, Past, Heard, Judged
  <2>4. admitted[Msg(h)] > 0
    BY <2>1, <2>3, HasCredit
  <2>5. tickets' = tickets /\ sends' = sends /\ admitted' = admitted
    BY <1>4 DEF LogReply
  <2> QED
    BY <1>2, <2>1, <2>2, <2>4, <2>5
<1>5. ASSUME NEW h \in Handlers, InsertTicket(h) PROVE Goal
  <2>1. run[h].pc = "insertTicket" /\ Msg(h) \in Messages
    BY <1>5, InsertTicketDoes DEF Forms
  <2>2. Msg(h) \in Answered
    BY <2>1 DEF Forms, RunForm, Answered, Replied
  <2>3. h \in BeforeOf(Msg(h))
    BY <2>1 DEF BeforeOf, Before
  <2>4. Cardinality(TicketsFor(Msg(h))) < admitted[Msg(h)]
    BY <2>1, <2>3, HasCredit
  <2>5. /\ EscalationTicket(h) \in Ticket /\ tickets' = Append(tickets, EscalationTicket(h))
    BY <1>5, InsertTicketDoes DEF Forms
  <2>6. /\ Len(tickets) + 1 \notin DOMAIN tickets /\ DOMAIN tickets' = DOMAIN tickets \union {Len(tickets) + 1}
        /\ \A t \in DOMAIN tickets : tickets'[t] = tickets[t]
        /\ tickets'[Len(tickets) + 1] = EscalationTicket(h)
    BY <2>5, TicketAppended
  <2>7. PICK n : /\ n \notin DOMAIN tickets /\ DOMAIN tickets' = DOMAIN tickets \union {n}
                 /\ tickets'[n].msg = Msg(h)
    BY <2>6 DEF EscalationTicket
  <2>8. PICK x \in Messages : x = Msg(h)
    BY <2>1
  <2>9. TicketsFor(x)' = TicketsFor(x) \union {n} /\ n \notin TicketsFor(x)
    BY <2>6, <2>7, <2>8 DEF TicketsFor
  <2>10. \A m \in Messages \ {x} : TicketsFor(m)' = TicketsFor(m)
    BY <2>6, <2>7, <2>8 DEF TicketsFor
  <2>11. Cardinality(TicketsFor(x)') = Cardinality(TicketsFor(x)) + 1
    BY <2>9, TicketsFinite, FS_AddElement
  <2>12. Raised' = [Raised EXCEPT ![x] = @ + 1]
    BY <2>10, <2>11 DEF Raised
  <2>13. Raised[x] < admitted[x]
    BY <2>4, <2>8 DEF Raised
  <2>14. reply' = reply /\ sends' = sends /\ admitted' = admitted
    BY <1>5 DEF InsertTicket
  <2> QED
    BY <1>1, <2>2, <2>8, <2>12, <2>13, <2>14
<1>6. ASSUME NEW h \in Handlers, SendReply(h) PROVE Goal
  <2>1. run[h].pc = "send" /\ sends' = [sends EXCEPT ![Msg(h)] = @ + 1]
    BY <1>6 DEF SendReply, AtItem
  <2>2. Msg(h) \in Messages /\ Msg(h) \in Answered
    BY <2>1, WorkTyped DEF Forms, RunForm, Answered, Replied
  <2>3. h \in PastOf(Msg(h))
    BY <2>1 DEF PastOf, Past, Heard, Judged, Replied
  <2>4. sends[Msg(h)] < admitted[Msg(h)]
    BY <2>2, <2>3, HasCredit
  <2>5. reply' = reply /\ tickets' = tickets /\ admitted' = admitted
    BY <1>6 DEF SendReply, rows
  <2> QED
    BY <1>1, <1>2, <2>1, <2>2, <2>4, <2>5
<1>7. ASSUME admitted' = admitted, sends' = sends, reply' = reply, tickets' = tickets PROVE Goal
  BY <1>1, <1>2, <1>7
<1>8. ASSUME NEW o \in Operators, TakeoverInsert(o), admitted' = admitted, sends' = sends, reply' = reply PROVE Goal
  <2>1. \A m \in Messages : TicketsFor(m)' = TicketsFor(m)
    <3>1. /\ [conv |-> desk[o].conv, prio |-> "P2", msg |-> "takeover"] \in Ticket
          /\ tickets' = Append(tickets, [conv |-> desk[o].conv, prio |-> "P2", msg |-> "takeover"])
      BY <1>8, TakeoverInsertDoes DEF Forms
    <3>2. /\ DOMAIN tickets' = DOMAIN tickets \union {Len(tickets) + 1}
          /\ \A t \in DOMAIN tickets : tickets'[t] = tickets[t]
          /\ tickets'[Len(tickets) + 1].msg = "takeover"
      BY <3>1, TicketAppended
    <3>3. \A m \in Messages : m # "takeover"
      BY IntakeAssumption
    <3>4. PICK n : /\ DOMAIN tickets' = DOMAIN tickets \union {n}
                   /\ \A t \in DOMAIN tickets : tickets'[t] = tickets[t]
                   /\ tickets'[n].msg = "takeover"
      BY <3>2
    <3> QED
      BY <3>3, <3>4 DEF TicketsFor
  <2>2. Raised' = Raised
    BY <2>1 DEF Raised
  <2> QED
    BY <1>1, <1>8, <2>2
<1> HIDE DEF Goal
<1>9. ASSUME tickets' # tickets PROVE Goal
  BY <1>5, <1>8, <1>9, TicketsChange DEF TakeoverInsert
<1>10. ASSUME tickets' = tickets PROVE Goal
  BY <1>3, <1>4, <1>6, <1>7, <1>10, ReplyChanges, SendsChange, AdmittedChanges
<1>11. Goal
  BY <1>9, <1>10
<1> QED
  BY <1>11 DEF Goal

\* The requests, rows and deliveries implement the contract of IntakeContract: a message
\* with a reply is not let in again, and every ticket and every send is paid for by an
\* admission of its own.
THEOREM ContractIsImplemented == Spec => ImplementsContract
<1>1. Init => Contract!Init
  <2>1. ASSUME Init PROVE Contract!Init
    <3>1. {m \in Messages : reply[m] # "none"} = {}
      BY <2>1 DEF Init
    <3>2. \A m \in Messages : TicketsFor(m) = {}
      BY <2>1 DEF Init, TicketsFor
    <3>3. \A m \in Messages : Cardinality(TicketsFor(m)) = 0
      BY <3>2, FS_EmptySet
    <3>4. [m \in Messages |-> Cardinality(TicketsFor(m))] = [m \in Messages |-> 0]
      BY <3>3
    <3> QED
      BY <2>1, <3>1, <3>4 DEF Init, Contract!Init
  <2> QED
    BY <2>1
<1>2. IntakeInv /\ Credited /\ [Next]_vars => [Contract!Next]_(Contract!vars)
  <2>1. ASSUME IntakeInv, Credited, Next PROVE [Contract!Next]_(Contract!vars)
    BY <2>1, ContractStep DEF Contract!Next, Contract!vars, Contract!Admit, Contract!Answer, Contract!Raise,
       Contract!Send, Answered, Raised
  <2>2. ASSUME UNCHANGED vars PROVE UNCHANGED Contract!vars
    BY <2>2 DEF vars, rows, Contract!vars, TicketsFor
  <2> QED
    BY <2>1, <2>2
<1> QED
  BY <1>1, <1>2, Invariants, PTL DEF Spec, ImplementsContract, Contract!Spec

-----------------------------------------------------------------------------
(* With no failure and no needless delivery a message is handled once.     *)

\* The platform's message ids tell the items apart: no id comes twice.
ItemsAreDistinct ==
  \A b, c \in Batches : \A i \in DOMAIN Items[b], j \in DOMAIN Items[c] :
    Items[b][i] = Items[c][j] => b = c

Done(m) == reply[m] # "none" /\ sends[m] > 0
TextsBehind(h) == {m \in TextIn(run[h].batch) :
  \E i \in DOMAIN Items[run[h].batch] : i < run[h].pos /\ Items[run[h].batch][i] = m}

\* One request per unanswered batch; what lies behind its position is done, and a message
\* let in or answered is done or with a request.
Exact ==
  failures = 0 /\ duplicates = 0 =>
    /\ \A h \in Handlers : run[h].pc # "idle" => run[h].batch \notin acked
    /\ \A h, g \in Handlers :
         run[h].pc # "idle" /\ run[g].pc # "idle" /\ run[h].batch = run[g].batch => h = g
    /\ \A h \in Handlers : run[h].pc # "idle" => \A m \in TextsBehind(h) : Done(m)
    /\ \A b \in acked : \A m \in TextIn(b) : Done(m)
    /\ \A m \in Messages : /\ admitted[m] <= 1
                           /\ admitted[m] > 0 \/ reply[m] # "none" => Done(m) \/ PastOf(m) # {}

\* How a request gets to where it is.
LEMMA Moves ==
  ASSUME TypeOK, Forms, Next, NEW h \in Handlers, run'[h].pc # "idle"
  PROVE  \/ /\ run[h].pc # "idle" /\ run'[h].batch = run[h].batch /\ run'[h].pos = run[h].pos
         \/ \E b \in Batches : /\ Deliver(h, b) \/ Duplicate(h, b)
                               /\ run'[h].batch = b /\ run'[h].pos = 1
         \/ /\ run[h].pc # "idle" /\ run'[h].batch = run[h].batch /\ run'[h].pos = run[h].pos + 1
            /\ \/ CaptureCsat(h)
               \/ SendReply(h)
               \/ CheckDuplicate(h) /\ run[h].pc = "check" /\ reply[Msg(h)] # "none"
<1>0. RunForm(h)
  BY DEF Forms
<1>1. CASE run'[h] = run[h]
  BY <1>1
<1>2. ASSUME NEW b \in Batches, Deliver(h, b) \/ Duplicate(h, b)
      PROVE  run'[h].batch = b /\ run'[h].pos = 1
  <2>1. run' = [run EXCEPT ![h] = AtRoute(b, 1)] /\ run \in [Handlers -> RunState]
    BY <1>2, RowsTyped DEF Deliver, Duplicate, Start
  <2>2. run'[h] = AtRoute(b, 1)
    BY <2>1
  <2> QED
    BY <2>2, AtRouteIs
<1>3. ~Respond(h) /\ ~RejectUnroutable(h) /\ ~Fail(h)
  BY ThrowTurns DEF Respond, RejectUnroutable, Fail
<1>4. ASSUME CaptureCsat(h) \/ SendReply(h)
      PROVE  run[h].pc # "idle" /\ run'[h].batch = run[h].batch /\ run'[h].pos = run[h].pos + 1
  BY <1>0, <1>4, NextItemTurns DEF CaptureCsat, SendReply, AtItem
<1>5. ASSUME NEW pc \in RunPC, Goes(h, pc) PROVE run'[h].batch = run[h].batch /\ run'[h].pos = run[h].pos
  BY <1>5 DEF Goes
<1>6. CASE CheckDuplicate(h)
  BY <1>6, <1>0, CheckDuplicateDoes DEF CheckDuplicate, AtItem, Goes
<1>7. CASE UpsertConversation(h)
  BY <1>7, ThrowTurns, GotoGoes DEF UpsertConversation, AtItem, OnInsertConflict, RunPC, Goes
<1>8. CASE \/ FindConversation(h) \/ LogInbound(h) \/ GenerateReply(h) \/ LogReply(h) \/ InsertTicket(h)
           \/ AnnounceTicket(h) \/ NotifyPoc(h) \/ SaveResult(h)
  <2>1. run[h].pc # "idle" /\ \E pc \in RunPC : Goes(h, pc)
    BY <1>0, <1>8, FindConversationDoes, LogInboundDoes, GenerateReplyDoes, LogReplyDoes, InsertTicketDoes,
       AnnounceTicketDoes, NotifyPocDoes, SaveResultDoes DEF RunPC
  <2> QED
    BY <1>5, <2>1
<1> QED
  BY <1>1, <1>2, <1>3, <1>4, <1>6, <1>7, <1>8, WhoMoves DEF Step, Delivered

LEMMA DoneStays ==
  ASSUME TypeOK, Forms, Next, NEW m \in Messages, Done(m)
  PROVE  Done(m)'
  BY RowsTyped, CreditStep, RepliesStep DEF Done

LEMMA SendingIsDone ==
  ASSUME TypeOK, Forms, Next, NEW h \in Handlers, SendReply(h)
  PROVE  Msg(h) \in Messages /\ (\A m \in Messages : m = Msg(h) => Done(m)')
<1>1. run[h].pc = "send" /\ sends' = [sends EXCEPT ![Msg(h)] = @ + 1]
  BY DEF SendReply, AtItem
<1>2. Msg(h) \in Messages /\ reply'[Msg(h)] # "none"
  BY <1>1, StillKnown DEF Replied
<1>3. sends \in [Messages -> Nat] /\ sends[Msg(h)] \in Nat
  BY <1>2, RowsTyped
<1>4. sends'[Msg(h)] = sends[Msg(h)] + 1
  BY <1>1, <1>2, <1>3
<1>5. sends'[Msg(h)] > 0
  BY <1>3, <1>4
<1> QED
  BY <1>2, <1>5 DEF Done

\* Two requests with one message are the same request.
LEMMA OneRequest ==
  ASSUME TypeOK, Forms, Exact, ItemsAreDistinct, failures = 0, duplicates = 0,
         NEW h \in Handlers, NEW g \in Handlers, run[h].pc \notin {"idle", "route"},
         g \in PastOf(Msg(h))
  PROVE  g = h
  BY WorkTyped DEF PastOf, Past, Heard, Judged, Replied, Forms, ItemsAreDistinct, Msg, Exact

\* A message that is with a request stays so until it is done.
LEMMA UntilDone ==
  ASSUME TypeOK, Forms, Next, NEW m \in Messages, NEW h \in PastOf(m), ~Fail(h)
  PROVE  Done(m)' \/ h \in PastOf(m)'
<1>0. h \in Handlers /\ run[h].pc \in Past /\ Msg(h) = m /\ RunForm(h)
  BY DEF PastOf, Forms
<1>1. CASE run'[h] = run[h]
  BY <1>0, <1>1, SameItem DEF PastOf
<1>2. CASE SendReply(h)
  BY <1>0, <1>2, SendingIsDone
<1>3. ASSUME NEW pc \in Past, Goes(h, pc) PROVE h \in PastOf(m)'
  BY <1>0, <1>3, SameItem DEF Goes, PastOf
<1>4. \/ run'[h] = run[h] \/ SendReply(h) \/ LogInbound(h) \/ GenerateReply(h) \/ LogReply(h)
      \/ InsertTicket(h) \/ AnnounceTicket(h) \/ NotifyPoc(h) \/ SaveResult(h)
  BY <1>0, WhoMoves, StepAt DEF Past, Heard, Judged, Replied
<1>5. CASE \/ LogInbound(h) \/ GenerateReply(h) \/ LogReply(h)
           \/ InsertTicket(h) \/ AnnounceTicket(h) \/ NotifyPoc(h) \/ SaveResult(h)
  <2>1. \E pc \in Past : Goes(h, pc)
    BY <1>0, <1>5, LogInboundDoes, GenerateReplyDoes, LogReplyDoes, InsertTicketDoes,
       AnnounceTicketDoes, NotifyPocDoes, SaveResultDoes DEF Past, Heard, Judged, Replied
  <2> QED
    BY <1>3, <2>1
<1> QED
  BY <1>1, <1>2, <1>4, <1>5

LEMMA ExactStep ==
  ASSUME IntakeInv, Exact, ItemsAreDistinct, Next
  PROVE  Exact'
<1> USE DEF IntakeInv
<1> SUFFICES ASSUME failures' = 0, duplicates' = 0
             PROVE  /\ \A h \in Handlers : run'[h].pc # "idle" => run'[h].batch \notin acked'
                    /\ \A h, g \in Handlers :
                         run'[h].pc # "idle" /\ run'[g].pc # "idle" /\ run'[h].batch = run'[g].batch => h = g
                    /\ \A h \in Handlers : run'[h].pc # "idle" => \A m \in TextsBehind(h)' : Done(m)'
                    /\ \A b \in acked' : \A m \in TextIn(b) : Done(m)'
                    /\ \A m \in Messages :
                         /\ admitted'[m] <= 1
                         /\ admitted'[m] > 0 \/ reply'[m] # "none" => Done(m)' \/ PastOf(m)' # {}
  BY DEF Exact, TextIn
<1>0. /\ failures = 0 /\ duplicates = 0 /\ (\A h \in Handlers : ~Fail(h))
      /\ \A h \in Handlers, b \in Batches : ~Duplicate(h, b)
  BY BoundsStep
<1>1. /\ \A h \in Handlers : run[h].pc # "idle" => run[h].batch \notin acked
      /\ \A h, g \in Handlers :
           run[h].pc # "idle" /\ run[g].pc # "idle" /\ run[h].batch = run[g].batch => h = g
      /\ \A h \in Handlers : run[h].pc # "idle" => \A m \in TextsBehind(h) : Done(m)
      /\ \A b \in acked : \A m \in TextIn(b) : Done(m)
      /\ \A m \in Messages : /\ admitted[m] <= 1
                             /\ admitted[m] > 0 \/ reply[m] # "none" => Done(m) \/ PastOf(m) # {}
  BY <1>0 DEF Exact
\* A batch being worked on has either been so or was just delivered.
<1>2. ASSUME NEW h \in Handlers, run'[h].pc # "idle"
      PROVE  \/ run[h].pc # "idle" /\ run'[h].batch = run[h].batch
             \/ \E b \in Batches : Deliver(h, b) /\ run'[h].batch = b
  BY <1>0, <1>2, Moves
<1>3. ASSUME NEW h \in Handlers, run'[h].pc # "idle" PROVE run'[h].batch \notin acked'
  <2>1. CASE \E b \in Batches : Deliver(h, b) /\ run'[h].batch = b
    BY <2>1 DEF Deliver, Start
  <2>2. CASE run[h].pc # "idle" /\ run'[h].batch = run[h].batch
    <3>1. ASSUME NEW g \in Handlers, Respond(g) PROVE g # h /\ run[g].pc # "idle" /\ acked' = acked \union {run[g].batch}
      BY <1>3, <3>1, ThrowTurns DEF Respond
    <3> QED
      BY <1>1, <2>2, <3>1, AckedChanges
  <2> QED
    BY <1>2, <1>3, <2>1, <2>2
<1>4. ASSUME NEW h \in Handlers, NEW g \in Handlers, run'[h].pc # "idle", run'[g].pc # "idle",
             run'[h].batch = run'[g].batch
      PROVE  h = g
  <2>1. ASSUME NEW k \in Handlers, NEW l \in Handlers, NEW b \in Batches, Deliver(k, b),
               run[l].pc # "idle", run[l].batch = b
        PROVE  FALSE
    BY <2>1 DEF Deliver, WorkingOn
  <2>2. ASSUME NEW b \in Batches, NEW c \in Batches, Deliver(h, b), Deliver(g, c) PROVE h = g
    <3>1. run \in [Handlers -> RunState] /\ run[h].pc = "idle" /\ run[g].pc = "idle"
          /\ run' = [run EXCEPT ![h] = AtRoute(b, 1)]
      BY <2>2, RowsTyped DEF Deliver, Start
    <3>2. h # g => run'[g] = run[g]
      BY <3>1
    <3> QED
      BY <1>4, <3>1, <3>2
  <2> QED
    BY <1>1, <1>2, <1>4, <2>1, <2>2
<1>5. ASSUME NEW m \in Messages, NEW h \in Handlers, CheckDuplicate(h), run[h].pc = "check", Msg(h) = m
      PROVE  PastOf(m) = {}
  <2>1. h \notin PastOf(m)
    BY <1>5 DEF PastOf, Past, Heard, Judged, Replied
  <2>2. \A g \in PastOf(m) : g = h
    <3>1. PastOf(m) \subseteq Handlers
      BY DEF PastOf
    <3> QED
      BY <1>0, <1>5, <3>1, OneRequest
  <2> QED
    BY <2>1, <2>2
<1>6. ASSUME NEW h \in Handlers, run'[h].pc # "idle", NEW m \in TextsBehind(h)' PROVE Done(m)'
  <2>1. PICK i \in DOMAIN Items[run'[h].batch] : i < run'[h].pos /\ Items[run'[h].batch][i] = m
    BY <1>6 DEF TextsBehind
  <2>2. m \in TextIn(run'[h].batch) /\ m \in Messages /\ Kind[m] = "text"
    BY <1>6 DEF TextsBehind, TextIn
  <2>3. i \in Nat /\ i > 0 /\ run'[h].pos \in Nat
    <3>1. RunForm(h)' /\ run' \in [Handlers -> RunState]
      BY RunFormsStep, RunStep
    <3>2. Items[run'[h].batch] \in Seq(Messages) /\ run'[h].pos \in Nat
      BY <1>6, <3>1, IntakeAssumption DEF RunForm, RunState
    <3> QED
      BY <2>1, <3>2
  <2>4. ASSUME run[h].pc # "idle", run'[h].batch = run[h].batch, i < run[h].pos PROVE Done(m)'
    <3>1. Done(m)
      <4>1. m \in TextsBehind(h)
        BY <2>1, <2>2, <2>4 DEF TextsBehind
      <4> QED
        BY <1>1, <2>4, <4>1
    <3> QED
      BY <2>2, <3>1, DoneStays
  <2>5. ASSUME run[h].pc # "idle", run'[h].batch = run[h].batch, i = run[h].pos,
               CaptureCsat(h) \/ SendReply(h) \/ (CheckDuplicate(h) /\ run[h].pc = "check" /\ reply[Msg(h)] # "none")
        PROVE  Done(m)'
    <3>1. m = Msg(h) /\ Kind[Msg(h)] = "text"
      BY <2>1, <2>2, <2>5 DEF Msg
    <3>2. ~CaptureCsat(h)
      BY <3>1 DEF CaptureCsat
    <3>3. CASE SendReply(h)
      BY <3>1, <3>3, SendingIsDone
    <3>4. CASE CheckDuplicate(h) /\ run[h].pc = "check" /\ reply[Msg(h)] # "none"
      <4>1. PastOf(m) = {}
        BY <1>5, <2>2, <3>1, <3>4
      <4>2. Done(m)
        BY <1>1, <2>2, <3>1, <3>4, <4>1
      <4> QED
        BY <2>2, <4>2, DoneStays
    <3> QED
      BY <2>5, <3>2, <3>3, <3>4
  <2>6. run[h].pos \in Nat
    BY RowsTyped DEF RunState
  <2>7. (run'[h].pos = 1 => FALSE) /\ (run'[h].pos = run[h].pos => i < run[h].pos)
        /\ (run'[h].pos = run[h].pos + 1 => i < run[h].pos \/ i = run[h].pos)
    BY ONLY <2>1, <2>3, <2>6
  <2> QED
    BY <1>6, <2>4, <2>5, <2>7, Moves
<1>7. ASSUME NEW b \in acked', NEW m \in TextIn(b) PROVE Done(m)'
  <2>1. CASE b \in acked
    BY <1>1, <1>7, <2>1, DoneStays DEF TextIn
  <2>2. ASSUME NEW h \in Handlers, Respond(h), b = run[h].batch PROVE Done(m)'
    <3>1. run[h].pc = "route" /\ run[h].pos > Len(Items[b]) /\ run[h].pos \in Nat /\ b \in Batches
      BY <2>2, RowsTyped DEF Respond, RunState, Forms, RunForm
    <3>2. PICK i \in DOMAIN Items[b] : Items[b][i] = m /\ Kind[m] = "text"
      BY <1>7 DEF TextIn
    <3>3. Items[b] \in Seq(Messages)
      BY <3>1, IntakeAssumption
    <3>4. i < run[h].pos
      BY <3>1, <3>2, <3>3
    <3>5. Done(m)
      <4>1. m \in TextsBehind(h)
        BY <1>7, <2>2, <3>2, <3>4 DEF TextsBehind
      <4> QED
        BY <1>1, <2>2, <3>1, <4>1
    <3> QED
      BY <3>5, DoneStays DEF TextIn
  <2>3. b \notin acked => \E h \in Handlers : Respond(h) /\ b = run[h].batch
    BY <1>7, AckedChanges DEF Respond
  <2> QED
    BY <2>1, <2>2, <2>3
<1>8. ASSUME NEW m \in Messages PROVE admitted'[m] <= 1
  <2>0. admitted \in [Messages -> Nat] /\ admitted[m] \in Nat /\ admitted[m] <= 1
    BY <1>1, RowsTyped
  <2>1. CASE admitted'[m] # admitted[m]
    <3>1. PICK h \in Handlers : /\ CheckDuplicate(h) /\ run[h].pc = "check" /\ Msg(h) \in Messages
                                /\ reply[Msg(h)] = "none" /\ admitted' = [admitted EXCEPT ![Msg(h)] = @ + 1]
      BY <2>1, CreditStep
    <3>2. Msg(h) = m /\ admitted'[m] = admitted[m] + 1
      BY <2>0, <2>1, <3>1
    <3>3. PastOf(m) = {} /\ ~Done(m)
      BY <1>5, <3>1, <3>2 DEF Done
    <3>4. admitted[m] = 0
      BY <1>1, <2>0, <3>3
    <3> QED
      BY <3>2, <3>4
  <2> QED
    BY <2>0, <2>1
<1>9. ASSUME NEW m \in Messages, admitted'[m] > 0 \/ reply'[m] # "none" PROVE Done(m)' \/ PastOf(m)' # {}
  <2>1. CASE Done(m)
    BY <2>1, DoneStays
  <2>2. CASE PastOf(m) # {}
    <3>1. PICK h \in PastOf(m) : h \in Handlers
      BY <2>2 DEF PastOf
    <3> QED
      BY <1>0, <3>1, UntilDone
  <2>3. CASE ~Done(m) /\ PastOf(m) = {}
    <3>1. ~(admitted[m] > 0) /\ reply[m] = "none"
      BY <1>1, <2>3
    <3>2. CASE admitted'[m] # admitted[m]
      BY <3>2, AdmittedStep
    <3>3. CASE reply'[m] # reply[m]
      <4>1. PICK h \in Handlers : LogReply(h)
        BY <3>3, ReplyChanges
      <4>2. run[h].pc = "logReply" /\ Msg(h) \in Messages /\ reply' = [reply EXCEPT ![Msg(h)] = run[h].outcome]
        BY <4>1, LogReplyDoes DEF Forms
      <4>3. Msg(h) = m
        BY <3>3, <4>2, RowsTyped
      <4>4. h \in PastOf(m)
        BY <4>2, <4>3 DEF PastOf, Past, Heard, Judged
      <4> QED
        BY <2>3, <4>4
    <3> QED
      BY <1>9, <3>1, <3>2, <3>3
  <2> QED
    BY <2>1, <2>2, <2>3
<1> QED
  BY <1>3, <1>4, <1>6, <1>7, <1>8, <1>9

\* With no crash and no needless delivery, and items the platform tells apart, every message
\* is sent to and ticketed at most once, and an acknowledged one exactly once.
THEOREM CleanDeliveries ==
  ASSUME ItemsAreDistinct
  PROVE  Spec => []CleanDeliveryIsExact
<1>1. Init => Exact
  <2>1. ASSUME Init PROVE Exact
    BY <2>1, NoRunIs DEF Init, Exact
  <2> QED
    BY <2>1
<1>2. IntakeInv /\ Exact /\ [Next]_vars => Exact'
  BY ExactStep DEF Exact, Done, TextsBehind, TextIn, PastOf, Msg, vars, rows
<1>3. IntakeInv /\ Credited /\ Exact => CleanDeliveryIsExact
  <2>1. ASSUME IntakeInv, Credited, Exact, failures = 0, duplicates = 0, NEW m \in Messages
        PROVE  sends[m] <= 1 /\ Cardinality(TicketsFor(m)) <= 1 /\ (Done(m) => sends[m] = 1)
    <3>1. /\ sends[m] \in Nat /\ admitted[m] \in Nat /\ admitted[m] <= 1
          /\ Cardinality(PastOf(m)) \in Nat /\ Cardinality(BeforeOf(m)) \in Nat /\ Cardinality(TicketsFor(m)) \in Nat
          /\ sends[m] + Cardinality(PastOf(m)) <= admitted[m]
          /\ Cardinality(TicketsFor(m)) + Cardinality(BeforeOf(m)) <= admitted[m]
      BY <2>1, BeforeFinite, TicketsFinite, RowsTyped, FS_CardinalityType DEF Credited, Exact, IntakeInv
    <3>2. sends[m] <= 1 /\ Cardinality(TicketsFor(m)) <= 1 /\ (sends[m] > 0 => sends[m] = 1)
      BY ONLY <3>1
    <3> QED
      BY <3>2 DEF Done
  <2>2. ASSUME IntakeInv, Credited, Exact, failures = 0, duplicates = 0, NEW b \in acked, NEW m \in TextIn(b)
        PROVE  sends[m] = 1 /\ reply[m] # "none"
    BY <2>2, <2>1 DEF Exact, TextIn, Done
  <2> QED
    BY <2>1, <2>2 DEF CleanDeliveryIsExact
<1> QED
  BY <1>1, <1>2, <1>3, Invariants, Invariance, PTL DEF Spec

-----------------------------------------------------------------------------
(* The runtime: its inductive invariant.                                   *)

\* The slots taken are the live calls, and unless offers overlapped the one call that
\* may be negotiating was counted against a free slot.
Slots ==
  /\ active = {c \in Calls : phase[c] = "live"}
  /\ IsFiniteSet(active)
  /\ ~overlapped =>
       /\ Cardinality(active) <= MAX_CONCURRENT_CALLS
       /\ Negotiating # {} => Cardinality(active) < MAX_CONCURRENT_CALLS
       /\ \A c, d \in Negotiating : c = d

\* A session knows its call only once the connect handler is done with it, so nothing
\* reopens what the disconnect handler closes, and it scores once and last.
Closed(c) ==
  /\ c \in callId => connect[c] = "done" /\ row[c] # "none"
  /\ hangup[c] \in {"finalize", "score"} => c \in callId
  /\ hangup[c] # "no" /\ c \notin early => connect[c] = "done"
  /\ hangup[c] = "score" => row[c] = "ended"
  /\ scores[c] > 0 => hangup[c] = "cancel" /\ row[c] = "ended" /\ c \in callId

\* Where no request failed, an opened call is known and a closed one is done.
Clean(c) ==
  outages = 0 =>
    /\ connect[c] = "done" => c \in callId
    /\ hangup[c] = "cancel" /\ c \notin early => row[c] = "ended" /\ scores[c] = 1

\* Turns are numbered as they are spoken; each is stored under its own number or not at
\* all and raises at most one escalation.
Numbered(c) ==
  /\ turn[c] = said[c]
  /\ \A i \in Indices : segments[c][i] \in {0, i + 1}
  /\ saying[c].step = "persist" =>
       said[c] > 0 /\ saying[c].index = said[c] - 1 /\ saying[c].utterance = said[c]
  /\ escalations[c] <= said[c]
  /\ saying[c].step # "none" => escalations[c] < said[c]

\* Where nothing failed or was cut, all turns but the last are stored, and the last one
\* too unless it is being stored or the call ended meanwhile.
Kept(c) ==
  outages = 0 /\ c \notin cut =>
    \A k \in 1..said[c] :
      segments[c][k - 1] = k \/ (k = said[c] /\ (saying[c].step = "persist" \/ phase[c] = "over"))

Inv ==
  /\ VoiceTypeOK /\ Slots
  /\ \A c \in Calls : Closed(c) /\ Clean(c) /\ Numbered(c) /\ Kept(c)

-----------------------------------------------------------------------------
(* The steps of a call, by what they leave alone.                          *)

Admitting(c) == Offer(c) \/ StartCall(c) \/ RefuseCall(c)
Handling(c) ==
  \/ OnClientConnected(c) \/ SessionOpened(c) \/ MaxDurationReached(c) \/ IdleTimeout(c)
  \/ OnClientDisconnected(c) \/ Closing(c)
Reporting(c) == (\E ask \in BOOLEAN : OnTurn(c, ask)) \/ PersistTurn(c) \/ Escalate(c) \/ Interrupt(c)
Ending(c) == EndOfPipeline(c) \/ Crash(c)

LEMMA Steps ==
  VoiceNext => \E c \in Calls : Admitting(c) \/ Handling(c) \/ Reporting(c) \/ Ending(c)
BY DEF VoiceNext, Session, Admitting, Handling, Reporting, Ending

LEMMA AdmittingFrame ==
  ASSUME NEW c \in Calls, Admitting(c)
  PROVE  UNCHANGED <<connect, hangup, drained, callId, early, turn, said, saying, cut,
                     row, segments, escalations, scores, outages>>
  BY DEF Admitting, Offer, StartCall, RefuseCall, handlers, reporting, backend

LEMMA HandlingFrame ==
  ASSUME NEW c \in Calls, Handling(c)
  PROVE  UNCHANGED <<phase, active, overlapped, turn, said, saying, cut, segments, escalations>>
<1>1. UNCHANGED <<runtime, reporting, segments, escalations>>
  BY DEF OnClientConnected, MaxDurationReached, IdleTimeout, OnClientDisconnected, backend, SessionOpened, Closing,
     Handling
<1> QED
  BY <1>1 DEF runtime, reporting

LEMMA ReportingFrame ==
  ASSUME NEW c \in Calls, Reporting(c)
  PROVE  UNCHANGED <<phase, active, overlapped, connect, hangup, drained, callId, early, row, scores>>
<1>1. UNCHANGED <<runtime, handlers, row, scores>>
  BY DEF PersistTurn, Escalate, OnTurn, Interrupt, backend, Reporting
<1> QED
  BY <1>1 DEF runtime, handlers

LEMMA EndingFrame ==
  ASSUME VoiceTypeOK, NEW c \in Calls, Ending(c)
  PROVE  /\ UNCHANGED <<overlapped, connect, hangup, drained, callId, early, turn, said, cut,
                        row, segments, escalations, scores>>
         /\ phase[c] = "live" /\ phase' = [phase EXCEPT ![c] = "over"]
         /\ active' = active \ {c} /\ saying' = [saying EXCEPT ![c] = Silent]
  BY DEF Ending, EndOfPipeline, Crash, Over, handlers, backend

\* Outages are counted and never forgotten.
LEMMA OutagesGrow ==
  ASSUME VoiceTypeOK, VoiceNext
  PROVE  outages' \in 0..MaxOutages /\ (outages' = 0 => outages = 0)
<1>1. outages \in 0..MaxOutages /\ MaxOutages \in Nat
  BY VoiceAssumption DEF VoiceTypeOK
<1>2. outages' = outages \/ (outages < MaxOutages /\ outages' = outages + 1)
  <2>1. PICK c \in Calls : Admitting(c) \/ Handling(c) \/ Reporting(c) \/ Ending(c)
    BY Steps
  <2>2. CASE Admitting(c)
    BY <2>2, AdmittingFrame
  <2>3. CASE Handling(c)
    <3>1. CASE SessionOpened(c)
      BY <3>1 DEF SessionOpened, Ok, Lost, Failed
    <3>2. CASE Closing(c)
      BY <3>2 DEF Closing, CloseOut, Ok, Lost, Failed
    <3>3. CASE OnClientConnected(c) \/ MaxDurationReached(c) \/ IdleTimeout(c) \/ OnClientDisconnected(c)
      BY <3>3 DEF OnClientConnected, MaxDurationReached, IdleTimeout, OnClientDisconnected
    <3> QED
      BY <2>3, <3>1, <3>2, <3>3 DEF Handling
  <2>4. CASE Reporting(c)
    BY <2>4 DEF PersistTurn, Ok, Lost, Failed, Escalate, OnTurn, Interrupt, Reporting
  <2>5. CASE Ending(c)
    BY <2>5 DEF Ending, EndOfPipeline, Crash
  <2> QED
    BY <2>1, <2>2, <2>3, <2>4, <2>5
<1> QED
  BY <1>1, <1>2

-----------------------------------------------------------------------------
(* The connect and disconnect handlers.                                    *)

\* What the handlers of one call do to it, and that they touch no other.
LEMMA HandlingStep ==
  ASSUME VoiceTypeOK, NEW c \in Calls, Closed(c), Handling(c)
  PROVE  /\ connect' \in [Calls -> {"no", "posting", "done"}]
         /\ hangup' \in [Calls -> {"no", "finalize", "score", "cancel"}]
         /\ drained' \subseteq Calls /\ callId' \subseteq Calls /\ early' \subseteq Calls
         /\ row' \in [Calls -> {"none", "active", "ended"}] /\ scores' \in [Calls -> 0..1]
         /\ \A d \in Calls \ {c} :
              /\ connect'[d] = connect[d] /\ hangup'[d] = hangup[d] /\ row'[d] = row[d]
              /\ scores'[d] = scores[d] /\ (d \in callId' <=> d \in callId) /\ (d \in early' <=> d \in early)
<1>0. /\ connect \in [Calls -> {"no", "posting", "done"}]
      /\ hangup \in [Calls -> {"no", "finalize", "score", "cancel"}]
      /\ drained \subseteq Calls /\ callId \subseteq Calls /\ early \subseteq Calls
      /\ row \in [Calls -> {"none", "active", "ended"}] /\ scores \in [Calls -> 0..1]
  BY DEF VoiceTypeOK
<1>1. CASE OnClientConnected(c)
  BY <1>0, <1>1 DEF OnClientConnected, backend
<1>2. CASE SessionOpened(c)
  BY <1>2, <1>0 DEF SessionOpened, Ok, Lost, Failed, StartSession
<1>3. CASE MaxDurationReached(c) \/ IdleTimeout(c)
  BY <1>0, <1>3 DEF MaxDurationReached, IdleTimeout, backend
<1>4. CASE OnClientDisconnected(c)
  BY <1>4, <1>0 DEF OnClientDisconnected, backend
<1>5. CASE Closing(c)
  BY <1>5, <1>0 DEF Closing, CloseOut, Ok, Lost, Failed, Finalize, ScoreCall, Closed
<1> QED
  BY <1>1, <1>2, <1>3, <1>4, <1>5 DEF Handling

LEMMA HandlingKeeps ==
  ASSUME VoiceTypeOK, VoiceNext, NEW c \in Calls, Closed(c), Clean(c), Handling(c)
  PROVE  Closed(c)' /\ Clean(c)'
<1>0. /\ connect \in [Calls -> {"no", "posting", "done"}]
      /\ hangup \in [Calls -> {"no", "finalize", "score", "cancel"}]
      /\ callId \subseteq Calls /\ early \subseteq Calls
      /\ row \in [Calls -> {"none", "active", "ended"}] /\ scores \in [Calls -> 0..1]
      /\ outages \in 0..MaxOutages /\ MaxOutages \in Nat
  BY VoiceAssumption DEF VoiceTypeOK
<1>9. outages' = 0 => outages = 0
  BY OutagesGrow
<1>1. CASE OnClientConnected(c)
  BY <1>0, <1>1, <1>9 DEF OnClientConnected, backend, Closed, Clean
<1>2. CASE SessionOpened(c)
  BY <1>0, <1>2 DEF SessionOpened, Ok, Lost, Failed, StartSession, Closed, Clean
<1>3. CASE MaxDurationReached(c) \/ IdleTimeout(c)
  BY <1>3, <1>9 DEF MaxDurationReached, IdleTimeout, backend, Closed, Clean
<1>4. CASE OnClientDisconnected(c)
  BY <1>0, <1>4, <1>9 DEF OnClientDisconnected, backend, Closed, Clean
<1>5. CASE Closing(c)
  <2>1. UNCHANGED <<connect, callId, early>> /\ hangup[c] \in {"finalize", "score"} /\ CloseOut(c)
    BY <1>5 DEF Closing
  <2>2. c \in callId /\ connect[c] = "done" /\ scores[c] = 0
    BY <1>0, <2>1 DEF Closed
  <2>3. CASE hangup[c] = "finalize"
    BY <1>0, <2>1, <2>3, <2>2, <1>9 DEF CloseOut, Ok, Lost, Failed, Finalize, Closed, Clean
  <2>4. CASE hangup[c] = "score"
    BY <1>0, <2>1, <2>2, <2>4, <1>9 DEF CloseOut, Ok, Lost, Failed, ScoreCall, Closed, Clean
  <2> QED
    BY <2>1, <2>3, <2>4
<1> QED
  BY <1>1, <1>2, <1>3, <1>4, <1>5 DEF Handling

-----------------------------------------------------------------------------
(* The slots.                                                              *)

LEMMA SlotsKeep ==
  ASSUME VoiceTypeOK, Slots, VoiceNext
  PROVE  Slots'
<1>0. /\ phase \in [Calls -> {"new", "negotiating", "live", "over", "rejected"}] /\ active \subseteq Calls
      /\ MAX_CONCURRENT_CALLS \in Nat /\ overlapped \in BOOLEAN
      /\ active = {c \in Calls : phase[c] = "live"} /\ IsFiniteSet(active) /\ Cardinality(active) \in Nat
  BY VoiceAssumption, FS_CardinalityType DEF VoiceTypeOK, Slots
<1>1. PICK c \in Calls : Admitting(c) \/ Handling(c) \/ Reporting(c) \/ Ending(c)
  BY Steps
<1>2. CASE Offer(c)
  <2>1. /\ phase[c] = "new" /\ active' = active
        /\ phase' = [phase EXCEPT ![c] = IF AtCapacity THEN "rejected" ELSE "negotiating"]
    BY <1>2 DEF Offer
  <2>2. active = {d \in Calls : phase'[d] = "live"}
    BY <1>0, <2>1
  <2>3. ASSUME ~overlapped' PROVE ~overlapped /\ (AtCapacity \/ Negotiating = {})
    BY <1>2, <2>3, ZenonT(20) DEF Offer
  <2>4. CASE AtCapacity
    BY <1>0, <2>1, <2>4, <2>2, <2>3 DEF Negotiating, Slots
  <2>5. CASE ~AtCapacity
    BY <1>0, <2>5, <2>1, <2>3, <2>2 DEF AtCapacity, Negotiating, Slots
  <2> QED
    BY <2>4, <2>5
<1>3. CASE StartCall(c)
  <2>1. /\ phase[c] = "negotiating" /\ active' = active \union {c} /\ overlapped' = overlapped
        /\ phase' = [phase EXCEPT ![c] = "live"]
    BY <1>3 DEF StartCall
  <2>2. active' = {d \in Calls : phase'[d] = "live"} /\ c \notin active
    BY <1>0, <2>1
  <2>3. IsFiniteSet(active') /\ Cardinality(active') = Cardinality(active) + 1
    <3>1. /\ IsFiniteSet(active \union {c})
          /\ Cardinality(active \union {c}) = IF c \in active THEN Cardinality(active) ELSE Cardinality(active) + 1
      BY <1>0, FS_AddElement
    <3> QED
      BY <2>1, <2>2, <3>1
  <2>4. Negotiating' = Negotiating \ {c} /\ c \in Negotiating
    BY <1>0, <2>1 DEF Negotiating
  <2>5. ASSUME ~overlapped' PROVE Negotiating' = {} /\ Cardinality(active') <= MAX_CONCURRENT_CALLS
    BY <2>1, <2>4, <2>5, <1>0, <2>3 DEF Slots
  <2> QED
    BY <2>2, <2>3, <2>5 DEF Slots
<1>4. CASE RefuseCall(c)
  BY <1>4, <1>0 DEF RefuseCall, Negotiating, Slots
<1>5. CASE Handling(c) \/ Reporting(c)
  BY <1>5, HandlingFrame, ReportingFrame DEF Slots, Negotiating
<1>6. CASE Ending(c)
  <2>1. /\ phase[c] = "live" /\ active' = active \ {c} /\ overlapped' = overlapped
        /\ phase' = [phase EXCEPT ![c] = "over"]
    BY <1>6, EndingFrame
  <2>2. active' = {d \in Calls : phase'[d] = "live"} /\ c \in active /\ Negotiating' = Negotiating
    BY <1>0, <2>1 DEF Negotiating
  <2>3. IsFiniteSet(active') /\ Cardinality(active') = Cardinality(active) - 1
    BY <1>0, <2>1, <2>2, FS_RemoveElement
  <2>4. Cardinality(active') < Cardinality(active)
    BY <1>0, <2>3
  <2>5. /\ Cardinality(active) <= MAX_CONCURRENT_CALLS => Cardinality(active') <= MAX_CONCURRENT_CALLS
        /\ Cardinality(active) < MAX_CONCURRENT_CALLS => Cardinality(active') < MAX_CONCURRENT_CALLS
    BY <1>0, <2>3
  <2> QED
    BY <2>1, <2>2, <2>3, <2>5 DEF Slots
<1> QED
  BY <1>1, <1>2, <1>3, <1>4, <1>5, <1>6 DEF Admitting

-----------------------------------------------------------------------------
(* The turns.                                                              *)

Turn == [utterance : 0..MaxTurns, index : 0..MaxTurns, step : {"none", "persist", "escalate"},
         ask : BOOLEAN]

LEMMA SilentTyped == Silent \in Turn
BY VoiceAssumption DEF Silent, Turn

\* A turn being stored goes to its own row.
LEMMA StoresTurn ==
  ASSUME VoiceTypeOK, NEW c \in Calls, Numbered(c), PersistTurn(c)
  PROVE  /\ said[c] > 0 /\ said[c] - 1 \in Indices
         /\ \/ UNCHANGED segments /\ outages' = outages + 1
            \/ segments' = [segments EXCEPT ![c] = [segments[c] EXCEPT ![said[c] - 1] = said[c]]]
  BY VoiceAssumption DEF VoiceTypeOK, PersistTurn, Numbered, Indices, Ok, Lost, Failed, StoreTurn

LEMMA ReportingStep ==
  ASSUME VoiceTypeOK, NEW c \in Calls, Numbered(c), Reporting(c)
  PROVE  /\ turn' \in [Calls -> 0..MaxTurns] /\ said' \in [Calls -> 0..MaxTurns]
         /\ saying' \in [Calls -> Turn] /\ cut' \subseteq Calls
         /\ segments' \in [Calls -> [Indices -> 0..MaxTurns]]
         /\ escalations' \in [Calls -> 0..MaxTurns]
         /\ \A d \in Calls \ {c} :
              /\ turn'[d] = turn[d] /\ said'[d] = said[d] /\ saying'[d] = saying[d]
              /\ segments'[d] = segments[d] /\ escalations'[d] = escalations[d]
              /\ (d \in cut' <=> d \in cut)
<1>0. /\ turn \in [Calls -> 0..MaxTurns] /\ said \in [Calls -> 0..MaxTurns]
      /\ saying \in [Calls -> Turn] /\ cut \subseteq Calls
      /\ segments \in [Calls -> [Indices -> 0..MaxTurns]]
      /\ escalations \in [Calls -> 0..MaxTurns] /\ MaxTurns \in Nat
  BY VoiceAssumption DEF VoiceTypeOK, Turn
<1>1. ASSUME NEW ask \in BOOLEAN, OnTurn(c, ask)
      PROVE  /\ turn' \in [Calls -> 0..MaxTurns] /\ said' \in [Calls -> 0..MaxTurns]
             /\ saying' \in [Calls -> Turn] /\ UNCHANGED <<cut, segments, escalations>>
             /\ \A d \in Calls \ {c} : turn'[d] = turn[d] /\ said'[d] = said[d] /\ saying'[d] = saying[d]
  BY <1>1, <1>0 DEF OnTurn, NextIndex, Numbered, backend, Turn
<1>2. CASE PersistTurn(c)
  <2>1. /\ UNCHANGED <<turn, said, cut, escalations>>
        /\ \/ saying' = [saying EXCEPT ![c] = [saying[c] EXCEPT !.step = "escalate"]]
           \/ saying' = [saying EXCEPT ![c] = Silent]
    BY <1>2 DEF PersistTurn
  <2>2. [saying[c] EXCEPT !.step = "escalate"] \in Turn
    BY <1>0 DEF Turn
  <2>3. said[c] \in 0..MaxTurns
    BY <1>0
  <2>4. segments' = segments \/ segments' = [segments EXCEPT ![c] = [segments[c] EXCEPT ![said[c] - 1] = said[c]]]
    BY <1>2, StoresTurn
  <2>5. /\ segments' \in [Calls -> [Indices -> 0..MaxTurns]]
        /\ \A d \in Calls \ {c} : segments'[d] = segments[d]
    <3>1. segments[c] \in [Indices -> 0..MaxTurns]
      BY <1>0
    <3>2. [segments[c] EXCEPT ![said[c] - 1] = said[c]] \in [Indices -> 0..MaxTurns]
      BY ONLY <2>3, <3>1
    <3> HIDE DEF Indices
    <3> QED
      BY <1>0, <2>4, <3>2
  <2> QED
    BY <1>0, <2>1, <2>2, <2>5, SilentTyped
<1>3. CASE Escalate(c)
  BY <1>3, <1>0, SilentTyped DEF Escalate, Ok, Lost, Failed, RaiseEscalation, Numbered
<1>4. CASE Interrupt(c)
  BY <1>4, <1>0, SilentTyped DEF Interrupt, backend
<1> QED
  BY <1>0, <1>1, <1>2, <1>3, <1>4 DEF Reporting

LEMMA ReportingKeeps ==
  ASSUME VoiceTypeOK, VoiceNext, NEW c \in Calls, Numbered(c), Kept(c), Reporting(c)
  PROVE  Numbered(c)' /\ Kept(c)'
<1>0. /\ turn[c] \in Nat /\ said[c] \in Nat /\ saying \in [Calls -> Turn] /\ cut \subseteq Calls
      /\ turn \in [Calls -> 0..MaxTurns] /\ said \in [Calls -> 0..MaxTurns]
      /\ segments \in [Calls -> [Indices -> 0..MaxTurns]]
      /\ escalations \in [Calls -> 0..MaxTurns] /\ escalations[c] \in Nat /\ MaxTurns \in Nat
      /\ outages \in Nat
  BY VoiceAssumption DEF VoiceTypeOK, Turn
<1>9. (outages' = 0 => outages = 0) /\ phase' = phase
  BY OutagesGrow, ReportingFrame
<1>1. ASSUME NEW ask \in BOOLEAN, OnTurn(c, ask) PROVE Numbered(c)' /\ Kept(c)'
  <2>1. /\ turn[c] = said[c] /\ saying[c] = Silent /\ UNCHANGED <<cut, segments, escalations, outages>>
        /\ said'[c] = said[c] + 1 /\ turn'[c] = turn[c] + 1
        /\ saying'[c] = [utterance |-> said[c] + 1, index |-> turn[c], step |-> "persist", ask |-> ask]
    BY <1>0, <1>1 DEF OnTurn, NextIndex, Numbered, backend
  <2>2. /\ saying'[c].step = "persist" /\ saying'[c].index = said'[c] - 1
        /\ saying'[c].utterance = said'[c] /\ said'[c] > 0
    <3>1. /\ saying'[c].step = "persist" /\ saying'[c].index = said[c]
          /\ saying'[c].utterance = said[c] + 1 /\ said'[c] = said[c] + 1
      BY <2>1
    <3>2. said[c] \in Nat /\ said'[c] = said[c] + 1
      BY <1>0, <2>1
    <3>3. said'[c] - 1 = said[c] /\ said'[c] > 0
      BY ONLY <3>2
    <3> QED
      BY <3>1, <3>2, <3>3
  <2>3. escalations[c] <= said[c]
    BY DEF Numbered
  <2>4. escalations'[c] < said'[c] /\ escalations'[c] <= said'[c] /\ turn'[c] = said'[c]
    BY <1>0, <2>1, <2>3
  <2>5. Numbered(c)'
    BY <2>1, <2>2, <2>4 DEF Numbered
  <2>6. ASSUME outages' = 0, c \notin cut', NEW k \in 1..said'[c], k # said'[c]
        PROVE  segments'[c][k - 1] = k
    BY <1>0, <2>1, <2>6, <1>1 DEF Silent, OnTurn, Kept
  <2> QED
    BY <2>2, <2>5, <2>6 DEF Kept
<1>2. CASE PersistTurn(c)
  <2>1. /\ saying[c].step = "persist" /\ UNCHANGED <<turn, said, cut, escalations>>
        /\ saying'[c].step \in {"none", "escalate"}
    BY <1>0, <1>2 DEF PersistTurn, Turn, Silent
  <2>2. /\ said[c] > 0 /\ said[c] - 1 \in Indices
        /\ \/ UNCHANGED segments /\ outages' = outages + 1
           \/ segments' = [segments EXCEPT ![c] = [segments[c] EXCEPT ![said[c] - 1] = said[c]]]
    BY <1>2, StoresTurn
  <2>3. \A i \in Indices : segments'[c][i] = segments[c][i] \/ (i = said[c] - 1 /\ segments'[c][i] = said[c])
    BY <1>0, <2>2
  <2>4. \A i \in Indices : segments'[c][i] \in {0, i + 1}
    <3> SUFFICES ASSUME NEW i \in Indices PROVE segments'[c][i] \in {0, i + 1}
      OBVIOUS
    <3>1. i \in Nat /\ segments[c][i] \in {0, i + 1}
      BY <1>0 DEF Numbered, Indices
    <3>2. i = said[c] - 1 => said[c] = i + 1
      BY ONLY <1>0, <3>1
    <3> QED
      BY <2>3, <3>1, <3>2
  <2>5. turn[c] = said[c] /\ escalations[c] < said[c] /\ escalations[c] <= said[c]
    BY <2>1 DEF Numbered
  <2>6. Numbered(c)'
    BY <2>1, <2>4, <2>5 DEF Numbered
  <2>7. ASSUME outages' = 0, c \notin cut', NEW k \in 1..said[c]
        PROVE  segments'[c][k - 1] = k
    <3>1. segments'[c] = [segments[c] EXCEPT ![said[c] - 1] = said[c]]
      BY <1>0, <2>2, <2>7
    <3>2. CASE k = said[c]
      BY <1>0, <2>2, <3>1, <3>2
    <3>3. CASE k # said[c]
      BY <1>9, <2>1, <2>7, <3>3, <1>0, <3>1 DEF Kept, Indices
    <3> QED
      BY <3>2, <3>3
  <2> QED
    BY <2>1, <2>6, <2>7 DEF Kept
<1>3. CASE Escalate(c)
  BY <1>0, <1>3, <1>9 DEF Escalate, Silent, Ok, Lost, Failed, RaiseEscalation, Numbered, Kept
<1>4. CASE Interrupt(c)
  BY <1>0, <1>4 DEF Interrupt, backend, Silent, Numbered, Kept
<1> QED
  BY <1>1, <1>2, <1>3, <1>4 DEF Reporting

-----------------------------------------------------------------------------
(* Every step keeps the invariant.                                         *)

LEMMA VoiceInitInv == VoiceInit => Inv
<1> SUFFICES ASSUME VoiceInit PROVE Inv
  OBVIOUS
<1>1. VoiceTypeOK
  <2>1. 0 \in 0..MaxTurns /\ 0 \in 0..MaxOutages /\ 0 \in 0..1
    BY VoiceAssumption
  <2>2. saying \in [Calls -> Turn]
    BY SilentTyped DEF VoiceInit
  <2>3. segments \in [Calls -> [Indices -> 0..MaxTurns]]
    BY <2>1 DEF VoiceInit
  <2>4. /\ turn \in [Calls -> 0..MaxTurns] /\ said \in [Calls -> 0..MaxTurns]
        /\ escalations \in [Calls -> 0..MaxTurns] /\ scores \in [Calls -> 0..1]
    BY <2>1 DEF VoiceInit
  <2> QED
    BY <2>1, <2>2, <2>3, <2>4 DEF VoiceInit, VoiceTypeOK, Turn
<1>2. Slots
  BY FS_EmptySet, VoiceAssumption DEF VoiceInit, Negotiating, Slots
<1>3. ASSUME NEW c \in Calls PROVE Closed(c) /\ Clean(c) /\ Numbered(c) /\ Kept(c)
  BY VoiceAssumption DEF VoiceInit, Closed, Clean, Numbered, Kept, Silent, Indices
<1> QED
  BY <1>1, <1>2, <1>3 DEF Inv

\* A call none of whose handlers or turns moved is as it was.
LEMMA OthersKeep ==
  ASSUME VoiceTypeOK, VoiceNext, NEW c \in Calls, Closed(c), Clean(c),
         connect'[c] = connect[c], hangup'[c] = hangup[c], row'[c] = row[c], scores'[c] = scores[c],
         c \in callId' <=> c \in callId, c \in early' <=> c \in early
  PROVE  Closed(c)' /\ Clean(c)'
  BY OutagesGrow DEF Closed, Clean

LEMMA OtherTurnsKeep ==
  ASSUME VoiceTypeOK, VoiceNext, NEW c \in Calls, Numbered(c), Kept(c),
         turn'[c] = turn[c], said'[c] = said[c], saying'[c] = saying[c],
         segments'[c] = segments[c], escalations'[c] = escalations[c], c \in cut' <=> c \in cut,
         phase[c] = "over" => phase'[c] = "over"
  PROVE  Numbered(c)' /\ Kept(c)'
  BY OutagesGrow DEF Numbered, Kept

LEMMA NextInv ==
  ASSUME Inv, [VoiceNext]_voiceVars
  PROVE  Inv'
<1>1. CASE VoiceNext
  <2>0. VoiceTypeOK /\ Slots /\ \A c \in Calls : Closed(c) /\ Clean(c) /\ Numbered(c) /\ Kept(c)
    BY DEF Inv
  <2>1. PICK c \in Calls : Admitting(c) \/ Handling(c) \/ Reporting(c) \/ Ending(c)
    BY <1>1, Steps
  <2>2. Slots'
    BY <1>1, <2>0, SlotsKeep
  <2>3. outages' \in 0..MaxOutages
    BY <1>1, <2>0, OutagesGrow
  <2>4. CASE Admitting(c)
    <3>1. UNCHANGED <<connect, hangup, drained, callId, early, turn, said, saying, cut,
                      row, segments, escalations, scores, outages>>
      BY <2>4, AdmittingFrame
    <3>2. /\ phase' \in [Calls -> {"new", "negotiating", "live", "over", "rejected"}]
          /\ active' \subseteq Calls /\ overlapped' \in BOOLEAN
          /\ \A d \in Calls : phase[d] = "over" => phase'[d] = "over"
      <4>0. /\ phase \in [Calls -> {"new", "negotiating", "live", "over", "rejected"}]
            /\ active \subseteq Calls /\ overlapped \in BOOLEAN
        BY <2>0 DEF VoiceTypeOK
      <4>1. CASE Offer(c)
        BY <4>1, <4>0 DEF Offer
      <4>2. CASE StartCall(c)
        BY <4>0, <4>2 DEF StartCall
      <4>3. CASE RefuseCall(c)
        BY <4>0, <4>3 DEF RefuseCall
      <4> QED
        BY <2>4, <4>1, <4>2, <4>3 DEF Admitting
    <3>3. VoiceTypeOK'
      BY <2>0, <3>1, <3>2 DEF VoiceTypeOK
    <3>4. ASSUME NEW d \in Calls PROVE Closed(d)' /\ Clean(d)' /\ Numbered(d)' /\ Kept(d)'
      BY <1>1, <2>0, <3>1, <3>2, OthersKeep, OtherTurnsKeep
    <3> QED
      BY <2>2, <3>3, <3>4 DEF Inv
  <2>5. CASE Handling(c)
    <3>1. UNCHANGED <<phase, active, overlapped, turn, said, saying, cut, segments, escalations>>
      BY <2>5, HandlingFrame
    <3>2. /\ connect' \in [Calls -> {"no", "posting", "done"}]
          /\ hangup' \in [Calls -> {"no", "finalize", "score", "cancel"}]
          /\ drained' \subseteq Calls /\ callId' \subseteq Calls /\ early' \subseteq Calls
          /\ row' \in [Calls -> {"none", "active", "ended"}] /\ scores' \in [Calls -> 0..1]
          /\ \A d \in Calls \ {c} :
               /\ connect'[d] = connect[d] /\ hangup'[d] = hangup[d] /\ row'[d] = row[d]
               /\ scores'[d] = scores[d] /\ (d \in callId' <=> d \in callId) /\ (d \in early' <=> d \in early)
      BY <2>0, <2>5, HandlingStep
    <3>3. VoiceTypeOK'
      BY <2>0, <2>3, <3>1, <3>2 DEF VoiceTypeOK, Indices
    <3>4. ASSUME NEW d \in Calls PROVE Closed(d)' /\ Clean(d)'
      BY <1>1, <2>0, <2>5, HandlingKeeps, <3>2, OthersKeep
    <3>5. ASSUME NEW d \in Calls PROVE Numbered(d)' /\ Kept(d)'
      BY <1>1, <2>0, <3>1, OtherTurnsKeep
    <3> QED
      BY <2>2, <3>3, <3>4, <3>5 DEF Inv
  <2>6. CASE Reporting(c)
    <3>1. UNCHANGED <<phase, active, overlapped, connect, hangup, drained, callId, early, row, scores>>
      BY <2>6, ReportingFrame
    <3>2. /\ turn' \in [Calls -> 0..MaxTurns] /\ said' \in [Calls -> 0..MaxTurns]
          /\ saying' \in [Calls -> Turn] /\ cut' \subseteq Calls
          /\ segments' \in [Calls -> [Indices -> 0..MaxTurns]]
          /\ escalations' \in [Calls -> 0..MaxTurns]
          /\ \A d \in Calls \ {c} :
               /\ turn'[d] = turn[d] /\ said'[d] = said[d] /\ saying'[d] = saying[d]
               /\ segments'[d] = segments[d] /\ escalations'[d] = escalations[d]
               /\ (d \in cut' <=> d \in cut)
      BY <2>0, <2>6, ReportingStep
    <3>3. VoiceTypeOK'
      BY <2>0, <2>3, <3>1, <3>2 DEF VoiceTypeOK, Turn, Indices
    <3>4. ASSUME NEW d \in Calls PROVE Numbered(d)' /\ Kept(d)'
      BY <1>1, <2>0, <2>6, ReportingKeeps, <3>1, <3>2, OtherTurnsKeep
    <3>5. ASSUME NEW d \in Calls PROVE Closed(d)' /\ Clean(d)'
      BY <1>1, <2>0, <3>1, OthersKeep
    <3> QED
      BY <2>2, <3>3, <3>4, <3>5 DEF Inv
  <2>7. CASE Ending(c)
    <3>1. /\ UNCHANGED <<overlapped, connect, hangup, drained, callId, early, turn, said, cut,
                         row, segments, escalations, scores>>
          /\ phase[c] = "live" /\ phase' = [phase EXCEPT ![c] = "over"]
          /\ active' = active \ {c} /\ saying' = [saying EXCEPT ![c] = Silent]
      BY <2>0, <2>7, EndingFrame
    <3>2. /\ phase \in [Calls -> {"new", "negotiating", "live", "over", "rejected"}]
          /\ saying \in [Calls -> Turn] /\ active \subseteq Calls
      BY <2>0 DEF VoiceTypeOK, Turn
    <3>3. /\ phase' \in [Calls -> {"new", "negotiating", "live", "over", "rejected"}]
          /\ saying' \in [Calls -> Turn] /\ active' \subseteq Calls
      BY <3>1, <3>2, SilentTyped
    <3>4. VoiceTypeOK'
      BY <2>0, <2>3, <3>1, <3>3 DEF VoiceTypeOK, Turn, Indices
    <3>5. ASSUME NEW d \in Calls PROVE Closed(d)' /\ Clean(d)'
      BY <1>1, <2>0, <3>1, OthersKeep
    <3>6. ASSUME NEW d \in Calls PROVE Numbered(d)' /\ Kept(d)'
      <4>1. CASE d = c
        BY <3>1, <3>2, <2>0, <1>1, OutagesGrow, <4>1 DEF Silent, Numbered, Kept
      <4>2. CASE d # c
        BY <1>1, <2>0, <3>1, <3>2, <4>2, OtherTurnsKeep
      <4> QED
        BY <4>1, <4>2
    <3> QED
      BY <2>2, <3>4, <3>5, <3>6 DEF Inv
  <2> QED
    BY <2>1, <2>4, <2>5, <2>6, <2>7
<1>2. CASE UNCHANGED voiceVars
  BY <1>2 DEF Inv, VoiceTypeOK, Slots, Negotiating, Closed, Clean, Numbered, Kept, Indices, voiceVars
<1> QED
  BY <1>1, <1>2

LEMMA Invariant == VoiceSpec => []Inv
<1>1. Inv /\ [VoiceNext]_voiceVars => Inv'
  BY NextInv
<1> QED
  BY VoiceInitInv, <1>1, PTL DEF VoiceSpec

-----------------------------------------------------------------------------
(* What follows.                                                           *)

\* Every reachable state of the widget runtime and the calls it has stored is well typed:
\* no call is scored twice, and no turn raises a second escalation.
THEOREM VoiceTypeCorrect == VoiceSpec => []VoiceTypeOK
<1>1. Inv => VoiceTypeOK
  BY DEF Inv
<1> QED
  BY Invariant, <1>1, PTL

\* The ceiling of widget_server.py holds for any number of calls as long as no offer is
\* admitted during the negotiation of another.
THEOREM CeilingHolds == VoiceSpec => []CeilingWithoutOverlap
<1>1. Inv => CeilingWithoutOverlap
  BY DEF Inv, Slots, CeilingWithoutOverlap
<1> QED
  BY Invariant, <1>1, PTL

\* Only a call that was closed is scored: a failed or unanswered finalize, an early hang-up
\* or a crash never leaves a score on an open call.
THEOREM ScoresAreFinal == VoiceSpec => []ScoredIsEnded
<1>1. Inv => ScoredIsEnded
  BY DEF Inv, Closed, ScoredIsEnded
<1> QED
  BY Invariant, <1>1, PTL

\* A call the visitor ends after it was opened, without failed requests and barge-in, is
\* ended, scored, and missing at most its last turn.
THEOREM CleanCallsAreComplete == VoiceSpec => []CleanCallIsComplete
<1>1. Inv => CleanCallIsComplete
  <2> SUFFICES ASSUME Inv, outages = 0, NEW c \in Calls, phase[c] = "over", hangup[c] = "cancel",
                      c \notin early, c \notin cut
               PROVE  row[c] = "ended" /\ scores[c] = 1 /\ 1..(said[c] - 1) \subseteq Stored(c)
    BY DEF CleanCallIsComplete
  <2>1. row[c] = "ended" /\ scores[c] = 1
    BY DEF Inv, Clean
  <2>2. ASSUME NEW k \in 1..(said[c] - 1) PROVE k \in Stored(c)
    <3>1. said[c] \in 0..MaxTurns /\ MaxTurns \in Nat
      BY VoiceAssumption DEF Inv, VoiceTypeOK
    <3>2. k \in 1..said[c] /\ k # said[c] /\ k # 0 /\ k - 1 \in Indices
      BY <2>2, <3>1 DEF Indices
    <3>3. segments[c][k - 1] = k
      BY <3>2 DEF Inv, Kept
    <3> QED
      BY <3>2, <3>3 DEF Stored
  <2> QED
    BY <2>1, <2>2
<1> QED
  BY Invariant, <1>1, PTL

\* The transcript only grows and stays in spoken order: no retry, lost answer or barge-in
\* lets a later turn take the row of an earlier one (pipeline.py on_turn, persistTurn).
THEOREM TranscriptsGrow == VoiceSpec => TranscriptKeepsTurns
<1> DEFINE TurnsGrow ==
      \A c \in Calls :
        /\ \A i \in Indices : segments[c][i] # 0 => segments'[c][i] = segments[c][i]
        /\ \A i, j \in Indices : i < j /\ segments'[c][i] # 0 /\ segments'[c][j] # 0 =>
             segments'[c][i] < segments'[c][j]
<1>1. ASSUME Inv, VoiceNext PROVE TurnsGrow
  <2>0. Inv'
    BY <1>1, NextInv
  <2>1. ASSUME NEW c \in Calls, NEW i \in Indices, segments[c][i] # 0
        PROVE  segments'[c][i] = segments[c][i]
    <3>0. segments \in [Calls -> [Indices -> 0..MaxTurns]]
      BY <1>1 DEF Inv, VoiceTypeOK
    <3>1. PICK d \in Calls : Admitting(d) \/ Handling(d) \/ Reporting(d) \/ Ending(d)
      BY <1>1, Steps
    <3>2. CASE Admitting(d) \/ Handling(d) \/ Ending(d)
      BY <1>1, <3>2, AdmittingFrame, HandlingFrame, EndingFrame DEF Inv
    <3>3. CASE PersistTurn(d)
      <4>1. said[d] > 0 /\ said[d] \in Nat /\ said[d] - 1 \in Indices
        BY <1>1, <3>3, StoresTurn, VoiceAssumption DEF Inv, VoiceTypeOK
      <4>2. \/ UNCHANGED segments
            \/ segments' = [segments EXCEPT ![d] = [segments[d] EXCEPT ![said[d] - 1] = said[d]]]
        BY <1>1, <3>3, StoresTurn DEF Inv
      <4>3. CASE c = d /\ i = said[d] - 1
        <5>1. segments[c][i] = i + 1 /\ i \in Nat
          BY <1>1, <2>1 DEF Inv, Numbered, Indices
        <5>2. i + 1 = said[d]
          BY ONLY <4>1, <4>3, <5>1
        <5> QED
          BY <3>0, <4>1, <4>2, <4>3, <5>1, <5>2
      <4>4. CASE ~(c = d /\ i = said[d] - 1)
        BY <3>0, <4>1, <4>2, <4>4
      <4> QED
        BY <4>3, <4>4
    <3>4. CASE (\E ask \in BOOLEAN : OnTurn(d, ask)) \/ Escalate(d) \/ Interrupt(d)
      BY <3>4 DEF OnTurn, Escalate, Interrupt, backend
    <3> QED
      BY <3>1, <3>2, <3>3, <3>4 DEF Reporting
  <2>2. ASSUME NEW c \in Calls, NEW i \in Indices, NEW j \in Indices, i < j,
               segments'[c][i] # 0, segments'[c][j] # 0
        PROVE  segments'[c][i] < segments'[c][j]
    BY <2>0, <2>2 DEF Inv, Numbered, Indices
  <2> QED
    BY <2>1, <2>2
<1>2. Inv /\ [VoiceNext]_voiceVars => [TurnsGrow]_voiceVars
  BY <1>1
<1> HIDE DEF TurnsGrow
<1>3. VoiceSpec => [][TurnsGrow]_voiceVars
  BY Invariant, <1>2, PTL DEF VoiceSpec
<1> QED
  BY <1>3 DEF TurnsGrow, TranscriptKeepsTurns

-----------------------------------------------------------------------------
(* The widget: its inductive invariant.                                    *)

\* Where a start has its record already, or has asked for the second one.
Recorded(s) == startAt[s] \notin {"ready", "mic", "track"}
DemoRecorded(s) == startAt[s] \in {"demo", "failing", "done"}

\* A record is made by the start it is named after, when that start has passed the request for it.
RecordsAreMadeOnce ==
    \A s \in WidgetCalls :
        /\ <<s, "call">> \in created => Recorded(s)
        /\ <<s, "demo">> \in created => DemoRecorded(s)

\* Who closes a record, and how often: the record in use is closed when its flag is set, and a set
\* flag has its request in flight.
ClosingIsFlagged ==
    /\ created \subseteq CallRecords
    /\ closed \in [CallRecords -> Nat]
    /\ \A c \in CallRecords : closed[c] <= 1 /\ (closed[c] = 1 => c \in created)
    /\ callIdRef # NoCall => callIdRef \in created
    /\ Finalizes => closed[callIdRef] = 0
    /\ callIdRef # NoCall /\ finalizedRef => posts # {}

\* The index counts what was sent of the record in use, and never more than was sent in all.
IndexCountsTurns ==
    /\ IsFiniteSet(turns) /\ \A t \in turns : t.index \in Nat
    /\ turnIndexRef \in Nat
    /\ turnIndexRef <= Cardinality(turns)
    /\ Cardinality(turns) <= MaxWidgetTurns
    /\ \A t \in turns : t.call \in created /\ (t.call = callIdRef => t.index < turnIndexRef)
    /\ ~overwritten

Active(s) == link[s] \in {"dialling", "up"}
NothingRuns == ~demoOn /\ \A s \in WidgetCalls : ~Active(s)
Starting == \E s \in WidgetCalls : startAt[s] \in {"mint", "sdk", "connect", "demo"}

\* What a start has and has not yet at each of its awaits, while nobody presses over it.
StartForm(s) ==
    /\ startAt[s] # "demo-track"
    /\ StartRuns(s) => Mounted /\ ~demoOn
    /\ startAt[s] \in {"mic", "track"} => callIdRef = NoCall /\ posts = {}
    /\ startAt[s] \in {"mint", "sdk", "demo"} => Finalizes /\ posts = {}
    /\ startAt[s] = "connect" /\ Active(s) => Finalizes /\ posts = {}
    /\ startAt[s] = "connect" /\ ~Active(s) => ~Finalizes /\ clientRef = NoCall /\ status # "live"
    /\ startAt[s] = "failing" => ~Finalizes
    /\ link[s] = "dialling" => startAt[s] = "connect"
    /\ StartRuns(s) /\ startAt[s] # "connect" => clientRef = NoCall
    /\ StartRuns(s) /\ startAt[s] \notin {"connect", "failing"} => status \in {"requesting-mic", "connecting"}
    /\ StartRuns(s) => \A x \in WidgetCalls : Active(x) => x = s /\ startAt[s] = "connect"

\* An end works on a record that is closed; after dropping the client the widget is silent.
EndForm(e) ==
    /\ EndRuns(e) => ~Finalizes
    /\ endAt[e] = "settle" => NothingRuns
    /\ e = ClosingLine /\ ~Mounted => ~Finalizes
    /\ e = ClosingLine /\ endAt[e] = "done" => NothingRuns
    /\ e # ClosingLine /\ EndRuns(e) => Mounted
    /\ EndRuns(e) => \A s \in WidgetCalls : ~StartRuns(s)

\* What keeps a record open, a panel live and a connection in use.
UseForm ==
    /\ \A c \in created : closed[c] = 1 \/ (c = callIdRef /\ ~finalizedRef)
    /\ Finalizes => demoOn \/ Starting \/ \E s \in WidgetCalls : link[s] = "up"
    /\ posts # {} => ~Finalizes
    /\ status = "live" /\ Mounted => Finalizes \/ \E s \in WidgetCalls : startAt[s] = "failing"
    /\ \A s \in WidgetCalls : Active(s) => clientRef = s
    /\ demoOn => clientRef = NoCall
    /\ demoOn /\ Mounted => status \in {"live", "ending"}
    /\ Mounted => \A s \in WidgetCalls : link[s] = "up" => status # "idle"

\* While no press came over an unfinished one, one function at most is at work.
Calm ==
    ~pressedOver =>
        /\ \A x, y \in WidgetCalls : StartRuns(x) /\ StartRuns(y) => x = y
        /\ \A x, y \in Ends \cup {ClosingLine} : EndRuns(x) /\ EndRuns(y) => x = y
        /\ \A s \in WidgetCalls : StartForm(s)
        /\ \A e \in Ends \cup {ClosingLine} : EndForm(e)
        /\ UseForm

WidgetInv ==
    /\ WidgetTypeOK
    /\ RecordsAreMadeOnce
    /\ ClosingIsFlagged
    /\ IndexCountsTurns
    /\ Calm
-----------------------------------------------------------------------------
(* The proof: records and turns first, then types, then who is at work.      *)

LEMMA WidgetInitInv == WidgetInit => WidgetInv
PROOF
<1>1. SUFFICES ASSUME WidgetInit PROVE WidgetInv
  OBVIOUS
<1>2. WidgetTypeOK
  BY <1>1, WidgetAssumption DEF WidgetInit, WidgetTypeOK
<1>3. RecordsAreMadeOnce
  BY <1>1 DEF WidgetInit, RecordsAreMadeOnce
<1>4. ClosingIsFlagged
  BY <1>1 DEF WidgetInit, ClosingIsFlagged, Finalizes
<1>5. IndexCountsTurns
  BY FS_EmptySet, <1>1, WidgetAssumption DEF WidgetInit, IndexCountsTurns
<1>6. Calm
  BY <1>1 DEF WidgetInit, Calm, StartForm, EndForm, UseForm, StartRuns, EndRuns, Finalizes, Active, NothingRuns, Starting
<1> QED
  BY <1>2, <1>3, <1>4, <1>5, <1>6 DEF WidgetInv

\* A finalize request leaves for the record in use and closes it, or nothing happens.
LEMMA FinalizeCloses ==
    ASSUME WidgetInv, NEW by, WidgetFinalize(by), callIdRef' = callIdRef, created' = created
    PROVE  /\ ClosingIsFlagged'
           /\ ~Finalizes'
           /\ finalizedRef' \/ callIdRef' = NoCall
           /\ posts \subseteq posts'
           /\ \A m \in posts' : m.call \in created
           /\ ~Finalizes => UNCHANGED <<finalizedRef, posts, closed>>
           /\ Finalizes => closed'[callIdRef] = 1
           /\ \A c \in CallRecords : closed[c] = 1 => closed'[c] = 1
PROOF
<1> USE DEF WidgetInv
<1>1. CASE Finalizes
  <2>1. callIdRef \in created /\ callIdRef \in CallRecords /\ closed[callIdRef] = 0
    BY <1>1 DEF ClosingIsFlagged, Finalizes
  <2>2. /\ finalizedRef'
        /\ posts' = posts \cup {[by |-> by, call |-> callIdRef]}
        /\ closed' = [closed EXCEPT ![callIdRef] = @ + 1]
    BY <1>1 DEF WidgetFinalize
  <2>3. closed' \in [CallRecords -> Nat] /\ closed'[callIdRef] = 1
    BY <2>1, <2>2 DEF ClosingIsFlagged
  <2>4. \A c \in CallRecords : c # callIdRef => closed'[c] = closed[c]
    BY <2>1, <2>2 DEF ClosingIsFlagged
  <2>5. \A m \in posts' : m.call \in created
    BY <2>1, <2>2 DEF WidgetTypeOK
  <2>6. \A c \in CallRecords : closed'[c] <= 1 /\ (closed'[c] = 1 => c \in created')
    BY <2>1, <2>3, <2>4 DEF ClosingIsFlagged
  <2>7. posts' # {} /\ ~Finalizes' /\ (callIdRef' # NoCall => callIdRef' \in created')
    BY <2>1, <2>2 DEF Finalizes
  <2>8. ClosingIsFlagged'
    BY <2>3, <2>6, <2>7 DEF ClosingIsFlagged
  <2> QED
    BY <1>1, <2>1, <2>2, <2>3, <2>4, <2>5, <2>7, <2>8 DEF Finalizes
<1>2. CASE ~Finalizes
  BY <1>2 DEF WidgetFinalize, ClosingIsFlagged, Finalizes, WidgetTypeOK
<1> QED
  BY <1>1, <1>2

\* The index, the posts and the records of a step that makes no record and sends no turn.
LEMMA TurnsRest ==
    ASSUME WidgetInv, UNCHANGED <<turnIndexRef, turns, overwritten>>, created \subseteq created',
           callIdRef' \in {callIdRef, NoCall}
    PROVE  IndexCountsTurns'
PROOF
  BY WidgetAssumption DEF WidgetInv, IndexCountsTurns, ClosingIsFlagged, CallRecords

\* What the three parts say about the records and the turns of a call.
WidgetBooks == ClosingIsFlagged /\ IndexCountsTurns /\ RecordsAreMadeOnce /\ \A m \in posts : m.call \in created

\* Steps of starts and ends that leave the records alone, but may finalize the one in use.
LEMMA FinalizeBooks ==
    ASSUME WidgetInv, NEW by, WidgetFinalize(by) \/ UNCHANGED <<finalizedRef, posts, closed>>,
           UNCHANGED <<callIdRef, turnIndexRef, created, turns, overwritten>>,
           \A s \in WidgetCalls : (Recorded(s) => Recorded(s)') /\ (DemoRecorded(s) => DemoRecorded(s)')
    PROVE  WidgetBooks'
PROOF
<1>1. ClosingIsFlagged' /\ \A m \in posts' : m.call \in created'
  BY FinalizeCloses DEF WidgetInv, ClosingIsFlagged, Finalizes, WidgetTypeOK
<1>2. IndexCountsTurns'
  BY TurnsRest
<1>3. RecordsAreMadeOnce'
  BY DEF WidgetInv, RecordsAreMadeOnce
<1> QED
  BY <1>1, <1>2, <1>3 DEF WidgetBooks

\* Moves of one start, along its awaits.
LEMMA StartMoves ==
    ASSUME WidgetInv, NEW s \in WidgetCalls, NEW at, startAt' = [startAt EXCEPT ![s] = at],
           Recorded(s) => at \notin {"ready", "mic", "track"},
           DemoRecorded(s) => at \in {"demo", "failing", "done"}
    PROVE  \A x \in WidgetCalls : (Recorded(x) => Recorded(x)') /\ (DemoRecorded(x) => DemoRecorded(x)')
PROOF
  BY DEF WidgetInv, WidgetTypeOK, Recorded, DemoRecorded

\* A record that the API makes is new: its start asks for it once.
LEMMA AdoptBooks ==
    ASSUME WidgetInv, NEW s \in WidgetCalls, TrackAnswered(s)
    PROVE  WidgetBooks'
PROOF
<1> DEFINE c == <<s, IF startAt[s] = "track" THEN "call" ELSE "demo">>
<1> USE DEF WidgetInv
<1>1. /\ c \in CallRecords /\ c # NoCall /\ c \notin created
      /\ created' = created \cup {c} /\ callIdRef' = c /\ turnIndexRef' = 0 /\ finalizedRef' = FALSE
      /\ UNCHANGED <<closed, turns, overwritten, posts>>
      /\ startAt' = [startAt EXCEPT ![s] = IF @ = "track" THEN "mint" ELSE "demo"]
  <2>1. startAt[s] \in {"track", "demo-track"}
    BY DEF TrackAnswered
  <2>2. c \in CallRecords /\ c # NoCall
    BY WidgetAssumption DEF CallRecords
  <2>3. c \notin created
    BY <2>1 DEF RecordsAreMadeOnce, Recorded, DemoRecorded
  <2> QED
    BY <2>2, <2>3 DEF TrackAnswered, AdoptRecord
<1>2. ClosingIsFlagged'
  BY <1>1 DEF ClosingIsFlagged, Finalizes
<1>3. IndexCountsTurns'
  BY FS_CardinalityType, <1>1 DEF IndexCountsTurns
<1>4. RecordsAreMadeOnce'
  <2>1. startAt[s] \in {"track", "demo-track"}
    BY DEF TrackAnswered
  <2>2. CASE startAt[s] = "track"
    BY <1>1, <2>2 DEF RecordsAreMadeOnce, Recorded, DemoRecorded, WidgetTypeOK
  <2>3. CASE startAt[s] = "demo-track"
    BY <1>1, <2>3 DEF RecordsAreMadeOnce, Recorded, DemoRecorded, WidgetTypeOK
  <2> QED
    BY <2>1, <2>2, <2>3
<1>5. \A m \in posts' : m.call \in created'
  BY <1>1 DEF WidgetTypeOK
<1> QED
  BY <1>2, <1>3, <1>4, <1>5 DEF WidgetBooks

LEMMA TurnBooks ==
    ASSUME WidgetInv, RecordTurn
    PROVE  WidgetBooks'
PROOF
<1> DEFINE t == [call |-> callIdRef, index |-> turnIndexRef]
<1> USE DEF WidgetInv
<1>1. /\ callIdRef # NoCall /\ Cardinality(turns) < MaxWidgetTurns
      /\ turns' = turns \cup {t} /\ turnIndexRef' = turnIndexRef + 1
      /\ overwritten' = (overwritten \/ t \in turns)
      /\ UNCHANGED <<callIdRef, finalizedRef, posts, created, closed, startAt>>
  BY DEF RecordTurn
<1>2. t \notin turns /\ turnIndexRef \in Nat /\ Cardinality(turns) \in Nat /\ callIdRef \in created
  BY <1>1, FS_CardinalityType DEF IndexCountsTurns, ClosingIsFlagged
<1>3. IsFiniteSet(turns') /\ Cardinality(turns') = Cardinality(turns) + 1
  BY <1>1, <1>2, FS_AddElement DEF IndexCountsTurns
<1>4. turnIndexRef' \in Nat /\ turnIndexRef' <= Cardinality(turns') /\ Cardinality(turns') <= MaxWidgetTurns
  BY <1>1, <1>2, <1>3, WidgetAssumption DEF IndexCountsTurns
<1>5. \A x \in turns' : x.call \in created' /\ (x.call = callIdRef' => x.index < turnIndexRef')
  <2> SUFFICES ASSUME NEW x \in turns' PROVE x.call \in created /\ (x.call = callIdRef => x.index < turnIndexRef + 1)
    BY <1>1
  <2>1. CASE x = t
    BY <2>1, <1>2
  <2>2. CASE x \in turns
    <3>1. x.call \in created /\ (x.call = callIdRef => x.index < turnIndexRef)
      BY <2>2 DEF IndexCountsTurns
    <3>2. x.index \in Nat
      BY <2>2 DEF IndexCountsTurns
    <3>3. x.index < turnIndexRef => x.index < turnIndexRef + 1
      BY ONLY <3>2, <1>2
    <3> QED
      BY <3>1, <3>3
  <2> QED
    BY <2>1, <2>2, <1>1
<1>6. \A x \in turns' : x.index \in Nat
  BY <1>1, <1>2 DEF IndexCountsTurns
<1>7. IndexCountsTurns'
  BY <1>1, <1>2, <1>3, <1>4, <1>5, <1>6 DEF IndexCountsTurns
<1> QED
  BY <1>1, <1>7 DEF WidgetBooks, ClosingIsFlagged, RecordsAreMadeOnce, Recorded, DemoRecorded, Finalizes, WidgetTypeOK

\* Whatever step the widget takes, its records and turns stay in order.
LEMMA StepBooks ==
    ASSUME WidgetInv, [WidgetNext]_widgetVars
    PROVE  WidgetBooks'
PROOF
<1> DEFINE Forward == \A x \in WidgetCalls : (Recorded(x) => Recorded(x)') /\ (DemoRecorded(x) => DemoRecorded(x)')
<1> DEFINE Quiet == UNCHANGED <<callIdRef, turnIndexRef, created, turns, overwritten>>
<1>1. ASSUME Quiet, UNCHANGED <<finalizedRef, posts, closed>>, Forward PROVE WidgetBooks'
  BY <1>1, FinalizeBooks
<1>2. ASSUME Quiet, NEW by, WidgetFinalize(by), Forward PROVE WidgetBooks'
  BY <1>2, FinalizeBooks
<1>3. ASSUME UNCHANGED startAt PROVE Forward
  BY <1>3 DEF Recorded, DemoRecorded
<1>4. ASSUME NEW s \in WidgetCalls, PressCall(s) PROVE WidgetBooks'
  BY <1>4, <1>1 DEF PressCall, refs, server, Recorded, DemoRecorded, WidgetInv, WidgetTypeOK
<1>5. ASSUME NEW s \in WidgetCalls, StartStep(s) PROVE WidgetBooks'
  <2>1. CASE MicRefused(s)
    BY <2>1, <1>1, StartMoves DEF MicRefused, refs, server
  <2>2. CASE MicGranted(s)
    BY <2>2, <1>1 DEF MicGranted, Recorded, DemoRecorded, WidgetInv, WidgetTypeOK, ReuseRecord, server
  <2>3. CASE TrackAnswered(s)
    BY <2>3, AdoptBooks
  <2>4. CASE TrackFails(s)
    BY <2>4, <1>1, StartMoves DEF TrackFails, refs, server
  <2>5. CASE MintAnswered(s)
    BY <2>5, StartMoves, <1>1 DEF MintAnswered, DemoRecorded, refs, server
  <2>6. CASE MintUnavailable(s)
    BY <2>6, <1>1 DEF MintUnavailable, Recorded, DemoRecorded, WidgetInv, WidgetTypeOK, ReuseRecord, server
  <2>7. CASE StartFails(s)
    BY <2>7, <1>2, StartMoves DEF StartFails
  <2>8. CASE ShowFailure(s)
    BY <2>8, <1>1, StartMoves DEF ShowFailure, refs, server
  <2>9. CASE SdkLoaded(s)
    BY <2>9, StartMoves, <1>1 DEF SdkLoaded, DemoRecorded, server
  <2>10. CASE TransportLive(s)
    BY <2>10, <1>1, <1>3 DEF TransportLive, refs, server
  <2>11. CASE DemoStarts(s)
    BY <2>11, <1>1, StartMoves DEF DemoStarts, server
  <2>12. CASE TransportReady(s)
    BY <2>12, <1>1, StartMoves DEF TransportReady, refs, server
  <2> QED
    BY <1>5, <2>1, <2>2, <2>3, <2>4, <2>5, <2>6, <2>7, <2>8, <2>9, <2>10, <2>11, <2>12 DEF StartStep
<1>6. ASSUME NEW s \in WidgetCalls, OnDisconnected(s) PROVE WidgetBooks'
  BY <1>6, <1>2, <1>3 DEF OnDisconnected, Disconnected
<1>7. ASSUME NEW s \in WidgetCalls, OnError(s) PROVE WidgetBooks'
  BY <1>7, <1>2, <1>3 DEF OnError
<1>8. ASSUME NEW e \in Ends \cup {ClosingLine}, PressEnd(e) PROVE WidgetBooks'
  BY <1>8, <1>2, <1>3 DEF PressEnd
<1>9. ASSUME NEW e \in Ends \cup {ClosingLine}, EndStep(e) PROVE WidgetBooks'
  BY <1>2, <1>3, <1>1, <1>9 DEF BeginTeardown, DropClient, Disconnected, Settle, refs, server, EndStep
<1>10. CASE Unmount
  BY <1>10, <1>2, <1>3 DEF Unmount
<1>11. CASE DemoBlocked
  BY <1>11, <1>2, <1>3 DEF DemoBlocked
<1>12. CASE RecordTurn
  BY <1>12, TurnBooks
<1>13. ASSUME NEW m \in posts, FinalizeAnswered(m) PROVE WidgetBooks'
  BY <1>13, TurnsRest DEF FinalizeAnswered, server, WidgetInv, ClosingIsFlagged, Finalizes, RecordsAreMadeOnce,
     Recorded, DemoRecorded, WidgetTypeOK, WidgetBooks
<1>14. CASE UNCHANGED widgetVars
  BY <1>14, <1>1, <1>3 DEF widgetVars, refs, server
<1>15. CASE SomeAnswer
  BY <1>15, <1>13 DEF SomeAnswer
<1> QED
  BY <1>4, <1>5, <1>6, <1>7, <1>8, <1>9, <1>10, <1>11, <1>12, <1>14, <1>15 DEF WidgetNext

\* Every step keeps the types; the bound of the index comes from the turns it counts.
LEMMA StepWidgetType ==
    ASSUME WidgetInv, [WidgetNext]_widgetVars, WidgetBooks'
    PROVE  WidgetTypeOK'
PROOF
<1> DEFINE Typed ==
      /\ status \in {"idle", "requesting-mic", "connecting", "live", "ending", "error"}
      /\ clientRef \in WidgetCalls \cup {NoCall}
      /\ startAt \in [WidgetCalls -> {"ready", "mic", "track", "mint", "sdk", "connect", "demo-track", "demo",
                                      "failing", "done"}]
      /\ link \in [WidgetCalls -> {"none", "dialling", "up", "gone"}]
      /\ endAt \in [Ends \cup {ClosingLine} -> {"ready", "finalize", "teardown", "settle", "done"}]
<1>1. Typed
  BY DEF WidgetInv, WidgetTypeOK
<1>2. ASSUME NEW s \in WidgetCalls, PressCall(s) PROVE Typed'
  BY <1>1, <1>2 DEF PressCall, refs
<1>3. ASSUME NEW s \in WidgetCalls, StartStep(s) PROVE Typed'
  <2>1. CASE MicRefused(s)
    BY <1>1, <2>1 DEF MicRefused, refs
  <2>2. CASE MicGranted(s)
    BY <1>1, <2>2 DEF MicGranted
  <2>3. CASE TrackAnswered(s)
    BY <1>1, <2>3 DEF TrackAnswered
  <2>4. CASE TrackFails(s)
    BY <1>1, <2>4 DEF TrackFails, refs
  <2>5. CASE MintAnswered(s)
    BY <1>1, <2>5 DEF MintAnswered, refs
  <2>6. CASE MintUnavailable(s)
    BY <1>1, <2>6 DEF MintUnavailable
  <2>7. CASE StartFails(s)
    BY <1>1, <2>7 DEF StartFails
  <2>8. CASE ShowFailure(s)
    BY <1>1, <2>8 DEF ShowFailure, refs
  <2>9. CASE SdkLoaded(s)
    BY <1>1, <2>9 DEF SdkLoaded
  <2>10. CASE TransportLive(s)
    BY <1>1, <2>10 DEF TransportLive, refs
  <2>11. CASE DemoStarts(s)
    BY <1>1, <2>11 DEF DemoStarts
  <2>12. CASE TransportReady(s)
    BY <1>1, <2>12 DEF TransportReady, refs
  <2> QED
    BY <1>3, <2>1, <2>2, <2>3, <2>4, <2>5, <2>6, <2>7, <2>8, <2>9, <2>10, <2>11, <2>12 DEF StartStep
<1>4. ASSUME NEW s \in WidgetCalls, OnDisconnected(s) PROVE Typed'
  BY <1>1, <1>4 DEF OnDisconnected, Disconnected
<1>5. ASSUME NEW s \in WidgetCalls, OnError(s) PROVE Typed'
  BY <1>1, <1>5 DEF OnError
<1>6. ASSUME NEW e \in Ends \cup {ClosingLine}, PressEnd(e) PROVE Typed'
  BY <1>1, <1>6 DEF PressEnd
<1>7. ASSUME NEW e \in Ends \cup {ClosingLine}, EndStep(e) PROVE Typed'
  BY <1>1, <1>7 DEF BeginTeardown, DropClient, Disconnected, Settle, refs, EndStep
<1>8. ASSUME Unmount PROVE Typed'
  BY <1>1, <1>8 DEF Unmount
<1>9. ASSUME DemoBlocked PROVE Typed'
  BY <1>1, <1>9 DEF DemoBlocked
<1>10. ASSUME RecordTurn PROVE Typed'
  BY <1>1, <1>10 DEF RecordTurn
<1>11. ASSUME SomeAnswer PROVE Typed'
  BY <1>1, <1>11 DEF SomeAnswer, FinalizeAnswered
<1>12. ASSUME UNCHANGED widgetVars PROVE Typed'
  BY <1>1, <1>12 DEF widgetVars, refs
<1>13. Typed'
  BY <1>2, <1>3, <1>4, <1>5, <1>6, <1>7, <1>8, <1>9, <1>10, <1>11, <1>12 DEF WidgetNext
<1>14. callIdRef' \in CallRecords \cup {NoCall} /\ \A m \in posts' : m.call \in created'
  BY DEF WidgetBooks, ClosingIsFlagged
<1>15. turnIndexRef' \in 0..MaxWidgetTurns
  BY FS_CardinalityType, WidgetAssumption DEF WidgetBooks, IndexCountsTurns
<1> QED
  BY <1>13, <1>14, <1>15 DEF WidgetTypeOK

\* The widget at rest, before a press that is not over another one.
LEMMA RestIsQuiet ==
    ASSUME WidgetInv, ~pressedOver, ~AtWork
    PROVE  /\ \A s \in WidgetCalls : ~StartRuns(s) /\ link[s] # "dialling"
           /\ \A e \in Ends \cup {ClosingLine} : ~EndRuns(e)
           /\ posts = {}
           /\ UseForm
           /\ \A s \in WidgetCalls : StartForm(s)
           /\ \A e \in Ends \cup {ClosingLine} : EndForm(e)
PROOF
  BY DEF WidgetInv, Calm, AtWork, StartForm, StartRuns

\* A call is started over nothing: no record, no connection, no recognition is left.
LEMMA PressCallCalm ==
    ASSUME WidgetInv, NEW s \in WidgetCalls, PressCall(s)
    PROVE  Calm'
PROOF
<1> SUFFICES ASSUME ~pressedOver'
             PROVE  Calm'
  BY DEF Calm
<1> USE DEF WidgetInv
<1>1. startAt[s] = "ready" /\ Mounted /\ ~IsCallActive
  BY DEF PressCall
<1>2. CASE clientRef # NoCall
  <2>1. /\ startAt' = [startAt EXCEPT ![s] = "done"]
        /\ UNCHANGED <<status, pressedOver, refs, link, endAt, posts, server>>
    BY <1>2 DEF PressCall
  <2>2. \A x \in WidgetCalls : StartRuns(x)' = StartRuns(x) /\ (x # s => startAt'[x] = startAt[x])
    BY <2>1, <1>1 DEF StartRuns, WidgetTypeOK
  <2>3. ~pressedOver
    BY <2>1
  <2>4. \A x \in WidgetCalls : StartForm(x)'
    BY <2>1, <2>2, <2>3, <1>1 DEF Calm, StartForm, Finalizes, refs, Mounted, Active, WidgetTypeOK
  <2>5. \A e \in Ends \cup {ClosingLine} : EndForm(e)'
    BY <2>1, <2>2, <2>3 DEF Calm, EndForm, EndRuns, Finalizes, refs, Mounted, Active, NothingRuns
  <2>6. Starting' = Starting /\ \A x \in WidgetCalls : startAt[x] = "failing" => startAt'[x] = "failing"
    BY <2>1, <1>1 DEF Starting, WidgetTypeOK
  <2>7. UseForm'
    BY <2>1, <2>3, <2>6 DEF Calm, UseForm, Finalizes, refs, server, Mounted, Active
  <2> QED
    BY <2>1, <2>2, <2>3, <2>4, <2>5, <2>7 DEF Calm, EndRuns
<1>3. CASE clientRef = NoCall
  <2>1. /\ startAt' = [startAt EXCEPT ![s] = "mic"] /\ status' = "requesting-mic"
        /\ UNCHANGED <<refs, link, endAt, posts, server>> /\ ~pressedOver /\ ~AtWork
    BY <1>3 DEF PressCall
  <2>2. /\ \A x \in WidgetCalls : ~StartRuns(x) /\ link[x] # "dialling" /\ StartForm(x)
        /\ \A e \in Ends \cup {ClosingLine} : ~EndRuns(e) /\ EndForm(e)
        /\ posts = {} /\ UseForm
    BY <2>1, RestIsQuiet
  <2>3. ~demoOn /\ \A x \in WidgetCalls : ~Active(x)
    BY <1>1, <1>3, <2>2, WidgetAssumption DEF UseForm, IsCallActive
  <2>4. callIdRef = NoCall
    BY <2>2, <2>3 DEF UseForm, Finalizes, Starting, StartRuns, Active, ClosingIsFlagged
  <2>5. startAt'[s] = "mic" /\ \A x \in WidgetCalls : x # s => startAt'[x] = startAt[x]
    BY <2>1 DEF WidgetTypeOK
  <2>6. StartRuns(s)' /\ \A x \in WidgetCalls : x # s => ~StartRuns(x)'
    BY <2>2, <2>5 DEF StartRuns
  <2>7. \A x \in WidgetCalls : StartForm(x)'
    BY <2>1, <2>2, <2>3, <2>4, <2>5, <2>6, <1>1, <1>3 DEF StartForm, Finalizes, refs, Mounted, Active, StartRuns
  <2>8. \A e \in Ends \cup {ClosingLine} : ~EndRuns(e)' /\ EndForm(e)'
    BY <2>1, <2>2, <2>3, <1>1 DEF EndForm, EndRuns, Finalizes, refs, Mounted, Active, NothingRuns
  <2>9. UseForm'
    BY <2>1, <2>2, <2>3, <2>4 DEF UseForm, Finalizes, refs, server, Mounted, Active
  <2> QED
    BY <2>6, <2>7, <2>8, <2>9 DEF Calm
<1> QED
  BY <1>2, <1>3

\* A press of End over nothing closes the record in use.
LEMMA PressEndCalm ==
    ASSUME WidgetInv, NEW e \in Ends \cup {ClosingLine}, PressEnd(e)
    PROVE  Calm'
PROOF
<1> SUFFICES ASSUME ~pressedOver'
             PROVE  Calm'
  BY DEF Calm
<1> USE DEF WidgetInv
<1>1. /\ e \in Ends /\ endAt[e] = "ready" /\ Mounted /\ status' = "ending" /\ WidgetFinalize(e)
      /\ endAt' = [endAt EXCEPT ![e] = "finalize"]
      /\ UNCHANGED <<callIdRef, turnIndexRef, clientRef, demoOn, startAt, link, created, turns, overwritten>>
      /\ ~pressedOver /\ ~AtWork
  BY DEF PressEnd
<1>2. e # ClosingLine
  BY <1>1, WidgetAssumption
<1>3. /\ \A x \in WidgetCalls : ~StartRuns(x) /\ link[x] # "dialling" /\ StartForm(x)
      /\ \A x \in Ends \cup {ClosingLine} : ~EndRuns(x) /\ EndForm(x)
      /\ posts = {} /\ UseForm
  BY <1>1, RestIsQuiet
<1>4. /\ ~Finalizes' /\ (finalizedRef' \/ callIdRef = NoCall)
      /\ \A c \in CallRecords : closed[c] = 1 => closed'[c] = 1
      /\ Finalizes => closed'[callIdRef] = 1
  BY <1>1, FinalizeCloses
<1>5. endAt'[e] = "finalize" /\ \A x \in Ends \cup {ClosingLine} : x # e => endAt'[x] = endAt[x]
  BY <1>1 DEF WidgetTypeOK
<1>6. \A x \in WidgetCalls : ~StartRuns(x)' /\ StartForm(x)'
  BY <1>1, <1>3 DEF StartForm, StartRuns, Active
<1>7. Mounted' /\ \A x \in Ends \cup {ClosingLine} : x # e => ~EndRuns(x)'
  BY <1>1, <1>2, <1>3, <1>5 DEF EndRuns, Mounted
<1>8. \A x \in Ends \cup {ClosingLine} : EndForm(x)'
  BY <1>1, <1>2, <1>3, <1>4, <1>5, <1>6, <1>7 DEF EndForm, EndRuns, NothingRuns, Active
<1>9. \A c \in created : closed'[c] = 1
  BY <1>1, <1>3, <1>4, WidgetAssumption DEF UseForm, Finalizes, ClosingIsFlagged, CallRecords
<1>10. UseForm'
  BY <1>1, <1>3, <1>4, <1>7, <1>9 DEF UseForm, Active
<1> QED
  BY <1>6, <1>7, <1>8, <1>10 DEF Calm

\* Nothing is at work when the widget goes away, or the closing came over it.
LEMMA UnmountCalm ==
    ASSUME WidgetInv, Unmount
    PROVE  Calm'
PROOF
<1> SUFFICES ASSUME ~pressedOver'
             PROVE  Calm'
  BY DEF Calm
<1> USE DEF WidgetInv
<1>1. /\ Mounted /\ WidgetFinalize(ClosingLine)
      /\ endAt' = [endAt EXCEPT ![ClosingLine] = "teardown"]
      /\ UNCHANGED <<status, callIdRef, turnIndexRef, clientRef, demoOn, startAt, link, created, turns, overwritten>>
      /\ ~pressedOver /\ ~AtWork
  BY DEF Unmount
<1>2. /\ \A x \in WidgetCalls : ~StartRuns(x) /\ link[x] # "dialling" /\ StartForm(x)
      /\ \A x \in Ends \cup {ClosingLine} : ~EndRuns(x) /\ EndForm(x)
      /\ posts = {} /\ UseForm
  BY <1>1, RestIsQuiet
<1>3. /\ ~Finalizes' /\ (finalizedRef' \/ callIdRef = NoCall)
      /\ \A c \in CallRecords : closed[c] = 1 => closed'[c] = 1
      /\ Finalizes => closed'[callIdRef] = 1
  BY <1>1, FinalizeCloses
<1>4. endAt'[ClosingLine] = "teardown" /\ \A x \in Ends \cup {ClosingLine} : x # ClosingLine => endAt'[x] = endAt[x]
  BY <1>1 DEF WidgetTypeOK
<1>5. \A x \in WidgetCalls : ~StartRuns(x)' /\ StartForm(x)'
  BY <1>1, <1>2 DEF StartForm, StartRuns, Active
<1>6. ~Mounted' /\ \A x \in Ends \cup {ClosingLine} : x # ClosingLine => ~EndRuns(x)'
  BY <1>1, <1>2, <1>4 DEF EndRuns, Mounted
<1>7. \A x \in Ends \cup {ClosingLine} : EndForm(x)'
  BY <1>1, <1>2, <1>3, <1>4, <1>5, <1>6 DEF EndForm, EndRuns, NothingRuns, Active
<1>8. \A c \in created : closed'[c] = 1
  BY <1>1, <1>2, <1>3, WidgetAssumption DEF UseForm, Finalizes, ClosingIsFlagged, CallRecords
<1>9. UseForm'
  BY <1>1, <1>2, <1>3, <1>6, <1>8 DEF UseForm, Active
<1> QED
  BY <1>5, <1>6, <1>7, <1>9 DEF Calm

\* The rest of an end changes nothing but its connection and the panel: the record is closed already.
LEMMA EndStepCalm ==
    ASSUME WidgetInv, NEW e \in Ends \cup {ClosingLine}, EndStep(e)
    PROVE  Calm'
PROOF
<1> SUFFICES ASSUME ~pressedOver'
             PROVE  Calm'
  BY DEF Calm
<1> USE DEF WidgetInv
<1>1. ~pressedOver /\ EndRuns(e) /\ UNCHANGED <<callIdRef, turnIndexRef, startAt, created, turns, overwritten>>
  BY DEF EndStep, BeginTeardown, DropClient, Settle, EndRuns, refs, server
<1>2. /\ \A x \in WidgetCalls : StartForm(x)
      /\ \A x \in Ends \cup {ClosingLine} : EndForm(x)
      /\ UseForm
      /\ \A x \in Ends \cup {ClosingLine} : EndRuns(x) => x = e
  BY <1>1 DEF Calm
<1>3. ~Finalizes /\ (e # ClosingLine => Mounted) /\ \A x \in WidgetCalls : ~StartRuns(x) /\ link[x] # "dialling"
  BY <1>1, <1>2 DEF EndForm, StartForm, StartRuns
<1>4. PICK at \in {"teardown", "settle", "done"} : endAt' = [endAt EXCEPT ![e] = at]
  BY DEF EndStep, BeginTeardown, DropClient, Settle
<1>5. endAt'[e] = at /\ \A x \in Ends \cup {ClosingLine} : x # e => endAt'[x] = endAt[x]
  BY <1>4 DEF WidgetTypeOK
<1>6. Mounted' = Mounted /\ \A x \in Ends \cup {ClosingLine} : x # e => ~EndRuns(x)' /\ ~EndRuns(x)
  BY <1>1, <1>2, <1>5 DEF EndRuns, Mounted
<1>7. UNCHANGED <<finalizedRef, posts, closed>>
  BY <1>3 DEF EndStep, BeginTeardown, DropClient, Disconnected, Settle, WidgetFinalize, refs, server
<1>8. ~Finalizes' /\ Starting' = Starting
  BY <1>1, <1>3, <1>7 DEF Finalizes, Starting
<1>9. \/ UNCHANGED <<status, clientRef, demoOn, link>> /\ at = "teardown"
      \/ ~demoOn' /\ clientRef' = NoCall /\ (\A x \in WidgetCalls : ~Active(x)') /\ at = "settle"
         /\ status' \in {status, "idle"}
      \/ UNCHANGED <<clientRef, demoOn, link>> /\ at = "done" /\ endAt[e] = "settle" /\ status' \in {status, "idle"}
         /\ (e = ClosingLine \/ status' = "idle")
  <2>1. CASE BeginTeardown(e)
    BY <2>1, <1>5, WidgetTypeOK DEF BeginTeardown, WidgetTypeOK
  <2>2. CASE DropClient(e)
    <3>1. ~demoOn' /\ at = "settle"
      BY <2>2, <1>5 DEF DropClient, WidgetTypeOK
    <3>2. clientRef' = NoCall /\ status' \in {status, "idle"}
      BY <2>2 DEF DropClient, Disconnected
    <3>3. ASSUME NEW x \in WidgetCalls PROVE ~Active(x)'
      <4>1. CASE clientRef # NoCall /\ link[clientRef] = "up"
        BY <2>2, <4>1, <1>2 DEF DropClient, Disconnected, UseForm, Active, WidgetTypeOK
      <4>2. CASE ~(clientRef # NoCall /\ link[clientRef] = "up")
        BY <2>2, <4>2, <1>2, <1>3, WidgetAssumption DEF DropClient, UseForm, Active
      <4> QED
        BY <4>1, <4>2
    <3> QED
      BY <3>1, <3>2, <3>3
  <2>3. CASE Settle(e)
    BY <2>3, <1>5 DEF Settle, refs, WidgetTypeOK
  <2> QED
    BY <2>1, <2>2, <2>3 DEF EndStep
<1>10. \A x \in WidgetCalls : ~StartRuns(x)' /\ (Active(x)' => Active(x) /\ link[x] = "up" /\ link'[x] = "up")
  BY <1>1, <1>3, <1>9 DEF StartRuns, Active
<1>11. \A x \in WidgetCalls : StartForm(x)'
  BY <1>1, <1>2, <1>3, <1>10 DEF StartForm, StartRuns, Active
<1>12. endAt[e] = "settle" => NothingRuns
  BY <1>2 DEF EndForm
<1>13. at \in {"settle", "done"} => NothingRuns'
  BY <1>9, <1>12 DEF NothingRuns, Active
<1>14. NothingRuns => NothingRuns'
  BY <1>9, <1>10 DEF NothingRuns
<1>15. \A x \in Ends \cup {ClosingLine} : EndForm(x)'
  BY <1>1, <1>2, <1>3, <1>5, <1>6, <1>8, <1>10, <1>13, <1>14 DEF EndForm, EndRuns
<1>16. status' \in {status, "idle"} /\ (status' # status => \A x \in WidgetCalls : ~Active(x)')
  BY <1>9, <1>12, <1>13 DEF NothingRuns
<1>17. UseForm'
  BY <1>1, <1>2, <1>3, <1>6, <1>7, <1>8, <1>9, <1>10, <1>12, <1>16 DEF UseForm, Active, NothingRuns
<1> QED
  BY <1>6, <1>10, <1>11, <1>15, <1>17 DEF Calm

\* A start at work is the only function at work.
LEMMA StartsAlone ==
    ASSUME WidgetInv, ~pressedOver, NEW s \in WidgetCalls, StartRuns(s)
    PROVE  /\ Mounted /\ ~demoOn
           /\ \A x \in WidgetCalls : StartForm(x) /\ (x # s => ~StartRuns(x) /\ ~Active(x))
           /\ \A e \in Ends \cup {ClosingLine} : ~EndRuns(e) /\ EndForm(e)
           /\ startAt[s] # "connect" => ~Active(s) /\ clientRef = NoCall
           /\ UseForm
PROOF
  BY DEF WidgetInv, Calm, EndForm, StartForm, Active

\* What is left to show of a step of one start: its own form, and what keeps records, panel and
\* connection in use; the other functions stand where they stood.
LEMMA StartKeepsCalm ==
    ASSUME WidgetInv, ~pressedOver, NEW s \in WidgetCalls, StartRuns(s),
           NEW at, startAt' = [startAt EXCEPT ![s] = at],
           \A x \in WidgetCalls : x # s => link'[x] = link[x],
           UNCHANGED endAt, StartForm(s)', UseForm'
    PROVE  Calm'
PROOF
  BY StartsAlone DEF WidgetInv, WidgetTypeOK, Mounted, EndRuns, StartRuns, StartForm, Active, EndForm, Calm

\* Every await of startCall, with its failures.
LEMMA StartStepCalm ==
    ASSUME WidgetInv, NEW s \in WidgetCalls, StartStep(s)
    PROVE  Calm'
PROOF
<1> SUFFICES ASSUME ~pressedOver'
             PROVE  Calm'
  BY DEF Calm
<1> USE DEF WidgetInv
<1>1. ~pressedOver /\ UNCHANGED endAt
  BY DEF StartStep, MicRefused, MicGranted, TrackAnswered, TrackFails, MintAnswered, MintUnavailable, StartFails,
         ShowFailure, SdkLoaded, TransportLive, TransportReady, DemoStarts
<1>2. StartRuns(s)
  <2>1. CASE TransportLive(s)
    BY <1>1, <2>1 DEF TransportLive, Calm, StartForm, StartRuns
  <2>2. CASE ~TransportLive(s)
    BY <2>2 DEF StartStep, MicRefused, MicGranted, TrackAnswered, TrackFails, MintAnswered, MintUnavailable, StartFails,
         ShowFailure, SdkLoaded, TransportReady, DemoStarts, StartRuns
  <2> QED
    BY <2>1, <2>2
<1>3. /\ Mounted /\ ~demoOn
      /\ \A x \in WidgetCalls : StartForm(x) /\ (x # s => ~StartRuns(x) /\ ~Active(x))
      /\ startAt[s] # "connect" => ~Active(s) /\ clientRef = NoCall
      /\ UseForm
  BY <1>1, <1>2, StartsAlone
<1>4. StartForm(s) /\ Mounted'
  BY <1>1, <1>3 DEF Mounted
<1>5. startAt[s] \notin {"connect", "failing"} => status # "live"
  BY <1>2, <1>4 DEF StartForm
<1>6. ASSUME startAt[s] # "connect", UNCHANGED <<clientRef, demoOn, link>>
      PROVE  ~demoOn' /\ clientRef' = NoCall /\ \A x \in WidgetCalls : ~Active(x)' /\ link'[x] = link[x]
  BY <1>3, <1>6 DEF Active
<1>7. CASE MicRefused(s)
  BY <1>7, <1>4, <1>6, <1>3, <1>1, <1>2, StartKeepsCalm DEF MicRefused, WidgetTypeOK, StartForm, refs, StartRuns,
     Active, UseForm, Finalizes, server
<1>8. CASE MicGranted(s)
  <2>1. callIdRef = NoCall /\ startAt[s] = "mic" /\ posts = {}
    BY <1>8, <1>4 DEF MicGranted, StartForm
  <2>2. /\ startAt' = [startAt EXCEPT ![s] = "track"] /\ status' = "connecting"
        /\ UNCHANGED <<callIdRef, finalizedRef, turnIndexRef, clientRef, demoOn, link, posts, server>>
    BY <1>8, <2>1 DEF MicGranted
  <2>3. startAt'[s] = "track"
    BY <2>2 DEF WidgetTypeOK
  <2>4. ~demoOn' /\ clientRef' = NoCall /\ \A x \in WidgetCalls : ~Active(x)' /\ link'[x] = link[x]
    BY <2>1, <2>2, <1>6
  <2>5. StartForm(s)'
    BY <2>1, <2>2, <2>3, <2>4, <1>4 DEF StartForm, StartRuns, Active
  <2>6. UseForm'
    BY <2>1, <2>2, <2>4, <1>3 DEF UseForm, Finalizes, server, Active
  <2> QED
    BY <1>1, <1>2, <2>2, <2>4, <2>5, <2>6, StartKeepsCalm
<1>9. CASE TrackAnswered(s)
  <2>1. startAt[s] = "track" /\ callIdRef = NoCall /\ posts = {}
    BY <1>9, <1>4 DEF TrackAnswered, StartForm
  <2>2. /\ startAt' = [startAt EXCEPT ![s] = "mint"]
        /\ created' = created \cup {<<s, "call">>} /\ callIdRef' = <<s, "call">> /\ finalizedRef' = FALSE
        /\ UNCHANGED <<status, clientRef, demoOn, link, posts, closed>>
    BY <1>9, <2>1 DEF TrackAnswered, AdoptRecord
  <2>3. startAt'[s] = "mint" /\ Finalizes'
    BY WidgetAssumption, <2>2 DEF WidgetTypeOK, Finalizes
  <2>4. ~demoOn' /\ clientRef' = NoCall /\ \A x \in WidgetCalls : ~Active(x)' /\ link'[x] = link[x]
    BY <2>1, <2>2, <1>6
  <2>5. StartForm(s)'
    BY <2>1, <2>2, <2>3, <2>4, <1>2, <1>4 DEF StartForm, StartRuns, Active
  <2>6. \A c \in created : closed[c] = 1
    BY <2>1, <1>3, WidgetAssumption DEF UseForm, ClosingIsFlagged, CallRecords
  <2>7. UseForm'
    BY <2>1, <2>2, <2>3, <2>4, <2>6, <1>5 DEF UseForm, Starting, Active
  <2> QED
    BY <1>1, <1>2, <2>2, <2>4, <2>5, <2>7, StartKeepsCalm
<1>10. CASE TrackFails(s)
  BY <1>10, <1>4, <1>6, <1>3, <1>1, <1>2, StartKeepsCalm DEF TrackFails, StartForm, WidgetTypeOK, refs, StartRuns,
     Active, UseForm, Finalizes, server
<1>11. CASE MintAnswered(s) \/ MintUnavailable(s)
  <2>1. startAt[s] = "mint" /\ Finalizes /\ posts = {}
    BY <1>11, <1>4 DEF MintAnswered, MintUnavailable, StartForm
  <2>2. PICK at \in {"sdk", "demo"} : startAt' = [startAt EXCEPT ![s] = at]
    BY <1>11, <2>1 DEF MintAnswered, MintUnavailable, Finalizes
  <2>3. UNCHANGED <<status, callIdRef, finalizedRef, clientRef, demoOn, link, posts, server>>
    BY <1>11 DEF MintAnswered, MintUnavailable, ReuseRecord, refs
  <2>4. startAt'[s] \in {"sdk", "demo"}
    BY <2>2 DEF WidgetTypeOK
  <2>5. ~demoOn' /\ clientRef' = NoCall /\ \A x \in WidgetCalls : ~Active(x)' /\ link'[x] = link[x]
    BY <2>1, <2>3, <1>6
  <2>6. StartForm(s)'
    BY <2>1, <2>3, <2>4, <2>5, <1>2, <1>4 DEF StartForm, StartRuns, Active, Finalizes
  <2>7. UseForm'
    BY <2>1, <2>3, <2>4, <2>5, <1>3, <1>5 DEF UseForm, Finalizes, server, Active, Starting
  <2> QED
    BY <1>1, <1>2, <2>2, <2>5, <2>6, <2>7, StartKeepsCalm
<1>12. CASE StartFails(s)
  <2>1. /\ WidgetFinalize(s) /\ startAt' = [startAt EXCEPT ![s] = "failing"]
        /\ UNCHANGED <<status, callIdRef, demoOn, created>>
    BY <1>12 DEF StartFails
  <2>2. /\ ~Finalizes' /\ (finalizedRef' \/ callIdRef = NoCall)
        /\ \A c \in CallRecords : closed[c] = 1 => closed'[c] = 1
        /\ Finalizes => closed'[callIdRef] = 1
    BY <2>1, FinalizeCloses
  <2>3. clientRef' = NoCall /\ \A x \in WidgetCalls : ~Active(x)' /\ (x # s => link'[x] = link[x])
    <3>1. CASE startAt[s] = "connect"
      BY <1>12, <3>1, <1>3 DEF StartFails, Active, WidgetTypeOK
    <3>2. CASE startAt[s] # "connect"
      BY <1>12, <3>2, <2>1, <1>6 DEF StartFails
    <3> QED
      BY <3>1, <3>2
  <2>4. startAt'[s] = "failing"
    BY <2>1 DEF WidgetTypeOK
  <2>5. StartForm(s)'
    BY <2>1, <2>2, <2>3, <2>4, <1>2, <1>3, <1>4 DEF StartForm, StartRuns, Active
  <2>6. \A c \in created : closed'[c] = 1
    BY <2>2, <1>3, WidgetAssumption DEF UseForm, Finalizes, ClosingIsFlagged, CallRecords
  <2>7. UseForm'
    BY <2>1, <2>2, <2>3, <2>4, <2>6, <1>3 DEF UseForm, Active
  <2> QED
    BY <1>1, <1>2, <2>1, <2>3, <2>5, <2>7, StartKeepsCalm
<1>13. CASE ShowFailure(s)
  BY <1>13, <1>4, <1>6, <1>3, <1>1, <1>2, StartKeepsCalm DEF ShowFailure, WidgetTypeOK, StartForm, refs, StartRuns,
     Active, UseForm, Finalizes, server
<1>14. CASE SdkLoaded(s)
  <2>1. startAt[s] = "sdk" /\ Finalizes /\ posts = {}
    BY <1>14, <1>4 DEF SdkLoaded, StartForm
  <2>2. /\ startAt' = [startAt EXCEPT ![s] = "connect"] /\ clientRef' = s /\ link' = [link EXCEPT ![s] = "dialling"]
        /\ UNCHANGED <<status, callIdRef, finalizedRef, demoOn, posts, server>>
    BY <1>14 DEF SdkLoaded
  <2>3. /\ startAt'[s] = "connect" /\ link'[s] = "dialling" /\ Active(s)'
        /\ \A x \in WidgetCalls : x # s => link'[x] = link[x]
    BY <2>2 DEF WidgetTypeOK, Active
  <2>4. \A x \in WidgetCalls : Active(x)' => x = s
    BY <2>3, <1>3 DEF Active
  <2>5. \A x \in WidgetCalls : link'[x] # "up"
    BY <2>3, <1>3 DEF Active
  <2>6. StartForm(s)'
    BY <2>1, <2>2, <2>3, <2>4, <1>2, <1>3, <1>4 DEF StartForm, StartRuns, Finalizes
  <2>7. UseForm'
    BY <2>1, <2>2, <2>3, <2>4, <2>5, <1>3, <1>5 DEF UseForm, Finalizes, server, Starting
  <2> QED
    BY <1>1, <1>2, <2>2, <2>3, <2>6, <2>7, StartKeepsCalm
<1>15. CASE TransportLive(s) \/ TransportReady(s)
  <2>1. startAt[s] = "connect" /\ Active(s) /\ Finalizes /\ posts = {} /\ clientRef = s
    BY <1>15, <1>3, <1>4 DEF TransportLive, TransportReady, StartForm, UseForm, Active
  <2>2. PICK at \in {"connect", "done"} : startAt' = [startAt EXCEPT ![s] = at]
    <3>1. CASE TransportLive(s)
      <4>1. startAt' = [startAt EXCEPT ![s] = "connect"]
        BY <3>1, <2>1 DEF TransportLive, WidgetTypeOK
      <4> QED
        BY <4>1
    <3>2. CASE TransportReady(s)
      BY <3>2 DEF TransportReady
    <3> QED
      BY <1>15, <3>1, <3>2
  <2>3. status' = "live" /\ link' = [link EXCEPT ![s] = "up"] /\ UNCHANGED <<refs, posts, server>>
    BY <1>15 DEF TransportLive, TransportReady, WidgetTypeOK
  <2>4. startAt'[s] = at /\ link'[s] = "up" /\ \A x \in WidgetCalls : x # s => link'[x] = link[x]
    BY <2>2, <2>3 DEF WidgetTypeOK
  <2>5. Active(s)' /\ \A x \in WidgetCalls : Active(x)' => x = s
    BY <2>4, <1>3 DEF Active
  <2>6. Finalizes' /\ clientRef' = s
    BY <2>1, <2>3 DEF Finalizes, refs
  <2>7. StartForm(s)'
    BY <2>1, <2>2, <2>3, <2>4, <2>5, <2>6, <1>3, <1>4 DEF StartForm, StartRuns, refs
  <2>8. UseForm'
    BY <2>1, <2>3, <2>4, <2>5, <2>6, <1>3 DEF UseForm, refs, server
  <2> QED
    BY <1>1, <1>2, <2>2, <2>4, <2>7, <2>8, StartKeepsCalm
<1>16. CASE DemoStarts(s)
  BY <1>16, <1>3, <1>4, <1>1, <1>2, StartKeepsCalm DEF DemoStarts, StartForm, WidgetTypeOK, Active, StartRuns,
     UseForm, Finalizes, server
<1>17. CASE TrackAnswered(s) \/ TrackFails(s)
  BY <1>17, <1>9, <1>10
<1> QED
  BY <1>7, <1>8, <1>11, <1>12, <1>13, <1>14, <1>15, <1>16, <1>17 DEF StartStep

\* A callback finalizes the record in use, and leaves at most a connection that is up already; no start
\* is at work, and an end that is has nothing open.
LEMMA CallbackCalm ==
    ASSUME WidgetInv, ~pressedOver, \A x \in WidgetCalls : ~StartRuns(x),
           WidgetFinalize("callback"), UNCHANGED <<callIdRef, startAt, endAt, created>>,
           \A x \in WidgetCalls : Active(x)' => Active(x) /\ link'[x] = link[x] /\ clientRef' = x,
           demoOn' => demoOn /\ clientRef' = NoCall /\ status' = status,
           status' \in {"idle", "error"},
           status' = "idle" => \A x \in WidgetCalls : ~Active(x)'
    PROVE  Calm'
PROOF
<1> USE DEF WidgetInv
<1>1. /\ \A x \in WidgetCalls : StartForm(x)
      /\ \A e \in Ends \cup {ClosingLine} : EndForm(e)
      /\ UseForm
      /\ \A x, y \in Ends \cup {ClosingLine} : EndRuns(x) /\ EndRuns(y) => x = y
  BY DEF Calm
<1>2. /\ ~Finalizes' /\ (finalizedRef' \/ callIdRef = NoCall)
      /\ \A c \in CallRecords : closed[c] = 1 => closed'[c] = 1
      /\ Finalizes => closed'[callIdRef] = 1
  BY FinalizeCloses
<1>3. \A x \in WidgetCalls : startAt[x] # "connect" /\ link[x] # "dialling" /\ ~StartRuns(x)'
  BY <1>1 DEF StartForm, StartRuns
<1>4. \A x \in WidgetCalls : StartForm(x)'
  BY <1>1, <1>3 DEF StartForm, StartRuns, Active
<1>5. Mounted' = Mounted /\ \A e \in Ends \cup {ClosingLine} : EndRuns(e)' = EndRuns(e)
  BY DEF Mounted, EndRuns
<1>6. NothingRuns => NothingRuns'
  BY DEF NothingRuns
<1>7. \A e \in Ends \cup {ClosingLine} : EndForm(e)'
  BY <1>1, <1>2, <1>3, <1>5, <1>6 DEF EndForm
<1>8. \A c \in created : closed'[c] = 1
  BY <1>1, <1>2, WidgetAssumption DEF UseForm, Finalizes, ClosingIsFlagged, CallRecords
<1>9. UseForm'
  BY <1>1, <1>2, <1>5, <1>8 DEF UseForm, Active
<1> QED
  BY <1>1, <1>3, <1>4, <1>5, <1>7, <1>9 DEF Calm

\* The runtime hangs up while client.connect() is still under way: what it was made for is closed.
LEMMA EarlyDisconnectCalm ==
    ASSUME WidgetInv, ~pressedOver, NEW s \in WidgetCalls, OnDisconnected(s), startAt[s] = "connect"
    PROVE  Calm'
PROOF
<1> USE DEF WidgetInv
<1>1. /\ WidgetFinalize("callback") /\ link' = [link EXCEPT ![s] = "gone"] /\ clientRef' = NoCall
      /\ status' = "idle" /\ UNCHANGED <<callIdRef, demoOn, startAt, endAt, created>>
  BY DEF OnDisconnected, Disconnected
<1>2. StartRuns(s)
  BY DEF StartRuns
<1>3. /\ Mounted /\ ~demoOn /\ StartForm(s) /\ UseForm
      /\ \A x \in WidgetCalls : x # s => ~StartRuns(x) /\ ~Active(x)
  BY <1>2, StartsAlone
<1>4. /\ ~Finalizes' /\ (finalizedRef' \/ callIdRef = NoCall)
      /\ \A c \in CallRecords : closed[c] = 1 => closed'[c] = 1
      /\ Finalizes => closed'[callIdRef] = 1
  BY <1>1, FinalizeCloses
<1>5. link'[s] = "gone" /\ \A x \in WidgetCalls : ~Active(x)' /\ (x # s => link'[x] = link[x])
  BY <1>1, <1>3 DEF Active, WidgetTypeOK
<1>6. \A c \in created : closed'[c] = 1
  BY <1>3, <1>4, WidgetAssumption DEF UseForm, Finalizes, ClosingIsFlagged, CallRecords
<1>7. StartForm(s)'
  BY <1>1, <1>3, <1>4, <1>5 DEF StartForm, StartRuns, Mounted
<1>8. UseForm'
  BY <1>1, <1>3, <1>4, <1>5, <1>6 DEF UseForm, Active
<1>9. startAt' = [startAt EXCEPT ![s] = "connect"]
  BY <1>1 DEF WidgetTypeOK
<1> QED
  BY <1>1, <1>2, <1>5, <1>7, <1>8, <1>9, StartKeepsCalm

\* What ends a call without a press: the runtime hangs up, the transport or the recognition fails.
LEMMA CallbacksCalm ==
    ASSUME WidgetInv, (\E s \in WidgetCalls : OnDisconnected(s) \/ OnError(s)) \/ DemoBlocked
    PROVE  Calm'
PROOF
<1> SUFFICES ASSUME ~pressedOver'
             PROVE  Calm'
  BY DEF Calm
<1> USE DEF WidgetInv
<1>1. ASSUME NEW s \in WidgetCalls, OnDisconnected(s) \/ OnError(s) PROVE Calm'
  <2>1. ~pressedOver /\ (OnError(s) => startAt[s] # "connect")
    <3>1. CASE OnDisconnected(s)
      BY <3>1 DEF OnDisconnected, OnError
    <3>2. CASE OnError(s)
      BY <3>2 DEF OnError
    <3> QED
      BY <1>1, <3>1, <3>2
  <2>2. /\ \A x \in WidgetCalls : StartForm(x)
        /\ UseForm
    BY <2>1 DEF Calm
  <2> SUFFICES ASSUME startAt[s] # "connect" PROVE Calm'
    BY <1>1, <2>1, EarlyDisconnectCalm
  <2>3. link[s] = "up" /\ \A x \in WidgetCalls : ~StartRuns(x)
    <3>1. link[s] = "up"
      BY <1>1, <2>2 DEF OnDisconnected, OnError, StartForm
    <3> QED
      BY <3>1, <2>2 DEF StartForm, Active
  <2>4. clientRef = s /\ ~demoOn /\ \A x \in WidgetCalls : Active(x) => x = s
    BY <2>2, <2>3, WidgetAssumption DEF UseForm, Active
  <2>5. CASE OnDisconnected(s)
    BY <2>5, <2>4, <2>1, <2>3, CallbackCalm DEF OnDisconnected, Disconnected, Active, WidgetTypeOK
  <2>6. CASE OnError(s)
    BY <2>6, <2>1, <2>3, <2>4, CallbackCalm DEF OnError, Active
  <2> QED
    BY <1>1, <2>5, <2>6
<1>2. ASSUME DemoBlocked PROVE Calm'
  BY <1>2, WidgetAssumption, CallbackCalm DEF DemoBlocked, Calm, StartForm, UseForm, Active
<1> QED
  BY <1>1, <1>2

\* A turn or an answer changes nothing that the functions at work rely on.
LEMMA PassingCalm ==
    ASSUME WidgetInv, RecordTurn \/ SomeAnswer \/ UNCHANGED widgetVars
    PROVE  Calm'
PROOF
<1> SUFFICES ASSUME ~pressedOver'
             PROVE  Calm'
  BY DEF Calm
<1> USE DEF WidgetInv
<1>1. /\ ~pressedOver
      /\ UNCHANGED <<status, finalizedRef, clientRef, demoOn, startAt, link, endAt, created, closed>>
  BY DEF RecordTurn, SomeAnswer, FinalizeAnswered, widgetVars, refs, server
<1>2. /\ \A x, y \in WidgetCalls : StartRuns(x) /\ StartRuns(y) => x = y
      /\ \A x, y \in Ends \cup {ClosingLine} : EndRuns(x) /\ EndRuns(y) => x = y
      /\ \A s \in WidgetCalls : StartForm(s)
      /\ \A e \in Ends \cup {ClosingLine} : EndForm(e)
      /\ UseForm
  BY <1>1 DEF Calm
<1>3. CASE UNCHANGED <<callIdRef, posts>>
  <2>1. \A s \in WidgetCalls : StartForm(s)' /\ StartRuns(s)' = StartRuns(s)
    BY <1>1, <1>2, <1>3 DEF StartForm, StartRuns, Finalizes, Mounted, Active
  <2>2. \A e \in Ends \cup {ClosingLine} : EndForm(e)' /\ EndRuns(e)' = EndRuns(e)
    BY <1>1, <1>2, <1>3, <2>1 DEF EndForm, EndRuns, Finalizes, Mounted, Active, NothingRuns
  <2>3. UseForm'
    BY <1>1, <1>2, <1>3 DEF UseForm, Finalizes, Mounted, Active, Starting
  <2> QED
    BY <1>2, <2>1, <2>2, <2>3 DEF Calm
<1>4. CASE SomeAnswer
  <2>1. posts # {} /\ callIdRef' = NoCall
    BY <1>4 DEF SomeAnswer, FinalizeAnswered
  <2>2. ~Finalizes /\ ~Finalizes'
    BY <1>2, <2>1 DEF UseForm, Finalizes
  <2>3. \A s \in WidgetCalls : StartForm(s)' /\ StartRuns(s)' = StartRuns(s)
    BY <1>1, <1>2, <2>1, <2>2 DEF StartForm, StartRuns, Mounted, Active
  <2>4. \A e \in Ends \cup {ClosingLine} : EndForm(e)' /\ EndRuns(e)' = EndRuns(e)
    BY <1>1, <1>2, <2>1, <2>2, <2>3 DEF EndForm, EndRuns, Mounted, Active, NothingRuns
  <2>5. \A c \in created : closed[c] = 1
    BY <1>2, <2>2, WidgetAssumption DEF UseForm, Finalizes, ClosingIsFlagged, CallRecords
  <2>6. UseForm'
    BY <1>1, <1>2, <2>1, <2>2, <2>5 DEF UseForm, Mounted, Active
  <2> QED
    BY <1>2, <2>3, <2>4, <2>6 DEF Calm
<1> QED
  BY <1>3, <1>4 DEF RecordTurn, widgetVars, refs

\* Every step of the widget keeps the invariant.
LEMMA StepWidgetInv ==
    ASSUME WidgetInv, [WidgetNext]_widgetVars
    PROVE  WidgetInv'
PROOF
<1>1. WidgetBooks'
  BY StepBooks
<1>2. WidgetTypeOK'
  BY <1>1, StepWidgetType
<1>3. Calm'
  BY PressCallCalm, StartStepCalm, PressEndCalm, EndStepCalm, UnmountCalm, CallbacksCalm, PassingCalm DEF WidgetNext
<1> QED
  BY <1>1, <1>2, <1>3 DEF WidgetBooks, WidgetInv

\* At rest the invariant is what the visitor counts on.
LEMMA InvIsKept == WidgetInv => WidgetInvariant
PROOF
<1> SUFFICES ASSUME WidgetInv PROVE WidgetInvariant
  OBVIOUS
<1>1. WidgetTypeOK /\ ClosedAtMostOnce /\ TurnsKeepTheirIndex
  BY DEF WidgetInv, ClosingIsFlagged, IndexCountsTurns, ClosedAtMostOnce, TurnsKeepTheirIndex
<1>2. ASSUME ~pressedOver, ~AtWork
      PROVE  /\ ~demoOn /\ (\A s \in WidgetCalls : link[s] # "up") => \A c \in created : closed[c] = 1
             /\ Mounted /\ status = "live" => callIdRef # NoCall /\ ~finalizedRef
             /\ status = "idle" \/ ~Mounted => ~demoOn /\ \A s \in WidgetCalls : link[s] # "up"
  <2>1. /\ \A s \in WidgetCalls : ~StartRuns(s)
        /\ UseForm
        /\ EndForm(ClosingLine) /\ ~EndRuns(ClosingLine)
    BY <1>2, RestIsQuiet
  <2>2. ~Starting
    BY <2>1 DEF Starting, StartRuns
  <2>3. ~demoOn /\ (\A s \in WidgetCalls : link[s] # "up") => \A c \in created : closed[c] = 1
    BY <2>1, <2>2, WidgetAssumption DEF UseForm, Finalizes, WidgetInv, ClosingIsFlagged, CallRecords
  <2>4. Mounted /\ status = "live" => callIdRef # NoCall /\ ~finalizedRef
    BY <2>1 DEF UseForm, Finalizes, StartRuns
  <2>5. ~Mounted => NothingRuns
    BY <2>1 DEF EndForm, EndRuns, Mounted
  <2>6. status = "idle" \/ ~Mounted => ~demoOn /\ \A s \in WidgetCalls : link[s] # "up"
    BY <2>1, <2>5 DEF UseForm, NothingRuns, Active
  <2> QED
    BY <2>3, <2>4, <2>6
<1> QED
  BY <1>1, <1>2 DEF WidgetInvariant, RestIsClean

\* Whatever the visitor presses, and in whatever order callbacks and answers come, a call record of the
\* widget (use-voice-call.ts) is closed at most once and its turns keep their index; and while no press
\* came over an unfinished one, a widget at rest has closed what it opened and holds no microphone.
THEOREM WidgetIsSound == WidgetSpec => []WidgetInvariant
PROOF
<1>1. WidgetInit => WidgetInv
  BY WidgetInitInv
<1>2. WidgetInv /\ [WidgetNext]_widgetVars => WidgetInv'
  BY StepWidgetInv
<1>3. WidgetInv => WidgetInvariant
  BY InvIsKept
<1> QED
  BY <1>1, <1>2, <1>3, PTL DEF WidgetSpec

=============================================================================
