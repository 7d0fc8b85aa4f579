--------------------------- MODULE LegacyApiProofs ---------------------------
(***************************************************************************)
(* Proofs about the NestJS API in one run, for any messages, deliveries,   *)
(* change requests, jobs and entries: no step undoes finished work.        *)
(***************************************************************************)
EXTENDS MCLegacyApi, TLAPS, WellFoundedInduction, FiniteSetTheorems

-----------------------------------------------------------------------------
(* Sets with one member at most, and least numbers.                          *)

\* A set without two members has one at most.
LEMMA AtMostOne ==
    ASSUME NEW S, \A x, y \in S : x = y
    PROVE  Cardinality(S) <= 1
PROOF
<1>1. CASE S = {}
  BY <1>1, FS_EmptySet
<1>2. CASE S # {}
  BY <1>2, FS_Singleton
<1> QED
  BY <1>1, <1>2

\* Some numbers have a least one among them.
LEMMA LeastOf ==
    ASSUME NEW set \in SUBSET Nat, set # {}
    PROVE  \E i \in set : \A k \in set : i <= k
PROOF
<1>1. \E i \in set : \A k \in set : <<k, i>> \notin OpToRel(<, Nat)
  BY NatLessThanWellFounded, WFMin
<1>2. PICK i \in set : \A k \in set : <<k, i>> \notin OpToRel(<, Nat)
  BY <1>1
<1>3. \A k \in set : k \in Nat /\ i \in Nat /\ ~(k < i)
  BY <1>2 DEF OpToRel
<1> QED
  BY <1>3

-----------------------------------------------------------------------------
(* The intake: what a delivery has seen of a ticket.                         *)

HookPc == {"idle", "begin", "next", "detail", "reopen", "exists", "reply", "ticket", "ping", "result", "score",
           "send", "done", "failed"}
Hook == [pc : HookPc, batch : Seq(CustMsgs), at : Nat, seen : LTickets \cup {NoTicket}, fresh : BOOLEAN,
         reply : LReplies \cup {NoMsg}]
ThreadRow == [known : BOOLEAN, ticket : LTickets \cup {NoTicket}, confidence : CustMsgs \cup {NoMsg},
              autoQa : CustMsgs \cup {NoMsg}, csat : CustMsgs \cup {NoMsg}]
DeskRequest == [pc : {"idle", "take", "attach"}, ticket : LTickets \cup {NoTicket}, thread : Threads \cup {NoMsg}]

\* A delivery stands at a message of its batch, has seen saved tickets only, and what it read of a ticket
\* to reopen is so as long as the version is the one it read.
HookSound(k, tickets) ==
    /\ k \in Hook
    /\ k.pc \notin {"idle", "done", "failed"} => k.at \in 1 .. Len(k.batch)
    /\ k.seen # NoTicket => tickets[k.seen] # NoTicket
    /\ k.pc \in {"detail", "reopen", "ping"} => k.seen # NoTicket
    /\ k.pc = "reopen" /\ k.fresh = TRUE => tickets[k.seen].status = "resolved"

InboxInv ==
    /\ tix \in [LTickets -> TicketRow \cup {NoTicket}]
    /\ thread \in [Threads -> ThreadRow]
    /\ \A c \in Threads : thread[c].ticket # NoTicket => Saved(thread[c].ticket)
    /\ hook \in [Hooks -> Hook]
    /\ \A h \in Hooks : HookSound(hook[h], tix)
    /\ deskJob \in [DeskJobs -> DeskRequest]
    /\ \A d \in DeskJobs : /\ deskJob[d].ticket # NoTicket => Saved(deskJob[d].ticket)
                           /\ deskJob[d].pc # "idle" => deskJob[d].thread \in Threads

-----------------------------------------------------------------------------
(* Change requests: what a publication knows at each of its transactions.    *)

LkJob == {NoJob} \cup [pc : {"accepted"}, on : ChangeAsks]
           \cup [pc : {"drafted", "live"}, on : ChangeAsks, art : Articles]
           \cup [pc : {"event"}, on : ChangeAsks, type : {"submitted", "published"} \cup ReviewStates]
           \cup [pc : {"reviewing"}, on : ChangeAsks, to : ReviewStates]
           \cup [pc : {"toSuggest"}, on : Escalated]

PublicationKnows ==
    \A j \in LkJobs :
        /\ lkJob[j].pc \in {"accepted", "drafted", "live", "event", "reviewing"} => ask[lkJob[j].on] # NoArticle
        /\ lkJob[j].pc \in {"drafted", "live"} =>
             article[lkJob[j].art] # NoArticle /\ ask[lkJob[j].on].target \in {NoArticle, lkJob[j].art}

LkInv == /\ article \in [Articles -> Article \cup {NoArticle}]
         /\ ask \in [ChangeAsks -> Ask \cup {NoArticle}]
         /\ lkJob \in [LkJobs -> LkJob]
         /\ PublicationKnows

-----------------------------------------------------------------------------
(* Entries: what a run has behind it exists.                                 *)

DoneIsMade ==
    \A m \in Makers : \A o \in maker[m].batch : o \in maker[m].left \/ o = maker[m].create \/ MadeFrom(o) # {}

EntriesInv ==
    /\ EntriesTypeOK
    /\ \A e \in Entries : wordings[e] # "none" \/ reread[e] # "none" => entry[e] # NoEntry
    /\ DoneIsMade

-----------------------------------------------------------------------------
(* The intake keeps its invariant.                                           *)

LEMMA InboxInitInv == InboxInit => InboxInv
PROOF
  BY DEF InboxInit, IdleHook, Hook, HookPc, HookSound, IdleDesk, DeskRequest, ThreadRow, InboxInv, Saved

\* Saved tickets stay saved, and but for those in ts their statuses stay.
TicketsStay(ts) ==
    \A t \in LTickets : Saved(t) => tix'[t] # NoTicket /\ (t \notin ts => tix'[t].status = tix[t].status)

LEMMA HookStaysSound ==
    ASSUME NEW k, HookSound(k, tix), NEW ts, TicketsStay(ts),
           k.seen \in ts => k.pc # "reopen" \/ k.fresh # TRUE
    PROVE  HookSound(k, tix')
PROOF
  BY DEF HookSound, TicketsStay, Saved, Hook

\* A delivery moves on to a state that is sound, other deliveries stay sound.
LEMMA HookMoves ==
    ASSUME InboxInv, NEW h \in Hooks, NEW k, HookSound(k, tix'), TicketsStay({}),
           hook' = [hook EXCEPT ![h] = k]
    PROVE  hook' \in [Hooks -> Hook] /\ \A g \in Hooks : HookSound(hook'[g], tix')
PROOF
  BY HookStaysSound DEF HookSound, InboxInv

\* Deliveries that do not touch a ticket or a link, but for the parts of the row they fill.
LEMMA HookAlone ==
    ASSUME InboxInv, NEW h \in Hooks, NEW k, HookSound(k, tix), hook' = [hook EXCEPT ![h] = k],
           UNCHANGED <<tix, deskJob>>, thread' \in [Threads -> ThreadRow],
           \A c \in Threads : thread'[c].ticket # NoTicket => Saved(thread'[c].ticket)
    PROVE  InboxInv'
PROOF
  BY HookMoves DEF TicketsStay, Saved, InboxInv

\* The message a delivery stands at, and its conversation.
LEMMA MessageAtHand ==
    ASSUME InboxInv, NEW h \in Hooks, hook[h].pc \notin {"idle", "done", "failed"}
    PROVE  Msg(h) \in CustMsgs /\ Th(h) \in Threads
PROOF
  BY InboxAssumption DEF InboxInv, HookSound, Hook, Msg, Th

\* What holds of a delivery, spelled out.
LEMMA HookHas ==
    ASSUME InboxInv, NEW h \in Hooks
    PROVE  /\ hook[h] \in Hook
           /\ hook[h].pc \notin {"idle", "done", "failed"} => hook[h].at \in 1 .. Len(hook[h].batch)
           /\ hook[h].seen # NoTicket => hook[h].seen \in LTickets /\ tix[hook[h].seen] \in TicketRow
           /\ hook[h].pc \in {"detail", "reopen", "ping"} => hook[h].seen # NoTicket
           /\ hook[h].pc = "reopen" /\ hook[h].fresh = TRUE => tix[hook[h].seen].status = "resolved"
PROOF
  BY DEF InboxInv, HookSound, Hook

\* A delivery at another statement: nothing of it changes but where it stands.
LEMMA StepsOn ==
    ASSUME InboxInv, NEW h \in Hooks, hook[h].pc \notin {"idle", "done", "failed"},
           NEW pc \in HookPc \ {"idle", "detail", "reopen", "ping"}, NEW tickets,
           hook[h].seen # NoTicket => tickets[hook[h].seen] # NoTicket
    PROVE  /\ [hook[h] EXCEPT !.pc = pc] \in Hook
           /\ HookSound([hook[h] EXCEPT !.pc = pc], tickets)
PROOF
<1> DEFINE k == [hook[h] EXCEPT !.pc = pc]
<1>1. /\ k \in Hook /\ k.pc = pc /\ k.batch = hook[h].batch /\ k.at = hook[h].at /\ k.seen = hook[h].seen
  BY HookHas DEF Hook
<1> HIDE DEF k
<1>2. HookSound(k, tickets)
  BY <1>1, HookHas DEF HookSound
<1> QED
  BY <1>1, <1>2 DEF k

\* A row of a conversation of which one part is written stays a row, its link a saved ticket.
LEMMA RowWritten ==
    ASSUME InboxInv, NEW c \in Threads, NEW row \in ThreadRow, row.ticket # NoTicket => Saved(row.ticket)
    PROVE  /\ [thread EXCEPT ![c] = row] \in [Threads -> ThreadRow]
           /\ \A x \in Threads : [thread EXCEPT ![c] = row][x].ticket # NoTicket
                                    => Saved([thread EXCEPT ![c] = row][x].ticket)
PROOF
  BY DEF InboxInv

\* A delivery at the start of a message, or at the end of its batch.
LEMMA Fresh ==
    ASSUME NEW b \in Seq(CustMsgs), NEW n \in Nat, NEW pc \in {"begin", "done", "failed"}, NEW tickets,
           pc = "begin" => n \in 1 .. Len(b)
    PROVE  HookSound([IdleHook EXCEPT !.pc = pc, !.batch = b, !.at = n], tickets)
PROOF
<1> DEFINE k == [IdleHook EXCEPT !.pc = pc, !.batch = b, !.at = n]
<1>1. IdleHook \in Hook /\ IdleHook.seen = NoTicket
  BY DEF IdleHook, Hook, HookPc
<1>2. k \in Hook /\ k.pc = pc /\ k.batch = b /\ k.at = n /\ k.seen = NoTicket
  BY <1>1 DEF Hook, HookPc
<1> HIDE DEF k
<1>3. HookSound(k, tickets)
  BY <1>2 DEF HookSound
<1> QED
  BY <1>3 DEF k

\* A delivery that stopped, whatever of its batch it still knows.
LEMMA Stopped ==
    ASSUME NEW k \in Hook, k.pc \in {"idle", "done", "failed"}, k.seen = NoTicket, NEW tickets
    PROVE  HookSound(k, tickets)
PROOF
  BY DEF HookSound

LEMMA ReceiveKeeps ==
    ASSUME InboxInv, NEW h \in Hooks, NEW b \in Batches, ReceiveDelivery(h, b)
    PROVE  InboxInv'
PROOF
<1> DEFINE k == [IdleHook EXCEPT !.pc = "begin", !.batch = b, !.at = 1]
<1>1. hook' = [hook EXCEPT ![h] = k] /\ UNCHANGED <<tix, thread, deskJob>>
  BY DEF ReceiveDelivery
<1>2. b \in Seq(CustMsgs) /\ b # << >>
  BY InboxAssumption
<1>3. 1 \in 1 .. Len(b)
  BY <1>2
<1>4. HookSound(k, tix)
  BY <1>2, <1>3, Fresh
<1> QED
  BY <1>1, <1>4, HookAlone DEF InboxInv, Saved

LEMMA NextKeeps ==
    ASSUME InboxInv, NEW h \in Hooks, NextMessage(h)
    PROVE  InboxInv'
PROOF
<1>1. UNCHANGED <<tix, thread, deskJob>> /\ hook[h].pc = "next"
  BY DEF NextMessage
<1>2. hook[h].batch \in Seq(CustMsgs) /\ hook[h].at \in 1 .. Len(hook[h].batch)
  BY <1>1, HookHas DEF Hook
<1>3. CASE hook[h].at < Len(hook[h].batch)
  <2> DEFINE k == [IdleHook EXCEPT !.pc = "begin", !.batch = hook[h].batch, !.at = hook[h].at + 1]
  <2>1. hook' = [hook EXCEPT ![h] = k]
    BY <1>3 DEF NextMessage
  <2>2. Len(hook[h].batch) \in Nat
    BY <1>2
  <2>3. hook[h].at + 1 \in 1 .. Len(hook[h].batch) /\ hook[h].at + 1 \in Nat
    BY ONLY <1>2, <1>3, <2>2
  <2>4. HookSound(k, tix)
    BY <1>2, <2>3, Fresh
  <2> QED
    BY <1>1, <2>1, <2>4, HookAlone DEF InboxInv, Saved
<1>4. CASE ~(hook[h].at < Len(hook[h].batch))
  <2> DEFINE k == [IdleHook EXCEPT !.pc = "done", !.batch = hook[h].batch]
  <2>1. hook' = [hook EXCEPT ![h] = k]
    BY <1>4 DEF NextMessage
  <2>2. IdleHook \in Hook /\ IdleHook.seen = NoTicket
    BY DEF IdleHook, Hook, HookPc
  <2>3. k \in Hook /\ k.pc = "done" /\ k.seen = NoTicket
    BY <1>2, <2>2 DEF Hook, HookPc
  <2> HIDE DEF k
  <2>4. HookSound(k, tix)
    BY <2>3, Stopped
  <2> QED
    BY <1>1, <2>1, <2>4, HookAlone DEF InboxInv, Saved
<1> QED
  BY <1>3, <1>4

LEMMA FailsKeeps ==
    ASSUME InboxInv, NEW h \in Hooks, DeliveryFails(h)
    PROVE  InboxInv'
PROOF
<1> DEFINE k == [IdleHook EXCEPT !.pc = "failed"]
<1>1. hook' = [hook EXCEPT ![h] = k] /\ UNCHANGED <<tix, thread, deskJob>>
  BY DEF DeliveryFails
<1>2. IdleHook \in Hook /\ IdleHook.seen = NoTicket
  BY DEF IdleHook, Hook, HookPc
<1>3. k \in Hook /\ k.pc = "failed" /\ k.seen = NoTicket
  BY <1>2 DEF Hook, HookPc
<1> HIDE DEF k
<1>4. HookSound(k, tix)
  BY <1>3, Stopped
<1> QED
  BY <1>1, <1>4, HookAlone DEF InboxInv, Saved

LEMMA CsatKeeps ==
    ASSUME InboxInv, NEW h \in Hooks, CaptureCsat(h)
    PROVE  InboxInv'
PROOF
<1>1. hook[h].pc = "begin" /\ UNCHANGED <<tix, deskJob>>
  BY DEF CaptureCsat
<1>2. Msg(h) \in CustMsgs /\ Th(h) \in Threads
  BY <1>1, MessageAtHand
<1> DEFINE row == [thread[Th(h)] EXCEPT !.csat = Msg(h)]
           k == [hook[h] EXCEPT !.pc = "next"]
<1>3. thread' \in {thread, [thread EXCEPT ![Th(h)] = row]} /\ hook' = [hook EXCEPT ![h] = k]
  BY DEF CaptureCsat, Step
<1>4. row \in ThreadRow /\ row.ticket = thread[Th(h)].ticket
  BY <1>2 DEF InboxInv, ThreadRow
<1>5. HookSound(k, tix)
  BY <1>1, StepsOn, HookHas DEF HookPc, InboxInv, HookSound
<1> HIDE DEF row, k
<1>6. /\ [thread EXCEPT ![Th(h)] = row] \in [Threads -> ThreadRow]
      /\ \A x \in Threads : [thread EXCEPT ![Th(h)] = row][x].ticket # NoTicket
                               => Saved([thread EXCEPT ![Th(h)] = row][x].ticket)
  BY <1>2, <1>4, RowWritten DEF InboxInv
<1>7. /\ thread' \in [Threads -> ThreadRow]
      /\ \A x \in Threads : thread'[x].ticket # NoTicket => Saved(thread'[x].ticket)
  BY <1>3, <1>6 DEF InboxInv
<1> QED
  BY <1>1, <1>3, <1>5, <1>7, HookAlone

LEMMA UpsertKeeps ==
    ASSUME InboxInv, NEW h \in Hooks, UpsertConversation(h)
    PROVE  InboxInv'
PROOF
<1>1. hook[h].pc = "begin" /\ UNCHANGED <<tix, deskJob>>
  BY DEF UpsertConversation
<1>2. Th(h) \in Threads
  BY <1>1, MessageAtHand
<1> DEFINE row == [thread[Th(h)] EXCEPT !.known = TRUE]
<1>3. thread' = [thread EXCEPT ![Th(h)] = row]
  BY DEF UpsertConversation
<1>4. row \in ThreadRow /\ row.ticket = thread[Th(h)].ticket
  <2>1. thread[Th(h)] \in ThreadRow
    BY <1>2 DEF InboxInv
  <2> QED
    BY <2>1 DEF ThreadRow
<1>5. /\ thread' \in [Threads -> ThreadRow]
      /\ \A x \in Threads : thread'[x].ticket # NoTicket => Saved(thread'[x].ticket)
  <2> HIDE DEF row
  <2> QED
    BY <1>2, <1>3, <1>4, RowWritten DEF InboxInv
<1>6. CASE IsBlocked(Th(h))
  <2> DEFINE k == [hook[h] EXCEPT !.pc = "next"]
  <2>1. hook' = [hook EXCEPT ![h] = k]
    BY <1>6 DEF UpsertConversation, Step
  <2>2. HookSound(k, tix)
    BY <1>1, StepsOn, HookHas DEF HookPc, InboxInv, HookSound
  <2> QED
    BY <1>1, <1>5, <2>1, <2>2, HookAlone
<1>7. CASE ~IsBlocked(Th(h))
  <2> DEFINE pc == IF thread[Th(h)].ticket = NoTicket THEN "exists" ELSE "detail"
             t == thread[Th(h)].ticket
             k == [hook[h] EXCEPT !.pc = pc, !.seen = t]
  <2>1. hook' = [hook EXCEPT ![h] = k]
    BY <1>7 DEF UpsertConversation
  <2>2. t \in LTickets \cup {NoTicket} /\ (t # NoTicket => tix[t] # NoTicket)
    BY <1>2 DEF InboxInv, ThreadRow, Saved
  <2>3. pc \in {"exists", "detail"} /\ (pc = "detail" => t # NoTicket)
    OBVIOUS
  <2>4. /\ k \in Hook /\ k.pc = pc /\ k.batch = hook[h].batch /\ k.at = hook[h].at /\ k.seen = t
    <3> HIDE DEF pc, t
    <3> QED
      BY <2>2, <2>3, HookHas DEF Hook, HookPc
  <2>5. HookSound(k, tix)
    <3> HIDE DEF k, pc, t
    <3> QED
      BY <1>1, <2>2, <2>3, <2>4, HookHas DEF HookSound
  <2> HIDE DEF k
  <2> QED
    BY <1>1, <1>5, <2>1, <2>5, HookAlone
<1> QED
  BY <1>6, <1>7

\* Tickets change but for their status, or a new one is saved; one delivery moves on.
LEMMA HookAndTickets ==
    ASSUME InboxInv, NEW h \in Hooks, NEW k, HookSound(k, tix'), hook' = [hook EXCEPT ![h] = k],
           TicketsStay({}), tix' \in [LTickets -> TicketRow \cup {NoTicket}], UNCHANGED <<thread, deskJob>>
    PROVE  InboxInv'
PROOF
  BY HookMoves DEF InboxInv, ThreadRow, DeskRequest, TicketsStay, Saved

LEMMA ReadForReopenKeeps ==
    ASSUME InboxInv, NEW h \in Hooks, ReadForReopen(h)
    PROVE  InboxInv'
PROOF
<1>1. hook[h].pc = "detail" /\ UNCHANGED <<tix, thread, deskJob>>
  BY DEF ReadForReopen
<1>2. CASE tix[hook[h].seen].status = "resolved"
  <2> DEFINE k == [hook[h] EXCEPT !.pc = "reopen", !.fresh = TRUE]
  <2>1. hook' = [hook EXCEPT ![h] = k]
    BY <1>2 DEF ReadForReopen
  <2>2. k \in Hook /\ k.pc = "reopen" /\ k.batch = hook[h].batch /\ k.at = hook[h].at /\ k.seen = hook[h].seen
    BY HookHas DEF Hook, HookPc
  <2> HIDE DEF k
  <2>3. HookSound(k, tix)
    BY <1>1, <1>2, <2>2, HookHas, NoTicketAssumption DEF HookSound
  <2> QED
    BY <1>1, <2>1, <2>3, HookAlone DEF InboxInv, Saved
<1>3. CASE tix[hook[h].seen].status # "resolved"
  <2> DEFINE k == [hook[h] EXCEPT !.pc = "exists", !.seen = NoTicket]
  <2>1. hook' = [hook EXCEPT ![h] = k]
    BY <1>3 DEF ReadForReopen
  <2>2. k \in Hook /\ k.pc = "exists" /\ k.batch = hook[h].batch /\ k.at = hook[h].at /\ k.seen = NoTicket
    BY HookHas DEF Hook, HookPc
  <2> HIDE DEF k
  <2>3. HookSound(k, tix)
    BY <1>1, <2>2, HookHas DEF HookSound
  <2> QED
    BY <1>1, <2>1, <2>3, HookAlone DEF InboxInv, Saved
<1> QED
  BY <1>2, <1>3

\* After a change of one ticket, what was read of it is out of date, and every delivery is still sound.
LEMMA OutdatedIsSound ==
    ASSUME InboxInv, NEW t \in LTickets, TicketsStay({t})
    PROVE  /\ Outdated(t) \in [Hooks -> Hook]
           /\ \A g \in Hooks : HookSound(Outdated(t)[g], tix')
PROOF
<1> SUFFICES ASSUME NEW g \in Hooks
             PROVE  Outdated(t)[g] \in Hook /\ HookSound(Outdated(t)[g], tix')
  BY DEF Outdated
<1>1. hook[g] \in Hook /\ HookSound(hook[g], tix)
  BY DEF InboxInv
<1>2. CASE hook[g].seen = t /\ hook[g].pc = "reopen"
  <2> DEFINE k == [hook[g] EXCEPT !.fresh = FALSE]
  <2>1. Outdated(t)[g] = k
    BY <1>2 DEF Outdated
  <2>2. /\ k \in Hook /\ k.fresh # TRUE /\ k.pc = hook[g].pc /\ k.batch = hook[g].batch /\ k.at = hook[g].at
        /\ k.seen = hook[g].seen
    BY <1>1 DEF Hook
  <2> HIDE DEF k
  <2>3. HookSound(k, tix)
    BY <1>1, <2>2 DEF HookSound
  <2>4. HookSound(k, tix')
    BY <2>2, <2>3, HookStaysSound
  <2> QED
    BY <2>1, <2>2, <2>4
<1>3. CASE ~(hook[g].seen = t /\ hook[g].pc = "reopen")
  BY <1>3, <1>1, HookStaysSound DEF Outdated
<1> QED
  BY <1>2, <1>3

\* A delivery that gives up on reopening, or is done with it.
LEMMA LeavingIsSound ==
    ASSUME NEW tickets, NEW h \in Hooks, NEW hs \in [Hooks -> Hook], \A g \in Hooks : HookSound(hs[g], tickets),
           hs[h].pc \in {"detail", "reopen"}
    PROVE  /\ Leaving(hs, h) \in [Hooks -> Hook]
           /\ \A g \in Hooks : HookSound(Leaving(hs, h)[g], tickets)
PROOF
<1> DEFINE k == [hs[h] EXCEPT !.pc = "exists", !.seen = NoTicket, !.fresh = FALSE]
<1>1. Leaving(hs, h) = [hs EXCEPT ![h] = k]
  BY DEF Leaving
<1>2. k \in Hook /\ k.pc = "exists" /\ k.seen = NoTicket /\ k.batch = hs[h].batch /\ k.at = hs[h].at
  BY DEF Hook, HookPc
<1> HIDE DEF k
<1>3. HookSound(k, tickets)
  BY <1>2 DEF HookSound
<1> QED
  BY <1>1, <1>2, <1>3

\* The status of one saved ticket changes: the others stay.
LEMMA StatusWritten ==
    ASSUME InboxInv, NEW t \in LTickets, Saved(t), NEW s \in DeskStatuses \cup {"open", "assigned", "reopened"},
           tix' = [tix EXCEPT ![t].status = s]
    PROVE  TicketsStay({t}) /\ tix' \in [LTickets -> TicketRow \cup {NoTicket}]
PROOF
<1>1. tix[t] \in TicketRow
  BY DEF InboxInv, Saved
<1> DEFINE r == [tix[t] EXCEPT !.status = s]
<1>2. tix' = [tix EXCEPT ![t] = r]
  OBVIOUS
<1>3. r \in TicketRow
  BY <1>1 DEF TicketRow
<1> HIDE DEF r
<1> QED
  BY <1>2, <1>3, NoTicketAssumption DEF InboxInv, TicketsStay, Saved

\* Tickets change, links and requests do not.
LEMMA TicketsOnly ==
    ASSUME InboxInv, NEW ts, TicketsStay(ts), tix' \in [LTickets -> TicketRow \cup {NoTicket}],
           UNCHANGED <<thread, deskJob>>, hook' \in [Hooks -> Hook], \A g \in Hooks : HookSound(hook'[g], tix')
    PROVE  InboxInv'
PROOF
  BY DEF InboxInv, ThreadRow, DeskRequest, TicketsStay, Saved

LEMMA ReopenKeeps ==
    ASSUME InboxInv, NEW h \in Hooks, Reopen(h)
    PROVE  InboxInv'
PROOF
<1>1. hook[h].pc = "reopen" /\ UNCHANGED <<thread, deskJob>>
  BY DEF Reopen
<1> DEFINE t == hook[h].seen
<1>2. t \in LTickets /\ Saved(t)
  BY <1>1, HookHas, NoTicketAssumption DEF Saved
<1>3. tix' = [tix EXCEPT ![t].status = "reopened"] /\ hook' = Leaving(Outdated(t), h)
  BY DEF Reopen
<1> HIDE DEF t
<1>4. TicketsStay({t}) /\ tix' \in [LTickets -> TicketRow \cup {NoTicket}]
  BY <1>2, <1>3, StatusWritten
<1>5. Outdated(t) \in [Hooks -> Hook] /\ \A g \in Hooks : HookSound(Outdated(t)[g], tix')
  BY <1>2, <1>4, OutdatedIsSound
<1>6. Outdated(t)[h].pc = "reopen"
  BY <1>1, HookHas DEF Outdated, Hook
<1>7. hook' \in [Hooks -> Hook] /\ \A g \in Hooks : HookSound(hook'[g], tix')
  BY <1>3, <1>5, <1>6, LeavingIsSound
<1> QED
  BY <1>1, <1>4, <1>7, TicketsOnly

LEMMA ReopenFailsKeeps ==
    ASSUME InboxInv, NEW h \in Hooks, ReopenFails(h)
    PROVE  InboxInv'
PROOF
<1>1. hook[h].pc \in {"detail", "reopen"} /\ hook' = Leaving(hook, h) /\ UNCHANGED <<tix, thread, deskJob>>
  BY DEF ReopenFails
<1>2. hook' \in [Hooks -> Hook] /\ \A g \in Hooks : HookSound(hook'[g], tix)
  BY <1>1, LeavingIsSound DEF InboxInv
<1> QED
  BY <1>1, <1>2 DEF InboxInv, Saved

LEMMA StoreInboundKeeps ==
    ASSUME InboxInv, NEW h \in Hooks, StoreInbound(h)
    PROVE  InboxInv'
PROOF
<1> DEFINE pc == IF Msg(h) \in replied THEN "next" ELSE "reply"
           k == [hook[h] EXCEPT !.pc = pc]
<1>1. hook[h].pc = "exists" /\ hook' = [hook EXCEPT ![h] = k] /\ UNCHANGED <<tix, thread, deskJob>>
  BY DEF StoreInbound, Step
<1>2. pc \in HookPc \ {"idle", "detail", "reopen", "ping"}
  BY DEF HookPc
<1> HIDE DEF pc
<1>3. HookSound(k, tix)
  BY <1>1, <1>2, StepsOn DEF InboxInv, HookSound
<1> QED
  BY <1>1, <1>3, HookAlone DEF InboxInv, Saved

LEMMA StoreReplyKeeps ==
    ASSUME InboxInv, NEW h \in Hooks, NEW r \in LReplies, StoreReply(h, r)
    PROVE  InboxInv'
PROOF
<1> DEFINE pc == IF r \in Escalating THEN "ticket" ELSE "result"
           k == [hook[h] EXCEPT !.pc = pc, !.reply = r]
<1>1. hook[h].pc = "reply" /\ hook' = [hook EXCEPT ![h] = k] /\ UNCHANGED <<tix, thread, deskJob>>
  BY DEF StoreReply
<1>2. pc \in {"ticket", "result"}
  OBVIOUS
<1> HIDE DEF pc
<1>3. k \in Hook /\ k.pc = pc /\ k.batch = hook[h].batch /\ k.at = hook[h].at /\ k.seen = hook[h].seen
  BY <1>2, HookHas DEF Hook, HookPc
<1> HIDE DEF k
<1>4. HookSound(k, tix)
  BY <1>1, <1>2, <1>3, HookHas, NoTicketAssumption DEF HookSound
<1> QED
  BY <1>1, <1>4, HookAlone DEF InboxInv, Saved

\* A new ticket: nothing read before is about it.
LEMMA NewSaved ==
    ASSUME InboxInv, NEW t \in LTickets, ~Saved(t), NEW row \in TicketRow, tix' = [tix EXCEPT ![t] = row]
    PROVE  TicketsStay({}) /\ tix' \in [LTickets -> TicketRow \cup {NoTicket}] /\ tix'[t] # NoTicket
PROOF
  BY NoTicketAssumption DEF InboxInv, TicketsStay, Saved

LEMMA SaveTicketKeeps ==
    ASSUME InboxInv, NEW h \in Hooks, NEW t \in LTickets, SaveTicket(h, t)
    PROVE  InboxInv'
PROOF
<1> DEFINE pc == IF hook[h].reply = "urgent" THEN "ping" ELSE "result"
           k == [hook[h] EXCEPT !.pc = pc, !.seen = t]
           row == NewTicket(Th(h), Msg(h), "open", hook[h].reply = "urgent")
<1>1. /\ hook[h].pc = "ticket" /\ ~Saved(t) /\ hook' = [hook EXCEPT ![h] = k] /\ tix' = [tix EXCEPT ![t] = row]
      /\ UNCHANGED <<thread, deskJob>>
  BY DEF SaveTicket
<1>2. pc \in {"ping", "result"}
  OBVIOUS
<1>3. Msg(h) \in CustMsgs /\ Th(h) \in Threads
  BY <1>1, MessageAtHand
<1>4. row \in TicketRow
  BY <1>3 DEF NewTicket, TicketRow
<1> HIDE DEF pc, row
<1>5. TicketsStay({}) /\ tix' \in [LTickets -> TicketRow \cup {NoTicket}] /\ tix'[t] # NoTicket
  BY <1>1, <1>4, NewSaved
<1>6. k \in Hook /\ k.pc = pc /\ k.batch = hook[h].batch /\ k.at = hook[h].at /\ k.seen = t
  BY <1>2, HookHas DEF Hook, HookPc
<1> HIDE DEF k
<1>7. t # NoTicket
  BY InboxAssumption
<1>8. HookSound(k, tix')
  BY <1>1, <1>2, <1>5, <1>6, <1>7, HookHas DEF HookSound
<1> QED
  BY <1>1, <1>5, <1>8, HookAndTickets

LEMMA NotifyPocKeeps ==
    ASSUME InboxInv, NEW h \in Hooks, NEW works \in BOOLEAN, NotifyPoc(h, works)
    PROVE  InboxInv'
PROOF
<1> DEFINE t == hook[h].seen
           p == IF works THEN "sent" ELSE "failed"
           row == [tix[t] EXCEPT !.ping = p]
           k == [hook[h] EXCEPT !.pc = "result"]
<1>1. /\ hook[h].pc = "ping" /\ hook' = [hook EXCEPT ![h] = k] /\ tix' = [tix EXCEPT ![t] = row]
      /\ UNCHANGED <<thread, deskJob>>
  BY DEF NotifyPoc, Step
<1>2. t \in LTickets /\ tix[t] \in TicketRow
  BY <1>1, HookHas
<1>3. row \in TicketRow /\ row.status = tix[t].status
  <2>1. p \in {"sent", "failed"}
    OBVIOUS
  <2> HIDE DEF p
  <2> QED
    BY <1>2, <2>1 DEF TicketRow
<1> HIDE DEF row
<1>4. TicketsStay({}) /\ tix' \in [LTickets -> TicketRow \cup {NoTicket}]
  BY <1>1, <1>2, <1>3, NoTicketAssumption DEF InboxInv, TicketsStay, Saved
<1>5. tix'[t] # NoTicket
  BY <1>2, <1>4, NoTicketAssumption DEF TicketsStay, Saved
<1> HIDE DEF k
<1>6. HookSound(k, tix')
  BY <1>1, <1>5, StepsOn DEF k, HookPc
<1> QED
  BY <1>1, <1>4, <1>6, HookAndTickets

LEMMA ResultKeeps ==
    ASSUME InboxInv, NEW h \in Hooks, SetConversationResult(h)
    PROVE  InboxInv'
PROOF
<1> DEFINE t == IF hook[h].seen = NoTicket THEN thread[Th(h)].ticket ELSE hook[h].seen
           row == [thread[Th(h)] EXCEPT !.confidence = Msg(h), !.ticket = t]
           pc == IF Th(h) \in TestSenders THEN "send" ELSE "score"
           k == [hook[h] EXCEPT !.pc = pc, !.seen = NoTicket]
<1>1. hook[h].pc = "result" /\ hook' = [hook EXCEPT ![h] = k] /\ UNCHANGED <<tix, deskJob>>
  BY DEF SetConversationResult
<1>2. Msg(h) \in CustMsgs /\ Th(h) \in Threads
  BY <1>1, MessageAtHand
<1>3. thread' = [thread EXCEPT ![Th(h)] = row]
  BY <1>2 DEF InboxInv, ThreadRow, SetConversationResult
<1>4. t \in LTickets \cup {NoTicket} /\ (t # NoTicket => Saved(t))
  BY <1>2, HookHas, NoTicketAssumption DEF InboxInv, ThreadRow, Saved, Hook
<1> HIDE DEF t
<1>5. row \in ThreadRow /\ row.ticket = t
  BY <1>2, <1>4 DEF InboxInv, ThreadRow
<1> HIDE DEF row
<1>6. /\ thread' \in [Threads -> ThreadRow]
      /\ \A x \in Threads : thread'[x].ticket # NoTicket => Saved(thread'[x].ticket)
  BY <1>2, <1>3, <1>4, <1>5, RowWritten
<1>7. pc \in {"send", "score"}
  OBVIOUS
<1> HIDE DEF pc
<1>8. k \in Hook /\ k.pc = pc /\ k.batch = hook[h].batch /\ k.at = hook[h].at /\ k.seen = NoTicket
  BY <1>7, HookHas DEF Hook, HookPc
<1> HIDE DEF k
<1>9. HookSound(k, tix)
  BY <1>1, <1>7, <1>8, HookHas DEF HookSound
<1> QED
  BY <1>1, <1>6, <1>9, HookAlone

LEMMA ScoreKeeps ==
    ASSUME InboxInv, NEW h \in Hooks, NEW works \in BOOLEAN, ScoreConversation(h, works)
    PROVE  InboxInv'
PROOF
<1>1. hook[h].pc = "score" /\ UNCHANGED <<tix, deskJob>>
  BY DEF ScoreConversation
<1>2. Msg(h) \in CustMsgs /\ Th(h) \in Threads
  BY <1>1, MessageAtHand
<1> DEFINE row == [thread[Th(h)] EXCEPT !.autoQa = Msg(h)]
           k == [hook[h] EXCEPT !.pc = "send"]
<1>3. thread' \in {thread, [thread EXCEPT ![Th(h)] = row]} /\ hook' = [hook EXCEPT ![h] = k]
  BY DEF ScoreConversation, Step
<1>4. row \in ThreadRow /\ row.ticket = thread[Th(h)].ticket
  BY <1>2 DEF InboxInv, ThreadRow
<1>5. HookSound(k, tix)
  BY <1>1, StepsOn DEF HookPc, InboxInv, HookSound
<1> HIDE DEF row, k
<1>6. /\ [thread EXCEPT ![Th(h)] = row] \in [Threads -> ThreadRow]
      /\ \A x \in Threads : [thread EXCEPT ![Th(h)] = row][x].ticket # NoTicket
                               => Saved([thread EXCEPT ![Th(h)] = row][x].ticket)
  BY <1>2, <1>4, RowWritten DEF InboxInv
<1>7. /\ thread' \in [Threads -> ThreadRow]
      /\ \A x \in Threads : thread'[x].ticket # NoTicket => Saved(thread'[x].ticket)
  BY <1>3, <1>6 DEF InboxInv
<1> QED
  BY <1>1, <1>3, <1>5, <1>7, HookAlone

LEMMA SendKeeps ==
    ASSUME InboxInv, NEW h \in Hooks, SendReply(h)
    PROVE  InboxInv'
PROOF
<1> DEFINE k == [hook[h] EXCEPT !.pc = "next", !.reply = NoMsg]
<1>1. hook[h].pc = "send" /\ hook' = [hook EXCEPT ![h] = k] /\ UNCHANGED <<tix, thread, deskJob>>
  BY DEF SendReply
<1>2. k \in Hook /\ k.pc = "next" /\ k.batch = hook[h].batch /\ k.at = hook[h].at /\ k.seen = hook[h].seen
  BY HookHas DEF Hook, HookPc
<1> HIDE DEF k
<1>3. HookSound(k, tix)
  BY <1>1, <1>2, HookHas, NoTicketAssumption DEF HookSound
<1> QED
  BY <1>1, <1>3, HookAlone DEF InboxInv, Saved

LEMMA UpdateStatusKeeps ==
    ASSUME InboxInv, NEW t \in LTickets, NEW s \in DeskStatuses, UpdateStatus(t, s)
    PROVE  InboxInv'
PROOF
  BY StatusWritten, OutdatedIsSound, TicketsOnly DEF UpdateStatus

LEMMA UpdateAssigneeKeeps ==
    ASSUME InboxInv, NEW t \in LTickets, UpdateAssignee(t)
    PROVE  InboxInv'
PROOF
  BY OutdatedIsSound, TicketsOnly DEF UpdateAssignee, InboxInv, TicketsStay, Saved

\* One request of an operator moves on.
LEMMA DeskAlone ==
    ASSUME InboxInv, NEW d \in DeskJobs, NEW k \in DeskRequest, deskJob' = [deskJob EXCEPT ![d] = k],
           k.ticket # NoTicket => Saved(k.ticket), k.pc # "idle" => k.thread \in Threads,
           UNCHANGED <<tix, hook>>, thread' \in [Threads -> ThreadRow],
           \A c \in Threads : thread'[c].ticket # NoTicket => Saved(thread'[c].ticket)
    PROVE  InboxInv'
PROOF
  BY DEF InboxInv, Saved

LEMMA IdleRequest == IdleDesk \in DeskRequest /\ IdleDesk.ticket = NoTicket /\ IdleDesk.pc = "idle"
PROOF
  BY DEF IdleDesk, DeskRequest

LEMMA TakeOverKeeps ==
    ASSUME InboxInv, NEW d \in DeskJobs, NEW c \in Threads, TakeOver(d, c)
    PROVE  InboxInv'
PROOF
<1> DEFINE k == [IdleDesk EXCEPT !.pc = "take", !.thread = c]
<1>1. deskJob' \in {[deskJob EXCEPT ![d] = k], [deskJob EXCEPT ![d] = IdleDesk]} /\ UNCHANGED <<thread, tix, hook>>
  BY DEF TakeOver
<1>2. k \in DeskRequest /\ k.ticket = NoTicket /\ k.thread = c
  BY IdleRequest DEF DeskRequest
<1> HIDE DEF k
<1>3. /\ thread' \in [Threads -> ThreadRow]
      /\ \A x \in Threads : thread'[x].ticket # NoTicket => Saved(thread'[x].ticket)
  BY <1>1 DEF InboxInv, Saved
<1>4. CASE deskJob' = [deskJob EXCEPT ![d] = k]
  BY <1>1, <1>2, <1>3, <1>4, DeskAlone
<1>5. CASE deskJob' = [deskJob EXCEPT ![d] = IdleDesk]
  BY <1>1, <1>3, <1>5, IdleRequest, DeskAlone
<1> QED
  BY <1>1, <1>4, <1>5

LEMMA SaveTakeoverKeeps ==
    ASSUME InboxInv, NEW d \in DeskJobs, NEW t \in LTickets, SaveTakeover(d, t)
    PROVE  InboxInv'
PROOF
<1> DEFINE row == NewTicket(deskJob[d].thread, NoMsg, "assigned", FALSE)
           k == [deskJob[d] EXCEPT !.pc = "attach", !.ticket = t]
<1>1. /\ deskJob[d].pc = "take" /\ ~Saved(t) /\ tix' = [tix EXCEPT ![t] = row]
      /\ deskJob' = [deskJob EXCEPT ![d] = k] /\ UNCHANGED <<thread, hook>>
  BY DEF SaveTakeover
<1>2. deskJob[d] \in DeskRequest /\ deskJob[d].thread \in Threads
  BY <1>1 DEF InboxInv
<1>3. row \in TicketRow
  BY <1>2 DEF NewTicket, TicketRow
<1> HIDE DEF row
<1>4. TicketsStay({}) /\ tix' \in [LTickets -> TicketRow \cup {NoTicket}] /\ tix'[t] # NoTicket
  BY <1>1, <1>3, NewSaved
<1>5. k \in DeskRequest /\ k.ticket = t /\ k.thread = deskJob[d].thread
  BY <1>2 DEF DeskRequest
<1> HIDE DEF k
<1>6. deskJob' \in [DeskJobs -> DeskRequest]
  BY <1>1, <1>5 DEF InboxInv
<1>7. \A e \in DeskJobs : /\ deskJob'[e].ticket # NoTicket => tix'[deskJob'[e].ticket] # NoTicket
                          /\ deskJob'[e].pc # "idle" => deskJob'[e].thread \in Threads
  BY <1>4, <1>1, <1>2, <1>5 DEF InboxInv, DeskRequest, TicketsStay, Saved
<1>8. \A g \in Hooks : HookSound(hook[g], tix')
  BY <1>4, HookStaysSound DEF InboxInv
<1>9. \A c \in Threads : thread[c].ticket # NoTicket => tix'[thread[c].ticket] # NoTicket
  BY <1>4 DEF InboxInv, ThreadRow, TicketsStay, Saved
<1> QED
  BY <1>1, <1>4, <1>6, <1>7, <1>8, <1>9 DEF InboxInv, Saved

LEMMA AttachKeeps ==
    ASSUME InboxInv, NEW d \in DeskJobs, AttachTicket(d)
    PROVE  InboxInv'
PROOF
<1> DEFINE c == deskJob[d].thread
           row == [thread[c] EXCEPT !.ticket = deskJob[d].ticket]
<1>1. /\ deskJob[d].pc = "attach" /\ thread' = [thread EXCEPT ![c] = row]
      /\ deskJob' = [deskJob EXCEPT ![d] = IdleDesk] /\ UNCHANGED <<tix, hook>>
  BY DEF AttachTicket
<1>2. c \in Threads /\ deskJob[d].ticket \in LTickets \cup {NoTicket}
      /\ (deskJob[d].ticket # NoTicket => Saved(deskJob[d].ticket))
  BY <1>1 DEF InboxInv, DeskRequest
<1>3. row \in ThreadRow /\ row.ticket = deskJob[d].ticket
  BY <1>2 DEF InboxInv, ThreadRow
<1> HIDE DEF row, c
<1>4. /\ thread' \in [Threads -> ThreadRow]
      /\ \A x \in Threads : thread'[x].ticket # NoTicket => Saved(thread'[x].ticket)
  BY <1>1, <1>2, <1>3, RowWritten
<1> QED
  BY <1>1, <1>4, IdleRequest, DeskAlone

LEMMA DeskFailsKeeps ==
    ASSUME InboxInv, NEW d \in DeskJobs, DeskFails(d)
    PROVE  InboxInv'
PROOF
  BY IdleRequest, DeskAlone DEF DeskFails, InboxInv, Saved

LEMMA InboxStepKeeps == InboxInv /\ [InboxNext]_inboxVars => InboxInv'
PROOF
<1> SUFFICES ASSUME InboxInv, [InboxNext]_inboxVars PROVE InboxInv'
  OBVIOUS
<1>1. ASSUME UNCHANGED <<thread, tix, hook, deskJob>> PROVE InboxInv'
  BY <1>1 DEF InboxInv, Saved
<1>2. ASSUME NEW h \in Hooks, HookStep(h) PROVE InboxInv'
  BY <1>2, ReceiveKeeps, NextKeeps, FailsKeeps, CsatKeeps, UpsertKeeps, ReadForReopenKeeps, ReopenKeeps,
     ReopenFailsKeeps, StoreInboundKeeps, StoreReplyKeeps, SaveTicketKeeps, NotifyPocKeeps, ScoreKeeps, ResultKeeps, SendKeeps
  DEF HookStep
<1>3. ASSUME NEW d \in DeskJobs, DeskStep(d) PROVE InboxInv'
  BY <1>3, TakeOverKeeps, SaveTakeoverKeeps, AttachKeeps, DeskFailsKeeps DEF DeskStep
<1>4. ASSUME NEW t \in LTickets, UpdateAssignee(t) \/ (\E s \in DeskStatuses : UpdateStatus(t, s)) PROVE InboxInv'
  BY <1>4, UpdateAssigneeKeeps, UpdateStatusKeeps
<1>5. ASSUME NEW c \in Threads, BlockSender(c) \/ UnblockSender(c) PROVE InboxInv'
  BY <1>1, <1>5 DEF BlockSender, UnblockSender
<1>6. CASE UNCHANGED inboxVars
  BY <1>1, <1>6 DEF inboxVars
<1> QED
  BY <1>2, <1>3, <1>4, <1>5, <1>6 DEF InboxNext

\* A delivery leaves "reopen" for "exists" with a ticket changed only by reopening it at the version it read.
LEMMA ReopensResolved ==
    ASSUME InboxInv, [InboxNext]_inboxVars, NEW h \in Hooks,
           hook[h].pc = "reopen", hook'[h].pc = "exists", tix' # tix
    PROVE  tix[hook[h].seen].status = "resolved"
PROOF
<1>1. tix' = tix => FALSE
  OBVIOUS
<1>2. \A t \in LTickets : Outdated(t)[h].pc = "reopen"
  BY HookHas DEF Outdated, Hook
<1>4. ASSUME NEW g \in Hooks, HookStep(g) PROVE tix[hook[h].seen].status = "resolved"
  <2>1. CASE \E t \in LTickets : SaveTicket(g, t)
    BY <2>1, HookHas DEF SaveTicket, InboxInv, Hook
  <2>2. CASE \E w \in BOOLEAN : NotifyPoc(g, w)
    BY <2>2, HookHas DEF NotifyPoc, Step, InboxInv, Hook
  <2>3. CASE Reopen(g)
    <3>1. hook[g].fresh
      BY <2>3 DEF Reopen
    <3>2. g = h
      BY <2>3, <3>1, HookHas, <1>2 DEF Reopen, Leaving, Outdated
    <3>3. hook[g].fresh = TRUE
      BY <3>1, HookHas DEF Hook
    <3> QED
      BY <3>2, <3>3, HookHas
  <2> QED
    BY <1>1, <1>4, <2>1, <2>2, <2>3 DEF HookStep, ReceiveDelivery, NextMessage, DeliveryFails, CaptureCsat,
       UpsertConversation, ReadForReopen, ReopenFails, StoreInbound, StoreReply, ScoreConversation, SetConversationResult, SendReply
<1>5. ASSUME NEW d \in DeskJobs, DeskStep(d) PROVE FALSE
  BY <1>5 DEF DeskStep, SaveTakeover, TakeOver, AttachTicket, DeskFails
<1>6. ASSUME NEW t \in LTickets, UpdateAssignee(t) \/ (\E s \in DeskStatuses : UpdateStatus(t, s)) PROVE FALSE
  BY <1>2, <1>6 DEF UpdateAssignee, UpdateStatus
<1>7. ASSUME NEW c \in Threads, BlockSender(c) \/ UnblockSender(c) PROVE FALSE
  BY <1>7 DEF BlockSender, UnblockSender
<1> QED
  BY <1>4, <1>5, <1>6, <1>7 DEF InboxNext, inboxVars

-----------------------------------------------------------------------------
(* Change requests keep their invariant.                                     *)

LEMMA LkInitInv == LkInit => LkInv
PROOF
  BY DEF LkInit, LkInv, LkJob, NoJob, PublicationKnows

\* What a job holds at each of its statements.
LEMMA JobHas ==
    ASSUME LkInv, NEW j \in LkJobs
    PROVE  /\ lkJob[j] \in LkJob
           /\ lkJob[j].pc \in {"idle", "accepted", "drafted", "live", "event", "reviewing", "toSuggest"}
           /\ lkJob[j].pc \in {"accepted", "drafted", "live", "event", "reviewing"} =>
                lkJob[j].on \in ChangeAsks /\ ask[lkJob[j].on] \in Ask
           /\ lkJob[j].pc \in {"drafted", "live"} =>
                /\ lkJob[j].art \in Articles /\ article[lkJob[j].art] \in Article
                /\ ask[lkJob[j].on].target \in {NoArticle, lkJob[j].art}
           /\ lkJob[j].pc = "reviewing" => lkJob[j].to \in ReviewStates
           /\ lkJob[j].pc = "toSuggest" => lkJob[j].on \in Escalated
PROOF
  BY DEF LkInv, LkJob, NoJob, PublicationKnows

\* Requests and entries that are there stay, and a request keeps its target.
LkStays == /\ \A a \in Articles : article[a] # NoArticle => article'[a] # NoArticle
           /\ \A q \in ChangeAsks : ask[q] # NoArticle => ask'[q] # NoArticle /\ ask'[q].target = ask[q].target

\* What one job is to know, of the rows given.
JobKnows(job, articles, asks) ==
    /\ job.pc \in {"accepted", "drafted", "live", "event", "reviewing"} => asks[job.on] # NoArticle
    /\ job.pc \in {"drafted", "live"} =>
         articles[job.art] # NoArticle /\ asks[job.on].target \in {NoArticle, job.art}

LEMMA JobStays ==
    ASSUME LkInv, LkStays, NEW j \in LkJobs PROVE JobKnows(lkJob[j], article', ask')
PROOF
  BY JobHas, NoArticleAssumption DEF LkStays, JobKnows

\* A job moves on, or none does.
LEMMA JobMoves ==
    ASSUME LkInv, LkStays, article' \in [Articles -> Article \cup {NoArticle}],
           ask' \in [ChangeAsks -> Ask \cup {NoArticle}],
           NEW j \in LkJobs, NEW job \in LkJob, JobKnows(job, article', ask'),
           lkJob' = [lkJob EXCEPT ![j] = job]
    PROVE  LkInv'
PROOF
  BY JobStays DEF LkInv, PublicationKnows, JobKnows

LEMMA ArticleWritten ==
    ASSUME LkInv, NEW a \in Articles, NEW row \in Article, article' = [article EXCEPT ![a] = row], ask' = ask
    PROVE  LkStays /\ article' \in [Articles -> Article \cup {NoArticle}] /\ article'[a] # NoArticle
PROOF
  BY NoArticleAssumption DEF LkInv, LkStays

LEMMA DraftMade ==
    ASSUME LkInv, NEW a \in Articles, NEW q \in ChangeAsks \cup {NoArticle}, CreateDraft(a, q), ask' = ask
    PROVE  LkStays /\ article' \in [Articles -> Article \cup {NoArticle}] /\ article'[a] # NoArticle
PROOF
  BY ArticleWritten DEF CreateDraft, Article

LEMMA StatusSet ==
    ASSUME LkInv, NEW a \in Articles, article[a] # NoArticle, NEW s \in {"draft", "active", "archived"},
           article' = [article EXCEPT ![a].status = s], ask' = ask
    PROVE  LkStays /\ article' \in [Articles -> Article \cup {NoArticle}] /\ article'[a] # NoArticle
PROOF
<1> DEFINE row == [article[a] EXCEPT !.status = s]
<1>1. row \in Article /\ article' = [article EXCEPT ![a] = row]
  BY DEF LkInv, Article
<1> HIDE DEF row
<1> QED
  BY <1>1, ArticleWritten

LEMMA StaffKeeps ==
    ASSUME LkInv, NEW a \in Articles, StaffWorks(a)
    PROVE  LkInv'
PROOF
  BY DraftMade, StatusSet, JobStays DEF StaffWorks, UpdateEntry, SetStatus, LkInv, PublicationKnows, JobKnows

\* A request to the API answered, or broken off.
LEMMA NoJobKnows ==
    NoJob \in LkJob /\ \A articles, asks : JobKnows(NoJob, articles, asks)
PROOF
  BY DEF NoJob, LkJob, JobKnows

\* A new request: those that are there stay.
LEMMA AskMade ==
    ASSUME LkInv, NEW q \in ChangeAsks, NEW target \in Articles \cup {NoArticle},
           NEW key \in Escalated \cup {NoArticle}, NewAsk(q, target, key), article' = article
    PROVE  LkStays /\ ask' \in [ChangeAsks -> Ask \cup {NoArticle}] /\ ask'[q] # NoArticle
           /\ ask'[q].status # "published"
PROOF
<1> DEFINE row == [status |-> "submitted", target |-> target, key |-> key, out |-> NoArticle]
<1>1. row \in Ask /\ row.status # "published"
  BY DEF Ask
<1>2. ask[q] = NoArticle /\ ask' = [ask EXCEPT ![q] = row]
  BY DEF NewAsk
<1> HIDE DEF row
<1> QED
  BY <1>1, <1>2, NoArticleAssumption DEF LkInv, LkStays

LEMMA SubmitKeeps ==
    ASSUME LkInv, NEW j \in LkJobs, NEW q \in ChangeAsks, Submit(j, q)
    PROVE  LkInv'
PROOF
<1> DEFINE job == [pc |-> "event", on |-> q, type |-> "submitted"]
<1>1. lkJob' = [lkJob EXCEPT ![j] = job] /\ article' = article
  BY DEF Submit, Become
<1>2. PICK t \in Articles \cup {NoArticle} : NewAsk(q, t, NoArticle)
  BY DEF Submit
<1>3. LkStays /\ ask' \in [ChangeAsks -> Ask \cup {NoArticle}] /\ ask'[q] # NoArticle
  BY <1>1, <1>2, AskMade
<1>4. job \in LkJob /\ JobKnows(job, article', ask')
  BY <1>3 DEF LkJob, JobKnows
<1> HIDE DEF job
<1> QED
  BY <1>1, <1>3, <1>4, JobMoves DEF LkInv

LEMMA LookKeeps ==
    ASSUME LkInv, NEW j \in LkJobs, NEW k \in Escalated, LookForSuggestion(j, k)
    PROVE  LkInv'
PROOF
<1> DEFINE job == [pc |-> "toSuggest", on |-> k]
<1>1. lkJob' = [lkJob EXCEPT ![j] = job] /\ UNCHANGED <<article, ask>>
  BY DEF LookForSuggestion, Become
<1>2. LkStays
  BY <1>1 DEF LkStays
<1>3. job \in LkJob /\ JobKnows(job, article', ask')
  BY DEF LkJob, JobKnows
<1> HIDE DEF job
<1> QED
  BY <1>1, <1>2, <1>3, JobMoves DEF LkInv

LEMMA SuggestKeeps ==
    ASSUME LkInv, NEW j \in LkJobs, NEW q \in ChangeAsks, Suggest(j, q)
    PROVE  LkInv'
PROOF
<1>1. lkJob[j].pc = "toSuggest" /\ article' = article /\ lkJob[j].on \in Escalated
  BY JobHas DEF Suggest
<1>2. CASE lkJob' = [lkJob EXCEPT ![j] = NoJob] /\ ask' = ask
  BY <1>1, <1>2, NoJobKnows, JobMoves DEF LkStays, LkInv
<1> DEFINE job == [pc |-> "event", on |-> q, type |-> "submitted"]
<1>3. CASE NewAsk(q, NoArticle, lkJob[j].on) /\ lkJob' = [lkJob EXCEPT ![j] = job]
  <2>1. LkStays /\ ask' \in [ChangeAsks -> Ask \cup {NoArticle}] /\ ask'[q] # NoArticle
    BY <1>1, <1>3, AskMade
  <2>2. job \in LkJob /\ JobKnows(job, article', ask')
    BY <2>1 DEF LkJob, JobKnows
  <2> HIDE DEF job
  <2> QED
    BY <1>1, <1>3, <2>1, <2>2, JobMoves DEF LkInv
<1> QED
  BY <1>2, <1>3 DEF Suggest, Become

LEMMA StartReviewKeeps ==
    ASSUME LkInv, NEW j \in LkJobs, NEW q \in ChangeAsks, StartReview(j, q)
    PROVE  LkInv'
PROOF
<1>1. PICK s \in ReviewStates : lkJob' = [lkJob EXCEPT ![j] = [pc |-> "reviewing", on |-> q, to |-> s]]
  BY DEF StartReview, Become
<1> DEFINE job == [pc |-> "reviewing", on |-> q, to |-> s]
<1>2. UNCHANGED <<article, ask>> /\ ask[q] # NoArticle
  BY DEF StartReview
<1>3. LkStays
  BY <1>2 DEF LkStays
<1>4. job \in LkJob /\ JobKnows(job, article', ask')
  BY <1>2 DEF LkJob, JobKnows
<1> HIDE DEF job
<1> QED
  BY <1>1, <1>2, <1>3, <1>4, JobMoves DEF LkInv, job

\* A request that is there changes but for its target.
LEMMA AskWritten ==
    ASSUME LkInv, NEW q \in ChangeAsks, ask[q] # NoArticle, NEW row \in Ask, row.target = ask[q].target,
           ask' = [ask EXCEPT ![q] = row], article' = article
    PROVE  LkStays /\ ask' \in [ChangeAsks -> Ask \cup {NoArticle}] /\ ask'[q] # NoArticle
PROOF
  BY NoArticleAssumption DEF LkInv, LkStays

LEMMA ReviewKeeps ==
    ASSUME LkInv, NEW j \in LkJobs, UpdateReviewState(j)
    PROVE  LkInv'
PROOF
<1> DEFINE q == lkJob[j].on
           job == [pc |-> "event", on |-> q, type |-> lkJob[j].to]
           row == [ask[q] EXCEPT !.status = lkJob[j].to]
<1>1. /\ lkJob[j].pc = "reviewing" /\ lkJob' = [lkJob EXCEPT ![j] = job] /\ ask' = [ask EXCEPT ![q] = row]
      /\ article' = article
  BY DEF UpdateReviewState, Become
<1>2. q \in ChangeAsks /\ ask[q] \in Ask /\ lkJob[j].to \in ReviewStates
  BY <1>1, JobHas
<1>3. row \in Ask /\ row.target = ask[q].target
  BY <1>2 DEF Ask
<1> HIDE DEF row, q
<1>4. LkStays /\ ask' \in [ChangeAsks -> Ask \cup {NoArticle}] /\ ask'[q] # NoArticle
  BY <1>1, <1>2, <1>3, NoArticleAssumption, AskWritten
<1>5. job \in LkJob /\ JobKnows(job, article', ask')
  BY <1>2, <1>4 DEF LkJob, JobKnows
<1> HIDE DEF job
<1> QED
  BY <1>1, <1>4, <1>5, JobMoves DEF LkInv

LEMMA StartPublishKeeps ==
    ASSUME LkInv, NEW j \in LkJobs, NEW q \in ChangeAsks, StartPublish(j, q)
    PROVE  LkInv'
PROOF
<1> DEFINE job == [pc |-> "accepted", on |-> q]
<1>1. lkJob' = [lkJob EXCEPT ![j] = job] /\ UNCHANGED <<article, ask>> /\ ask[q] # NoArticle
  BY DEF StartPublish, Become
<1>2. LkStays
  BY <1>1 DEF LkStays
<1>3. job \in LkJob /\ JobKnows(job, article', ask')
  BY <1>1 DEF LkJob, JobKnows
<1> HIDE DEF job
<1> QED
  BY <1>1, <1>2, <1>3, JobMoves DEF LkInv

LEMMA PublishDraftKeeps ==
    ASSUME LkInv, NEW j \in LkJobs, NEW a \in Articles, PublishDraft(j, a)
    PROVE  LkInv'
PROOF
<1> DEFINE q == lkJob[j].on
           job == [pc |-> "drafted", on |-> q, art |-> a]
<1>1. lkJob[j].pc = "accepted" /\ lkJob' = [lkJob EXCEPT ![j] = job] /\ ask' = ask
  BY DEF PublishDraft, Become
<1>2. q \in ChangeAsks /\ ask[q] # NoArticle
  BY <1>1, JobHas, NoArticleAssumption
<1>3. \/ ask[q].target = NoArticle /\ CreateDraft(a, q)
      \/ a = ask[q].target /\ UpdateEntry(a)
  BY DEF PublishDraft
<1>4. LkStays /\ article' \in [Articles -> Article \cup {NoArticle}] /\ article'[a] # NoArticle
  <2> HIDE DEF q
  <2> QED
    BY <1>1, <1>2, <1>3, DraftMade, StatusSet DEF UpdateEntry
<1>5. ask'[q].target \in {NoArticle, a}
  BY <1>1, <1>3
<1> HIDE DEF q
<1>6. job \in LkJob /\ JobKnows(job, article', ask')
  BY <1>1, <1>2, <1>4, <1>5 DEF LkJob, JobKnows
<1> HIDE DEF job
<1> QED
  BY <1>1, <1>4, <1>6, JobMoves DEF LkInv

LEMMA PublishEntryKeeps ==
    ASSUME LkInv, NEW j \in LkJobs, PublishEntry(j)
    PROVE  LkInv'
PROOF
<1> DEFINE a == lkJob[j].art
           job == [lkJob[j] EXCEPT !.pc = "live"]
<1>1. /\ lkJob[j].pc = "drafted" /\ lkJob' = [lkJob EXCEPT ![j] = job] /\ ask' = ask
      /\ article[a] # NoArticle /\ article' = [article EXCEPT ![a].status = "active"]
  BY DEF PublishEntry, SetStatus
<1>2. /\ a \in Articles /\ lkJob[j].on \in ChangeAsks /\ ask[lkJob[j].on] # NoArticle
      /\ ask[lkJob[j].on].target \in {NoArticle, a}
  BY <1>1, JobHas, NoArticleAssumption
<1>3. lkJob[j] \in [pc : {"drafted", "live"}, on : ChangeAsks, art : Articles]
  BY <1>1, JobHas DEF LkJob, NoJob
<1>4. /\ job \in [pc : {"drafted", "live"}, on : ChangeAsks, art : Articles]
      /\ job.pc = "live" /\ job.on = lkJob[j].on /\ job.art = a
  BY <1>3
<1> HIDE DEF a
<1>5. LkStays /\ article' \in [Articles -> Article \cup {NoArticle}] /\ article'[a] # NoArticle
  BY <1>1, <1>2, StatusSet
<1> HIDE DEF job
<1>6. job \in LkJob /\ JobKnows(job, article', ask')
  BY <1>1, <1>2, <1>4, <1>5 DEF LkJob, JobKnows
<1> QED
  BY <1>1, <1>5, <1>6, JobMoves DEF LkInv

LEMMA PublishAskKeeps ==
    ASSUME LkInv, NEW j \in LkJobs, PublishAsk(j)
    PROVE  LkInv'
PROOF
<1> DEFINE q == lkJob[j].on
           a == lkJob[j].art
           job == [pc |-> "event", on |-> q, type |-> "published"]
           row == [ask[q] EXCEPT !.status = "published", !.out = a]
<1>1. /\ lkJob[j].pc = "live" /\ lkJob' = [lkJob EXCEPT ![j] = job] /\ article' = article
      /\ ask' = [ask EXCEPT ![q].status = "published", ![q].out = a]
  BY DEF PublishAsk, Become
<1>2. q \in ChangeAsks /\ ask[q] \in Ask /\ a \in Articles
  BY <1>1, JobHas
<1>3. row \in Ask /\ row.target = ask[q].target
  BY <1>2 DEF Ask
<1>4. ask' = [ask EXCEPT ![q] = row]
  BY <1>1
<1> HIDE DEF row, q, a
<1>5. LkStays /\ ask' \in [ChangeAsks -> Ask \cup {NoArticle}] /\ ask'[q] # NoArticle
  BY <1>1, <1>2, <1>3, <1>4, NoArticleAssumption, AskWritten
<1>6. job \in LkJob /\ JobKnows(job, article', ask')
  BY <1>2, <1>5 DEF LkJob, JobKnows
<1> HIDE DEF job
<1> QED
  BY <1>1, <1>5, <1>6, JobMoves DEF LkInv

\* A job that is over: after its event, or cut short.
LEMMA JobOver ==
    ASSUME LkInv, NEW j \in LkJobs, RecordEvent(j) \/ JobDies(j)
    PROVE  LkInv'
PROOF
  BY NoJobKnows, JobMoves DEF RecordEvent, JobDies, Become, LkStays, LkInv

LEMMA LkStepKeeps == LkInv /\ [LkNext]_lkVars => LkInv'
PROOF
<1>1. ASSUME LkInv, UNCHANGED lkVars PROVE LkInv'
  BY <1>1 DEF lkVars, LkInv, PublicationKnows
<1> QED
  BY <1>1, StaffKeeps, SubmitKeeps, LookKeeps, SuggestKeeps, StartReviewKeeps, ReviewKeeps, StartPublishKeeps,
     PublishDraftKeeps, PublishEntryKeeps, PublishAskKeeps, JobOver
  DEF LkNext

\* A request becomes published by the job that made its entry active, and names that entry.
LEMMA PublishesLive ==
    ASSUME LkInv, [LkNext]_lkVars, NEW q \in ChangeAsks, ask[q] # NoArticle, ask'[q].status = "published",
           ask[q].status # "published"
    PROVE  LET a == ask'[q].out IN
             /\ a # NoArticle /\ article[a] # NoArticle
             /\ ask[q].target \in {NoArticle, a}
             /\ \E j \in LkJobs : lkJob[j].pc = "live"
PROOF
<1>1. ask' # ask
  OBVIOUS
<1>2. ASSUME NEW j \in LkJobs, PublishAsk(j)
      PROVE  /\ ask'[q].out # NoArticle /\ article[ask'[q].out] # NoArticle
             /\ ask[q].target \in {NoArticle, ask'[q].out} /\ lkJob[j].pc = "live"
  <2> DEFINE p == lkJob[j].on
             a == lkJob[j].art
  <2>1. lkJob[j].pc = "live" /\ ask' = [ask EXCEPT ![p].status = "published", ![p].out = a]
    BY <1>2 DEF PublishAsk
  <2>2. /\ a \in Articles /\ article[a] # NoArticle /\ p \in ChangeAsks /\ ask[p] \in Ask
        /\ ask[p].target \in {NoArticle, a}
    BY <2>1, JobHas, NoArticleAssumption
  <2> HIDE DEF p, a
  <2>3. p = q
    BY <2>1 DEF LkInv
  <2>4. ask'[q].out = a
    BY <2>1, <2>2, <2>3 DEF LkInv, Ask
  <2> QED
    BY <2>1, <2>2, <2>3, <2>4, LkAssumption
<1>3. ASSUME NEW j \in LkJobs, UpdateReviewState(j) PROVE FALSE
  BY <1>3, JobHas, LkAssumption DEF UpdateReviewState, LkInv, Ask
<1>4. ASSUME NEW p \in ChangeAsks, NEW t, NEW k, NewAsk(p, t, k) PROVE FALSE
  BY <1>4 DEF NewAsk, LkInv
<1>5. ASSUME NEW j \in LkJobs, NEW p \in ChangeAsks, Submit(j, p) \/ Suggest(j, p) PROVE FALSE
  BY <1>1, <1>4, <1>5 DEF Submit, Suggest
<1> QED
  BY <1>1, <1>2, <1>3, <1>5
  DEF LkNext, lkVars, StaffWorks, PublishEntry, RecordEvent, JobDies, StartReview, StartPublish, LookForSuggestion,
      PublishDraft

-----------------------------------------------------------------------------
(* Entries keep theirs.                                                      *)

Maker == [batch : EntryBatches \cup {{}}, left : SUBSET Origins, create : Origins \cup {NoEntry}]

LEMMA EntriesInitInv == EntriesInit => EntriesInv
PROOF
  BY DEF EntriesInit, EntriesInv, EntriesTypeOK, DoneIsMade, IdleMaker

\* Entries that are there stay, with the origin they were made from.
EntriesStay == \A e \in Entries : entry[e] # NoEntry => entry'[e] # NoEntry /\ entry'[e].from = entry[e].from

LEMMA MadeStays ==
    ASSUME EntriesStay, NEW o, MadeFrom(o) # {}
    PROVE  \E e \in Entries : entry'[e] # NoEntry /\ entry'[e].from = o
PROOF
  BY DEF EntriesStay, MadeFrom

\* Only entries change.
LEMMA EntriesOnly ==
    ASSUME EntriesInv, EntriesStay, UNCHANGED <<maker, entriesRaced>>,
           entry' \in [Entries -> {NoEntry} \cup EntryRow],
           wordings' \in [Entries -> {"none", "one", "more"}], reread' \in [Entries -> {"none", "same", "old"}],
           \A e \in Entries : wordings'[e] # "none" \/ reread'[e] # "none" => entry'[e] # NoEntry
    PROVE  EntriesInv'
PROOF
<1>1. DoneIsMade'
  BY MadeStays DEF EntriesInv, DoneIsMade, MadeFrom
<1>2. EntriesTypeOK'
  BY DEF EntriesInv, EntriesTypeOK
<1> QED
  BY <1>1, <1>2 DEF EntriesInv

\* A new wording of an entry, of the same origin if it was there.
LEMMA WordKeeps ==
    ASSUME EntriesInv, NEW e \in Entries, NEW row \in EntryRow, Word(e, row),
           entry[e] # NoEntry => row.from = entry[e].from
    PROVE  /\ EntriesStay
           /\ entry' \in [Entries -> {NoEntry} \cup EntryRow]
           /\ wordings' \in [Entries -> {"none", "one", "more"}]
           /\ reread' \in [Entries -> {"none", "same", "old"}]
           /\ \A x \in Entries : wordings'[x] # "none" \/ reread'[x] # "none" => entry'[x] # NoEntry
           /\ entry'[e] = row /\ row # NoEntry
PROOF
  BY NoEntryAssumption DEF EntriesInv, EntriesTypeOK, Word, EntriesStay

LEMMA NewEntryKeeps ==
    ASSUME EntriesInv, NEW e \in Entries, NEW o \in Origins \cup {NoEntry}, NewEntry(e, o)
    PROVE  /\ EntriesStay
           /\ entry' \in [Entries -> {NoEntry} \cup EntryRow]
           /\ wordings' \in [Entries -> {"none", "one", "more"}]
           /\ reread' \in [Entries -> {"none", "same", "old"}]
           /\ \A x \in Entries : wordings'[x] # "none" \/ reread'[x] # "none" => entry'[x] # NoEntry
           /\ entry'[e] # NoEntry /\ entry'[e].from = o
PROOF
<1> DEFINE row == [status |-> "draft", indexed |-> TRUE, from |-> o]
<1>1. row \in EntryRow /\ row.from = o
  BY DEF EntryRow
<1>2. entry[e] = NoEntry /\ Word(e, row)
  BY DEF NewEntry
<1> HIDE DEF row
<1> QED
  BY <1>1, <1>2, WordKeeps

LEMMA CreateKeeps ==
    ASSUME EntriesInv, NEW e \in Entries, CreateEntry(e)
    PROVE  EntriesInv'
PROOF
  BY NewEntryKeeps, EntriesOnly DEF CreateEntry

LEMMA RewordKeeps ==
    ASSUME EntriesInv, NEW e \in Entries, EditEntry(e) \/ RollBack(e)
    PROVE  EntriesInv'
PROOF
<1> DEFINE row == [entry[e] EXCEPT !.status = "draft", !.indexed = TRUE]
<1>1. entry[e] # NoEntry /\ Word(e, row) /\ UNCHANGED <<maker, entriesRaced>>
  BY DEF EditEntry, RollBack, EntriesInv
<1>2. entry[e] \in EntryRow
  BY <1>1 DEF EntriesInv, EntriesTypeOK
<1>3. row \in EntryRow /\ row.from = entry[e].from
  BY <1>2 DEF EntryRow
<1> HIDE DEF row
<1> QED
  BY <1>1, <1>3, WordKeeps, EntriesOnly

LEMMA EntryStatusKeeps ==
    ASSUME EntriesInv, NEW e \in Entries, NEW s \in {"active", "archived"}, SetEntryStatus(e, s)
    PROVE  EntriesInv'
PROOF
<1> DEFINE i == entry[e].indexed \/ s = "active"
           row == [entry[e] EXCEPT !.status = s, !.indexed = i]
<1>1. entry[e] # NoEntry /\ UNCHANGED <<wordings, reread, maker, entriesRaced>>
      /\ entry' = [entry EXCEPT ![e].status = s, ![e].indexed = i]
  BY DEF SetEntryStatus
<1>2. entry[e] \in EntryRow
  BY <1>1 DEF EntriesInv, EntriesTypeOK
<1>3. i \in BOOLEAN
  OBVIOUS
<1> HIDE DEF i
<1>4. row \in EntryRow /\ row.from = entry[e].from
  BY <1>2, <1>3 DEF EntryRow
<1>5. entry' = [entry EXCEPT ![e] = row]
  BY <1>1
<1> HIDE DEF row
<1>6. entry' \in [Entries -> {NoEntry} \cup EntryRow] /\ EntriesStay
      /\ \A x \in Entries : entry[x] # NoEntry => entry'[x] # NoEntry
  BY <1>2, <1>4, <1>5, NoEntryAssumption DEF EntriesInv, EntriesTypeOK, EntriesStay
<1> QED
  BY <1>1, <1>6, EntriesOnly DEF EntriesInv, EntriesTypeOK

LEMMA ReindexKeeps ==
    ASSUME EntriesInv, ReindexAll
    PROVE  EntriesInv'
PROOF
  BY EntriesOnly DEF ReindexAll, EntriesStay, EntriesInv, EntriesTypeOK

LEMMA WriteEmbeddingKeeps ==
    ASSUME EntriesInv, NEW e \in Entries, WriteEmbedding(e)
    PROVE  EntriesInv'
PROOF
<1> DEFINE i == (reread[e] = "same")
           row == [entry[e] EXCEPT !.indexed = i]
<1>1. /\ reread[e] # "none" /\ UNCHANGED <<wordings, maker, entriesRaced>>
      /\ entry' = [entry EXCEPT ![e].indexed = i] /\ reread' = [reread EXCEPT ![e] = "none"]
  BY DEF WriteEmbedding
<1>2. entry[e] \in EntryRow
  BY <1>1 DEF EntriesInv, EntriesTypeOK
<1>3. i \in BOOLEAN
  OBVIOUS
<1> HIDE DEF i
<1>4. row \in EntryRow /\ row.from = entry[e].from
  BY <1>2, <1>3 DEF EntryRow
<1>5. entry' = [entry EXCEPT ![e] = row]
  BY <1>1
<1> HIDE DEF row
<1>6. entry' \in [Entries -> {NoEntry} \cup EntryRow] /\ EntriesStay
      /\ \A x \in Entries : entry[x] # NoEntry => entry'[x] # NoEntry
  BY <1>2, <1>4, <1>5, NoEntryAssumption DEF EntriesInv, EntriesTypeOK, EntriesStay
<1>7. reread' \in [Entries -> {"none", "same", "old"}] /\ \A x \in Entries : reread'[x] # "none" => reread[x] # "none"
  BY <1>1 DEF EntriesInv, EntriesTypeOK
<1> QED
  BY <1>1, <1>6, <1>7, EntriesOnly DEF EntriesInv, EntriesTypeOK

\* One maker moves on, and has made what it does not have left.
LEMMA MakerMoves ==
    ASSUME EntriesInv, EntriesStay, NEW m \in Makers, NEW k \in Maker, maker' = [maker EXCEPT ![m] = k],
           entry' \in [Entries -> {NoEntry} \cup EntryRow],
           wordings' \in [Entries -> {"none", "one", "more"}], reread' \in [Entries -> {"none", "same", "old"}],
           \A e \in Entries : wordings'[e] # "none" \/ reread'[e] # "none" => entry'[e] # NoEntry,
           entriesRaced' \subseteq Origins,
           \A o \in k.batch : o \in k.left \/ o = k.create \/ \E e \in Entries : entry'[e] # NoEntry /\ entry'[e].from = o
    PROVE  EntriesInv'
PROOF
<1>1. maker' \in [Makers -> Maker]
  BY DEF EntriesInv, EntriesTypeOK, Maker
<1>2. ASSUME NEW n \in Makers, NEW o \in maker'[n].batch
      PROVE  o \in maker'[n].left \/ o = maker'[n].create
               \/ \E e \in Entries : entry'[e] # NoEntry /\ entry'[e].from = o
  <2>1. CASE n = m
    BY <1>2, <2>1 DEF EntriesInv, EntriesTypeOK
  <2>2. CASE n # m
    BY <2>2, <1>2, MadeStays DEF EntriesInv, EntriesTypeOK, DoneIsMade
  <2> QED
    BY <2>1, <2>2
<1>3. DoneIsMade'
  BY <1>2 DEF DoneIsMade, MadeFrom
<1>4. EntriesTypeOK'
  BY <1>1 DEF EntriesTypeOK, Maker
<1> QED
  BY <1>3, <1>4 DEF EntriesInv

LEMMA StillStays ==
    ASSUME EntriesInv, UNCHANGED <<entry, wordings, reread>>
    PROVE  /\ EntriesStay
           /\ entry' \in [Entries -> {NoEntry} \cup EntryRow]
           /\ wordings' \in [Entries -> {"none", "one", "more"}]
           /\ reread' \in [Entries -> {"none", "same", "old"}]
           /\ \A x \in Entries : wordings'[x] # "none" \/ reread'[x] # "none" => entry'[x] # NoEntry
PROOF
  BY DEF EntriesInv, EntriesTypeOK, EntriesStay

LEMMA StartMakerKeeps ==
    ASSUME EntriesInv, NEW m \in Makers, StartMaker(m)
    PROVE  EntriesInv'
PROOF
<1>1. PICK b \in EntryBatches : maker' = [maker EXCEPT ![m].batch = b, ![m].left = b]
  BY DEF StartMaker
<1> DEFINE k == [maker[m] EXCEPT !.batch = b, !.left = b]
<1>2. maker' = [maker EXCEPT ![m] = k] /\ UNCHANGED <<entry, wordings, reread, entriesRaced>>
  BY <1>1 DEF StartMaker
<1>3. maker[m] \in Maker /\ b \subseteq Origins
  BY EntriesAssumption DEF EntriesInv, EntriesTypeOK, Maker
<1>4. k \in Maker /\ k.batch = b /\ k.left = b
  BY <1>3 DEF Maker
<1> HIDE DEF k
<1>5. entriesRaced' \subseteq Origins
  BY <1>2 DEF EntriesInv, EntriesTypeOK
<1> QED
  BY <1>2, <1>4, <1>5, StillStays, MakerMoves

LEMMA LookForEntryKeeps ==
    ASSUME EntriesInv, NEW m \in Makers, LookForEntry(m)
    PROVE  EntriesInv'
PROOF
<1>1. PICK o \in maker[m].left :
         /\ maker' = [maker EXCEPT ![m].left = @ \ {o}, ![m].create = IF MadeFrom(o) # {} THEN NoEntry ELSE o]
         /\ entriesRaced' = IF \E k \in Makers \ {m} : maker[k].create = o THEN entriesRaced \cup {o} ELSE entriesRaced
  BY DEF LookForEntry
<1> DEFINE c == IF MadeFrom(o) # {} THEN NoEntry ELSE o
           k == [maker[m] EXCEPT !.left = maker[m].left \ {o}, !.create = c]
<1>2. maker' = [maker EXCEPT ![m] = k] /\ UNCHANGED <<entry, wordings, reread>> /\ maker[m].create = NoEntry
  <2>1. maker[m].create = NoEntry /\ UNCHANGED <<entry, wordings, reread>>
    BY DEF LookForEntry
  <2>2. maker' = [maker EXCEPT ![m].left = @ \ {o}, ![m].create = c]
    BY <1>1
  <2> HIDE DEF c
  <2> QED
    BY <2>1, <2>2
<1>3. maker[m] \in Maker /\ maker \in [Makers -> Maker]
  BY DEF EntriesInv, EntriesTypeOK, Maker
<1>4. o \in Origins /\ c \in Origins \cup {NoEntry}
  BY <1>3 DEF Maker
<1>5. MadeFrom(o) = {} => c = o
  OBVIOUS
<1> HIDE DEF c
<1>6. k \in Maker /\ k.batch = maker[m].batch /\ k.left = maker[m].left \ {o} /\ k.create = c
  BY <1>3, <1>4 DEF Maker
<1> HIDE DEF k
<1>7. entriesRaced' \subseteq Origins
  BY <1>1, <1>4 DEF EntriesInv, EntriesTypeOK
<1>8. ASSUME NEW x \in k.batch
      PROVE  x \in k.left \/ x = k.create \/ \E e \in Entries : entry'[e] # NoEntry /\ entry'[e].from = x
  <2>1. x \in maker[m].left \/ x = NoEntry \/ MadeFrom(x) # {}
    BY <1>2, <1>6, <1>8 DEF EntriesInv, DoneIsMade
  <2>2. x \in Origins
    BY <1>3, EntriesAssumption, <1>6, <1>8 DEF Maker
  <2>3. x = o => x = k.create \/ MadeFrom(x) # {}
    BY <1>5, <1>6
  <2>4. MadeFrom(x) # {} => \E e \in Entries : entry'[e] # NoEntry /\ entry'[e].from = x
    BY <1>2 DEF MadeFrom
  <2> QED
    BY <1>6, <2>1, <2>2, <2>3, <2>4, EntriesAssumption
<1> QED
  BY <1>2, <1>6, <1>7, <1>8, StillStays, MakerMoves

LEMMA MakeEntryKeeps ==
    ASSUME EntriesInv, NEW m \in Makers, NEW e \in Entries, MakeEntry(m, e)
    PROVE  EntriesInv'
PROOF
<1> DEFINE o == maker[m].create
           k == [maker[m] EXCEPT !.create = NoEntry]
<1>1. o # NoEntry /\ NewEntry(e, o) /\ maker' = [maker EXCEPT ![m] = k] /\ UNCHANGED entriesRaced
  BY DEF MakeEntry
<1>2. maker[m] \in Maker
  BY DEF EntriesInv, EntriesTypeOK, Maker
<1>3. k \in Maker /\ k.batch = maker[m].batch /\ k.left = maker[m].left /\ o \in Origins \cup {NoEntry}
  BY <1>2 DEF Maker
<1> HIDE DEF k
<1>4. /\ EntriesStay
      /\ entry' \in [Entries -> {NoEntry} \cup EntryRow]
      /\ wordings' \in [Entries -> {"none", "one", "more"}]
      /\ reread' \in [Entries -> {"none", "same", "old"}]
      /\ \A x \in Entries : wordings'[x] # "none" \/ reread'[x] # "none" => entry'[x] # NoEntry
      /\ entry'[e] # NoEntry /\ entry'[e].from = o
  BY <1>1, <1>3, NewEntryKeeps
<1>5. ASSUME NEW x \in k.batch
      PROVE  x \in k.left \/ x = k.create \/ \E y \in Entries : entry'[y] # NoEntry /\ entry'[y].from = x
  BY <1>3, <1>4, <1>5, MadeStays DEF EntriesInv, DoneIsMade
<1>6. entriesRaced' \subseteq Origins
  BY <1>1 DEF EntriesInv, EntriesTypeOK
<1> QED
  BY <1>1, <1>3, <1>4, <1>5, <1>6, MakerMoves

LEMMA MakerStops ==
    ASSUME EntriesInv, NEW m \in Makers, MakerEnds(m) \/ MakerDies(m)
    PROVE  EntriesInv'
PROOF
  BY StillStays, MakerMoves DEF MakerEnds, MakerDies, IdleMaker, Maker, EntriesInv, EntriesTypeOK

LEMMA EntriesStepKeeps == EntriesInv /\ [EntriesNext]_entryVars => EntriesInv'
PROOF
<1>1. ASSUME EntriesInv, UNCHANGED entryVars PROVE EntriesInv'
  BY <1>1, StillStays, EntriesOnly DEF entryVars
<1> QED
  BY <1>1, ReindexKeeps, CreateKeeps, RewordKeeps, WriteEmbeddingKeeps, EntryStatusKeeps, StartMakerKeeps,
     LookForEntryKeeps, MakerStops, MakeEntryKeeps
  DEF EntriesNext

\* A run that ends has made its entries: what is neither left nor being made is there.
LEMMA RunMadeAll ==
    ASSUME EntriesInv, NEW m \in Makers, maker[m].left = {}, maker[m].create = NoEntry, NEW o \in maker[m].batch
    PROVE  MadeFrom(o) # {}
PROOF
  BY EntriesAssumption DEF EntriesInv, EntriesTypeOK, DoneIsMade

\* An index is lost in WriteEmbedding only, to a reindexing that read an old wording.
LEMMA IndexLost ==
    ASSUME EntriesInv, [EntriesNext]_entryVars, NEW e \in Entries, entry[e] # NoEntry, entry[e].indexed,
           ~entry'[e].indexed
    PROVE  reread[e] = "old"
PROOF
<1>1. entry \in [Entries -> {NoEntry} \cup EntryRow] /\ entry[e] \in EntryRow
  BY DEF EntriesInv, EntriesTypeOK
<1>2. ASSUME entry' = entry PROVE FALSE
  BY <1>2
<1>3. ASSUME NEW x \in Entries, NEW row, Word(x, row), row.indexed PROVE FALSE
  BY <1>1, <1>3 DEF Word
<1>4. ASSUME NEW x \in Entries, NEW o, NewEntry(x, o) PROVE FALSE
  BY <1>3, <1>4 DEF NewEntry
<1>5. ASSUME NEW x \in Entries, EditEntry(x) \/ RollBack(x) PROVE FALSE
  <2> DEFINE row == [entry[x] EXCEPT !.status = "draft", !.indexed = TRUE]
  <2>1. entry[x] # NoEntry /\ Word(x, row)
    BY <1>5 DEF EditEntry, RollBack, EntriesInv
  <2>2. row.indexed
    BY <1>1, <2>1 DEF EntryRow
  <2> HIDE DEF row
  <2> QED
    BY <1>3, <2>1, <2>2
<1>6. ASSUME NEW x \in Entries, NEW s, SetEntryStatus(x, s) PROVE FALSE
  <2> DEFINE i == entry[x].indexed \/ s = "active"
  <2>1. entry' = [entry EXCEPT ![x].status = s, ![x].indexed = i]
    BY <1>6 DEF SetEntryStatus
  <2>2. x = e => i
    OBVIOUS
  <2> HIDE DEF i
  <2>3. x = e => entry'[e].indexed = i
    BY <1>1, <2>1 DEF EntryRow
  <2>4. x # e => entry'[e] = entry[e]
    BY <1>1, <2>1
  <2> QED
    BY <2>2, <2>3, <2>4
<1>7. ASSUME NEW x \in Entries, WriteEmbedding(x) PROVE reread[e] = "old"
  <2> DEFINE i == (reread[x] = "same")
  <2>1. reread[x] # "none" /\ entry' = [entry EXCEPT ![x].indexed = i]
    BY <1>7 DEF WriteEmbedding
  <2>2. reread[x] \in {"none", "same", "old"}
    BY DEF EntriesInv, EntriesTypeOK
  <2>3. x # e => entry'[e] = entry[e]
    BY <1>1, <2>1
  <2>4. x = e
    BY <2>3
  <2>5. entry'[e].indexed = i
    <3> HIDE DEF i
    <3> QED
      BY <1>1, <2>1, <2>4 DEF EntryRow
  <2> QED
    BY <2>1, <2>2, <2>4, <2>5
<1>8. ASSUME NEW m \in Makers, \/ StartMaker(m) \/ LookForEntry(m) \/ MakerEnds(m) \/ MakerDies(m)
                               \/ \E x \in Entries : MakeEntry(m, x)
      PROVE  FALSE
  BY <1>2, <1>4, <1>8 DEF StartMaker, LookForEntry, MakerEnds, MakerDies, MakeEntry
<1> QED
  BY <1>2, <1>4, <1>5, <1>6, <1>7, <1>8 DEF EntriesNext, entryVars, ReindexAll, CreateEntry

-----------------------------------------------------------------------------
(* The intake again: what becomes of a message, of its ticket and of what    *)
(* the conversation says of its last reply.                                  *)

At(k) == k.batch[k.at]
Rested == {"idle", "done", "failed"}
AfterReply == {"ticket", "ping", "result", "score", "send"}
PastLookup == {"detail", "reopen", "exists", "reply"} \cup AfterReply

\* Nothing is left to do for m.
HandledMsg(m, rp, ib, dr) == m \in Ratings \cup dr \cup (rp \cap ib)

\* What a delivery that stands at k has behind it: every message before the one at hand, and of that one
\* what comes before the statement at hand; alone on the message, nobody else has done what it is about to do.
MessageTells(k, rp, ib, dr, out, tickets, over) ==
    /\ k.pc \notin Rested => \A i \in 1 .. Len(k.batch) : i < k.at => HandledMsg(k.batch[i], rp, ib, dr)
    /\ k.pc = "done" => \A i \in 1 .. Len(k.batch) : HandledMsg(k.batch[i], rp, ib, dr)
    /\ k.pc = "next" => HandledMsg(At(k), rp, ib, dr)
    /\ k.pc \in PastLookup => At(k) \notin Ratings
    /\ k.pc = "reply" => At(k) \in ib
    /\ k.pc \in AfterReply => At(k) \in rp
    /\ k.pc \in PastLookup /\ At(k) \notin over =>
          /\ k.pc \in AfterReply \cup {"reply"} => out[At(k)] = 0
          /\ k.pc = "reply" => At(k) \notin rp
          /\ k.pc = "ticket" => \A t \in LTickets : tickets[t] # NoTicket => tickets[t].msg # At(k)

\* A message is stored before its reply and has its reply before its ticket; alone on it, a delivery makes
\* one ticket and sends one reply.
MessagesInv ==
    /\ replied \subseteq inbound /\ inbound \subseteq CustMsgs \ Ratings
    /\ sent \in [CustMsgs -> Nat] /\ inboxOverlapped \subseteq CustMsgs
    /\ \A h \in Hooks : MessageTells(hook[h], replied, inbound, dropped, sent, tix, inboxOverlapped)
    /\ \A t \in LTickets : Saved(t) => tix[t].msg \in replied \cup {NoMsg}
    /\ \A m \in CustMsgs \ inboxOverlapped :
          /\ sent[m] <= 1 /\ (m \notin replied => sent[m] = 0)
          /\ \A t, u \in LTickets : Saved(t) /\ Saved(u) /\ tix[t].msg = m /\ tix[u].msg = m => t = u
          /\ \A g, h \in Hooks : HookRuns(g) /\ HookRuns(h) /\ Msg(g) = m /\ Msg(h) = m => g = h

\* A ticket is linked to its conversation, or about to be, or what was to link it broke off.
TicketsInv ==
    /\ broken \subseteq Threads /\ blockedSenders \subseteq Threads
    /\ \A h \in Hooks : hook[h].seen # NoTicket => HookRuns(h) /\ tix[hook[h].seen].thread = Th(h)
    /\ \A c \in Threads : thread[c].ticket # NoTicket => tix[thread[c].ticket].thread = c
    /\ \A d \in DeskJobs : /\ deskJob[d].ticket # NoTicket => tix[deskJob[d].ticket].thread = deskJob[d].thread
                           /\ deskJob[d].pc = "attach" => deskJob[d].ticket # NoTicket
                           /\ deskJob[d].pc = "take" => deskJob[d].ticket = NoTicket
    /\ \A t \in LTickets : Saved(t) =>
          \/ thread[tix[t].thread].ticket # NoTicket
          \/ tix[t].thread \in broken
          \/ \E h \in Hooks : hook[h].pc \in {"ping", "result"} /\ hook[h].seen = t
          \/ \E d \in DeskJobs : deskJob[d].pc = "attach" /\ deskJob[d].ticket = t
    /\ \A t \in LTickets : Saved(t) /\ tix[t].urgent /\ tix[t].ping = "none" =>
          \/ tix[t].thread \in broken
          \/ \E h \in Hooks : hook[h].pc = "ping" /\ hook[h].seen = t

\* Alone on its conversation, a delivery grades the reply it has just recorded there.
GradesInv ==
    /\ \A g, h \in Hooks : HookRuns(g) /\ HookRuns(h) /\ Th(g) = Th(h) /\ Th(h) \notin crowded => g = h
    /\ \A h \in Hooks : hook[h].pc = "score" /\ Th(h) \notin crowded => thread[Th(h)].confidence = Msg(h)
    /\ \A c \in Threads \ (TestSenders \cup broken \cup crowded) :
          \/ thread[c].autoQa = thread[c].confidence
          \/ \E h \in Hooks : hook[h].pc = "score" /\ Th(h) = c

IntakeInv == MessagesInv /\ TicketsInv /\ GradesInv

\* But for those in moving, deliveries stay where they are (the version one read may become old).
OthersStand(moving) ==
    \A g \in Hooks \ moving : /\ hook'[g].pc = hook[g].pc /\ hook'[g].batch = hook[g].batch /\ hook'[g].at = hook[g].at
                              /\ hook'[g].seen = hook[g].seen

\* Delivery h stands at another statement of the same message.
Stands(h, pc, seen) ==
    /\ hook'[h].pc = pc /\ hook'[h].batch = hook[h].batch /\ hook'[h].at = hook[h].at
    /\ hook'[h].seen = seen

\* Saved tickets keep what they were made with; those in made are new.
TicketsKept(made) ==
    /\ \A t \in LTickets : Saved(t) => /\ tix'[t] # NoTicket /\ tix'[t].thread = tix[t].thread /\ tix'[t].msg = tix[t].msg
                                       /\ tix'[t].urgent = tix[t].urgent
                                       /\ tix'[t].ping = tix[t].ping \/ tix'[t].ping # "none"
    /\ \A t \in LTickets \ made : tix'[t] # NoTicket => Saved(t)

\* What a delivery tells of its messages stays so while another one goes on with message m.
LEMMA MessageStays ==
    ASSUME NEW k, NEW rp, NEW ib, NEW dr, NEW out, NEW tickets, NEW over, MessageTells(k, rp, ib, dr, out, tickets, over),
           NEW l, l.pc = k.pc, l.batch = k.batch, l.at = k.at,
           NEW rp2, NEW ib2, NEW dr2, NEW out2, NEW tickets2, NEW over2,
           rp \subseteq rp2, ib \subseteq ib2, dr \subseteq dr2, over \subseteq over2,
           k.pc \notin Rested /\ At(k) \notin over2 =>
              /\ out2[At(k)] = out[At(k)] /\ (At(k) \in rp2 => At(k) \in rp)
              /\ \A t \in LTickets : tickets2[t] # NoTicket /\ tickets2[t].msg = At(k)
                    => tickets[t] # NoTicket /\ tickets[t].msg = At(k)
    PROVE  MessageTells(l, rp2, ib2, dr2, out2, tickets2, over2)
PROOF
  BY DEF HandledMsg, At, MessageTells, Rested, PastLookup, AfterReply

\* One delivery, or none, goes on with message m; what it does to m is shown of it.
LEMMA MessagesStep ==
    ASSUME InboxInv, MessagesInv, NEW m \in CustMsgs \cup {NoMsg}, NEW moving \in SUBSET Hooks, OthersStand(moving),
           m # NoMsg => moving # {},
           \A h \in moving : /\ HookRuns(h) /\ Msg(h) = m
                             /\ MessageTells(hook'[h], replied', inbound', dropped', sent', tix', inboxOverlapped')
                             /\ HookRuns(h)' => Msg(h)' = m,
           replied \subseteq replied', inbound \subseteq inbound', dropped \subseteq dropped',
           replied' \subseteq replied \cup {m}, inbound' \subseteq CustMsgs \ Ratings, replied' \subseteq inbound',
           inboxOverlapped' = inboxOverlapped,
           sent' \in [CustMsgs -> Nat], \A x \in CustMsgs \ {m} : sent'[x] = sent[x],
           NEW made \in SUBSET LTickets, TicketsKept(made),
           \A t \in made : tix'[t] # NoTicket => tix'[t].msg \in {m, NoMsg} /\ (tix'[t].msg # NoMsg => m \in replied'),
           m \in CustMsgs \ inboxOverlapped =>
              /\ sent'[m] <= 1 /\ (m \notin replied' => sent'[m] = 0)
              /\ \A t, u \in LTickets : Saved(t)' /\ Saved(u)' /\ tix'[t].msg = m /\ tix'[u].msg = m => t = u
    PROVE  MessagesInv'
PROOF
<1>1. NoMsg \notin CustMsgs
  BY InboxAssumption DEF NoMsg
<1>2. ASSUME NEW g \in Hooks
      PROVE  MessageTells(hook'[g], replied', inbound', dropped', sent', tix', inboxOverlapped')
  <2>1. CASE g \in moving
    BY <2>1
  <2>2. CASE g \notin moving
    <3>1. MessageTells(hook[g], replied, inbound, dropped, sent, tix, inboxOverlapped)
      BY DEF MessagesInv
    <3>2. hook'[g].pc = hook[g].pc /\ hook'[g].batch = hook[g].batch /\ hook'[g].at = hook[g].at
      BY <2>2 DEF OthersStand
    <3>3. ASSUME hook[g].pc \notin Rested, Msg(g) \notin inboxOverlapped
          PROVE  /\ sent'[Msg(g)] = sent[Msg(g)] /\ (Msg(g) \in replied' => Msg(g) \in replied)
                 /\ \A t \in LTickets : tix'[t] # NoTicket /\ tix'[t].msg = Msg(g)
                       => tix[t] # NoTicket /\ tix[t].msg = Msg(g)
      <4>1. Msg(g) \in CustMsgs /\ HookRuns(g)
        BY <3>3, MessageAtHand DEF Rested, HookRuns
      <4>2. CASE Msg(g) = m
        BY <2>2, <3>3, <4>1, <4>2, <1>1 DEF MessagesInv
      <4>3. CASE Msg(g) # m
        BY <1>1, <4>1, <4>3 DEF TicketsKept, Saved
      <4> QED
        BY <4>2, <4>3
    <3>4. At(hook[g]) = Msg(g)
      BY DEF At, Msg
    <3> HIDE DEF At
    <3> QED
      BY <3>1, <3>2, <3>3, <3>4, MessageStays
  <2> QED
    BY <2>1, <2>2
<1>3. ASSUME NEW t \in LTickets, Saved(t)' PROVE tix'[t].msg \in replied' \cup {NoMsg}
  BY <1>3 DEF TicketsKept, MessagesInv, Saved
<1>4. \A h \in Hooks : HookRuns(h)' => HookRuns(h) /\ Msg(h)' = Msg(h)
  BY DEF OthersStand, HookRuns, Msg
<1>5. ASSUME NEW x \in CustMsgs \ inboxOverlapped
      PROVE  /\ sent'[x] <= 1 /\ (x \notin replied' => sent'[x] = 0)
             /\ \A t, u \in LTickets : Saved(t)' /\ Saved(u)' /\ tix'[t].msg = x /\ tix'[u].msg = x => t = u
             /\ \A g, h \in Hooks : HookRuns(g)' /\ HookRuns(h)' /\ Msg(g)' = x /\ Msg(h)' = x => g = h
  <2>1. \A g, h \in Hooks : HookRuns(g)' /\ HookRuns(h)' /\ Msg(g)' = x /\ Msg(h)' = x => g = h
    BY <1>4 DEF MessagesInv
  <2>2. CASE x = m
    BY <2>1, <2>2
  <2>3. CASE x # m
    BY <1>1, <2>3, <2>1 DEF TicketsKept, Saved, MessagesInv
  <2> QED
    BY <2>2, <2>3
<1>6. inboxOverlapped' \subseteq CustMsgs
  BY DEF MessagesInv
<1> QED
  BY <1>2, <1>3, <1>5, <1>6 DEF MessagesInv

\* A delivery turns to message m: whoever else is at it overlaps with it from now on.
LEMMA MessagesTurn ==
    ASSUME InboxInv, MessagesInv, NEW m \in CustMsgs, NEW h \in Hooks, OthersStand({h}),
           HookRuns(h)' /\ Msg(h)' = m, hook'[h].pc = "begin",
           MessageTells(hook'[h], replied, inbound, dropped, sent, tix, inboxOverlapped'),
           inboxOverlapped' = inboxOverlapped \cup {x \in {m} : \E g \in {i \in Hooks \ {h} : HookRuns(i)} : Msg(g) = m},
           UNCHANGED <<replied, inbound, dropped, sent, tix>>
    PROVE  MessagesInv'
PROOF
<1>1. ASSUME NEW g \in Hooks
      PROVE  MessageTells(hook'[g], replied', inbound', dropped', sent', tix', inboxOverlapped')
  <2>1. CASE g = h
    BY <2>1
  <2>2. CASE g # h
    BY <2>2, MessageStays DEF MessagesInv, OthersStand
  <2> QED
    BY <2>1, <2>2
<1>2. \A g \in Hooks \ {h} : HookRuns(g)' = HookRuns(g) /\ Msg(g)' = Msg(g)
  BY DEF OthersStand, HookRuns, Msg
<1>3. ASSUME NEW x \in CustMsgs \ inboxOverlapped', NEW f \in Hooks, NEW g \in Hooks,
             HookRuns(f)', HookRuns(g)', Msg(f)' = x, Msg(g)' = x
      PROVE  f = g
  BY <1>2, <1>3 DEF MessagesInv
<1>4. inboxOverlapped' \subseteq CustMsgs
  BY DEF MessagesInv
<1>5. \A t \in LTickets : Saved(t)' = Saved(t)
  BY DEF Saved
<1>6. replied' \subseteq inbound' /\ inbound' \subseteq CustMsgs \ Ratings /\ sent' \in [CustMsgs -> Nat]
      /\ \A t \in LTickets : Saved(t)' => tix'[t].msg \in replied' \cup {NoMsg}
  BY <1>5 DEF MessagesInv
<1>7. ASSUME NEW x \in CustMsgs \ inboxOverlapped'
      PROVE  /\ sent'[x] <= 1 /\ (x \notin replied' => sent'[x] = 0)
             /\ \A t, u \in LTickets : Saved(t)' /\ Saved(u)' /\ tix'[t].msg = x /\ tix'[u].msg = x => t = u
  BY <1>5 DEF MessagesInv
<1> QED
  BY <1>1, <1>3, <1>4, <1>6, <1>7 DEF MessagesInv

\* No ticket and no link is made: deliveries go on, or stop and are known to have.
LEMMA TicketsStep ==
    ASSUME InboxInv, TicketsInv, NEW moving \in SUBSET Hooks, OthersStand(moving),
           broken \subseteq broken', broken' \subseteq Threads, blockedSenders' \subseteq Threads, deskJob' = deskJob,
           \A c \in Threads : thread'[c].ticket = thread[c].ticket,
           TicketsKept({}),
           \A h \in moving :
              /\ hook'[h].seen # NoTicket => HookRuns(h)' /\ hook'[h].seen \in LTickets
                                             /\ Saved(hook'[h].seen) /\ tix[hook'[h].seen].thread = Th(h)'
              /\ hook[h].pc \in {"ping", "result"} =>
                    Th(h) \in broken' \/ (hook'[h].pc \in {"ping", "result"} /\ hook'[h].seen = hook[h].seen)
              /\ hook[h].pc = "ping" =>
                    \/ Th(h) \in broken' \/ (hook'[h].pc = "ping" /\ hook'[h].seen = hook[h].seen)
                    \/ tix'[hook[h].seen].ping # "none"
    PROVE  TicketsInv'
PROOF
<1>1. \A t \in LTickets : /\ Saved(t)' = Saved(t)
                          /\ Saved(t) => tix'[t].thread = tix[t].thread /\ tix[t].thread \in Threads
  BY DEF TicketsKept, Saved, InboxInv, TicketRow
<1>2. \A h \in Hooks : hook[h].seen # NoTicket => hook[h].seen \in LTickets /\ Saved(hook[h].seen)
  BY HookHas DEF InboxInv, HookSound, Saved
<1>3. ASSUME NEW h \in Hooks, hook'[h].seen # NoTicket PROVE HookRuns(h)' /\ tix'[hook'[h].seen].thread = Th(h)'
  <2>1. CASE h \in moving
    BY <1>1, <1>3, <2>1
  <2>2. CASE h \notin moving
    BY <2>2, <1>1, <1>2, <1>3 DEF OthersStand, HookRuns, Th, Msg, TicketsInv
  <2> QED
    BY <2>1, <2>2
<1>4. ASSUME NEW c \in Threads, thread'[c].ticket # NoTicket PROVE tix'[thread'[c].ticket].thread = c
  BY <1>1, <1>4 DEF TicketsInv, InboxInv, ThreadRow
<1>5. ASSUME NEW d \in DeskJobs
      PROVE /\ deskJob'[d].ticket # NoTicket => tix'[deskJob'[d].ticket].thread = deskJob'[d].thread
            /\ deskJob'[d].pc = "attach" => deskJob'[d].ticket # NoTicket
            /\ deskJob'[d].pc = "take" => deskJob'[d].ticket = NoTicket
  BY <1>1, <1>5 DEF TicketsInv, InboxInv, DeskRequest
<1>6. ASSUME NEW t \in LTickets, Saved(t)
      PROVE  \/ thread'[tix'[t].thread].ticket # NoTicket \/ tix'[t].thread \in broken'
             \/ \E h \in Hooks : hook'[h].pc \in {"ping", "result"} /\ hook'[h].seen = t
             \/ \E d \in DeskJobs : deskJob'[d].pc = "attach" /\ deskJob'[d].ticket = t
  <2>1. CASE \E h \in Hooks : hook[h].pc \in {"ping", "result"} /\ hook[h].seen = t
    <3>1. PICK h \in Hooks : hook[h].pc \in {"ping", "result"} /\ hook[h].seen = t
      BY <2>1
    <3>2. CASE h \in moving
      BY <3>1, InboxAssumption, <1>1, <1>6, <3>2 DEF TicketsInv
    <3>3. CASE h \notin moving
      BY <3>1, <3>3 DEF OthersStand
    <3> QED
      BY <3>2, <3>3
  <2>2. CASE ~\E h \in Hooks : hook[h].pc \in {"ping", "result"} /\ hook[h].seen = t
    BY <1>1, <1>6, <2>2 DEF TicketsInv
  <2> QED
    BY <2>1, <2>2
<1>7. ASSUME NEW t \in LTickets, Saved(t), tix'[t].urgent /\ tix'[t].ping = "none"
      PROVE  tix'[t].thread \in broken' \/ \E h \in Hooks : hook'[h].pc = "ping" /\ hook'[h].seen = t
  <2>1. tix[t].urgent /\ tix[t].ping = "none"
    BY <1>7 DEF TicketsKept
  <2>2. CASE \E h \in Hooks : hook[h].pc = "ping" /\ hook[h].seen = t
    <3>1. PICK h \in Hooks : hook[h].pc = "ping" /\ hook[h].seen = t
      BY <2>2
    <3>2. CASE h \in moving
      BY <3>1, InboxAssumption, <1>1, <1>7, <3>2 DEF TicketsInv
    <3>3. CASE h \notin moving
      BY <3>1, <3>3 DEF OthersStand
    <3> QED
      BY <3>2, <3>3
  <2>3. CASE ~\E h \in Hooks : hook[h].pc = "ping" /\ hook[h].seen = t
    BY <1>1, <1>7, <2>1, <2>3 DEF TicketsInv
  <2> QED
    BY <2>2, <2>3
<1> QED
  BY <1>1, <1>3, <1>4, <1>5, <1>6, <1>7 DEF TicketsInv

\* Deliveries go on without grading, on the conversations they are on.
LEMMA GradesStep ==
    ASSUME InboxInv, GradesInv, NEW moving \in SUBSET Hooks, OthersStand(moving),
           broken \subseteq broken', crowded' = crowded,
           \A c \in Threads : thread'[c].confidence = thread[c].confidence /\ thread'[c].autoQa = thread[c].autoQa,
           \A h \in moving : /\ HookRuns(h)' => HookRuns(h) /\ Th(h)' = Th(h)
                             /\ hook'[h].pc # "score"
                             /\ hook[h].pc = "score" => Th(h) \in broken'
    PROVE  GradesInv'
PROOF
<1>1. \A h \in Hooks \ moving : HookRuns(h)' = HookRuns(h) /\ Th(h)' = Th(h) /\ Msg(h)' = Msg(h) /\ hook'[h].pc = hook[h].pc
  BY DEF OthersStand, HookRuns, Th, Msg
<1>2. ASSUME NEW g \in Hooks, NEW h \in Hooks, HookRuns(g)', HookRuns(h)', Th(g)' = Th(h)', Th(h)' \notin crowded'
      PROVE  g = h
  BY <1>1, <1>2 DEF GradesInv
<1>3. ASSUME NEW h \in Hooks, hook'[h].pc = "score", Th(h)' \notin crowded' PROVE thread'[Th(h)'].confidence = Msg(h)'
  BY <1>1, <1>3, MessageAtHand DEF GradesInv
<1>4. ASSUME NEW c \in Threads \ (TestSenders \cup broken' \cup crowded')
      PROVE  thread'[c].autoQa = thread'[c].confidence \/ \E h \in Hooks : hook'[h].pc = "score" /\ Th(h)' = c
  <2>1. c \in Threads \ (TestSenders \cup broken \cup crowded)
    BY <1>4
  <2>2. CASE thread[c].autoQa = thread[c].confidence
    BY <1>4, <2>2
  <2>3. CASE thread[c].autoQa # thread[c].confidence
    BY <2>1, <2>3, <1>4, <1>1 DEF GradesInv
  <2> QED
    BY <2>2, <2>3
<1> QED
  BY <1>2, <1>3, <1>4 DEF GradesInv

\* A delivery turns to a message: whoever else is on its conversation crowds it from now on.
LEMMA GradesTurn ==
    ASSUME InboxInv, GradesInv, NEW h \in Hooks, OthersStand({h}), hook[h].pc # "score", hook'[h].pc = "begin",
           crowded' = crowded \cup {c \in {Th(h)'} : \E g \in {i \in Hooks \ {h} : HookRuns(i)} : Th(g) = c},
           UNCHANGED <<thread, broken>>
    PROVE  GradesInv'
PROOF
<1>1. \A g \in Hooks \ {h} : HookRuns(g)' = HookRuns(g) /\ Th(g)' = Th(g) /\ Msg(g)' = Msg(g) /\ hook'[g].pc = hook[g].pc
  BY DEF OthersStand, HookRuns, Th, Msg
<1>2. ASSUME NEW f \in Hooks, NEW g \in Hooks, HookRuns(f)', HookRuns(g)', Th(f)' = Th(g)', Th(g)' \notin crowded'
      PROVE  f = g
  BY <1>1, <1>2 DEF GradesInv
<1>3. ASSUME NEW g \in Hooks, hook'[g].pc = "score", Th(g)' \notin crowded' PROVE thread'[Th(g)'].confidence = Msg(g)'
  BY <1>1, <1>3 DEF GradesInv
<1>4. ASSUME NEW c \in Threads \ (TestSenders \cup broken' \cup crowded')
      PROVE  thread'[c].autoQa = thread'[c].confidence \/ \E g \in Hooks : hook'[g].pc = "score" /\ Th(g)' = c
  BY <1>1, <1>4 DEF GradesInv
<1> QED
  BY <1>2, <1>3, <1>4 DEF GradesInv

\* What is known of the message at hand.
LEMMA MessageHas ==
    ASSUME InboxInv, MessagesInv, NEW h \in Hooks, HookRuns(h)
    PROVE  /\ Msg(h) \in CustMsgs /\ Th(h) \in Threads /\ hook[h].pc \notin Rested
           /\ hook[h].pc \in PastLookup => Msg(h) \notin Ratings
           /\ hook[h].pc = "next" => HandledMsg(Msg(h), replied, inbound, dropped)
           /\ hook[h].pc = "reply" => Msg(h) \in inbound
           /\ hook[h].pc \in AfterReply => Msg(h) \in replied
           /\ hook[h].pc \in AfterReply \cup {"reply"} /\ Msg(h) \notin inboxOverlapped => sent[Msg(h)] = 0
           /\ hook[h].pc = "reply" /\ Msg(h) \notin inboxOverlapped => Msg(h) \notin replied
           /\ hook[h].pc = "ticket" /\ Msg(h) \notin inboxOverlapped =>
                \A t \in LTickets : Saved(t) => tix[t].msg # Msg(h)
PROOF
  BY MessageAtHand DEF HookRuns, Rested, MessagesInv, At, Msg, MessageTells, PastLookup, AfterReply, Saved

\* Delivery h goes on to another statement of the message at hand.
LEMMA MessageGoesOn ==
    ASSUME InboxInv, MessagesInv, NEW h \in Hooks, HookRuns(h), OthersStand({h}),
           NEW pc, pc \notin Rested, NEW seen, Stands(h, pc, seen),
           replied \subseteq replied', inbound \subseteq inbound', dropped \subseteq dropped',
           replied' \subseteq replied \cup {Msg(h)}, inbound' \subseteq CustMsgs \ Ratings, replied' \subseteq inbound',
           inboxOverlapped' = inboxOverlapped,
           sent' \in [CustMsgs -> Nat], \A x \in CustMsgs \ {Msg(h)} : sent'[x] = sent[x],
           NEW made \in SUBSET LTickets, TicketsKept(made),
           \A t \in made : tix'[t] # NoTicket =>
              tix'[t].msg \in {Msg(h), NoMsg} /\ (tix'[t].msg # NoMsg => Msg(h) \in replied'),
           Msg(h) \notin inboxOverlapped =>
              /\ sent'[Msg(h)] <= 1 /\ (Msg(h) \notin replied' => sent'[Msg(h)] = 0)
              /\ \A t, u \in LTickets : Saved(t)' /\ Saved(u)' /\ tix'[t].msg = Msg(h) /\ tix'[u].msg = Msg(h) => t = u,
           pc = "next" => HandledMsg(Msg(h), replied', inbound', dropped'),
           pc \in PastLookup => Msg(h) \notin Ratings,
           pc = "reply" => Msg(h) \in inbound',
           pc \in AfterReply => Msg(h) \in replied',
           pc \in PastLookup /\ Msg(h) \notin inboxOverlapped =>
              /\ pc \in AfterReply \cup {"reply"} => sent'[Msg(h)] = 0
              /\ pc = "reply" => Msg(h) \notin replied'
              /\ pc = "ticket" => \A t \in LTickets : tix'[t] # NoTicket => tix'[t].msg # Msg(h)
    PROVE  MessagesInv'
PROOF
<1>1. HookRuns(h)' /\ Msg(h)' = Msg(h) /\ At(hook'[h]) = Msg(h)
  BY DEF Stands, HookRuns, Rested, Msg, At
<1>2. Msg(h) \in CustMsgs /\ hook[h].pc \notin Rested
  BY MessageHas
<1>3. MessageTells(hook[h], replied, inbound, dropped, sent, tix, inboxOverlapped)
  BY DEF MessagesInv
<1>4. \A i \in 1 .. Len(hook[h].batch) : i < hook[h].at => HandledMsg(hook[h].batch[i], replied', inbound', dropped')
  BY <1>2, <1>3 DEF MessageTells, HandledMsg
<1>5. hook'[h].pc = pc /\ hook'[h].batch = hook[h].batch /\ hook'[h].at = hook[h].at /\ pc # "done"
  BY DEF Stands, Rested
<1> HIDE DEF At, Msg, HandledMsg, PastLookup, AfterReply
<1>6. MessageTells(hook'[h], replied', inbound', dropped', sent', tix', inboxOverlapped')
  BY <1>1, <1>4, <1>5 DEF MessageTells
<1> DEFINE m == Msg(h)
<1>7. m \in CustMsgs \cup {NoMsg} /\ {h} \in SUBSET Hooks /\ {h} # {}
  BY <1>2
<1>8. \A g \in {h} : /\ HookRuns(g) /\ Msg(g) = m
                     /\ MessageTells(hook'[g], replied', inbound', dropped', sent', tix', inboxOverlapped')
                     /\ HookRuns(g)' => Msg(g)' = m
  BY <1>1, <1>6
<1>9. m \in CustMsgs \ inboxOverlapped =>
              /\ sent'[m] <= 1 /\ (m \notin replied' => sent'[m] = 0)
              /\ \A t, u \in LTickets : Saved(t)' /\ Saved(u)' /\ tix'[t].msg = m /\ tix'[u].msg = m => t = u
  OBVIOUS
<1>10. \A x \in CustMsgs \ {m} : sent'[x] = sent[x]
  OBVIOUS
<1>11. \A t \in made : tix'[t] # NoTicket => tix'[t].msg \in {m, NoMsg} /\ (tix'[t].msg # NoMsg => m \in replied')
  OBVIOUS
<1>12. replied' \subseteq replied \cup {m}
  OBVIOUS
<1> HIDE DEF m
<1> QED
  BY <1>7, <1>8, <1>9, <1>10, <1>11, <1>12, MessagesStep

\* The same, where no message is stored, answered or sent and no ticket made.
LEMMA MessageQuiet ==
    ASSUME InboxInv, MessagesInv, NEW h \in Hooks, HookRuns(h), OthersStand({h}),
           NEW pc, pc \notin Rested, NEW seen, Stands(h, pc, seen), TicketsKept({}), dropped \subseteq dropped',
           UNCHANGED <<replied, inbound, sent, inboxOverlapped>>,
           pc = "next" => HandledMsg(Msg(h), replied, inbound, dropped'),
           pc \in PastLookup => Msg(h) \notin Ratings,
           pc # "reply", pc # "ticket",
           pc \in AfterReply => hook[h].pc \in AfterReply
    PROVE  MessagesInv'
PROOF
<1>1. /\ Msg(h) \in CustMsgs
      /\ hook[h].pc \in AfterReply => Msg(h) \in replied
      /\ hook[h].pc \in AfterReply /\ Msg(h) \notin inboxOverlapped => sent[Msg(h)] = 0
  BY MessageHas
<1>2. /\ replied' \subseteq replied \cup {Msg(h)} /\ inbound' \subseteq CustMsgs \ Ratings /\ replied' \subseteq inbound'
      /\ sent' \in [CustMsgs -> Nat] /\ \A x \in CustMsgs \ {Msg(h)} : sent'[x] = sent[x]
  BY DEF MessagesInv
<1>3. \A t \in LTickets : Saved(t)' => Saved(t) /\ tix'[t].msg = tix[t].msg
  BY DEF TicketsKept, Saved
<1>4. Msg(h) \notin inboxOverlapped =>
              /\ sent'[Msg(h)] <= 1 /\ (Msg(h) \notin replied' => sent'[Msg(h)] = 0)
              /\ \A t, u \in LTickets : Saved(t)' /\ Saved(u)' /\ tix'[t].msg = Msg(h) /\ tix'[u].msg = Msg(h) => t = u
  BY <1>1, <1>3 DEF MessagesInv
<1> HIDE DEF Msg, HandledMsg, PastLookup, AfterReply, HookRuns, OthersStand, Stands, TicketsKept
<1>5. {} \in SUBSET LTickets /\ \A t \in {} : tix'[t] # NoTicket =>
              tix'[t].msg \in {Msg(h), NoMsg} /\ (tix'[t].msg # NoMsg => Msg(h) \in replied')
  OBVIOUS
<1>6. /\ pc \in AfterReply => Msg(h) \in replied'
      /\ pc \in PastLookup /\ Msg(h) \notin inboxOverlapped =>
              /\ pc \in AfterReply \cup {"reply"} => sent'[Msg(h)] = 0
              /\ pc = "reply" => Msg(h) \notin replied'
              /\ pc = "ticket" => \A t \in LTickets : tix'[t] # NoTicket => tix'[t].msg # Msg(h)
  BY <1>1
<1>7. pc = "next" => HandledMsg(Msg(h), replied', inbound', dropped')
  OBVIOUS
<1> QED
  BY <1>2, <1>4, <1>5, <1>6, <1>7, MessageGoesOn

\* A delivery moves by the fields of it that are written.
LEMMA HookMovesOn ==
    ASSUME InboxInv, NEW h \in Hooks, NEW k, hook' = [hook EXCEPT ![h] = k], k.batch = hook[h].batch, k.at = hook[h].at
    PROVE  OthersStand({h}) /\ Stands(h, k.pc, k.seen)
PROOF
  BY DEF InboxInv, OthersStand, Stands

LEMMA PcMovesOn ==
    ASSUME InboxInv, NEW h \in Hooks, NEW pc, Step(h, pc)
    PROVE  OthersStand({h}) /\ Stands(h, pc, hook[h].seen)
PROOF
<1> DEFINE k == [hook[h] EXCEPT !.pc = pc]
<1>1. hook' = [hook EXCEPT ![h] = k]
  BY DEF Step
<1>2. k.pc = pc /\ k.batch = hook[h].batch /\ k.at = hook[h].at /\ k.seen = hook[h].seen
  BY HookHas DEF Hook
<1> HIDE DEF k
<1> QED
  BY <1>1, <1>2, HookMovesOn

\* Tickets nobody writes are kept.
LEMMA TicketsUnmoved ==
    ASSUME tix' = tix
    PROVE  TicketsKept({}) /\ \A t \in LTickets : Saved(t)' = Saved(t)
PROOF
  BY DEF TicketsKept, Saved

\* A saved ticket of which status or ping is written is kept.
LEMMA TicketWritten ==
    ASSUME InboxInv, NEW t \in LTickets, tix[t] \in TicketRow, NEW row \in TicketRow, tix' = [tix EXCEPT ![t] = row],
           row.thread = tix[t].thread, row.msg = tix[t].msg, row.urgent = tix[t].urgent,
           row.ping = tix[t].ping \/ row.ping # "none"
    PROVE  TicketsKept({})
PROOF
  BY NoTicketAssumption DEF InboxInv, Saved, TicketsKept

\* A delivery goes on and neither links a ticket nor grades.
LEMMA DeliveryTells ==
    ASSUME InboxInv, IntakeInv, MessagesInv', NEW h \in Hooks, HookRuns(h), OthersStand({h}),
           NEW pc, pc \notin Rested, NEW seen, Stands(h, pc, seen), TicketsKept({}),
           UNCHANGED <<deskJob, crowded, broken, blockedSenders>>,
           \A c \in Threads : /\ thread'[c].ticket = thread[c].ticket /\ thread'[c].confidence = thread[c].confidence
                              /\ thread'[c].autoQa = thread[c].autoQa,
           seen # NoTicket => seen \in LTickets /\ Saved(seen) /\ tix[seen].thread = Th(h),
           hook[h].pc \in {"ping", "result"} => pc \in {"ping", "result"} /\ seen = hook[h].seen,
           hook[h].pc = "ping" => tix'[hook[h].seen].ping # "none",
           hook[h].pc # "score", pc # "score"
    PROVE  IntakeInv'
PROOF
<1>1. /\ HookRuns(h)' /\ Th(h)' = Th(h) /\ hook'[h].seen = seen /\ hook'[h].pc = pc
      /\ broken \subseteq broken' /\ broken' \subseteq Threads /\ blockedSenders' \subseteq Threads
  BY DEF Stands, HookRuns, Rested, Th, Msg, IntakeInv, TicketsInv
<1> HIDE DEF HookRuns, Th, Msg
<1>2. TicketsInv'
  <2> DEFINE moving == {h}
  <2>1. \A g \in moving :
              /\ hook'[g].seen # NoTicket => HookRuns(g)' /\ hook'[g].seen \in LTickets
                                             /\ Saved(hook'[g].seen) /\ tix[hook'[g].seen].thread = Th(g)'
              /\ hook[g].pc \in {"ping", "result"} =>
                    Th(g) \in broken' \/ (hook'[g].pc \in {"ping", "result"} /\ hook'[g].seen = hook[g].seen)
              /\ hook[g].pc = "ping" =>
                    \/ Th(g) \in broken' \/ (hook'[g].pc = "ping" /\ hook'[g].seen = hook[g].seen)
                    \/ tix'[hook[g].seen].ping # "none"
    BY <1>1
  <2>2. moving \in SUBSET Hooks /\ OthersStand(moving)
    OBVIOUS
  <2> HIDE DEF moving
  <2> QED
    BY <1>1, <2>1, <2>2, TicketsStep DEF IntakeInv
<1>3. GradesInv'
  <2> DEFINE moving == {h}
  <2>1. \A g \in moving : /\ HookRuns(g)' => HookRuns(g) /\ Th(g)' = Th(g)
                          /\ hook'[g].pc # "score"
                          /\ hook[g].pc = "score" => Th(g) \in broken'
    BY <1>1
  <2>2. moving \in SUBSET Hooks /\ OthersStand(moving)
    OBVIOUS
  <2> HIDE DEF moving
  <2> QED
    BY <1>1, <2>1, <2>2, GradesStep DEF IntakeInv
<1> QED
  BY <1>2, <1>3 DEF IntakeInv

\* The ticket a delivery has seen is one of its conversation.
LEMMA SeenIs ==
    ASSUME InboxInv, IntakeInv, NEW h \in Hooks, hook[h].seen # NoTicket
    PROVE  hook[h].seen \in LTickets /\ Saved(hook[h].seen) /\ tix[hook[h].seen].thread = Th(h)
PROOF
  BY HookHas DEF IntakeInv, TicketsInv, InboxInv, HookSound, Saved

\* The message is stored, or found answered.
LEMMA StoreInboundTells ==
    ASSUME InboxInv, IntakeInv, NEW h \in Hooks, StoreInbound(h)
    PROVE  IntakeInv'
PROOF
<1> DEFINE pc == IF Msg(h) \in replied THEN "next" ELSE "reply"
<1>1. /\ hook[h].pc = "exists" /\ Step(h, pc)
      /\ inbound' = IF Msg(h) \in replied THEN inbound ELSE inbound \cup {Msg(h)}
      /\ UNCHANGED <<thread, replied, sent, tix, blockedSenders, deskJob, inboxOverlapped, crowded, broken, dropped>>
  BY DEF StoreInbound, history
<1>2. OthersStand({h}) /\ Stands(h, pc, hook[h].seen) /\ TicketsKept({}) /\ HookRuns(h) /\ pc \in {"next", "reply"}
  BY <1>1, PcMovesOn, TicketsUnmoved DEF HookRuns
<1>3. MessagesInv
  BY DEF IntakeInv
<1>4. Msg(h) \in CustMsgs /\ Msg(h) \notin Ratings
  BY <1>1, <1>2, <1>3, MessageHas DEF PastLookup
<1>5. /\ replied \subseteq replied' /\ inbound \subseteq inbound' /\ dropped \subseteq dropped'
      /\ replied' \subseteq replied \cup {Msg(h)} /\ inbound' \subseteq CustMsgs \ Ratings /\ replied' \subseteq inbound'
      /\ sent' \in [CustMsgs -> Nat] /\ \A x \in CustMsgs \ {Msg(h)} : sent'[x] = sent[x]
  BY <1>1, <1>3, <1>4 DEF MessagesInv
<1>6. Msg(h) \notin inboxOverlapped =>
              /\ sent'[Msg(h)] <= 1 /\ (Msg(h) \notin replied' => sent'[Msg(h)] = 0)
              /\ \A t, u \in LTickets : Saved(t)' /\ Saved(u)' /\ tix'[t].msg = Msg(h) /\ tix'[u].msg = Msg(h) => t = u
  BY <1>1, <1>3, <1>4, TicketsUnmoved DEF MessagesInv
<1>7. /\ pc = "next" => HandledMsg(Msg(h), replied', inbound', dropped')
      /\ pc = "reply" => Msg(h) \in inbound' /\ Msg(h) \notin replied'
      /\ pc \notin AfterReply /\ pc # "ticket" /\ pc \notin Rested /\ pc # "score" /\ pc \notin {"ping", "result"}
  BY <1>1, <1>5 DEF HandledMsg, AfterReply, Rested
<1>8. pc = "reply" /\ Msg(h) \notin inboxOverlapped => sent'[Msg(h)] = 0
  BY <1>6, <1>7
<1> HIDE DEF pc, Msg, HookRuns
<1>9. MessagesInv'
  <2>1. {} \in SUBSET LTickets /\ \A t \in {} : tix'[t] # NoTicket =>
              tix'[t].msg \in {Msg(h), NoMsg} /\ (tix'[t].msg # NoMsg => Msg(h) \in replied')
    OBVIOUS
  <2> QED
    BY <1>1, <1>2, <1>3, <1>4, <1>5, <1>6, <1>7, <1>8, <2>1, MessageGoesOn
<1>10. hook[h].seen # NoTicket => hook[h].seen \in LTickets /\ Saved(hook[h].seen) /\ tix[hook[h].seen].thread = Th(h)
  BY SeenIs
<1> QED
  BY <1>1, <1>2, <1>7, <1>9, <1>10, DeliveryTells

\* The reply is stored, before the ticket it may ask for.
LEMMA StoreReplyTells ==
    ASSUME InboxInv, IntakeInv, NEW h \in Hooks, NEW r \in LReplies, StoreReply(h, r)
    PROVE  IntakeInv'
PROOF
<1> DEFINE pc == IF r \in Escalating THEN "ticket" ELSE "result"
           k == [hook[h] EXCEPT !.pc = pc, !.reply = r]
<1>1. /\ hook[h].pc = "reply" /\ hook' = [hook EXCEPT ![h] = k] /\ replied' = replied \cup {Msg(h)}
      /\ UNCHANGED <<thread, inbound, sent, tix, blockedSenders, deskJob, inboxOverlapped, crowded, broken, dropped>>
  BY DEF StoreReply, history
<1>2. k.pc = pc /\ k.batch = hook[h].batch /\ k.at = hook[h].at /\ k.seen = hook[h].seen /\ pc \in {"ticket", "result"}
  BY HookHas DEF Hook
<1> HIDE DEF k
<1>3. OthersStand({h}) /\ Stands(h, pc, hook[h].seen) /\ TicketsKept({}) /\ HookRuns(h)
  BY <1>1, <1>2, HookMovesOn, TicketsUnmoved DEF HookRuns
<1>4. MessagesInv
  BY DEF IntakeInv
<1>5. /\ Msg(h) \in CustMsgs /\ Msg(h) \notin Ratings /\ Msg(h) \in inbound
      /\ Msg(h) \notin inboxOverlapped => sent[Msg(h)] = 0 /\ Msg(h) \notin replied
  BY <1>1, <1>3, <1>4, MessageHas DEF PastLookup
<1>6. /\ replied \subseteq replied' /\ inbound \subseteq inbound' /\ dropped \subseteq dropped'
      /\ replied' \subseteq replied \cup {Msg(h)} /\ inbound' \subseteq CustMsgs \ Ratings /\ replied' \subseteq inbound'
      /\ sent' \in [CustMsgs -> Nat] /\ \A x \in CustMsgs \ {Msg(h)} : sent'[x] = sent[x]
  BY <1>1, <1>4, <1>5 DEF MessagesInv
<1>7. ASSUME Msg(h) \notin inboxOverlapped
      PROVE  /\ sent'[Msg(h)] <= 1 /\ (Msg(h) \notin replied' => sent'[Msg(h)] = 0)
             /\ \A t, u \in LTickets : Saved(t)' /\ Saved(u)' /\ tix'[t].msg = Msg(h) /\ tix'[u].msg = Msg(h) => t = u
  BY <1>1, <1>4, <1>5, <1>7, TicketsUnmoved DEF MessagesInv
<1>8. ASSUME Msg(h) \notin inboxOverlapped
      PROVE  sent'[Msg(h)] = 0 /\ \A t \in LTickets : tix'[t] # NoTicket => tix'[t].msg # Msg(h)
  BY <1>4, <1>5, InboxAssumption, <1>1, <1>8 DEF MessagesInv, NoMsg, Saved
<1>9. /\ pc # "next" /\ pc # "reply" /\ pc \notin Rested /\ Msg(h) \in replied'
      /\ pc # "score" /\ pc \notin {"ping"}
  BY <1>1, <1>2 DEF Rested
<1> HIDE DEF pc, Msg, HookRuns
<1>10. MessagesInv'
  <2>1. {} \in SUBSET LTickets /\ \A t \in {} : tix'[t] # NoTicket =>
              tix'[t].msg \in {Msg(h), NoMsg} /\ (tix'[t].msg # NoMsg => Msg(h) \in replied')
    OBVIOUS
  <2> QED
    BY <1>1, <1>3, <1>4, <1>5, <1>6, <1>7, <1>8, <1>9, <2>1, MessageGoesOn
<1>11. hook[h].seen # NoTicket => hook[h].seen \in LTickets /\ Saved(hook[h].seen) /\ tix[hook[h].seen].thread = Th(h)
  BY SeenIs
<1> QED
  BY <1>1, <1>3, <1>9, <1>10, <1>11, DeliveryTells

\* The reply is sent: alone on the message, for the first time.
LEMMA SendReplyTells ==
    ASSUME InboxInv, IntakeInv, NEW h \in Hooks, SendReply(h)
    PROVE  IntakeInv'
PROOF
<1> DEFINE k == [hook[h] EXCEPT !.pc = "next", !.reply = NoMsg]
<1>1. /\ hook[h].pc = "send" /\ hook' = [hook EXCEPT ![h] = k] /\ sent' = [sent EXCEPT ![Msg(h)] = @ + 1]
      /\ UNCHANGED <<thread, inbound, replied, tix, blockedSenders, deskJob, inboxOverlapped, crowded, broken, dropped>>
  BY DEF SendReply, history
<1>2. k.pc = "next" /\ k.batch = hook[h].batch /\ k.at = hook[h].at /\ k.seen = hook[h].seen
  BY HookHas DEF Hook
<1> HIDE DEF k
<1>3. OthersStand({h}) /\ Stands(h, "next", hook[h].seen) /\ TicketsKept({}) /\ HookRuns(h)
  BY <1>1, <1>2, HookMovesOn, TicketsUnmoved DEF HookRuns
<1>4. MessagesInv
  BY DEF IntakeInv
<1>5. /\ Msg(h) \in CustMsgs /\ Msg(h) \notin Ratings /\ Msg(h) \in replied
      /\ Msg(h) \notin inboxOverlapped => sent[Msg(h)] = 0
  BY <1>1, <1>3, <1>4, MessageHas DEF PastLookup, AfterReply
<1>6. /\ replied \subseteq replied' /\ inbound \subseteq inbound' /\ dropped \subseteq dropped'
      /\ replied' \subseteq replied \cup {Msg(h)} /\ inbound' \subseteq CustMsgs \ Ratings /\ replied' \subseteq inbound'
      /\ sent' \in [CustMsgs -> Nat] /\ \A x \in CustMsgs \ {Msg(h)} : sent'[x] = sent[x]
      /\ sent'[Msg(h)] = sent[Msg(h)] + 1
  BY <1>1, <1>4, <1>5 DEF MessagesInv
<1>7. ASSUME Msg(h) \notin inboxOverlapped
      PROVE  /\ sent'[Msg(h)] <= 1 /\ (Msg(h) \notin replied' => sent'[Msg(h)] = 0)
             /\ \A t, u \in LTickets : Saved(t)' /\ Saved(u)' /\ tix'[t].msg = Msg(h) /\ tix'[u].msg = Msg(h) => t = u
  BY <1>1, <1>4, <1>5, <1>7, TicketsUnmoved, <1>6 DEF MessagesInv
<1>8. HandledMsg(Msg(h), replied', inbound', dropped')
  BY <1>1, <1>5, <1>6 DEF HandledMsg
<1>9. "next" \notin PastLookup /\ "next" \notin AfterReply /\ "next" \notin Rested
  BY DEF Rested, PastLookup, AfterReply
<1> HIDE DEF Msg, HookRuns
<1>10. MessagesInv'
  <2>1. {} \in SUBSET LTickets /\ \A t \in {} : tix'[t] # NoTicket =>
              tix'[t].msg \in {Msg(h), NoMsg} /\ (tix'[t].msg # NoMsg => Msg(h) \in replied')
    OBVIOUS
  <2> DEFINE pc == "next"
  <2>2. pc # "reply" /\ pc \notin Rested /\ pc \notin PastLookup /\ pc \notin AfterReply /\ Stands(h, pc, hook[h].seen)
    BY <1>3, <1>9
  <2> HIDE DEF pc
  <2> QED
    BY <1>1, <1>3, <1>4, <1>5, <1>6, <1>7, <1>8, <2>1, <2>2, MessageGoesOn
<1>11. hook[h].seen # NoTicket => hook[h].seen \in LTickets /\ Saved(hook[h].seen) /\ tix[hook[h].seen].thread = Th(h)
  BY SeenIs
<1> QED
  BY <1>1, <1>3, <1>9, <1>10, <1>11, DeliveryTells

\* A rating fills its own part of the conversation.
LEMMA CaptureCsatTells ==
    ASSUME InboxInv, IntakeInv, NEW h \in Hooks, CaptureCsat(h)
    PROVE  IntakeInv'
PROOF
<1>1. /\ hook[h].pc = "begin" /\ IsRating(Msg(h)) /\ Step(h, "next")
      /\ thread' = IF thread[Th(h)].known THEN [thread EXCEPT ![Th(h)].csat = Msg(h)] ELSE thread
      /\ UNCHANGED <<inbound, replied, sent, tix, blockedSenders, deskJob, inboxOverlapped, crowded, broken, dropped>>
  BY DEF CaptureCsat, history
<1>2. OthersStand({h}) /\ Stands(h, "next", hook[h].seen) /\ TicketsKept({}) /\ HookRuns(h)
  BY <1>1, PcMovesOn, TicketsUnmoved DEF HookRuns
<1>3. MessagesInv /\ Th(h) \in Threads
  BY <1>2, MessageHas DEF IntakeInv
<1>4. \A c \in Threads : /\ thread'[c].ticket = thread[c].ticket /\ thread'[c].confidence = thread[c].confidence
                         /\ thread'[c].autoQa = thread[c].autoQa
  BY <1>1, <1>3 DEF InboxInv, ThreadRow
<1>5. HandledMsg(Msg(h), replied, inbound, dropped')
  BY <1>1 DEF HandledMsg, IsRating
<1> DEFINE pc == "next"
<1>6. /\ pc \notin PastLookup /\ pc \notin AfterReply /\ pc \notin Rested /\ pc \notin {"reply", "ticket", "score"}
      /\ hook[h].pc \notin {"ping", "result", "score"} /\ Stands(h, pc, hook[h].seen)
  BY <1>1, <1>2 DEF Rested, PastLookup, AfterReply
<1> HIDE DEF pc, Msg, HookRuns
<1>7. MessagesInv'
  BY <1>1, <1>2, <1>3, <1>5, <1>6, MessageQuiet
<1> QED
  BY <1>1, <1>2, <1>4, <1>6, <1>7, SeenIs, DeliveryTells

\* The conversation is known from now on; a blocked sender's message is let go.
LEMMA UpsertTells ==
    ASSUME InboxInv, IntakeInv, NEW h \in Hooks, UpsertConversation(h)
    PROVE  IntakeInv'
PROOF
<1> DEFINE blocked == IsBlocked(Th(h))
           pc == IF blocked THEN "next" ELSE IF thread[Th(h)].ticket = NoTicket THEN "exists" ELSE "detail"
           seen == IF blocked THEN hook[h].seen ELSE thread[Th(h)].ticket
           k == [hook[h] EXCEPT !.pc = pc, !.seen = seen]
<1>1. /\ hook[h].pc = "begin" /\ ~IsRating(Msg(h)) /\ thread' = [thread EXCEPT ![Th(h)].known = TRUE]
      /\ dropped' = IF blocked THEN dropped \cup {Msg(h)} ELSE dropped
      /\ UNCHANGED <<inbound, replied, sent, tix, blockedSenders, deskJob, inboxOverlapped, crowded, broken>>
  BY DEF UpsertConversation
<1>2. k.pc = pc /\ k.batch = hook[h].batch /\ k.at = hook[h].at /\ k.seen = seen
  BY HookHas DEF Hook
<1>3. OthersStand({h}) /\ Stands(h, pc, seen)
  <2>1. CASE blocked
    BY <2>1, PcMovesOn DEF UpsertConversation
  <2>2. CASE ~blocked
    <3>1. hook' = [hook EXCEPT ![h] = k]
      BY <2>2 DEF UpsertConversation
    <3> HIDE DEF k
    <3> QED
      BY <1>2, <3>1, HookMovesOn
  <2> QED
    BY <2>1, <2>2
<1>4. TicketsKept({}) /\ HookRuns(h) /\ pc \in {"next", "exists", "detail"}
  BY <1>1, TicketsUnmoved DEF HookRuns
<1>5. MessagesInv /\ Th(h) \in Threads
  BY <1>4, MessageHas DEF IntakeInv
<1>6. \A c \in Threads : /\ thread'[c].ticket = thread[c].ticket /\ thread'[c].confidence = thread[c].confidence
                         /\ thread'[c].autoQa = thread[c].autoQa
  BY <1>1, <1>5 DEF InboxInv, ThreadRow
<1>7. /\ pc = "next" => HandledMsg(Msg(h), replied, inbound, dropped')
      /\ Msg(h) \notin Ratings
  BY <1>1 DEF HandledMsg, IsRating
<1>8. /\ pc \notin AfterReply /\ pc \notin Rested /\ pc \notin {"reply", "ticket", "score"}
      /\ hook[h].pc \notin {"ping", "result", "score"}
  BY <1>1, <1>4 DEF Rested, AfterReply
<1>9. seen # NoTicket => seen \in LTickets /\ Saved(seen) /\ tix[seen].thread = Th(h)
  BY <1>5, SeenIs DEF InboxInv, ThreadRow, IntakeInv, TicketsInv
<1> HIDE DEF pc, seen, k, blocked, Msg, HookRuns
<1>10. dropped \subseteq dropped'
  BY <1>1
<1>11. MessagesInv'
  BY <1>1, <1>3, <1>4, <1>5, <1>7, <1>8, <1>10, MessageQuiet
<1> QED
  BY <1>1, <1>3, <1>4, <1>6, <1>8, <1>9, <1>11, DeliveryTells

\* A ticket is read for reopening.
LEMMA ReadForReopenTells ==
    ASSUME InboxInv, IntakeInv, NEW h \in Hooks, ReadForReopen(h)
    PROVE  IntakeInv'
PROOF
<1> DEFINE resolved == tix[hook[h].seen].status = "resolved"
           pc == IF resolved THEN "reopen" ELSE "exists"
           seen == IF resolved THEN hook[h].seen ELSE NoTicket
           k == IF resolved THEN [hook[h] EXCEPT !.pc = "reopen", !.fresh = TRUE]
                            ELSE [hook[h] EXCEPT !.pc = "exists", !.seen = NoTicket]
<1>1. /\ hook[h].pc = "detail" /\ hook' = [hook EXCEPT ![h] = k]
      /\ UNCHANGED <<thread, inbound, replied, sent, tix, blockedSenders, deskJob, inboxOverlapped, crowded, broken, dropped>>
  BY DEF ReadForReopen, history
<1>2. k.pc = pc /\ k.batch = hook[h].batch /\ k.at = hook[h].at /\ k.seen = seen /\ pc \in {"reopen", "exists"}
  BY HookHas DEF Hook
<1>3. seen # NoTicket => seen \in LTickets /\ Saved(seen) /\ tix[seen].thread = Th(h)
  BY SeenIs
<1> HIDE DEF k, pc, seen, resolved
<1>4. OthersStand({h}) /\ Stands(h, pc, seen) /\ TicketsKept({}) /\ HookRuns(h)
  BY <1>1, <1>2, HookMovesOn, TicketsUnmoved DEF HookRuns
<1>5. MessagesInv
  BY DEF IntakeInv
<1>6. Msg(h) \notin Ratings
  BY <1>1, <1>4, <1>5, MessageHas DEF PastLookup
<1>7. /\ pc \notin AfterReply /\ pc \notin Rested /\ pc \notin {"reply", "ticket", "score", "next"}
      /\ hook[h].pc \notin {"ping", "result", "score"}
  BY <1>1, <1>2 DEF Rested, AfterReply
<1> HIDE DEF Msg, HookRuns
<1>8. MessagesInv'
  BY <1>1, <1>4, <1>5, <1>6, <1>7, MessageQuiet
<1> QED
  BY <1>1, <1>3, <1>4, <1>7, <1>8, DeliveryTells

\* A delivery leaves the reopening behind.
LEMMA LeavingTells ==
    ASSUME InboxInv, IntakeInv, NEW h \in Hooks, hook[h].pc \in {"detail", "reopen"},
           UNCHANGED <<thread, inbound, replied, sent, blockedSenders, deskJob, inboxOverlapped, crowded, broken, dropped>>,
           OthersStand({h}), Stands(h, "exists", NoTicket), TicketsKept({})
    PROVE  IntakeInv'
PROOF
<1>1. HookRuns(h)
  BY DEF HookRuns
<1>2. MessagesInv
  BY DEF IntakeInv
<1>3. Msg(h) \notin Ratings
  BY <1>1, <1>2, MessageHas DEF PastLookup
<1> DEFINE pc == "exists"
           seen == NoTicket
<1>4. /\ pc \notin AfterReply /\ pc \notin Rested /\ pc \notin {"reply", "ticket", "score", "next"}
      /\ hook[h].pc \notin {"ping", "result", "score"} /\ Stands(h, pc, seen)
  BY DEF Rested, AfterReply
<1>5. seen = NoTicket
  OBVIOUS
<1> HIDE DEF Msg, HookRuns, pc, seen
<1>6. MessagesInv'
  BY <1>1, <1>2, <1>3, <1>4, MessageQuiet
<1> QED
  BY <1>1, <1>4, <1>5, <1>6, DeliveryTells

\* The ticket is reopened.
LEMMA ReopenTells ==
    ASSUME InboxInv, IntakeInv, NEW h \in Hooks, Reopen(h)
    PROVE  IntakeInv'
PROOF
<1>1. /\ hook[h].pc = "reopen"
      /\ UNCHANGED <<thread, inbound, replied, sent, blockedSenders, deskJob, inboxOverlapped, crowded, broken, dropped>>
  BY DEF Reopen, history
<1>2. hook[h].seen \in LTickets /\ tix[hook[h].seen] \in TicketRow /\ tix \in [LTickets -> TicketRow \cup {NoTicket}]
  BY <1>1, HookHas DEF InboxInv
<1>3. hook' = Leaving(Outdated(hook[h].seen), h) /\ tix' = [tix EXCEPT ![hook[h].seen].status = "reopened"]
  BY DEF Reopen
<1> DEFINE o == Outdated(hook[h].seen)
           k == [o[h] EXCEPT !.pc = "exists", !.seen = NoTicket, !.fresh = FALSE]
<1>4. DOMAIN o = Hooks /\ \A g \in Hooks : o[g] \in Hook /\ o[g].pc = hook[g].pc /\ o[g].batch = hook[g].batch
                                            /\ o[g].at = hook[g].at /\ o[g].seen = hook[g].seen
  BY HookHas DEF Outdated, Hook
<1> HIDE DEF o
<1>5. k.pc = "exists" /\ k.batch = hook[h].batch /\ k.at = hook[h].at /\ k.seen = NoTicket
  BY <1>4 DEF Hook
<1>6. hook'[h] = k /\ \A g \in Hooks \ {h} : hook'[g] = o[g]
  BY <1>3, <1>4 DEF Leaving, o
<1> HIDE DEF k
<1>7. OthersStand({h}) /\ Stands(h, "exists", NoTicket)
  BY <1>4, <1>5, <1>6 DEF OthersStand, Stands
<1> DEFINE row == [tix[hook[h].seen] EXCEPT !.status = "reopened"]
<1>8. /\ row \in TicketRow /\ row.thread = tix[hook[h].seen].thread /\ row.msg = tix[hook[h].seen].msg
      /\ row.urgent = tix[hook[h].seen].urgent /\ row.ping = tix[hook[h].seen].ping
  BY <1>2 DEF TicketRow
<1>9. tix' = [tix EXCEPT ![hook[h].seen] = row]
  BY <1>2, <1>3
<1> HIDE DEF row
<1>10. TicketsKept({})
  BY <1>2, <1>8, <1>9, TicketWritten
<1> QED
  BY <1>1, <1>7, <1>10, LeavingTells

\* Somebody else was first, or the database failed.
LEMMA ReopenFailsTells ==
    ASSUME InboxInv, IntakeInv, NEW h \in Hooks, ReopenFails(h)
    PROVE  IntakeInv'
PROOF
<1>1. /\ hook[h].pc \in {"detail", "reopen"} /\ hook' = Leaving(hook, h) /\ hook \in [Hooks -> Hook]
      /\ UNCHANGED <<thread, inbound, replied, sent, tix, blockedSenders, deskJob, inboxOverlapped, crowded, broken, dropped>>
  BY DEF ReopenFails, history, InboxInv
<1>2. OthersStand({h}) /\ Stands(h, "exists", NoTicket) /\ TicketsKept({})
  BY <1>1, TicketsUnmoved DEF Leaving, Hook, OthersStand, Stands
<1> QED
  BY <1>1, <1>2, LeavingTells

\* The owner is called, and the outcome recorded.
LEMMA NotifyPocTells ==
    ASSUME InboxInv, IntakeInv, NEW h \in Hooks, NEW works \in BOOLEAN, NotifyPoc(h, works)
    PROVE  IntakeInv'
PROOF
<1>1. /\ hook[h].pc = "ping" /\ Step(h, "result")
      /\ tix' = [tix EXCEPT ![hook[h].seen].ping = IF works THEN "sent" ELSE "failed"]
      /\ UNCHANGED <<thread, inbound, replied, sent, blockedSenders, deskJob, inboxOverlapped, crowded, broken, dropped>>
  BY DEF NotifyPoc, history
<1>2. HookRuns(h) /\ hook[h].seen \in LTickets /\ tix[hook[h].seen] \in TicketRow /\ tix \in [LTickets -> TicketRow \cup {NoTicket}]
  BY <1>1, HookHas DEF HookRuns, InboxInv
<1>3. OthersStand({h}) /\ Stands(h, "result", hook[h].seen)
  BY <1>1, PcMovesOn
<1>4. TicketsKept({}) /\ tix'[hook[h].seen].ping # "none"
  <2> DEFINE row == [tix[hook[h].seen] EXCEPT !.ping = IF works THEN "sent" ELSE "failed"]
  <2>1. /\ row \in TicketRow /\ row.thread = tix[hook[h].seen].thread /\ row.msg = tix[hook[h].seen].msg
        /\ row.urgent = tix[hook[h].seen].urgent /\ row.ping # "none"
    BY <1>2 DEF TicketRow
  <2>2. tix' = [tix EXCEPT ![hook[h].seen] = row]
    BY <1>1, <1>2
  <2> HIDE DEF row
  <2>3. tix'[hook[h].seen] = row
    BY <1>2, <2>2
  <2> QED
    BY <1>2, <2>1, <2>2, <2>3, TicketWritten
<1>5. MessagesInv
  BY DEF IntakeInv
<1>6. Msg(h) \notin Ratings
  BY <1>1, <1>2, <1>5, MessageHas DEF PastLookup, AfterReply
<1> DEFINE pc == "result"
<1>7. /\ hook[h].pc \in AfterReply /\ pc \notin Rested /\ pc \notin {"reply", "ticket", "score", "next"}
      /\ hook[h].pc # "score" /\ Stands(h, pc, hook[h].seen) /\ pc \in {"ping", "result"}
  BY <1>1, <1>3 DEF Rested, AfterReply
<1> HIDE DEF Msg, HookRuns, pc
<1>8. MessagesInv'
  BY <1>1, <1>2, <1>3, <1>4, <1>5, <1>6, <1>7, MessageQuiet
<1> QED
  BY <1>1, <1>2, <1>3, <1>4, <1>7, <1>8, SeenIs, DeliveryTells

\* A delivery turns to message n of batch b.
LEMMA TurnTells ==
    ASSUME InboxInv, IntakeInv, NEW h \in Hooks, hook[h].pc \in {"idle", "next"},
           NEW b \in Seq(CustMsgs), NEW n \in 1 .. Len(b),
           hook' = [hook EXCEPT ![h] = [IdleHook EXCEPT !.pc = "begin", !.batch = b, !.at = n]],
           Meets(h, b[n]), \A i \in 1 .. Len(b) : i < n => HandledMsg(b[i], replied, inbound, dropped),
           UNCHANGED <<thread, inbound, replied, sent, tix, blockedSenders, deskJob, broken, dropped>>
    PROVE  IntakeInv'
PROOF
<1> DEFINE k == [IdleHook EXCEPT !.pc = "begin", !.batch = b, !.at = n]
           m == b[n]
<1>1. k.pc = "begin" /\ k.batch = b /\ k.at = n /\ k.seen = NoTicket
  BY DEF IdleHook
<1>2. hook'[h] = k /\ \A g \in Hooks \ {h} : hook'[g] = hook[g]
  BY DEF InboxInv
<1>3. OthersStand({h})
  BY <1>2 DEF OthersStand
<1>4. m \in CustMsgs /\ ThreadOf[m] \in Threads
  BY InboxAssumption
<1> HIDE DEF k
<1>5. HookRuns(h)' /\ Msg(h)' = m /\ Th(h)' = ThreadOf[m] /\ hook'[h].pc = "begin" /\ hook'[h].seen = NoTicket
  BY <1>1, <1>2 DEF HookRuns, Msg, Th
<1>6. MessageTells(k, replied, inbound, dropped, sent, tix, inboxOverlapped')
  BY <1>1 DEF MessageTells, PastLookup, AfterReply, Rested
<1>7. /\ inboxOverlapped' = inboxOverlapped \cup {x \in {m} : \E g \in {i \in Hooks \ {h} : HookRuns(i)} : Msg(g) = m}
      /\ crowded' = crowded \cup {c \in {ThreadOf[m]} : \E g \in {i \in Hooks \ {h} : HookRuns(i)} : Th(g) = c}
  BY DEF Meets
<1> HIDE DEF m, HookRuns, Msg, Th
<1>8. MessagesInv'
  BY <1>2, <1>3, <1>4, <1>5, <1>6, <1>7, MessagesTurn DEF IntakeInv
<1>9. GradesInv'
  BY <1>3, <1>5, <1>7, GradesTurn DEF IntakeInv
<1>10. TicketsInv'
  <2> DEFINE moving == {h}
  <2>1. \A g \in moving :
              /\ hook'[g].seen # NoTicket => HookRuns(g)' /\ hook'[g].seen \in LTickets
                                             /\ Saved(hook'[g].seen) /\ tix[hook'[g].seen].thread = Th(g)'
              /\ hook[g].pc \in {"ping", "result"} =>
                    Th(g) \in broken' \/ (hook'[g].pc \in {"ping", "result"} /\ hook'[g].seen = hook[g].seen)
              /\ hook[g].pc = "ping" =>
                    \/ Th(g) \in broken' \/ (hook'[g].pc = "ping" /\ hook'[g].seen = hook[g].seen)
                    \/ tix'[hook[g].seen].ping # "none"
    BY <1>5
  <2>2. moving \in SUBSET Hooks /\ OthersStand(moving)
    BY <1>3
  <2>3. broken \subseteq broken' /\ broken' \subseteq Threads /\ blockedSenders' \subseteq Threads
    BY DEF IntakeInv, TicketsInv
  <2>4. TicketsKept({}) /\ \A c \in Threads : thread'[c].ticket = thread[c].ticket
    BY TicketsUnmoved
  <2> HIDE DEF moving
  <2> QED
    BY <2>1, <2>2, <2>3, <2>4, TicketsStep DEF IntakeInv
<1> QED
  BY <1>8, <1>9, <1>10 DEF IntakeInv

\* A delivery stops: at the end of its batch, or broken off.
LEMMA StopTells ==
    ASSUME InboxInv, IntakeInv, NEW h \in Hooks, HookRuns(h), NEW k, hook' = [hook EXCEPT ![h] = k],
           k.pc \in {"done", "failed"}, k.seen = NoTicket,
           MessageTells(k, replied, inbound, dropped, sent, tix, inboxOverlapped),
           broken \subseteq broken', broken' \subseteq Threads, Th(h) \in broken' \/ hook[h].pc = "next",
           UNCHANGED <<thread, inbound, replied, sent, tix, blockedSenders, deskJob, inboxOverlapped, crowded, dropped>>
    PROVE  IntakeInv'
PROOF
<1>1. hook'[h] = k /\ \A g \in Hooks \ {h} : hook'[g] = hook[g]
  BY DEF InboxInv
<1>2. OthersStand({h}) /\ ~HookRuns(h)'
  BY <1>1 DEF OthersStand, HookRuns
<1>3. TicketsKept({}) /\ \A t \in LTickets : Saved(t)' = Saved(t)
  BY TicketsUnmoved
<1>4. MessagesInv /\ Msg(h) \in CustMsgs
  BY MessageHas DEF IntakeInv
<1> DEFINE moving == {h}
           m == Msg(h)
<1>5. moving \in SUBSET Hooks /\ OthersStand(moving) /\ moving # {} /\ m \in CustMsgs
  BY <1>2, <1>4
<1>6. MessagesInv'
  <2>1. \A g \in moving : /\ HookRuns(g) /\ Msg(g) = m
                          /\ MessageTells(hook'[g], replied', inbound', dropped', sent', tix', inboxOverlapped')
                          /\ HookRuns(g)' => Msg(g)' = m
    BY <1>1, <1>2
  <2>2. /\ replied' \subseteq replied \cup {m} /\ inbound' \subseteq CustMsgs \ Ratings /\ replied' \subseteq inbound'
        /\ sent' \in [CustMsgs -> Nat] /\ \A x \in CustMsgs \ {m} : sent'[x] = sent[x]
    BY <1>4 DEF MessagesInv
  <2>3. m \in CustMsgs \ inboxOverlapped =>
          /\ sent'[m] <= 1 /\ (m \notin replied' => sent'[m] = 0)
          /\ \A t, u \in LTickets : Saved(t)' /\ Saved(u)' /\ tix'[t].msg = m /\ tix'[u].msg = m => t = u
    BY <1>3, <1>4 DEF MessagesInv
  <2>4. {} \in SUBSET LTickets /\ \A t \in {} : tix'[t] # NoTicket =>
          tix'[t].msg \in {m, NoMsg} /\ (tix'[t].msg # NoMsg => m \in replied')
    OBVIOUS
  <2> HIDE DEF moving, m
  <2> QED
    BY <1>3, <1>4, <1>5, <2>1, <2>2, <2>3, <2>4, MessagesStep
<1>7. GradesInv'
  <2>1. \A g \in moving : /\ HookRuns(g)' => HookRuns(g) /\ Th(g)' = Th(g)
                          /\ hook'[g].pc # "score"
                          /\ hook[g].pc = "score" => Th(g) \in broken'
    BY <1>1, <1>2
  <2> HIDE DEF moving
  <2> QED
    BY <1>5, <2>1, GradesStep DEF IntakeInv
<1>8. TicketsInv'
  <2>1. \A g \in moving :
              /\ hook'[g].seen # NoTicket => HookRuns(g)' /\ hook'[g].seen \in LTickets
                                             /\ Saved(hook'[g].seen) /\ tix[hook'[g].seen].thread = Th(g)'
              /\ hook[g].pc \in {"ping", "result"} =>
                    Th(g) \in broken' \/ (hook'[g].pc \in {"ping", "result"} /\ hook'[g].seen = hook[g].seen)
              /\ hook[g].pc = "ping" =>
                    \/ Th(g) \in broken' \/ (hook'[g].pc = "ping" /\ hook'[g].seen = hook[g].seen)
                    \/ tix'[hook[g].seen].ping # "none"
    BY <1>1
  <2>2. blockedSenders' \subseteq Threads /\ \A c \in Threads : thread'[c].ticket = thread[c].ticket
    BY DEF IntakeInv, TicketsInv
  <2> HIDE DEF moving
  <2> QED
    BY <1>3, <1>5, <2>1, <2>2, TicketsStep DEF IntakeInv
<1> QED
  BY <1>6, <1>7, <1>8 DEF IntakeInv

\* A delivery arrives, goes to its next message or ends, or breaks off.
LEMMA DeliveryMovesTells ==
    ASSUME InboxInv, IntakeInv, NEW h \in Hooks,
           (\E b \in Batches : ReceiveDelivery(h, b)) \/ NextMessage(h) \/ DeliveryFails(h)
    PROVE  IntakeInv'
PROOF
<1>1. ASSUME NEW b \in Batches, ReceiveDelivery(h, b) PROVE IntakeInv'
  <2>1. b \in Seq(CustMsgs) /\ b # << >>
    BY InboxAssumption
  <2>2. 1 \in 1 .. Len(b) /\ \A i \in 1 .. Len(b) : ~(i < 1)
    BY <2>1
  <2> QED
    BY <1>1, <2>1, <2>2, TurnTells DEF ReceiveDelivery
<1>2. CASE NextMessage(h)
  <2>1. hook[h].pc = "next" /\ HookRuns(h)
    BY <1>2 DEF NextMessage, HookRuns
  <2>2. hook[h].batch \in Seq(CustMsgs) /\ hook[h].at \in 1 .. Len(hook[h].batch) /\ Len(hook[h].batch) \in Nat
    <3>1. hook[h].batch \in Seq(CustMsgs) /\ hook[h].at \in 1 .. Len(hook[h].batch)
      BY <2>1, HookHas DEF Hook
    <3> QED
      BY <3>1
  <2>3. \A i \in 1 .. Len(hook[h].batch) : i <= hook[h].at => HandledMsg(hook[h].batch[i], replied, inbound, dropped)
    <3>1. MessageTells(hook[h], replied, inbound, dropped, sent, tix, inboxOverlapped)
      BY DEF IntakeInv, MessagesInv
    <3>2. HandledMsg(hook[h].batch[hook[h].at], replied, inbound, dropped)
      BY <2>1, <3>1 DEF MessageTells, At
    <3>3. \A i \in 1 .. Len(hook[h].batch) : i < hook[h].at => HandledMsg(hook[h].batch[i], replied, inbound, dropped)
      BY <2>1, <3>1 DEF MessageTells, Rested
    <3>4. \A i \in 1 .. Len(hook[h].batch) : i <= hook[h].at => i < hook[h].at \/ i = hook[h].at
      BY ONLY <2>2
    <3> QED
      BY <3>2, <3>3, <3>4
  <2>4. CASE hook[h].at < Len(hook[h].batch)
    <3>1. /\ hook[h].at + 1 \in 1 .. Len(hook[h].batch)
          /\ \A i \in 1 .. Len(hook[h].batch) : i < hook[h].at + 1 => i <= hook[h].at
      BY ONLY <2>2, <2>4
    <3>2. \A i \in 1 .. Len(hook[h].batch) : i < hook[h].at + 1 => HandledMsg(hook[h].batch[i], replied, inbound, dropped)
      BY <2>3, <3>1
    <3> HIDE DEF HandledMsg
    <3> QED
      BY <1>2, <2>1, <2>2, <2>4, <3>1, <3>2, TurnTells DEF NextMessage
  <2>5. CASE ~(hook[h].at < Len(hook[h].batch))
    <3> DEFINE k == [IdleHook EXCEPT !.pc = "done", !.batch = hook[h].batch]
    <3>1. k.pc = "done" /\ k.seen = NoTicket /\ k.batch = hook[h].batch
      BY DEF IdleHook
    <3>2. \A i \in 1 .. Len(hook[h].batch) : i <= hook[h].at
      BY ONLY <2>2, <2>5
    <3>3. hook' = [hook EXCEPT ![h] = k]
          /\ UNCHANGED <<thread, inbound, replied, sent, tix, blockedSenders, deskJob, inboxOverlapped, crowded, broken, dropped>>
      BY <1>2, <2>5 DEF NextMessage
    <3> HIDE DEF k
    <3>4. MessageTells(k, replied, inbound, dropped, sent, tix, inboxOverlapped)
      BY <2>3, <3>1, <3>2 DEF MessageTells, PastLookup, AfterReply, Rested
    <3>5. broken \subseteq broken' /\ broken' \subseteq Threads
      BY <3>3 DEF IntakeInv, TicketsInv
    <3> QED
      BY <2>1, <3>1, <3>3, <3>4, <3>5, StopTells
  <2> QED
    BY <2>4, <2>5
<1>3. CASE DeliveryFails(h)
  <2> DEFINE k == [IdleHook EXCEPT !.pc = "failed"]
  <2>1. /\ HookRuns(h) /\ hook' = [hook EXCEPT ![h] = k] /\ broken' = broken \cup {Th(h)}
        /\ UNCHANGED <<thread, inbound, replied, sent, tix, blockedSenders, deskJob, inboxOverlapped, crowded, dropped>>
    BY <1>3 DEF DeliveryFails
  <2>2. k.pc = "failed" /\ k.seen = NoTicket
    BY DEF IdleHook
  <2> HIDE DEF k
  <2>3. MessageTells(k, replied, inbound, dropped, sent, tix, inboxOverlapped)
    BY <2>2 DEF MessageTells, PastLookup, AfterReply, Rested
  <2>4. Th(h) \in Threads
    BY <2>1, MessageHas DEF IntakeInv
  <2>5. broken \subseteq broken' /\ broken' \subseteq Threads /\ Th(h) \in broken'
    BY <2>1, <2>4 DEF IntakeInv, TicketsInv
  <2> QED
    BY <2>1, <2>2, <2>3, <2>5, StopTells
<1> QED
  BY <1>1, <1>2, <1>3

\* A ticket that is made is the only change of the tickets.
LEMMA TicketMade ==
    ASSUME InboxInv, NEW t \in LTickets, ~Saved(t), NEW row \in TicketRow, tix' = [tix EXCEPT ![t] = row]
    PROVE  /\ TicketsKept({t}) /\ tix'[t] = row /\ row # NoTicket
           /\ \A u \in LTickets \ {t} : tix'[u] = tix[u]
PROOF
  BY NoTicketAssumption DEF InboxInv, TicketsKept, Saved

\* The ticket the reply asks for is saved: alone on the message, the first one.
LEMMA SaveTicketTells ==
    ASSUME InboxInv, IntakeInv, NEW h \in Hooks, NEW t \in LTickets, SaveTicket(h, t)
    PROVE  IntakeInv'
PROOF
<1> DEFINE pc == IF hook[h].reply = "urgent" THEN "ping" ELSE "result"
           k == [hook[h] EXCEPT !.pc = pc, !.seen = t]
           row == NewTicket(Th(h), Msg(h), "open", hook[h].reply = "urgent")
<1>1. /\ hook[h].pc = "ticket" /\ ~Saved(t) /\ hook' = [hook EXCEPT ![h] = k] /\ tix' = [tix EXCEPT ![t] = row]
      /\ UNCHANGED <<thread, inbound, replied, sent, blockedSenders, deskJob, inboxOverlapped, crowded, broken, dropped>>
  BY DEF SaveTicket, history
<1>2. k.pc = pc /\ k.batch = hook[h].batch /\ k.at = hook[h].at /\ k.seen = t /\ pc \in {"ping", "result"}
  BY HookHas DEF Hook
<1>3. HookRuns(h) /\ MessagesInv
  BY <1>1 DEF HookRuns, IntakeInv
<1>4. /\ Msg(h) \in CustMsgs /\ Th(h) \in Threads /\ Msg(h) \notin Ratings /\ Msg(h) \in replied
      /\ Msg(h) \notin inboxOverlapped => sent[Msg(h)] = 0 /\ \A u \in LTickets : Saved(u) => tix[u].msg # Msg(h)
  BY <1>1, <1>3, MessageHas DEF PastLookup, AfterReply
<1>5. /\ row \in TicketRow /\ row.thread = Th(h) /\ row.msg = Msg(h) /\ row.ping = "none"
      /\ row.urgent => pc = "ping"
  BY <1>4 DEF NewTicket, TicketRow
<1> HIDE DEF k, pc, row
<1>6. TicketsKept({t}) /\ tix'[t] = row /\ row # NoTicket /\ \A u \in LTickets \ {t} : tix'[u] = tix[u]
  BY <1>1, <1>5, TicketMade
<1>7. OthersStand({h}) /\ Stands(h, pc, t)
  BY <1>1, <1>2, HookMovesOn
<1>8. t # NoTicket
  BY InboxAssumption
<1>9. MessagesInv'
  <2> DEFINE made == {t}
  <2>1. made \in SUBSET LTickets /\ TicketsKept(made) /\ \A u \in made : tix'[u] # NoTicket =>
              tix'[u].msg \in {Msg(h), NoMsg} /\ (tix'[u].msg # NoMsg => Msg(h) \in replied')
    BY <1>1, <1>4, <1>5, <1>6
  <2>2. /\ replied \subseteq replied' /\ inbound \subseteq inbound' /\ dropped \subseteq dropped'
        /\ replied' \subseteq replied \cup {Msg(h)} /\ inbound' \subseteq CustMsgs \ Ratings /\ replied' \subseteq inbound'
        /\ sent' \in [CustMsgs -> Nat] /\ \A x \in CustMsgs \ {Msg(h)} : sent'[x] = sent[x]
    BY <1>1, <1>3 DEF MessagesInv
  <2>3. Msg(h) \notin inboxOverlapped =>
              /\ sent'[Msg(h)] <= 1 /\ (Msg(h) \notin replied' => sent'[Msg(h)] = 0)
              /\ \A u, v \in LTickets : Saved(u)' /\ Saved(v)' /\ tix'[u].msg = Msg(h) /\ tix'[v].msg = Msg(h) => u = v
    BY <1>4, <1>6, <1>1 DEF Saved
  <2>4. /\ pc \notin Rested /\ pc # "next" /\ pc # "reply" /\ pc # "ticket"
        /\ Msg(h) \in replied' /\ (Msg(h) \notin inboxOverlapped => sent'[Msg(h)] = 0)
    BY <1>1, <1>2, <1>4 DEF Rested
  <2> HIDE DEF made, Msg, HookRuns, PastLookup, AfterReply, Rested, OthersStand, Stands, TicketsKept
  <2> QED
    BY <1>1, <1>3, <1>4, <1>7, <2>1, <2>2, <2>3, <2>4, MessageGoesOn
<1>10. HookRuns(h)' /\ Th(h)' = Th(h) /\ hook'[h].seen = t /\ hook'[h].pc = pc
  BY <1>2, <1>7 DEF Stands, HookRuns, Th, Msg
<1>11. GradesInv'
  <2> DEFINE moving == {h}
  <2>1. \A g \in moving : /\ HookRuns(g)' => HookRuns(g) /\ Th(g)' = Th(g)
                          /\ hook'[g].pc # "score"
                          /\ hook[g].pc = "score" => Th(g) \in broken'
    BY <1>1, <1>2, <1>3, <1>10
  <2>2. moving \in SUBSET Hooks /\ OthersStand(moving)
    BY <1>7
  <2>3. \A c \in Threads : thread'[c].confidence = thread[c].confidence /\ thread'[c].autoQa = thread[c].autoQa
    BY <1>1
  <2> HIDE DEF moving
  <2> QED
    BY <1>1, <2>1, <2>2, <2>3, GradesStep DEF IntakeInv
<1>12. TicketsInv'
  <2>1. \A u \in LTickets : Saved(u) => u # t /\ tix'[u] = tix[u]
    BY <1>1, <1>6
  <2>2. ASSUME NEW g \in Hooks, hook'[g].seen # NoTicket PROVE HookRuns(g)' /\ tix'[hook'[g].seen].thread = Th(g)'
    <3>1. CASE g = h
      BY <1>5, <1>6, <1>10, <3>1
    <3>2. CASE g # h
      BY <1>7, <3>2, <2>1, <2>2, SeenIs DEF OthersStand, HookRuns, Th, Msg, IntakeInv, TicketsInv
    <3> QED
      BY <3>1, <3>2
  <2>3. \A c \in Threads : thread[c].ticket # NoTicket => thread[c].ticket \in LTickets /\ Saved(thread[c].ticket)
    BY DEF InboxInv, ThreadRow
  <2>4. \A d \in DeskJobs : deskJob[d].ticket # NoTicket => deskJob[d].ticket \in LTickets /\ Saved(deskJob[d].ticket)
    BY DEF InboxInv, DeskRequest
  <2>5. ASSUME NEW u \in LTickets, Saved(u)'
        PROVE  /\ \/ thread'[tix'[u].thread].ticket # NoTicket
                  \/ tix'[u].thread \in broken'
                  \/ \E g \in Hooks : hook'[g].pc \in {"ping", "result"} /\ hook'[g].seen = u
                  \/ \E d \in DeskJobs : deskJob'[d].pc = "attach" /\ deskJob'[d].ticket = u
               /\ tix'[u].urgent /\ tix'[u].ping = "none" =>
                  \/ tix'[u].thread \in broken'
                  \/ \E g \in Hooks : hook'[g].pc = "ping" /\ hook'[g].seen = u
    <3>1. CASE u = t
      BY <1>2, <1>5, <1>6, <1>10, <3>1
    <3>2. CASE u # t
      BY <1>6, <2>5, <3>2, <1>1, <1>7 DEF Saved, OthersStand, IntakeInv, TicketsInv
    <3> QED
      BY <3>1, <3>2
  <2>6. broken' \subseteq Threads /\ blockedSenders' \subseteq Threads
    BY <1>1 DEF IntakeInv, TicketsInv
  <2>7. ASSUME NEW c \in Threads, thread'[c].ticket # NoTicket PROVE tix'[thread'[c].ticket].thread = c
    BY <1>1, <2>1, <2>3, <2>7 DEF IntakeInv, TicketsInv
  <2>8. ASSUME NEW d \in DeskJobs
        PROVE /\ deskJob'[d].ticket # NoTicket => tix'[deskJob'[d].ticket].thread = deskJob'[d].thread
              /\ deskJob'[d].pc = "attach" => deskJob'[d].ticket # NoTicket
              /\ deskJob'[d].pc = "take" => deskJob'[d].ticket = NoTicket
    BY <1>1, <2>1, <2>4 DEF IntakeInv, TicketsInv
  <2> QED
    BY <2>2, <2>5, <2>6, <2>7, <2>8 DEF TicketsInv
<1> QED
  BY <1>9, <1>11, <1>12 DEF IntakeInv

\* The link and the confidence of the reply are recorded on the conversation.
LEMMA ResultTells ==
    ASSUME InboxInv, IntakeInv, NEW h \in Hooks, SetConversationResult(h)
    PROVE  IntakeInv'
PROOF
<1> DEFINE t == IF hook[h].seen = NoTicket THEN thread[Th(h)].ticket ELSE hook[h].seen
           row == [thread[Th(h)] EXCEPT !.confidence = Msg(h), !.ticket = t]
           pc == IF Th(h) \in TestSenders THEN "send" ELSE "score"
           k == [hook[h] EXCEPT !.pc = pc, !.seen = NoTicket]
<1>1. /\ hook[h].pc = "result" /\ hook' = [hook EXCEPT ![h] = k]
      /\ UNCHANGED <<inbound, replied, sent, tix, blockedSenders, deskJob, inboxOverlapped, crowded, broken, dropped>>
  BY DEF SetConversationResult, history
<1>2. HookRuns(h) /\ MessagesInv
  BY <1>1 DEF HookRuns, IntakeInv
<1>3. Msg(h) \in CustMsgs /\ Th(h) \in Threads /\ Msg(h) \notin Ratings
  BY <1>1, <1>2, MessageHas DEF PastLookup, AfterReply
<1>4. thread' = [thread EXCEPT ![Th(h)] = row]
  BY <1>3 DEF InboxInv, ThreadRow, SetConversationResult
<1>5. k.pc = pc /\ k.batch = hook[h].batch /\ k.at = hook[h].at /\ k.seen = NoTicket /\ pc \in {"send", "score"}
      /\ (Th(h) \notin TestSenders => pc = "score")
  BY HookHas DEF Hook
<1>6. row.confidence = Msg(h) /\ row.ticket = t /\ row.autoQa = thread[Th(h)].autoQa
  BY <1>3 DEF InboxInv, ThreadRow
<1>7. thread'[Th(h)] = row /\ \A c \in Threads \ {Th(h)} : thread'[c] = thread[c]
  BY <1>3, <1>4 DEF InboxInv
<1>8. /\ t # NoTicket => t \in LTickets /\ Saved(t) /\ tix[t].thread = Th(h)
      /\ hook[h].seen # NoTicket => t # NoTicket
      /\ thread[Th(h)].ticket # NoTicket => t # NoTicket
  BY SeenIs, <1>3 DEF InboxInv, ThreadRow, IntakeInv, TicketsInv
<1> HIDE DEF t, row, pc, k
<1>9. OthersStand({h}) /\ Stands(h, pc, NoTicket) /\ TicketsKept({})
  BY <1>1, <1>5, HookMovesOn, TicketsUnmoved
<1>10. MessagesInv'
  <2>1. /\ hook[h].pc \in AfterReply /\ pc \notin Rested /\ pc \notin {"reply", "ticket", "next"}
    BY <1>1, <1>5 DEF Rested, AfterReply
  <2> HIDE DEF Msg, HookRuns, PastLookup, AfterReply, Rested, OthersStand, Stands, TicketsKept
  <2> QED
    BY <1>1, <1>2, <1>3, <1>9, <2>1, MessageQuiet
<1>11. /\ HookRuns(h)' /\ Th(h)' = Th(h) /\ Msg(h)' = Msg(h) /\ hook'[h].seen = NoTicket /\ hook'[h].pc = pc
       /\ \A g \in Hooks \ {h} : /\ HookRuns(g)' = HookRuns(g) /\ Th(g)' = Th(g) /\ Msg(g)' = Msg(g)
                                 /\ hook'[g].seen = hook[g].seen /\ hook'[g].pc = hook[g].pc
  BY <1>5, <1>9 DEF Stands, OthersStand, HookRuns, Th, Msg
<1> HIDE DEF Msg, HookRuns, Th
<1>12. GradesInv'
  <2>1. ASSUME NEW f \in Hooks, NEW g \in Hooks, HookRuns(f)', HookRuns(g)', Th(f)' = Th(g)', Th(g)' \notin crowded'
        PROVE  f = g
    BY <1>1, <1>2, <1>11, <2>1 DEF IntakeInv, GradesInv
  <2>2. ASSUME NEW g \in Hooks, hook'[g].pc = "score", Th(g)' \notin crowded' PROVE thread'[Th(g)'].confidence = Msg(g)'
    <3>1. CASE g = h
      BY <1>6, <1>7, <1>11, <3>1
    <3>2. CASE g # h
      BY <1>1, <1>11, <2>2, <3>2, <1>2, MessageHas, <1>7 DEF HookRuns, IntakeInv, GradesInv
    <3> QED
      BY <3>1, <3>2
  <2>3. ASSUME NEW c \in Threads \ (TestSenders \cup broken' \cup crowded')
        PROVE  thread'[c].autoQa = thread'[c].confidence \/ \E g \in Hooks : hook'[g].pc = "score" /\ Th(g)' = c
    BY <1>5, <1>11, <2>3, <1>1, <1>7 DEF IntakeInv, GradesInv
  <2> QED
    BY <2>1, <2>2, <2>3 DEF GradesInv
<1>13. TicketsInv'
  <2>1. ASSUME NEW g \in Hooks, hook'[g].seen # NoTicket PROVE HookRuns(g)' /\ tix'[hook'[g].seen].thread = Th(g)'
    BY <1>1, <1>11, <2>1 DEF IntakeInv, TicketsInv
  <2>2. ASSUME NEW c \in Threads, thread'[c].ticket # NoTicket PROVE tix'[thread'[c].ticket].thread = c
    BY <1>1, <1>6, <1>7, <1>8, <2>2 DEF IntakeInv, TicketsInv
  <2>3. \A c \in Threads : thread[c].ticket # NoTicket => thread'[c].ticket # NoTicket
    BY <1>6, <1>7, <1>8
  <2>4. ASSUME NEW u \in LTickets, Saved(u)'
        PROVE  \/ thread'[tix'[u].thread].ticket # NoTicket
               \/ tix'[u].thread \in broken'
               \/ \E g \in Hooks : hook'[g].pc \in {"ping", "result"} /\ hook'[g].seen = u
               \/ \E d \in DeskJobs : deskJob'[d].pc = "attach" /\ deskJob'[d].ticket = u
    <3>1. Saved(u) /\ tix'[u] = tix[u] /\ tix[u].thread \in Threads
      BY <1>1, <2>4 DEF Saved, InboxInv, TicketRow
    <3>2. CASE thread[tix[u].thread].ticket # NoTicket
      BY <2>3, <3>1, <3>2
    <3>3. CASE \E g \in Hooks : hook[g].pc \in {"ping", "result"} /\ hook[g].seen = u
      <4>1. PICK g \in Hooks : hook[g].pc \in {"ping", "result"} /\ hook[g].seen = u
        BY <3>3
      <4>2. CASE g = h
        BY <4>1, <4>2, InboxAssumption, <1>6, <1>7, <1>8, <3>1 DEF IntakeInv, TicketsInv
      <4>3. CASE g # h
        BY <1>11, <4>1, <4>3
      <4> QED
        BY <4>2, <4>3
    <3>4. CASE tix[u].thread \in broken \/ \E d \in DeskJobs : deskJob[d].pc = "attach" /\ deskJob[d].ticket = u
      BY <1>1, <3>1, <3>4
    <3> QED
      BY <3>1, <3>2, <3>3, <3>4 DEF IntakeInv, TicketsInv
  <2>5. ASSUME NEW u \in LTickets, Saved(u)', tix'[u].urgent /\ tix'[u].ping = "none"
        PROVE  tix'[u].thread \in broken' \/ \E g \in Hooks : hook'[g].pc = "ping" /\ hook'[g].seen = u
    BY <1>1, <2>5, <1>11 DEF Saved, IntakeInv, TicketsInv
  <2>6. \A d \in DeskJobs :
              /\ deskJob'[d].ticket # NoTicket => tix'[deskJob'[d].ticket].thread = deskJob'[d].thread
              /\ deskJob'[d].pc = "attach" => deskJob'[d].ticket # NoTicket
              /\ deskJob'[d].pc = "take" => deskJob'[d].ticket = NoTicket
    BY <1>1 DEF IntakeInv, TicketsInv
  <2> QED
    BY <1>1, <2>1, <2>2, <2>4, <2>5, <2>6 DEF IntakeInv, TicketsInv
<1> QED
  BY <1>10, <1>12, <1>13 DEF IntakeInv

\* The reply just recorded is graded, or the failure to is known.
LEMMA ScoreTells ==
    ASSUME InboxInv, IntakeInv, NEW h \in Hooks, NEW works \in BOOLEAN, ScoreConversation(h, works)
    PROVE  IntakeInv'
PROOF
<1>1. /\ hook[h].pc = "score" /\ Step(h, "send")
      /\ broken' = IF works THEN broken ELSE broken \cup {Th(h)}
      /\ thread' = IF works THEN [thread EXCEPT ![Th(h)].autoQa = Msg(h)] ELSE thread
      /\ UNCHANGED <<inbound, replied, sent, tix, blockedSenders, deskJob, inboxOverlapped, crowded, dropped>>
  BY DEF ScoreConversation
<1>2. HookRuns(h) /\ MessagesInv
  BY <1>1 DEF HookRuns, IntakeInv
<1>3. Msg(h) \in CustMsgs /\ Th(h) \in Threads /\ Msg(h) \notin Ratings
  BY <1>1, <1>2, MessageHas DEF PastLookup, AfterReply
<1>4. OthersStand({h}) /\ Stands(h, "send", hook[h].seen) /\ TicketsKept({})
  BY <1>1, PcMovesOn, TicketsUnmoved
<1>5. /\ \A c \in Threads : thread'[c].ticket = thread[c].ticket /\ thread'[c].confidence = thread[c].confidence
      /\ \A c \in Threads \ {Th(h)} : thread'[c] = thread[c]
      /\ works => thread'[Th(h)].autoQa = Msg(h)
  BY <1>1, <1>3 DEF InboxInv, ThreadRow
<1>6. MessagesInv'
  <2> DEFINE pc == "send"
  <2>1. /\ hook[h].pc \in AfterReply /\ pc \notin Rested /\ pc \notin {"reply", "ticket", "next"} /\ Stands(h, pc, hook[h].seen)
    BY <1>1, <1>4 DEF Rested, AfterReply
  <2> HIDE DEF Msg, HookRuns, PastLookup, AfterReply, Rested, OthersStand, Stands, TicketsKept, pc
  <2> QED
    BY <1>1, <1>2, <1>3, <1>4, <2>1, MessageQuiet
<1>7. /\ HookRuns(h)' /\ Th(h)' = Th(h) /\ Msg(h)' = Msg(h) /\ hook'[h].seen = hook[h].seen /\ hook'[h].pc = "send"
      /\ \A g \in Hooks \ {h} : /\ HookRuns(g)' = HookRuns(g) /\ Th(g)' = Th(g) /\ Msg(g)' = Msg(g)
                                /\ hook'[g].seen = hook[g].seen /\ hook'[g].pc = hook[g].pc
  BY <1>4 DEF Stands, OthersStand, HookRuns, Th, Msg
<1> HIDE DEF Msg, HookRuns, Th
<1>8. broken \subseteq broken' /\ broken' \subseteq Threads /\ blockedSenders' \subseteq Threads
  BY <1>1, <1>3 DEF IntakeInv, TicketsInv
<1>9. GradesInv'
  <2>1. ASSUME NEW f \in Hooks, NEW g \in Hooks, HookRuns(f)', HookRuns(g)', Th(f)' = Th(g)', Th(g)' \notin crowded'
        PROVE  f = g
    BY <1>1, <1>2, <1>7, <2>1 DEF IntakeInv, GradesInv
  <2>2. ASSUME NEW g \in Hooks, hook'[g].pc = "score", Th(g)' \notin crowded' PROVE thread'[Th(g)'].confidence = Msg(g)'
    BY <1>7, <2>2, <1>2, MessageHas, <1>1, <1>5 DEF HookRuns, IntakeInv, GradesInv
  <2>3. ASSUME NEW c \in Threads \ (TestSenders \cup broken' \cup crowded')
        PROVE  thread'[c].autoQa = thread'[c].confidence \/ \E g \in Hooks : hook'[g].pc = "score" /\ Th(g)' = c
    <3>1. CASE c = Th(h)
      BY <1>1, <2>3, <3>1, <1>5 DEF IntakeInv, GradesInv
    <3>2. CASE c # Th(h)
      BY <1>1, <1>5, <1>7, <1>8, <2>3, <3>2 DEF IntakeInv, GradesInv
    <3> QED
      BY <3>1, <3>2
  <2> QED
    BY <2>1, <2>2, <2>3 DEF GradesInv
<1>10. TicketsInv'
  <2> DEFINE moving == {h}
  <2>1. \A g \in moving :
              /\ hook'[g].seen # NoTicket => HookRuns(g)' /\ hook'[g].seen \in LTickets
                                             /\ Saved(hook'[g].seen) /\ tix[hook'[g].seen].thread = Th(g)'
              /\ hook[g].pc \in {"ping", "result"} =>
                    Th(g) \in broken' \/ (hook'[g].pc \in {"ping", "result"} /\ hook'[g].seen = hook[g].seen)
              /\ hook[g].pc = "ping" =>
                    \/ Th(g) \in broken' \/ (hook'[g].pc = "ping" /\ hook'[g].seen = hook[g].seen)
                    \/ tix'[hook[g].seen].ping # "none"
    BY <1>1, <1>7, SeenIs
  <2>2. moving \in SUBSET Hooks /\ OthersStand(moving)
    BY <1>4
  <2> HIDE DEF moving
  <2> QED
    BY <1>1, <1>4, <1>5, <1>8, <2>1, <2>2, TicketsStep DEF IntakeInv
<1> QED
  BY <1>6, <1>9, <1>10 DEF IntakeInv

\* Deliveries stand, no message and no grade changes: of the tickets, only ones made without a message are new.
LEMMA DeskLeaves ==
    ASSUME InboxInv, IntakeInv, OthersStand({}), NEW made \in SUBSET LTickets, TicketsKept(made),
           \A t \in made : tix'[t] # NoTicket => tix'[t].msg = NoMsg,
           UNCHANGED <<replied, inbound, dropped, sent, inboxOverlapped, crowded>>, broken \subseteq broken',
           \A c \in Threads : thread'[c].confidence = thread[c].confidence /\ thread'[c].autoQa = thread[c].autoQa
    PROVE  MessagesInv' /\ GradesInv'
PROOF
<1> DEFINE m == NoMsg
           moving == {}
<1>1. /\ m \in CustMsgs \cup {NoMsg} /\ m \notin CustMsgs /\ moving \in SUBSET Hooks /\ OthersStand(moving) /\ (m # NoMsg => moving # {})
      /\ \A h \in moving : /\ HookRuns(h) /\ Msg(h) = m
                           /\ MessageTells(hook'[h], replied', inbound', dropped', sent', tix', inboxOverlapped')
                           /\ HookRuns(h)' => Msg(h)' = m
      /\ \A h \in moving : /\ HookRuns(h)' => HookRuns(h) /\ Th(h)' = Th(h)
                           /\ hook'[h].pc # "score"
                           /\ hook[h].pc = "score" => Th(h) \in broken'
  BY InboxAssumption DEF NoMsg
<1>2. /\ replied \subseteq replied' /\ inbound \subseteq inbound' /\ dropped \subseteq dropped'
      /\ replied' \subseteq replied \cup {m} /\ inbound' \subseteq CustMsgs \ Ratings /\ replied' \subseteq inbound'
      /\ sent' \in [CustMsgs -> Nat] /\ \A x \in CustMsgs \ {m} : sent'[x] = sent[x]
  BY DEF IntakeInv, MessagesInv
<1>3. \A t \in made : tix'[t] # NoTicket => tix'[t].msg \in {m, NoMsg} /\ (tix'[t].msg # NoMsg => m \in replied')
  OBVIOUS
<1>4. m \in CustMsgs \ inboxOverlapped =>
              /\ sent'[m] <= 1 /\ (m \notin replied' => sent'[m] = 0)
              /\ \A t, u \in LTickets : Saved(t)' /\ Saved(u)' /\ tix'[t].msg = m /\ tix'[u].msg = m => t = u
  BY <1>1
<1> HIDE DEF m, moving
<1>5. MessagesInv'
  BY <1>1, <1>2, <1>3, <1>4, MessagesStep DEF IntakeInv
<1>6. GradesInv'
  BY <1>1, GradesStep DEF IntakeInv
<1> QED
  BY <1>5, <1>6

\* The tickets and their links stay: only statuses, and the versions that were read.
LEMMA DeskOnlySets ==
    ASSUME InboxInv, IntakeInv, OthersStand({}), TicketsKept({}), blockedSenders' \subseteq Threads,
           UNCHANGED <<thread, replied, inbound, dropped, sent, deskJob, inboxOverlapped, crowded, broken>>
    PROVE  IntakeInv'
PROOF
<1>1. MessagesInv' /\ GradesInv'
  <2> DEFINE made == {}
  <2>1. made \in SUBSET LTickets /\ TicketsKept(made) /\ \A t \in made : tix'[t] # NoTicket => tix'[t].msg = NoMsg
    OBVIOUS
  <2> HIDE DEF made
  <2> QED
    BY <2>1, DeskLeaves
<1>2. TicketsInv'
  <2> DEFINE moving == {}
  <2>1. \A g \in moving :
              /\ hook'[g].seen # NoTicket => HookRuns(g)' /\ hook'[g].seen \in LTickets
                                             /\ Saved(hook'[g].seen) /\ tix[hook'[g].seen].thread = Th(g)'
              /\ hook[g].pc \in {"ping", "result"} =>
                    Th(g) \in broken' \/ (hook'[g].pc \in {"ping", "result"} /\ hook'[g].seen = hook[g].seen)
              /\ hook[g].pc = "ping" =>
                    \/ Th(g) \in broken' \/ (hook'[g].pc = "ping" /\ hook'[g].seen = hook[g].seen)
                    \/ tix'[hook[g].seen].ping # "none"
    OBVIOUS
  <2>2. moving \in SUBSET Hooks /\ OthersStand(moving)
    OBVIOUS
  <2>3. broken \subseteq broken' /\ broken' \subseteq Threads /\ \A c \in Threads : thread'[c].ticket = thread[c].ticket
    BY DEF IntakeInv, TicketsInv
  <2> HIDE DEF moving
  <2> QED
    BY <2>1, <2>2, <2>3, TicketsStep DEF IntakeInv
<1> QED
  BY <1>1, <1>2 DEF IntakeInv

\* Deliveries of which a version became old stand where they stood.
LEMMA OutdatedStand ==
    ASSUME InboxInv, NEW t \in LTickets, hook' = Outdated(t)
    PROVE  OthersStand({})
PROOF
  BY HookHas DEF Outdated, OthersStand, Hook

\* Operators set the status of a ticket, or assign it.
LEMMA UpdateTells ==
    ASSUME InboxInv, IntakeInv, NEW t \in LTickets, UpdateAssignee(t) \/ \E s \in DeskStatuses : UpdateStatus(t, s)
    PROVE  IntakeInv'
PROOF
<1>1. /\ Saved(t) /\ hook' = Outdated(t)
      /\ UNCHANGED <<thread, inbound, replied, sent, blockedSenders, deskJob, inboxOverlapped, crowded, broken, dropped>>
  BY DEF UpdateAssignee, UpdateStatus, history
<1>2. TicketsKept({})
  <2>1. CASE tix' = tix
    BY <2>1, TicketsUnmoved
  <2>2. ASSUME NEW s \in DeskStatuses, UpdateStatus(t, s) PROVE TicketsKept({})
    <3> DEFINE row == [tix[t] EXCEPT !.status = s]
    <3>1. tix[t] \in TicketRow
      BY <1>1 DEF InboxInv, Saved
    <3>2. /\ row \in TicketRow /\ row.thread = tix[t].thread /\ row.msg = tix[t].msg
          /\ row.urgent = tix[t].urgent /\ row.ping = tix[t].ping
      BY <3>1 DEF TicketRow
    <3>3. tix' = [tix EXCEPT ![t] = row]
      BY <2>2 DEF UpdateStatus
    <3> HIDE DEF row
    <3> QED
      BY <3>1, <3>2, <3>3, TicketWritten
  <2> QED
    BY <2>1, <2>2 DEF UpdateAssignee
<1>3. blockedSenders' \subseteq Threads
  BY <1>1 DEF IntakeInv, TicketsInv
<1> QED
  BY <1>1, <1>2, <1>3, OutdatedStand, DeskOnlySets

\* Operators block and unblock senders.
LEMMA BlockTells ==
    ASSUME InboxInv, IntakeInv, NEW c \in Threads, BlockSender(c) \/ UnblockSender(c)
    PROVE  IntakeInv'
PROOF
  BY TicketsUnmoved, DeskOnlySets DEF BlockSender, UnblockSender, history, IntakeInv, TicketsInv, OthersStand

\* What is known of a request of an operator, and of a link.
LEMMA RequestIs ==
    ASSUME InboxInv, IntakeInv
    PROVE  /\ \A d \in DeskJobs : deskJob[d].ticket # NoTicket =>
                 deskJob[d].ticket \in LTickets /\ Saved(deskJob[d].ticket) /\ tix[deskJob[d].ticket].thread = deskJob[d].thread
           /\ \A d \in DeskJobs : deskJob[d].pc # "idle" => deskJob[d].thread \in Threads
           /\ \A c \in Threads : thread[c].ticket # NoTicket =>
                 thread[c].ticket \in LTickets /\ Saved(thread[c].ticket) /\ tix[thread[c].ticket].thread = c
PROOF
  BY DEF InboxInv, DeskRequest, ThreadRow, IntakeInv, TicketsInv

\* An operator takes a conversation over: it has a ticket, or is to get one.
LEMMA TakeOverTells ==
    ASSUME InboxInv, IntakeInv, NEW d \in DeskJobs, NEW c \in Threads, TakeOver(d, c)
    PROVE  IntakeInv'
PROOF
<1> DEFINE k == IF thread[c].ticket = NoTicket THEN [IdleDesk EXCEPT !.pc = "take", !.thread = c] ELSE IdleDesk
<1>1. /\ deskJob[d].pc = "idle" /\ deskJob' = [deskJob EXCEPT ![d] = k]
      /\ UNCHANGED <<thread, inbound, replied, sent, tix, blockedSenders, hook, inboxOverlapped, crowded, broken, dropped>>
  BY DEF TakeOver, history
<1>2. k.ticket = NoTicket /\ k.pc # "attach"
  BY DEF IdleDesk
<1> HIDE DEF k
<1>3. deskJob'[d] = k /\ \A e \in DeskJobs \ {d} : deskJob'[e] = deskJob[e]
  BY <1>1 DEF InboxInv
<1>4. MessagesInv' /\ GradesInv'
  BY <1>1, TicketsUnmoved, DeskLeaves DEF OthersStand
<1>5. TicketsInv'
  BY <1>1, <1>2, <1>3 DEF Saved, HookRuns, Th, Msg, IntakeInv, TicketsInv
<1> QED
  BY <1>4, <1>5 DEF IntakeInv

\* The ticket of a takeover is saved, on a conversation its request will link it to.
LEMMA SaveTakeoverTells ==
    ASSUME InboxInv, IntakeInv, NEW d \in DeskJobs, NEW t \in LTickets, SaveTakeover(d, t)
    PROVE  IntakeInv'
PROOF
<1> DEFINE row == NewTicket(deskJob[d].thread, NoMsg, "assigned", FALSE)
           k == [deskJob[d] EXCEPT !.pc = "attach", !.ticket = t]
<1>1. /\ deskJob[d].pc = "take" /\ ~Saved(t) /\ tix' = [tix EXCEPT ![t] = row] /\ deskJob' = [deskJob EXCEPT ![d] = k]
      /\ UNCHANGED <<thread, inbound, replied, sent, blockedSenders, hook, inboxOverlapped, crowded, broken, dropped>>
  BY DEF SaveTakeover, history
<1>2. deskJob[d] \in DeskRequest /\ deskJob[d].thread \in Threads
  BY <1>1 DEF InboxInv
<1>3. row \in TicketRow /\ row.thread = deskJob[d].thread /\ row.msg = NoMsg /\ ~row.urgent
  BY <1>2 DEF NewTicket, TicketRow
<1>4. k.pc = "attach" /\ k.ticket = t /\ k.thread = deskJob[d].thread
  BY <1>2 DEF DeskRequest
<1> HIDE DEF row, k
<1>5. TicketsKept({t}) /\ tix'[t] = row /\ row # NoTicket /\ \A u \in LTickets \ {t} : tix'[u] = tix[u]
  BY <1>1, <1>3, TicketMade
<1>6. deskJob'[d] = k /\ \A e \in DeskJobs \ {d} : deskJob'[e] = deskJob[e]
  BY <1>1 DEF InboxInv
<1>7. t # NoTicket
  BY InboxAssumption
<1>8. MessagesInv' /\ GradesInv'
  <2> DEFINE made == {t}
  <2>1. made \in SUBSET LTickets /\ TicketsKept(made) /\ \A u \in made : tix'[u] # NoTicket => tix'[u].msg = NoMsg
    BY <1>3, <1>5
  <2>2. OthersStand({})
    BY <1>1 DEF OthersStand
  <2> HIDE DEF made
  <2> QED
    BY <1>1, <2>1, <2>2, DeskLeaves
<1>9. TicketsInv'
  <2>1. \A u \in LTickets : Saved(u) => u # t /\ tix'[u] = tix[u]
    BY <1>1, <1>5
  <2>2. \A g \in Hooks : HookRuns(g)' = HookRuns(g) /\ Th(g)' = Th(g)
    BY <1>1 DEF HookRuns, Th, Msg
  <2>3. \A g \in Hooks : hook'[g].seen # NoTicket => HookRuns(g)' /\ tix'[hook'[g].seen].thread = Th(g)'
    BY <1>1, <2>1, <2>2, SeenIs DEF IntakeInv, TicketsInv
  <2>4. \A c \in Threads : thread'[c].ticket # NoTicket => tix'[thread'[c].ticket].thread = c
    BY <1>1, <2>1, RequestIs
  <2>5. ASSUME NEW e \in DeskJobs
        PROVE  /\ deskJob'[e].ticket # NoTicket => tix'[deskJob'[e].ticket].thread = deskJob'[e].thread
               /\ deskJob'[e].pc = "attach" => deskJob'[e].ticket # NoTicket
               /\ deskJob'[e].pc = "take" => deskJob'[e].ticket = NoTicket
    BY <1>3, <1>4, <1>5, <1>6, <1>7, <2>1, RequestIs DEF IntakeInv, TicketsInv
  <2>6. ASSUME NEW u \in LTickets, Saved(u)'
        PROVE  /\ \/ thread'[tix'[u].thread].ticket # NoTicket
                  \/ tix'[u].thread \in broken'
                  \/ \E g \in Hooks : hook'[g].pc \in {"ping", "result"} /\ hook'[g].seen = u
                  \/ \E e \in DeskJobs : deskJob'[e].pc = "attach" /\ deskJob'[e].ticket = u
               /\ tix'[u].urgent /\ tix'[u].ping = "none" =>
                  \/ tix'[u].thread \in broken'
                  \/ \E g \in Hooks : hook'[g].pc = "ping" /\ hook'[g].seen = u
    <3>1. CASE u = t
      BY <1>3, <1>4, <1>5, <1>6, <3>1
    <3>2. CASE u # t
      BY <1>5, <2>6, <3>2, <1>1, <1>6 DEF Saved, IntakeInv, TicketsInv
    <3> QED
      BY <3>1, <3>2
  <2> QED
    BY <1>1, <2>3, <2>4, <2>5, <2>6 DEF IntakeInv, TicketsInv
<1> QED
  BY <1>8, <1>9 DEF IntakeInv

\* The conversation is linked to the ticket of its takeover.
LEMMA AttachTells ==
    ASSUME InboxInv, IntakeInv, NEW d \in DeskJobs, AttachTicket(d)
    PROVE  IntakeInv'
PROOF
<1> DEFINE c == deskJob[d].thread
           row == [thread[c] EXCEPT !.ticket = deskJob[d].ticket]
<1>1. /\ deskJob[d].pc = "attach" /\ thread' = [thread EXCEPT ![c] = row] /\ deskJob' = [deskJob EXCEPT ![d] = IdleDesk]
      /\ UNCHANGED <<inbound, replied, sent, tix, blockedSenders, hook, inboxOverlapped, crowded, broken, dropped>>
  BY DEF AttachTicket, history
<1>2. c \in Threads /\ deskJob[d].ticket # NoTicket /\ tix[deskJob[d].ticket].thread = c
  BY <1>1, RequestIs DEF IntakeInv, TicketsInv
<1>3. row.ticket = deskJob[d].ticket /\ row.confidence = thread[c].confidence /\ row.autoQa = thread[c].autoQa
  BY <1>2 DEF InboxInv, ThreadRow
<1> HIDE DEF row
<1>4. /\ thread'[c] = row /\ \A x \in Threads \ {c} : thread'[x] = thread[x]
      /\ deskJob'[d] = IdleDesk /\ \A e \in DeskJobs \ {d} : deskJob'[e] = deskJob[e]
  BY <1>1, <1>2 DEF InboxInv
<1>5. MessagesInv' /\ GradesInv'
  BY <1>3, <1>4, <1>1, TicketsUnmoved, DeskLeaves DEF OthersStand
<1>6. TicketsInv'
  <2>1. \A t \in LTickets : Saved(t)' = Saved(t)
    BY <1>1 DEF Saved
  <2>2. \A g \in Hooks : HookRuns(g)' = HookRuns(g) /\ Th(g)' = Th(g)
    BY <1>1 DEF HookRuns, Th, Msg
  <2>3. \A x \in Threads : /\ thread'[x].ticket # NoTicket => tix'[thread'[x].ticket].thread = x
                           /\ thread[x].ticket # NoTicket => thread'[x].ticket # NoTicket
    BY <1>1, <1>2, <1>3, <1>4, RequestIs
  <2>4. \A e \in DeskJobs :
            /\ deskJob'[e].ticket # NoTicket => tix'[deskJob'[e].ticket].thread = deskJob'[e].thread
            /\ deskJob'[e].pc = "attach" => deskJob'[e].ticket # NoTicket
            /\ deskJob'[e].pc = "take" => deskJob'[e].ticket = NoTicket
    BY <1>1, <1>4, IdleRequest, RequestIs DEF IntakeInv, TicketsInv
  <2>5. ASSUME NEW u \in LTickets, Saved(u)'
        PROVE  \/ thread'[tix'[u].thread].ticket # NoTicket
               \/ tix'[u].thread \in broken'
               \/ \E g \in Hooks : hook'[g].pc \in {"ping", "result"} /\ hook'[g].seen = u
               \/ \E e \in DeskJobs : deskJob'[e].pc = "attach" /\ deskJob'[e].ticket = u
    <3>1. Saved(u) /\ tix'[u] = tix[u] /\ tix[u].thread \in Threads
      BY <1>1, <2>5 DEF Saved, InboxInv, TicketRow
    <3>2. CASE u = deskJob[d].ticket
      BY <1>2, <1>3, <1>4, <3>1, <3>2
    <3>3. CASE u # deskJob[d].ticket
      BY <1>4, <3>3, <1>1, <2>3, <3>1 DEF IntakeInv, TicketsInv
    <3> QED
      BY <3>2, <3>3
  <2> QED
    BY <1>1, <2>1, <2>2, <2>3, <2>4, <2>5 DEF IntakeInv, TicketsInv
<1> QED
  BY <1>5, <1>6 DEF IntakeInv

\* A request of an operator breaks off.
LEMMA DeskFailsTells ==
    ASSUME InboxInv, IntakeInv, NEW d \in DeskJobs, DeskFails(d)
    PROVE  IntakeInv'
PROOF
<1> DEFINE c == IF deskJob[d].ticket = NoTicket THEN deskJob[d].thread ELSE tix[deskJob[d].ticket].thread
<1>1. /\ deskJob[d].pc # "idle" /\ deskJob' = [deskJob EXCEPT ![d] = IdleDesk] /\ broken' = broken \cup {c}
      /\ UNCHANGED <<thread, inbound, replied, sent, tix, blockedSenders, hook, inboxOverlapped, crowded, dropped>>
  BY DEF DeskFails, DeskRuns
<1>2. c \in Threads /\ c = deskJob[d].thread
  BY <1>1, RequestIs
<1> HIDE DEF c
<1>3. deskJob'[d] = IdleDesk /\ \A e \in DeskJobs \ {d} : deskJob'[e] = deskJob[e]
  BY <1>1 DEF InboxInv
<1>4. MessagesInv' /\ GradesInv'
  BY <1>1, TicketsUnmoved, DeskLeaves DEF OthersStand
<1>5. TicketsInv'
  <2>1. \A t \in LTickets : Saved(t)' = Saved(t)
    BY <1>1 DEF Saved
  <2>2. \A g \in Hooks : HookRuns(g)' = HookRuns(g) /\ Th(g)' = Th(g)
    BY <1>1 DEF HookRuns, Th, Msg
  <2>3. ASSUME NEW u \in LTickets, Saved(u)'
        PROVE  \/ thread'[tix'[u].thread].ticket # NoTicket
               \/ tix'[u].thread \in broken'
               \/ \E g \in Hooks : hook'[g].pc \in {"ping", "result"} /\ hook'[g].seen = u
               \/ \E e \in DeskJobs : deskJob'[e].pc = "attach" /\ deskJob'[e].ticket = u
    <3>1. Saved(u) /\ tix'[u] = tix[u] /\ u # NoTicket
      BY <1>1, <2>3, InboxAssumption DEF Saved
    <3>2. CASE u = deskJob[d].ticket
      BY <1>1, <1>2, <3>1, <3>2, RequestIs
    <3>3. CASE u # deskJob[d].ticket
      BY <1>3, <3>3, <1>1, <3>1 DEF IntakeInv, TicketsInv
    <3> QED
      BY <3>2, <3>3
  <2>4. \A e \in DeskJobs :
            /\ deskJob'[e].ticket # NoTicket => tix'[deskJob'[e].ticket].thread = deskJob'[e].thread
            /\ deskJob'[e].pc = "attach" => deskJob'[e].ticket # NoTicket
            /\ deskJob'[e].pc = "take" => deskJob'[e].ticket = NoTicket
    BY <1>1, <1>3, IdleRequest, RequestIs DEF IntakeInv, TicketsInv
  <2> QED
    BY <1>1, <1>2, <2>1, <2>2, <2>3, <2>4 DEF IntakeInv, TicketsInv
<1> QED
  BY <1>4, <1>5 DEF IntakeInv

\* The intake starts with nothing stored, saved or graded.
LEMMA IntakeStarts == InboxInit => IntakeInv
PROOF
<1> SUFFICES ASSUME InboxInit PROVE IntakeInv
  OBVIOUS
<1> USE DEF InboxInit
<1>1. \A h \in Hooks : hook[h] = IdleHook /\ ~HookRuns(h) /\ hook[h].pc = "idle" /\ hook[h].seen = NoTicket
  BY DEF IdleHook, HookRuns
<1>2. \A h \in Hooks : MessageTells(hook[h], replied, inbound, dropped, sent, tix, inboxOverlapped)
  BY <1>1 DEF MessageTells, PastLookup, AfterReply, Rested
<1>3. \A t \in LTickets : ~Saved(t)
  BY DEF Saved
<1>4. MessagesInv
  BY <1>1, <1>2, <1>3 DEF MessagesInv
<1>5. TicketsInv
  BY <1>1, <1>3, IdleRequest DEF TicketsInv
<1>6. GradesInv
  BY <1>1 DEF GradesInv
<1> QED
  BY <1>4, <1>5, <1>6 DEF IntakeInv

\* Every step of the intake keeps what is known of its messages, tickets and grades.
LEMMA IntakeKeeps == InboxInv /\ IntakeInv /\ [InboxNext]_inboxVars => IntakeInv'
PROOF
<1> SUFFICES ASSUME InboxInv, IntakeInv, [InboxNext]_inboxVars PROVE IntakeInv'
  OBVIOUS
<1>1. ASSUME NEW h \in Hooks, HookStep(h) PROVE IntakeInv'
  <2>1. CASE (\E b \in Batches : ReceiveDelivery(h, b)) \/ NextMessage(h) \/ DeliveryFails(h)
    BY <2>1, DeliveryMovesTells
  <2>2. CASE CaptureCsat(h) \/ UpsertConversation(h) \/ ReadForReopen(h) \/ Reopen(h) \/ ReopenFails(h) \/ StoreInbound(h)
    BY <2>2, CaptureCsatTells, UpsertTells, ReadForReopenTells, ReopenTells, ReopenFailsTells, StoreInboundTells
  <2>3. CASE \E r \in LReplies : StoreReply(h, r)
    BY <2>3, StoreReplyTells
  <2>4. CASE \E t \in LTickets : SaveTicket(h, t)
    BY <2>4, SaveTicketTells
  <2>5. CASE \E works \in BOOLEAN : NotifyPoc(h, works) \/ ScoreConversation(h, works)
    BY <2>5, NotifyPocTells, ScoreTells
  <2>6. CASE SetConversationResult(h) \/ SendReply(h)
    BY <2>6, ResultTells, SendReplyTells
  <2> QED
    BY <1>1, <2>1, <2>2, <2>3, <2>4, <2>5, <2>6 DEF HookStep
<1>2. ASSUME NEW d \in DeskJobs, DeskStep(d) PROVE IntakeInv'
  BY <1>2, TakeOverTells, SaveTakeoverTells, AttachTells, DeskFailsTells DEF DeskStep
<1>3. ASSUME NEW t \in LTickets, UpdateAssignee(t) \/ (\E s \in DeskStatuses : UpdateStatus(t, s)) PROVE IntakeInv'
  BY <1>3, UpdateTells
<1>4. ASSUME NEW c \in Threads, BlockSender(c) \/ UnblockSender(c) PROVE IntakeInv'
  BY <1>4, BlockTells
<1>5. CASE UNCHANGED inboxVars
  BY <1>5, TicketsUnmoved, DeskOnlySets DEF inboxVars, history, OthersStand, IntakeInv, TicketsInv
<1> QED
  BY <1>1, <1>2, <1>3, <1>4, <1>5 DEF InboxNext

\* What the runs check of the intake follows.
LEMMA IntakeHolds ==
    ASSUME InboxInv, IntakeInv
    PROVE  /\ InboxTypeOK /\ TicketIsReachable /\ OneTicketPerMessage /\ AcknowledgedIsStored
           /\ RepliedOnce /\ UrgentIsPinged /\ GradeIsOfLastReply
PROOF
<1>1. InboxTypeOK
  BY HookHas DEF Hook, InboxTypeOK, HookPc, InboxInv, ThreadRow, IntakeInv, MessagesInv, TicketsInv
<1>2. TicketIsReachable
  <2>1. \A c \in Threads : thread[c].ticket # NoTicket => thread[c].ticket \in TicketsOf(c)
    BY RequestIs DEF TicketsOf
  <2>2. ASSUME NEW c \in Threads, Quiet(c), c \notin broken, TicketsOf(c) # {} PROVE thread[c].ticket # NoTicket
    BY <2>2, InboxAssumption, RequestIs DEF TicketsOf, Quiet, IntakeInv, TicketsInv, DeskRuns
  <2> QED
    BY <2>1, <2>2 DEF TicketIsReachable
<1>3. OneTicketPerMessage
  <2>1. ASSUME NEW m \in CustMsgs \ inboxOverlapped
        PROVE  Cardinality({t \in LTickets : Saved(t) /\ tix[t].msg = m}) <= 1
    <3> DEFINE S == {t \in LTickets : Saved(t) /\ tix[t].msg = m}
    <3>1. \A t, u \in S : t = u
      BY DEF IntakeInv, MessagesInv
    <3> HIDE DEF S
    <3>2. Cardinality(S) <= 1
      BY <3>1, AtMostOne
    <3> QED
      BY <3>2 DEF S
  <2> QED
    BY <2>1 DEF OneTicketPerMessage
<1>4. AcknowledgedIsStored
  BY DEF AcknowledgedIsStored, IntakeInv, MessagesInv, MessageTells, HandledMsg
<1>5. RepliedOnce
  BY DEF RepliedOnce, IntakeInv, MessagesInv
<1>6. UrgentIsPinged
  BY InboxAssumption DEF UrgentIsPinged, Quiet, IntakeInv, TicketsInv
<1>7. GradeIsOfLastReply
  BY DEF GradeIsOfLastReply, HookRuns, Quiet, IntakeInv, GradesInv
<1> QED
  BY <1>1, <1>2, <1>3, <1>4, <1>5, <1>6, <1>7

-----------------------------------------------------------------------------
(* Change requests and entries again: what is made is made once, and what a  *)
(* request became is told.                                                   *)

Publishing == {"accepted", "drafted", "live"}
AnswersOf(q) == {a \in Articles : article[a] # NoArticle /\ article[a].from = q}

\* What holds of a request that no two jobs worked on at once and none left half-way: it has an answer only
\* when it is published, or while the one job that publishes it is past its draft.
AskIsAccounted(q) ==
    /\ \A a, b \in AnswersOf(q) : a = b
    /\ AnswersOf(q) # {} =>
          /\ ask[q] # NoArticle
          /\ \/ ask[q].status = "published" /\ ask[q].out # NoArticle
             \/ \E j \in LkJobs : lkJob[j].pc \in {"drafted", "live"} /\ lkJob[j].on = q
    /\ \A i, j \in LkJobs :
          lkJob[i].pc \in Publishing /\ lkJob[j].pc \in Publishing /\ lkJob[i].on = q /\ lkJob[j].on = q => i = j
    /\ \A j \in LkJobs : lkJob[j].pc = "accepted" /\ lkJob[j].on = q => AnswersOf(q) = {}
    /\ ask[q] # NoArticle =>
          \/ told[q]
          \/ \E j \in LkJobs : lkJob[j].pc = "event" /\ lkJob[j].on = q /\ lkJob[j].type = ask[q].status

AnswersInv ==
    /\ told \in [ChangeAsks -> BOOLEAN] /\ blurred \subseteq ChangeAsks
    /\ \A q \in ChangeAsks \ blurred : AskIsAccounted(q)

\* An origin no two makers handled at once has one entry at most, none while one is being made.
MadeInv ==
    \A o \in Origins \ entriesRaced :
       /\ \A e, f \in MadeFrom(o) : e = f
       /\ \A m \in Makers : maker[m].create = o => MadeFrom(o) = {} /\ \A n \in Makers : maker[n].create = o => n = m

\* A job that answers request q or is to tell what became of it.
WorksOn(job, q) == job.pc \in Publishing \cup {"event"} /\ job.on = q

\* The answers of q stay what they are.
AnswersStay(q) == \A a \in Articles : (article'[a] # NoArticle /\ article'[a].from = q) <=> a \in AnswersOf(q)

\* A request the job that moves on does not work on is accounted for as before.
LEMMA OtherAsk ==
    ASSUME NEW q, AskIsAccounted(q), ask'[q] = ask[q], told'[q] = told[q], AnswersStay(q),
           NEW j \in LkJobs, \A i \in LkJobs \ {j} : lkJob'[i] = lkJob[i],
           ~WorksOn(lkJob[j], q), ~WorksOn(lkJob'[j], q)
    PROVE  AskIsAccounted(q)'
PROOF
<1>1. AnswersOf(q)' = AnswersOf(q)
  BY DEF AnswersStay, AnswersOf
<1>2. \A i \in LkJobs : WorksOn(lkJob[i], q) \/ WorksOn(lkJob'[i], q) => i # j /\ lkJob'[i] = lkJob[i]
  OBVIOUS
<1>3. \A i \in LkJobs : /\ lkJob'[i].pc \in Publishing /\ lkJob'[i].on = q => i # j /\ lkJob'[i] = lkJob[i]
                        /\ lkJob[i].pc \in Publishing /\ lkJob[i].on = q => i # j /\ lkJob'[i] = lkJob[i]
                        /\ lkJob[i].pc = "event" /\ lkJob[i].on = q => i # j /\ lkJob'[i] = lkJob[i]
  BY <1>2 DEF WorksOn
<1> HIDE DEF AnswersOf
<1> QED
  BY <1>1, <1>3 DEF AskIsAccounted, Publishing

\* A request nobody else works on, when none of it is published and no job is past its draft, has no answer.
LEMMA NoAnswerYet ==
    ASSUME NEW q, AskIsAccounted(q), ask[q].out = NoArticle \/ ask[q].status # "published",
           \A j \in LkJobs : ~(lkJob[j].pc \in {"drafted", "live"} /\ lkJob[j].on = q)
    PROVE  AnswersOf(q) = {}
PROOF
  BY DEF AskIsAccounted

\* Articles change by one row that keeps its request: all answers stay.
LEMMA RowKeepsAnswer ==
    ASSUME LkInv, NEW a \in Articles, article[a] # NoArticle, NEW row \in Article, row.from = article[a].from,
           article' = [article EXCEPT ![a] = row]
    PROVE  \A q \in ChangeAsks : AnswersStay(q)
PROOF
  BY NoArticleAssumption DEF LkInv, AnswersStay, AnswersOf

LEMMA StatusKeepsAnswer ==
    ASSUME LkInv, NEW a \in Articles, article[a] # NoArticle, NEW s \in {"draft", "active", "archived"},
           article' = [article EXCEPT ![a].status = s]
    PROVE  \A q \in ChangeAsks : AnswersStay(q)
PROOF
<1> DEFINE row == [article[a] EXCEPT !.status = s]
<1>1. row \in Article /\ article' = [article EXCEPT ![a] = row] /\ row.from = article[a].from
  BY DEF LkInv, Article
<1> HIDE DEF row
<1> QED
  BY <1>1, RowKeepsAnswer

\* A new draft is an answer of its request only.
LEMMA DraftAnswers ==
    ASSUME LkInv, NEW a \in Articles, NEW p \in ChangeAsks \cup {NoArticle}, CreateDraft(a, p)
    PROVE  /\ \A q \in ChangeAsks \ {p} : AnswersStay(q)
           /\ p \in ChangeAsks => AnswersOf(p)' = AnswersOf(p) \cup {a}
PROOF
<1> DEFINE row == [status |-> "draft", from |-> p]
<1>1. row \in Article /\ row # NoArticle /\ row.from = p
  BY NoArticleAssumption DEF Article
<1>2. article[a] = NoArticle /\ article' = [article EXCEPT ![a] = row]
  BY DEF CreateDraft
<1> HIDE DEF row
<1> QED
  BY <1>1, <1>2 DEF LkInv, AnswersStay, AnswersOf

\* Articles nobody writes.
LEMMA NoArticleMoves ==
    ASSUME article' = article
    PROVE  \A q : AnswersStay(q) /\ AnswersOf(q)' = AnswersOf(q)
PROOF
  BY DEF AnswersStay, AnswersOf

\* Work outside of change requests leaves their answers.
LEMMA StaffAccounts ==
    ASSUME LkInv, AnswersInv, NEW a \in Articles, StaffWorks(a)
    PROVE  AnswersInv'
PROOF
<1>1. UNCHANGED <<ask, told, lkJob, blurred>>
  BY DEF StaffWorks
<1>2. \A q \in ChangeAsks : AnswersStay(q)
  BY LkAssumption, DraftAnswers, StatusKeepsAnswer DEF StaffWorks, UpdateEntry, SetStatus
<1>3. \A q \in ChangeAsks : AnswersOf(q)' = AnswersOf(q)
  BY <1>2 DEF AnswersStay, AnswersOf
<1> HIDE DEF AnswersOf
<1> QED
  BY <1>1, <1>3 DEF AnswersInv, AskIsAccounted

\* One job goes on; of the request it works on, what holds is shown, the others are as they were.
LEMMA JobAccounts ==
    ASSUME LkInv, AnswersInv, NEW j \in LkJobs, NEW job, lkJob' = [lkJob EXCEPT ![j] = job],
           blurred \subseteq blurred', blurred' \subseteq ChangeAsks, told' \in [ChangeAsks -> BOOLEAN], NEW q,
           \A p \in ChangeAsks \ {q} : /\ ask'[p] = ask[p] /\ told'[p] = told[p] /\ AnswersStay(p)
                                       /\ ~WorksOn(lkJob[j], p) /\ ~WorksOn(job, p),
           q \in ChangeAsks \ blurred' => AskIsAccounted(q)'
    PROVE  AnswersInv'
PROOF
<1>1. lkJob'[j] = job /\ \A i \in LkJobs \ {j} : lkJob'[i] = lkJob[i]
  BY DEF LkInv
<1>2. ASSUME NEW p \in ChangeAsks \ blurred' PROVE AskIsAccounted(p)'
  <2>1. CASE p = q
    BY <1>2, <2>1
  <2>2. CASE p # q
    BY <1>2, <1>1, <2>2, OtherAsk DEF AnswersInv
  <2> QED
    BY <2>1, <2>2
<1> QED
  BY <1>2 DEF AnswersInv

\* A request comes in: new, with an event to come.
LEMMA AskComes ==
    ASSUME LkInv, AnswersInv, NEW j \in LkJobs, lkJob[j].pc \in {"idle", "toSuggest"}, NEW q \in ChangeAsks,
           NEW target \in Articles \cup {NoArticle}, NEW key \in Escalated \cup {NoArticle}, NewAsk(q, target, key),
           lkJob' = [lkJob EXCEPT ![j] = [pc |-> "event", on |-> q, type |-> "submitted"]],
           UNCHANGED <<article, told, blurred>>
    PROVE  AnswersInv'
PROOF
<1> DEFINE job == [pc |-> "event", on |-> q, type |-> "submitted"]
           row == [status |-> "submitted", target |-> target, key |-> key, out |-> NoArticle]
<1>1. ask[q] = NoArticle /\ ask' = [ask EXCEPT ![q] = row] /\ row.status = "submitted"
  BY DEF NewAsk
<1>2. job.pc = "event" /\ job.on = q /\ job.type = "submitted" /\ lkJob' = [lkJob EXCEPT ![j] = job]
  OBVIOUS
<1> HIDE DEF job, row
<1>3. ask'[q].status = "submitted" /\ \A p \in ChangeAsks \ {q} : ask'[p] = ask[p]
  BY <1>1 DEF LkInv
<1>4. lkJob'[j] = job /\ \A i \in LkJobs \ {j} : lkJob'[i] = lkJob[i]
  BY <1>2 DEF LkInv
<1>5. \A i \in LkJobs : lkJob[i].pc \in Publishing => lkJob[i].on # q
  BY <1>1, JobHas, NoArticleAssumption DEF Publishing
<1>6. ASSUME q \notin blurred PROVE AskIsAccounted(q)'
  <2>1. AskIsAccounted(q)
    BY <1>6 DEF AnswersInv
  <2>2. AnswersOf(q)' = {}
    BY <1>1, <2>1, NoArticleMoves DEF AskIsAccounted
  <2>3. \A i \in LkJobs : lkJob'[i].pc \in Publishing => lkJob'[i].on # q
    BY <1>2, <1>4, <1>5 DEF Publishing
  <2> HIDE DEF AnswersOf
  <2> QED
    BY <1>2, <1>3, <1>4, <2>2, <2>3 DEF AskIsAccounted, Publishing
<1>7. \A p \in ChangeAsks \ {q} : ~WorksOn(lkJob[j], p) /\ ~WorksOn(job, p) /\ AnswersStay(p)
  BY <1>2, NoArticleMoves DEF WorksOn, Publishing
<1>8. blurred' \subseteq ChangeAsks /\ told' \in [ChangeAsks -> BOOLEAN]
  BY DEF AnswersInv
<1> QED
  BY <1>2, <1>3, <1>6, <1>7, <1>8, JobAccounts

\* Jobs that only begin, look or stop without having changed anything.
LEMMA JobOnly ==
    ASSUME LkInv, AnswersInv, NEW j \in LkJobs, lkJob[j].pc \in {"idle", "toSuggest"}, NEW job,
           lkJob' = [lkJob EXCEPT ![j] = job], job.pc \in {"idle", "toSuggest", "reviewing"},
           UNCHANGED <<article, ask, told, blurred>>
    PROVE  AnswersInv'
PROOF
  BY NoArticleMoves, LkAssumption, JobAccounts DEF WorksOn, Publishing, AnswersInv

\* Submission, suggestion, and the start of a review.
LEMMA RequestAccounts ==
    ASSUME LkInv, AnswersInv, NEW j \in LkJobs,
           \/ \E q \in ChangeAsks : Submit(j, q) \/ Suggest(j, q) \/ StartReview(j, q)
           \/ \E k \in Escalated : LookForSuggestion(j, k)
    PROVE  AnswersInv'
PROOF
<1>1. NoJob.pc = "idle"
  BY DEF NoJob
<1>2. ASSUME NEW q \in ChangeAsks, Submit(j, q) PROVE AnswersInv'
  BY <1>2, <1>1, AskComes DEF Submit, Become
<1>3. ASSUME NEW q \in ChangeAsks, Suggest(j, q) PROVE AnswersInv'
  BY <1>3, JobHas, <1>1, JobOnly, AskComes DEF Suggest, Become
<1>4. ASSUME NEW q \in ChangeAsks, StartReview(j, q) PROVE AnswersInv'
  <2>1. PICK s \in ReviewStates : lkJob' = [lkJob EXCEPT ![j] = [pc |-> "reviewing", on |-> q, to |-> s]]
    BY <1>4 DEF StartReview, Become
  <2> DEFINE job == [pc |-> "reviewing", on |-> q, to |-> s]
  <2>2. lkJob[j].pc = "idle" /\ lkJob' = [lkJob EXCEPT ![j] = job] /\ job.pc = "reviewing"
        /\ UNCHANGED <<article, ask, told, blurred>>
    BY <1>1, <1>4, <2>1 DEF StartReview
  <2> HIDE DEF job
  <2> QED
    BY <2>2, JobOnly
<1>5. ASSUME NEW k \in Escalated, LookForSuggestion(j, k) PROVE AnswersInv'
  <2> DEFINE job == [pc |-> "toSuggest", on |-> k]
  <2>1. lkJob[j].pc = "idle" /\ lkJob' = [lkJob EXCEPT ![j] = job] /\ job.pc = "toSuggest"
        /\ UNCHANGED <<article, ask, told, blurred>>
    BY <1>1, <1>5 DEF LookForSuggestion, Become
  <2> HIDE DEF job
  <2> QED
    BY <2>1, JobOnly
<1> QED
  BY <1>2, <1>3, <1>4, <1>5

\* What a history variable says after Blur.
LEMMA BlurIs ==
    ASSUME AnswersInv, NEW q \in ChangeAsks, NEW yes \in BOOLEAN, Blur(yes, q)
    PROVE  blurred \subseteq blurred' /\ blurred' \subseteq ChangeAsks /\ (q \notin blurred' => ~yes /\ q \notin blurred)
PROOF
  BY DEF AnswersInv, Blur

\* A review: the request it sends back had no answer, or is blurred.
LEMMA ReviewAccounts ==
    ASSUME LkInv, AnswersInv, NEW j \in LkJobs, NEW q, lkJob[j].on = q, UpdateReviewState(j)
    PROVE  AnswersInv'
PROOF
<1> DEFINE s == lkJob[j].to
           job == [pc |-> "event", on |-> q, type |-> s]
<1>1. /\ lkJob[j].pc = "reviewing" /\ lkJob' = [lkJob EXCEPT ![j] = job] /\ article' = article
      /\ ask' = [ask EXCEPT ![q].status = s] /\ told' = [told EXCEPT ![q] = FALSE]
      /\ Blur(ask[q].out # NoArticle \/ Others(j, q), q)
  BY DEF UpdateReviewState, Become
<1>2. q \in ChangeAsks /\ ask[q] \in Ask
  BY <1>1, JobHas
<1>3. job.pc = "event" /\ job.on = q /\ job.type = s
  OBVIOUS
<1>4. Others(j, q) <=> \E k \in LkJobs \ {j} : lkJob[k].on = q
  BY DEF Others
<1> HIDE DEF job, s
<1>5. /\ ask'[q].status = s /\ ask'[q] # NoArticle /\ ask[q] # NoArticle
      /\ \A p \in ChangeAsks \ {q} : ask'[p] = ask[p] /\ told'[p] = told[p]
  <2>1. ask'[q] = [ask[q] EXCEPT !.status = s]
    BY <1>1, <1>2 DEF LkInv
  <2>2. ask'[q].status = s
    BY <1>2, <2>1 DEF Ask
  <2>3. ask' \in [ChangeAsks -> Ask \cup {NoArticle}] /\ ask'[q] \in Ask
    BY <1>1, JobHas, <1>2, <2>1 DEF s, LkInv, Ask
  <2> QED
    BY <1>1, <1>2, <2>2, <2>3, NoArticleAssumption DEF LkInv, AnswersInv
<1>6. blurred \subseteq blurred' /\ blurred' \subseteq ChangeAsks
      /\ (q \notin blurred' => ask[q].out = NoArticle /\ ~Others(j, q) /\ q \notin blurred)
  BY <1>1, <1>2, BlurIs
<1>7. ASSUME q \notin blurred' PROVE AskIsAccounted(q)'
  <2>1. AskIsAccounted(q)
    BY <1>2, <1>6, <1>7 DEF AnswersInv
  <2>2. \A i \in LkJobs : lkJob[i].on = q => i = j
    BY <1>4, <1>6, <1>7
  <2>3. AnswersOf(q) = {}
    BY <1>1, <1>6, <1>7, <2>1, <2>2, NoAnswerYet
  <2>4. AnswersOf(q)' = {}
    BY <1>1, <2>3, NoArticleMoves
  <2>5. lkJob'[j] = job /\ \A i \in LkJobs \ {j} : lkJob'[i] = lkJob[i]
    BY <1>1 DEF LkInv
  <2>6. \A i \in LkJobs : lkJob'[i].pc \in Publishing => lkJob'[i].on # q
    BY <1>3, <2>2, <2>5 DEF Publishing
  <2> HIDE DEF AnswersOf
  <2> QED
    BY <1>3, <1>5, <2>4, <2>5, <2>6 DEF AskIsAccounted, Publishing
<1>8. \A p \in ChangeAsks \ {q} : ~WorksOn(lkJob[j], p) /\ ~WorksOn(job, p) /\ AnswersStay(p)
  BY <1>1, <1>3, NoArticleMoves DEF WorksOn, Publishing
<1>9. told' \in [ChangeAsks -> BOOLEAN]
  BY <1>1 DEF AnswersInv
<1> QED
  BY <1>1, <1>5, <1>6, <1>7, <1>8, <1>9, JobAccounts

\* A publication begins: of a request that has no answer, or it is blurred.
LEMMA StartPublishAccounts ==
    ASSUME LkInv, AnswersInv, NEW j \in LkJobs, NEW q \in ChangeAsks, StartPublish(j, q)
    PROVE  AnswersInv'
PROOF
<1> DEFINE job == [pc |-> "accepted", on |-> q]
<1>1. /\ lkJob[j] = NoJob /\ ask[q] # NoArticle /\ ask[q].status \notin {"published", "rejected"}
      /\ lkJob' = [lkJob EXCEPT ![j] = job] /\ Blur(Others(j, q), q) /\ UNCHANGED <<article, ask, told>>
  BY DEF StartPublish, Become
<1>2. job.pc = "accepted" /\ job.on = q /\ lkJob[j].pc = "idle"
  BY <1>1 DEF NoJob
<1>3. Others(j, q) <=> \E k \in LkJobs \ {j} : lkJob[k].on = q
  BY DEF Others
<1> HIDE DEF job
<1>4. blurred \subseteq blurred' /\ blurred' \subseteq ChangeAsks
      /\ (q \notin blurred' => ~Others(j, q) /\ q \notin blurred)
  <2>1. Others(j, q) \in BOOLEAN
    BY DEF Others
  <2> HIDE DEF Others
  <2> QED
    BY <1>1, <2>1, BlurIs
<1>5. lkJob'[j] = job /\ \A i \in LkJobs \ {j} : lkJob'[i] = lkJob[i]
  BY <1>1 DEF LkInv
<1>6. ASSUME q \notin blurred' PROVE AskIsAccounted(q)'
  <2>1. AskIsAccounted(q)
    BY <1>4, <1>6 DEF AnswersInv
  <2>2. \A i \in LkJobs : lkJob[i].on = q => i = j
    BY <1>3, <1>4, <1>6
  <2>3. AnswersOf(q) = {}
    BY <1>1, <1>2, <2>1, <2>2, NoAnswerYet
  <2>4. AnswersOf(q)' = {}
    BY <1>1, <2>3, NoArticleMoves
  <2>5. \A i \in LkJobs : lkJob'[i].on = q => i = j
    BY <1>5, <2>2
  <2>6. told[q]
    BY <1>1, <1>2, <2>1, <2>2 DEF AskIsAccounted
  <2> HIDE DEF AnswersOf
  <2> QED
    BY <1>1, <1>2, <1>5, <2>4, <2>5, <2>6 DEF AskIsAccounted, Publishing
<1>7. \A p \in ChangeAsks \ {q} : ~WorksOn(lkJob[j], p) /\ ~WorksOn(job, p) /\ AnswersStay(p)
  BY <1>1, <1>2, NoArticleMoves DEF WorksOn, Publishing
<1>8. told' \in [ChangeAsks -> BOOLEAN]
  BY <1>1 DEF AnswersInv
<1> QED
  BY <1>1, <1>4, <1>6, <1>7, <1>8, JobAccounts

\* Of the jobs that publish a request which is not blurred, j is the only one.
LEMMA OnePublishes ==
    ASSUME LkInv, AnswersInv, NEW j \in LkJobs, lkJob[j].pc \in Publishing, NEW q \in ChangeAsks \ blurred, lkJob[j].on = q
    PROVE  /\ AskIsAccounted(q) /\ \A i \in LkJobs : lkJob[i].pc \in Publishing /\ lkJob[i].on = q => i = j
           /\ lkJob[j].pc = "accepted" => AnswersOf(q) = {}
           /\ told[q] \/ \E i \in LkJobs \ {j} : lkJob[i].pc = "event" /\ lkJob[i].on = q /\ lkJob[i].type = ask[q].status
PROOF
  BY JobHas, NoArticleAssumption DEF AnswersInv, Publishing, AskIsAccounted

\* The draft of a publication: the first answer of its request, or an edit of the entry it is about.
LEMMA PublishDraftAccounts ==
    ASSUME LkInv, AnswersInv, NEW j \in LkJobs, NEW a \in Articles, NEW q, lkJob[j].on = q, PublishDraft(j, a)
    PROVE  AnswersInv'
PROOF
<1> DEFINE job == [pc |-> "drafted", on |-> q, art |-> a]
<1>1. lkJob[j].pc = "accepted" /\ lkJob' = [lkJob EXCEPT ![j] = job] /\ UNCHANGED <<ask, told, blurred>>
  BY DEF PublishDraft, Become
<1>2. q \in ChangeAsks /\ ask[q] # NoArticle
  BY <1>1, JobHas, NoArticleAssumption
<1>3. \/ ask[q].target = NoArticle /\ CreateDraft(a, q)
      \/ a = ask[q].target /\ UpdateEntry(a)
  BY DEF PublishDraft
<1>4. job.pc = "drafted" /\ job.on = q
  OBVIOUS
<1> HIDE DEF job
<1>5. /\ \A p \in ChangeAsks \ {q} : AnswersStay(p)
      /\ AnswersOf(q)' = AnswersOf(q) \cup {a} \/ AnswersOf(q)' = AnswersOf(q)
  <2>1. CASE CreateDraft(a, q)
    BY <1>2, <2>1, DraftAnswers
  <2>2. CASE UpdateEntry(a)
    <3>1. \A p \in ChangeAsks : AnswersStay(p)
      BY <2>2, StatusKeepsAnswer DEF UpdateEntry
    <3>2. AnswersOf(q)' = AnswersOf(q)
      BY <1>2, <3>1 DEF AnswersStay, AnswersOf
    <3> QED
      BY <3>1, <3>2
  <2> QED
    BY <1>3, <2>1, <2>2
<1>6. lkJob'[j] = job /\ \A i \in LkJobs \ {j} : lkJob'[i] = lkJob[i]
  BY <1>1 DEF LkInv
<1>7. ASSUME q \notin blurred' PROVE AskIsAccounted(q)'
  <2>1. q \notin blurred /\ lkJob[j].on = q /\ lkJob[j].pc \in Publishing
    BY <1>1, <1>7 DEF Publishing
  <2>2. /\ AskIsAccounted(q) /\ \A i \in LkJobs : lkJob[i].pc \in Publishing /\ lkJob[i].on = q => i = j
        /\ AnswersOf(q) = {}
        /\ told[q] \/ \E i \in LkJobs \ {j} : lkJob[i].pc = "event" /\ lkJob[i].on = q /\ lkJob[i].type = ask[q].status
    BY <1>1, <1>2, <2>1, OnePublishes
  <2>3. \A b, c \in AnswersOf(q)' : b = c
    BY <1>5, <2>2
  <2>4. \A i \in LkJobs : lkJob'[i].pc \in Publishing /\ lkJob'[i].on = q => i = j
    BY <1>6, <2>2
  <2>5. told'[q] \/ \E i \in LkJobs : lkJob'[i].pc = "event" /\ lkJob'[i].on = q /\ lkJob'[i].type = ask'[q].status
    BY <1>1, <1>6, <2>2
  <2>6. \A i \in LkJobs : ~(lkJob'[i].pc = "accepted" /\ lkJob'[i].on = q)
    BY <1>4, <1>6, <2>4 DEF Publishing
  <2>7. lkJob'[j].pc \in {"drafted", "live"} /\ lkJob'[j].on = q
    BY <1>4, <1>6
  <2> HIDE DEF AnswersOf, Publishing
  <2> QED
    BY <1>1, <1>2, <1>4, <1>6, <2>3, <2>4, <2>5, <2>6, <2>7 DEF AskIsAccounted
<1>8. \A p \in ChangeAsks \ {q} : ~WorksOn(lkJob[j], p) /\ ~WorksOn(job, p)
  BY <1>4 DEF WorksOn
<1>9. told' \in [ChangeAsks -> BOOLEAN] /\ blurred \subseteq blurred' /\ blurred' \subseteq ChangeAsks
  BY <1>1 DEF AnswersInv
<1> QED
  BY <1>1, <1>5, <1>7, <1>8, <1>9, JobAccounts

\* The entry goes live.
LEMMA PublishEntryAccounts ==
    ASSUME LkInv, AnswersInv, NEW j \in LkJobs, NEW q, lkJob[j].on = q, PublishEntry(j)
    PROVE  AnswersInv'
PROOF
<1> DEFINE job == [lkJob[j] EXCEPT !.pc = "live"]
<1>1. /\ lkJob[j].pc = "drafted" /\ lkJob' = [lkJob EXCEPT ![j] = job] /\ UNCHANGED <<ask, told, blurred>>
      /\ article[lkJob[j].art] # NoArticle /\ article' = [article EXCEPT ![lkJob[j].art].status = "active"]
  BY DEF PublishEntry, SetStatus
<1>2. q \in ChangeAsks /\ lkJob[j].art \in Articles
  BY <1>1, JobHas
<1>3. job.pc = "live" /\ job.on = q
  BY <1>1, JobHas DEF LkJob, NoJob
<1> HIDE DEF job
<1>4. \A p \in ChangeAsks : AnswersStay(p)
  BY <1>1, <1>2, StatusKeepsAnswer
<1>5. lkJob'[j] = job /\ \A i \in LkJobs \ {j} : lkJob'[i] = lkJob[i]
  BY <1>1 DEF LkInv
<1>6. ASSUME q \notin blurred' PROVE AskIsAccounted(q)'
  <2>1. AskIsAccounted(q) /\ lkJob[j].on = q
    BY <1>1, <1>2, <1>6 DEF AnswersInv
  <2>2. AnswersOf(q)' = AnswersOf(q)
    BY <1>2, <1>4 DEF AnswersStay, AnswersOf
  <2>3. \A i \in LkJobs : /\ lkJob'[i].on = q <=> lkJob[i].on = q
                          /\ lkJob'[i].on = q => /\ lkJob'[i].pc \in Publishing <=> lkJob[i].pc \in Publishing
                                                 /\ lkJob'[i].pc \in {"drafted", "live"} <=> lkJob[i].pc \in {"drafted", "live"}
                                                 /\ lkJob'[i].pc = "accepted" => lkJob[i].pc = "accepted"
                                                 /\ lkJob[i].pc = "event" => lkJob'[i] = lkJob[i]
    BY <1>1, <1>3, <1>5, <2>1 DEF Publishing
  <2> HIDE DEF AnswersOf, Publishing
  <2> QED
    BY <1>1, <2>1, <2>2, <2>3 DEF AskIsAccounted
<1>7. \A p \in ChangeAsks \ {q} : ~WorksOn(lkJob[j], p) /\ ~WorksOn(job, p)
  BY <1>3 DEF WorksOn
<1>8. told' \in [ChangeAsks -> BOOLEAN] /\ blurred \subseteq blurred' /\ blurred' \subseteq ChangeAsks
  BY <1>1 DEF AnswersInv
<1> QED
  BY <1>1, <1>4, <1>6, <1>7, <1>8, JobAccounts

\* The request is published, its event to come.
LEMMA PublishAskAccounts ==
    ASSUME LkInv, AnswersInv, NEW j \in LkJobs, NEW q, lkJob[j].on = q, PublishAsk(j)
    PROVE  AnswersInv'
PROOF
<1> DEFINE a == lkJob[j].art
           job == [pc |-> "event", on |-> q, type |-> "published"]
<1>1. /\ lkJob[j].pc = "live" /\ lkJob' = [lkJob EXCEPT ![j] = job] /\ UNCHANGED <<article, blurred>>
      /\ ask' = [ask EXCEPT ![q].status = "published", ![q].out = a] /\ told' = [told EXCEPT ![q] = FALSE]
  BY DEF PublishAsk, Become
<1>2. q \in ChangeAsks /\ ask[q] \in Ask /\ a \in Articles /\ a # NoArticle
  BY <1>1, JobHas, LkAssumption
<1>3. job.pc = "event" /\ job.on = q /\ job.type = "published"
  OBVIOUS
<1> HIDE DEF a, job
<1>4. /\ ask'[q].status = "published" /\ ask'[q].out = a /\ ask'[q] # NoArticle
      /\ \A p \in ChangeAsks \ {q} : ask'[p] = ask[p] /\ told'[p] = told[p]
  <2> DEFINE row == [ask[q] EXCEPT !.status = "published", !.out = a]
  <2>1. row.status = "published" /\ row.out = a /\ row \in Ask
    BY <1>2 DEF Ask
  <2>2. ask' = [ask EXCEPT ![q] = row]
    BY <1>1
  <2> HIDE DEF row
  <2>3. ask'[q] = row /\ \A p \in ChangeAsks \ {q} : ask'[p] = ask[p]
    BY <1>2, <2>2 DEF LkInv
  <2>4. \A p \in ChangeAsks \ {q} : told'[p] = told[p]
    BY <1>1 DEF AnswersInv
  <2> QED
    BY <2>1, <2>3, <2>4, NoArticleAssumption
<1>5. lkJob'[j] = job /\ \A i \in LkJobs \ {j} : lkJob'[i] = lkJob[i]
  BY <1>1 DEF LkInv
<1>6. ASSUME q \notin blurred' PROVE AskIsAccounted(q)'
  <2>1. q \notin blurred /\ lkJob[j].on = q /\ lkJob[j].pc \in Publishing
    BY <1>1, <1>6 DEF Publishing
  <2>2. AskIsAccounted(q) /\ \A i \in LkJobs : lkJob[i].pc \in Publishing /\ lkJob[i].on = q => i = j
    BY <1>2, <2>1, OnePublishes
  <2>3. AnswersOf(q)' = AnswersOf(q)
    BY <1>1, NoArticleMoves
  <2>4. \A b, c \in AnswersOf(q)' : b = c
    BY <2>2, <2>3 DEF AskIsAccounted
  <2>5. \A i \in LkJobs : ~(lkJob'[i].pc \in Publishing /\ lkJob'[i].on = q)
    BY <1>3, <1>5, <2>2 DEF Publishing
  <2> HIDE DEF AnswersOf
  <2> QED
    BY <1>2, <1>3, <1>4, <1>5, <2>4, <2>5 DEF AskIsAccounted, Publishing
<1>7. \A p \in ChangeAsks \ {q} : ~WorksOn(lkJob[j], p) /\ ~WorksOn(job, p) /\ AnswersStay(p)
  BY <1>1, <1>3, NoArticleMoves DEF WorksOn
<1>8. told' \in [ChangeAsks -> BOOLEAN] /\ blurred \subseteq blurred' /\ blurred' \subseteq ChangeAsks
  BY <1>1 DEF AnswersInv
<1> QED
  BY <1>1, <1>4, <1>6, <1>7, <1>8, JobAccounts

\* The event is recorded.
LEMMA EventAccounts ==
    ASSUME LkInv, AnswersInv, NEW j \in LkJobs, NEW q, lkJob[j].on = q, RecordEvent(j)
    PROVE  AnswersInv'
PROOF
<1> DEFINE is == told[q] \/ lkJob[j].type = ask[q].status
<1>1. /\ lkJob[j].pc = "event" /\ lkJob' = [lkJob EXCEPT ![j] = NoJob] /\ UNCHANGED <<article, ask, blurred>>
      /\ told' = [told EXCEPT ![q] = is]
  BY DEF RecordEvent, Become
<1>2. q \in ChangeAsks /\ is \in BOOLEAN
  BY <1>1, JobHas DEF AnswersInv
<1>4. (told[q] => is) /\ (lkJob[j].type = ask[q].status => is)
  OBVIOUS
<1> HIDE DEF is
<1>5. told'[q] = is /\ \A p \in ChangeAsks \ {q} : told'[p] = told[p]
  BY <1>1, <1>2 DEF AnswersInv
<1>6. NoJob.pc = "idle" /\ lkJob'[j] = NoJob /\ \A i \in LkJobs \ {j} : lkJob'[i] = lkJob[i]
  BY <1>1 DEF LkInv, NoJob
<1>7. ASSUME q \notin blurred' PROVE AskIsAccounted(q)'
  <2>1. AskIsAccounted(q)
    BY <1>1, <1>2, <1>7 DEF AnswersInv
  <2>2. AnswersOf(q)' = AnswersOf(q)
    BY <1>1, NoArticleMoves
  <2>3. \A i \in LkJobs : /\ lkJob'[i].pc \in Publishing <=> lkJob[i].pc \in Publishing
                          /\ lkJob'[i].pc \in Publishing => lkJob'[i] = lkJob[i]
                          /\ lkJob[i].pc \in {"drafted", "live"} => lkJob'[i] = lkJob[i]
                          /\ lkJob'[i].pc = "accepted" => lkJob'[i] = lkJob[i]
    BY <1>1, <1>6 DEF Publishing
  <2>4. ask[q] # NoArticle => told'[q] \/ \E i \in LkJobs : lkJob'[i].pc = "event" /\ lkJob'[i].on = q /\ lkJob'[i].type = ask[q].status
    BY <1>4, <1>5, <1>6, <2>1 DEF AskIsAccounted
  <2> HIDE DEF AnswersOf, Publishing
  <2> QED
    BY <1>1, <2>1, <2>2, <2>3, <2>4 DEF AskIsAccounted
<1>8. \A p \in ChangeAsks \ {q} : ~WorksOn(lkJob[j], p) /\ ~WorksOn(NoJob, p) /\ AnswersStay(p)
  BY <1>1, <1>6, NoArticleMoves DEF WorksOn, Publishing
<1>9. told' \in [ChangeAsks -> BOOLEAN] /\ blurred \subseteq blurred' /\ blurred' \subseteq ChangeAsks
  BY <1>1, <1>2 DEF AnswersInv
<1> QED
  BY <1>1, <1>5, <1>7, <1>8, <1>9, JobAccounts

\* A job stops: nothing of its request is changed yet, or the request is blurred.
LEMMA DyingAccounts ==
    ASSUME LkInv, AnswersInv, NEW j \in LkJobs, NEW q, lkJob[j].on = q, JobDies(j)
    PROVE  AnswersInv'
PROOF
<1> DEFINE cut == lkJob[j].pc \notin {"accepted", "reviewing", "toSuggest"}
<1>1. lkJob[j] # NoJob /\ lkJob' = [lkJob EXCEPT ![j] = NoJob] /\ Blur(cut, q) /\ UNCHANGED <<article, ask, told>>
  BY DEF JobDies, Become
<1>2. lkJob[j].pc # "idle"
  BY <1>1, JobHas DEF LkJob
<1>3. cut \in BOOLEAN /\ (cut => lkJob[j].pc \in {"drafted", "live", "event"} /\ q \in ChangeAsks)
  BY <1>2, JobHas
<1>4. /\ blurred \subseteq blurred' /\ blurred' \subseteq ChangeAsks
      /\ q \in ChangeAsks \ blurred' => ~cut /\ q \notin blurred
  BY <1>1, <1>3 DEF Blur, AnswersInv
<1>5. NoJob.pc = "idle" /\ lkJob'[j] = NoJob /\ \A i \in LkJobs \ {j} : lkJob'[i] = lkJob[i]
  BY <1>1 DEF LkInv, NoJob
<1>6. ASSUME q \in ChangeAsks \ blurred' PROVE AskIsAccounted(q)'
  <2>1. AskIsAccounted(q) /\ lkJob[j].pc \in {"accepted", "reviewing", "toSuggest"}
    BY <1>4, <1>6 DEF AnswersInv
  <2>2. AnswersOf(q)' = AnswersOf(q)
    BY <1>1, NoArticleMoves
  <2>3. \A i \in LkJobs : /\ lkJob'[i].pc \in Publishing => i # j /\ lkJob'[i] = lkJob[i]
                          /\ lkJob[i].pc \in {"drafted", "live", "event"} => lkJob'[i] = lkJob[i]
                          /\ lkJob'[i].pc = "accepted" => lkJob'[i] = lkJob[i]
    BY <1>5, <2>1 DEF Publishing
  <2> HIDE DEF AnswersOf, Publishing, cut
  <2> QED
    BY <1>1, <2>1, <2>2, <2>3 DEF AskIsAccounted
<1>7. \A p \in ChangeAsks \ {q} : ~WorksOn(lkJob[j], p) /\ ~WorksOn(NoJob, p) /\ AnswersStay(p)
  BY <1>1, <1>5, NoArticleMoves DEF WorksOn, Publishing
<1>8. told' \in [ChangeAsks -> BOOLEAN]
  BY <1>1 DEF AnswersInv
<1> HIDE DEF cut
<1> QED
  BY <1>1, <1>4, <1>6, <1>7, <1>8, JobAccounts

\* Without requests there is nothing to account for.
LEMMA AnswersStart == LkInit => AnswersInv
PROOF
  BY DEF LkInit, AnswersInv, AskIsAccounted, AnswersOf, NoJob, Publishing

\* Every step of the change requests keeps them accounted for.
LEMMA AnswersKeep == LkInv /\ AnswersInv /\ [LkNext]_lkVars => AnswersInv'
PROOF
<1>1. ASSUME AnswersInv, UNCHANGED lkVars PROVE AnswersInv'
  BY <1>1 DEF lkVars, AnswersInv, AskIsAccounted, AnswersOf
<1> QED
  BY <1>1, StaffAccounts, RequestAccounts, ReviewAccounts, StartPublishAccounts, PublishDraftAccounts,
     PublishEntryAccounts, PublishAskAccounts, EventAccounts, DyingAccounts
  DEF LkNext

\* What the runs check of the change requests follows.
LEMMA AnswersHold ==
    ASSUME LkInv, AnswersInv
    PROVE  LkTypeOK /\ AnswerMadeOnce /\ EventsTellState
PROOF
<1>1. LkTypeOK
  BY DEF LkTypeOK, LkInv, AnswersInv, LkJob
<1>2. ASSUME NEW q \in ChangeAsks \ blurred
      PROVE  /\ Cardinality({a \in Articles : article[a] # NoArticle /\ article[a].from = q}) <= 1
             /\ ask[q] # NoArticle => \/ told[q]
                                      \/ \E j \in LkJobs : lkJob[j].pc = "event" /\ lkJob[j].on = q
                                                           /\ lkJob[j].type = ask[q].status
  <2>1. AskIsAccounted(q)
    BY DEF AnswersInv
  <2>2. Cardinality(AnswersOf(q)) <= 1
    <3>1. \A a, b \in AnswersOf(q) : a = b
      BY <2>1 DEF AskIsAccounted
    <3> HIDE DEF AnswersOf
    <3> QED
      BY <3>1, AtMostOne
  <2> QED
    BY <2>1, <2>2 DEF AskIsAccounted, AnswersOf
<1>3. AnswerMadeOnce
  BY <1>2 DEF AnswerMadeOnce
<1>4. EventsTellState
  BY <1>2 DEF EventsTellState
<1> QED
  BY <1>1, <1>3, <1>4

\* Without entries there is nothing made twice.
LEMMA MadeStarts == EntriesInit => MadeInv
PROOF
  BY EntriesAssumption DEF EntriesInit, MadeInv, MadeFrom, IdleMaker

\* No entry is made from an origin and no maker turns to one: what was made once stays so.
LEMMA MadeQuiet ==
    ASSUME EntriesInv, MadeInv, entriesRaced' = entriesRaced,
           \A e \in Entries : \A o \in Origins : entry'[e] # NoEntry /\ entry'[e].from = o => e \in MadeFrom(o),
           \A m \in Makers : maker'[m].create \in {maker[m].create, NoEntry}
    PROVE  MadeInv'
PROOF
<1>1. \A o \in Origins : MadeFrom(o)' \subseteq MadeFrom(o) /\ o # NoEntry
  BY EntriesAssumption DEF MadeFrom
<1> HIDE DEF MadeFrom
<1> QED
  BY <1>1 DEF MadeInv

\* Entries get another wording, status or index: they are made from what they were made from.
LEMMA WordsMakeNothing ==
    ASSUME EntriesInv, MadeInv, NEW e \in Entries,
           \/ CreateEntry(e) \/ EditEntry(e) \/ RollBack(e) \/ WriteEmbedding(e)
           \/ \E s \in {"active", "archived"} : SetEntryStatus(e, s)
    PROVE  MadeInv'
PROOF
<1>1. UNCHANGED <<maker, entriesRaced>>
  BY DEF CreateEntry, EditEntry, RollBack, WriteEmbedding, SetEntryStatus
<1>2. entry \in [Entries -> {NoEntry} \cup EntryRow]
  BY DEF EntriesInv, EntriesTypeOK
<1>3. ASSUME NEW x \in Entries, NEW o \in Origins, entry'[x] # NoEntry, entry'[x].from = o PROVE x \in MadeFrom(o)
  <2>1. CASE CreateEntry(e)
    <3> DEFINE row == [status |-> "draft", indexed |-> TRUE, from |-> NoEntry]
    <3>1. entry' = [entry EXCEPT ![e] = row] /\ row.from = NoEntry
      BY <2>1 DEF CreateEntry, NewEntry, Word
    <3> HIDE DEF row
    <3> QED
      BY <1>2, <1>3, <3>1, EntriesAssumption DEF MadeFrom
  <2>2. ASSUME NEW row \in EntryRow, row.from = entry[e].from, entry[e] # NoEntry, entry' = [entry EXCEPT ![e] = row]
        PROVE  x \in MadeFrom(o)
    BY <1>2, <1>3, <2>2 DEF MadeFrom
  <2>3. CASE EditEntry(e) \/ RollBack(e)
    <3> DEFINE row == [entry[e] EXCEPT !.status = "draft", !.indexed = TRUE]
    <3>1. entry[e] # NoEntry /\ entry' = [entry EXCEPT ![e] = row]
      BY <2>3 DEF EditEntry, RollBack, EntriesInv, Word
    <3>2. row \in EntryRow /\ row.from = entry[e].from
      BY <1>2, <3>1 DEF EntryRow
    <3> HIDE DEF row
    <3> QED
      BY <2>2, <3>1, <3>2
  <2>4. CASE WriteEmbedding(e)
    <3> DEFINE i == (reread[e] = "same")
               row == [entry[e] EXCEPT !.indexed = i]
    <3>1. entry[e] # NoEntry /\ entry' = [entry EXCEPT ![e].indexed = i] /\ i \in BOOLEAN
      BY <2>4 DEF WriteEmbedding, EntriesInv
    <3> HIDE DEF i
    <3>2. row \in EntryRow /\ row.from = entry[e].from /\ entry' = [entry EXCEPT ![e] = row]
      BY <1>2, <3>1 DEF EntryRow
    <3> HIDE DEF row
    <3> QED
      BY <2>2, <3>1, <3>2
  <2>5. ASSUME NEW s \in {"active", "archived"}, SetEntryStatus(e, s) PROVE x \in MadeFrom(o)
    <3> DEFINE i == entry[e].indexed \/ s = "active"
               row == [entry[e] EXCEPT !.status = s, !.indexed = i]
    <3>1. entry[e] # NoEntry /\ entry' = [entry EXCEPT ![e].status = s, ![e].indexed = i] /\ i \in BOOLEAN
      BY <2>5 DEF SetEntryStatus
    <3> HIDE DEF i
    <3>2. row \in EntryRow /\ row.from = entry[e].from /\ entry' = [entry EXCEPT ![e] = row]
      BY <1>2, <3>1 DEF EntryRow
    <3> HIDE DEF row
    <3> QED
      BY <2>2, <3>1, <3>2
  <2> QED
    BY <2>1, <2>3, <2>4, <2>5
<1> QED
  BY <1>1, <1>3, MadeQuiet

\* A maker starts, ends or stops: it turns to nothing.
LEMMA MakersMakeNothing ==
    ASSUME EntriesInv, MadeInv, NEW m \in Makers, StartMaker(m) \/ MakerEnds(m) \/ MakerDies(m)
    PROVE  MadeInv'
PROOF
<1>1. UNCHANGED <<entry, entriesRaced>> /\ maker \in [Makers -> Maker]
  BY DEF StartMaker, MakerEnds, MakerDies, EntriesInv, EntriesTypeOK, Maker
<1>2. \A n \in Makers : maker'[n].create \in {maker[n].create, NoEntry}
  <2>1. CASE maker' = [maker EXCEPT ![m] = IdleMaker]
    BY <1>1, <2>1 DEF IdleMaker
  <2>2. ASSUME NEW b \in EntryBatches, maker' = [maker EXCEPT ![m].batch = b, ![m].left = b]
        PROVE  \A n \in Makers : maker'[n].create \in {maker[n].create, NoEntry}
    BY <1>1, <2>2 DEF Maker
  <2> QED
    BY <2>1, <2>2 DEF StartMaker, MakerEnds, MakerDies
<1>3. \A x \in Entries : \A o \in Origins : entry'[x] # NoEntry /\ entry'[x].from = o => x \in MadeFrom(o)
  BY <1>1 DEF MadeFrom
<1> QED
  BY <1>1, <1>2, <1>3, MadeQuiet

\* A maker turns to an origin: there is no entry of it, and whoever else is at it is known to race.
LEMMA LookingMakesOnce ==
    ASSUME EntriesInv, MadeInv, NEW m \in Makers, LookForEntry(m)
    PROVE  MadeInv'
PROOF
<1>1. PICK o \in maker[m].left :
         /\ maker' = [maker EXCEPT ![m].left = @ \ {o}, ![m].create = IF MadeFrom(o) # {} THEN NoEntry ELSE o]
         /\ entriesRaced' = IF \E k \in Makers \ {m} : maker[k].create = o THEN entriesRaced \cup {o} ELSE entriesRaced
  BY DEF LookForEntry
<1>2. entry' = entry /\ maker \in [Makers -> Maker] /\ maker[m].create = NoEntry
  BY DEF LookForEntry, EntriesInv, EntriesTypeOK, Maker
<1> DEFINE c == IF MadeFrom(o) # {} THEN NoEntry ELSE o
<1>3. maker' = [maker EXCEPT ![m].left = @ \ {o}, ![m].create = c]
  BY <1>1
<1>4. c = NoEntry \/ (c = o /\ MadeFrom(o) = {})
  OBVIOUS
<1> HIDE DEF c
<1>5. maker'[m].create = c /\ \A n \in Makers \ {m} : maker'[n] = maker[n]
  BY <1>2, <1>3 DEF Maker
<1>6. \A x \in Origins : MadeFrom(x)' = MadeFrom(x) /\ x # NoEntry
  BY <1>2, EntriesAssumption DEF MadeFrom
<1>7. ASSUME NEW x \in Origins \ entriesRaced'
      PROVE  /\ \A e, f \in MadeFrom(x)' : e = f
             /\ \A n \in Makers : maker'[n].create = x =>
                   MadeFrom(x)' = {} /\ \A k \in Makers : maker'[k].create = x => k = n
  <2>1. x \notin entriesRaced /\ (x = o => \A k \in Makers \ {m} : maker[k].create # o)
    BY <1>1, <1>7
  <2>2. \A e, f \in MadeFrom(x) : e = f
    BY <2>1 DEF MadeInv
  <2>3. \A n \in Makers : maker[n].create = x => MadeFrom(x) = {} /\ \A k \in Makers : maker[k].create = x => k = n
    BY <2>1 DEF MadeInv
  <2> HIDE DEF MadeFrom
  <2> QED
    BY <1>4, <1>5, <1>6, <2>1, <2>2, <2>3
<1> QED
  BY <1>7 DEF MadeInv

\* The entry is made: the first of its origin.
LEMMA MakingMakesOnce ==
    ASSUME EntriesInv, MadeInv, NEW m \in Makers, NEW e \in Entries, MakeEntry(m, e)
    PROVE  MadeInv'
PROOF
<1> DEFINE o == maker[m].create
           row == [status |-> "draft", indexed |-> TRUE, from |-> o]
<1>1. /\ o # NoEntry /\ entry[e] = NoEntry /\ entry' = [entry EXCEPT ![e] = row]
      /\ maker' = [maker EXCEPT ![m].create = NoEntry] /\ entriesRaced' = entriesRaced
  BY DEF MakeEntry, NewEntry, Word
<1>2. maker \in [Makers -> Maker] /\ entry \in [Entries -> {NoEntry} \cup EntryRow] /\ o \in Origins
  BY <1>1 DEF EntriesInv, EntriesTypeOK, Maker
<1>3. row.from = o
  OBVIOUS
<1> HIDE DEF row
<1>4. maker'[m].create = NoEntry /\ \A n \in Makers \ {m} : maker'[n] = maker[n]
  BY <1>1, <1>2 DEF Maker
<1>5. \A x \in Origins : MadeFrom(x)' \subseteq MadeFrom(x) \cup {y \in {e} : x = o}
  BY <1>1, <1>2, <1>3 DEF MadeFrom
<1>6. \A x \in Origins : x # NoEntry
  BY EntriesAssumption
<1>7. ASSUME NEW x \in Origins \ entriesRaced'
      PROVE  /\ \A f, g \in MadeFrom(x)' : f = g
             /\ \A n \in Makers : maker'[n].create = x =>
                   MadeFrom(x)' = {} /\ \A k \in Makers : maker'[k].create = x => k = n
  <2>1. /\ \A f, g \in MadeFrom(x) : f = g
        /\ \A n \in Makers : maker[n].create = x => MadeFrom(x) = {} /\ \A k \in Makers : maker[k].create = x => k = n
    BY <1>1, <1>7 DEF MadeInv
  <2>2. CASE x = o
    <3>1. MadeFrom(x)' \subseteq {e} /\ \A n \in Makers \ {m} : maker[n].create # x
      BY <1>5, <2>1, <2>2
    <3> HIDE DEF MadeFrom
    <3> QED
      BY <1>4, <1>6, <3>1
  <2>3. CASE x # o
    <3>1. MadeFrom(x)' \subseteq MadeFrom(x)
      BY <1>5, <2>3
    <3>2. \A n \in Makers : maker'[n].create = x => n # m /\ maker[n].create = x
      BY <1>4, <1>6
    <3> HIDE DEF MadeFrom, o
    <3> QED
      BY <2>1, <3>1, <3>2
  <2> QED
    BY <2>2, <2>3
<1> QED
  BY <1>7 DEF MadeInv

\* Every step of the entries keeps what is made once made once.
LEMMA MadeKeeps == EntriesInv /\ MadeInv /\ [EntriesNext]_entryVars => MadeInv'
PROOF
  BY WordsMakeNothing, MakersMakeNothing, LookingMakesOnce, MakingMakesOnce DEF MadeInv, MadeFrom, EntriesNext,
     entryVars, ReindexAll

\* What the runs check of the entries follows.
LEMMA MadeHolds == ASSUME MadeInv PROVE MadeOnce
PROOF
<1> SUFFICES ASSUME NEW o \in Origins \ entriesRaced PROVE Cardinality(MadeFrom(o)) <= 1
  BY DEF MadeOnce
<1>1. \A e, f \in MadeFrom(o) : e = f
  BY DEF MadeInv
<1> HIDE DEF MadeFrom
<1> QED
  BY <1>1, AtMostOne

-----------------------------------------------------------------------------
(* The connected sheet: a source, its cache and the run that filled it.      *)

CachedRow == [row : UNION {e.rows : e \in Editions}, by : Syncs, asOf : 0 .. MaxTime]
SaveRequest == [pc : {"idle", "found", "done"}, url : Urls \cup {None}, tabs : SUBSET Kinds, found : Sources \cup {None}]
AtWork == {"products", "orders", "begin", "deleting", "deleted", "inserted", "failing", "failed"}
SyncRequest == [pc : AtWork \cup {"idle", "done"}, src : Sources \cup {None}, url : Urls \cup {None}, tabs : SUBSET Kinds,
                got : SUBSET CachedRow, repeats : {FALSE} \cup {e.repeats : e \in Editions},
                snapshot : SUBSET CachedRow, doomed : SUBSET CachedRow, at : 0 .. MaxTime]
AnswerRequest == [pc : {"idle", "read"}, query : Queries \cup {None}, src : Sources \cup {None}, late : BOOLEAN]

SheetTypes ==
    /\ sources \in [Sources -> SourceRow \cup {None}]
    /\ sheets \in [Urls -> Editions]
    /\ runs \in [Syncs -> {"none", "running", "succeeded", "failed"}]
    /\ records \in [Sources -> SUBSET CachedRow]
    /\ saveJobs \in [Saves -> SaveRequest]
    /\ syncJobs \in [Syncs -> SyncRequest]
    /\ answerJobs \in [Answers -> AnswerRequest]
    /\ now \in 0 .. MaxTime /\ faults \in 0 .. MaxFaults
    /\ lastRun \in [Sources -> Syncs \cup {None}]
    /\ overlapped \in SUBSET Sources

\* A save that looked found a source there is; alone, it found none only where there is none.
SavesKnow ==
    /\ \A j \in Saves : saveJobs[j].pc = "found" =>
          /\ saveJobs[j].found \in Connected \cup {None}
          /\ saveJobs[j].url \in Urls /\ saveJobs[j].tabs \in TabChoices
    /\ overlapped # Sources =>
          /\ \A j, k \in Saves : saveJobs[j].pc = "found" /\ saveJobs[k].pc = "found" => j = k
          /\ \A j \in Saves : saveJobs[j].pc = "found" /\ saveJobs[j].found = None => Connected = {}
          /\ \A d, e \in Connected : d = e

\* Sync j stands at k: it fetched what it has within the minute it runs, and alone on its source it
\* deletes exactly the rows that are there.
SyncKnows(j, k, rows, status, held, time, over) ==
    /\ k.pc # "idle" => k.src \in held
    /\ k.pc \in AtWork => /\ k.url \in Urls /\ k.at <= time /\ time <= k.at + 1
                          /\ \A r \in k.got : r.by = j /\ k.at <= r.asOf /\ r.asOf <= time
    /\ status = "succeeded" => k.pc = "done"
    /\ k.pc = "failed" => status = "failed"
    /\ k.src \in Sources \ over => /\ k.pc = "deleting" => k.snapshot = rows[k.src]
                                   /\ k.pc \in {"deleted", "inserted"} => k.doomed = rows[k.src]
                                   /\ k.pc = "done" => status # "running"

\* What a source and its cache say of the run they come from.
SourceKnows(d, row, rows, last, status, jobs, over) ==
    /\ row = None => rows = {} /\ last = None
    /\ \A r \in rows : status[r.by] = "succeeded"
    /\ last # None => jobs[last].pc = "done"
    /\ d \notin over =>
          /\ \A r, s \in rows : r.by = s.by
          /\ \A r \in rows : row.lastSuccess # NeverSynced /\ row.lastSuccess <= r.asOf + 1
          /\ last # None => row.lastSyncStatus = status[last]

SyncsApart ==
    \A j, k \in Syncs : Working(j) /\ Working(k) /\ syncJobs[j].src = syncJobs[k].src /\ syncJobs[j].src \notin overlapped
        => j = k

\* A reply under way found the cache of its source fresh, and is still within that minute.
AnswersKnow ==
    \A j \in Answers :
        /\ answerJobs[j].late = FALSE
        /\ answerJobs[j].pc = "read" =>
              /\ answerJobs[j].src \in Connected /\ answerJobs[j].query \in Queries
              /\ IsFresh(answerJobs[j].src, answerJobs[j].query.kind)

SheetInv ==
    /\ SheetTypes
    /\ SavesKnow
    /\ \A j \in Syncs : SyncKnows(j, syncJobs[j], records, runs[j], Connected, now, overlapped)
    /\ SyncsApart
    /\ \A d \in Sources : SourceKnows(d, sources[d], records[d], lastRun[d], runs, syncJobs, overlapped)
    /\ AnswersKnow

\* Nothing is connected, fetched or asked at first.
LEMMA SheetStarts == SheetInit => SheetInv
PROOF
<1> SUFFICES ASSUME SheetInit PROVE SheetInv
  OBVIOUS
<1> USE SheetAssumption
<1>1. Connected = {}
  BY DEF SheetInit, Connected
<1>2. SheetTypes
  BY DEF IdleSave, SaveRequest, IdleSync, SyncRequest, IdleAnswer, AnswerRequest, SheetTypes, SheetInit
<1>3. SavesKnow
  BY <1>1 DEF SavesKnow, SheetInit, IdleSave
<1>4. ASSUME NEW j \in Syncs PROVE SyncKnows(j, syncJobs[j], records, runs[j], Connected, now, overlapped)
  BY <1>4 DEF SheetInit, SyncKnows, IdleSync, AtWork
<1>5. SyncsApart
  BY DEF SyncsApart, SheetInit, Working, IdleSync
<1>6. ASSUME NEW d \in Sources PROVE SourceKnows(d, sources[d], records[d], lastRun[d], runs, syncJobs, overlapped)
  BY <1>6 DEF SheetInit, SourceKnows
<1>7. AnswersKnow
  BY DEF AnswersKnow, SheetInit, IdleAnswer
<1> QED
  BY <1>2, <1>3, <1>4, <1>5, <1>6, <1>7 DEF SheetInv

\* What is known of the sources, saves, syncs and answers gives the properties of the connected sheet.
LEMMA SheetHolds ==
    SheetInv => SheetTypeOK /\ OneSource /\ CacheIsOneImport /\ StatusOfLastRun /\ QuotesAreFresh
PROOF
<1> SUFFICES ASSUME SheetInv PROVE SheetTypeOK /\ OneSource /\ CacheIsOneImport /\ StatusOfLastRun /\ QuotesAreFresh
  OBVIOUS
<1>1. SheetTypeOK
  BY DEF SheetInv, SheetTypes, SheetTypeOK, SourceKnows, Connected
<1>2. OneSource
  BY AtMostOne DEF SheetInv, SavesKnow, OneSource
<1>3. CacheIsOneImport
  BY DEF SheetInv, SourceKnows, CacheIsOneImport
<1>4. StatusOfLastRun
  BY DEF StatusOfLastRun, Connected, SheetInv, SourceKnows, SyncKnows
<1>5. QuotesAreFresh
  BY DEF SheetInv, AnswersKnow, QuotesAreFresh
<1> QED
  BY <1>1, <1>2, <1>3, <1>4, <1>5

\* Where there is a source, the oldest is one of them.
LEMMA OldestIsConnected ==
    ASSUME SheetInv, Connected # {}
    PROVE  Oldest \in Connected
PROOF
<1> DEFINE ages == {sources[d].created : d \in Connected}
<1>1. \A d \in Connected : sources[d] \in SourceRow
  BY DEF SheetInv, SheetTypes, Connected
<1>2. Cardinality(Sources) \in Nat
  BY SheetAssumption, FS_CardinalityType
<1>3. \A d \in Connected : sources[d].created \in Nat
  BY <1>1, <1>2 DEF SourceRow
<1>4. ages \in SUBSET Nat /\ ages # {}
  BY <1>3
<1>5. PICK i \in ages : \A k \in ages : i <= k
  BY <1>4, LeastOf
<1>6. PICK d \in Connected : i = sources[d].created
  BY <1>5
<1>7. \A e \in Connected : sources[d].created <= sources[e].created
  BY <1>5, <1>6
<1> QED
  BY <1>7 DEF Oldest

\* What sync i knows stays so when others start, fetch and settle: nothing becomes less overlapped.
LEMMA KnownStays ==
    ASSUME NEW i, NEW k, NEW rows, NEW status, NEW held, NEW time, NEW over, NEW more \in SUBSET Sources, NEW rest,
           SyncKnows(i, k, rows, status, held, time, over), over \subseteq more, held \subseteq rest
    PROVE  SyncKnows(i, k, rows, status, rest, time, more)
PROOF
  BY DEF SyncKnows

\* A sync that is not done, and does not finish well, goes to k: the rest keeps what it knows.
LEMMA SyncStepKeeps ==
    ASSUME SheetInv, NEW j \in Syncs, NEW k \in SyncRequest, syncJobs' = [syncJobs EXCEPT ![j] = k],
           NEW s \in {"none", "running", "failed"}, runs' = [runs EXCEPT ![j] = s] \/ (runs' = runs /\ s = runs[j]),
           syncJobs[j].pc # "done",
           SyncKnows(j, k, records, s, Connected, now, overlapped'),
           overlapped' \in SUBSET Sources, overlapped \subseteq overlapped', faults' \in 0 .. MaxFaults,
           k.pc \in AtWork => \A i \in Syncs \ {j} : ~(Working(i) /\ syncJobs[i].src = k.src /\ k.src \notin overlapped'),
           UNCHANGED <<sources, sheets, records, saveJobs, answerJobs, now, lastRun>>
    PROVE  SheetInv'
PROOF
<1>1. /\ runs' \in [Syncs -> {"none", "running", "succeeded", "failed"}] /\ syncJobs' \in [Syncs -> SyncRequest]
      /\ runs'[j] = s /\ syncJobs'[j] = k
      /\ \A i \in Syncs \ {j} : runs'[i] = runs[i] /\ syncJobs'[i] = syncJobs[i]
  BY DEF SheetInv, SheetTypes
<1>2. SheetTypes'
  BY <1>1 DEF SheetInv, SheetTypes
<1>3. Connected' = Connected
  BY DEF Connected
<1>4. SavesKnow'
  BY <1>3 DEF SheetInv, SheetTypes, SavesKnow
<1>5. ASSUME NEW i \in Syncs
      PROVE SyncKnows(i, syncJobs'[i], records', runs'[i], Connected', now', overlapped')
  <2>1. CASE i = j
    BY <1>1, <1>3, <2>1
  <2>2. CASE i # j
    BY <1>1, <1>3, <2>2, KnownStays DEF SheetInv
  <2> QED
    BY <2>1, <2>2
<1>6. SyncsApart'
  BY <1>1 DEF SyncsApart, Working, SheetInv, SheetTypes, SyncRequest
<1>7. ASSUME NEW d \in Sources
      PROVE SourceKnows(d, sources'[d], records'[d], lastRun'[d], runs', syncJobs', overlapped')
  BY <1>1 DEF SheetInv, SyncKnows, SheetTypes, CachedRow, SourceKnows
<1>8. AnswersKnow'
  BY <1>3 DEF SheetInv, AnswersKnow, IsFresh
<1> QED
  BY <1>2, <1>4, <1>5, <1>6, <1>7, <1>8 DEF SheetInv

\* A sync that is done has no more to say than its source.
LEMMA DoneIs ==
    ASSUME NEW d \in Sources
    PROVE  [IdleSync EXCEPT !.pc = "done", !.src = d] \in SyncRequest
PROOF
<1>1. IdleSync \in SyncRequest
  BY SheetAssumption DEF SyncRequest, IdleSync
<1> QED
  BY <1>1 DEF SyncRequest

\* What a sync holds has its types.
LEMMA SyncHas ==
    ASSUME SheetInv, NEW j \in Syncs
    PROVE  /\ syncJobs[j] \in SyncRequest
           /\ syncJobs[j].pc \in AtWork \cup {"idle", "done"} /\ syncJobs[j].tabs \in SUBSET Kinds
           /\ syncJobs[j].src \in Sources \cup {None} /\ syncJobs[j].at \in Nat
           /\ syncJobs[j].got \in SUBSET CachedRow /\ syncJobs[j].doomed \in SUBSET CachedRow
           /\ syncJobs[j].snapshot \in SUBSET CachedRow
           /\ \A r \in syncJobs[j].got : r.asOf \in Nat
           /\ now \in Nat /\ MaxTime \in Nat
           /\ runs[j] = "succeeded" => syncJobs[j].pc = "done"
           /\ Working(j) = (syncJobs[j].pc \in AtWork)
           /\ SyncKnows(j, syncJobs[j], records, runs[j], Connected, now, overlapped)
PROOF
<1>1. syncJobs[j] \in SyncRequest /\ MaxTime \in Nat /\ now \in 0 .. MaxTime
  BY SheetAssumption DEF SheetInv, SheetTypes
<1>2. /\ syncJobs[j].pc \in AtWork \cup {"idle", "done"} /\ syncJobs[j].tabs \in SUBSET Kinds
      /\ syncJobs[j].src \in Sources \cup {None} /\ syncJobs[j].at \in 0 .. MaxTime
      /\ syncJobs[j].got \in SUBSET CachedRow /\ syncJobs[j].doomed \in SUBSET CachedRow
      /\ syncJobs[j].snapshot \in SUBSET CachedRow
  BY <1>1 DEF SyncRequest
<1>3. \A r \in CachedRow : r.asOf \in 0 .. MaxTime
  BY DEF CachedRow
<1>4. \A r \in syncJobs[j].got : r.asOf \in Nat
  BY <1>1, <1>2, <1>3
<1>5. SyncKnows(j, syncJobs[j], records, runs[j], Connected, now, overlapped)
  BY DEF SheetInv
<1>6. runs[j] = "succeeded" => syncJobs[j].pc = "done"
  BY <1>5 DEF SyncKnows
<1>7. Working(j) = (syncJobs[j].pc \in AtWork)
  BY <1>2 DEF Working, AtWork
<1> QED
  BY <1>1, <1>2, <1>4, <1>5, <1>6, <1>7

\* The sheet changes: nothing of the service does.
LEMMA EditSheetKeeps ==
    ASSUME SheetInv, NEW u \in Urls, NEW e \in Editions, EditSheet(u, e)
    PROVE  SheetInv'
PROOF
  BY DEF SheetInv, SheetTypes, EditSheet, Connected, SavesKnow, SyncsApart, AnswersKnow, IsFresh, Working

\* A minute passes, while no sync is older than it and no reply is half read.
LEMMA TickKeeps ==
    ASSUME SheetInv, Tick
    PROVE  SheetInv'
PROOF
<1>1. MaxTime \in Nat /\ now \in 0 .. MaxTime /\ now < MaxTime /\ now' = now + 1
  BY SheetAssumption DEF SheetInv, SheetTypes, Tick
<1>2. SheetTypes'
  BY <1>1 DEF SheetInv, SheetTypes, Tick
<1>3. Connected' = Connected
  BY DEF Connected, Tick
<1>4. SavesKnow'
  BY <1>3 DEF SheetInv, SavesKnow, Tick
<1>5. ASSUME NEW j \in Syncs
      PROVE SyncKnows(j, syncJobs[j], records, runs[j], Connected, now', overlapped)
  BY <1>1, SyncHas DEF SheetInv, Tick, Young, AtWork, SyncKnows
<1>6. \A j \in Answers : answerJobs[j].pc # "read"
  BY DEF Tick
<1> QED
  BY <1>2, <1>3, <1>4, <1>5, <1>6 DEF SheetInv, SyncsApart, AnswersKnow, Working, Tick

\* The rows of the other sources and the replies keep what they know when saves alone go on.
LEMMA SavesOnly ==
    ASSUME SheetInv, SheetTypes', SavesKnow', Connected \subseteq Connected',
           \A d \in Connected : sources'[d].lastSuccess = sources[d].lastSuccess
                                /\ sources'[d].lastSyncStatus = sources[d].lastSyncStatus,
           overlapped \subseteq overlapped',
           UNCHANGED <<sheets, runs, records, syncJobs, answerJobs, now, lastRun>>
    PROVE  SheetInv'
PROOF
<1>1. ASSUME NEW j \in Syncs PROVE SyncKnows(j, syncJobs[j], records, runs[j], Connected', now, overlapped')
  BY KnownStays DEF SheetInv, SheetTypes
<1>2. ASSUME NEW d \in Sources
      PROVE SourceKnows(d, sources'[d], records[d], lastRun[d], runs, syncJobs, overlapped')
  <2>1. SourceKnows(d, sources[d], records[d], lastRun[d], runs, syncJobs, overlapped)
    BY DEF SheetInv
  <2>2. CASE d \in Connected
    BY <2>2, <2>1 DEF Connected, SourceKnows
  <2>3. CASE d \notin Connected
    BY <2>1, <2>3 DEF SourceKnows, Connected
  <2> QED
    BY <2>2, <2>3
<1>3. AnswersKnow'
  BY DEF SheetInv, AnswersKnow, IsFresh
<1> QED
  BY <1>1, <1>2, <1>3 DEF SheetInv, SyncsApart, Working

\* A save that looks alone finds the source there is, or none.
LEMMA FindForSaveKeeps ==
    ASSUME SheetInv, NEW j \in Saves, NEW u \in Urls, NEW tabs \in TabChoices, FindForSave(j, u, tabs)
    PROVE  SheetInv'
PROOF
<1> DEFINE k == [pc |-> "found", url |-> u, tabs |-> tabs, found |-> Existing]
<1>1. /\ saveJobs[j].pc = "idle" /\ saveJobs' = [saveJobs EXCEPT ![j] = k]
      /\ overlapped' = IF \E i \in Saves : saveJobs[i].pc = "found" THEN Sources ELSE overlapped
      /\ UNCHANGED <<sources, sheets, runs, records, syncJobs, answerJobs, now, faults, lastRun>>
  BY DEF FindForSave
<1>2. Existing \in Connected \cup {None} /\ (Existing = None => Connected = {})
  BY OldestIsConnected, SheetAssumption DEF Existing, Connected
<1>3. k \in SaveRequest
  BY <1>2, SheetAssumption DEF SaveRequest, Kinds, Connected
<1>4. overlapped' \in SUBSET Sources /\ overlapped \subseteq overlapped'
  BY <1>1 DEF SheetInv, SheetTypes
<1>5. SheetTypes'
  BY <1>1, <1>3, <1>4 DEF SheetInv, SheetTypes
<1>6. Connected' = Connected
  BY <1>1 DEF Connected
<1>7. saveJobs'[j] = k /\ \A i \in Saves \ {j} : saveJobs'[i] = saveJobs[i]
  BY <1>1 DEF SheetInv, SheetTypes
<1>8. SavesKnow'
  BY <1>1, <1>2, <1>6, <1>7 DEF SavesKnow, SheetInv
<1> QED
  BY <1>1, <1>4, <1>5, <1>6, <1>8, SavesOnly

\* A save that found no source adds one; alone, it is the only one.
LEMMA WriteSourceKeeps ==
    ASSUME SheetInv, NEW j \in Saves, WriteSource(j)
    PROVE  SheetInv'
PROOF
<1> DEFINE r == saveJobs[j]
           k == [IdleSave EXCEPT !.pc = "done"]
<1>1. /\ r.pc = "found" /\ saveJobs' = [saveJobs EXCEPT ![j] = k]
      /\ UNCHANGED <<sheets, runs, records, syncJobs, answerJobs, now, faults, lastRun, overlapped>>
  BY DEF WriteSource
<1>2. r.found \in Connected \cup {None} /\ r.url \in Urls /\ r.tabs \in TabChoices
  BY <1>1 DEF SheetInv, SavesKnow
<1>3. k \in SaveRequest /\ k.pc = "done"
  BY DEF SaveRequest, IdleSave
<1>4. saveJobs' \in [Saves -> SaveRequest] /\ saveJobs'[j] = k /\ \A i \in Saves \ {j} : saveJobs'[i] = saveJobs[i]
  BY <1>1, <1>3 DEF SheetInv, SheetTypes
<1>5. IsFiniteSet(Sources) /\ None \notin Sources /\ MaxTime \in Nat /\ Cardinality(Sources) \in Nat
  BY SheetAssumption, FS_CardinalityType
<1> HIDE DEF r, k
<1>6. CASE r.found = None
  <2> DEFINE new == [url |-> r.url, created |-> Cardinality(Connected), tabs |-> r.tabs,
                     lastSyncStatus |-> "none", lastSuccess |-> NeverSynced]
  <2>1. PICK d \in Sources \ Connected : sources' = [sources EXCEPT ![d] = new]
    BY <1>6 DEF WriteSource, AddsSource, r
  <2>2. Connected \in SUBSET Sources
    BY DEF Connected
  <2>3. IsFiniteSet(Connected) /\ Cardinality(Connected) <= Cardinality(Sources)
    BY <1>5, <2>2, FS_Subset
  <2>4. Cardinality(Connected) \in Nat
    BY <2>3, FS_CardinalityType
  <2>5. Cardinality(Connected) \in 0 .. Cardinality(Sources) /\ NeverSynced \in 0 .. MaxTime + 1
    BY <1>5, <2>3, <2>4 DEF NeverSynced
  <2>6. new \in SourceRow
    BY <1>2, <2>5 DEF SourceRow
  <2> HIDE DEF new
  <2>7. sources' \in [Sources -> SourceRow \cup {None}]
    BY <2>1, <2>6 DEF SheetInv, SheetTypes
  <2>8. new # None
    BY <2>6, NoneAssumption
  <2>9. Connected' = Connected \cup {d}
    BY <2>1, <2>8 DEF Connected, SheetInv, SheetTypes
  <2>10. SheetTypes'
    BY <1>1, <1>4, <2>7 DEF SheetInv, SheetTypes
  <2>11. ASSUME overlapped # Sources PROVE Connected = {} /\ \A i \in Saves : saveJobs[i].pc = "found" => i = j
    BY <1>1, <1>6, <2>11 DEF SheetInv, SavesKnow, r
  <2>12. SavesKnow'
    BY <1>1, <1>3, <1>4, <2>9, <2>11 DEF SavesKnow, SheetInv
  <2>13. \A e \in Connected : sources'[e] = sources[e]
    BY <2>1
  <2> QED
    BY <1>1, <2>9, <2>10, <2>12, <2>13, SavesOnly
<1>7. CASE r.found # None
  <2> DEFINE d == r.found
             new == [sources[d] EXCEPT !.url = r.url, !.tabs = r.tabs]
  <2>1. d \in Connected /\ d \in Sources /\ sources[d] \in SourceRow
    BY <1>2, <1>7 DEF Connected, SheetInv, SheetTypes
  <2>2. sources' = [sources EXCEPT ![d].url = r.url, ![d].tabs = r.tabs]
    BY <1>7 DEF WriteSource, AddsSource, r
  <2>3. new \in SourceRow /\ new.lastSuccess = sources[d].lastSuccess /\ new.lastSyncStatus = sources[d].lastSyncStatus
    BY <1>2, <2>1 DEF SourceRow
  <2>4. sources' = [sources EXCEPT ![d] = new]
    BY <2>1, <2>2 DEF SheetInv, SheetTypes
  <2> HIDE DEF new, d
  <2>5. sources' \in [Sources -> SourceRow \cup {None}]
    BY <2>3, <2>4 DEF SheetInv, SheetTypes
  <2>6. new # None
    BY <2>3, NoneAssumption
  <2>7. Connected' = Connected
    BY <2>1, <2>4, <2>6 DEF Connected, SheetInv, SheetTypes
  <2>8. SheetTypes'
    BY <1>1, <1>4, <2>5 DEF SheetInv, SheetTypes
  <2>9. SavesKnow'
    BY <1>1, <1>3, <1>4, <2>7 DEF SavesKnow, SheetInv
  <2>10. \A e \in Connected : sources'[e].lastSuccess = sources[e].lastSuccess
                              /\ sources'[e].lastSyncStatus = sources[e].lastSyncStatus
    BY <2>1, <2>3, <2>4 DEF Connected, SheetInv, SheetTypes
  <2> QED
    BY <1>1, <2>7, <2>8, <2>9, <2>10, SavesOnly
<1> QED
  BY <1>6, <1>7

\* A sync starts: on a source another one is working on, the two overlap.
LEMMA StartSyncKeeps ==
    ASSUME SheetInv, NEW j \in Syncs, NEW d \in Sources, StartSync(j, d)
    PROVE  SheetInv'
PROOF
<1> DEFINE k == [IdleSync EXCEPT !.pc = "products", !.src = d, !.url = sources[d].url, !.tabs = sources[d].tabs,
                                 !.at = now]
<1>1. /\ syncJobs[j].pc = "idle" /\ d \in Connected /\ syncJobs' = [syncJobs EXCEPT ![j] = k]
      /\ runs' = [runs EXCEPT ![j] = "running"]
      /\ overlapped' = IF \E i \in Syncs : Working(i) /\ syncJobs[i].src = d THEN overlapped \cup {d} ELSE overlapped
      /\ UNCHANGED <<sources, sheets, records, saveJobs, answerJobs, now, faults, lastRun>>
  BY DEF StartSync
<1>2. sources[d] \in SourceRow
  BY <1>1 DEF Connected, SheetInv, SheetTypes
<1>3. sources[d].url \in Urls /\ sources[d].tabs \in SUBSET Kinds
  BY <1>2, SheetAssumption DEF SourceRow, Kinds
<1>4. now \in 0 .. MaxTime /\ MaxTime \in Nat /\ faults \in 0 .. MaxFaults
  BY SheetAssumption DEF SheetInv, SheetTypes
<1>5. k.pc = "products" /\ k.src = d /\ k.url = sources[d].url /\ k.at = now /\ k.got = {}
  BY DEF IdleSync
<1>6. k \in SyncRequest
  BY <1>3, <1>4 DEF SyncRequest, AtWork, IdleSync
<1> HIDE DEF k
<1>7. SyncKnows(j, k, records, "running", Connected, now, overlapped')
  BY <1>1, <1>3, <1>4, <1>5 DEF SyncKnows
<1>8. overlapped' \in SUBSET Sources /\ overlapped \subseteq overlapped'
  BY <1>1 DEF SheetInv, SheetTypes
<1>9. \A i \in Syncs \ {j} : ~(Working(i) /\ syncJobs[i].src = k.src /\ k.src \notin overlapped')
  BY <1>1, <1>5
<1> QED
  BY <1>1, <1>4, <1>6, <1>7, <1>8, <1>9, SyncStepKeeps

\* A sync at work goes on to k on the same source.
LEMMA GoesOn ==
    ASSUME SheetInv, NEW j \in Syncs, syncJobs[j].pc \in AtWork, NEW k \in SyncRequest, k.pc \in AtWork,
           k.src = syncJobs[j].src, syncJobs' = [syncJobs EXCEPT ![j] = k],
           NEW s \in {"none", "running", "failed"}, runs' = [runs EXCEPT ![j] = s] \/ (runs' = runs /\ s = runs[j]),
           SyncKnows(j, k, records, s, Connected, now, overlapped), faults' \in 0 .. MaxFaults,
           UNCHANGED <<sources, sheets, records, saveJobs, answerJobs, now, lastRun, overlapped>>
    PROVE  SheetInv'
PROOF
<1>1. syncJobs[j].pc # "done" /\ Working(j)
  BY SyncHas DEF AtWork
<1>2. \A i \in Syncs \ {j} : ~(Working(i) /\ syncJobs[i].src = k.src /\ k.src \notin overlapped)
  BY <1>1 DEF SheetInv, SyncsApart
<1>3. overlapped \in SUBSET Sources
  BY DEF SheetInv, SheetTypes
<1> QED
  BY <1>1, <1>2, <1>3, SyncStepKeeps

\* The status of a run at work is not that of a success.
LEMMA RunIsOpen ==
    ASSUME SheetInv, NEW j \in Syncs, syncJobs[j].pc \in AtWork
    PROVE  runs[j] \in {"none", "running", "failed"} /\ faults \in 0 .. MaxFaults
PROOF
  BY SyncHas DEF SheetInv, SheetTypes, AtWork

\* What is fetched is of this sync and this minute.
LEMMA FetchedIs ==
    ASSUME SheetInv, NEW j \in Syncs, syncJobs[j].pc \in AtWork, NEW kind
    PROVE  /\ Fetched(j, kind) \in SUBSET CachedRow
           /\ \A r \in Fetched(j, kind) : r.by = j /\ r.asOf = now
           /\ sheets[syncJobs[j].url] \in Editions
PROOF
  BY SyncHas DEF SyncKnows, SheetInv, SheetTypes, Imported, Fetched, CachedRow

LEMMA FetchKeeps ==
    ASSUME SheetInv, NEW j \in Syncs, FetchProducts(j) \/ FetchOrders(j)
    PROVE  SheetInv'
PROOF
<1> DEFINE c == syncJobs[j]
<1>1. c.pc \in {"products", "orders"} /\ c.pc \in AtWork
  BY DEF FetchProducts, FetchOrders, AtWork
<1>2. /\ c \in SyncRequest /\ c.at \in Nat /\ now \in Nat
      /\ \A r \in c.got : r.asOf \in Nat
      /\ SyncKnows(j, c, records, runs[j], Connected, now, overlapped)
  BY SyncHas
<1>3. /\ \A kind : Fetched(j, kind) \in SUBSET CachedRow /\ \A r \in Fetched(j, kind) : r.by = j /\ r.asOf = now
      /\ sheets[c.url] \in Editions
  BY <1>1, FetchedIs
<1>4. \E k \in SyncRequest :
        /\ k.pc \in {"orders", "begin"} /\ k.src = c.src /\ k.url = c.url /\ k.at = c.at
        /\ k.got \in SUBSET (c.got \cup Fetched(j, "product") \cup Fetched(j, "order"))
        /\ syncJobs' = [syncJobs EXCEPT ![j] = k]
  <2>1. CASE FetchProducts(j)
    <3> DEFINE k == [c EXCEPT !.pc = IF "order" \in c.tabs THEN "orders" ELSE "begin", !.got = Fetched(j, "product"),
                              !.repeats = sheets[c.url].repeats]
    <3>1. k \in SyncRequest
      BY <1>2, <1>3 DEF SyncRequest, AtWork
    <3>2. syncJobs' = [syncJobs EXCEPT ![j] = k]
      BY <2>1 DEF FetchProducts
    <3>3. k.pc \in {"orders", "begin"} /\ k.src = c.src /\ k.url = c.url /\ k.at = c.at /\ k.got = Fetched(j, "product")
      BY <1>2 DEF SyncRequest
    <3> QED
      BY <3>1, <3>2, <3>3
  <2>2. CASE FetchOrders(j)
    <3> DEFINE k == [c EXCEPT !.pc = "begin", !.got = c.got \cup Fetched(j, "order")]
    <3>1. k \in SyncRequest
      BY <1>2, <1>3 DEF SyncRequest, AtWork
    <3>2. syncJobs' = [syncJobs EXCEPT ![j] = k]
      BY <2>2 DEF FetchOrders
    <3>3. /\ k.pc \in {"orders", "begin"} /\ k.src = c.src /\ k.url = c.url /\ k.at = c.at
          /\ k.got = c.got \cup Fetched(j, "order")
      BY <1>2 DEF SyncRequest
    <3> QED
      BY <3>1, <3>2, <3>3
  <2> QED
    BY <2>1, <2>2
<1>5. PICK k \in SyncRequest :
        /\ k.pc \in {"orders", "begin"} /\ k.src = c.src /\ k.url = c.url /\ k.at = c.at
        /\ k.got \in SUBSET (c.got \cup Fetched(j, "product") \cup Fetched(j, "order"))
        /\ syncJobs' = [syncJobs EXCEPT ![j] = k]
  BY <1>4
<1>6. UNCHANGED <<sources, sheets, runs, records, saveJobs, answerJobs, now, faults, lastRun, overlapped>>
  BY DEF FetchProducts, FetchOrders
<1> HIDE DEF c
<1>7. c.src \in Connected /\ c.url \in Urls /\ c.at <= now /\ now <= c.at + 1
      /\ \A r \in c.got : r.by = j /\ c.at <= r.asOf /\ r.asOf <= now
  BY <1>1, <1>2 DEF SyncKnows, AtWork
<1>8. now <= now /\ runs[j] # "succeeded"
  BY <1>1, <1>2 DEF SyncKnows
<1>9. \A r \in k.got : r.by = j /\ c.at <= r.asOf /\ r.asOf <= now
  BY <1>3, <1>5, <1>7, <1>8
<1>10. SyncKnows(j, k, records, runs[j], Connected, now, overlapped)
  BY <1>5, <1>7, <1>8, <1>9 DEF SyncKnows
<1>11. k.pc \in AtWork
  BY <1>5 DEF AtWork
<1>12. runs[j] \in {"none", "running", "failed"} /\ faults \in 0 .. MaxFaults
  BY <1>1, RunIsOpen DEF c
<1> QED
  BY <1>1, <1>5, <1>6, <1>10, <1>11, <1>12, GoesOn DEF c

\* The statements of the transaction, each on what the one before it saw.
LEMMA ReplaceKeeps ==
    ASSUME SheetInv, NEW j \in Syncs, BeginReplace(j) \/ DeleteRows(j) \/ InsertRows(j)
    PROVE  SheetInv'
PROOF
<1> DEFINE c == syncJobs[j]
<1>1. c.pc \in {"begin", "deleting", "deleted"} /\ c.pc \in AtWork
  BY DEF BeginReplace, DeleteRows, InsertRows, AtWork
<1>2. c \in SyncRequest /\ SyncKnows(j, c, records, runs[j], Connected, now, overlapped)
  BY SyncHas
<1>3. runs[j] \in {"none", "running", "failed"} /\ faults \in 0 .. MaxFaults
  BY <1>1, RunIsOpen
<1>4. UNCHANGED <<sources, sheets, runs, records, saveJobs, answerJobs, now, faults, lastRun, overlapped>>
  BY DEF BeginReplace, DeleteRows, InsertRows
<1>5. c.src \in Connected /\ c.src \in Sources
  BY <1>1, <1>2 DEF SyncKnows, Connected
<1>6. records[c.src] \in SUBSET CachedRow
  BY <1>5 DEF SheetInv, SheetTypes
<1>7. \E k \in SyncRequest :
        /\ k.pc \in {"deleting", "deleted", "inserted", "failing"}
        /\ k.src = c.src /\ k.url = c.url /\ k.at = c.at /\ k.got = c.got
        /\ k.pc = "deleting" => k.snapshot = records[k.src]
        /\ k.pc \in {"deleted", "inserted"} /\ c.src \notin overlapped => k.doomed = records[k.src]
        /\ syncJobs' = [syncJobs EXCEPT ![j] = k]
  <2>1. CASE BeginReplace(j)
    <3> DEFINE k == [c EXCEPT !.pc = "deleting", !.snapshot = records[c.src]]
    <3>1. k \in SyncRequest
      BY <1>2, <1>6 DEF SyncRequest, AtWork
    <3>2. syncJobs' = [syncJobs EXCEPT ![j] = k]
      BY <2>1 DEF BeginReplace
    <3>3. k.pc = "deleting" /\ k.src = c.src /\ k.url = c.url /\ k.at = c.at /\ k.got = c.got /\ k.snapshot = records[c.src]
      BY <1>2 DEF SyncRequest
    <3> QED
      BY <3>1, <3>2, <3>3
  <2>2. CASE DeleteRows(j)
    <3> DEFINE k == [c EXCEPT !.pc = "deleted", !.doomed = c.snapshot \cap records[c.src]]
    <3>1. k \in SyncRequest
      BY <1>2, <1>6 DEF SyncRequest, AtWork
    <3>2. syncJobs' = [syncJobs EXCEPT ![j] = k] /\ c.pc = "deleting"
      BY <2>2 DEF DeleteRows
    <3>3. /\ k.pc = "deleted" /\ k.src = c.src /\ k.url = c.url /\ k.at = c.at /\ k.got = c.got
          /\ k.doomed = c.snapshot \cap records[c.src]
      BY <1>2 DEF SyncRequest
    <3>4. c.src \notin overlapped => c.snapshot = records[c.src]
      BY <1>2, <1>5, <3>2 DEF SyncKnows
    <3> QED
      BY <3>1, <3>2, <3>3, <3>4
  <2>3. CASE InsertRows(j)
    <3> DEFINE k == [c EXCEPT !.pc = IF UniqueViolation(j) THEN "failing" ELSE "inserted",
                              !.doomed = IF UniqueViolation(j) THEN {} ELSE c.doomed]
    <3>1. k \in SyncRequest
      BY <1>2 DEF SyncRequest, AtWork
    <3>2. syncJobs' = [syncJobs EXCEPT ![j] = k] /\ c.pc = "deleted"
      BY <2>3 DEF InsertRows
    <3>3. /\ k.pc \in {"failing", "inserted"} /\ k.src = c.src /\ k.url = c.url /\ k.at = c.at /\ k.got = c.got
          /\ k.pc = "inserted" => k.doomed = c.doomed
      BY <1>2 DEF SyncRequest
    <3>4. c.src \notin overlapped => c.doomed = records[c.src]
      BY <1>2, <1>5, <3>2 DEF SyncKnows
    <3> QED
      BY <3>1, <3>2, <3>3, <3>4
  <2> QED
    BY <2>1, <2>2, <2>3
<1>8. PICK k \in SyncRequest :
        /\ k.pc \in {"deleting", "deleted", "inserted", "failing"}
        /\ k.src = c.src /\ k.url = c.url /\ k.at = c.at /\ k.got = c.got
        /\ k.pc = "deleting" => k.snapshot = records[k.src]
        /\ k.pc \in {"deleted", "inserted"} /\ c.src \notin overlapped => k.doomed = records[k.src]
        /\ syncJobs' = [syncJobs EXCEPT ![j] = k]
  BY <1>7
<1> HIDE DEF c
<1>9. SyncKnows(j, k, records, runs[j], Connected, now, overlapped)
  BY <1>1, <1>2, <1>3, <1>8 DEF SyncKnows, AtWork
<1>10. k.pc \in AtWork
  BY <1>8 DEF AtWork
<1> QED
  BY <1>1, <1>3, <1>4, <1>8, <1>9, <1>10, GoesOn DEF c

\* A failure, and the marking of the run.
LEMMA FailureKeeps ==
    ASSUME SheetInv, NEW j \in Syncs, SyncFails(j) \/ MarkRunFailed(j)
    PROVE  SheetInv'
PROOF
<1> DEFINE c == syncJobs[j]
<1>1. c.pc \in AtWork
  BY DEF SyncFails, MarkRunFailed, AtWork
<1>2. c \in SyncRequest /\ SyncKnows(j, c, records, runs[j], Connected, now, overlapped)
  BY SyncHas
<1>3. runs[j] \in {"none", "running", "failed"} /\ faults \in 0 .. MaxFaults
  BY <1>1, RunIsOpen
<1>4. UNCHANGED <<sources, sheets, records, saveJobs, answerJobs, now, lastRun, overlapped>>
  BY DEF SyncFails, MarkRunFailed
<1>5. CASE SyncFails(j)
  <2> DEFINE k == [c EXCEPT !.pc = "failing", !.doomed = {}]
  <2>1. k \in SyncRequest
    BY <1>2 DEF SyncRequest, AtWork
  <2>2. syncJobs' = [syncJobs EXCEPT ![j] = k] /\ runs' = runs
    BY <1>5 DEF SyncFails
  <2>3. k.pc = "failing" /\ k.src = c.src /\ k.url = c.url /\ k.at = c.at /\ k.got = c.got
    BY <1>2 DEF SyncRequest
  <2>4. faults' \in 0 .. MaxFaults
    BY <1>3, <1>5, SheetAssumption DEF SyncFails, Fault
  <2> HIDE DEF k, c
  <2>5. SyncKnows(j, k, records, runs[j], Connected, now, overlapped)
    BY <1>1, <1>2, <1>3, <2>3 DEF SyncKnows, AtWork
  <2>6. k.pc \in AtWork
    BY <2>3 DEF AtWork
  <2> QED
    BY <1>1, <1>3, <1>4, <2>1, <2>2, <2>3, <2>4, <2>5, <2>6, GoesOn DEF c
<1>6. CASE MarkRunFailed(j)
  <2> DEFINE k == [c EXCEPT !.pc = "failed"]
  <2>1. k \in SyncRequest
    BY <1>2 DEF SyncRequest, AtWork
  <2>2. syncJobs' = [syncJobs EXCEPT ![j] = k] /\ runs' = [runs EXCEPT ![j] = "failed"] /\ faults' = faults
    BY <1>6 DEF MarkRunFailed, FailedStatus
  <2>3. k.pc = "failed" /\ k.src = c.src /\ k.url = c.url /\ k.at = c.at /\ k.got = c.got
    BY <1>2 DEF SyncRequest
  <2> HIDE DEF k, c
  <2>4. SyncKnows(j, k, records, "failed", Connected, now, overlapped)
    BY <1>1, <1>2, <2>3 DEF SyncKnows, AtWork
  <2>5. k.pc \in AtWork
    BY <2>3 DEF AtWork
  <2> QED
    BY <1>1, <1>3, <1>4, <2>1, <2>2, <2>3, <2>4, <2>5, GoesOn DEF c
<1> QED
  BY <1>5, <1>6

\* The marking fails too: the run may stay as it is, which is why its source counts as disturbed.
LEMMA MarkingFailsKeeps ==
    ASSUME SheetInv, NEW j \in Syncs, MarkingFails(j)
    PROVE  SheetInv'
PROOF
<1> DEFINE c == syncJobs[j]
           k == [IdleSync EXCEPT !.pc = "done", !.src = c.src]
<1>1. /\ c.pc \in AtWork /\ overlapped' = overlapped \cup {c.src} /\ syncJobs' = [syncJobs EXCEPT ![j] = k]
      /\ UNCHANGED <<sources, sheets, runs, records, saveJobs, answerJobs, now, lastRun>>
  BY DEF MarkingFails, AtWork
<1>2. faults' \in 0 .. MaxFaults
  BY SheetAssumption DEF MarkingFails, Fault, SheetInv, SheetTypes
<1>3. runs[j] \in {"none", "running", "failed"} /\ c.pc # "done"
  BY <1>1, RunIsOpen DEF AtWork
<1>4. c.src \in Connected /\ c.src \in Sources
  BY <1>1, SyncHas DEF SyncKnows, Connected, AtWork
<1>5. k.pc = "done" /\ k.src = c.src /\ k.pc \notin AtWork
  BY DEF IdleSync, AtWork
<1>6. k \in SyncRequest
  BY <1>4, DoneIs
<1>7. overlapped' \in SUBSET Sources /\ overlapped \subseteq overlapped'
  BY <1>1, <1>4 DEF SheetInv, SheetTypes
<1> HIDE DEF k
<1>8. SyncKnows(j, k, records, runs[j], Connected, now, overlapped')
  BY <1>1, <1>3, <1>4, <1>5 DEF SyncKnows
<1> QED
  BY <1>1, <1>2, <1>3, <1>5, <1>6, <1>7, <1>8, SyncStepKeeps

\* A run settles: source d gets the row of it, and with a success its rows.
LEMMA SettleKeeps ==
    ASSUME SheetInv, NEW j \in Syncs, syncJobs[j].pc \in AtWork, NEW d, d = syncJobs[j].src,
           NEW row \in SourceRow, sources' = [sources EXCEPT ![d] = row],
           NEW rows \in SUBSET CachedRow, records' = [records EXCEPT ![d] = rows],
           NEW s \in {"succeeded", "failed"}, runs' = [runs EXCEPT ![j] = s] \/ (runs' = runs /\ s = runs[j]),
           row.lastSyncStatus = s, lastRun' = [lastRun EXCEPT ![d] = j],
           syncJobs' = [syncJobs EXCEPT ![j] = [IdleSync EXCEPT !.pc = "done", !.src = d]],
           row.lastSuccess \in {sources[d].lastSuccess, now},
           \A r \in rows : runs'[r.by] = "succeeded",
           d \notin overlapped => /\ \A r, t \in rows : r.by = t.by
                                  /\ \A r \in rows : row.lastSuccess # NeverSynced /\ row.lastSuccess <= r.asOf + 1,
           UNCHANGED <<sheets, saveJobs, answerJobs, now, faults, overlapped>>
    PROVE  SheetInv'
PROOF
<1> DEFINE k == [IdleSync EXCEPT !.pc = "done", !.src = d]
<1>1. d \in Connected /\ d \in Sources /\ sources[d] \in SourceRow
  BY SyncHas DEF SyncKnows, Connected, AtWork, SheetInv, SheetTypes
<1>2. k.pc = "done" /\ k.src = d /\ k.pc \notin AtWork
  BY DEF IdleSync, AtWork
<1>3. k \in SyncRequest
  BY <1>1, DoneIs
<1> HIDE DEF k
<1>4. /\ runs' \in [Syncs -> {"none", "running", "succeeded", "failed"}] /\ syncJobs' \in [Syncs -> SyncRequest]
      /\ runs'[j] = s /\ syncJobs'[j] = k
      /\ \A i \in Syncs \ {j} : runs'[i] = runs[i] /\ syncJobs'[i] = syncJobs[i]
  BY <1>3 DEF SheetInv, SheetTypes, k
<1>5. /\ sources' \in [Sources -> SourceRow \cup {None}] /\ records' \in [Sources -> SUBSET CachedRow]
      /\ lastRun' \in [Sources -> Syncs \cup {None}]
      /\ sources'[d] = row /\ records'[d] = rows /\ lastRun'[d] = j
      /\ \A e \in Sources \ {d} : sources'[e] = sources[e] /\ records'[e] = records[e] /\ lastRun'[e] = lastRun[e]
  BY <1>1 DEF SheetInv, SheetTypes
<1>6. SheetTypes'
  BY <1>4, <1>5 DEF SheetInv, SheetTypes
<1>7. Connected' = Connected /\ row # None
  BY <1>1, <1>5, NoneAssumption DEF Connected
<1>8. SavesKnow'
  BY <1>7 DEF SheetInv, SavesKnow
<1>9. ASSUME NEW i \in Syncs
      PROVE SyncKnows(i, syncJobs'[i], records', runs'[i], Connected, now, overlapped)
  <2>1. CASE i = j
    BY <1>1, <1>2, <1>4, <2>1 DEF SyncKnows
  <2>2. CASE i # j
    <3>1. /\ SyncKnows(i, syncJobs[i], records, runs[i], Connected, now, overlapped)
          /\ Working(i) = (syncJobs[i].pc \in AtWork) /\ Working(j)
      BY SyncHas
    <3>2. syncJobs[i].pc \in AtWork /\ syncJobs[i].src \in Sources \ overlapped => syncJobs[i].src # d
      BY <2>2, <3>1 DEF SheetInv, SyncsApart
    <3>3. syncJobs[i].pc \in AtWork /\ syncJobs[i].src \in Sources \ overlapped
            => records'[syncJobs[i].src] = records[syncJobs[i].src]
      BY <1>5, <3>2
    <3>4. syncJobs'[i] = syncJobs[i] /\ runs'[i] = runs[i]
      BY <1>4, <2>2
    <3>5. SyncKnows(i, syncJobs[i], records', runs[i], Connected, now, overlapped)
      BY <3>1, <3>3 DEF SyncKnows, AtWork
    <3> QED
      BY <3>4, <3>5
  <2> QED
    BY <2>1, <2>2
<1>10. SyncsApart'
  BY <1>2, <1>4 DEF SheetInv, SyncsApart, Working
<1>11. ASSUME NEW e \in Sources
       PROVE SourceKnows(e, sources'[e], records'[e], lastRun'[e], runs', syncJobs', overlapped)
  <2>1. CASE e = d
    BY <1>2, <1>4, <1>5, <1>7, <2>1 DEF SourceKnows
  <2>2. CASE e # d
    BY SyncHas, <1>4, <1>5, <2>2 DEF SheetInv, AtWork, SheetTypes, CachedRow, SourceKnows
  <2> QED
    BY <2>1, <2>2
<1>12. AnswersKnow'
  <2>1. now \in Nat /\ MaxTime \in Nat /\ now \in 0 .. MaxTime /\ Freshness \in [Kinds -> Nat]
    BY SheetAssumption DEF SheetInv, SheetTypes, Kinds
  <2>2. now # NeverSynced /\ now - now = 0
    BY <2>1 DEF NeverSynced
  <2>3. ASSUME NEW i \in Answers, answerJobs[i].pc = "read"
        PROVE  IsFresh(answerJobs[i].src, answerJobs[i].query.kind)'
    <3> DEFINE e == answerJobs[i].src
               kind == answerJobs[i].query.kind
    <3>1. e \in Connected /\ e \in Sources /\ kind \in Kinds /\ IsFresh(e, kind)
      BY <2>3, SheetAssumption DEF SheetInv, AnswersKnow, Kinds, Connected
    <3>2. sources'[e].lastSuccess \in {sources[e].lastSuccess, now}
      BY <1>5, <3>1
    <3>3. Freshness[kind] \in Nat
      BY <2>1, <3>1
    <3> HIDE DEF e, kind
    <3>4. sources'[e].lastSuccess # NeverSynced /\ now - sources'[e].lastSuccess <= Freshness[kind]
      BY <2>1, <2>2, <3>1, <3>2, <3>3 DEF IsFresh
    <3> QED
      BY <3>4 DEF IsFresh, e, kind, NeverSynced
  <2> QED
    BY <1>7, <2>3 DEF SheetInv, AnswersKnow
<1> QED
  BY <1>6, <1>7, <1>8, <1>9, <1>10, <1>11, <1>12 DEF SheetInv

\* The transaction commits: the cache is what this sync fetched, and the source says so.
LEMMA CommitReplaceKeeps ==
    ASSUME SheetInv, NEW j \in Syncs, CommitReplace(j)
    PROVE  SheetInv'
PROOF
<1> DEFINE c == syncJobs[j]
           d == c.src
           row == [sources[d] EXCEPT !.lastSyncStatus = "succeeded", !.lastSuccess = now]
           rows == (records[d] \ c.doomed) \cup c.got
<1>1. /\ c.pc = "inserted" /\ c.pc \in AtWork
      /\ records' = [records EXCEPT ![d] = rows] /\ runs' = [runs EXCEPT ![j] = "succeeded"]
      /\ sources' = [sources EXCEPT ![d].lastSyncStatus = "succeeded", ![d].lastSuccess = now]
      /\ lastRun' = [lastRun EXCEPT ![d] = j]
      /\ syncJobs' = [syncJobs EXCEPT ![j] = [IdleSync EXCEPT !.pc = "done", !.src = d]]
      /\ UNCHANGED <<sheets, saveJobs, answerJobs, now, faults, overlapped>>
  BY DEF CommitReplace, SourceSucceeded, AtWork
<1>2. /\ c.got \in SUBSET CachedRow /\ SyncKnows(j, c, records, runs[j], Connected, now, overlapped)
      /\ c.at \in Nat /\ now \in Nat /\ MaxTime \in Nat /\ now \in 0 .. MaxTime
      /\ \A r \in c.got : r.asOf \in Nat
  BY SyncHas DEF SheetInv, SheetTypes
<1>3. d \in Connected /\ d \in Sources /\ sources[d] \in SourceRow
  BY <1>1, <1>2 DEF SyncKnows, Connected, SheetInv, SheetTypes
<1>4. now \in 0 .. MaxTime + 1 /\ now # NeverSynced
  BY <1>2 DEF NeverSynced
<1>5. row \in SourceRow /\ row.lastSyncStatus = "succeeded" /\ row.lastSuccess = now
  BY <1>3, <1>4 DEF SourceRow
<1>6. sources' = [sources EXCEPT ![d] = row]
  BY <1>1, <1>3 DEF SheetInv, SheetTypes
<1>7. rows \in SUBSET CachedRow
  BY <1>2, <1>3 DEF SheetInv, SheetTypes
<1>8. \A r \in c.got : r.by = j /\ now <= c.at + 1 /\ c.at <= r.asOf
  BY <1>1, <1>2 DEF SyncKnows
<1>9. \A r \in c.got : now <= r.asOf + 1
  <2> SUFFICES ASSUME NEW r \in c.got PROVE now <= r.asOf + 1
    OBVIOUS
  <2>1. c.at \in Nat /\ now \in Nat /\ r.asOf \in Nat /\ now <= c.at + 1 /\ c.at <= r.asOf
    BY <1>2, <1>8
  <2> QED
    BY ONLY <2>1
<1>10. runs'[j] = "succeeded" /\ \A i \in Syncs \ {j} : runs'[i] = runs[i]
  BY <1>1 DEF SheetInv, SheetTypes
<1>11. \A r \in records[d] : r.by \in Syncs /\ runs[r.by] = "succeeded"
  BY <1>3 DEF SheetInv, SheetTypes, SourceKnows, CachedRow
<1>12. \A r \in rows : runs'[r.by] = "succeeded"
  BY <1>8, <1>10, <1>11
<1>13. ASSUME d \notin overlapped PROVE rows = c.got
  BY <1>1, <1>2, <1>3, <1>13 DEF SyncKnows
<1>14. d \notin overlapped => /\ \A r, t \in rows : r.by = t.by
                              /\ \A r \in rows : row.lastSuccess # NeverSynced /\ row.lastSuccess <= r.asOf + 1
  BY <1>4, <1>5, <1>8, <1>9, <1>13
<1>15. \E s \in {"succeeded", "failed"} : s = "succeeded" /\ runs' = [runs EXCEPT ![j] = s] /\ row.lastSyncStatus = s
  BY <1>1, <1>5
<1>16. row.lastSuccess \in {sources[d].lastSuccess, now}
  BY <1>5
<1> HIDE DEF row, rows
<1> QED
  BY <1>1, <1>5, <1>6, <1>7, <1>12, <1>14, <1>15, <1>16, SettleKeeps DEF c

\* The source is marked after the run: its cache and the time of its last success stay.
LEMMA MarkSourceKeeps ==
    ASSUME SheetInv, NEW j \in Syncs, MarkSourceFailed(j)
    PROVE  SheetInv'
PROOF
<1> DEFINE c == syncJobs[j]
           d == c.src
           row == [sources[d] EXCEPT !.lastSyncStatus = "failed"]
           rows == records[d]
<1>1. /\ c.pc = "failed" /\ c.pc \in AtWork
      /\ sources' = [sources EXCEPT ![d].lastSyncStatus = "failed"]
      /\ lastRun' = [lastRun EXCEPT ![d] = j]
      /\ syncJobs' = [syncJobs EXCEPT ![j] = [IdleSync EXCEPT !.pc = "done", !.src = d]]
      /\ UNCHANGED <<sheets, runs, records, saveJobs, answerJobs, now, faults, overlapped>>
  BY DEF MarkSourceFailed, SourceFailed, AtWork
<1>2. SyncKnows(j, c, records, runs[j], Connected, now, overlapped)
  BY SyncHas
<1>3. d \in Connected /\ d \in Sources /\ sources[d] \in SourceRow /\ runs[j] = "failed"
  BY <1>1, <1>2 DEF SyncKnows, Connected, SheetInv, SheetTypes
<1>4. row \in SourceRow /\ row.lastSyncStatus = "failed" /\ row.lastSuccess = sources[d].lastSuccess
  BY <1>3 DEF SourceRow
<1>5. sources' = [sources EXCEPT ![d] = row]
  BY <1>1, <1>3 DEF SheetInv, SheetTypes
<1>6. rows \in SUBSET CachedRow /\ records' = [records EXCEPT ![d] = rows]
  BY <1>1, <1>3 DEF SheetInv, SheetTypes
<1>7. SourceKnows(d, sources[d], rows, lastRun[d], runs, syncJobs, overlapped)
  BY <1>3 DEF SheetInv
<1>8. \A r \in rows : runs'[r.by] = "succeeded"
  BY <1>1, <1>7 DEF SourceKnows
<1>9. d \notin overlapped => /\ \A r, t \in rows : r.by = t.by
                             /\ \A r \in rows : row.lastSuccess # NeverSynced /\ row.lastSuccess <= r.asOf + 1
  BY <1>4, <1>7 DEF SourceKnows
<1>10. /\ "failed" \in {"succeeded", "failed"} /\ row.lastSyncStatus = "failed"
       /\ runs' = [runs EXCEPT ![j] = "failed"] \/ (runs' = runs /\ "failed" = runs[j])
  BY <1>1, <1>3, <1>4
<1>11. row.lastSuccess \in {sources[d].lastSuccess, now}
  BY <1>4
<1> HIDE DEF row, rows
<1> QED
  BY <1>1, <1>4, <1>5, <1>6, <1>8, <1>9, <1>10, <1>11, SettleKeeps DEF c

\* Replies alone go on: this one read what it says in time.
LEMMA AnswerKeeps ==
    ASSUME SheetInv, NEW j \in Answers, NEW k \in AnswerRequest, answerJobs' = [answerJobs EXCEPT ![j] = k],
           k.late = FALSE, k.pc = "read" => k.src \in Connected /\ k.query \in Queries /\ IsFresh(k.src, k.query.kind),
           UNCHANGED <<sources, sheets, runs, records, saveJobs, syncJobs, now, faults, lastRun, overlapped>>
    PROVE  SheetInv'
PROOF
  BY DEF SheetInv, SheetTypes, Connected, IsFresh, AnswersKnow, SavesKnow, SyncsApart, Working

\* A reply that finds the cache fresh reads on; one that does not says nothing of it.
LEMMA ReadForAnswerKeeps ==
    ASSUME SheetInv, NEW j \in Answers, NEW q \in Queries, ReadForAnswer(j, q)
    PROVE  SheetInv'
PROOF
<1>1. /\ Connected # {}
      /\ UNCHANGED <<sources, sheets, runs, records, saveJobs, syncJobs, now, faults, lastRun, overlapped>>
  BY DEF ReadForAnswer
<1>2. Oldest \in Connected
  BY <1>1, OldestIsConnected
<1>3. \E k \in AnswerRequest :
        /\ answerJobs' = [answerJobs EXCEPT ![j] = k] /\ k.late = FALSE
        /\ k.pc = "read" => k.src \in Connected /\ k.query \in Queries /\ IsFresh(k.src, k.query.kind)
  <2>1. CASE IsFresh(Oldest, q.kind)
    <3> DEFINE k == [IdleAnswer EXCEPT !.pc = "read", !.query = q, !.src = Oldest]
    <3>1. k \in AnswerRequest /\ k.late = FALSE /\ k.src = Oldest /\ k.query = q
      BY <1>2 DEF IdleAnswer, AnswerRequest, Connected
    <3> QED
      BY <1>2, <2>1, <3>1 DEF ReadForAnswer
  <2>2. CASE ~IsFresh(Oldest, q.kind)
    <3> DEFINE k == [IdleAnswer EXCEPT !.late = FALSE]
    <3>1. k \in AnswerRequest /\ k.late = FALSE /\ k.pc = "idle"
      BY DEF IdleAnswer, AnswerRequest
    <3>2. answerJobs' = [answerJobs EXCEPT ![j] = k]
      BY <2>2 DEF ReadForAnswer, Say
    <3> QED
      BY <3>1, <3>2
  <2> QED
    BY <2>1, <2>2
<1> QED
  BY <1>1, <1>3, AnswerKeeps

\* What a reply quotes was in the cache while it was fresh, and in the cache for a minute at most before.
LEMMA QuotedIsFresh ==
    ASSUME SheetInv, NEW j \in Answers, answerJobs[j].pc = "read", answerJobs[j].src \notin overlapped,
           NEW r \in records[answerJobs[j].src], r.row.kind = answerJobs[j].query.kind
    PROVE  ~(now - r.asOf > Freshness[r.row.kind] + 1)
PROOF
<1> DEFINE d == answerJobs[j].src
           kind == answerJobs[j].query.kind
           last == sources[d].lastSuccess
           limit == Freshness[kind]
<1>1. d \in Connected /\ d \in Sources /\ kind \in Kinds /\ IsFresh(d, kind)
  BY SheetAssumption DEF SheetInv, AnswersKnow, Kinds, Connected
<1>2. SourceKnows(d, sources[d], records[d], lastRun[d], runs, syncJobs, overlapped)
  BY <1>1 DEF SheetInv
<1>3. sources[d] \in SourceRow /\ MaxTime \in Nat /\ now \in 0 .. MaxTime /\ Freshness \in [Kinds -> Nat]
  BY <1>1, SheetAssumption DEF Connected, SheetInv, SheetTypes, Kinds
<1>4. last \in 0 .. MaxTime + 1 /\ last <= r.asOf + 1
  BY <1>2, <1>3 DEF SourceKnows, SourceRow
<1>5. r \in CachedRow
  BY <1>1 DEF SheetInv, SheetTypes
<1>6. r.asOf \in 0 .. MaxTime
  BY <1>5 DEF CachedRow
<1>7. now - last <= limit /\ limit \in Nat
  BY <1>1, <1>3 DEF IsFresh
<1> HIDE DEF last, limit
<1>8. ~(now - r.asOf > limit + 1)
  <2>1. now \in Nat /\ last \in Nat /\ r.asOf \in Nat /\ limit \in Nat /\ last <= r.asOf + 1 /\ now - last <= limit
    BY <1>3, <1>4, <1>6, <1>7
  <2> QED
    BY ONLY <2>1
<1> QED
  BY <1>8 DEF limit

\* A reply is made of rows that are fresh enough.
LEMMA LookUpKeeps ==
    ASSUME SheetInv, NEW j \in Answers, LookUp(j)
    PROVE  SheetInv'
PROOF
<1> DEFINE d == answerJobs[j].src
           matches == {r \in records[d] : r.row.kind = answerJobs[j].query.kind /\ r.row.key \in answerJobs[j].query.keys}
<1>1. /\ answerJobs[j].pc = "read"
      /\ UNCHANGED <<sources, sheets, runs, records, saveJobs, syncJobs, now, faults, lastRun, overlapped>>
  BY DEF LookUp
<1>2. \E quoted \in SUBSET matches : Say(j, quoted)
  BY DEF LookUp
<1>3. PICK quoted \in SUBSET matches : Say(j, quoted)
  BY <1>2
<1>4. ~(d \notin overlapped /\ \E r \in quoted : now - r.asOf > Freshness[r.row.kind] + 1)
  BY <1>1, <1>3, QuotedIsFresh
<1> DEFINE k == [IdleAnswer EXCEPT !.late = FALSE]
<1>5. k \in AnswerRequest /\ k.late = FALSE /\ k.pc = "idle"
  BY DEF IdleAnswer, AnswerRequest
<1>6. answerJobs' = [answerJobs EXCEPT ![j] = k]
  BY <1>3, <1>4 DEF Say
<1> HIDE DEF k
<1> QED
  BY <1>1, <1>5, <1>6, AnswerKeeps

\* Every step of the connected sheet keeps what is known of it.
LEMMA SheetKeeps == SheetInv /\ [SheetNext]_sheetVars => SheetInv'
PROOF
<1>1. ASSUME SheetInv, UNCHANGED sheetVars PROVE SheetInv'
  BY <1>1 DEF SheetInv, SheetTypes, SavesKnow, SyncsApart, AnswersKnow, IsFresh, Working, Connected, sheetVars
<1> QED
  BY <1>1, TickKeeps, EditSheetKeeps, FindForSaveKeeps, WriteSourceKeeps, StartSyncKeeps, FetchKeeps, ReplaceKeeps,
     FailureKeeps, MarkingFailsKeeps, CommitReplaceKeeps, MarkSourceKeeps, ReadForAnswerKeeps, LookUpKeeps
  DEF SheetNext

-----------------------------------------------------------------------------
(* The marks of senders: the list on the screen and the service's.           *)

MarksOf(t, marks) == {s \in marks : TenantOf[s] = t}
ListRequest == {Still} \cup [pc : {"asked"}, of : Tenants] \cup [pc : {"served"}, of : Tenants, got : SUBSET Senders]
MarkChange == {Still} \cup [pc : {"sent", "stored"}, to : {"mark", "unmark"}, who : Senders]

\* A list is the service's, once the change under way is worked into it.
Agrees(list, t, marks, job) ==
    IF job.pc = "stored" /\ TenantOf[job.who] = t THEN Worked(list, job) = MarksOf(t, marks) ELSE list = MarksOf(t, marks)

MarksTypes ==
    /\ marked \in SUBSET Senders
    /\ lists \in [Tenants -> {NoSender} \cup SUBSET Senders]
    /\ looking \in Senders \cup {NoSender}
    /\ listReq \in ListRequest
    /\ markJob \in MarkChange
    /\ own \in SUBSET Senders
    /\ marksBlurred \in SUBSET Tenants
    /\ markChanges \in 0 .. MaxMarkChanges

\* Lists are asked for where there is none, and a mark is taken back where there is one.
AskedOnce == /\ listReq.pc # "still" => lists[listReq.of] = NoSender
             /\ markJob.pc # "still" /\ markJob.to = "unmark" => lists[TenantOf[markJob.who]] # NoSender

\* A list holds senders of its client only.
ListsApart == /\ \A t \in Tenants : lists[t] # NoSender => \A s \in lists[t] : TenantOf[s] = t
              /\ listReq.pc = "served" => \A s \in listReq.got : TenantOf[s] = listReq.of

ListsAgree ==
    /\ \A t \in Tenants \ marksBlurred : lists[t] # NoSender => Agrees(lists[t], t, marked, markJob)
    /\ listReq.pc = "served" /\ listReq.of \notin marksBlurred => Agrees(listReq.got, listReq.of, marked, markJob)
    /\ markJob.pc = "stored" /\ TenantOf[markJob.who] \notin marksBlurred
          => (markJob.to = "mark") = (markJob.who \in marked)

MarksInv == MarksTypes /\ AskedOnce /\ ListsApart /\ ListsAgree /\ OwnMarkIsOffered

LEMMA MarksStart == MarksInit => MarksInv
PROOF
<1> SUFFICES ASSUME MarksInit PROVE MarksInv
  OBVIOUS
<1>1. MarksTypes
  BY MarkAssumption DEF MarksInit, MarksTypes, ListRequest, MarkChange
<1>2. AskedOnce /\ ListsApart /\ ListsAgree /\ OwnMarkIsOffered
  BY DEF MarksInit, AskedOnce, ListsApart, ListsAgree, OwnMarkIsOffered, Still
<1> QED
  BY <1>1, <1>2 DEF MarksInv

LEMMA MarksHold == MarksInv => MarksTypeOK /\ OwnMarkIsOffered /\ ListIsService
PROOF
<1> SUFFICES ASSUME MarksInv PROVE MarksTypeOK /\ ListIsService
  BY DEF MarksInv
<1> USE DEF MarksInv
<1>1. MarksTypeOK
  <2>1. \A t \in Tenants : lists[t] = NoSender \/ lists[t] \subseteq {s \in Senders : TenantOf[s] = t}
    BY DEF MarksTypes, ListsApart
  <2>2. listReq = Still \/ listReq \in [pc : {"asked"}, of : Tenants]
          \/ listReq \in [pc : {"served"}, of : Tenants, got : SUBSET Senders]
    BY DEF MarksTypes, ListRequest
  <2>3. markJob = Still \/ markJob \in [pc : {"sent", "stored"}, to : {"mark", "unmark"}, who : Senders]
    BY DEF MarksTypes, MarkChange
  <2> QED
    BY <2>1, <2>2, <2>3 DEF MarksTypes, MarksTypeOK
<1>2. ListIsService
  BY DEF ListsAgree, Agrees, MarksOf, ListIsService
<1> QED
  BY <1>1, <1>2

LEMMA EffectAsks ==
    ASSUME MarksInv, Effect, looking' \in Senders \cup {NoSender}
    PROVE  listReq' \in ListRequest /\ listReq'.pc \in {"still", "asked"} /\ (listReq'.pc # "still" => lists'[listReq'.of] = NoSender)
PROOF
  BY DEF Effect, ListRequest, Still, Tenants

LEMMA MarksKeep == MarksInv /\ [MarksNext]_markVars => MarksInv'
PROOF
<1> SUFFICES ASSUME MarksInv, [MarksNext]_markVars PROVE MarksInv'
  OBVIOUS
<1> USE DEF MarksInv
<1>1. ASSUME NEW s \in Senders, LookAt(s) PROVE MarksInv'
  BY <1>1, EffectAsks DEF LookAt, MarksTypes, AskedOnce, ListsApart, ListsAgree, OwnMarkIsOffered, Has, Agrees,
     MarksOf, Worked
<1>2. CASE ListServed
  <2>1. listReq \in [pc : {"asked"}, of : Tenants]
    BY <1>2 DEF ListServed, MarksTypes, ListRequest, Still
  <2>2. listReq' \in ListRequest /\ listReq'.pc = "served" /\ listReq'.of = listReq.of /\ listReq'.got = MarksOf(listReq.of, marked)
    BY <1>2, <2>1 DEF ListServed, MarksTypes, ListRequest, MarksOf
  <2>3. \A t \in Tenants \ marksBlurred : Agrees(MarksOf(t, marked), t, marked, markJob)
    BY <2>1 DEF Agrees, MarksOf, ListsAgree, Worked, MarksTypes, MarkChange
  <2>4. UNCHANGED <<marked, markChanges, lists, looking, markJob, own, marksBlurred>>
    BY <1>2 DEF ListServed
  <2>5. ListsAgree'
    BY <2>1, <2>2, <2>3, <2>4 DEF ListsAgree, Agrees, MarksOf, Worked
  <2> QED
    BY <2>1, <2>2, <2>4, <2>5 DEF MarksTypes, AskedOnce, ListsApart, OwnMarkIsOffered, Has, MarksOf
<1>3. CASE ListShown
  <2>1. listReq \in [pc : {"served"}, of : Tenants, got : SUBSET Senders]
    BY <1>3 DEF ListShown, MarksTypes, ListRequest, Still
  <2>2. listReq' = Still /\ lists' = [lists EXCEPT ![listReq.of] = listReq.got]
        /\ UNCHANGED <<looking, marked, markChanges, markJob, own, marksBlurred>>
    BY <1>3 DEF ListShown
  <2>3. MarksTypes'
    BY <2>1, <2>2 DEF MarksTypes, ListRequest
  <2>4. AskedOnce'
    BY <2>1, <2>2, NoListAssumption DEF AskedOnce, MarksTypes, MarkChange, Tenants, Still
  <2>5. ListsApart'
    BY <2>1, <2>2 DEF ListsApart, MarksTypes, Still
  <2>6. ListsAgree'
    BY <2>1, <2>2 DEF ListsAgree, MarksTypes, Still, Agrees, MarksOf, Worked
  <2>7. OwnMarkIsOffered'
    BY <2>1, <2>2 DEF AskedOnce, OwnMarkIsOffered, Has, MarksTypes, Tenants
  <2> QED
    BY <2>3, <2>4, <2>5, <2>6, <2>7
<1>4. CASE ListLost
  <2>1. listReq \in [pc : {"asked"}, of : Tenants]
    BY <1>4 DEF ListLost, MarksTypes, ListRequest, Still
  <2>2. listReq' = Still /\ lists' = [lists EXCEPT ![listReq.of] = {}]
        /\ UNCHANGED <<looking, marked, markChanges, markJob, own>> /\ marksBlurred' = marksBlurred \cup {listReq.of}
    BY <1>4 DEF ListLost
  <2>3. MarksTypes'
    BY <2>1, <2>2 DEF MarksTypes, ListRequest
  <2>4. AskedOnce'
    BY <2>1, <2>2, NoListAssumption DEF AskedOnce, MarksTypes, MarkChange, Tenants, Still
  <2>5. ListsApart'
    BY <2>1, <2>2 DEF ListsApart, MarksTypes, Still
  <2>6. ListsAgree'
    BY <2>1, <2>2 DEF ListsAgree, MarksTypes, Still, Agrees, MarksOf, Worked
  <2>7. OwnMarkIsOffered'
    BY <2>1, <2>2 DEF AskedOnce, OwnMarkIsOffered, Has, MarksTypes, Tenants
  <2> QED
    BY <2>3, <2>4, <2>5, <2>6, <2>7
<1>5. CASE PressMark
  <2>1. markJob' \in MarkChange /\ markJob'.pc = "sent" /\ markJob'.to = "mark" /\ markJob.pc = "still"
        /\ UNCHANGED <<marked, markChanges, lists, looking, listReq, own, marksBlurred>>
    BY <1>5 DEF PressMark, MarksTypes, MarkChange, Still
  <2> QED
    BY <2>1 DEF MarksTypes, AskedOnce, ListsApart, ListsAgree, OwnMarkIsOffered, Has, Agrees, MarksOf, Worked
<1>6. CASE PressUnmark
  <2>1. markJob' \in MarkChange /\ markJob'.pc = "sent" /\ markJob.pc = "still" /\ lists[TenantOf[markJob'.who]] # NoSender
        /\ UNCHANGED <<marked, markChanges, lists, looking, listReq, own, marksBlurred>>
    BY <1>6 DEF PressUnmark, MarksTypes, MarkChange, Still, Has
  <2> QED
    BY <2>1 DEF MarksTypes, AskedOnce, ListsApart, ListsAgree, OwnMarkIsOffered, Has, Agrees, MarksOf, Worked
<1>7. CASE MarkServed
  <2> DEFINE w == markJob.who
  <2>1. markJob \in [pc : {"sent", "stored"}, to : {"mark", "unmark"}, who : Senders] /\ markJob.pc = "sent"
    BY <1>7 DEF MarkServed, MarksTypes, MarkChange, Still
  <2>2. /\ markJob' \in [pc : {"sent", "stored"}, to : {"mark", "unmark"}, who : Senders]
        /\ markJob'.pc = "stored" /\ markJob'.to = markJob.to /\ markJob'.who = w
    BY <1>7, <2>1 DEF MarkServed
  <2>3. \/ markJob.to = "mark" /\ w \notin marked /\ marked' = marked \cup {w}
        \/ markJob.to = "unmark" /\ w \in marked /\ marked' = marked \ {w}
    BY <1>7 DEF MarkServed, Marking, Unmarking
  <2>4. markChanges' \in 0 .. MaxMarkChanges /\ UNCHANGED <<lists, looking, listReq, own, marksBlurred>>
    BY <1>7, MarkAssumption DEF MarkServed, Counted, MarksTypes
  <2>5. ASSUME NEW list, NEW t, Agrees(list, t, marked, markJob) PROVE Agrees(list, t, marked', markJob')
    BY <2>1, <2>2, <2>3, <2>5 DEF Agrees, Worked, MarksOf
  <2>6. ListsAgree'
    BY <2>1, <2>2, <2>3, <2>4, <2>5 DEF ListsAgree
  <2> QED
    BY <2>1, <2>2, <2>3, <2>4, <2>6 DEF MarksTypes, MarkChange, AskedOnce, ListsApart, OwnMarkIsOffered, Has
<1>8. CASE MarkRefused
  <2>1. markJob' = Still /\ markJob.pc = "sent" /\ UNCHANGED <<marked, markChanges, lists, looking, listReq, own, marksBlurred>>
    BY <1>8 DEF MarkRefused
  <2> QED
    BY <2>1 DEF MarksTypes, MarkChange, AskedOnce, ListsApart, ListsAgree, OwnMarkIsOffered, Has, Agrees, MarksOf, Worked, Still
<1>9. CASE MarkShown
  <2> DEFINE w == markJob.who
             t == TenantOf[w]
             old == IF lists[t] = NoSender THEN {} ELSE lists[t]
             new == Worked(old, markJob)
  <2>1. markJob \in [pc : {"sent", "stored"}, to : {"mark", "unmark"}, who : Senders] /\ markJob.pc = "stored"
        /\ t \in Tenants
    BY <1>9 DEF MarkShown, MarksTypes, MarkChange, Still, Tenants
  <2>2. /\ lists' = [lists EXCEPT ![t] = new] /\ markJob' = Still
        /\ UNCHANGED <<marked, markChanges, looking>>
    BY <1>9 DEF MarkShown
  <2>3. listReq' \in ListRequest /\ listReq'.pc \in {"still", "asked"} /\ (listReq'.pc # "still" => lists'[listReq'.of] = NoSender)
    BY <1>9, <2>2, EffectAsks DEF MarkShown, MarksTypes
  <2>4. new \in SUBSET Senders /\ (\A s \in new : TenantOf[s] = t) /\ (markJob.to = "mark" => w \in new)
    BY <2>1 DEF MarksTypes, ListsApart, Worked
  <2>5. \/ markJob.to = "mark" /\ own' = own \cup {w}
        \/ markJob.to = "unmark" /\ own' = own \ {w}
    BY <1>9, <2>1 DEF MarkShown
  <2>6. marksBlurred' \in SUBSET Tenants /\ marksBlurred \subseteq marksBlurred'
    BY <1>9, <2>1 DEF MarkShown, MarksTypes
  <2>7. t \notin marksBlurred' => new = MarksOf(t, marked)
    <3>1. CASE lists[t] # NoSender
      BY <2>1, <2>6, <3>1 DEF ListsAgree, Agrees
    <3>2. CASE lists[t] = NoSender
      BY <2>1, <3>2, <1>9 DEF AskedOnce, Worked, MarkShown, MarksOf, MarksTypes
    <3> QED
      BY <3>1, <3>2
  <2> HIDE DEF w, t, new
  <2>8. MarksTypes'
    BY <2>1, <2>2, <2>3, <2>4, <2>5, <2>6 DEF MarksTypes, MarkChange, w
  <2>9. AskedOnce'
    BY <2>2, <2>3 DEF AskedOnce, Still
  <2>10. ListsApart'
    BY <2>1, <2>2, <2>3, <2>4 DEF ListsApart, MarksTypes
  <2>11. ListsAgree'
    BY <2>1, <2>2, <2>3, <2>6, <2>7 DEF ListsAgree, MarksTypes, Still, Agrees, t, w
  <2>12. OwnMarkIsOffered'
    <3> SUFFICES ASSUME NEW s \in own' PROVE Has(s)'
      BY DEF OwnMarkIsOffered
    <3>1. CASE TenantOf[s] = t
      BY <2>1, <2>2, <2>4, <3>1, NoListAssumption, <2>5 DEF MarksTypes, OwnMarkIsOffered, Has, new, Worked, w, t
    <3>2. CASE TenantOf[s] # t
      BY <2>5, <3>2, <2>1, <2>2 DEF t, OwnMarkIsOffered, Has, MarksTypes, Tenants
    <3> QED
      BY <3>1, <3>2
  <2> QED
    BY <2>8, <2>9, <2>10, <2>11, <2>12
<1>10. ASSUME NEW s \in Senders, ColleagueMarks(s) PROVE MarksInv'
  <2>1. /\ marked' \in SUBSET Senders /\ markChanges' \in 0 .. MaxMarkChanges
        /\ \A t \in Tenants : t # TenantOf[s] => MarksOf(t, marked') = MarksOf(t, marked)
        /\ \A x \in Senders : TenantOf[x] # TenantOf[s] => (x \in marked') = (x \in marked)
        /\ marksBlurred' = marksBlurred \cup {TenantOf[s]} /\ TenantOf[s] \in Tenants
        /\ UNCHANGED <<lists, looking, listReq, markJob, own>>
    BY <1>10, MarkAssumption DEF ColleagueMarks, Counted, Marking, Unmarking, MarksTypes, MarksOf, Tenants
  <2>2. ListsAgree'
    BY <2>1 DEF ListsAgree, Agrees, MarksTypes, MarkChange, Still, ListRequest
  <2> QED
    BY <2>1, <2>2 DEF MarksTypes, AskedOnce, ListsApart, OwnMarkIsOffered, Has
<1>11. CASE UNCHANGED markVars
  BY <1>11 DEF markVars, MarksTypes, AskedOnce, ListsApart, ListsAgree, OwnMarkIsOffered, Has, Agrees, MarksOf, Worked
<1> QED
  BY <1>1, <1>2, <1>3, <1>4, <1>5, <1>6, <1>7, <1>8, <1>9, <1>10, <1>11 DEF MarksNext

-----------------------------------------------------------------------------
(* Channels: which of them is the primary one, and the client's page.        *)

\* The oldest of some numbers is one of them.
LEMMA OldestIs ==
    ASSUME NEW set \in SUBSET Nat, set # {}
    PROVE  OldestLink(set) \in set
PROOF
<1>1. \E i \in set : \A k \in set : <<k, i>> \notin OpToRel(<, Nat)
  BY NatLessThanWellFounded, WFMin
<1>2. PICK i \in set : \A k \in set : <<k, i>> \notin OpToRel(<, Nat)
  BY <1>1
<1>3. \A k \in set : k \in Nat /\ i \in Nat /\ ~(k < i)
  BY <1>2 DEF OpToRel
<1>4. \A k \in set : i <= k
  BY <1>3
<1> QED
  BY <1>4 DEF OldestLink

LinkPc == {"idle", "clear", "store", "delete", "ensure", "promote", "sync", "settle", "seek", "attach"}
AnyLink == [kind : LinkKinds, ext : PageIds, off : BOOLEAN, primary : BOOLEAN]
LinkRequest == {LinkIdle} \cup [pc : LinkPc \ {"idle"}, id : 0 .. MaxLinks, to : AnyLink]

\* What is to be stored is a channel; a page to attach becomes the primary channel of the pages.
RequestFits(r) ==
    /\ r.pc \in {"clear", "store", "delete", "seek", "attach"} => r.to.ext \in Pages
    /\ r.pc \in {"seek", "attach"} => r.to.kind = "messenger" /\ r.to.off = FALSE /\ r.to.primary = TRUE

LinkTypes ==
    /\ pageId \in PageIds /\ links \in ChannelRows
    /\ \A i \in Held : Unused(links[i].kind, links[i].ext, i)
    /\ linkJob \in [LinkJobs -> LinkRequest]
    /\ \A j \in LinkJobs : RequestFits(linkJob[j])
    /\ edits \in 0 .. MaxEdits /\ raced \in BOOLEAN /\ loose \in BOOLEAN

\* The primary channels of a kind, those connected, and whether the page is the primary one's.
Prims(rows, kind) == {i \in Ids : rows[i].kind = kind /\ rows[i].primary = TRUE}
Connects(rows) == {i \in Prims(rows, "messenger") : rows[i].off = FALSE}
PageOf(page, rows) ==
    /\ Connects(rows) = {} => page = NoPage
    /\ \A i \in Connects(rows) : page = rows[i].ext

\* What a request that runs alone knows at each of its statements.
Knows(r, rows, page) ==
    /\ r.pc = "store" /\ r.to.primary = TRUE => Prims(rows, r.to.kind) \subseteq {r.id}
    /\ r.pc = "promote" => Prims(rows, r.to.kind) = {} /\ r.id \in Ids /\ rows[r.id].kind = r.to.kind
    /\ r.pc = "attach" => IF r.id = 0 THEN Prims(rows, "messenger") = {} ELSE r.id \in Prims(rows, "messenger")
    /\ r.pc \in {"seek", "attach"} => page = r.to.ext
    /\ r.pc = "settle" => PageOf(r.to.ext, rows)

OnePrimary(rows) == \A kind \in LinkKinds : \A i, k \in Prims(rows, kind) : i = k
RunsAlone(jobs) == \A j, k \in LinkJobs : jobs[j] # LinkIdle /\ jobs[k] # LinkIdle => j = k
Rests(jobs) == \A j \in LinkJobs : jobs[j] = LinkIdle

Undisturbed ==
    /\ RunsAlone(linkJob)
    /\ \A j \in LinkJobs : Knows(linkJob[j], links, pageId)
    /\ OnePrimary(links)
    /\ Rests(linkJob) /\ ~loose => PageOf(pageId, links)

LinksInv == LinkTypes /\ (raced \/ Undisturbed)

LEMMA HeldIs ==
    ASSUME LinkTypes
    PROVE  /\ \A i \in Ids : (i \in Held) = (links[i] \in Link)
           /\ \A i \in Ids : links[i].kind # "none" => links[i] \in Link
           /\ \A kind \in LinkKinds : Primaries(kind) = Prims(links, kind)
           /\ LinkConnected = Connects(links)
           /\ Held \subseteq Ids /\ Ids \subseteq Nat
PROOF
<1>1. \A i \in Ids : links[i] \in Link \/ links[i] = NoLink
  BY DEF LinkTypes, ChannelRows
<1>2. NoLink \notin Link /\ NoLink.kind = "none" /\ "none" \notin LinkKinds
  BY DEF NoLink, Link, LinkKinds
<1>3. \A i \in Ids : (i \in Held) = (links[i] \in Link)
  BY <1>1, <1>2 DEF Held
<1>4. \A i \in Ids : links[i] \in Link => links[i].kind \in LinkKinds /\ links[i].primary \in BOOLEAN /\ links[i].off \in BOOLEAN
  BY DEF Link
<1>5. \A kind \in LinkKinds : Primaries(kind) = Prims(links, kind)
  BY <1>1, <1>2, <1>3, <1>4 DEF Primaries, Prims, Held
<1>6. LinkConnected = Connects(links)
  BY <1>1, <1>2, <1>3, <1>4, <1>5 DEF LinkConnected, Connects, LinkKinds, Prims
<1>7. Ids \subseteq Nat /\ Held \subseteq Ids
  BY LinkAssumption DEF Ids, Held
<1> QED
  BY <1>1, <1>2, <1>3, <1>5, <1>6, <1>7

LEMMA LinksHold == LinksInv => LinksTypeOK /\ AtMostOnePrimary /\ PageFollowsPrimary /\ DisabledPagesAreSilent
PROOF
<1> SUFFICES ASSUME LinksInv PROVE LinksTypeOK /\ AtMostOnePrimary /\ PageFollowsPrimary /\ DisabledPagesAreSilent
  OBVIOUS
<1>1. LinkTypes
  BY DEF LinksInv
<1>2. LinksTypeOK
  <2>1. ASSUME NEW j \in LinkJobs
        PROVE  linkJob[j] \in [pc : LinkPc, id : 0 .. MaxLinks, to : Link \cup {NoLink} \cup AnyLink]
    <3>1. CASE linkJob[j] = LinkIdle
      BY <3>1, LinkAssumption DEF LinkIdle, LinkPc
    <3>2. CASE linkJob[j] # LinkIdle
      BY <1>1, <3>2 DEF LinkTypes, LinkRequest
    <3> QED
      BY <3>1, <3>2
  <2> QED
    BY <1>1, <2>1 DEF LinkTypes, LinksTypeOK, LinkPc, AnyLink, PageIds
<1>3. AtMostOnePrimary
  BY <1>1, HeldIs, AtMostOne DEF AtMostOnePrimary, LinksInv, Undisturbed, OnePrimary
<1>4. ASSUME LinksQuiet, ~raced, ~loose PROVE PageOf(pageId, links) /\ LinkConnected = Connects(links)
  BY <1>1, <1>4, HeldIs DEF LinksInv, Undisturbed, LinksQuiet, Rests
<1>5. LinkConnected # {} => OldestLink(LinkConnected) \in LinkConnected
  BY <1>1, HeldIs, OldestIs DEF Connects, Prims
<1>6. PageFollowsPrimary
  BY <1>4, <1>5 DEF PageFollowsPrimary, PageOf
<1>7. DisabledPagesAreSilent
  <2> SUFFICES ASSUME LinksQuiet, ~raced, ~loose, NEW page \in Pages, FindByPageId(page)
               PROVE  \E i \in Held : links[i] \in [kind : {"messenger"}, ext : {page}, off : {FALSE}, primary : BOOLEAN]
    BY DEF DisabledPagesAreSilent
  <2>1. PICK i \in Held : links[i].kind = "messenger" /\ ~links[i].off /\ links[i].ext = page
    <3>1. CASE pageId = page
      BY <1>4, LinkAssumption, <3>1, <1>1, HeldIs DEF PageOf, Connects, Prims
    <3>2. CASE pageId # page
      BY <3>2 DEF FindByPageId
    <3> QED
      BY <3>1, <3>2
  <2>2. links[i] \in Link
    BY <1>1, HeldIs
  <2> QED
    BY <2>1, <2>2 DEF Link
<1> QED
  BY <1>2, <1>3, <1>6, <1>7

LEMMA LinksStart == LinksInit => LinksInv
PROOF
<1> SUFFICES ASSUME LinksInit PROVE LinksInv
  OBVIOUS
<1>1. PICK page \in PageIds : CreateClient(page)
  BY DEF LinksInit, PageIds
<1> DEFINE first == [kind |-> "messenger", ext |-> page, off |-> FALSE, primary |-> TRUE]
<1>2. pageId = page /\ links = [i \in Ids |-> IF i = 1 /\ page # NoPage THEN first ELSE NoLink]
  BY <1>1 DEF CreateClient
<1>3. page # NoPage => first \in Link
  BY DEF PageIds, Link, LinkKinds
<1>4. links \in ChannelRows
  BY <1>2, <1>3 DEF ChannelRows
<1>5. \A i \in Held : i = 1 /\ page # NoPage
  BY <1>2 DEF Held
<1>6. \A i \in Held : Unused(links[i].kind, links[i].ext, i)
  BY <1>5 DEF Unused
<1>7. linkJob = [j \in LinkJobs |-> LinkIdle] /\ edits = 0 /\ raced = FALSE /\ loose = FALSE /\ 0 \in 0 .. MaxEdits
  BY LinkAssumption DEF LinksInit
<1>8. LinkTypes
  BY <1>2, <1>4, <1>6, <1>7 DEF LinkTypes, LinkRequest, RequestFits, LinkIdle
<1>9. 1 \in Ids
  BY LinkAssumption DEF Ids
<1>10. \A i \in Ids : links[i].kind # "none" => i = 1 /\ page # NoPage
  BY <1>2 DEF NoLink
<1>11. page # NoPage => links[1] = first
  BY <1>2, <1>9
<1>12. OnePrimary(links)
  BY <1>10 DEF OnePrimary, Prims, LinkKinds
<1>13. PageOf(pageId, links)
  BY <1>2, <1>9, <1>10, <1>11 DEF PageOf, Connects, Prims
<1> QED
  BY <1>7, <1>8, <1>12, <1>13 DEF LinksInv, Undisturbed, RunsAlone, Knows, LinkIdle

\* A request under way, with its fields.
LEMMA RequestHas ==
    ASSUME LinkTypes, NEW j \in LinkJobs, linkJob[j].pc # "idle"
    PROVE  /\ linkJob[j] \in [pc : LinkPc \ {"idle"}, id : 0 .. MaxLinks, to : AnyLink] /\ linkJob[j] # LinkIdle
           /\ RequestFits(linkJob[j])
           /\ linkJob[j].pc \in {"clear", "store", "delete", "seek", "attach"} => linkJob[j].to \in Link
PROOF
  BY DEF LinkTypes, LinkRequest, LinkIdle, RequestFits, AnyLink, Link

\* One request moves on.
LEMMA RequestMoves ==
    ASSUME LinkTypes, NEW j \in LinkJobs, NEW r \in LinkRequest, RequestFits(r),
           linkJob' = [linkJob EXCEPT ![j] = r]
    PROVE  linkJob' \in [LinkJobs -> LinkRequest] /\ \A k \in LinkJobs : RequestFits(linkJob'[k])
PROOF
  BY DEF LinkTypes

LEMMA RestingRequest == LinkIdle \in LinkRequest /\ RequestFits(LinkIdle)
                        /\ \A rows, page : Knows(LinkIdle, rows, page)
PROOF
  BY DEF LinkRequest, RequestFits, LinkIdle, Knows

\* With the others at rest, it is enough that the one that moves on knows what it has to.
LEMMA AloneKeeps ==
    ASSUME LinkTypes, NEW j \in LinkJobs, \A k \in LinkJobs \ {j} : linkJob[k] = LinkIdle,
           NEW r, linkJob' = [linkJob EXCEPT ![j] = r], Knows(r, links', pageId'), OnePrimary(links'),
           r = LinkIdle /\ ~loose' => PageOf(pageId', links')
    PROVE  Undisturbed'
PROOF
  BY RestingRequest DEF LinkTypes, Undisturbed, RunsAlone, Rests

LEMMA OthersRest ==
    ASSUME LinksInv, ~raced, NEW j \in LinkJobs, linkJob[j] # LinkIdle
    PROVE  \A k \in LinkJobs \ {j} : linkJob[k] = LinkIdle
PROOF
  BY DEF LinksInv, Undisturbed, RunsAlone

\* A channel is stored under an id that is its own or free.
LEMMA RowStored ==
    ASSUME LinkTypes, NEW i \in Ids, NEW row \in Link, NEW but, but = i \/ i \notin Held, Unused(row.kind, row.ext, but),
           but = i \/ but \notin Held, links' = [links EXCEPT ![i] = row]
    PROVE  /\ links' \in ChannelRows
           /\ (\A k \in Held : Unused(links[k].kind, links[k].ext, k))'
PROOF
<1>1. links' \in ChannelRows
  BY DEF LinkTypes, ChannelRows
<1>2. \A k \in Ids : links'[k] = IF k = i THEN row ELSE links[k]
  BY DEF LinkTypes, ChannelRows
<1>3. Held' = {k \in Ids : links'[k] # NoLink}
  BY DEF Held
<1>4. \A k \in Held' : k = i \/ k \in Held
  BY <1>2, <1>3 DEF Held
<1>5. \A k \in Held \ {i} : links[k].kind # row.kind \/ links[k].ext # row.ext
  BY DEF Unused
<1>6. ASSUME NEW k \in Held', NEW m \in Held' \ {k} PROVE links'[m].kind # links'[k].kind \/ links'[m].ext # links'[k].ext
  BY <1>2, <1>3, <1>4, <1>5, <1>6 DEF LinkTypes, Unused
<1>7. (\A k \in Held : Unused(links[k].kind, links[k].ext, k))'
  BY <1>6 DEF Unused
<1> QED
  BY <1>1, <1>7

LEMMA FreshId ==
    ASSUME LinkTypes, \E i \in Ids : \A k \in Held : k < i
    PROVE  NextId \in Ids /\ NextId \notin Held
PROOF
<1> DEFINE free == {i \in Ids : \A k \in Held : k < i}
<1>1. free \in SUBSET Nat /\ free # {}
  BY HeldIs
<1>2. OldestLink(free) \in free
  BY <1>1, OldestIs
<1>3. \A k \in Held : k < NextId
  BY <1>2 DEF NextId
<1>4. Held \subseteq Nat
  BY HeldIs
<1> QED
  BY <1>2, <1>3, <1>4, HeldIs DEF NextId

\* A request begins.
LEMMA BeginKeeps ==
    ASSUME LinksInv, NEW j \in LinkJobs, NEW pc \in LinkPc \ {"idle"}, NEW id \in 0 .. MaxLinks, NEW to \in AnyLink,
           Begins(j, pc, id, to), RequestFits([pc |-> pc, id |-> id, to |-> to]),
           UNCHANGED <<links, loose>>, pageId' \in PageIds,
           ~raced => Knows([pc |-> pc, id |-> id, to |-> to], links, pageId')
    PROVE  LinksInv'
PROOF
<1> DEFINE r == [pc |-> pc, id |-> id, to |-> to]
<1>1. /\ linkJob' = [linkJob EXCEPT ![j] = r] /\ edits' \in 0 .. MaxEdits
      /\ raced' = (raced \/ \E k \in LinkJobs \ {j} : linkJob[k] # LinkIdle)
  BY LinkAssumption DEF Begins, Steps, LinksInv, LinkTypes
<1>2. r \in LinkRequest /\ r # LinkIdle
  BY DEF LinkRequest, LinkIdle
<1>3. LinkTypes'
  BY <1>1, <1>2, RequestMoves DEF LinksInv, LinkTypes, Held, Unused
<1>4. ASSUME ~raced' PROVE Undisturbed'
  <2>1. ~raced /\ \A k \in LinkJobs \ {j} : linkJob[k] = LinkIdle
    BY <1>1, <1>4
  <2>2. OnePrimary(links')
    BY <2>1 DEF LinksInv, Undisturbed
  <2> HIDE DEF r
  <2>3. Knows(r, links', pageId')
    BY <2>1 DEF r
  <2> QED
    BY <1>1, <1>2, <2>1, <2>2, <2>3, AloneKeeps DEF LinksInv
<1> QED
  BY <1>3, <1>4 DEF LinksInv

\* A request goes on without changing a channel.
LEMMA StepKeeps ==
    ASSUME LinksInv, NEW j \in LinkJobs, linkJob[j] # LinkIdle, NEW r \in LinkRequest, RequestFits(r),
           linkJob' = [linkJob EXCEPT ![j] = r], UNCHANGED <<links, edits, raced>>, pageId' \in PageIds, loose' \in BOOLEAN,
           ~raced => Knows(r, links, pageId'),
           ~raced /\ r = LinkIdle /\ ~loose' => PageOf(pageId', links)
    PROVE  LinksInv'
PROOF
<1>1. LinkTypes'
  BY RequestMoves DEF LinksInv, LinkTypes, Held, Unused
<1>2. ASSUME ~raced PROVE Undisturbed'
  BY <1>2, OthersRest, AloneKeeps DEF LinksInv, Undisturbed
<1> QED
  BY <1>1, <1>2 DEF LinksInv

\* A request goes on and has changed a channel.
LEMMA ChangeKeeps ==
    ASSUME LinksInv, NEW j \in LinkJobs, linkJob[j] # LinkIdle, NEW r \in LinkRequest, RequestFits(r),
           linkJob' = [linkJob EXCEPT ![j] = r], UNCHANGED <<pageId, edits, raced>>, loose' \in BOOLEAN,
           links' \in ChannelRows, (\A k \in Held : Unused(links[k].kind, links[k].ext, k))',
           ~raced => Knows(r, links', pageId) /\ OnePrimary(links'),
           ~raced /\ r = LinkIdle /\ ~loose' => PageOf(pageId, links')
    PROVE  LinksInv'
PROOF
  BY RequestMoves, OthersRest, AloneKeeps DEF LinksInv, LinkTypes

LEMMA CreateChannelKeeps ==
    ASSUME LinksInv, NEW j \in LinkJobs, NEW kind \in LinkKinds, NEW ext \in Pages, NEW off \in BOOLEAN, NEW primary,
           CreateChannel(j, kind, ext, off, primary)
    PROVE  LinksInv'
PROOF
<1> DEFINE first == \A i \in Held : links[i].kind # kind
           be == IF primary = "auto" THEN first ELSE primary = "yes"
           to == [kind |-> kind, ext |-> ext, off |-> off, primary |-> be]
           pc == IF be THEN "clear" ELSE "store"
<1>1. Begins(j, pc, 0, to) /\ UNCHANGED <<pageId, links, loose>>
  BY DEF CreateChannel
<1>2. be \in BOOLEAN
  OBVIOUS
<1>3. to \in AnyLink /\ to.ext = ext /\ to.primary = be
  BY <1>2 DEF AnyLink, PageIds
<1>4. pc \in LinkPc \ {"idle"} /\ (pc = "store" => be = FALSE) /\ pc \in {"clear", "store"}
  BY DEF LinkPc
<1> HIDE DEF be, to, pc
<1>5. RequestFits([pc |-> pc, id |-> 0, to |-> to]) /\ Knows([pc |-> pc, id |-> 0, to |-> to], links, pageId')
  BY <1>3, <1>4 DEF RequestFits, Knows
<1>6. 0 \in 0 .. MaxLinks /\ pageId' \in PageIds
  BY <1>1, LinkAssumption DEF LinksInv, LinkTypes
<1> QED
  BY <1>1, <1>3, <1>4, <1>5, <1>6, BeginKeeps

LEMMA UpdateChannelKeeps ==
    ASSUME LinksInv, NEW j \in LinkJobs, NEW i \in Ids, NEW to \in Link, UpdateChannel(j, i, to)
    PROVE  LinksInv'
PROOF
<1> DEFINE pc == IF to.primary THEN "clear" ELSE "store"
<1>1. Begins(j, pc, i, to) /\ UNCHANGED <<pageId, links, loose>>
  BY DEF UpdateChannel
<1>2. to \in AnyLink /\ to.ext \in Pages /\ to.primary \in BOOLEAN
  BY DEF AnyLink, Link, PageIds
<1>3. pc \in LinkPc \ {"idle"} /\ (pc = "store" => to.primary = FALSE) /\ pc \in {"clear", "store"}
  BY <1>2 DEF LinkPc
<1> HIDE DEF pc
<1>4. RequestFits([pc |-> pc, id |-> i, to |-> to]) /\ Knows([pc |-> pc, id |-> i, to |-> to], links, pageId')
  BY <1>2, <1>3 DEF RequestFits, Knows
<1>5. i \in 0 .. MaxLinks /\ pageId' \in PageIds
  BY <1>1, LinkAssumption DEF LinksInv, LinkTypes, Ids
<1> QED
  BY <1>1, <1>2, <1>3, <1>4, <1>5, BeginKeeps

LEMMA DeleteChannelKeeps ==
    ASSUME LinksInv, NEW j \in LinkJobs, NEW i \in Ids, DeleteChannel(j, i)
    PROVE  LinksInv'
PROOF
<1>1. i \in Held /\ Begins(j, "delete", i, links[i]) /\ UNCHANGED <<pageId, links, loose>>
  BY DEF DeleteChannel
<1>2. links[i] \in Link
  BY <1>1, HeldIs DEF LinksInv
<1>3. links[i] \in AnyLink /\ links[i].ext \in Pages
  BY <1>2 DEF AnyLink, Link, PageIds
<1>4. i \in 0 .. MaxLinks /\ pageId' \in PageIds /\ "delete" \in LinkPc \ {"idle"}
  BY <1>1, LinkAssumption DEF LinksInv, LinkTypes, Ids, LinkPc
<1> DEFINE to == links[i]
<1> HIDE DEF to
<1>5. RequestFits([pc |-> "delete", id |-> i, to |-> to]) /\ Knows([pc |-> "delete", id |-> i, to |-> to], links, pageId')
  BY <1>3 DEF RequestFits, Knows, to
<1> QED
  BY <1>1, <1>3, <1>4, <1>5, BeginKeeps DEF to

LEMMA UpdateProfileKeeps ==
    ASSUME LinksInv, NEW j \in LinkJobs, NEW page \in PageIds, UpdateProfile(j, page)
    PROVE  LinksInv'
PROOF
<1> DEFINE to == [kind |-> "messenger", ext |-> page, off |-> FALSE, primary |-> TRUE]
           pc == IF page = NoPage THEN "sync" ELSE "seek"
<1>1. Begins(j, pc, 0, to) /\ pageId' = page /\ UNCHANGED <<links, loose>>
  BY DEF UpdateProfile
<1>2. to \in AnyLink /\ to.ext = page /\ to.kind = "messenger" /\ to.off = FALSE /\ to.primary = TRUE
  BY DEF AnyLink, LinkKinds
<1>3. pc \in LinkPc \ {"idle"} /\ pc \in {"sync", "seek"} /\ (pc = "seek" => page \in Pages)
  BY DEF LinkPc, PageIds
<1>4. 0 \in 0 .. MaxLinks
  BY LinkAssumption
<1> HIDE DEF to, pc
<1>5. RequestFits([pc |-> pc, id |-> 0, to |-> to]) /\ Knows([pc |-> pc, id |-> 0, to |-> to], links, page)
  BY <1>2, <1>3 DEF RequestFits, Knows
<1> QED
  BY <1>1, <1>2, <1>3, <1>4, <1>5, BeginKeeps

LEMMA UpdateOnboardingKeeps ==
    ASSUME LinksInv, NEW j \in LinkJobs, NEW page \in PageIds, UpdateOnboarding(j, page)
    PROVE  LinksInv'
PROOF
<1>1. /\ linkJob[j] = LinkIdle /\ edits' \in 0 .. MaxEdits /\ pageId' = page /\ loose' = TRUE
      /\ raced' = (raced \/ \E k \in LinkJobs \ {j} : linkJob[k] # LinkIdle) /\ UNCHANGED <<links, linkJob>>
  BY LinkAssumption DEF UpdateOnboarding, LinksInv, LinkTypes
<1>2. LinkTypes'
  BY <1>1 DEF LinksInv, LinkTypes, Held, Unused
<1>3. ASSUME ~raced' PROVE Undisturbed'
  BY <1>1, <1>3, RestingRequest DEF LinksInv, Undisturbed, RunsAlone
<1> QED
  BY <1>2, <1>3 DEF LinksInv

LEMMA ClearKeeps ==
    ASSUME LinksInv, NEW j \in LinkJobs, ClearPrimary(j)
    PROVE  LinksInv'
PROOF
<1> DEFINE r == linkJob[j]
           s == [pc |-> "store", id |-> r.id, to |-> r.to]
           Cleared(i) == links[i].kind = r.to.kind /\ i # r.id
<1>1. /\ r.pc = "clear" /\ linkJob' = [linkJob EXCEPT ![j] = s]
      /\ links' = [i \in Ids |-> IF Cleared(i) THEN [links[i] EXCEPT !.primary = FALSE] ELSE links[i]]
      /\ UNCHANGED <<pageId, edits, raced, loose>>
  BY DEF ClearPrimary, Steps
<1>2. r.to \in Link /\ r.to \in AnyLink /\ r.id \in 0 .. MaxLinks /\ r # LinkIdle /\ r.to.ext \in Pages /\ r.to.kind \in LinkKinds
  BY <1>1, RequestHas DEF LinksInv, RequestFits, Link
<1>3. s \in LinkRequest /\ RequestFits(s) /\ s # LinkIdle /\ s.pc = "store" /\ s.id = r.id /\ s.to = r.to
  BY <1>2 DEF LinkRequest, RequestFits, LinkPc, LinkIdle
<1>4. \A i \in Ids : Cleared(i) => links[i] \in Link
  BY <1>2, HeldIs DEF LinksInv, LinkKinds
<1>5. ASSUME NEW i \in Ids
      PROVE  /\ Cleared(i) => links'[i] \in Link /\ links'[i].kind = links[i].kind /\ links'[i].ext = links[i].ext
                              /\ links'[i].primary = FALSE
             /\ ~Cleared(i) => links'[i] = links[i]
  BY <1>1, <1>4 DEF Link
<1>6. NoLink \notin Link
  BY DEF NoLink, Link, LinkKinds
<1>7. \A i \in Ids : links[i] \in Link \cup {NoLink}
  BY DEF LinksInv, LinkTypes, ChannelRows
<1>8. \A i \in Ids : links'[i] \in Link \cup {NoLink}
  BY <1>5, <1>7
<1>9. links' \in ChannelRows
  BY <1>1, <1>8 DEF ChannelRows
<1>10. Held' = Held /\ \A i \in Held : links'[i].kind = links[i].kind /\ links'[i].ext = links[i].ext
  BY <1>4, <1>5, <1>6 DEF Held
<1>11. (\A k \in Held : Unused(links[k].kind, links[k].ext, k))'
  BY <1>10 DEF LinksInv, LinkTypes, Unused
<1>12. \A kind : Prims(links', kind) \subseteq Prims(links, kind)
  BY <1>5 DEF Prims
<1>13. Prims(links', r.to.kind) \subseteq {r.id}
  BY <1>5 DEF Prims
<1> HIDE DEF r, s
<1>14. ~raced => Knows(s, links', pageId) /\ OnePrimary(links')
  BY <1>3, <1>12, <1>13 DEF Knows, LinksInv, Undisturbed, OnePrimary
<1> QED
  BY <1>1, <1>2, <1>3, <1>9, <1>11, <1>14, ChangeKeeps DEF LinksInv, LinkTypes, r

LEMMA StoreChannelKeeps ==
    ASSUME LinksInv, NEW j \in LinkJobs, StoreChannel(j)
    PROVE  LinksInv'
PROOF
<1> DEFINE r == linkJob[j]
           i == IF r.id = 0 THEN NextId ELSE r.id
           s == [pc |-> IF r.id = 0 THEN "sync" ELSE "ensure", id |-> 0, to |-> r.to]
<1>1. /\ r.pc = "store" /\ Unused(r.to.kind, r.to.ext, r.id)
      /\ IF r.id = 0 THEN \E k \in Ids : \A m \in Held : m < k ELSE r.id \in Held
      /\ links' = [links EXCEPT ![i] = r.to]
      /\ linkJob' = [linkJob EXCEPT ![j] = s]
      /\ UNCHANGED <<pageId, edits, raced, loose>>
  BY DEF StoreChannel, Steps
<1>2. r.to \in Link /\ r.to \in AnyLink /\ r.id \in 0 .. MaxLinks /\ r # LinkIdle /\ r.to.ext \in Pages /\ r.to.kind \in LinkKinds
  BY <1>1, RequestHas DEF LinksInv, RequestFits, Link
<1>3. s \in LinkRequest /\ RequestFits(s) /\ s # LinkIdle /\ s.pc \in {"sync", "ensure"}
  BY <1>2, LinkAssumption DEF LinkRequest, RequestFits, LinkPc, LinkIdle
<1>4. i \in Ids /\ (r.id = i \/ (r.id = 0 /\ i \notin Held)) /\ 0 \notin Held
  BY <1>1, FreshId, HeldIs DEF LinksInv, Ids
<1>5. /\ links' \in ChannelRows
      /\ (\A k \in Held : Unused(links[k].kind, links[k].ext, k))'
  BY <1>1, <1>2, <1>4, RowStored DEF LinksInv
<1>6. ASSUME NEW kind PROVE Prims(links', kind) \subseteq Prims(links, kind) \cup {i}
  BY <1>1, <1>4 DEF Prims, LinksInv, LinkTypes, ChannelRows
<1>7. ASSUME NEW kind, i \in Prims(links', kind) PROVE r.to.kind = kind /\ r.to.primary = TRUE
  BY <1>1, <1>4, <1>7 DEF Prims, LinksInv, LinkTypes, ChannelRows
<1>8. ~raced /\ r.to.primary = TRUE => Prims(links, r.to.kind) \subseteq {r.id}
  BY <1>1 DEF LinksInv, Undisturbed, Knows
<1>9. 0 \notin Ids
  BY DEF Ids
<1> HIDE DEF r, i, s
<1>10. ASSUME ~raced PROVE OnePrimary(links')
  <2> SUFFICES ASSUME NEW kind \in LinkKinds, NEW a \in Prims(links', kind), NEW b \in Prims(links', kind) PROVE a = b
    BY DEF OnePrimary
  <2>1. a \in Ids /\ b \in Ids
    BY DEF Prims
  <2>2. CASE i \in Prims(links', kind)
    <3>1. Prims(links, kind) \subseteq {r.id}
      BY <1>7, <1>8, <1>10, <2>2
    <3>2. 0 \notin Prims(links, kind)
      BY <1>9 DEF Prims
    <3>3. Prims(links, kind) \subseteq {i}
      BY ONLY <1>4, <3>1, <3>2
    <3>4. Prims(links', kind) \subseteq Prims(links, kind) \cup {i}
      BY <1>6
    <3> QED
      BY ONLY <3>3, <3>4
  <2>3. CASE i \notin Prims(links', kind)
    BY <1>6, <1>10, <2>3 DEF LinksInv, Undisturbed, OnePrimary
  <2> QED
    BY <2>2, <2>3
<1>11. Knows(s, links', pageId)
  BY <1>3 DEF Knows
<1> QED
  BY <1>1, <1>2, <1>3, <1>5, <1>10, <1>11, ChangeKeeps DEF LinksInv, LinkTypes, r

LEMMA RemoveChannelKeeps ==
    ASSUME LinksInv, NEW j \in LinkJobs, RemoveChannel(j)
    PROVE  LinksInv'
PROOF
<1> DEFINE r == linkJob[j]
           s == [pc |-> "ensure", id |-> 0, to |-> r.to]
<1>1. /\ r.pc = "delete" /\ r.id \in Held /\ links' = [links EXCEPT ![r.id] = NoLink]
      /\ linkJob' = [linkJob EXCEPT ![j] = s] /\ UNCHANGED <<pageId, edits, raced, loose>>
  BY DEF RemoveChannel, Steps
<1>2. r.to \in AnyLink /\ r # LinkIdle
  BY <1>1, RequestHas DEF LinksInv
<1>3. s \in LinkRequest /\ RequestFits(s) /\ s # LinkIdle /\ s.pc = "ensure"
  BY <1>2, LinkAssumption DEF LinkRequest, RequestFits, LinkPc, LinkIdle
<1>4. links' \in ChannelRows
  BY <1>1 DEF LinksInv, LinkTypes, ChannelRows
<1>5. \A i \in Ids : links'[i] = IF i = r.id THEN NoLink ELSE links[i]
  BY <1>1 DEF LinksInv, LinkTypes, ChannelRows
<1>6. Held' \subseteq Held /\ \A i \in Held' : links'[i] = links[i]
  BY <1>5 DEF Held
<1>7. (\A k \in Held : Unused(links[k].kind, links[k].ext, k))'
  BY <1>6 DEF LinksInv, LinkTypes, Unused
<1>8. \A kind \in LinkKinds : Prims(links', kind) \subseteq Prims(links, kind)
  BY <1>5 DEF Prims, LinkKinds, NoLink
<1> HIDE DEF r, s
<1>9. ~raced => Knows(s, links', pageId) /\ OnePrimary(links')
  BY <1>3, <1>8 DEF Knows, LinksInv, Undisturbed, OnePrimary
<1> QED
  BY <1>1, <1>2, <1>3, <1>4, <1>7, <1>9, ChangeKeeps DEF LinksInv, LinkTypes, r

LEMMA FailKeeps ==
    ASSUME LinksInv, NEW j \in LinkJobs, StatementFails(j)
    PROVE  LinksInv'
PROOF
<1>1. /\ linkJob[j] # LinkIdle /\ linkJob' = [linkJob EXCEPT ![j] = LinkIdle] /\ loose' = TRUE
      /\ UNCHANGED <<pageId, links, edits, raced>>
  BY DEF StatementFails, Ends
<1>2. Knows(LinkIdle, links, pageId') /\ LinkIdle \in LinkRequest /\ RequestFits(LinkIdle)
  BY RestingRequest
<1> QED
  BY <1>1, <1>2, StepKeeps DEF LinksInv, LinkTypes

LEMMA EnsureKeeps ==
    ASSUME LinksInv, NEW j \in LinkJobs, EnsurePrimary(j)
    PROVE  LinksInv'
PROOF
<1> DEFINE r == linkJob[j]
           able == {i \in Held : links[i].kind = r.to.kind /\ ~links[i].off}
           s == IF Primaries(r.to.kind) # {} \/ able = {} THEN [pc |-> "sync", id |-> 0, to |-> r.to]
                ELSE [pc |-> "promote", id |-> OldestLink(able), to |-> r.to]
<1>1. r.pc = "ensure" /\ linkJob' = [linkJob EXCEPT ![j] = s] /\ UNCHANGED <<pageId, links, edits, raced, loose>>
  BY DEF EnsurePrimary, Steps
<1>2. r.to \in AnyLink /\ r # LinkIdle /\ r.to.kind \in LinkKinds
  BY <1>1, RequestHas DEF LinksInv, AnyLink
<1>3. able # {} => OldestLink(able) \in able
  BY HeldIs, OldestIs DEF LinksInv
<1>4. Held \subseteq Ids /\ Ids \subseteq 0 .. MaxLinks /\ 0 \in 0 .. MaxLinks
  BY LinkAssumption DEF Held, Ids
<1>5. CASE Primaries(r.to.kind) # {} \/ able = {}
  <2>1. s \in LinkRequest /\ RequestFits(s) /\ s # LinkIdle /\ s.pc = "sync"
    BY <1>2, <1>4, <1>5 DEF LinkRequest, RequestFits, LinkPc, LinkIdle
  <2> HIDE DEF s
  <2>2. Knows(s, links, pageId')
    BY <2>1 DEF Knows
  <2> QED
    BY <1>1, <1>2, <2>1, <2>2, StepKeeps DEF LinksInv, LinkTypes
<1>6. CASE ~(Primaries(r.to.kind) # {} \/ able = {})
  <2>1. /\ s \in LinkRequest /\ RequestFits(s) /\ s # LinkIdle /\ s.pc = "promote"
        /\ s.id \in able /\ s.to = r.to
    BY <1>2, <1>3, <1>4, <1>6 DEF LinkRequest, RequestFits, LinkPc, LinkIdle
  <2>2. Prims(links, r.to.kind) = {}
    BY <1>2, <1>6, HeldIs DEF LinksInv
  <2>3. s.id \in Ids /\ links[s.id].kind = s.to.kind
    BY <1>4, <2>1
  <2> HIDE DEF s
  <2>4. Knows(s, links, pageId')
    BY <2>1, <2>2, <2>3 DEF Knows
  <2> QED
    BY <1>1, <1>2, <2>1, <2>4, StepKeeps DEF LinksInv, LinkTypes
<1> QED
  BY <1>5, <1>6

LEMMA PromoteKeeps ==
    ASSUME LinksInv, NEW j \in LinkJobs, Promote(j)
    PROVE  LinksInv'
PROOF
<1> DEFINE r == linkJob[j]
           row == [links[r.id] EXCEPT !.primary = TRUE]
           s == [pc |-> "sync", id |-> 0, to |-> r.to]
<1>1. /\ r.pc = "promote" /\ r.id \in Held /\ links' = [links EXCEPT ![r.id] = row]
      /\ linkJob' = [linkJob EXCEPT ![j] = s] /\ UNCHANGED <<pageId, edits, raced, loose>>
  BY DEF Promote, Steps
<1>2. r.to \in AnyLink /\ r # LinkIdle
  BY <1>1, RequestHas DEF LinksInv
<1>3. s \in LinkRequest /\ RequestFits(s) /\ s # LinkIdle /\ s.pc = "sync"
  BY <1>2, LinkAssumption DEF LinkRequest, RequestFits, LinkPc, LinkIdle
<1>4. r.id \in Ids /\ links[r.id] \in Link
  BY <1>1, HeldIs DEF LinksInv, Held
<1>5. row \in Link /\ row.kind = links[r.id].kind /\ row.ext = links[r.id].ext
  BY <1>4 DEF Link
<1>6. Unused(row.kind, row.ext, r.id)
  BY <1>1, <1>5 DEF LinksInv, LinkTypes
<1>7. /\ links' \in ChannelRows
      /\ (\A k \in Held : Unused(links[k].kind, links[k].ext, k))'
  BY <1>1, <1>4, <1>5, <1>6, RowStored DEF LinksInv
<1>8. \A i \in Ids : links'[i] = IF i = r.id THEN row ELSE links[i]
  BY <1>1 DEF LinksInv, LinkTypes, ChannelRows
<1>9. ~raced => Prims(links, links[r.id].kind) = {}
  BY <1>1 DEF LinksInv, Undisturbed, Knows
<1>10. \A kind \in LinkKinds : Prims(links', kind) \subseteq Prims(links, kind) \cup {i \in {r.id} : row.kind = kind}
  BY <1>8 DEF Prims
<1>11. ASSUME ~raced PROVE OnePrimary(links')
  BY <1>5, <1>9, <1>10, <1>11 DEF OnePrimary, LinksInv, Undisturbed
<1> HIDE DEF r, s, row
<1>12. Knows(s, links', pageId)
  BY <1>3 DEF Knows
<1> QED
  BY <1>1, <1>2, <1>3, <1>7, <1>11, <1>12, ChangeKeeps DEF LinksInv, LinkTypes, r

LEMMA SyncKeeps ==
    ASSUME LinksInv, NEW j \in LinkJobs, SyncPage(j)
    PROVE  LinksInv'
PROOF
<1>1. PICK ext \in (IF LinkConnected = {} THEN {NoPage} ELSE {links[i].ext : i \in LinkConnected}) :
        linkJob' = [linkJob EXCEPT ![j] = [pc |-> "settle", id |-> 0,
                       to |-> [kind |-> "messenger", ext |-> ext, off |-> FALSE, primary |-> TRUE]]]
  BY DEF SyncPage, Steps
<1> DEFINE to == [kind |-> "messenger", ext |-> ext, off |-> FALSE, primary |-> TRUE]
           s == [pc |-> "settle", id |-> 0, to |-> to]
<1>2. linkJob[j].pc = "sync" /\ UNCHANGED <<pageId, links, edits, raced, loose>>
  BY DEF SyncPage
<1>3. linkJob[j] # LinkIdle
  BY <1>2 DEF LinkIdle
<1>4. LinkConnected = Connects(links) /\ \A i \in LinkConnected : links[i] \in Link
  BY HeldIs DEF LinksInv, LinkConnected, Primaries
<1>5. ext \in PageIds
  BY <1>4 DEF PageIds, Link
<1>6. s \in LinkRequest /\ s # LinkIdle /\ RequestFits(s) /\ s.pc = "settle" /\ s.to.ext = ext
  BY <1>5, LinkAssumption DEF LinkRequest, AnyLink, LinkPc, LinkKinds, RequestFits, LinkIdle
<1>7. ASSUME ~raced PROVE PageOf(ext, links)
  BY <1>7, <1>4 DEF LinksInv, Undisturbed, OnePrimary, Connects, LinkKinds, PageOf
<1> HIDE DEF s
<1>8. ~raced => Knows(s, links, pageId')
  BY <1>6, <1>7 DEF Knows
<1>9. linkJob' = [linkJob EXCEPT ![j] = s]
  BY <1>1 DEF s
<1> QED
  BY <1>2, <1>3, <1>6, <1>8, <1>9, StepKeeps DEF LinksInv, LinkTypes

LEMMA SettleChannelKeeps ==
    ASSUME LinksInv, NEW j \in LinkJobs, SettlePage(j)
    PROVE  LinksInv'
PROOF
  BY RequestHas, RestingRequest, StepKeeps DEF SettlePage, Ends, LinksInv, AnyLink, Undisturbed, Knows

LEMMA SeekKeeps ==
    ASSUME LinksInv, NEW j \in LinkJobs, SeekPrimary(j)
    PROVE  LinksInv'
PROOF
<1> DEFINE r == linkJob[j]
<1>1. PICK i \in (IF Primaries("messenger") = {} THEN {0} ELSE Primaries("messenger")) :
        linkJob' = [linkJob EXCEPT ![j] = [pc |-> "attach", id |-> i, to |-> r.to]]
  BY DEF SeekPrimary, Steps
<1> DEFINE s == [pc |-> "attach", id |-> i, to |-> r.to]
<1>2. r.pc = "seek" /\ UNCHANGED <<pageId, links, edits, raced, loose>>
  BY DEF SeekPrimary
<1>3. r \in [pc : LinkPc \ {"idle"}, id : 0 .. MaxLinks, to : AnyLink] /\ r # LinkIdle /\ RequestFits(r)
  BY <1>2, RequestHas DEF LinksInv
<1>4. Primaries("messenger") = Prims(links, "messenger") /\ 0 \notin Ids /\ Ids \subseteq 0 .. MaxLinks /\ 0 \in 0 .. MaxLinks
  BY HeldIs, LinkAssumption DEF LinksInv, LinkKinds, Ids
<1>5. i \in 0 .. MaxLinks /\ IF i = 0 THEN Prims(links, "messenger") = {} ELSE i \in Prims(links, "messenger")
  BY <1>1, <1>4 DEF Prims
<1>6. s \in LinkRequest /\ s # LinkIdle /\ RequestFits(s) /\ s.pc = "attach" /\ s.id = i /\ s.to = r.to
  BY <1>2, <1>3, <1>5 DEF LinkRequest, LinkPc, RequestFits, LinkIdle
<1>7. ~raced => pageId = r.to.ext
  BY <1>2 DEF LinksInv, Undisturbed, Knows
<1>8. linkJob' = [linkJob EXCEPT ![j] = s]
  BY <1>1
<1> HIDE DEF s, r
<1>9. ~raced => Knows(s, links, pageId')
  BY <1>2, <1>5, <1>6, <1>7 DEF Knows
<1> QED
  BY <1>2, <1>3, <1>6, <1>8, <1>9, StepKeeps DEF LinksInv, LinkTypes, r

LEMMA AttachPageKeeps ==
    ASSUME LinksInv, NEW j \in LinkJobs, AttachPage(j)
    PROVE  LinksInv'
PROOF
<1> DEFINE r == linkJob[j]
           i == IF r.id = 0 THEN NextId ELSE r.id
           old == [links[r.id] EXCEPT !.ext = r.to.ext, !.off = FALSE]
           row == IF r.id = 0 THEN r.to ELSE old
<1>1. /\ r.pc = "attach" /\ Unused(KindOf(r.id), r.to.ext, r.id)
      /\ IF r.id = 0 THEN \E k \in Ids : \A m \in Held : m < k ELSE r.id \in Held
      /\ linkJob' = [linkJob EXCEPT ![j] = LinkIdle] /\ loose' = FALSE
      /\ UNCHANGED <<pageId, edits, raced>>
  BY DEF AttachPage, Ends
<1>2. /\ r.to \in Link /\ r # LinkIdle /\ r.to.ext \in Pages /\ r.to.kind = "messenger" /\ r.to.off = FALSE /\ r.to.primary = TRUE
  BY <1>1, RequestHas DEF LinksInv, RequestFits
<1>3. i \in Ids /\ (r.id = i \/ (r.id = 0 /\ i \notin Held)) /\ 0 \notin Held
  BY <1>1, FreshId, HeldIs DEF LinksInv, Ids
<1>4. r.id # 0 => links[r.id] \in Link
  BY <1>1, HeldIs DEF LinksInv, Held
<1>5. r.id # 0 => /\ old \in Link /\ old.kind = links[r.id].kind /\ old.ext = r.to.ext /\ old.off = FALSE
                  /\ old.primary = links[r.id].primary
  BY <1>2, <1>4 DEF Link
<1>6. links' = [links EXCEPT ![i] = row]
  <2>1. CASE r.id = 0
    BY <2>1 DEF AttachPage
  <2>2. CASE r.id # 0
    BY <2>2, <1>3 DEF AttachPage, LinksInv, LinkTypes, ChannelRows
  <2> QED
    BY <2>1, <2>2
<1>7. row \in Link /\ row.kind = KindOf(r.id) /\ row.ext = r.to.ext /\ row.off = FALSE
  BY <1>1, <1>2, <1>3, <1>5 DEF KindOf
<1>8. /\ links' \in ChannelRows
      /\ (\A k \in Held : Unused(links[k].kind, links[k].ext, k))'
  <2>1. Unused(row.kind, row.ext, r.id)
    BY <1>1, <1>7
  <2>2. (r.id = i \/ i \notin Held) /\ (r.id = i \/ r.id \notin Held)
    BY <1>3
  <2>3. LinkTypes /\ i \in Ids /\ row \in Link
    BY <1>3, <1>7 DEF LinksInv
  <2> HIDE DEF i, row, r
  <2> QED
    BY <1>6, <2>1, <2>2, <2>3, RowStored
<1>9. \A k \in Ids : links'[k] = IF k = i THEN row ELSE links[k]
  BY <1>3, <1>6 DEF LinksInv, LinkTypes, ChannelRows
<1>10. ASSUME ~raced PROVE OnePrimary(links') /\ PageOf(pageId, links')
  <2>1. /\ IF r.id = 0 THEN Prims(links, "messenger") = {} ELSE r.id \in Prims(links, "messenger")
        /\ pageId = r.to.ext /\ OnePrimary(links)
    BY <1>1, <1>10 DEF LinksInv, Undisturbed, Knows
  <2>2. row.kind = "messenger" /\ row.primary = TRUE
    BY <1>2, <1>5, <2>1 DEF Prims
  <2>3. Prims(links, "messenger") \subseteq {i}
    BY <1>3, <2>1 DEF OnePrimary, LinkKinds
  <2> HIDE DEF row, r, i
  <2>4. Prims(links', "messenger") = {i}
    BY <1>3, <1>9, <2>2, <2>3 DEF Prims
  <2>5. Prims(links', "whatsapp") \subseteq Prims(links, "whatsapp")
    BY <1>9, <2>2 DEF Prims
  <2>6. OnePrimary(links')
    BY <2>1, <2>4, <2>5 DEF OnePrimary, LinkKinds
  <2>7. Connects(links') = {i}
    BY <1>3, <1>7, <1>9, <2>4 DEF Connects
  <2> QED
    BY <1>3, <1>7, <1>9, <2>1, <2>6, <2>7 DEF PageOf
<1> HIDE DEF r
<1> QED
  BY <1>1, <1>2, <1>8, <1>10, RestingRequest, ChangeKeeps DEF r

LEMMA LinksKeep == LinksInv /\ [LinksNext]_linkVars => LinksInv'
PROOF
<1> SUFFICES ASSUME LinksInv, [LinksNext]_linkVars PROVE LinksInv'
  OBVIOUS
<1>1. CASE UNCHANGED linkVars
  BY <1>1 DEF linkVars, LinksInv, LinkTypes, Undisturbed, Held, Unused
<1>2. CASE LinksNext
  BY <1>2, CreateChannelKeeps, UpdateChannelKeeps, DeleteChannelKeeps, UpdateProfileKeeps, UpdateOnboardingKeeps, ClearKeeps,
     StoreChannelKeeps, RemoveChannelKeeps, FailKeeps, EnsureKeeps, PromoteKeeps, SyncKeeps, SettleChannelKeeps, SeekKeeps,
     AttachPageKeeps
  DEF LinksNext, PageIds
<1> QED
  BY <1>1, <1>2

-----------------------------------------------------------------------------
(* The compliance document, the cleanup and the checklist.                   *)

ComplianceJob == {Resting} \cup [pc : {"dpa", "policy", "cleanup", "cleaned"}, dpa : DpaProfiles, policy : Policy,
                                 new : Policy, n : 0 .. MaxUpdates, stale : BOOLEAN]

\* What a request read was once the document; unless it is marked stale, it is the document still.
ReadIsKnown ==
    \A j \in ComplianceJobs : cjob[j].pc # "idle" =>
        /\ cjob[j].policy \in everPolicy
        /\ ~cjob[j].stale => cjob[j].dpa = dpa /\ cjob[j].policy = policy

ComplianceTypes ==
    /\ day \in Days /\ dpa \in DpaProfiles /\ policy \in Policy
    /\ storedDpa \in DpaProfiles /\ storedPolicy \in Policy
    /\ everPolicy \in SUBSET Policy /\ policy \in everPolicy /\ overlap \in BOOLEAN
    /\ redactedOn \in [Days -> 0 .. MaxDay] /\ \A d \in Days : redactedOn[d] <= day
    /\ lifeStage \in {"shadow", "live"} /\ stagedOn \in 0 .. day /\ updatedAt \in 0 .. day
    /\ cjob \in [ComplianceJobs -> ComplianceJob]
    /\ updates \in 0 .. MaxUpdates

\* The row was dated when its stage changed, or later.
ComplianceInv == ComplianceTypes /\ ReadIsKnown /\ DocumentAddsUp /\ RedactedByPolicy /\ stagedOn <= updatedAt

LEMMA ComplianceStarts == ComplianceInit => ComplianceInv
PROOF
<1> SUFFICES ASSUME ComplianceInit PROVE ComplianceInv
  OBVIOUS
<1>1. Default \in Policy
  BY ComplianceAssumption DEF Default, Policy
<1>2. ComplianceTypes
  <2>1. 0 \in 0 .. MaxDay /\ 0 \in 0 .. MaxUpdates /\ 0 \in 0 .. 0
    BY ComplianceAssumption
  <2>2. redactedOn \in [Days -> 0 .. MaxDay] /\ \A d \in Days : redactedOn[d] <= day
    BY <2>1 DEF ComplianceInit
  <2>3. everPolicy \in SUBSET Policy /\ policy \in everPolicy /\ cjob \in [ComplianceJobs -> ComplianceJob]
    BY <1>1 DEF ComplianceInit, ComplianceJob
  <2> QED
    BY <1>1, <2>1, <2>2, <2>3 DEF ComplianceInit, ComplianceTypes, Days, DpaProfiles
<1>3. ReadIsKnown /\ DocumentAddsUp /\ RedactedByPolicy
  BY DEF ComplianceInit, ReadIsKnown, DocumentAddsUp, RedactedByPolicy, Resting
<1> QED
  BY <1>2, <1>3 DEF ComplianceInit, ComplianceInv

LEMMA ComplianceHolds == ComplianceInv => ComplianceTypeOK /\ DocumentAddsUp /\ RedactedByPolicy /\ LiveItemIsEarned
PROOF
  BY ComplianceAssumption DEF ComplianceInv, ComplianceTypes, ComplianceTypeOK, ComplianceJob, Days,
     LiveItemIsEarned, LiveItemDone, DaysLive

\* A request that has read the document, with its fields.
LEMMA ComplianceJobHas ==
    ASSUME ComplianceTypes, NEW j \in ComplianceJobs, cjob[j].pc # "idle"
    PROVE  cjob[j] \in [pc : {"dpa", "policy", "cleanup", "cleaned"}, dpa : DpaProfiles, policy : Policy,
                        new : Policy, n : 0 .. MaxUpdates, stale : BOOLEAN]
PROOF
  BY DEF ComplianceTypes, ComplianceJob, Resting

\* The document is read.
LEMMA ReadKeeps ==
    ASSUME ComplianceInv, NEW j \in ComplianceJobs, NEW pc \in {"dpa", "policy", "cleanup"}, NEW new \in Policy,
           ReadDocument(j, pc, new)
    PROVE  ComplianceInv'
PROOF
<1> DEFINE r == [pc |-> pc, dpa |-> dpa, policy |-> policy, new |-> new, n |-> updates + 1, stale |-> FALSE]
<1>1. /\ cjob' = [cjob EXCEPT ![j] = r] /\ updates' \in 0 .. MaxUpdates /\ updates + 1 \in 0 .. MaxUpdates
      /\ UNCHANGED <<day, documentVars, redactedOn, stageVars, updatedAt>>
  BY ComplianceAssumption DEF ReadDocument, ComplianceInv, ComplianceTypes
<1>2. r \in ComplianceJob
  BY <1>1 DEF ComplianceInv, ComplianceTypes, ComplianceJob
<1>3. ComplianceTypes'
  BY <1>1, <1>2 DEF ComplianceInv, ComplianceTypes, documentVars, stageVars
<1>4. ReadIsKnown'
  BY <1>1 DEF ComplianceInv, ComplianceTypes, ReadIsKnown, documentVars
<1> QED
  BY <1>1, <1>3, <1>4 DEF ComplianceInv, DocumentAddsUp, RedactedByPolicy, documentVars, stageVars

\* The document is written whole, by a request that wrote what it read but for one part.
LEMMA WriteKeeps ==
    ASSUME ComplianceInv, NEW j \in ComplianceJobs, cjob[j].pc # "idle", NEW newDpa \in DpaProfiles, NEW newPolicy \in Policy,
           Writes(j, newDpa, newPolicy), UNCHANGED redactedOn,
           storedDpa' \in DpaProfiles, storedPolicy' \in Policy,
           ~overlap' => newDpa = storedDpa' /\ newPolicy = storedPolicy'
    PROVE  ComplianceInv'
PROOF
<1>1. /\ dpa' = newDpa /\ policy' = newPolicy /\ everPolicy' = everPolicy \cup {newPolicy}
      /\ updatedAt' = day /\ overlap' = (overlap \/ cjob[j].stale)
      /\ cjob' = [k \in ComplianceJobs |->
                    IF k = j THEN Resting
                    ELSE IF cjob[k] = Resting THEN Resting ELSE [cjob[k] EXCEPT !.stale = TRUE]]
      /\ UNCHANGED <<day, lifeStage, stagedOn, updates>>
  BY DEF Writes, stageVars
<1>2. cjob[j].stale \in BOOLEAN
  BY ComplianceJobHas DEF ComplianceInv
<1>3. ASSUME NEW k \in ComplianceJobs
      PROVE  /\ cjob'[k] \in ComplianceJob
             /\ cjob'[k].pc # "idle" => cjob'[k].policy \in everPolicy' /\ cjob'[k].stale = TRUE
  <2>1. CASE k = j \/ cjob[k] = Resting
    BY <1>1, <2>1 DEF ComplianceJob, Resting
  <2>2. CASE k # j /\ cjob[k] # Resting
    BY <2>2, <1>1 DEF ComplianceInv, ComplianceTypes, ComplianceJob, ReadIsKnown
  <2> QED
    BY <2>1, <2>2
<1>4. ComplianceTypes'
  <2>1. everPolicy' \in SUBSET Policy /\ policy' \in everPolicy' /\ overlap' \in BOOLEAN
    BY <1>1, <1>2 DEF ComplianceInv, ComplianceTypes
  <2>2. cjob' \in [ComplianceJobs -> ComplianceJob]
    BY <1>1, <1>3
  <2>3. updatedAt' \in 0 .. day
    BY <1>1, ComplianceAssumption DEF ComplianceInv, ComplianceTypes, Days
  <2> QED
    BY <1>1, <2>1, <2>2, <2>3 DEF ComplianceInv, ComplianceTypes
<1>5. ReadIsKnown'
  BY <1>3 DEF ReadIsKnown
<1>6. DocumentAddsUp'
  BY <1>1 DEF DocumentAddsUp
<1>7. RedactedByPolicy'
  BY <1>1 DEF ComplianceInv, RedactedByPolicy
<1>8. stagedOn' <= updatedAt'
  BY <1>1 DEF ComplianceInv, ComplianceTypes, Days
<1> QED
  BY <1>4, <1>5, <1>6, <1>7, <1>8 DEF ComplianceInv

LEMMA ComplianceKeeps == ComplianceInv /\ [ComplianceNext]_complianceVars => ComplianceInv'
PROOF
<1> SUFFICES ASSUME ComplianceInv, [ComplianceNext]_complianceVars PROVE ComplianceInv'
  OBVIOUS
<1> USE DEF ComplianceInv
<1> DEFINE DatesFit == /\ day' \in Days /\ day <= day' /\ stagedOn' \in 0 .. day' /\ updatedAt' \in 0 .. day'
                         /\ stagedOn' <= updatedAt' /\ updates' \in 0 .. MaxUpdates /\ lifeStage' \in {"shadow", "live"}
<1>0. ASSUME DatesFit, UNCHANGED <<documentVars, redactedOn, cjob>> PROVE ComplianceInv'
  <2>1. \A d \in Days : redactedOn'[d] <= day'
    BY <1>0, ComplianceAssumption DEF ComplianceTypes, Days
  <2> QED
    BY <1>0, <2>1 DEF documentVars, ComplianceTypes, ReadIsKnown, DocumentAddsUp, RedactedByPolicy
<1>1. CASE NextDay
  <2>1. day' = day + 1 /\ day < MaxDay /\ UNCHANGED <<documentVars, redactedOn, lifeStage, stagedOn, updatedAt, cjob, updates>>
    BY <1>1 DEF NextDay, stageVars
  <2>2. /\ day \in 0 .. MaxDay /\ stagedOn \in 0 .. day /\ updatedAt \in 0 .. day /\ stagedOn <= updatedAt
        /\ updates \in 0 .. MaxUpdates /\ lifeStage \in {"shadow", "live"}
    BY DEF ComplianceTypes, Days
  <2>3. DatesFit
    BY <2>1, <2>2, ComplianceAssumption DEF Days
  <2> QED
    BY <1>0, <2>1, <2>3
<1>2. CASE UpdateConversionChecklist \/ SetComplianceStatus
  <2>1. updates' \in 0 .. MaxUpdates /\ updatedAt' = day /\ UNCHANGED <<day, documentVars, redactedOn, stageVars, cjob>>
    BY <1>2, ComplianceAssumption
    DEF UpdateConversionChecklist, SetComplianceStatus, DatesTheRow, OneUpdate, ComplianceTypes
  <2>2. updatedAt' \in 0 .. day /\ stagedOn <= day
    BY <2>1, ComplianceAssumption DEF ComplianceTypes, Days
  <2> QED
    BY <2>1, <2>2 DEF documentVars, stageVars, ComplianceTypes, ReadIsKnown, DocumentAddsUp, RedactedByPolicy
<1>3. ASSUME NEW stage \in {"shadow", "live"}, UpdateLifecycleStage(stage) PROVE ComplianceInv'
  <2>1. /\ updates < MaxUpdates /\ updates' = updates + 1 /\ lifeStage' = stage /\ updatedAt' = day
        /\ stagedOn' = stagedOn \/ stagedOn' = day
        /\ day' = day /\ UNCHANGED <<documentVars, redactedOn, cjob>>
    BY <1>3 DEF UpdateLifecycleStage, OneUpdate
  <2>2. day \in 0 .. MaxDay /\ stagedOn \in 0 .. day /\ updates \in 0 .. MaxUpdates
    BY DEF ComplianceTypes, Days
  <2>3. DatesFit
    BY <2>1, <2>2, ComplianceAssumption DEF Days
  <2> QED
    BY <1>0, <2>1, <2>3
<1>4. ASSUME NEW j \in ComplianceJobs, StartDpaUpdate(j) \/ StartCleanup(j) \/ \E new \in Policy : StartPolicyUpdate(j, new)
      PROVE  ComplianceInv'
  BY <1>4, ReadKeeps DEF StartDpaUpdate, StartCleanup, StartPolicyUpdate, ComplianceTypes
<1>5. ASSUME NEW j \in ComplianceJobs, UpdateDpaProfile(j) PROVE ComplianceInv'
  BY <1>5, ComplianceJobHas, WriteKeeps DEF UpdateDpaProfile, DpaProfiles, Writes, ReadIsKnown, DocumentAddsUp,
     ComplianceTypes
<1>6. ASSUME NEW j \in ComplianceJobs, UpdateRetentionPolicy(j) PROVE ComplianceInv'
  BY <1>6, ComplianceJobHas, WriteKeeps DEF UpdateRetentionPolicy, Writes, ReadIsKnown, DocumentAddsUp,
     ComplianceTypes
<1>7. ASSUME NEW j \in ComplianceJobs, NoteCleanup(j) PROVE ComplianceInv'
  BY <1>7, ComplianceJobHas, WriteKeeps DEF NoteCleanup, Writes, ReadIsKnown, DocumentAddsUp, ComplianceTypes
<1>8. ASSUME NEW j \in ComplianceJobs, RedactOldMessages(j) PROVE ComplianceInv'
  <2> DEFINE p == cjob[j].policy
             r == [cjob[j] EXCEPT !.pc = "cleaned"]
             Due(d) == p.mode = "redact" /\ redactedOn[d] = 0 /\ d + p.days < day
  <2>1. /\ cjob[j].pc = "cleanup" /\ redactedOn' = [d \in Days |-> IF Due(d) THEN day ELSE redactedOn[d]]
        /\ cjob' = [cjob EXCEPT ![j] = r]
        /\ UNCHANGED <<day, documentVars, stageVars, updatedAt, updates>>
    BY <1>8 DEF RedactOldMessages
  <2>2. /\ cjob[j] \in [pc : {"dpa", "policy", "cleanup", "cleaned"}, dpa : DpaProfiles, policy : Policy,
                        new : Policy, n : 0 .. MaxUpdates, stale : BOOLEAN]
        /\ p \in everPolicy /\ p \in Policy
    BY <2>1, ComplianceJobHas DEF ReadIsKnown
  <2>3. r \in ComplianceJob
    BY <2>2 DEF ComplianceJob
  <2>4. RedactedByPolicy'
    BY <2>1, <2>2 DEF RedactedByPolicy, documentVars
  <2>5. ReadIsKnown'
    BY <2>1, <2>2 DEF ReadIsKnown, documentVars, ComplianceTypes
  <2>6. ComplianceTypes'
    BY <2>1, ComplianceAssumption, <2>3 DEF ComplianceTypes, Days, documentVars, stageVars
  <2> QED
    BY <2>1, <2>4, <2>5, <2>6 DEF DocumentAddsUp, documentVars, stageVars
<1>9. ASSUME NEW j \in ComplianceJobs, UpdateLost(j) PROVE ComplianceInv'
  BY <1>9
  DEF UpdateLost, documentVars, stageVars, ComplianceTypes, ComplianceJob, ReadIsKnown, DocumentAddsUp, RedactedByPolicy, Resting
<1>10. CASE UNCHANGED complianceVars
  BY <1>10 DEF complianceVars, ComplianceTypes, ReadIsKnown, DocumentAddsUp, RedactedByPolicy
<1> QED
  BY <1>1, <1>2, <1>3, <1>4, <1>5, <1>6, <1>7, <1>8, <1>9, <1>10 DEF ComplianceNext

-----------------------------------------------------------------------------
(* The services in one run.                                                  *)

\* What the jobs know, what the deliveries did, what was made of requests, entries, channels, marks, sheets
\* and of the compliance document.
LegacyInv == /\ InboxInv /\ IntakeInv /\ LkInv /\ AnswersInv /\ EntriesInv /\ MadeInv
             /\ SheetInv /\ MarksInv /\ LinksInv /\ ComplianceInv

LEMMA LegacyStarts == LegacyApiInit => LegacyInv
PROOF
<1>1. LegacyApiInit => /\ InboxInit /\ LkInit /\ EntriesInit
                       /\ SheetInit /\ MarksInit /\ LinksInit /\ ComplianceInit
  BY DEF LegacyApiInit
<1> QED
  BY <1>1, InboxInitInv, IntakeStarts, LkInitInv, AnswersStart, EntriesInitInv, MadeStarts, SheetStarts, MarksStart,
     LinksStart, ComplianceStarts
  DEF LegacyInv

\* A step of the run is a step of each service, or leaves it alone.
LEMMA LegacySteps ==
    [LegacyApiNext]_LegacyApiVars =>
        /\ [InboxNext]_inboxVars /\ [LkNext]_lkVars /\ [EntriesNext]_entryVars
        /\ [SheetNext]_sheetVars /\ [MarksNext]_markVars /\ [LinksNext]_linkVars /\ [ComplianceNext]_complianceVars
PROOF
  BY DEF LegacyApiNext, LegacyApiVars

LEMMA LegacyKeeps == LegacyInv /\ [LegacyApiNext]_LegacyApiVars => LegacyInv'
PROOF
<1> SUFFICES ASSUME LegacyInv, [LegacyApiNext]_LegacyApiVars PROVE LegacyInv'
  OBVIOUS
<1>1. InboxInv' /\ IntakeInv'
  BY LegacySteps, InboxStepKeeps, IntakeKeeps DEF LegacyInv
<1>2. LkInv' /\ AnswersInv'
  BY LegacySteps, LkStepKeeps, AnswersKeep DEF LegacyInv
<1>3. EntriesInv' /\ MadeInv'
  BY LegacySteps, EntriesStepKeeps, MadeKeeps DEF LegacyInv
<1>4. SheetInv' /\ MarksInv' /\ LinksInv' /\ ComplianceInv'
  BY LegacySteps, SheetKeeps, MarksKeep, LinksKeep, ComplianceKeeps DEF LegacyInv
<1> QED
  BY <1>1, <1>2, <1>3, <1>4 DEF LegacyInv

\* Deliveries stand at a message of their batch and have seen saved tickets only, jobs know the rows they
\* are to write, and a run has behind it what exists.
THEOREM JobsKnowTheirRows == LegacyApiSpec => []LegacyInv
PROOF
  BY LegacyStarts, LegacyKeeps, PTL DEF LegacyApiSpec

\* Whatever the jobs of the NestJS API overlap with and wherever they die, for any number of them: what is
\* looked up and created is created once, and what is written in pieces tells one story.
THEOREM ServicesKeepTheirWord == LegacyApiSpec => []LegacyInvariant
PROOF
<1>1. LegacyInv => LegacyInvariant
  BY IntakeHolds, AnswersHold, MadeHolds, SheetHolds, MarksHold, LinksHold, ComplianceHolds DEF LegacyInv,
     EntriesInv, LegacyInvariant, LegacyTypeOK, MadeOnlyOnce, PartsAgree
<1> QED
  BY <1>1, JobsKnowTheirRows, PTL

\* No step undoes finished work, for any number of messages, deliveries, requests, jobs and entries.
THEOREM FinishedWorkStays == LegacyApiSpec => WorkIsNotUndone
PROOF
<1> DEFINE Reopens == \A h \in Hooks : hook[h].pc = "reopen" /\ hook'[h].pc = "exists" /\ tix' # tix
                                          => tix[hook[h].seen].status = "resolved"
           Publishes == \A q \in ChangeAsks : ask[q] # NoArticle /\ ask'[q].status = "published"
                                              /\ ask[q].status # "published"
                          => LET a == ask'[q].out IN
                             /\ a # NoArticle /\ article[a] # NoArticle
                             /\ ask[q].target \in {NoArticle, a}
                             /\ article[a].status = "active" \/ \E j \in LkJobs : lkJob[j].pc = "live"
           Makes == \A m \in Makers : maker[m] # IdleMaker /\ maker'[m] = IdleMaker /\ maker[m].left = {}
                                      /\ maker[m].create = NoEntry
                       => \A o \in maker[m].batch : MadeFrom(o) # {}
           Loses == \A e \in Entries : entry[e] # NoEntry /\ entry[e].indexed /\ ~entry'[e].indexed
                       => reread[e] = "old"
<1>1. LegacyInv /\ [LegacyApiNext]_LegacyApiVars => [Reopens]_inboxVars
  BY LegacySteps, ReopensResolved DEF LegacyInv
<1>2. LegacyInv /\ [LegacyApiNext]_LegacyApiVars => [Publishes]_lkVars
  BY LegacySteps, PublishesLive DEF LegacyInv
<1>3. LegacyInv /\ [LegacyApiNext]_LegacyApiVars => [Makes]_entryVars
  BY RunMadeAll DEF LegacyInv
<1>4. LegacyInv /\ [LegacyApiNext]_LegacyApiVars => [Loses]_entryVars
  BY LegacySteps, IndexLost DEF LegacyInv
<1> HIDE DEF Reopens, Publishes, Makes, Loses
<1>5. LegacyApiSpec => [][Reopens]_inboxVars
  BY <1>1, JobsKnowTheirRows, PTL DEF LegacyApiSpec
<1>6. LegacyApiSpec => [][Publishes]_lkVars
  BY <1>2, JobsKnowTheirRows, PTL DEF LegacyApiSpec
<1>7. LegacyApiSpec => [][Makes]_entryVars
  BY <1>3, JobsKnowTheirRows, PTL DEF LegacyApiSpec
<1>8. LegacyApiSpec => [][Loses]_entryVars
  BY <1>4, JobsKnowTheirRows, PTL DEF LegacyApiSpec
<1> QED
  BY <1>5, <1>6, <1>7, <1>8
  DEF WorkIsNotUndone, ReopensOnlyResolved, PublishedWasLive, RunMakesAll, IndexLostToReindexOnly, Reopens,
      Publishes, Makes, Loses

=============================================================================
