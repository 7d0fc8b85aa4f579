---------------------------- MODULE TicketScreen ----------------------------
(***************************************************************************)
(* The operators' ticket screen (apps/web/src/app/internal/tickets): the   *)
(* queue, the panel of the active case, status and owner changes, bulk     *)
(* changes, internal notes and the history of the customer.  The screen    *)
(* works on copies: the queue's and the panel's, each a row as some answer *)
(* brought it, while colleagues work on the same rows.                     *)
(***************************************************************************)
EXTENDS Naturals, FiniteSets, Functions

CONSTANTS
    DeskTickets,     \* the tickets of the desk
    DetailCalls,     \* detail requests that may be under way at once
    OfferedStatuses, \* the statuses the panel offers
    MaxDeskChanges,  \* bound: changes of tickets in all
    MaxUnderway,     \* bound: requests of the screen under way at once
    NoRow            \* nothing loaded, nothing selected, nobody

ASSUME ScreenAssumption ==
    /\ MaxDeskChanges \in Nat /\ MaxUnderway \in Nat
    /\ "resolved" \in OfferedStatuses

VARIABLES
    deskRow,    \* the server's rows
    listed,     \* the queue as loaded, or NoRow
    listCall,   \* the request for the queue
    chosen,     \* selectedTicketId
    panel,      \* selectedTicketDetail: the ticket and its row
    detailCall, \* the requests for the panel
    change,     \* the status change under way
    bulk,       \* the bulk change: its tickets and what became of them
    ticked,     \* selectedIds
    noteCall,   \* the internal note under way: its ticket
    past,       \* the customer history shown, and the request for it
    crossed     \* some answer put another ticket than the selected one in the panel

screenVars == <<deskRow, listed, listCall, chosen, panel, detailCall, change, bulk, ticked,
                noteCall, past, crossed>>

DeskRow == [status : OfferedStatuses \cup {"new"}, version : Nat]
Shown == [id : DeskTickets, row : DeskRow]
Asked == [st |-> "sent"]

\* "Nothing" is neither a ticket nor a row, and a ticket id is not a loaded ticket.
ASSUME NothingAssumption ==
    /\ NoRow \notin DeskTickets \cup DeskRow \cup Shown \cup [DeskTickets -> DeskRow]
    /\ NoRow # Asked /\ \A t \in DeskTickets : t \notin Shown

IdleChange == [pc |-> "idle"]
IdleBulk == [t \in DeskTickets |-> [st |-> "none", saw |-> NoRow]]

ScreenTypeOK ==
    /\ deskRow \in [DeskTickets -> DeskRow]
    /\ listed = NoRow \/ listed \in [DeskTickets -> DeskRow]
    /\ listCall \in {NoRow, Asked} \/ listCall \in [st : {"served"}, rows : [DeskTickets -> DeskRow]]
    /\ chosen \in DeskTickets \cup {NoRow}
    /\ panel = NoRow \/ panel \in Shown
    /\ detailCall \in [DetailCalls -> {NoRow} \cup DeskTickets \cup Shown]
    /\ change = IdleChange
       \/ change \in [pc : {"sent", "refused"}, to : OfferedStatuses, saw : Shown]
       \/ change \in [pc : {"accepted"}, got : Shown]
       \/ change \in [pc : {"read"}, got : Shown, detail : DeskRow]
    /\ bulk \in [DeskTickets -> [st : {"none", "asked", "ok", "refused"}, saw : DeskRow \cup {NoRow}]]
    /\ ticked \subseteq DeskTickets
    /\ noteCall = NoRow \/ noteCall \in DeskTickets \/ noteCall \in Shown
    /\ past \in [of : DeskTickets \cup {NoRow}, asked : DeskTickets \cup {NoRow}]
    /\ crossed \in BOOLEAN

ScreenInit ==
    /\ deskRow = [t \in DeskTickets |-> [status |-> "new", version |-> 0]]
    /\ listed = NoRow /\ listCall = Asked
    /\ chosen = NoRow /\ panel = NoRow
    /\ detailCall = [d \in DetailCalls |-> NoRow]
    /\ change = IdleChange /\ bulk = IdleBulk /\ ticked = {}
    /\ noteCall = NoRow /\ past = [of |-> NoRow, asked |-> NoRow]
    /\ crossed = FALSE

\* The case the panel shows and its buttons act on: the loaded detail, whatever
\* is selected now, or else the selected row of the queue.
ActiveTicket ==
    IF panel # NoRow THEN panel
    ELSE IF chosen # NoRow /\ listed # NoRow THEN [id |-> chosen, row |-> listed[chosen]]
    ELSE NoRow

\* Room for one more request (a bound of the model, not of the screen).
One(busy) == IF busy THEN 1 ELSE 0
Room == One(listCall # NoRow) + One(change # IdleChange) + One(bulk # IdleBulk)
          + One(noteCall # NoRow) + Cardinality({d \in DetailCalls : detailCall[d] # NoRow})
          < MaxUnderway

\* The history request that belongs to the case shown: when the case (or the
\* loaded conversations) changes, an earlier request is cancelled.
Followed(active) ==
    IF active = NoRow \/ listed' = NoRow THEN [of |-> NoRow, asked |-> NoRow]
    ELSE [of |-> past.of, asked |-> active.id]

FollowPast == past' = IF ActiveTicket' = ActiveTicket /\ listed' = listed THEN past
                      ELSE Followed(ActiveTicket')

\* Selecting a ticket asks for its detail.
AskDetail(t) == Room /\ \E d \in DetailCalls : /\ detailCall[d] = NoRow
                                       /\ detailCall' = [detailCall EXCEPT ![d] = t]

\* One list request at a time is kept; a second one while it runs is not followed.
RefreshQueue == /\ Room /\ listCall = NoRow /\ listCall' = Asked
                /\ UNCHANGED <<deskRow, listed, chosen, panel, detailCall, change, bulk, ticked,
                               noteCall, past, crossed>>

ListIsServed == /\ listCall = Asked /\ listCall' = [st |-> "served", rows |-> deskRow]
                /\ UNCHANGED <<deskRow, listed, chosen, panel, detailCall, change, bulk, ticked,
                               noteCall, past, crossed>>

ListArrives ==
    /\ listCall \notin {NoRow, Asked}
    /\ listed' = listCall.rows /\ listCall' = NoRow
    /\ IF chosen # NoRow THEN UNCHANGED <<chosen, detailCall>>
       ELSE \E t \in DeskTickets : chosen' = t /\ AskDetail(t)
    /\ UNCHANGED <<deskRow, panel, change, bulk, ticked, noteCall, crossed>>
    /\ FollowPast

ListFails == /\ listCall = Asked /\ listCall' = NoRow
             /\ UNCHANGED <<deskRow, listed, chosen, panel, detailCall, change, bulk, ticked,
                            noteCall, past, crossed>>

\* Mutant: selecting a ticket asks for nothing.
SelectOnly(t) == /\ listed # NoRow /\ chosen # t /\ chosen' = t
                 /\ UNCHANGED <<deskRow, listed, listCall, panel, detailCall, change, bulk,
                                ticked, noteCall, crossed>>
                 /\ FollowPast
SelectTicket(t) == /\ listed # NoRow /\ chosen # t /\ chosen' = t /\ AskDetail(t)
                   /\ UNCHANGED <<deskRow, listed, listCall, panel, change, bulk, ticked,
                                  noteCall, crossed>>
                   /\ FollowPast

DetailIsServed(d) ==
    /\ detailCall[d] \in DeskTickets
    /\ detailCall' = [detailCall EXCEPT ![d] = [id |-> @, row |-> deskRow[@]]]
    /\ UNCHANGED <<deskRow, listed, listCall, chosen, panel, change, bulk, ticked, noteCall,
                   past, crossed>>

\* The answer fills the panel, whatever is selected by then.
Fill(shown) == panel' = shown /\ crossed' = (crossed \/ shown.id # chosen)

DetailArrives(d) ==
    /\ detailCall[d] \in Shown
    /\ Fill(detailCall[d]) /\ detailCall' = [detailCall EXCEPT ![d] = NoRow]
    /\ UNCHANGED <<deskRow, listed, listCall, chosen, change, bulk, ticked, noteCall>>
    /\ FollowPast

\* A failed request leaves the earlier case in the panel.
DetailFails(d) ==
    /\ detailCall[d] \in DeskTickets
    /\ detailCall' = [detailCall EXCEPT ![d] = NoRow]
    /\ crossed' = (crossed \/ (panel # NoRow /\ panel.id # chosen))
    /\ UNCHANGED <<deskRow, listed, listCall, chosen, panel, change, bulk, ticked, noteCall, past>>

\* The buttons of a case: reopening is offered where the copy is resolved.
Offered(to, row) == to # row.status /\ (to = "reopened" => row.status = "resolved")

\* Mutant: the change goes out with the version of the queue's copy.
ChangeByList(to) ==
    /\ Room /\ change = IdleChange /\ ActiveTicket # NoRow /\ Offered(to, ActiveTicket.row)
    /\ change' = [pc |-> "sent", to |-> to,
                  saw |-> [ActiveTicket EXCEPT !.row.version = listed[ActiveTicket.id].version]]
    /\ UNCHANGED <<deskRow, listed, listCall, chosen, panel, detailCall, bulk, ticked, noteCall,
                   past, crossed>>
\* A status or owner change; the buttons are off while one runs.
PressChange(to) ==
    /\ Room /\ change = IdleChange /\ ActiveTicket # NoRow /\ Offered(to, ActiveTicket.row)
    /\ change' = [pc |-> "sent", to |-> to, saw |-> ActiveTicket]
    /\ UNCHANGED <<deskRow, listed, listCall, chosen, panel, detailCall, bulk, ticked, noteCall,
                   past, crossed>>

MoreChanges == FoldFunction(LAMBDA row, n : row.version + n, 0, deskRow) < MaxDeskChanges
Changed(t, to) == [deskRow EXCEPT ![t] = [status |-> to, version |-> @.version + 1]]

\* The server takes a change only for the version it was made on.
ChangeIsServed ==
    /\ change.pc = "sent"
    /\ LET t == change.saw.id IN
       \/ /\ deskRow[t].version = change.saw.row.version
          /\ MoreChanges
          /\ deskRow' = Changed(t, change.to)
          /\ change' = [pc |-> "accepted", got |-> [id |-> t, row |-> deskRow'[t]]]
       \/ /\ change' = [change EXCEPT !.pc = "refused"] /\ UNCHANGED deskRow
    /\ UNCHANGED <<listed, listCall, chosen, panel, detailCall, bulk, ticked, noteCall, past,
                   crossed>>

\* After the change the screen reads the case again; when that fails the error
\* says the change could not be saved.
ChangeIsReread ==
    /\ change.pc = "accepted"
    /\ change' \in {[pc |-> "read", got |-> change.got, detail |-> deskRow[change.got.id]],
                    IdleChange}
    /\ UNCHANGED <<deskRow, listed, listCall, chosen, panel, detailCall, bulk, ticked, noteCall,
                   past, crossed>>

ChangeArrives ==
    /\ \/ /\ change.pc = "read"
          /\ Fill([id |-> change.got.id, row |-> change.detail])
          /\ listed' = [listed EXCEPT ![change.got.id] = change.got.row]
       \/ /\ change.pc = "refused" /\ UNCHANGED <<panel, listed, crossed>>
    /\ change' = IdleChange
    /\ UNCHANGED <<deskRow, listCall, chosen, detailCall, bulk, ticked, noteCall>>
    /\ FollowPast

TickTicket(t) ==
    /\ listed # NoRow
    /\ ticked' = IF t \in ticked THEN ticked \ {t} ELSE ticked \cup {t}
    /\ UNCHANGED <<deskRow, listed, listCall, chosen, panel, detailCall, change, bulk,
                   noteCall, past, crossed>>

\* The bulk bar is there for a marked ticket and idle while a change runs.
BulkReady == bulk = IdleBulk /\ ticked # {}

\* Bulk resolution: one request per ticked ticket the queue does not show as
\* resolved, with the version of the queue's copy.
PressBulk ==
    /\ Room /\ BulkReady
    /\ bulk' = [t \in DeskTickets |->
                  IF t \in ticked /\ listed[t].status # "resolved"
                  THEN [st |-> "asked", saw |-> listed[t]] ELSE [st |-> "none", saw |-> NoRow]]
    /\ bulk' # IdleBulk
    /\ UNCHANGED <<deskRow, listed, listCall, chosen, panel, detailCall, change, ticked, noteCall,
                   past, crossed>>

BulkIsServed(t) ==
    /\ bulk[t].st = "asked"
    /\ \/ /\ deskRow[t].version = bulk[t].saw.version
          /\ MoreChanges
          /\ deskRow' = Changed(t, "resolved")
          /\ bulk' = [bulk EXCEPT ![t].st = "ok"]
       \/ /\ bulk' = [bulk EXCEPT ![t].st = "refused"] /\ UNCHANGED deskRow
    /\ UNCHANGED <<listed, listCall, chosen, panel, detailCall, change, ticked, noteCall, past,
                   crossed>>

Answered(t) == bulk[t].st \in {"none", "ok", "refused"}
\* All tickets saved: the marks are cleared, the notice shown, the queue loaded.
BulkSucceeds == /\ bulk # IdleBulk /\ \A t \in DeskTickets : bulk[t].st \in {"none", "ok"}
                /\ ticked' = {} /\ bulk' = IdleBulk /\ listCall' = Asked
                /\ UNCHANGED <<deskRow, listed, chosen, panel, detailCall, change, noteCall, past,
                               crossed>>

\* One refusal ends it with an error: nothing is reloaded and the marks stay.
\* (The requests not yet answered are let finish first: nothing new can start
\* on their tickets that they would not meet on the server as well.)
BulkFails == /\ \A t \in DeskTickets : Answered(t)
             /\ \E t \in DeskTickets : bulk[t].st = "refused"
             /\ bulk' = IdleBulk
             /\ UNCHANGED <<deskRow, listed, listCall, chosen, panel, detailCall, change, ticked,
                            noteCall, past, crossed>>

\* An internal note is stored, then the case is read again.
AddNote == /\ Room /\ noteCall = NoRow /\ ActiveTicket # NoRow /\ noteCall' = ActiveTicket.id
           /\ UNCHANGED <<deskRow, listed, listCall, chosen, panel, detailCall, change, bulk,
                          ticked, past, crossed>>

NoteIsServed == /\ noteCall \in DeskTickets
                /\ noteCall' \in {[id |-> noteCall, row |-> deskRow[noteCall]], NoRow}
                /\ UNCHANGED <<deskRow, listed, listCall, chosen, panel, detailCall, change, bulk,
                               ticked, past, crossed>>

NoteArrives == /\ noteCall \in Shown /\ Fill(noteCall) /\ noteCall' = NoRow
               /\ UNCHANGED <<deskRow, listed, listCall, chosen, detailCall, change, bulk, ticked>>
               /\ FollowPast

\* The history of the followed case arrives, or its request fails.
PastArrives == /\ past.asked # NoRow
               /\ past' \in {[of |-> past.asked, asked |-> NoRow], [of |-> NoRow, asked |-> NoRow]}
               /\ UNCHANGED <<deskRow, listed, listCall, chosen, panel, detailCall, change, bulk,
                              ticked, noteCall, crossed>>

\* A colleague changes a ticket on a screen of their own.
ColleagueChanges(t) ==
    /\ MoreChanges
    /\ \E s \in OfferedStatuses : Offered(s, deskRow[t]) /\ deskRow' = Changed(t, s)
    /\ UNCHANGED <<listed, listCall, chosen, panel, detailCall, change, bulk, ticked, noteCall,
                   past, crossed>>

ScreenNext ==
    \/ RefreshQueue \/ ListIsServed \/ ListArrives \/ ListFails
    \/ ChangeIsServed \/ ChangeIsReread \/ ChangeArrives
    \/ PressBulk \/ BulkSucceeds \/ BulkFails
    \/ AddNote \/ NoteIsServed \/ NoteArrives \/ PastArrives
    \/ \E t \in DeskTickets : SelectTicket(t) \/ TickTicket(t) \/ BulkIsServed(t) \/ ColleagueChanges(t)
    \/ \E d \in DetailCalls : DetailIsServed(d) \/ DetailArrives(d) \/ DetailFails(d)
    \/ \E s \in OfferedStatuses : PressChange(s)

ScreenSpec == ScreenInit /\ [][ScreenNext]_screenVars

-----------------------------------------------------------------------------
\* A change the server takes was made on the row as it is: what the operator
\* saw when pressing is what the server holds when it accepts, in single and in
\* bulk changes, however old the copies are.
NoBlindUpdate ==
    [][/\ change.pc = "sent" /\ change'.pc = "accepted"
            => deskRow[change.saw.id] = change.saw.row
       /\ \A t \in DeskTickets : bulk[t].st = "asked" /\ bulk'[t].st = "ok"
            => deskRow[t] = bulk[t].saw]_screenVars

\* The marks are cleared for the operator only when every ticket of the bulk
\* change was saved: a refused one stays marked.
MarksClearedAreSaved ==
    [][bulk # IdleBulk /\ bulk' = IdleBulk /\ ticked' = {} /\ ticked # {}
        => \A t \in DeskTickets : bulk[t].st # "refused"]_screenVars

\* With nothing under way for the panel, it shows the selected ticket, unless
\* an answer for another ticket came in after the selection moved on.
PanelFollowsSelection ==
    (/\ \A d \in DetailCalls : detailCall[d] = NoRow
     /\ ~crossed /\ chosen # NoRow)
      => ActiveTicket # NoRow /\ ActiveTicket.id = chosen /\ (panel # NoRow => panel.id = chosen)

\* The customer history on the screen is that of the case on the screen, once
\* it is not marked as loading.
HistoryIsOfCase ==
    past.asked = NoRow /\ past.of # NoRow => ActiveTicket # NoRow /\ ActiveTicket.id = past.of
=============================================================================
