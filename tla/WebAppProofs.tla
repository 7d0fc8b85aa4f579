---------------------------- MODULE WebAppProofs ----------------------------
(***************************************************************************)
(* What a step of a screen is about, and what a screen at rest shows, for  *)
(* any number of clients, tickets, entries, prompts, conversations, loads  *)
(* and versions.  The screens rest on copies: a ticket is shown from an    *)
(* answer that may be old, a prompt is changed from the list that was      *)
(* loaded, a grade leaves a list that a load may bring again.  The         *)
(* invariants say what a copy still knows of the row it was taken from,    *)
(* and, as long as nothing overlapped or failed, what is under way for it. *)
(***************************************************************************)
EXTENDS MCWebApp, FiniteSetTheorems, SequenceTheorems, NaturalsInduction, WellFoundedInduction, TLAPS

-----------------------------------------------------------------------------
(* The client's tickets: every copy of one is behind it, or the same.        *)

StoredTicket == [status : CaseStatuses, version : Nat]
CardRow == [id : PortalTickets, status : CaseStatuses, version : Nat]
ListLoad == {NoLoad} \cup [pc : {"asked"}, filter : PortalFilters] \cup [pc : {"answered"}, rows : SUBSET CardRow]
CaseLoad == {NoLoad} \cup [pc : {"asked"}, id : PortalTickets] \cup [pc : {"answered"}, row : CardRow]
Delegation == [pc : {"sent", "list", "case"}, card : CardRow, to : CaseStatuses, filter : PortalFilters]
ListSlots == {"user", "delegate"}
CaseSlots == {"pick", "again", "delegate"}

\* A card is of an earlier version of its ticket, or shows it.
Fits(c, desk) ==
    /\ c \in CardRow
    /\ c.version <= desk[c.id].version
    /\ c.version = desk[c.id].version => c.status = desk[c.id].status

PortalTypes ==
    /\ deskTickets \in [PortalTickets -> StoredTicket]
    /\ pickedCard \in PortalTickets \cup {NoCase} /\ filterBy \in PortalFilters
    /\ listLoads \in [ListSlots -> ListLoad]
    /\ caseLoads \in [CaseSlots -> CaseLoad]
    /\ delegating \in {NotDelegating} \cup Delegation

\* The copies: on the screen, in answers under way, and in the status change under way.
ScreenFits(desk) == \A c \in cards \cup openCase : Fits(c, desk)
ListFits(load, desk) == load.pc = "answered" => \A c \in load.rows : Fits(c, desk)
CaseFits(load, desk) == load.pc = "answered" => Fits(load.row, desk)
DelegationFits(d, desk) == d.pc # "idle" => Fits(d.card, desk)

\* The loads that follow a status change are under way only while it is.
DelegationWaits ==
    /\ listLoads["delegate"].pc # "idle" => delegating.pc = "list"
    /\ caseLoads["delegate"].pc # "idle" => delegating.pc = "case"

PortalInv ==
    /\ PortalTypes
    /\ DelegationWaits
    /\ ScreenFits(deskTickets)
    /\ \A l \in ListSlots : ListFits(listLoads[l], deskTickets)
    /\ \A l \in CaseSlots : CaseFits(caseLoads[l], deskTickets)
    /\ DelegationFits(delegating, deskTickets)

\* The page opens with its list asked for and nothing shown.
LEMMA PortalStarts == PortalInit => PortalInv
PROOF
<1> SUFFICES ASSUME PortalInit PROVE PortalInv
  OBVIOUS
<1> USE DEF PortalInit
<1>1. listLoads \in [ListSlots -> ListLoad] /\ \A l \in ListSlots : listLoads[l].pc # "answered"
  BY DEF ListSlots, ListLoad, NoLoad, PortalFilters
<1>2. caseLoads \in [CaseSlots -> CaseLoad] /\ \A l \in CaseSlots : caseLoads[l].pc # "answered"
  BY DEF CaseSlots, CaseLoad, NoLoad
<1>3. deskTickets \in [PortalTickets -> StoredTicket]
  BY DEF StoredTicket, CaseStatuses
<1>4. delegating.pc = "idle" /\ filterBy \in PortalFilters
  BY DEF NotDelegating, PortalFilters
<1> QED
  BY <1>1, <1>2, <1>3, <1>4 DEF PortalInv, PortalTypes, ScreenFits, ListFits, CaseFits, DelegationFits,
     DelegationWaits, NoLoad

\* A copy of a ticket as it is stored.
LEMMA CopyFits ==
    ASSUME PortalTypes, NEW t \in PortalTickets
    PROVE  Fits(CardOf(t), deskTickets)
PROOF
<1>1. deskTickets[t] \in StoredTicket
  BY DEF PortalTypes
<1>2. CardOf(t) \in CardRow /\ CardOf(t).id = t /\ CardOf(t).version = deskTickets[t].version
      /\ CardOf(t).status = deskTickets[t].status /\ CardOf(t).version \in Nat
  BY <1>1 DEF CardOf, CardRow, StoredTicket
<1> HIDE DEF CardOf
<1> QED
  BY <1>2 DEF Fits

\* Tickets change by writes that raise their version.
Raised(t, to) == deskTickets' = [deskTickets EXCEPT ![t] = [status |-> to, version |-> deskTickets[t].version + 1]]

\* A card that fits its ticket fits it still when the ticket gets its next version.
LEMMA StillFits ==
    ASSUME PortalTypes, NEW t \in PortalTickets, NEW to \in CaseStatuses, Raised(t, to),
           NEW c, Fits(c, deskTickets)
    PROVE  Fits(c, deskTickets')
PROOF
<1>1. c \in CardRow /\ c.id \in PortalTickets /\ c.version \in Nat
  BY DEF Fits, CardRow
<1>2. deskTickets[t] \in StoredTicket /\ deskTickets[t].version \in Nat /\ deskTickets \in [PortalTickets -> StoredTicket]
  BY DEF PortalTypes, StoredTicket
<1>3. CASE c.id # t
  BY <1>1, <1>2, <1>3 DEF Raised, Fits
<1>4. CASE c.id = t
  <2>1. deskTickets'[c.id].version = deskTickets[t].version + 1
    BY <1>2, <1>4 DEF Raised
  <2>2. c.version <= deskTickets[t].version
    BY <1>4 DEF Fits
  <2>3. c.version <= deskTickets'[c.id].version /\ c.version # deskTickets'[c.id].version
    BY ONLY <1>1, <1>2, <2>1, <2>2
  <2> QED
    BY <1>1, <2>3 DEF Fits
<1> QED
  BY <1>3, <1>4

\* A write leaves every ticket with a status and a version.
LEMMA RaisedIsTyped ==
    ASSUME PortalTypes, NEW t \in PortalTickets, NEW to \in CaseStatuses, Raised(t, to)
    PROVE  deskTickets' \in [PortalTickets -> StoredTicket]
PROOF
  BY DEF PortalTypes, StoredTicket, Raised

\* An operator changes a ticket behind the page.
LEMMA OperatorKeeps ==
    ASSUME PortalInv, NEW t \in PortalTickets, OperatorUpdates(t)
    PROVE  PortalInv'
PROOF
  BY RaisedIsTyped, StillFits DEF OperatorUpdates, Raised, viewVars, PortalInv, PortalTypes, ScreenFits, ListFits,
     CaseFits, DelegationFits, DelegationWaits

\* No ticket changes, nor the screen: one list request moves on.
LEMMA ListMoves ==
    ASSUME PortalInv, NEW l \in ListSlots, NEW load \in ListLoad, ListFits(load, deskTickets),
           listLoads' = [listLoads EXCEPT ![l] = load],
           UNCHANGED deskTickets
    PROVE  listLoads' \in [ListSlots -> ListLoad] /\ \A k \in ListSlots : ListFits(listLoads'[k], deskTickets')
PROOF
  BY DEF PortalInv, PortalTypes

\* The same of a load of one ticket.
LEMMA CaseMoves ==
    ASSUME PortalInv, NEW l \in CaseSlots, NEW load \in CaseLoad, CaseFits(load, deskTickets),
           caseLoads' = [caseLoads EXCEPT ![l] = load],
           UNCHANGED deskTickets
    PROVE  caseLoads' \in [CaseSlots -> CaseLoad] /\ \A k \in CaseSlots : CaseFits(caseLoads'[k], deskTickets')
PROOF
  BY DEF PortalInv, PortalTypes

\* A load that rests and a status change that is over hold no copy.
LEMMA RestingFits ==
    ASSUME NEW desk
    PROVE  NoLoad \in ListLoad /\ NoLoad \in CaseLoad /\ ListFits(NoLoad, desk) /\ CaseFits(NoLoad, desk)
           /\ DelegationFits(NotDelegating, desk)
PROOF
  BY DEF NoLoad, ListLoad, CaseLoad, NotDelegating, ListFits, CaseFits, DelegationFits

\* A question for the list holds no copy.
LEMMA AskedList ==
    ASSUME PortalInv, NEW l \in ListSlots, NEW asked \in PortalFilters, AskDeskList(l, asked), UNCHANGED deskTickets
    PROVE  listLoads' \in [ListSlots -> ListLoad] /\ \A k \in ListSlots : ListFits(listLoads'[k], deskTickets')
PROOF
<1> DEFINE load == [pc |-> "asked", filter |-> asked]
<1>1. load \in ListLoad /\ ListFits(load, deskTickets)
  BY DEF ListLoad, ListFits
<1>2. listLoads' = [listLoads EXCEPT ![l] = load]
  BY DEF AskDeskList
<1> HIDE DEF load
<1> QED
  BY <1>1, <1>2, ListMoves

\* A question for one ticket holds no copy.
LEMMA AskedCase ==
    ASSUME PortalInv, NEW l \in CaseSlots, NEW t \in PortalTickets, AskCase(l, t), UNCHANGED deskTickets
    PROVE  caseLoads' \in [CaseSlots -> CaseLoad] /\ \A k \in CaseSlots : CaseFits(caseLoads'[k], deskTickets')
PROOF
<1> DEFINE load == [pc |-> "asked", id |-> t]
<1>1. load \in CaseLoad /\ CaseFits(load, deskTickets)
  BY DEF CaseLoad, CaseFits
<1>2. caseLoads' = [caseLoads EXCEPT ![l] = load]
  BY DEF AskCase
<1> HIDE DEF load
<1> QED
  BY <1>1, <1>2, CaseMoves

\* The client picks another filter.
LEMMA FilterKeeps ==
    ASSUME PortalInv, NEW asked \in PortalFilters, FilterTickets(asked)
    PROVE  PortalInv'
PROOF
  BY AskedList DEF FilterTickets, ListSlots, AskDeskList, PortalInv, PortalTypes, ScreenFits, DelegationWaits

\* The service answers with cards of the tickets as they are.
LEMMA AnswerListKeeps ==
    ASSUME PortalInv, NEW l \in ListSlots, AnswerDeskList(l)
    PROVE  PortalInv'
PROOF
<1> DEFINE shown == {u \in PortalTickets : listLoads[l].filter = "all" \/ deskTickets[u].status # "resolved"}
           rows == {CardOf(t) : t \in shown}
           load == [pc |-> "answered", rows |-> rows]
<1>1. listLoads' = [listLoads EXCEPT ![l] = load]
      /\ UNCHANGED <<deskTickets, filterBy, cards, pickedCard, openCase, caseLoads, delegating>>
  BY DEF AnswerDeskList, viewVars
<1>2. \A c \in rows : Fits(c, deskTickets)
  BY CopyFits DEF PortalInv
<1> HIDE DEF rows
<1>3. rows \subseteq CardRow
  BY <1>2 DEF Fits
<1>4. load \in ListLoad /\ ListFits(load, deskTickets)
  BY <1>2, <1>3 DEF ListLoad, ListFits
<1> HIDE DEF load
<1>5. listLoads' \in [ListSlots -> ListLoad] /\ \A k \in ListSlots : ListFits(listLoads'[k], deskTickets')
  BY <1>1, <1>4, ListMoves
<1>6. DelegationWaits'
  BY <1>1 DEF AnswerDeskList, PortalInv, PortalTypes, ListSlots, DelegationWaits
<1> QED
  BY <1>1, <1>5, <1>6 DEF PortalInv, PortalTypes, ScreenFits

\* What a pick asks for is a ticket.
LEMMA PickKeeps ==
    ASSUME PortalInv, NEW t \in PortalTickets \cup {NoCase}, Picks(t), UNCHANGED deskTickets
    PROVE  /\ pickedCard' \in PortalTickets \cup {NoCase}
           /\ openCase' \subseteq openCase
           /\ caseLoads' \in [CaseSlots -> CaseLoad] /\ \A k \in CaseSlots : CaseFits(caseLoads'[k], deskTickets')
           /\ caseLoads'["delegate"] = caseLoads["delegate"]
PROOF
<1>1. pickedCard' = t
  BY DEF Picks
<1>2. openCase' \in {openCase, {}}
  BY DEF Picks
<1>3. CASE caseLoads' = caseLoads
  BY <1>1, <1>2, <1>3 DEF PortalInv, PortalTypes
<1>4. CASE t # NoCase /\ AskCase("pick", t)
  BY <1>4, <1>1, <1>2, AskedCase DEF CaseSlots, AskCase, PortalInv, PortalTypes
<1> QED
  BY <1>3, <1>4 DEF Picks

\* The delegation moves on to its next load.
LEMMA DelegationStays ==
    ASSUME PortalInv, NEW pc \in {"list", "case"}, delegating.pc # "idle", NEW desk,
           \A c : Fits(c, deskTickets) => Fits(c, desk)
    PROVE  /\ [delegating EXCEPT !.pc = pc] \in Delegation
           /\ DelegationFits([delegating EXCEPT !.pc = pc], desk)
           /\ [delegating EXCEPT !.pc = pc].pc = pc
PROOF
<1> DEFINE d == [delegating EXCEPT !.pc = pc]
<1>1. delegating \in Delegation
  BY DEF PortalInv, PortalTypes, NotDelegating
<1>2. d \in Delegation /\ d.card = delegating.card /\ d.pc = pc
  BY <1>1 DEF Delegation
<1> HIDE DEF d
<1>3. DelegationFits(d, desk)
  BY <1>2 DEF PortalInv, DelegationFits
<1> QED
  BY <1>2, <1>3 DEF d

\* The page shows an answered list, whatever was done since.
LEMMA ShowListKeeps ==
    ASSUME PortalInv, NEW l \in ListSlots, ShowList(l)
    PROVE  PortalInv'
PROOF
<1> DEFINE rows == listLoads[l].rows
<1>1. listLoads[l].pc = "answered" /\ cards' = rows /\ listLoads' = [listLoads EXCEPT ![l] = NoLoad] /\ AfterList(l)
      /\ UNCHANGED <<deskTickets, filterBy>>
  BY DEF ShowList
<1>2. \A c \in rows : Fits(c, deskTickets)
  BY <1>1 DEF PortalInv, ListFits
<1>3. PICK t \in PortalTickets \cup {NoCase} : Picks(t)
  BY <1>2 DEF Fits, CardRow, ShowList, PortalInv, PortalTypes
<1>4. /\ pickedCard' \in PortalTickets \cup {NoCase} /\ openCase' \subseteq openCase
      /\ caseLoads' \in [CaseSlots -> CaseLoad] /\ \A k \in CaseSlots : CaseFits(caseLoads'[k], deskTickets')
      /\ caseLoads'["delegate"] = caseLoads["delegate"]
  BY <1>1, <1>3, PickKeeps
<1>5. listLoads' \in [ListSlots -> ListLoad] /\ \A k \in ListSlots : ListFits(listLoads'[k], deskTickets')
  BY <1>1, RestingFits, ListMoves
<1>6. ScreenFits(deskTickets)'
  BY <1>1, <1>2, <1>4 DEF PortalInv, ScreenFits
<1> HIDE DEF rows
<1>7. CASE l = "delegate"
  <2> DEFINE d == [delegating EXCEPT !.pc = "case"]
  <2>1. delegating.pc = "list" /\ delegating' = d /\ listLoads'["delegate"] = NoLoad
    BY <1>1, <1>7 DEF AfterList, PortalInv, DelegationWaits, PortalTypes, ListSlots
  <2>2. d \in Delegation /\ DelegationFits(d, deskTickets) /\ d.pc = "case"
    BY <2>1, DelegationStays
  <2> HIDE DEF d
  <2>3. DelegationWaits'
    BY <1>4, <2>1, <2>2 DEF DelegationWaits, NoLoad
  <2> QED
    BY <1>1, <1>4, <1>5, <1>6, <2>1, <2>2, <2>3 DEF PortalInv, PortalTypes, ScreenFits
<1>8. CASE l # "delegate"
  BY <1>1, <1>8, <1>4, <1>5, <1>6 DEF AfterList, PortalInv, PortalTypes, ListSlots, ScreenFits, DelegationWaits
<1> QED
  BY <1>7, <1>8

\* The list is not answered.
LEMMA ListFailsKeeps ==
    ASSUME PortalInv, NEW l \in ListSlots, DeskListFails(l)
    PROVE  PortalInv'
PROOF
<1>1. listLoads[l].pc = "asked" /\ listLoads' = [listLoads EXCEPT ![l] = NoLoad] /\ AfterList(l)
      /\ UNCHANGED <<deskTickets, filterBy, cards, pickedCard, openCase, caseLoads>>
  BY DEF DeskListFails, viewVars
<1>2. listLoads' \in [ListSlots -> ListLoad] /\ \A k \in ListSlots : ListFits(listLoads'[k], deskTickets')
  BY <1>1, RestingFits, ListMoves
<1>3. CASE l = "delegate"
  <2> DEFINE d == [delegating EXCEPT !.pc = "case"]
  <2>1. delegating.pc = "list" /\ delegating' = d /\ listLoads'["delegate"] = NoLoad
    BY <1>1, <1>3 DEF AfterList, PortalInv, DelegationWaits, PortalTypes, ListSlots
  <2>2. d \in Delegation /\ DelegationFits(d, deskTickets) /\ d.pc = "case"
    BY <2>1, DelegationStays
  <2> HIDE DEF d
  <2>3. DelegationWaits'
    BY <1>1, <2>1, <2>2 DEF DelegationWaits, NoLoad
  <2> QED
    BY <1>1, <1>2, <2>1, <2>2, <2>3 DEF PortalInv, PortalTypes, ScreenFits
<1>4. CASE l # "delegate"
  BY <1>1, <1>4, <1>2 DEF AfterList, PortalInv, PortalTypes, ListSlots, ScreenFits, DelegationWaits
<1> QED
  BY <1>3, <1>4

\* The client picks a ticket of the list.
LEMMA SelectKeeps ==
    ASSUME PortalInv, NEW t \in PortalTickets, SelectDeskTicket(t)
    PROVE  PortalInv'
PROOF
  BY PickKeeps DEF SelectDeskTicket, PortalInv, PortalTypes, ScreenFits, DelegationWaits

\* The client loads the picked ticket again.
LEMMA RefreshKeeps ==
    ASSUME PortalInv, RefreshDetail
    PROVE  PortalInv'
PROOF
  BY AskedCase DEF RefreshDetail, viewVars, PortalInv, PortalTypes, CaseSlots, AskCase, ScreenFits, DelegationWaits

\* The service answers with the card of one ticket as it is.
LEMMA AnswerCaseKeeps ==
    ASSUME PortalInv, NEW l \in CaseSlots, AnswerCase(l)
    PROVE  PortalInv'
PROOF
<1> DEFINE row == CardOf(caseLoads[l].id)
           load == [pc |-> "answered", row |-> row]
<1>1. /\ caseLoads[l].pc = "asked" /\ caseLoads' = [caseLoads EXCEPT ![l] = load]
      /\ UNCHANGED <<deskTickets, filterBy, cards, pickedCard, openCase, listLoads, delegating>>
  BY DEF AnswerCase, viewVars
<1>2. caseLoads[l].id \in PortalTickets
  BY <1>1 DEF PortalInv, PortalTypes, CaseLoad, NoLoad
<1>3. Fits(row, deskTickets)
  BY <1>2, CopyFits DEF PortalInv
<1> HIDE DEF row
<1>4. load \in CaseLoad /\ CaseFits(load, deskTickets)
  BY <1>3 DEF CaseLoad, CaseFits, Fits
<1> HIDE DEF load
<1>5. caseLoads' \in [CaseSlots -> CaseLoad] /\ \A k \in CaseSlots : CaseFits(caseLoads'[k], deskTickets')
  BY <1>1, <1>4, CaseMoves
<1>6. caseLoads'["delegate"].pc # "idle" => caseLoads["delegate"].pc # "idle"
  BY <1>1 DEF PortalInv, PortalTypes, CaseSlots
<1> QED
  BY <1>1, <1>5, <1>6 DEF PortalInv, PortalTypes, ScreenFits, DelegationWaits

\* A detail request is over, and with it the delegation it belongs to.
LEMMA CaseIsOver ==
    ASSUME PortalInv, NEW l \in CaseSlots, AfterCase(l), caseLoads[l].pc # "idle",
           UNCHANGED <<deskTickets, filterBy, cards, pickedCard, listLoads>>, \A c \in openCase' : Fits(c, deskTickets)
    PROVE  PortalInv'
PROOF
<1>1. caseLoads' = [caseLoads EXCEPT ![l] = NoLoad]
  BY DEF AfterCase
<1>2. caseLoads' \in [CaseSlots -> CaseLoad] /\ \A k \in CaseSlots : CaseFits(caseLoads'[k], deskTickets')
  BY <1>1, RestingFits, CaseMoves
<1>3. ScreenFits(deskTickets)'
  BY DEF PortalInv, ScreenFits
<1>4. CASE l = "delegate"
  BY <1>1, <1>4, <1>2, <1>3, RestingFits DEF AfterCase, PortalInv, PortalTypes, DelegationWaits, NoLoad, ScreenFits
<1>5. CASE l # "delegate"
  BY <1>1, <1>5, <1>2, <1>3 DEF AfterCase, PortalInv, PortalTypes, CaseSlots, ScreenFits, DelegationWaits
<1> QED
  BY <1>4, <1>5

\* The page shows an answered ticket, or learns that there is none.
LEMMA ShowCaseKeeps ==
    ASSUME PortalInv, NEW l \in CaseSlots, ShowCase(l) \/ CaseFails(l)
    PROVE  PortalInv'
PROOF
<1>1. AfterCase(l) /\ (caseLoads[l].pc = "answered" \/ caseLoads[l].pc = "asked")
      /\ UNCHANGED <<deskTickets, filterBy, cards, pickedCard, listLoads>>
  BY DEF ShowCase, CaseFails
<1>2. openCase' = {} \/ (caseLoads[l].pc = "answered" /\ openCase' = {caseLoads[l].row})
  BY DEF ShowCase, CaseFails
<1>3. \A c \in openCase' : Fits(c, deskTickets)
  BY <1>2 DEF PortalInv, CaseFits
<1> QED
  BY <1>1, <1>3, CaseIsOver

\* The client presses a status on a card that is shown.
LEMMA DelegateKeeps ==
    ASSUME PortalInv, NEW card \in cards \cup openCase, NEW to \in CaseStatuses, Delegate(card, to)
    PROVE  PortalInv'
PROOF
<1> DEFINE d == [pc |-> "sent", card |-> card, to |-> to, filter |-> filterBy]
<1>1. delegating' = d /\ UNCHANGED <<deskTickets, filterBy, cards, pickedCard, openCase, listLoads, caseLoads>>
      /\ delegating.pc = "idle"
  BY DEF Delegate, viewVars, NotDelegating
<1>2. Fits(card, deskTickets)
  BY DEF PortalInv, ScreenFits
<1>3. d \in Delegation /\ DelegationFits(d, deskTickets)
  BY <1>2 DEF Delegation, DelegationFits, Fits, PortalInv, PortalTypes
<1> HIDE DEF d
<1> QED
  BY <1>1, <1>3 DEF PortalInv, PortalTypes, ScreenFits, DelegationWaits

\* The service stores the status; every other copy is a version behind.
LEMMA UpdateKeeps ==
    ASSUME PortalInv, UpdateTicketStatus
    PROVE  PortalInv'
PROOF
<1> DEFINE t == delegating.card.id
           d == [delegating EXCEPT !.pc = "list"]
<1>1. /\ delegating.pc = "sent" /\ delegating' = d /\ AskDeskList("delegate", delegating.filter)
      /\ UNCHANGED <<filterBy, cards, pickedCard, openCase, caseLoads>> /\ Raised(t, delegating.to)
  BY DEF UpdateTicketStatus, viewVars, Raised
<1>2. delegating \in Delegation
  BY <1>1 DEF PortalInv, PortalTypes, NotDelegating
<1>3. t \in PortalTickets /\ delegating.to \in CaseStatuses /\ delegating.filter \in PortalFilters
  BY <1>2 DEF Delegation, CardRow
<1> HIDE DEF t
<1>4. deskTickets' \in [PortalTickets -> StoredTicket] /\ \A c : Fits(c, deskTickets) => Fits(c, deskTickets')
  BY <1>1, <1>3, RaisedIsTyped, StillFits DEF PortalInv
<1>5. d \in Delegation /\ DelegationFits(d, deskTickets') /\ d.pc = "list"
  BY <1>1, <1>4, DelegationStays
<1> HIDE DEF d
<1> DEFINE load == [pc |-> "asked", filter |-> delegating.filter]
<1>6. load \in ListLoad /\ load.pc = "asked" /\ listLoads' = [listLoads EXCEPT !["delegate"] = load]
  BY <1>1, <1>3 DEF ListLoad, AskDeskList
<1> HIDE DEF load
<1>7. listLoads' \in [ListSlots -> ListLoad] /\ \A k \in ListSlots : ListFits(listLoads'[k], deskTickets')
  BY <1>4, <1>6 DEF PortalInv, PortalTypes, ListFits
<1>8. \A k \in CaseSlots : CaseFits(caseLoads'[k], deskTickets')
  BY <1>1, <1>4 DEF PortalInv, CaseFits
<1>9. ScreenFits(deskTickets)'
  BY <1>1, <1>4 DEF PortalInv, ScreenFits
<1>10. caseLoads'["delegate"].pc = "idle"
  BY <1>1 DEF PortalInv, DelegationWaits
<1> QED
  BY <1>1, <1>4, <1>5, <1>7, <1>8, <1>9, <1>10 DEF PortalInv, PortalTypes, ScreenFits, DelegationWaits

\* The service refuses the status.
LEMMA RefusedKeeps ==
    ASSUME PortalInv, UpdateRefused
    PROVE  PortalInv'
PROOF
  BY RestingFits DEF UpdateRefused, viewVars, PortalInv, PortalTypes, ScreenFits, DelegationWaits

\* The page loads the ticket after its list.
LEMMA ReloadKeeps ==
    ASSUME PortalInv, ReloadCase
    PROVE  PortalInv'
PROOF
  BY AskedCase DEF ReloadCase, viewVars, PortalInv, PortalTypes, NotDelegating, Delegation, CardRow, CaseSlots,
     ScreenFits, DelegationWaits

\* Every step of the page, of the service and of an operator keeps the copies fitting.
LEMMA PortalKeeps == PortalInv /\ [PortalNext]_portalVars => PortalInv'
PROOF
<1>1. ASSUME PortalInv, UNCHANGED portalVars PROVE PortalInv'
  BY <1>1 DEF portalVars, PortalInv, PortalTypes, ScreenFits, DelegationWaits
<1> QED
  BY <1>1, OperatorKeeps, FilterKeeps, AnswerListKeeps, ShowListKeeps, ListFailsKeeps, SelectKeeps, RefreshKeeps,
     AnswerCaseKeeps, ShowCaseKeeps, DelegateKeeps, UpdateKeeps, RefusedKeeps, ReloadKeeps
  DEF PortalNext, ListSlots, CaseSlots

\* A status change goes through when the stored version is that of the card: then so is the status.
LEMMA OverridesWhatWasSeen ==
    ASSUME PortalInv, [PortalNext]_portalVars, delegating.pc = "sent", delegating'.pc = "list"
    PROVE  deskTickets[delegating.card.id].status = delegating.card.status
PROOF
<1>1. CASE UpdateTicketStatus
  BY <1>1 DEF UpdateTicketStatus, PortalInv, DelegationFits, Fits
<1>2. delegating' = delegating => FALSE
  OBVIOUS
<1>3. delegating' = NotDelegating => FALSE
  BY DEF NotDelegating
<1>4. ASSUME NEW l \in ListSlots, AfterList(l) PROVE FALSE
  BY <1>2, <1>4 DEF AfterList, PortalInv, PortalTypes, NotDelegating, Delegation
<1>5. ASSUME NEW card, NEW to, Delegate(card, to) PROVE FALSE
  BY <1>5 DEF Delegate, NotDelegating
<1>6. ASSUME NEW l, AfterCase(l) PROVE FALSE
  BY <1>2, <1>3, <1>6 DEF AfterCase
<1>7. UpdateTicketStatus
  BY <1>2, <1>3, <1>4, <1>5, <1>6
  DEF PortalNext, portalVars, RefreshDetail, UpdateRefused, ReloadCase, OperatorUpdates, SelectDeskTicket,
      FilterTickets, AnswerDeskList, ShowList, DeskListFails, AnswerCase, ShowCase, CaseFails, ListSlots
<1> QED
  BY <1>1, <1>7

-----------------------------------------------------------------------------
(* The client's tickets at rest: the detail, and what was delegated.         *)

OneRowEach(rows) == \A c, d \in rows : c.id = d.id => c = d
CaseSubject(load) == IF load.pc = "asked" THEN load.id ELSE load.row.id
IsCurrent(c, desk) == c.version = desk[c.id].version

DeskTypes ==
    /\ delegated \in PortalTickets \cup {NoCase} /\ unseen \subseteq PortalTickets
    /\ portalClash \in BOOLEAN /\ portalMishap \in BOOLEAN /\ portalOps \in 0..MaxPortalOps
    /\ openCase = {} \/ \E c \in openCase : openCase = {c}
    /\ OneRowEach(cards)
    /\ \A l \in ListSlots : listLoads[l].pc = "answered" => OneRowEach(listLoads[l].rows)

\* Every version is paid for by a click, the one of a status change when it is sent.
VersionsInv == \A t \in PortalTickets : /\ deskTickets[t].version <= portalOps
                                        /\ delegating.pc = "sent" => deskTickets[t].version < portalOps

\* Without a clash one load of a kind is under way, and it is of the ticket that is picked or delegated.
OneAtATime ==
    /\ delegating.pc # "idle" => listLoads["user"].pc = "idle"
    /\ \A k, l \in CaseSlots : caseLoads[k].pc # "idle" /\ caseLoads[l].pc # "idle" => k = l
AllRead == delegating.pc \in {"idle", "sent"}
SubjectsInv ==
    /\ delegating.pc \in {"list", "case"} => delegated = delegating.card.id
    /\ \A l \in {"pick", "again"} : caseLoads[l].pc # "idle" => CaseSubject(caseLoads[l]) = pickedCard
    /\ caseLoads["delegate"].pc # "idle" => CaseSubject(caseLoads["delegate"]) = delegated
    /\ AllRead /\ (\A l \in CaseSlots : caseLoads[l].pc = "idle") =>
         \A c \in openCase : c.id \in {pickedCard, delegated}

\* What is known of the ticket delegated last, as long as no operator changed it.
KnownOf(rows) == \A c \in rows : c.id = delegated => IsCurrent(c, deskTickets)
ShownInv ==
    /\ delegating.pc # "list" => KnownOf(cards)
    /\ \A l \in ListSlots : listLoads[l].pc = "answered" => KnownOf(listLoads[l].rows)
    /\ AllRead => /\ KnownOf(openCase)
                  /\ \A l \in CaseSlots : caseLoads[l].pc = "answered" => KnownOf({caseLoads[l].row})
    /\ caseLoads["delegate"].pc = "answered" => KnownOf({caseLoads["delegate"].row})

DeskCalm == OneAtATime /\ SubjectsInv
Undisturbed == ~portalMishap /\ delegated \notin unseen
DeskInv == DeskTypes /\ VersionsInv /\ (~portalClash => DeskCalm /\ (Undisturbed => ShownInv))

-----------------------------------------------------------------------------
LEMMA LoadsTell ==
    ASSUME PortalInv
    PROVE  /\ \A l \in ListSlots : /\ listLoads[l].pc \in {"idle", "asked", "answered"}
                                   /\ listLoads[l] = NoLoad <=> listLoads[l].pc = "idle"
           /\ \A l \in CaseSlots : /\ caseLoads[l].pc \in {"idle", "asked", "answered"}
                                   /\ caseLoads[l] = NoLoad <=> caseLoads[l].pc = "idle"
           /\ DOMAIN listLoads = ListSlots /\ DOMAIN caseLoads = CaseSlots
           /\ delegating.pc \in {"idle", "sent", "list", "case"}
           /\ delegating = NotDelegating <=> delegating.pc = "idle"
           /\ delegating.pc # "idle" => delegating \in Delegation
PROOF
  BY DEF PortalInv, PortalTypes, ListLoad, NoLoad, CaseLoad, Delegation, NotDelegating

LEMMA BusyTells ==
    ASSUME PortalInv
    PROVE  /\ Busy(listLoads) <=> \E l \in ListSlots : listLoads[l].pc # "idle"
           /\ Busy(caseLoads) <=> \E l \in CaseSlots : caseLoads[l].pc # "idle"
PROOF
  BY LoadsTell DEF Busy

LEMMA IdleIs == NoLoad.pc = "idle" /\ NotDelegating.pc = "idle"
PROOF
  BY DEF NoLoad, NotDelegating

LEMMA DeskStarts == PortalInit => DeskInv
PROOF
<1> SUFFICES ASSUME PortalInit PROVE DeskInv
  OBVIOUS
<1> USE DEF PortalInit
<1>1. PortalInv /\ MaxPortalOps \in Nat
  BY PortalStarts, PortalAssumption
<1>2. /\ \A l \in ListSlots : listLoads[l].pc # "answered"
      /\ \A l \in CaseSlots : caseLoads[l].pc = "idle"
      /\ delegating.pc = "idle"
  BY IdleIs DEF ListSlots, CaseSlots
<1>3. 0 \in 0..MaxPortalOps /\ cards = {} /\ openCase = {}
  BY <1>1
<1>4. DeskTypes
  BY <1>2, <1>3 DEF DeskTypes, OneRowEach
<1>5. VersionsInv
  BY <1>2 DEF VersionsInv
<1>6. OneAtATime
  BY <1>2 DEF OneAtATime
<1>7. SubjectsInv
  BY <1>2, <1>3 DEF SubjectsInv, CaseSlots
<1>8. ShownInv
  BY <1>2, <1>3 DEF ShownInv, KnownOf, CaseSlots
<1> QED
  BY <1>4, <1>5, <1>6, <1>7, <1>8 DEF DeskInv, DeskCalm

LEMMA DeskKeeps == PortalInv /\ DeskInv => DeskTypeOK /\ DetailIsOfTheTicket /\ DelegationIsShown
PROOF
<1> SUFFICES ASSUME PortalInv, DeskInv PROVE DeskTypeOK /\ DetailIsOfTheTicket /\ DelegationIsShown
  OBVIOUS
<1> USE DEF DeskInv
<1>1. ASSUME NEW c, Fits(c, deskTickets) PROVE c \in Card /\ c \in CardRow
  <2>1. c \in CardRow /\ c.id \in PortalTickets /\ c.version \in Nat /\ c.version <= deskTickets[c.id].version
    BY <1>1 DEF Fits, CardRow
  <2>2. deskTickets[c.id].version \in Nat /\ deskTickets[c.id].version <= portalOps /\ portalOps \in Nat
        /\ portalOps <= MaxPortalOps /\ MaxPortalOps \in Nat
    BY <2>1, PortalAssumption DEF PortalInv, PortalTypes, StoredTicket, VersionsInv, DeskTypes
  <2>3. c.version \in 0..MaxPortalOps
    BY ONLY <2>1, <2>2
  <2> QED  BY <2>1, <2>3 DEF CardRow, Card, Versions
<1>2. deskTickets \in [PortalTickets -> Stored]
  <2>1. ASSUME NEW t \in PortalTickets PROVE deskTickets[t] \in Stored
    <3>1. deskTickets[t] \in StoredTicket /\ deskTickets[t].version \in Nat
      BY DEF PortalInv, PortalTypes, StoredTicket
    <3>2. deskTickets[t].version <= portalOps /\ portalOps \in Nat /\ portalOps <= MaxPortalOps /\ MaxPortalOps \in Nat
      BY PortalAssumption DEF VersionsInv, DeskTypes
    <3>3. deskTickets[t].version \in 0..MaxPortalOps
      BY ONLY <3>1, <3>2
    <3> QED  BY <3>1, <3>3 DEF Stored, StoredTicket, Versions
  <2> QED  BY <2>1 DEF PortalInv, PortalTypes
<1>3. cards \subseteq Card /\ openCase \subseteq Card
  BY <1>1 DEF PortalInv, ScreenFits
<1>4. openCase = {} \/ \E c \in Card : openCase = {c}
  BY <1>3 DEF DeskTypes
<1>5. ASSUME NEW l \in ListSlots
      PROVE  listLoads[l] = NoLoad \/ listLoads[l] \in [pc : {"asked"}, filter : PortalFilters]
             \/ listLoads[l] \in [pc : {"answered"}, rows : SUBSET Card]
  <2>1. listLoads[l] \in ListLoad
    BY <1>5 DEF PortalInv, PortalTypes
  <2>2. ASSUME listLoads[l] \in [pc : {"answered"}, rows : SUBSET CardRow]
        PROVE  listLoads[l] \in [pc : {"answered"}, rows : SUBSET Card]
    BY <1>1, <2>2 DEF PortalInv, ListFits
  <2> QED  BY <2>1, <2>2 DEF ListLoad
<1>6. ASSUME NEW l \in CaseSlots
      PROVE  caseLoads[l] = NoLoad \/ caseLoads[l] \in [pc : {"asked"}, id : PortalTickets]
             \/ caseLoads[l] \in [pc : {"answered"}, row : Card]
  <2>1. caseLoads[l] \in CaseLoad
    BY <1>6 DEF PortalInv, PortalTypes
  <2>2. ASSUME caseLoads[l] \in [pc : {"answered"}, row : CardRow]
        PROVE  caseLoads[l] \in [pc : {"answered"}, row : Card]
    BY <1>1, <2>2 DEF PortalInv, CaseFits
  <2> QED  BY <2>1, <2>2 DEF CaseLoad
<1>7. \/ delegating = NotDelegating
      \/ delegating \in [pc : {"sent", "list", "case"}, card : Card, to : CaseStatuses, filter : PortalFilters]
  <2>1. ASSUME delegating # NotDelegating
        PROVE  delegating \in [pc : {"sent", "list", "case"}, card : Card, to : CaseStatuses, filter : PortalFilters]
    BY <2>1, LoadsTell, <1>1 DEF PortalInv, DelegationFits, Delegation
  <2> QED  BY <2>1
<1>8. DeskTypeOK
  BY <1>2, <1>3, <1>4, <1>5, <1>6, <1>7
     DEF DeskTypeOK, PortalInv, PortalTypes, DeskTypes, OneRowEach, ListSlots, CaseSlots, Versions
<1>9. DeskAtRest => /\ delegating.pc = "idle"
                    /\ \A l \in CaseSlots : caseLoads[l].pc = "idle"
  BY BusyTells, LoadsTell DEF DeskAtRest
<1>10. DetailIsOfTheTicket
  BY <1>9 DEF DetailIsOfTheTicket, DeskCalm, SubjectsInv, AllRead
<1>11. DelegationIsShown
  <2>1. ASSUME DeskAtRest, ~portalClash, ~portalMishap, delegated \notin unseen,
               NEW c \in cards \cup openCase, c.id = delegated
        PROVE  c = CardOf(delegated)
    BY <1>9, <2>1 DEF Undisturbed, ShownInv, KnownOf, AllRead, PortalInv, ScreenFits, Fits, IsCurrent, CardRow,
       CardOf
  <2> QED  BY <2>1 DEF DelegationIsShown
<1> QED
  BY <1>8, <1>10, <1>11

-----------------------------------------------------------------------------
\* What the service knows is current.
LEMMA CardIsCurrent ==
    ASSUME NEW t \in PortalTickets
    PROVE  CardOf(t).id = t /\ IsCurrent(CardOf(t), deskTickets)
PROOF
  BY DEF CardOf, IsCurrent

\* A version more, and a click more or one that was counted.
LEMMA OneMore ==
    ASSUME PortalInv, VersionsInv, portalOps \in Nat, NEW t \in PortalTickets, NEW to \in CaseStatuses, Raised(t, to)
    PROVE  /\ portalOps' = portalOps + 1 /\ delegating' = delegating => VersionsInv'
           /\ portalOps' = portalOps /\ delegating.pc = "sent" /\ delegating'.pc # "sent" => VersionsInv'
           /\ \A c : Fits(c, deskTickets) /\ c.id # t /\ IsCurrent(c, deskTickets) => IsCurrent(c, deskTickets')
PROOF
<1>1. deskTickets \in [PortalTickets -> StoredTicket] /\ \A u \in PortalTickets : deskTickets[u].version \in Nat
  BY DEF PortalInv, PortalTypes, StoredTicket
<1>2. \A u \in PortalTickets : u # t => deskTickets'[u] = deskTickets[u]
  BY <1>1 DEF Raised
<1>3. deskTickets'[t].version = deskTickets[t].version + 1
  BY <1>1 DEF Raised
<1>4. ASSUME portalOps' = portalOps + 1, delegating' = delegating PROVE VersionsInv'
  <2>1. ASSUME NEW u \in PortalTickets
        PROVE  /\ deskTickets'[u].version <= portalOps'
               /\ delegating'.pc = "sent" => deskTickets'[u].version < portalOps'
    BY <1>2, <1>3, <1>1, <1>4 DEF VersionsInv
  <2> QED  BY <2>1 DEF VersionsInv
<1>5. ASSUME portalOps' = portalOps, delegating.pc = "sent", delegating'.pc # "sent" PROVE VersionsInv'
  <2>1. ASSUME NEW u \in PortalTickets PROVE deskTickets'[u].version <= portalOps'
    BY <1>2, <1>3, <1>1, <1>5 DEF VersionsInv
  <2> QED  BY <1>5, <2>1 DEF VersionsInv
<1>6. \A c : Fits(c, deskTickets) /\ c.id # t /\ IsCurrent(c, deskTickets) => IsCurrent(c, deskTickets')
  BY <1>2 DEF Fits, CardRow, IsCurrent
<1> QED
  BY <1>4, <1>5, <1>6

\* A click more changes nothing else that is counted.
LEMMA Clicked ==
    ASSUME DeskInv, Click
    PROVE  /\ portalOps' \in 0..MaxPortalOps
           /\ UNCHANGED deskTickets /\ PortalInv => VersionsInv'
           /\ portalOps' = portalOps + 1 /\ portalOps \in Nat
PROOF
<1>1. portalOps \in Nat /\ MaxPortalOps \in Nat /\ portalOps < MaxPortalOps /\ portalOps' = portalOps + 1
  BY PortalAssumption DEF DeskInv, DeskTypes, Click
<1>2. portalOps' \in 0..MaxPortalOps
  BY ONLY <1>1
<1>3. ASSUME UNCHANGED deskTickets, PortalInv PROVE VersionsInv'
  <2>1. ASSUME NEW u \in PortalTickets PROVE deskTickets'[u].version < portalOps' /\ deskTickets'[u].version <= portalOps'
    <3>1. deskTickets'[u].version = deskTickets[u].version
      BY <1>3
    <3>2. deskTickets[u].version \in Nat /\ deskTickets[u].version <= portalOps
      BY <1>3 DEF PortalInv, PortalTypes, StoredTicket, DeskInv, VersionsInv
    <3> QED  BY ONLY <1>1, <3>1, <3>2
  <2> QED  BY <2>1 DEF VersionsInv
<1> QED
  BY <1>1, <1>2, <1>3

-----------------------------------------------------------------------------
LEMMA DeskOperator == ASSUME PortalInv, DeskInv, NEW t \in PortalTickets, OperatorUpdates(t) PROVE DeskInv'
PROOF
<1> USE DEF DeskInv
<1>1. PICK to \in CaseStatuses : Raised(t, to)
  BY DEF OperatorUpdates, Raised
<1>2. /\ Click /\ unseen' = unseen \cup {t}
      /\ UNCHANGED <<filterBy, cards, pickedCard, openCase, listLoads, caseLoads, delegating, delegated, portalClash, portalMishap>>
  BY DEF OperatorUpdates, viewVars
<1>3. portalOps' \in 0..MaxPortalOps /\ portalOps' = portalOps + 1 /\ portalOps \in Nat
  BY <1>2, Clicked
<1>4. /\ VersionsInv'
      /\ \A c : Fits(c, deskTickets) /\ c.id # t /\ IsCurrent(c, deskTickets) => IsCurrent(c, deskTickets')
  BY <1>1, <1>2, <1>3, OneMore
<1>5. DeskTypes'
  BY <1>2, <1>3 DEF DeskTypes
<1>6. DeskCalm => DeskCalm'
  BY <1>2 DEF DeskCalm, OneAtATime, SubjectsInv, AllRead
<1>7. ASSUME Undisturbed', ~portalClash PROVE ShownInv'
  BY <1>2, <1>7, <1>4 DEF Undisturbed, KnownOf, PortalInv, ScreenFits, ListFits, CaseFits, ShownInv, AllRead,
     CaseSlots
<1> QED
  BY <1>2, <1>4, <1>5, <1>6, <1>7

\* The client asks for a list.
LEMMA DeskFilter == ASSUME PortalInv, DeskInv, NEW asked \in PortalFilters, FilterTickets(asked) PROVE DeskInv'
PROOF
<1> USE DEF DeskInv
<1> DEFINE load == [pc |-> "asked", filter |-> asked]
<1>1. /\ Click /\ listLoads["user"] = NoLoad /\ listLoads' = [listLoads EXCEPT !["user"] = load]
      /\ portalClash' = (portalClash \/ Busy(listLoads) \/ delegating # NotDelegating)
      /\ UNCHANGED <<deskTickets, cards, pickedCard, openCase, caseLoads, delegating, delegated, unseen, portalMishap>>
  BY DEF FilterTickets, AskDeskList
<1>2. portalOps' \in 0..MaxPortalOps /\ VersionsInv'
  BY <1>1, Clicked
<1>3. load.pc = "asked"
  OBVIOUS
<1> HIDE DEF load
<1>4. listLoads'["user"] = load /\ listLoads'["delegate"] = listLoads["delegate"]
      /\ \A l \in ListSlots : listLoads'[l].pc = "answered" => listLoads'[l] = listLoads[l]
  BY <1>1, <1>3, LoadsTell DEF ListSlots
<1>5. DeskTypes'
  BY <1>1, <1>2, <1>4 DEF DeskTypes
<1>6. ASSUME ~portalClash' PROVE DeskCalm'
  BY <1>1, <1>6, LoadsTell DEF DeskTypes, DeskCalm, OneAtATime, SubjectsInv, AllRead
<1>7. ASSUME ~portalClash', Undisturbed' PROVE ShownInv'
  BY <1>1, <1>7, <1>4 DEF Undisturbed, ShownInv, KnownOf, AllRead
<1> QED
  BY <1>2, <1>5, <1>6, <1>7

LEMMA DeskListAnswered == ASSUME PortalInv, DeskInv, NEW l \in ListSlots, AnswerDeskList(l) PROVE DeskInv'
PROOF
<1> USE DEF DeskInv
<1> DEFINE seen == {u \in PortalTickets : listLoads[l].filter = "all" \/ deskTickets[u].status # "resolved"}
           rows == {CardOf(t) : t \in seen}
           load == [pc |-> "answered", rows |-> rows]
<1>1. /\ listLoads[l].pc = "asked" /\ listLoads' = [listLoads EXCEPT ![l] = load]
      /\ UNCHANGED <<deskTickets, filterBy, cards, pickedCard, openCase, caseLoads, delegating, delegated, unseen,
                     portalClash, portalMishap, portalOps>>
  BY DEF AnswerDeskList, viewVars
<1>2. \A c \in rows : IsCurrent(c, deskTickets) /\ c = CardOf(c.id)
  BY CardIsCurrent
<1>3. OneRowEach(rows)
  BY <1>2 DEF OneRowEach
<1>4. load.pc = "answered" /\ load.rows = rows
  OBVIOUS
<1> HIDE DEF load, rows
<1>5. listLoads'[l] = load /\ \A k \in ListSlots : k # l => listLoads'[k] = listLoads[k]
  BY <1>1, LoadsTell
<1>6. \A k \in ListSlots : listLoads'[k].pc = "idle" <=> listLoads[k].pc = "idle"
  BY <1>1, <1>4, <1>5
<1>7. DeskTypes'
  BY <1>1, <1>3, <1>4, <1>5 DEF DeskTypes
<1>8. DeskCalm => DeskCalm'
  BY <1>6, <1>1 DEF ListSlots, DeskCalm, OneAtATime, SubjectsInv, AllRead
<1>9. Undisturbed' = Undisturbed /\ VersionsInv'
  BY <1>1 DEF Undisturbed, VersionsInv
<1>10. ShownInv => ShownInv'
  BY <1>1, <1>2, <1>4, <1>5 DEF ShownInv, KnownOf, AllRead
<1> QED
  BY <1>1, <1>7, <1>8, <1>9, <1>10

-----------------------------------------------------------------------------
\* The pick changes, or stays.
LEMMA DeskPicks ==
    ASSUME PortalInv, DeskInv, NEW t \in PortalTickets \cup {NoCase}, Picks(t),
           UNCHANGED <<deskTickets, delegated, unseen, portalMishap>>,
           delegating' = delegating \/ (delegating.pc = "list" /\ delegating'.pc = "case" /\ delegating'.card = delegating.card)
    PROVE  /\ portalClash' \in BOOLEAN /\ (portalClash => portalClash')
           /\ openCase' = {} \/ \E c \in openCase' : openCase' = {c}
           /\ ~portalClash' => /\ \A k, l \in CaseSlots : caseLoads'[k].pc # "idle" /\ caseLoads'[l].pc # "idle" => k = l
                               /\ SubjectsInv'
           /\ openCase' \subseteq openCase
           /\ \A k \in CaseSlots : caseLoads'[k].pc = "answered" => caseLoads'[k] = caseLoads[k]
           /\ caseLoads'["delegate"] = caseLoads["delegate"]
PROOF
<1> USE DEF DeskInv
<1> DEFINE load == [pc |-> "asked", id |-> t]
<1>1. /\ pickedCard' = t
      /\ \/ t = pickedCard /\ UNCHANGED <<openCase, caseLoads, portalClash>>
         \/ /\ portalClash' = (portalClash \/ Busy(caseLoads)) /\ t = NoCase /\ openCase' = {} /\ UNCHANGED caseLoads
         \/ /\ portalClash' = (portalClash \/ Busy(caseLoads)) /\ UNCHANGED openCase
            /\ caseLoads["pick"] = NoLoad /\ caseLoads' = [caseLoads EXCEPT !["pick"] = load]
  BY DEF Picks, AskCase
<1>2. load.pc = "asked" /\ load.id = t
  OBVIOUS
<1> HIDE DEF load
<1>3. delegating'.pc \in {"list", "case"} => delegating.pc \in {"list", "case"} /\ delegating'.card = delegating.card
  OBVIOUS
<1>4. AllRead' => AllRead
  BY DEF AllRead
<1>5. CASE t = pickedCard /\ UNCHANGED <<openCase, caseLoads, portalClash>>
  BY <1>1, <1>3, <1>4, <1>5 DEF DeskTypes, DeskCalm, OneAtATime, SubjectsInv
<1>6. CASE /\ portalClash' = (portalClash \/ Busy(caseLoads)) /\ t = NoCase /\ openCase' = {} /\ UNCHANGED caseLoads
  BY <1>6, BusyTells, <1>1, <1>3 DEF DeskTypes, DeskCalm, SubjectsInv, CaseSlots
<1>7. CASE /\ portalClash' = (portalClash \/ Busy(caseLoads)) /\ UNCHANGED openCase
           /\ caseLoads["pick"] = NoLoad /\ caseLoads' = [caseLoads EXCEPT !["pick"] = load]
  <2>1. portalClash' \in BOOLEAN /\ (portalClash => portalClash')
    BY <1>7 DEF DeskTypes
  <2>2. caseLoads'["pick"] = load /\ \A k \in CaseSlots : k # "pick" => caseLoads'[k] = caseLoads[k]
    BY <1>7, LoadsTell DEF CaseSlots
  <2>3. ASSUME ~portalClash' PROVE \A l \in CaseSlots : caseLoads[l].pc = "idle"
    BY <1>7, <2>3, BusyTells
  <2>4. ASSUME ~portalClash' PROVE SubjectsInv'
    BY <1>2, <2>2, <2>3, <2>4, <2>1, <1>1, <1>3 DEF CaseSubject, CaseSlots, DeskCalm, SubjectsInv
  <2>5. \A k \in CaseSlots : caseLoads'[k].pc = "answered" => caseLoads'[k] = caseLoads[k]
    BY <1>2, <2>2
  <2>6. caseLoads'["delegate"] = caseLoads["delegate"]
    BY <2>2 DEF CaseSlots
  <2>7. openCase' = {} \/ \E c \in openCase' : openCase' = {c}
    BY <1>7 DEF DeskTypes
  <2>8. ASSUME ~portalClash', NEW k \in CaseSlots, NEW m \in CaseSlots, caseLoads'[k].pc # "idle", caseLoads'[m].pc # "idle"
        PROVE  k = m
    BY <2>2, <2>3, <2>8
  <2> QED  BY <1>7, <2>1, <2>4, <2>5, <2>6, <2>7, <2>8
<1> QED
  BY <1>1, <1>5, <1>6, <1>7

\* A list request is over, and a delegation that waits for it goes on.
LEMMA ListEnds ==
    ASSUME PortalInv, DeskInv, NEW l \in ListSlots, listLoads[l].pc # "idle",
           listLoads' = [listLoads EXCEPT ![l] = NoLoad], AfterList(l)
    PROVE  /\ \A k \in ListSlots : k # l => listLoads'[k] = listLoads[k]
           /\ listLoads'[l].pc = "idle"
           /\ \/ l = "user" /\ delegating' = delegating
              \/ /\ l = "delegate" /\ delegating.pc = "list" /\ delegating'.pc = "case"
                 /\ delegating'.card = delegating.card
PROOF
<1>1. /\ \A k \in ListSlots : k # l => listLoads'[k] = listLoads[k]
      /\ listLoads'[l].pc = "idle"
  BY LoadsTell, IdleIs
<1>2. CASE l = "user"
  BY <1>1, <1>2 DEF AfterList
<1>3. CASE l = "delegate"
  BY <1>3, LoadsTell, <1>1 DEF PortalInv, DelegationWaits, AfterList, Delegation
<1> QED
  BY <1>2, <1>3 DEF ListSlots

LEMMA DeskListShown == ASSUME PortalInv, DeskInv, NEW l \in ListSlots, ShowList(l) PROVE DeskInv'
PROOF
<1> USE DEF DeskInv
<1>1. /\ listLoads[l].pc = "answered" /\ cards' = listLoads[l].rows
      /\ listLoads' = [listLoads EXCEPT ![l] = NoLoad] /\ AfterList(l)
      /\ UNCHANGED <<deskTickets, filterBy, delegated, unseen, portalMishap, portalOps>>
  BY DEF ShowList
<1>2. PICK t \in PortalTickets \cup {NoCase} : Picks(t)
  BY <1>1 DEF PortalInv, ListFits, Fits, CardRow, ShowList, PortalTypes
<1>3. /\ \A k \in ListSlots : k # l => listLoads'[k] = listLoads[k]
      /\ listLoads'[l].pc = "idle"
      /\ \/ l = "user" /\ delegating' = delegating
         \/ /\ l = "delegate" /\ delegating.pc = "list" /\ delegating'.pc = "case"
            /\ delegating'.card = delegating.card
  BY <1>1, ListEnds
<1>4. /\ portalClash' \in BOOLEAN /\ (portalClash => portalClash')
      /\ openCase' = {} \/ \E c \in openCase' : openCase' = {c}
      /\ ~portalClash' => /\ \A k, m \in CaseSlots : caseLoads'[k].pc # "idle" /\ caseLoads'[m].pc # "idle" => k = m
                          /\ SubjectsInv'
      /\ openCase' \subseteq openCase
      /\ \A k \in CaseSlots : caseLoads'[k].pc = "answered" => caseLoads'[k] = caseLoads[k]
      /\ caseLoads'["delegate"] = caseLoads["delegate"]
  BY <1>1, <1>2, <1>3, DeskPicks
<1>5. DeskTypes'
  BY <1>1, <1>3, <1>4 DEF DeskTypes
<1>6. VersionsInv'
  BY <1>1, <1>3 DEF VersionsInv
<1>7. ASSUME ~portalClash' PROVE OneAtATime'
  BY <1>4, <1>7, <1>3 DEF DeskCalm, OneAtATime, ListSlots
<1>8. ASSUME ~portalClash', Undisturbed' PROVE ShownInv'
  BY <1>1, <1>4, <1>8, <1>3 DEF Undisturbed, ShownInv, KnownOf, AllRead
<1> QED
  BY <1>4, <1>5, <1>6, <1>7, <1>8 DEF DeskCalm

LEMMA DeskListLost == ASSUME PortalInv, DeskInv, NEW l \in ListSlots, DeskListFails(l) PROVE DeskInv'
PROOF
<1> USE DEF DeskInv
<1>1. /\ listLoads[l].pc = "asked" /\ listLoads' = [listLoads EXCEPT ![l] = NoLoad] /\ AfterList(l)
      /\ portalMishap' = TRUE
      /\ UNCHANGED <<deskTickets, filterBy, cards, pickedCard, openCase, caseLoads, delegated, unseen, portalClash, portalOps>>
  BY DEF DeskListFails, viewVars
<1>2. /\ \A k \in ListSlots : k # l => listLoads'[k] = listLoads[k]
      /\ listLoads'[l].pc = "idle"
      /\ \/ l = "user" /\ delegating' = delegating
         \/ /\ l = "delegate" /\ delegating.pc = "list" /\ delegating'.pc = "case"
            /\ delegating'.card = delegating.card
  BY <1>1, ListEnds
<1>3. DeskTypes'
  BY <1>1, <1>2 DEF DeskTypes
<1>4. VersionsInv'
  BY <1>1, <1>2 DEF VersionsInv
<1>5. DeskCalm => DeskCalm'
  BY <1>2, <1>1 DEF DeskCalm, OneAtATime, ListSlots, AllRead, SubjectsInv
<1> QED
  BY <1>1, <1>3, <1>4, <1>5 DEF Undisturbed

LEMMA DeskSelected == ASSUME PortalInv, DeskInv, NEW t \in PortalTickets, SelectDeskTicket(t) PROVE DeskInv'
PROOF
<1> USE DEF DeskInv
<1>1. Click /\ Picks(t) /\ UNCHANGED <<deskTickets, filterBy, cards, listLoads, delegating, delegated, unseen, portalMishap>>
  BY DEF SelectDeskTicket
<1>2. /\ portalClash' \in BOOLEAN /\ (portalClash => portalClash')
      /\ openCase' = {} \/ \E c \in openCase' : openCase' = {c}
      /\ ~portalClash' => /\ \A k, m \in CaseSlots : caseLoads'[k].pc # "idle" /\ caseLoads'[m].pc # "idle" => k = m
                          /\ SubjectsInv'
      /\ openCase' \subseteq openCase
      /\ \A k \in CaseSlots : caseLoads'[k].pc = "answered" => caseLoads'[k] = caseLoads[k]
      /\ caseLoads'["delegate"] = caseLoads["delegate"]
  BY <1>1, DeskPicks
<1>3. portalOps' \in 0..MaxPortalOps /\ VersionsInv'
  BY <1>1, Clicked
<1>4. DeskTypes'
  BY <1>1, <1>2, <1>3 DEF DeskTypes
<1>5. ~portalClash' => OneAtATime'
  BY <1>1, <1>2 DEF DeskCalm, OneAtATime
<1>6. ASSUME ~portalClash', Undisturbed' PROVE ShownInv'
  BY <1>1, <1>2, <1>6 DEF Undisturbed, ShownInv, KnownOf, AllRead
<1> QED
  BY <1>2, <1>3, <1>4, <1>5, <1>6 DEF DeskCalm

-----------------------------------------------------------------------------
\* A ticket is asked for, answered, shown or not.
LEMMA DeskAgain == ASSUME PortalInv, DeskInv, RefreshDetail PROVE DeskInv'
PROOF
<1> USE DEF DeskInv
<1> DEFINE load == [pc |-> "asked", id |-> pickedCard]
<1>1. /\ Click /\ ~Busy(caseLoads) /\ caseLoads' = [caseLoads EXCEPT !["again"] = load]
      /\ UNCHANGED <<deskTickets, filterBy, cards, pickedCard, openCase, listLoads, delegating, delegated, unseen,
                     portalClash, portalMishap>>
  BY DEF RefreshDetail, AskCase, viewVars
<1>2. load.pc = "asked" /\ load.id = pickedCard
  OBVIOUS
<1> HIDE DEF load
<1>3. /\ \A k \in CaseSlots : caseLoads[k].pc = "idle"
      /\ caseLoads'["again"] = load /\ caseLoads'["pick"] = caseLoads["pick"]
      /\ caseLoads'["delegate"] = caseLoads["delegate"]
  BY <1>1, BusyTells, LoadsTell DEF CaseSlots
<1>4. portalOps' \in 0..MaxPortalOps /\ VersionsInv'
  BY <1>1, Clicked
<1>5. DeskTypes'
  BY <1>1, <1>4 DEF DeskTypes
<1>6. DeskCalm => OneAtATime'
  BY <1>1, <1>3 DEF DeskCalm, OneAtATime, CaseSlots
<1>7. DeskCalm => SubjectsInv'
  BY <1>1, <1>2, <1>3 DEF DeskCalm, SubjectsInv, CaseSubject, CaseSlots
<1>8. Undisturbed' = Undisturbed
  BY <1>1 DEF Undisturbed
<1>9. ShownInv => ShownInv'
  BY <1>1, <1>2, <1>3 DEF ShownInv, KnownOf, AllRead, CaseSlots
<1> QED
  BY <1>1, <1>4, <1>5, <1>6, <1>7, <1>8, <1>9 DEF DeskCalm

LEMMA DeskCaseAnswered == ASSUME PortalInv, DeskInv, NEW l \in CaseSlots, AnswerCase(l) PROVE DeskInv'
PROOF
<1> USE DEF DeskInv
<1> DEFINE row == CardOf(caseLoads[l].id)
           load == [pc |-> "answered", row |-> row]
<1>1. /\ caseLoads[l].pc = "asked" /\ caseLoads' = [caseLoads EXCEPT ![l] = load]
      /\ UNCHANGED <<deskTickets, filterBy, cards, pickedCard, openCase, listLoads, delegating, delegated, unseen,
                     portalClash, portalMishap, portalOps>>
  BY DEF AnswerCase, viewVars
<1>2. caseLoads[l].id \in PortalTickets
  BY <1>1 DEF PortalInv, PortalTypes, CaseLoad, NoLoad
<1>3. row.id = caseLoads[l].id /\ IsCurrent(row, deskTickets)
  BY <1>2, CardIsCurrent
<1> HIDE DEF row
<1>4. load.pc = "answered" /\ load.row = row
  OBVIOUS
<1> HIDE DEF load
<1>5. caseLoads'[l] = load /\ \A k \in CaseSlots : k # l => caseLoads'[k] = caseLoads[k]
  BY <1>1, LoadsTell
<1>6. \A k \in CaseSlots : /\ caseLoads'[k].pc = "idle" <=> caseLoads[k].pc = "idle"
                           /\ caseLoads[k].pc # "idle" => CaseSubject(caseLoads'[k]) = CaseSubject(caseLoads[k])
  BY <1>1, <1>3, <1>4, <1>5 DEF CaseSubject
<1>7. DeskTypes' /\ VersionsInv'
  BY <1>1 DEF DeskTypes, VersionsInv
<1>8. DeskCalm => OneAtATime'
  BY <1>1, <1>6 DEF DeskCalm, OneAtATime
<1>9. DeskCalm => SubjectsInv'
  BY <1>1, <1>6 DEF DeskCalm, SubjectsInv, AllRead, CaseSlots
<1>10. Undisturbed' = Undisturbed
  BY <1>1 DEF Undisturbed
<1>11. \A k \in CaseSlots : caseLoads'[k].pc = "answered" => IsCurrent(caseLoads'[k].row, deskTickets) \/ caseLoads'[k] = caseLoads[k]
  BY <1>3, <1>4, <1>5
<1>12. ShownInv => ShownInv'
  BY <1>1, <1>11 DEF ShownInv, KnownOf, AllRead, CaseSlots
<1> QED
  BY <1>1, <1>7, <1>8, <1>9, <1>10, <1>12 DEF DeskCalm

LEMMA DeskCaseOver ==
    ASSUME PortalInv, DeskInv, NEW l \in CaseSlots, AfterCase(l), caseLoads[l].pc # "idle",
           UNCHANGED <<deskTickets, filterBy, cards, pickedCard, listLoads, delegated, unseen, portalClash, portalOps>>,
           \/ openCase' = {} /\ portalMishap' = TRUE
           \/ caseLoads[l].pc = "answered" /\ openCase' = {caseLoads[l].row} /\ UNCHANGED portalMishap
    PROVE  DeskInv'
PROOF
<1> USE DEF DeskInv
<1>1. caseLoads' = [caseLoads EXCEPT ![l] = NoLoad]
      /\ delegating' = IF l = "delegate" THEN NotDelegating ELSE delegating
  BY DEF AfterCase
<1>2. caseLoads'[l].pc = "idle" /\ \A k \in CaseSlots : k # l => caseLoads'[k] = caseLoads[k]
  BY <1>1, LoadsTell, IdleIs
<1>3. \A k \in CaseSlots : caseLoads'[k].pc # "idle" => caseLoads'[k] = caseLoads[k] /\ k # l
  BY <1>2
<1>4. l = "delegate" => delegating.pc = "case" /\ delegating'.pc = "idle"
  BY <1>1, IdleIs DEF PortalInv, DelegationWaits
<1>5. delegating' = delegating \/ (l = "delegate" /\ delegating'.pc = "idle")
  BY <1>1, <1>4
<1>6. DeskTypes'
  BY DEF DeskTypes
<1>7. VersionsInv'
  BY <1>5 DEF VersionsInv
<1>8. ASSUME ~portalClash PROVE OneAtATime'
  BY <1>3, <1>5, <1>8 DEF DeskCalm, OneAtATime
<1>9. ASSUME ~portalClash PROVE SubjectsInv'
  <2>1. \A c \in openCase' : c.id \in {pickedCard, delegated}
    <3>1. CASE openCase' = {}
      BY <3>1
    <3>2. CASE caseLoads[l].pc = "answered" /\ openCase' = {caseLoads[l].row}
      BY <3>2, <1>9 DEF CaseSubject, DeskCalm, SubjectsInv, CaseSlots
    <3> QED  BY <3>1, <3>2
  <2>2. delegating'.pc \in {"list", "case"} => delegating' = delegating
    BY <1>5
  <2>3. SubjectsInv
    BY <1>9 DEF DeskCalm
  <2> QED  BY <1>3, <2>1, <2>2, <2>3 DEF SubjectsInv, CaseSlots
<1>10. ASSUME ~portalClash, Undisturbed' PROVE ShownInv'
  <2>1. Undisturbed /\ ShownInv /\ caseLoads[l].pc = "answered" /\ openCase' = {caseLoads[l].row}
    BY <1>10 DEF Undisturbed
  <2>2. AllRead' => KnownOf({caseLoads[l].row})
    BY <1>1, <2>1 DEF ShownInv, AllRead
  <2>3. ASSUME AllRead', NEW k \in CaseSlots, caseLoads'[k].pc = "answered" PROVE KnownOf({caseLoads'[k].row})
    BY <1>3, <2>3, <1>10 DEF DeskCalm, OneAtATime
  <2>4. caseLoads'["delegate"].pc = "answered" => KnownOf({caseLoads'["delegate"].row})
    BY <1>3, <2>1 DEF ShownInv, CaseSlots
  <2>5. delegating'.pc # "list" => KnownOf(cards)
    BY <1>4, <1>5, <2>1 DEF ShownInv
  <2> QED  BY <2>1, <2>2, <2>3, <2>4, <2>5 DEF ShownInv, KnownOf
<1> QED
  BY <1>6, <1>7, <1>8, <1>9, <1>10 DEF DeskCalm

LEMMA DeskCaseShown == ASSUME PortalInv, DeskInv, NEW l \in CaseSlots, ShowCase(l) \/ CaseFails(l) PROVE DeskInv'
PROOF
  BY DeskCaseOver DEF ShowCase, CaseFails

-----------------------------------------------------------------------------
\* A status is pressed, stored or refused, and what was changed is loaded again.
LEMMA DeskDelegates == ASSUME PortalInv, DeskInv, NEW card \in cards \cup openCase, NEW to \in CaseStatuses, Delegate(card, to) PROVE DeskInv'
PROOF
<1> USE DEF DeskInv
<1> DEFINE d == [pc |-> "sent", card |-> card, to |-> to, filter |-> filterBy]
<1>1. /\ Click /\ delegating = NotDelegating /\ delegating' = d
      /\ portalClash' = (portalClash \/ Busy(listLoads) \/ Busy(caseLoads))
      /\ UNCHANGED <<deskTickets, filterBy, cards, pickedCard, openCase, listLoads, caseLoads, delegated, unseen, portalMishap>>
  BY DEF Delegate, viewVars
<1>2. d.pc = "sent" /\ delegating.pc = "idle"
  BY <1>1, IdleIs
<1> HIDE DEF d
<1>3. portalOps' \in 0..MaxPortalOps /\ VersionsInv'
  BY <1>1, Clicked
<1>4. DeskTypes'
  BY <1>1, <1>3 DEF DeskTypes
<1>5. ASSUME ~portalClash' PROVE DeskCalm'
  BY <1>1, <1>5, BusyTells, <1>2 DEF DeskTypes, ListSlots, DeskCalm, OneAtATime, SubjectsInv, AllRead
<1>6. ASSUME ~portalClash', Undisturbed' PROVE ShownInv'
  BY <1>1, <1>6, <1>2 DEF Undisturbed, ShownInv, KnownOf, AllRead
<1> QED
  BY <1>3, <1>4, <1>5, <1>6

LEMMA DeskUpdates == ASSUME PortalInv, DeskInv, UpdateTicketStatus PROVE DeskInv'
PROOF
<1> USE DEF DeskInv
<1> DEFINE load == [pc |-> "asked", filter |-> delegating.filter]
<1>1. /\ delegating.pc = "sent" /\ delegating' = [delegating EXCEPT !.pc = "list"]
      /\ deskTickets' = [deskTickets EXCEPT ![delegating.card.id] = [status |-> delegating.to, version |-> @.version + 1]]
      /\ listLoads' = [listLoads EXCEPT !["delegate"] = load]
      /\ delegated' = delegating.card.id /\ unseen' = unseen \ {delegating.card.id}
      /\ UNCHANGED <<filterBy, cards, pickedCard, openCase, caseLoads, portalClash, portalMishap, portalOps>>
  BY DEF UpdateTicketStatus, AskDeskList, viewVars
<1>2. delegating \in Delegation /\ delegating.card.id \in PortalTickets /\ delegating.to \in CaseStatuses
  BY <1>1, LoadsTell DEF Delegation, CardRow
<1>3. delegating'.pc = "list" /\ delegating'.card = delegating.card
  BY <1>1, <1>2 DEF Delegation
<1>4. PICK t \in PortalTickets, to \in CaseStatuses : t = delegating.card.id /\ to = delegating.to
  BY <1>2
<1>5. Raised(t, to)
  BY <1>1, <1>4 DEF Raised
<1>6. portalOps \in Nat
  BY PortalAssumption DEF DeskTypes
<1>7. VersionsInv'
  BY <1>1, <1>3, <1>5, <1>6, OneMore
<1>8. load.pc = "asked"
  OBVIOUS
<1> HIDE DEF load
<1>9. listLoads'["user"] = listLoads["user"] /\ listLoads'["delegate"].pc = "asked"
  BY <1>1, <1>8, LoadsTell DEF ListSlots
<1>10. DeskTypes'
  BY <1>1, <1>2, <1>9 DEF DeskTypes, ListSlots
<1>11. caseLoads["delegate"].pc = "idle"
  BY <1>1 DEF PortalInv, DelegationWaits
<1>12. ASSUME ~portalClash PROVE DeskCalm'
  BY <1>1, <1>12, <1>9, <1>3, <1>11 DEF DeskCalm, OneAtATime, SubjectsInv, AllRead
<1>13. ASSUME ~portalClash PROVE ShownInv'
  BY <1>1, <1>9, <1>13, <1>3, <1>11 DEF DeskCalm, OneAtATime, ShownInv, AllRead, ListSlots
<1> QED
  BY <1>1, <1>7, <1>10, <1>12, <1>13

LEMMA DeskRefused == ASSUME PortalInv, DeskInv, UpdateRefused PROVE DeskInv'
PROOF
  BY IdleIs DEF DeskInv, UpdateRefused, viewVars, DeskTypes, VersionsInv, DeskCalm, OneAtATime, SubjectsInv, AllRead,
     Undisturbed, ShownInv, KnownOf

LEMMA DeskReloads == ASSUME PortalInv, DeskInv, ReloadCase PROVE DeskInv'
PROOF
<1> USE DEF DeskInv
<1> DEFINE load == [pc |-> "asked", id |-> delegating.card.id]
<1>1. /\ delegating.pc = "case" /\ caseLoads' = [caseLoads EXCEPT !["delegate"] = load]
      /\ portalClash' = (portalClash \/ Busy(caseLoads))
      /\ UNCHANGED <<deskTickets, filterBy, cards, pickedCard, openCase, listLoads, delegating, delegated, unseen,
                     portalMishap, portalOps>>
  BY DEF ReloadCase, AskCase, viewVars
<1>2. load.pc = "asked" /\ load.id = delegating.card.id
  OBVIOUS
<1> HIDE DEF load
<1>3. caseLoads'["delegate"] = load /\ caseLoads'["pick"] = caseLoads["pick"] /\ caseLoads'["again"] = caseLoads["again"]
  BY <1>1, LoadsTell DEF CaseSlots
<1>4. DeskTypes' /\ VersionsInv'
  BY <1>1 DEF DeskTypes, VersionsInv
<1>5. ASSUME ~portalClash'
      PROVE  ~portalClash /\ \A k \in CaseSlots : caseLoads[k].pc = "idle"
  BY <1>1, <1>5, BusyTells
<1>6. ASSUME ~portalClash' PROVE OneAtATime'
  BY <1>1, <1>3, <1>5, <1>6 DEF DeskCalm, OneAtATime, CaseSlots
<1>7. ASSUME ~portalClash' PROVE SubjectsInv'
  BY <1>2, <1>3, <1>1, <1>5, <1>7 DEF CaseSubject, DeskCalm, SubjectsInv, AllRead, CaseSlots
<1>8. ASSUME ~portalClash', Undisturbed' PROVE ShownInv'
  BY <1>1, <1>5, <1>8, <1>2, <1>3 DEF Undisturbed, ShownInv, KnownOf, AllRead
<1> QED
  BY <1>4, <1>6, <1>7, <1>8 DEF DeskCalm

LEMMA DeskSteps == PortalInv /\ DeskInv /\ [PortalNext]_portalVars => DeskInv'
PROOF
<1> SUFFICES ASSUME PortalInv, DeskInv, [PortalNext]_portalVars PROVE DeskInv'
  OBVIOUS
<1>1. CASE UNCHANGED portalVars
  BY <1>1 DEF portalVars, DeskInv, DeskTypes, VersionsInv, DeskCalm, OneAtATime, SubjectsInv, Undisturbed, ShownInv,
     KnownOf, AllRead
<1>2. ASSUME NEW t \in PortalTickets, OperatorUpdates(t) \/ SelectDeskTicket(t) PROVE DeskInv'
  BY <1>2, DeskOperator, DeskSelected
<1>3. ASSUME NEW asked \in PortalFilters, FilterTickets(asked) PROVE DeskInv'
  BY <1>3, DeskFilter
<1>4. ASSUME NEW l \in {"user", "delegate"}, AnswerDeskList(l) \/ ShowList(l) \/ DeskListFails(l) PROVE DeskInv'
  BY <1>4, DeskListAnswered, DeskListShown, DeskListLost DEF ListSlots
<1>5. ASSUME NEW l \in {"pick", "again", "delegate"}, AnswerCase(l) \/ ShowCase(l) \/ CaseFails(l) PROVE DeskInv'
  BY <1>5, DeskCaseAnswered, DeskCaseShown DEF CaseSlots
<1>6. ASSUME NEW card \in cards \cup openCase, NEW to \in CaseStatuses, Delegate(card, to) PROVE DeskInv'
  BY <1>6, DeskDelegates
<1> QED
  BY <1>1, <1>2, <1>3, <1>4, <1>5, <1>6, DeskAgain, DeskUpdates, DeskRefused, DeskReloads DEF PortalNext

-----------------------------------------------------------------------------
(* The prompts of the tenants.                                               *)

\* The prompts are a table with one row for each, stored or absent.
RowsOfPrompts == promptRows = [p \in Prompts |-> promptRows[p]]

\* The table is there from the start.
LEMMA PromptsStart == PromptScreenInit => RowsOfPrompts
PROOF
  BY DEF PromptScreenInit, RowsOfPrompts

\* What is not a write of the service leaves the prompts as they are.
LEMMA OnlyStores ==
    ASSUME [PromptScreenNext]_promptScreenVars
    PROVE  \/ promptRows' = promptRows
           \/ StoreSave \/ StoreStatus \/ StoreRollback \/ \E p \in Prompts : StoreCreate(p)
PROOF
<1> USE DEF store
<1>1. ASSUME NEW d, Send(d) PROVE promptRows' = promptRows
  BY <1>1 DEF Send
<1>2. HandleSave => promptRows' = promptRows
  BY <1>1 DEF HandleSave
<1>3. HandleCreate => promptRows' = promptRows
  BY <1>1 DEF HandleCreate
<1>4. ASSUME NEW s, ChangePromptStatus(s) PROVE promptRows' = promptRows
  BY <1>1, <1>4 DEF ChangePromptStatus
<1>5. ASSUME NEW v, RollbackTo(v) PROVE promptRows' = promptRows
  BY <1>1, <1>5 DEF RollbackTo
<1>6. ASSUME NEW w, TypeText(w) \/ TypeDraft(w) \/ TypeModel(w) PROVE promptRows' = promptRows
  BY <1>6 DEF TypeText, TypeDraft, TypeModel
<1>7. ASSUME NEW l, NEW x, SwitchShop(l, x) \/ SetPromptFilter(l, x) \/ SelectProfile(l, x)
      PROVE  promptRows' = promptRows
  BY <1>7 DEF SwitchShop, SetPromptFilter, SelectProfile
<1>8. ASSUME NEW l, SayDone(l) \/ AnswerPromptList(l) \/ ShowProfiles(l) \/ ShowVersions(l) \/ PromptLoadFails(l)
      PROVE  promptRows' = promptRows
  BY <1>8 DEF SayDone, AnswerPromptList, ShowProfiles, ShowVersions, PromptLoadFails
<1>9. DeedFails => promptRows' = promptRows
  BY DEF DeedFails
<1> QED
  BY <1>2, <1>3, <1>4, <1>5, <1>6, <1>7, <1>8, <1>9 DEF PromptScreenNext, promptScreenVars

\* Every step of the editor and of the service keeps it a table.
LEMMA PromptsKeep == RowsOfPrompts /\ [PromptScreenNext]_promptScreenVars => RowsOfPrompts'
PROOF
  BY OnlyStores DEF RowsOfPrompts, StoreSave, StoreRollback, StoreCreate, StoreStatus

\* The service changes prompts of the tenant that was chosen at the click.
LEMMA ChangesOwnPrompts ==
    ASSUME RowsOfPrompts, [PromptScreenNext]_promptScreenVars, NEW p \in Prompts,
           promptRows[p] # Absent, promptRows'[p] # promptRows[p]
    PROVE  promptRows[p].shop = deed.shop
PROOF
  BY OnlyStores DEF RowsOfPrompts, StoreSave, Found, StoreRollback, StoreCreate, StoreStatus

\* The form of a new prompt is emptied by its creation or by another active prompt on the screen.
LEMMA DraftEmptied ==
    ASSUME [PromptScreenNext]_promptScreenVars, draft # "untouched", draft' = "untouched"
    PROVE  \/ deed.pc = "done" /\ deed.kind = "create"
           \/ ActiveId(listedPrompts') # ActiveId(listedPrompts)
PROOF
<1> USE DEF page
<1>1. ASSUME NEW d, Send(d) PROVE FALSE
  BY <1>1 DEF Send
<1>2. ~HandleSave /\ ~HandleCreate
  BY <1>1 DEF HandleSave, HandleCreate
<1>3. ASSUME NEW x, ChangePromptStatus(x) \/ RollbackTo(x) PROVE FALSE
  BY <1>1, <1>3 DEF ChangePromptStatus, RollbackTo
<1>4. ASSUME NEW w \in Texts, TypeText(w) \/ TypeDraft(w) PROVE FALSE
  BY <1>4 DEF TypeText, TypeDraft, Texts
<1>5. ASSUME NEW w, TypeModel(w) PROVE FALSE
  BY <1>5 DEF TypeModel
<1>6. ASSUME NEW l, NEW x, SwitchShop(l, x) \/ SetPromptFilter(l, x) \/ SelectProfile(l, x) PROVE FALSE
  BY <1>6 DEF SwitchShop, SetPromptFilter, SelectProfile
<1>7. ASSUME NEW l, AnswerPromptList(l) \/ ShowVersions(l) \/ PromptLoadFails(l) PROVE FALSE
  BY <1>7 DEF AnswerPromptList, ShowVersions, PromptLoadFails
<1>8. ASSUME NEW l, SayDone(l) PROVE deed.pc = "done" /\ deed.kind = "create"
  BY <1>8 DEF SayDone
<1>9. ASSUME NEW l, ShowProfiles(l) PROVE ActiveId(listedPrompts') # ActiveId(listedPrompts)
  BY <1>9 DEF ShowProfiles, DraftAfter
<1>10. ~StoreSave /\ ~StoreStatus /\ ~StoreRollback /\ ~DeedFails /\ \A p \in Prompts : ~StoreCreate(p)
  BY DEF StoreSave, StoreStatus, StoreRollback, DeedFails, StoreCreate, Done
<1> QED
  BY <1>2, <1>3, <1>4, <1>5, <1>6, <1>7, <1>8, <1>9, <1>10 DEF PromptScreenNext, promptScreenVars

-----------------------------------------------------------------------------
(* The prompts of a tenant: the list, the editor and the versions.           *)

ShopLoad == {EditorResting}
    \cup [pc : {"asked"}, shop : PromptShops, status : PromptStatuses \cup {"all"}, want : Prompts \cup {NoPrompt}]
    \cup [pc : {"listed"}, shop : PromptShops, want : Prompts \cup {NoPrompt}, list : SUBSET Copies]
    \cup [pc : {"versions"}, shop : PromptShops, want : Prompts]
SaveDeed == [pc : {"sent", "done"}, kind : {"save"}, shop : PromptShops, status : PromptStatuses \cup {"all"},
             prompt : Prompts, text : Texts, model : Models]
CreateDeed == [pc : {"sent", "done"}, kind : {"create"}, shop : PromptShops, status : PromptStatuses \cup {"all"},
               prompt : Prompts \cup {NoPrompt}, text : Texts, model : Models]
StatusDeed == [pc : {"sent", "done"}, kind : {"active", "archived"}, shop : PromptShops,
               status : PromptStatuses \cup {"all"}, prompt : Prompts]
RestoreDeed == [pc : {"sent", "done"}, kind : {"rollback"}, shop : PromptShops, status : PromptStatuses \cup {"all"},
                prompt : Prompts, version : PastVersions]
Reloading == [pc : {"reloading"}, by : PromptLoads]
ScreenDeed == {EditorResting} \cup SaveDeed \cup CreateDeed \cup StatusDeed \cup RestoreDeed \cup Reloading

EditorShape ==
    /\ promptRows \in [Prompts -> PromptRow \cup {Absent}] /\ pastPrompts \subseteq PastVersions
    /\ shop \in PromptShops /\ statusShown \in PromptStatuses \cup {"all"}
    /\ listedPrompts \subseteq Copies /\ pickedPrompt \in Copies \cup {NoPick}
    /\ editor \in [text : Texts \cup {"untouched"}, model : Models \cup {"untouched"}]
    /\ draft \in Texts \cup {"untouched"} /\ history \subseteq PastVersions
    /\ loads \in [PromptLoads -> ShopLoad]
    /\ deed \in ScreenDeed /\ said \in {NothingSaid} \cup [kind : Deeds, prompt : Prompts]
    /\ unsettled \in BOOLEAN /\ promptOps \in 0..MaxPromptOps

\* What a request leaves its prompt as; while it is under way nothing is said of the one before.
StatusGiven(kind) == IF kind \in {"active", "archived"} THEN kind ELSE "draft"
NoticeInv ==
    /\ deed.pc \in {"sent", "done"} => said.kind = "none"
    /\ deed.pc = "done" => deed.prompt \in Prompts /\ promptRows[deed.prompt].status = StatusGiven(deed.kind)
    /\ said.kind # "none" => promptRows[said.prompt].status = StatusGiven(said.kind)
    /\ deed.pc = "done" /\ deed.kind = "rollback" => deed.version.of = deed.prompt

\* As long as nothing overlapped, failed or was chosen anew, one load is under way and brings what is
\* chosen; a list is current unless a request was stored and the load after it is still to come.
ListingPrompts == \E l \in PromptLoads : loads[l].pc \in {"asked", "listed"}
ScreenFitsChoice ==
    /\ \A k, l \in PromptLoads : loads[k].pc # "idle" /\ loads[l].pc # "idle" => k = l
    /\ deed.pc \in {"sent", "done"} => deed.shop = shop /\ deed.status = statusShown
    /\ \A l \in PromptLoads :
         /\ loads[l].pc = "asked" => loads[l].shop = shop /\ loads[l].status = statusShown
         /\ loads[l].pc = "listed" /\ deed.pc # "done" => loads[l].list = ListOf(shop, statusShown)
         /\ loads[l].pc = "versions" => loads[l].want = pickedPrompt.id
    /\ ~ListingPrompts => /\ pickedPrompt = NoPick \/ pickedPrompt \in listedPrompts
                          /\ deed.pc # "done" => listedPrompts = ListOf(shop, statusShown)
    /\ ~LoadUnderWay => \A v \in history : v.of = pickedPrompt.id

EditorInv == EditorShape /\ NoticeInv /\ (~unsettled => ScreenFitsChoice)

-----------------------------------------------------------------------------
LEMMA ShopLoadTells ==
    ASSUME NEW x \in ShopLoad
    PROVE  /\ x.pc \in {"idle", "asked", "listed", "versions"}
           /\ x.pc # "idle" => x.shop \in PromptShops
           /\ x.pc = "asked" => x.status \in PromptStatuses \cup {"all"} /\ x.want \in Prompts \cup {NoPrompt}
           /\ x.pc = "listed" => x.list \subseteq Copies
           /\ x.pc = "versions" => x.want \in Prompts
PROOF
  BY DEF ShopLoad, EditorResting

LEMMA ShopLoadsAre ==
    /\ EditorResting \in ShopLoad /\ EditorResting.pc = "idle"
    /\ \A s \in PromptShops, f \in PromptStatuses \cup {"all"}, p \in Prompts \cup {NoPrompt} :
         [pc |-> "asked", shop |-> s, status |-> f, want |-> p] \in ShopLoad
    /\ \A s \in PromptShops, p \in Prompts \cup {NoPrompt}, cs \in SUBSET Copies :
         [pc |-> "listed", shop |-> s, want |-> p, list |-> cs] \in ShopLoad
    /\ \A s \in PromptShops, p \in Prompts : [pc |-> "versions", shop |-> s, want |-> p] \in ShopLoad
PROOF
  BY DEF ShopLoad, EditorResting

LEMMA DeedTells ==
    ASSUME NEW d \in ScreenDeed
    PROVE  /\ d.pc \in {"idle", "sent", "done", "reloading"}
           /\ d.pc \in {"sent", "done"} =>
                /\ d.kind \in Deeds /\ d.shop \in PromptShops /\ d.status \in PromptStatuses \cup {"all"}
                /\ d.prompt \in Prompts \cup {NoPrompt}
                /\ d.kind # "create" => d.prompt \in Prompts
                /\ d.kind \in {"save", "create"} => d.text \in Texts /\ d.model \in Models
                /\ d.kind = "rollback" => d.version \in PastVersions
PROOF
  BY DEF ScreenDeed, SaveDeed, CreateDeed, StatusDeed, RestoreDeed, Reloading, EditorResting, Deeds

\* A request that is stored.
DoneDeed(d, p) == [d EXCEPT !.pc = "done", !.prompt = p]
LEMMA DeedIsDone ==
    ASSUME NEW d \in ScreenDeed, d.pc = "sent", NEW p \in Prompts
    PROVE  /\ DoneDeed(d, p) \in ScreenDeed /\ DoneDeed(d, p).pc = "done" /\ DoneDeed(d, p).prompt = p
           /\ DoneDeed(d, p).kind = d.kind /\ DoneDeed(d, p).shop = d.shop /\ DoneDeed(d, p).status = d.status
           /\ d.kind = "rollback" => DoneDeed(d, p).version = d.version
PROOF
<1> DEFINE x == DoneDeed(d, p)
<1>1. d \in SaveDeed \/ d \in CreateDeed \/ d \in StatusDeed \/ d \in RestoreDeed
  BY DEF ScreenDeed, Reloading, EditorResting
<1>2. CASE d \in SaveDeed
  BY <1>2 DEF SaveDeed, DoneDeed, ScreenDeed
<1>3. CASE d \in CreateDeed
  BY <1>3 DEF CreateDeed, DoneDeed, ScreenDeed
<1>4. CASE d \in StatusDeed
  BY <1>4 DEF StatusDeed, DoneDeed, ScreenDeed
<1>5. CASE d \in RestoreDeed
  BY <1>5 DEF RestoreDeed, DoneDeed, ScreenDeed
<1> QED
  BY <1>1, <1>2, <1>3, <1>4, <1>5

LEMMA PickIs ==
    ASSUME EditorShape
    PROVE  /\ pickedPrompt.id \in Prompts \cup {NoPrompt}
           /\ pickedPrompt # NoPick => /\ pickedPrompt \in Copies /\ pickedPrompt.id \in Prompts
                                       /\ pickedPrompt.text \in Texts /\ pickedPrompt.model \in Models
PROOF
  BY DEF EditorShape, Copies, NoPick

\* The list of a tenant has copies of its prompts as they are.
LEMMA ListIsOfCopies ==
    ASSUME EditorShape, NEW s, NEW f
    PROVE  /\ ListOf(s, f) \subseteq Copies
           /\ \A c \in ListOf(s, f) : c = CopyOf(c.id)
PROOF
<1>1. ASSUME NEW q \in Prompts, Found(q, s) PROVE CopyOf(q) \in Copies /\ CopyOf(q).id = q
  BY <1>1 DEF Found, EditorShape, PromptRow, Copies, CopyOf
<1> QED
  BY <1>1 DEF ListOf

-----------------------------------------------------------------------------
LEMMA EditorStart == PromptScreenInit => EditorInv
PROOF
<1> SUFFICES ASSUME PromptScreenInit PROVE EditorInv
  OBVIOUS
<1> USE DEF PromptScreenInit
<1>1. PICK l \in PromptLoads :
        loads = [m \in PromptLoads |->
                   IF m = l THEN [pc |-> "asked", shop |-> shop, status |-> "all", want |-> NoPrompt]
                   ELSE EditorResting]
  OBVIOUS
<1>2. promptRows \in [Prompts -> PromptRow \cup {Absent}]
  BY PromptScreenAssumption DEF PromptRow, Texts, Models, PromptStatuses
<1>3. pastPrompts \subseteq PastVersions
  BY PromptScreenAssumption DEF PastVersions, Texts, Models
<1>4. [pc |-> "asked", shop |-> shop, status |-> "all", want |-> NoPrompt] \in ShopLoad
  BY ShopLoadsAre
<1>5. loads \in [PromptLoads -> ShopLoad]
  BY <1>1, <1>4, ShopLoadsAre
<1>6. 0 \in 0..MaxPromptOps
  BY PromptScreenAssumption
<1>7. EditorShape
  BY <1>2, <1>3, <1>5, <1>6 DEF EditorShape, ScreenDeed, Untyped
<1>8. deed.pc = "idle" /\ said.kind = "none"
  BY DEF EditorResting, NothingSaid
<1>9. NoticeInv
  BY <1>8 DEF NoticeInv
<1>10. loads[l].pc = "asked" /\ loads[l].shop = shop /\ loads[l].status = statusShown
       /\ \A m \in PromptLoads : m # l => loads[m].pc = "idle"
  BY <1>1 DEF EditorResting
<1>11. ScreenFitsChoice
  BY <1>8, <1>10 DEF ScreenFitsChoice, ListingPrompts, LoadUnderWay
<1> QED
  BY <1>7, <1>9, <1>11 DEF EditorInv

LEMMA EditorKeep ==
    EditorInv => /\ PromptScreenTypeOK /\ ListIsCurrent /\ EditorIsCurrent /\ VersionsAreOfTheSelected
                 /\ RestoredIsItsOwn /\ NoticeFits
PROOF
<1> SUFFICES ASSUME EditorInv
             PROVE  /\ PromptScreenTypeOK /\ ListIsCurrent /\ EditorIsCurrent /\ VersionsAreOfTheSelected
                    /\ RestoredIsItsOwn /\ NoticeFits
  OBVIOUS
<1> USE DEF EditorInv
<1>1. PromptScreenTypeOK
  BY ShopLoadTells, DeedTells DEF EditorShape, NothingSaid, PromptScreenTypeOK
<1>2. EditorAtRest => ScreenFitsChoice /\ ~ListingPrompts /\ deed.pc # "done" /\ ~LoadUnderWay
  BY DEF EditorAtRest, ListingPrompts, LoadUnderWay
<1>3. ListIsCurrent
  BY <1>2 DEF ListIsCurrent, ScreenFitsChoice
<1>4. EditorIsCurrent
  BY <1>2, ListIsOfCopies DEF EditorIsCurrent, ScreenFitsChoice
<1>5. VersionsAreOfTheSelected
  BY <1>2 DEF VersionsAreOfTheSelected, ScreenFitsChoice
<1>6. RestoredIsItsOwn /\ NoticeFits
  BY DEF RestoredIsItsOwn, NoticeFits, NoticeInv, StatusGiven
<1> QED
  BY <1>1, <1>3, <1>4, <1>5, <1>6

-----------------------------------------------------------------------------
\* A click is counted.
LEMMA PromptClick == EditorShape /\ PromptOp => promptOps' \in 0..MaxPromptOps
PROOF
  BY PromptScreenAssumption DEF EditorShape, PromptOp

\* A load begins: alone, unless one is under way.
LEMMA PromptsLoad ==
    ASSUME EditorShape, NEW l \in PromptLoads, NEW s \in PromptShops, NEW f \in PromptStatuses \cup {"all"},
           NEW p \in Prompts \cup {NoPrompt}, LoadProfiles(l, s, f, p)
    PROVE  /\ loads' \in [PromptLoads -> ShopLoad]
           /\ loads'[l].pc = "asked" /\ loads'[l].shop = s /\ loads'[l].status = f
           /\ ~LoadUnderWay => \A m \in PromptLoads : m # l => loads'[m].pc = "idle"
PROOF
<1> DEFINE x == [pc |-> "asked", shop |-> s, status |-> f, want |-> p]
<1>1. loads' = [loads EXCEPT ![l] = x]
  BY DEF LoadProfiles
<1>2. x \in ShopLoad /\ x.pc = "asked" /\ x.shop = s /\ x.status = f
  BY ShopLoadsAre
<1> HIDE DEF x
<1> QED
  BY <1>1, <1>2 DEF EditorShape, LoadUnderWay

\* With a list just asked for, nothing is claimed but that it is what is chosen.
LEMMA JustAsked ==
    ASSUME NEW l \in PromptLoads, loads'[l].pc = "asked", loads'[l].shop = shop', loads'[l].status = statusShown',
           \A m \in PromptLoads : m # l => loads'[m].pc = "idle",
           deed'.pc \in {"sent", "done"} => deed'.shop = shop' /\ deed'.status = statusShown'
    PROVE  ScreenFitsChoice'
PROOF
  BY DEF ScreenFitsChoice, ListingPrompts, LoadUnderWay

LEMMA ShopIsSwitched == ASSUME EditorInv, NEW l \in PromptLoads, NEW s \in PromptShops, SwitchShop(l, s) PROVE EditorInv'
PROOF
<1> USE DEF EditorInv
<1>1. /\ PromptOp /\ shop' = s /\ LoadProfiles(l, s, statusShown, NoPrompt)
      /\ pickedPrompt' = NoPick /\ editor' = Untyped /\ history' = {} /\ said' = NothingSaid
      /\ unsettled' = (unsettled \/ LoadUnderWay \/ deed.pc # "idle")
      /\ UNCHANGED <<promptRows, pastPrompts, statusShown, listedPrompts, draft, deed>>
  BY DEF SwitchShop, store
<1>2. PICK f \in PromptStatuses \cup {"all"} : f = statusShown
  BY DEF EditorShape
<1>3. /\ loads' \in [PromptLoads -> ShopLoad]
      /\ loads'[l].pc = "asked" /\ loads'[l].shop = s /\ loads'[l].status = f
      /\ ~LoadUnderWay => \A m \in PromptLoads : m # l => loads'[m].pc = "idle"
  BY <1>1, <1>2, PromptsLoad
<1>4. EditorShape'
  BY <1>1, <1>3, PromptClick DEF EditorShape, Untyped
<1>5. NoticeInv'
  BY <1>1 DEF NoticeInv, NothingSaid
<1>6. ~unsettled' => ScreenFitsChoice'
  BY <1>1, <1>2, <1>3, JustAsked
<1> QED
  BY <1>4, <1>5, <1>6

LEMMA FilterIsSet == ASSUME EditorInv, NEW l \in PromptLoads, NEW f \in PromptStatuses \cup {"all"}, SetPromptFilter(l, f) PROVE EditorInv'
PROOF
<1> USE DEF EditorInv
<1>1. /\ PromptOp /\ statusShown' = f /\ LoadProfiles(l, shop, f, pickedPrompt.id)
      /\ unsettled' = (unsettled \/ LoadUnderWay \/ deed.pc # "idle")
      /\ UNCHANGED <<promptRows, pastPrompts, shop, listedPrompts, pickedPrompt, editor, draft, history, deed, said>>
  BY DEF SetPromptFilter, store, page
<1>2. PICK s \in PromptShops, p \in Prompts \cup {NoPrompt} : s = shop /\ p = pickedPrompt.id
  BY PickIs DEF EditorShape
<1>3. /\ loads' \in [PromptLoads -> ShopLoad]
      /\ loads'[l].pc = "asked" /\ loads'[l].shop = s /\ loads'[l].status = f
      /\ ~LoadUnderWay => \A m \in PromptLoads : m # l => loads'[m].pc = "idle"
  BY <1>1, <1>2, PromptsLoad
<1>4. EditorShape'
  BY <1>1, <1>3, PromptClick DEF EditorShape
<1>5. NoticeInv'
  BY <1>1 DEF NoticeInv
<1>6. ~unsettled' => ScreenFitsChoice'
  BY <1>1, <1>2, <1>3, JustAsked
<1> QED
  BY <1>4, <1>5, <1>6

LEMMA ProfileIsSelected == ASSUME EditorInv, NEW l \in PromptLoads, NEW c \in listedPrompts, SelectProfile(l, c) PROVE EditorInv'
PROOF
<1> USE DEF EditorInv
<1> DEFINE x == [pc |-> "versions", shop |-> shop, want |-> c.id]
<1>1. /\ PromptOp /\ pickedPrompt' = c /\ editor' \in {editor, Untyped} /\ said' = NothingSaid
      /\ loads' = [loads EXCEPT ![l] = x] /\ unsettled' = (unsettled \/ LoadUnderWay)
      /\ UNCHANGED <<promptRows, pastPrompts, shop, statusShown, listedPrompts, draft, history, deed>>
  BY DEF SelectProfile, store, choices
<1>2. c \in Copies /\ c.id \in Prompts /\ shop \in PromptShops
  BY DEF EditorShape, Copies
<1>3. x \in ShopLoad /\ x.pc = "versions" /\ x.want = c.id
  BY <1>2, ShopLoadsAre
<1> HIDE DEF x
<1>4. Untyped \in [text : Texts \cup {"untouched"}, model : Models \cup {"untouched"}]
  BY DEF Untyped
<1>5. EditorShape'
  BY <1>1, <1>2, <1>3, <1>4, PromptClick DEF EditorShape
<1>6. NoticeInv'
  BY <1>1 DEF NoticeInv, NothingSaid
<1>7. ASSUME ~unsettled' PROVE ScreenFitsChoice'
  <2>1. ~unsettled /\ \A m \in PromptLoads : loads[m].pc = "idle"
    BY <1>1, <1>7 DEF LoadUnderWay
  <2>2. ScreenFitsChoice /\ ~ListingPrompts
    BY <2>1 DEF ListingPrompts
  <2>3. loads'[l] = x /\ \A m \in PromptLoads : m # l => loads'[m].pc = "idle"
    BY <1>1, <2>1 DEF EditorShape
  <2>4. ListOf(shop, statusShown)' = ListOf(shop, statusShown)
    BY <1>1 DEF ListOf, Found, CopyOf
  <2> QED  BY <1>1, <1>3, <2>2, <2>3, <2>4 DEF ScreenFitsChoice, ListingPrompts, LoadUnderWay
<1> QED
  BY <1>5, <1>6, <1>7

\* Keys in the forms.
LEMMA FieldsAreTyped ==
    ASSUME EditorInv, (\E w \in Texts : TypeText(w) \/ TypeDraft(w)) \/ (\E m \in Models : TypeModel(m))
    PROVE  EditorInv'
PROOF
<1> USE DEF EditorInv
<1>1. PICK w \in Texts, m \in Models : TypeText(w) \/ TypeDraft(w) \/ TypeModel(m)
  BY DEF Texts, Models
<1>2. /\ PromptOp
      /\ editor' \in {editor, [editor EXCEPT !.text = w], [editor EXCEPT !.model = m]}
      /\ draft' \in {draft, w}
      /\ UNCHANGED <<promptRows, pastPrompts, shop, statusShown, listedPrompts, pickedPrompt, history, loads, deed,
                     said, unsettled>>
  BY <1>1 DEF TypeText, TypeDraft, TypeModel, store, choices
<1>3. editor' \in [text : Texts \cup {"untouched"}, model : Models \cup {"untouched"}]
  BY <1>2 DEF EditorShape
<1>4. EditorShape'
  BY <1>2, <1>3, PromptClick DEF EditorShape
<1>5. NoticeInv'
  BY <1>2 DEF NoticeInv
<1>6. ListOf(shop, statusShown)' = ListOf(shop, statusShown)
  BY <1>2 DEF ListOf, Found, CopyOf
<1>7. ScreenFitsChoice => ScreenFitsChoice'
  BY <1>2, <1>6 DEF ScreenFitsChoice, ListingPrompts, LoadUnderWay
<1> QED
  BY <1>2, <1>4, <1>5, <1>7

-----------------------------------------------------------------------------
\* A request is sent for the tenant and the status that are chosen.
LEMMA DeedIsSent ==
    ASSUME EditorInv, NEW d \in ScreenDeed, d.pc = "sent", d.shop = shop, d.status = statusShown, Send(d)
    PROVE  EditorInv'
PROOF
<1> USE DEF EditorInv
<1>1. /\ PromptOp /\ deed.pc = "idle" /\ deed' = d /\ said' = NothingSaid
      /\ UNCHANGED <<promptRows, pastPrompts, shop, statusShown, listedPrompts, pickedPrompt, editor, draft, history,
                     loads, unsettled>>
  BY DEF Send, store, choices, page
<1>2. EditorShape'
  BY <1>1, PromptClick DEF EditorShape
<1>3. NoticeInv'
  BY <1>1 DEF NoticeInv, NothingSaid
<1>4. ListOf(shop, statusShown)' = ListOf(shop, statusShown)
  BY <1>1 DEF ListOf, Found, CopyOf
<1>5. ScreenFitsChoice => ScreenFitsChoice'
  BY <1>1, <1>4 DEF ScreenFitsChoice, ListingPrompts, LoadUnderWay
<1> QED
  BY <1>1, <1>2, <1>3, <1>5

LEMMA SaveIsSent == ASSUME EditorInv, HandleSave PROVE EditorInv'
PROOF
<1> DEFINE d == [pc |-> "sent", kind |-> "save", shop |-> shop, status |-> statusShown, prompt |-> pickedPrompt.id,
                 text |-> InEditor("text"), model |-> InEditor("model")]
<1>1. EditorShape /\ pickedPrompt # NoPick /\ Send(d)
  BY DEF HandleSave, EditorInv
<1>2. InEditor("text") \in Texts /\ InEditor("model") \in Models
  BY <1>1, PickIs DEF EditorShape, InEditor
<1>3. shop \in PromptShops /\ statusShown \in PromptStatuses \cup {"all"} /\ pickedPrompt.id \in Prompts
  BY <1>1, PickIs DEF EditorShape
<1>4. d \in SaveDeed
  BY <1>2, <1>3 DEF SaveDeed
<1>5. d \in ScreenDeed /\ d.pc = "sent" /\ d.shop = shop /\ d.status = statusShown
  BY <1>4 DEF ScreenDeed
<1> HIDE DEF d
<1> QED
  BY <1>1, <1>5, DeedIsSent

LEMMA CreateIsSent == ASSUME EditorInv, HandleCreate PROVE EditorInv'
PROOF
<1>1. PICK f \in IF ActiveIn(listedPrompts) = {} THEN {[text |-> "untouched", model |-> "blank"]} ELSE ActiveIn(listedPrompts) :
        LET w == IF draft = "untouched" THEN f.text ELSE draft
        IN  /\ w # "untouched"
            /\ Send([pc |-> "sent", kind |-> "create", shop |-> shop, status |-> statusShown,
                     prompt |-> NoPrompt, text |-> w, model |-> f.model])
  BY DEF HandleCreate
<1>2. EditorShape
  BY DEF EditorInv
<1>3. f.text \in Texts \cup {"untouched"} /\ f.model \in Models
  BY <1>2 DEF ActiveIn, EditorShape, Copies, Models
<1>4. PICK w : w = IF draft = "untouched" THEN f.text ELSE draft
  OBVIOUS
<1>5. w \in Texts
  BY <1>1, <1>2, <1>3, <1>4 DEF EditorShape
<1> DEFINE d == [pc |-> "sent", kind |-> "create", shop |-> shop, status |-> statusShown,
                 prompt |-> NoPrompt, text |-> w, model |-> f.model]
<1>6. Send(d)
  BY <1>1, <1>4
<1>7. d \in CreateDeed
  BY <1>2, <1>3, <1>5 DEF CreateDeed, EditorShape
<1>8. d \in ScreenDeed /\ d.pc = "sent" /\ d.shop = shop /\ d.status = statusShown
  BY <1>7 DEF ScreenDeed
<1> HIDE DEF d
<1> QED
  BY <1>6, <1>8, DeedIsSent

LEMMA StatusIsSent == ASSUME EditorInv, NEW next \in {"active", "archived"}, ChangePromptStatus(next) PROVE EditorInv'
PROOF
<1> DEFINE d == [pc |-> "sent", kind |-> next, shop |-> shop, status |-> statusShown, prompt |-> pickedPrompt.id]
<1>1. EditorShape /\ pickedPrompt # NoPick /\ Send(d)
  BY DEF ChangePromptStatus, EditorInv
<1>2. d \in StatusDeed
  BY <1>1, PickIs DEF StatusDeed, EditorShape
<1>3. d \in ScreenDeed /\ d.pc = "sent" /\ d.shop = shop /\ d.status = statusShown
  BY <1>2 DEF ScreenDeed
<1> HIDE DEF d
<1> QED
  BY <1>1, <1>3, DeedIsSent

LEMMA RestoreIsSent == ASSUME EditorInv, NEW v \in history, RollbackTo(v) PROVE EditorInv'
PROOF
<1> DEFINE d == [pc |-> "sent", kind |-> "rollback", shop |-> shop, status |-> statusShown,
                 prompt |-> pickedPrompt.id, version |-> v]
<1>1. EditorShape /\ pickedPrompt # NoPick /\ Send(d)
  BY DEF RollbackTo, EditorInv
<1>2. d \in RestoreDeed
  BY <1>1, PickIs DEF RestoreDeed, EditorShape
<1>3. d \in ScreenDeed /\ d.pc = "sent" /\ d.shop = shop /\ d.status = statusShown
  BY <1>2 DEF ScreenDeed
<1> HIDE DEF d
<1> QED
  BY <1>1, <1>3, DeedIsSent

-----------------------------------------------------------------------------
\* A request is stored, and its prompt has the status that goes with it.
LEMMA DeedIsStored ==
    ASSUME EditorInv, deed.pc = "sent", NEW p \in Prompts, promptRows' \in [Prompts -> PromptRow \cup {Absent}],
           promptRows'[p] \in PromptRow, promptRows'[p].status = StatusGiven(deed.kind),
           deed.kind = "rollback" => deed.version.of = p, Record(p), Done(p)
    PROVE  EditorInv'
PROOF
<1> USE DEF EditorInv
<1>1. /\ deed' = DoneDeed(deed, p)
      /\ UNCHANGED <<shop, statusShown, listedPrompts, pickedPrompt, editor, draft, history, loads, said, unsettled,
                     promptOps>>
  BY DEF Done, DoneDeed, choices, page
<1>2. deed \in ScreenDeed
  BY DEF EditorShape
<1>3. /\ deed' \in ScreenDeed /\ deed'.pc = "done" /\ deed'.prompt = p
      /\ deed'.kind = deed.kind /\ deed'.shop = deed.shop /\ deed'.status = deed.status
      /\ deed.kind = "rollback" => deed'.version = deed.version
  BY <1>1, <1>2, DeedIsDone
<1>4. pastPrompts' \subseteq PastVersions
  BY DEF Record, EditorShape, PastVersions, PromptRow
<1>5. EditorShape'
  BY <1>1, <1>3, <1>4 DEF EditorShape
<1>6. NoticeInv'
  BY <1>1, <1>3 DEF NoticeInv
<1>7. ScreenFitsChoice => ScreenFitsChoice'
  BY <1>1, <1>3 DEF ScreenFitsChoice, ListingPrompts, LoadUnderWay
<1> QED
  BY <1>1, <1>5, <1>6, <1>7

LEMMA SaveIsStored == ASSUME EditorInv, StoreSave PROVE EditorInv'
PROOF
<1>1. PICK p : p = deed.prompt
  OBVIOUS
<1> DEFINE row == [promptRows[p] EXCEPT !.text = deed.text, !.status = "draft",
                                        !.model = IF deed.model = "blank" THEN promptRows[p].model ELSE deed.model]
<1>2. /\ deed.pc = "sent" /\ deed.kind = "save" /\ Found(p, deed.shop)
      /\ promptRows' = [promptRows EXCEPT ![p] = row] /\ Record(p) /\ Done(p)
  BY <1>1 DEF StoreSave
<1>3. EditorShape /\ p \in Prompts /\ deed.text \in Texts /\ deed.model \in Models
  BY <1>1, <1>2, DeedTells DEF EditorInv, EditorShape
<1>4. promptRows[p] \in PromptRow
  BY <1>2, <1>3 DEF Found, EditorShape
<1>5. row \in PromptRow /\ row.status = "draft"
  BY <1>3, <1>4 DEF PromptRow, PromptStatuses
<1> HIDE DEF row
<1>6. promptRows' \in [Prompts -> PromptRow \cup {Absent}] /\ promptRows'[p] = row
  BY <1>2, <1>3, <1>5 DEF EditorShape
<1> QED
  BY <1>2, <1>3, <1>5, <1>6, DeedIsStored DEF StatusGiven

LEMMA CreatedIsStored == ASSUME EditorInv, NEW p \in Prompts, StoreCreate(p) PROVE EditorInv'
PROOF
<1> DEFINE row == [shop |-> deed.shop, text |-> deed.text, model |-> deed.model, status |-> "draft"]
<1>1. /\ deed.pc = "sent" /\ deed.kind = "create"
      /\ promptRows' = [promptRows EXCEPT ![p] = row] /\ Record(p) /\ Done(p)
  BY DEF StoreCreate
<1>2. EditorShape /\ deed.shop \in PromptShops /\ deed.text \in Texts /\ deed.model \in Models
  BY <1>1, DeedTells DEF EditorInv, EditorShape
<1>3. row \in PromptRow /\ row.status = "draft"
  BY <1>2 DEF PromptRow, PromptStatuses
<1> HIDE DEF row
<1>4. promptRows' \in [Prompts -> PromptRow \cup {Absent}] /\ promptRows'[p] = row
  BY <1>1, <1>2, <1>3 DEF EditorShape
<1> QED
  BY <1>1, <1>3, <1>4, DeedIsStored DEF StatusGiven

LEMMA RestoreIsStored == ASSUME EditorInv, StoreRollback PROVE EditorInv'
PROOF
<1>1. PICK p : p = deed.prompt
  OBVIOUS
<1> DEFINE row == [promptRows[p] EXCEPT !.text = deed.version.text, !.status = "draft", !.model = deed.version.model]
<1>2. /\ deed.pc = "sent" /\ deed.kind = "rollback" /\ Found(p, deed.shop) /\ deed.version.of = p
      /\ promptRows' = [promptRows EXCEPT ![p] = row] /\ Record(p) /\ Done(p)
  BY <1>1 DEF StoreRollback
<1>3. EditorShape /\ p \in Prompts /\ deed.version \in PastVersions
  BY <1>1, <1>2, DeedTells DEF EditorInv, EditorShape
<1>4. promptRows[p] \in PromptRow
  BY <1>2, <1>3 DEF Found, EditorShape
<1>5. row \in PromptRow /\ row.status = "draft"
  BY <1>3, <1>4 DEF PromptRow, PromptStatuses, PastVersions
<1> HIDE DEF row
<1>6. promptRows' \in [Prompts -> PromptRow \cup {Absent}] /\ promptRows'[p] = row
  BY <1>2, <1>3, <1>5 DEF EditorShape
<1> QED
  BY <1>2, <1>3, <1>5, <1>6, DeedIsStored DEF StatusGiven

LEMMA StatusIsStored == ASSUME EditorInv, StoreStatus PROVE EditorInv'
PROOF
<1>1. PICK p : p = deed.prompt
  OBVIOUS
<1>2. /\ deed.pc = "sent" /\ deed.kind \in {"active", "archived"} /\ Found(p, deed.shop) /\ Record(p) /\ Done(p)
      /\ promptRows' = [q \in Prompts |->
                  IF q = p THEN [promptRows[q] EXCEPT !.status = deed.kind]
                  ELSE IF deed.kind = "active" /\ promptRows[q].status = "active" /\ promptRows[q].shop = deed.shop
                  THEN [promptRows[q] EXCEPT !.status = "archived"]
                  ELSE promptRows[q]]
  BY <1>1 DEF StoreStatus
<1>3. EditorShape /\ p \in Prompts /\ deed.shop \in PromptShops
  BY <1>1, <1>2, DeedTells DEF EditorInv, EditorShape
<1>4. promptRows[p] \in PromptRow
  BY <1>2, <1>3 DEF Found, EditorShape
<1>5. \A r \in PromptRow, k \in {"active", "archived"} : /\ [r EXCEPT !.status = k] \in PromptRow
                                                         /\ [r EXCEPT !.status = k].status = k
  BY DEF PromptRow, PromptStatuses
<1>6. promptRows'[p] \in PromptRow /\ promptRows'[p].status = deed.kind
  BY <1>2, <1>3, <1>4, <1>5
<1>7. ASSUME NEW q \in Prompts PROVE promptRows'[q] \in PromptRow \cup {Absent}
  BY <1>3, <1>2, <1>6, <1>5 DEF EditorShape, Absent
<1>8. promptRows' \in [Prompts -> PromptRow \cup {Absent}]
  BY <1>2, <1>7
<1> QED
  BY <1>2, <1>3, <1>6, <1>8, DeedIsStored DEF StatusGiven

LEMMA DeedHasFailed == ASSUME EditorInv, DeedFails PROVE EditorInv'
PROOF
<1> USE DEF EditorInv
<1>1. /\ deed.pc = "sent" /\ deed' = EditorResting
      /\ UNCHANGED <<promptRows, pastPrompts, shop, statusShown, listedPrompts, pickedPrompt, editor, draft, history,
                     loads, said, unsettled, promptOps>>
  BY DEF DeedFails, store, choices, page
<1>2. deed'.pc = "idle"
  BY <1>1 DEF EditorResting
<1>3. EditorShape'
  BY <1>1 DEF EditorShape, ScreenDeed
<1>4. NoticeInv'
  BY <1>1, <1>2 DEF NoticeInv
<1>5. ListOf(shop, statusShown)' = ListOf(shop, statusShown)
  BY <1>1 DEF ListOf, Found, CopyOf
<1>6. ScreenFitsChoice => ScreenFitsChoice'
  BY <1>1, <1>2, <1>5 DEF ScreenFitsChoice, ListingPrompts, LoadUnderWay
<1> QED
  BY <1>1, <1>3, <1>4, <1>6

LEMMA DoneIsSaid == ASSUME EditorInv, NEW l \in PromptLoads, SayDone(l) PROVE EditorInv'
PROOF
<1> USE DEF EditorInv
<1> DEFINE notice == [kind |-> deed.kind, prompt |-> deed.prompt]
           d == [pc |-> "reloading", by |-> l]
<1>1. /\ deed.pc = "done" /\ said' = notice
      /\ LoadProfiles(l, deed.shop, deed.status, deed.prompt) /\ deed' = d
      /\ unsettled' = (unsettled \/ LoadUnderWay) /\ draft' \in {draft, "untouched"}
      /\ UNCHANGED <<promptRows, pastPrompts, shop, statusShown, listedPrompts, pickedPrompt, editor, history, promptOps>>
  BY DEF SayDone, store, choices
<1>2. /\ deed.shop \in PromptShops /\ deed.status \in PromptStatuses \cup {"all"} /\ deed.prompt \in Prompts
      /\ deed.kind \in Deeds /\ promptRows[deed.prompt].status = StatusGiven(deed.kind)
  BY <1>1, DeedTells DEF EditorShape, NoticeInv
<1>3. PICK s \in PromptShops, f \in PromptStatuses \cup {"all"}, p \in Prompts \cup {NoPrompt} :
        s = deed.shop /\ f = deed.status /\ p = deed.prompt
  BY <1>2
<1>4. /\ loads' \in [PromptLoads -> ShopLoad]
      /\ loads'[l].pc = "asked" /\ loads'[l].shop = s /\ loads'[l].status = f
      /\ ~LoadUnderWay => \A m \in PromptLoads : m # l => loads'[m].pc = "idle"
  BY <1>1, <1>3, PromptsLoad
<1>5. notice \in [kind : Deeds, prompt : Prompts] /\ notice.kind = deed.kind /\ notice.prompt = deed.prompt
  BY <1>2
<1>6. d \in ScreenDeed /\ d.pc = "reloading"
  BY DEF ScreenDeed, Reloading
<1> HIDE DEF notice, d
<1>7. EditorShape'
  BY <1>1, <1>4, <1>5, <1>6 DEF EditorShape
<1>8. NoticeInv'
  BY <1>1, <1>2, <1>5, <1>6 DEF NoticeInv
<1>9. ~unsettled' => ScreenFitsChoice'
  BY <1>1, <1>3, <1>4, <1>6, JustAsked DEF ScreenFitsChoice
<1> QED
  BY <1>7, <1>8, <1>9

-----------------------------------------------------------------------------
\* Loads.
LEMMA ListIsAnswered == ASSUME EditorInv, NEW l \in PromptLoads, AnswerPromptList(l) PROVE EditorInv'
PROOF
<1> USE DEF EditorInv
<1> DEFINE x == [pc |-> "listed", shop |-> loads[l].shop, want |-> loads[l].want,
                 list |-> ListOf(loads[l].shop, loads[l].status)]
<1>1. /\ loads[l].pc = "asked" /\ loads' = [loads EXCEPT ![l] = x]
      /\ UNCHANGED <<promptRows, pastPrompts, shop, statusShown, listedPrompts, pickedPrompt, editor, draft, history,
                     deed, said, unsettled, promptOps>>
  BY DEF AnswerPromptList, store, choices, page
<1>2. loads[l].shop \in PromptShops /\ loads[l].want \in Prompts \cup {NoPrompt}
  BY <1>1, ShopLoadTells DEF EditorShape
<1>3. x \in ShopLoad /\ x.pc = "listed" /\ x.list = ListOf(loads[l].shop, loads[l].status)
  BY <1>2, ShopLoadsAre, ListIsOfCopies
<1> HIDE DEF x
<1>4. loads'[l] = x /\ \A m \in PromptLoads : m # l => loads'[m] = loads[m]
  BY <1>1 DEF EditorShape
<1>5. EditorShape'
  BY <1>1, <1>3 DEF EditorShape
<1>6. NoticeInv'
  BY <1>1 DEF NoticeInv
<1>7. ListOf(shop, statusShown)' = ListOf(shop, statusShown)
  BY <1>1 DEF ListOf, Found, CopyOf
<1>8. ListingPrompts /\ ListingPrompts' /\ LoadUnderWay /\ LoadUnderWay'
  BY <1>1, <1>3, <1>4 DEF ListingPrompts, LoadUnderWay
<1>9. ScreenFitsChoice => ScreenFitsChoice'
  BY <1>1, <1>3, <1>4, <1>7, <1>8 DEF ScreenFitsChoice
<1> QED
  BY <1>1, <1>5, <1>6, <1>9

\* The end of a load ends the request that waits for it.
LEMMA EndedLeaves ==
    ASSUME EditorShape, NEW l \in PromptLoads, Ended(l)
    PROVE  /\ deed' \in ScreenDeed
           /\ deed' = deed \/ (deed.pc = "reloading" /\ deed'.pc = "idle")
PROOF
  BY DEF Ended, EditorShape, ScreenDeed, EditorResting

LEMMA ProfilesAreShown == ASSUME EditorInv, NEW l \in PromptLoads, ShowProfiles(l) PROVE EditorInv'
PROOF
<1> USE DEF EditorInv
<1>1. /\ loads[l].pc = "listed" /\ listedPrompts' = loads[l].list /\ draft' = DraftAfter(loads[l].list)
      /\ UNCHANGED <<promptRows, pastPrompts, shop, statusShown, said, unsettled, promptOps>>
  BY DEF ShowProfiles, store, choices
<1>2. loads[l].list \subseteq Copies /\ draft' \in Texts \cup {"untouched"} /\ loads[l].shop \in PromptShops
  BY <1>1, ShopLoadTells DEF EditorShape, DraftAfter
<1>3. ListOf(shop, statusShown)' = ListOf(shop, statusShown)
  BY <1>1 DEF ListOf, Found, CopyOf
<1>4. CASE loads[l].list = {}
  BY <1>4, EndedLeaves, ShopLoadsAre, <1>1, <1>2, <1>3 DEF ShowProfiles, EditorShape, Untyped, NoticeInv,
     ScreenFitsChoice, ListingPrompts, LoadUnderWay
<1>5. CASE loads[l].list # {}
  <2>1. PICK c \in Selection(l) :
          /\ pickedPrompt' = c /\ editor' \in {editor, Untyped}
          /\ loads' = [loads EXCEPT ![l] = [pc |-> "versions", shop |-> loads[l].shop, want |-> c.id]]
          /\ UNCHANGED <<history, deed>>
    BY <1>5 DEF ShowProfiles
  <2> DEFINE x == [pc |-> "versions", shop |-> loads[l].shop, want |-> c.id]
  <2>2. c \in loads[l].list
    BY DEF Selection, FirstOf
  <2>3. c \in Copies /\ c.id \in Prompts
    BY <1>2, <2>2 DEF Copies
  <2>4. x \in ShopLoad /\ x.pc = "versions" /\ x.want = c.id
    BY <1>2, <2>3, ShopLoadsAre
  <2>5. loads' = [loads EXCEPT ![l] = x]
    BY <2>1
  <2> HIDE DEF x
  <2>6. loads'[l] = x /\ \A m \in PromptLoads : m # l => loads'[m] = loads[m]
    BY <2>5 DEF EditorShape
  <2>7. Untyped \in [text : Texts \cup {"untouched"}, model : Models \cup {"untouched"}]
    BY DEF Untyped
  <2>8. EditorShape'
    BY <1>1, <1>2, <2>1, <2>3, <2>4, <2>5, <2>7 DEF EditorShape
  <2>9. NoticeInv'
    BY <1>1, <2>1 DEF NoticeInv
  <2>10. LoadUnderWay'
    BY <2>4, <2>6 DEF LoadUnderWay
  <2>11. ASSUME ScreenFitsChoice PROVE ScreenFitsChoice'
    BY <1>1, <2>6, <2>11, <1>3, <2>1, <2>2, <2>4, <2>10 DEF ScreenFitsChoice, ListingPrompts
  <2> QED  BY <1>1, <2>8, <2>9, <2>11
<1> QED
  BY <1>4, <1>5

LEMMA VersionsAreIn == ASSUME EditorInv, NEW l \in PromptLoads, ShowVersions(l) PROVE EditorInv'
PROOF
<1> USE DEF EditorInv
<1>1. /\ loads[l].pc = "versions"
      /\ history' = {v \in pastPrompts : v.of = loads[l].want /\ Found(v.of, loads[l].shop)}
      /\ loads' = [loads EXCEPT ![l] = EditorResting] /\ Ended(l)
      /\ UNCHANGED <<promptRows, pastPrompts, shop, statusShown, listedPrompts, pickedPrompt, editor, draft, said,
                     unsettled, promptOps>>
  BY DEF ShowVersions, store, choices
<1>2. deed' \in ScreenDeed /\ (deed' = deed \/ (deed.pc = "reloading" /\ deed'.pc = "idle"))
  BY <1>1, EndedLeaves
<1>3. loads'[l].pc = "idle" /\ \A m \in PromptLoads : m # l => loads'[m] = loads[m]
  BY <1>1, ShopLoadsAre DEF EditorShape
<1>4. EditorShape'
  BY <1>1, <1>2, ShopLoadsAre DEF EditorShape
<1>5. NoticeInv'
  BY <1>1, <1>2 DEF NoticeInv
<1>6. ListOf(shop, statusShown)' = ListOf(shop, statusShown)
  BY <1>1 DEF ListOf, Found, CopyOf
<1>7. ASSUME ScreenFitsChoice PROVE ScreenFitsChoice'
  BY <1>1, <1>7, <1>3, <1>2, <1>6 DEF ScreenFitsChoice, ListingPrompts
<1> QED
  BY <1>1, <1>4, <1>5, <1>7

LEMMA PromptLoadIsLost == ASSUME EditorInv, NEW l \in PromptLoads, PromptLoadFails(l) PROVE EditorInv'
PROOF
  BY EndedLeaves, ShopLoadsAre DEF EditorInv, PromptLoadFails, store, choices, page, EditorShape, NoticeInv

LEMMA EditorStep == EditorInv /\ [PromptScreenNext]_promptScreenVars => EditorInv'
PROOF
<1> SUFFICES ASSUME EditorInv, [PromptScreenNext]_promptScreenVars PROVE EditorInv'
  OBVIOUS
<1>1. CASE UNCHANGED promptScreenVars
  BY <1>1 DEF promptScreenVars, EditorInv, EditorShape, NoticeInv, ScreenFitsChoice, ListingPrompts, LoadUnderWay,
     ListOf, Found, CopyOf
<1>2. ASSUME NEW l \in PromptLoads,
             \/ \E s \in PromptShops : SwitchShop(l, s)
             \/ \E f \in {"all", "draft"} : SetPromptFilter(l, f)
             \/ \E c \in listedPrompts : SelectProfile(l, c)
             \/ SayDone(l) \/ AnswerPromptList(l) \/ ShowProfiles(l) \/ ShowVersions(l) \/ PromptLoadFails(l)
      PROVE  EditorInv'
  BY FilterIsSet, <1>2, ShopIsSwitched, ProfileIsSelected, DoneIsSaid, ListIsAnswered, ProfilesAreShown,
     VersionsAreIn, PromptLoadIsLost DEF PromptStatuses
<1>3. ASSUME NEW next \in {"active", "archived"}, ChangePromptStatus(next) PROVE EditorInv'
  BY <1>3, StatusIsSent
<1>4. ASSUME NEW v \in history, RollbackTo(v) PROVE EditorInv'
  BY <1>4, RestoreIsSent
<1>5. ASSUME NEW p \in Prompts, StoreCreate(p) PROVE EditorInv'
  BY <1>5, CreatedIsStored
<1> QED
  BY <1>1, <1>2, <1>3, <1>4, <1>5, FieldsAreTyped, SaveIsSent, CreateIsSent, SaveIsStored, StatusIsStored,
     RestoreIsStored, DeedHasFailed DEF PromptScreenNext

-----------------------------------------------------------------------------
(* The review of changes: a tab and the request that is open.                *)

\* The requests of the screen: a decision goes out of its own slot, with the form of the request shown.
QueueCall == [pc : {"list"}, under : Tabs, want : Asks \cup {NoAsk}]
DetailCall == [pc : {"one"}, of : Asks]
DecisionCall == [pc : {"decide"}, of : Asks, to : Moves, wording : Asks, under : Tabs]
ReviewCalls ==
    /\ call \in [Keys -> {Off} \cup QueueCall \cup DetailCall \cup DecisionCall]
    /\ \A k \in Loads : call[k].pc # "decide"
    /\ call[ReviewSaving].pc = "decide" => call[ReviewSaving].wording = call[ReviewSaving].of

\* What is open is listed under a tab.
TabFits == requestRows # NoAsk =>
    IF opened = NoAsk THEN InTab(requestRows, tab) = {}
    ELSE opened.id \in InTab(requestRows, tab) \/ opened.status \in TabStatuses[tab]

\* A request that nothing overlapped works with the tab on the screen.
CallFits(c) ==
    \/ c.pc = "list" /\ c.under = tab
    \/ c.pc = "one" /\ c.of \in InTab(requestRows, tab)
    \/ c.pc = "decide" /\ c.under = tab /\ TabFits
OneCall ==
    \/ Quiet /\ TabFits
    \/ \E k \in Keys : CallFits(call[k]) /\ \A m \in Keys : m # k => call[m] = Off

ReviewInv == ReviewTypeOK /\ ReviewCalls /\ WordingIsOwn /\ (~overlapped => OneCall)

\* The type invariant says of the requests what their set says.
LEMMA CallsAreTyped ==
    ASSUME NEW f \in [Keys -> {Off} \cup QueueCall \cup DetailCall \cup DecisionCall],
           \A k \in Loads : f[k].pc # "decide"
    PROVE  \A k \in Keys : \/ f[k] = Off
                           \/ f[k] \in [pc : {"one"}, of : Asks]
                           \/ f[k] \in [pc : {"list"}, under : Tabs, want : Asks \cup {NoAsk}]
                           \/ k = ReviewSaving /\ f[k] \in [pc : {"decide"}, of : Asks, to : Moves,
                                                          wording : Asks, under : Tabs]
PROOF
  BY DEF DetailCall, QueueCall, DecisionCall, Keys

\* The record of a request tells its kind.
LEMMA KindOfCall ==
    ASSUME ReviewCalls, NEW k \in Keys
    PROVE  /\ call[k].pc = "list" => call[k] \in QueueCall
           /\ call[k].pc = "one" => call[k] \in DetailCall
           /\ call[k].pc = "decide" => call[k] \in DecisionCall
           /\ call[k].pc \in {"list", "one", "decide"} => call[k] # Off
PROOF
<1>1. call[k] \in {Off} \cup QueueCall \cup DetailCall \cup DecisionCall
  BY DEF ReviewCalls
<1> QED
  BY ONLY <1>1 DEF Off, QueueCall, DetailCall, DecisionCall

\* A request that is ended, or goes on as one that is no decision.
LEMMA CallEnds ==
    ASSUME ReviewCalls, NEW k \in Keys, NEW c \in {Off} \cup QueueCall \cup DetailCall,
           call' = [call EXCEPT ![k] = c]
    PROVE  ReviewCalls'
PROOF
  BY DEF ReviewCalls, Off, QueueCall, DetailCall, Keys

LEMMA ReviewStart == ReviewInit => ReviewInv
PROOF
<1> SUFFICES ASSUME ReviewInit PROVE ReviewInv
  OBVIOUS
<1> USE DEF ReviewInit
<1>1. "pending" \in Tabs /\ tab = "pending"
  BY DEF Tabs, TabStatuses
<1>2. PICK k \in Loads : call = [c \in Keys |-> IF c = k THEN AskReviewList(NoAsk) ELSE Off]
  OBVIOUS
<1>3. AskReviewList(NoAsk) \in QueueCall /\ k \in Keys
  BY <1>1 DEF AskReviewList, QueueCall, Keys
<1>4. ReviewSaving \in Keys /\ ReviewSaving # k /\ Loads \subseteq Keys
  BY ReviewAssumption DEF Keys
<1>5. \A c \in Keys : call[c] = IF c = k THEN AskReviewList(NoAsk) ELSE Off
  BY <1>2
<1>6. \A c \in Keys : call[c].pc # "decide"
  BY <1>3, <1>5 DEF Off, AskReviewList
<1>7. ReviewCalls
  BY <1>2, <1>3, <1>4, <1>6 DEF ReviewCalls
<1>10. moves \in 0..MaxMoves
  BY ReviewAssumption
<1>11. askStatus \in [Asks -> ReviewStatuses] /\ decidedBy \in [Asks -> Asks \cup {NoAsk}]
  BY DEF ReviewStatuses
<1>8. ReviewTypeOK
  BY <1>1, <1>7, <1>10, <1>11, CallsAreTyped DEF ReviewTypeOK, ReviewCalls
<1>9. CallFits(call[k])
  BY <1>3, <1>5 DEF CallFits, AskReviewList
<1> QED
  BY <1>3, <1>5, <1>7, <1>8, <1>9 DEF ReviewInv, OneCall, WordingIsOwn

\* The tabs and the statuses each collects are fixed; what a list shows under a tab is of the requests.
LEMMA LaunchKeeps ==
    ASSUME ReviewInv, NEW c \in QueueCall \cup DetailCall, Launch(c), tab' \in Tabs,
           UNCHANGED <<askStatus, decidedBy, moves, requestRows, opened, form>>,
           CallFits(c)'
    PROVE  ReviewInv'
PROOF
<1> USE DEF ReviewInv
<1>1. PICK k \in Loads : call[k] = Off /\ call' = [call EXCEPT ![k] = c]
  BY DEF Launch
<1>2. overlapped' = (IF Quiet THEN overlapped /\ c.pc # "list" ELSE TRUE)
  BY DEF Launch
<1>3. k \in Keys /\ ReviewCalls'
  BY <1>1, CallEnds DEF Keys
<1>4. overlapped' \in BOOLEAN
  BY <1>2 DEF ReviewTypeOK
<1>5. ReviewTypeOK'
  BY <1>3, <1>4, CallsAreTyped DEF ReviewTypeOK, ReviewCalls
<1>6. ASSUME ~overlapped' PROVE OneCall'
  BY <1>2, <1>6, <1>1, <1>3 DEF Quiet, ReviewCalls, OneCall
<1> QED
  BY <1>3, <1>5, <1>6 DEF WordingIsOwn

LEMMA RefreshKeepsReview ==
    ASSUME ReviewInv, Refresh
    PROVE  ReviewInv'
PROOF
  BY LaunchKeeps DEF ReviewInv, ReviewTypeOK, AskReviewList, QueueCall, Refresh, CallFits

LEMMA OpenRowKeeps ==
    ASSUME ReviewInv, NEW a \in Asks, OpenRow(a)
    PROVE  ReviewInv'
PROOF
  BY LaunchKeeps DEF ReviewInv, ReviewTypeOK, AskOne, DetailCall, OpenRow, CallFits

\* A tab chosen on a quiet screen shows what it lists, or nothing.
LEMMA ChooseTabKeeps ==
    ASSUME ReviewInv, NEW t \in Tabs, ChooseTab(t)
    PROVE  ReviewInv'
PROOF
<1> DEFINE listed == IF requestRows = NoAsk THEN {} ELSE InTab(requestRows, t)
           stays == IF opened = NoAsk THEN FALSE ELSE opened.status \in TabStatuses[t]
<1>1. tab' = t /\ UNCHANGED <<askStatus, decidedBy, moves, requestRows, form>>
  BY DEF ChooseTab
<1>2. CASE stays \/ listed = {}
  <2>1. /\ opened' = IF stays THEN opened ELSE NoAsk
        /\ overlapped' = (overlapped \/ ~Quiet) /\ call' = call
    BY <1>2 DEF ChooseTab
  <2>2. ReviewTypeOK'
    BY <1>1, <2>1 DEF ReviewInv, ReviewTypeOK, Quiet
  <2>3. ReviewCalls' /\ WordingIsOwn'
    BY <1>1, <2>1 DEF ReviewInv, ReviewCalls, WordingIsOwn
  <2>4. ASSUME ~overlapped' PROVE OneCall'
    BY <2>1, <2>4, <1>1, <1>2 DEF Quiet, TabFits, OneCall
  <2> QED  BY <2>2, <2>3, <2>4 DEF ReviewInv
<1>3. CASE ~(stays \/ listed = {})
  BY <1>3, <1>1, LaunchKeeps DEF ChooseTab, InTab, AskOne, DetailCall, CallFits
<1> QED
  BY <1>2, <1>3

\* An answer of the screen's only request is shown, or leads to its next.
LEMMA QueueArrivesKeeps ==
    ASSUME ReviewInv, NEW k \in Keys, QueueArrives(k)
    PROVE  ReviewInv'
PROOF
<1> USE DEF ReviewInv
<1> DEFINE visible == InTab(askStatus, call[k].under)
<1>1. /\ call[k].pc = "list" /\ requestRows' = askStatus
      /\ UNCHANGED <<askStatus, decidedBy, moves, tab, form, overlapped>>
  BY DEF QueueArrives
<1>2. call[k] \in QueueCall /\ call[k] # Off
  BY <1>1, KindOfCall
<1>3. PICK c \in {Off} \cup DetailCall :
        /\ call' = [call EXCEPT ![k] = c]
        /\ \/ visible = {} /\ opened' = NoAsk /\ c = Off
           \/ opened' = opened /\ c \in DetailCall /\ c.of \in visible
  <2>1. CASE visible = {}
    BY <2>1 DEF QueueArrives
  <2>2. CASE visible # {}
    <3>1. opened' = opened /\ \E a \in visible : call' = [call EXCEPT ![k] = AskOne(a)]
      BY <2>2 DEF QueueArrives
    <3>2. PICK a \in visible : call' = [call EXCEPT ![k] = AskOne(a)]
      BY <3>1
    <3>3. AskOne(a) \in DetailCall /\ AskOne(a).of = a
      BY DEF AskOne, DetailCall, InTab
    <3> QED  BY <3>1, <3>2, <3>3
  <2> QED  BY <2>1, <2>2
<1>4. ReviewCalls'
  BY <1>3, CallEnds
<1>5. ReviewTypeOK'
  BY <1>1, <1>3, <1>4, CallsAreTyped DEF ReviewTypeOK, ReviewCalls
<1>6. ASSUME ~overlapped' PROVE OneCall'
  <2>1. CallFits(call[k]) /\ \A m \in Keys : m # k => call[m] = Off
    BY <1>1, <1>2, <1>6 DEF OneCall, Quiet
  <2>2. call[k].under = tab
    BY <1>1, <2>1 DEF CallFits
  <2>3. call'[k] = c /\ \A m \in Keys : m # k => call'[m] = Off
    BY <1>3, <2>1 DEF ReviewCalls
  <2>4. CASE c = Off /\ visible = {} /\ opened' = NoAsk
    BY <1>1, <2>2, <2>3, <2>4 DEF OneCall, Quiet, TabFits, InTab
  <2>5. CASE c \in DetailCall /\ c.of \in visible
    BY <1>1, <2>2, <2>5, <2>3 DEF DetailCall, InTab, OneCall, CallFits
  <2> QED  BY <1>3, <2>4, <2>5
<1> QED
  BY <1>1, <1>4, <1>5, <1>6 DEF WordingIsOwn

LEMMA DetailOpensKeeps ==
    ASSUME ReviewInv, NEW k \in Keys, DetailOpens(k)
    PROVE  ReviewInv'
PROOF
<1> USE DEF ReviewInv
<1>1. /\ call[k].pc = "one" /\ opened' = [id |-> call[k].of, status |-> askStatus[call[k].of]]
      /\ form' = call[k].of /\ call' = [call EXCEPT ![k] = Off]
      /\ UNCHANGED <<askStatus, decidedBy, moves, tab, requestRows, overlapped>>
  BY DEF DetailOpens
<1>2. call[k] \in DetailCall /\ call[k].of \in Asks /\ call[k] # Off
  BY <1>1, KindOfCall DEF DetailCall
<1>3. opened' \in [id : Asks, status : ReviewStatuses] /\ opened'.id = call[k].of
  BY <1>1, <1>2 DEF ReviewTypeOK
<1>4. opened' # NoAsk
  BY <1>3, ReviewAssumption DEF ReviewStatuses
<1>5. ReviewCalls'
  BY <1>1, CallEnds
<1>6. ReviewTypeOK'
  BY <1>1, <1>2, <1>3, <1>5, CallsAreTyped DEF ReviewTypeOK, ReviewCalls
<1>7. ASSUME ~overlapped' PROVE OneCall'
  BY <1>1, <1>2, <1>7, <1>3, <1>4 DEF OneCall, Quiet, CallFits, TabFits, InTab, ReviewCalls
<1> QED
  BY <1>1, <1>5, <1>6, <1>7 DEF WordingIsOwn

LEMMA CallFailsKeeps ==
    ASSUME ReviewInv, NEW k \in Keys, ReviewQueueFails(k) \/ DetailLost(k)
    PROVE  ReviewInv'
PROOF
<1> USE DEF ReviewInv
<1>1. /\ call' = [call EXCEPT ![k] = Off] /\ overlapped' = TRUE /\ opened' \in {opened, NoAsk}
      /\ UNCHANGED <<askStatus, decidedBy, moves, tab, requestRows, form>>
  BY DEF ReviewQueueFails, DetailLost
<1>2. ReviewCalls'
  BY <1>1, CallEnds
<1>3. ReviewTypeOK'
  BY <1>1, <1>2, CallsAreTyped DEF ReviewTypeOK, ReviewCalls
<1> QED
  BY <1>1, <1>2, <1>3 DEF WordingIsOwn

LEMMA PressKeeps ==
    ASSUME ReviewInv, NEW to \in Moves, PressDecision(to)
    PROVE  ReviewInv'
PROOF
<1> USE DEF ReviewInv
<1> DEFINE c == [pc |-> "decide", of |-> opened.id, to |-> to, wording |-> form, under |-> tab]
<1>1. /\ opened # NoAsk /\ call[ReviewSaving] = Off /\ call' = [call EXCEPT ![ReviewSaving] = c]
      /\ overlapped' = (overlapped \/ ~Quiet)
      /\ UNCHANGED <<askStatus, decidedBy, moves, tab, requestRows, opened, form>>
  BY DEF PressDecision
<1>2. opened.id \in Asks /\ form = opened.id /\ tab \in Tabs
  BY <1>1 DEF ReviewTypeOK
<1>3. c \in DecisionCall /\ c.pc = "decide" /\ c.wording = c.of /\ c.under = tab
  BY <1>2 DEF DecisionCall
<1> HIDE DEF c
<1>4. ReviewSaving \in Keys /\ ReviewSaving \notin Loads /\ Loads \subseteq Keys
  BY ReviewAssumption DEF Keys
<1>5. call'[ReviewSaving] = c /\ \A m \in Keys : m # ReviewSaving => call'[m] = call[m]
  BY <1>1, <1>4 DEF ReviewCalls
<1>6. call' \in [Keys -> {Off} \cup QueueCall \cup DetailCall \cup DecisionCall]
  BY <1>1, <1>3 DEF ReviewCalls
<1>7. ReviewCalls'
  BY <1>3, <1>4, <1>5, <1>6 DEF ReviewCalls
<1>8. ReviewTypeOK'
  BY <1>1, <1>7, CallsAreTyped DEF ReviewTypeOK, ReviewCalls, Quiet
<1>9. ASSUME ~overlapped' PROVE OneCall'
  <2>1. Quiet /\ ~overlapped
    BY <1>1, <1>9
  <2>2. TabFits
    BY <2>1, <1>4, KindOfCall DEF OneCall, Quiet, CallFits, Off
  <2>3. TabFits' /\ call'[ReviewSaving].pc = "decide" /\ call'[ReviewSaving].under = tab'
    BY <1>1, <1>3, <1>5, <2>2 DEF TabFits, InTab
  <2>4. \A m \in Keys : m # ReviewSaving => call'[m] = Off
    BY <1>5, <2>1 DEF Quiet
  <2> QED  BY <1>4, <2>3, <2>4 DEF OneCall, CallFits
<1> QED
  BY <1>1, <1>7, <1>8, <1>9 DEF WordingIsOwn

\* The decision is stored with the words of its own form, and the queue loaded under its tab.
LEMMA SavedKeeps ==
    ASSUME ReviewInv, DecisionIsSaved
    PROVE  ReviewInv'
PROOF
<1> USE DEF ReviewInv
<1> DEFINE d == call[ReviewSaving]
           c == [pc |-> "list", under |-> d.under, want |-> d.of]
<1>1. /\ d.pc = "decide" /\ moves < MaxMoves /\ moves' = moves + 1
      /\ askStatus' = [askStatus EXCEPT ![d.of] = d.to]
      /\ decidedBy' = IF d.to # "published" THEN decidedBy ELSE [decidedBy EXCEPT ![d.of] = d.wording]
      /\ UNCHANGED <<tab, requestRows, opened, form, overlapped>>
  BY DEF DecisionIsSaved
<1>2. ReviewSaving \in Keys
  BY DEF Keys
<1>3. call' = [call EXCEPT ![ReviewSaving] = c]
  BY <1>2 DEF DecisionIsSaved, ReviewCalls
<1>4. d \in DecisionCall /\ d # Off /\ d.wording = d.of
  BY <1>1, <1>2, KindOfCall DEF ReviewCalls
<1>5. d.of \in Asks /\ d.to \in Moves /\ d.wording \in Asks /\ d.under \in Tabs
  BY <1>4 DEF DecisionCall
<1>6. c \in QueueCall /\ c.pc = "list" /\ c.under = d.under
  BY <1>5 DEF QueueCall
<1> HIDE DEF c
<1>7. ReviewCalls'
  BY <1>2, <1>3, <1>6, CallEnds
<1>8. moves' \in 0..MaxMoves
  <2>1. moves \in 0..MaxMoves /\ MaxMoves \in Nat
    BY ReviewAssumption DEF ReviewTypeOK
  <2> QED  BY ONLY <2>1, <1>1
<1>9. /\ askStatus' \in [Asks -> ReviewStatuses] /\ decidedBy' \in [Asks -> Asks \cup {NoAsk}]
      /\ WordingIsOwn'
  BY <1>1, <1>4, <1>5 DEF ReviewTypeOK, ReviewStatuses, WordingIsOwn
<1>10. ReviewTypeOK'
  BY <1>1, <1>7, <1>8, <1>9, CallsAreTyped DEF ReviewTypeOK, ReviewCalls
<1>11. ASSUME ~overlapped' PROVE OneCall'
  BY <1>1, <1>2, <1>4, <1>11, <1>3, <1>6 DEF OneCall, Quiet, CallFits, ReviewCalls
<1> QED
  BY <1>7, <1>9, <1>10, <1>11

LEMMA DecisionFailsKeeps ==
    ASSUME ReviewInv, DecisionFails
    PROVE  ReviewInv'
PROOF
<1> USE DEF ReviewInv
<1>1. /\ call[ReviewSaving].pc = "decide" /\ call' = [call EXCEPT ![ReviewSaving] = Off]
      /\ UNCHANGED <<askStatus, decidedBy, moves, tab, requestRows, opened, form, overlapped>>
  BY DEF DecisionFails
<1>2. ReviewSaving \in Keys /\ call[ReviewSaving] # Off
  BY <1>1, KindOfCall DEF Keys
<1>3. ReviewCalls'
  BY <1>1, <1>2, CallEnds
<1>4. ReviewTypeOK'
  BY <1>1, <1>3, CallsAreTyped DEF ReviewTypeOK, ReviewCalls
<1>5. ASSUME ~overlapped' PROVE OneCall'
  BY <1>1, <1>2, <1>5 DEF OneCall, Quiet, CallFits, TabFits, InTab, ReviewCalls
<1> QED
  BY <1>1, <1>3, <1>4, <1>5 DEF WordingIsOwn

LEMMA ColleagueKeeps ==
    ASSUME ReviewInv, NEW a \in Asks, NEW to \in Moves, ColleagueDecides(a, to)
    PROVE  ReviewInv'
PROOF
<1> USE DEF ReviewInv
<1>1. /\ moves < MaxMoves /\ moves' = moves + 1 /\ askStatus' = [askStatus EXCEPT ![a] = to]
      /\ decidedBy' = IF to = "published" THEN [decidedBy EXCEPT ![a] = a] ELSE decidedBy
      /\ UNCHANGED <<tab, requestRows, opened, form, call, overlapped>>
  BY DEF ColleagueDecides
<1>2. moves' \in 0..MaxMoves
  <2>1. moves \in 0..MaxMoves /\ MaxMoves \in Nat
    BY ReviewAssumption DEF ReviewTypeOK
  <2> QED  BY ONLY <2>1, <1>1
<1>3. /\ askStatus' \in [Asks -> ReviewStatuses] /\ decidedBy' \in [Asks -> Asks \cup {NoAsk}]
      /\ WordingIsOwn'
  BY <1>1 DEF ReviewTypeOK, ReviewStatuses, WordingIsOwn
<1>4. ReviewTypeOK' /\ ReviewCalls'
  BY <1>1, <1>2, <1>3 DEF ReviewTypeOK, ReviewCalls
<1>5. (~overlapped => OneCall)'
  BY <1>1 DEF OneCall, Quiet, CallFits, TabFits, InTab
<1> QED
  BY <1>3, <1>4, <1>5

LEMMA ReviewStep == ReviewInv /\ [ReviewNext]_reviewVars => ReviewInv'
PROOF
<1> SUFFICES ASSUME ReviewInv, [ReviewNext]_reviewVars PROVE ReviewInv'
  OBVIOUS
<1>1. CASE ReviewNext
  BY <1>1, RefreshKeepsReview, SavedKeeps, DecisionFailsKeeps, OpenRowKeeps, ColleagueKeeps, ChooseTabKeeps,
     PressKeeps, QueueArrivesKeeps, CallFailsKeeps, DetailOpensKeeps DEF ReviewNext
<1>2. CASE UNCHANGED reviewVars
  BY <1>2 DEF reviewVars, ReviewInv, ReviewTypeOK, ReviewCalls, WordingIsOwn, OneCall, Quiet, CallFits, TabFits,
     InTab
<1> QED
  BY <1>1, <1>2

LEMMA ReviewKeep == ReviewInv => ReviewTypeOK /\ TabShowsItsOwn /\ WordingIsOwn
PROOF
  BY DEF ReviewInv, TabShowsItsOwn, TabFits, Quiet, Off, CallFits, OneCall

-----------------------------------------------------------------------------
(* The library of a client: one entry, and what is written of it.            *)

StoredWrite == [pc : {"stored"}, what : Items]
LibraryWrites == {LibraryIdle} \cup AskedWrite \cup Listing \cup Reading \cup StoredWrite

\* What the screen shows at rest: one client, one of its entries, the versions of that entry.
ShelfIsOwn == \A i \in shelf : item[i].owner = library
ShownIsOne ==
    /\ ShelfIsOwn /\ (chosenItem = NoItem <=> shelf = {}) /\ versionsOf = chosenItem
    /\ chosenItem # NoItem => item[chosenItem].owner = library

\* The request under way is of the client on the screen, and leads to what is shown at rest.
RequestFits(r) ==
    \/ r.pc = "list" /\ r.at = library
    \/ r.pc = "versions" /\ r.at = library /\ r.of = chosenItem /\ chosenItem \in shelf /\ ShelfIsOwn
    \/ r.pc = "sent" /\ r.at = library /\ ShownIsOne
    \/ r.pc = "stored" /\ ShownIsOne
FetchAlone(f) ==
    (\A g \in Fetches : g # f => fetch[g] = LibraryIdle) /\ \A w \in Writes : write[w] = LibraryIdle
WriteAlone(w) ==
    (\A f \in Fetches : fetch[f] = LibraryIdle) /\ \A v \in Writes : v # w => write[v] = LibraryIdle
OneRequest ==
    \/ Settled /\ ShownIsOne
    \/ \E f \in Fetches : FetchAlone(f) /\ RequestFits(fetch[f])
    \/ \E w \in Writes : WriteAlone(w) /\ RequestFits(write[w])

LibraryInv == LibraryTypeOK /\ WritesAreOfOnePiece /\ (~mixed => OneRequest)

-----------------------------------------------------------------------------
\* The record of a request tells its kind.
LEMMA KindOfFetch ==
    ASSUME LibraryTypeOK, NEW f \in Fetches
    PROVE  /\ fetch[f].pc = "list" => fetch[f] \in Listing
           /\ fetch[f].pc = "versions" => fetch[f] \in Reading
           /\ fetch[f].pc \in {"list", "versions"} => fetch[f] # LibraryIdle
           /\ fetch[f].pc \notin {"sent", "stored"}
PROOF
<1>1. fetch[f] \in {LibraryIdle} \cup Listing \cup Reading
  BY DEF LibraryTypeOK
<1> QED
  BY ONLY <1>1 DEF LibraryIdle, Listing, Reading

LEMMA KindOfWrite ==
    ASSUME LibraryTypeOK, NEW w \in Writes
    PROVE  /\ write[w].pc = "list" => write[w] \in Listing
           /\ write[w].pc = "versions" => write[w] \in Reading
           /\ write[w].pc = "sent" => write[w] \in AskedWrite
           /\ write[w].pc = "stored" => write[w] \in StoredWrite
           /\ write[w].pc \in {"list", "versions", "sent", "stored"} => write[w] # LibraryIdle
PROOF
<1>1. write[w] \in {LibraryIdle} \cup AskedWrite \cup Listing \cup Reading \cup StoredWrite
  BY DEF LibraryTypeOK, StoredWrite
<1>2. \A a \in AskedWrite : a.pc = "sent"
  BY DEF AskedWrite
<1> HIDE DEF AskedWrite
<1> QED
  BY ONLY <1>1, <1>2 DEF LibraryIdle, Listing, Reading, StoredWrite

\* What a command that was sent says.
LEMMA AskedFields ==
    ASSUME NEW a \in AskedWrite
    PROVE  /\ a.at \in Libraries /\ a.what \in Items
           /\ a.kind \in {"create", "draft", "active", "review", "restore"}
           /\ a.kind # "create" => a.under \in Filters
           /\ a.kind = "restore" => a.version \in Items
PROOF
  BY DEF AskedWrite

LEMMA LibraryStart == LibraryInit => LibraryInv
PROOF
<1> SUFFICES ASSUME LibraryInit PROVE LibraryInv
  OBVIOUS
<1> USE DEF LibraryInit
<1>1. PICK f \in Fetches : fetch = [g \in Fetches |->
          IF g = f THEN [pc |-> "list", at |-> library, under |-> "all", want |-> NoItem] ELSE LibraryIdle]
  OBVIOUS
<1>2. [pc |-> "list", at |-> library, under |-> "all", want |-> NoItem] \in Listing
  BY LibraryAssumption DEF Listing
<1>3. fetch \in [Fetches -> {LibraryIdle} \cup Listing \cup Reading]
  BY <1>1, <1>2
<1>4. sentWrites \in 0..MaxWrites
  BY LibraryAssumption
<1>5. /\ item \in [Items -> [owner : Libraries \cup {NoItem}, status : {"draft", "active"}]]
      /\ lastWrite \in [Items -> [at : Libraries \cup {NoItem}, version : Items \cup {NoItem}]]
      /\ filter \in Filters
  BY LibraryAssumption
<1>6. LibraryTypeOK
  BY <1>3, <1>4, <1>5 DEF LibraryTypeOK
<1>7. FetchAlone(f) /\ RequestFits(fetch[f])
  BY <1>1 DEF FetchAlone, RequestFits
<1> QED
  BY <1>6, <1>7 DEF LibraryInv, OneRequest, WritesAreOfOnePiece

-----------------------------------------------------------------------------
\* A load begins: on a settled screen it is the only request.
LEMMA LoadBegins ==
    ASSUME LibraryInv, NEW load \in Listing \cup Reading, Begin(load),
           library' \in Libraries, filter' \in Filters, shelf' \subseteq Items,
           chosenItem' \in Items \cup {NoItem}, versionsOf' \in Items \cup {NoItem},
           Settled /\ (load.pc = "list" \/ ~mixed) => RequestFits(load)'
    PROVE  LibraryInv'
PROOF
<1> USE DEF LibraryInv
<1>1. PICK f \in Fetches : fetch[f] = LibraryIdle /\ fetch' = [fetch EXCEPT ![f] = load]
  BY DEF Begin
<1>2. /\ mixed' = (IF Settled THEN mixed /\ load.pc # "list" ELSE TRUE)
      /\ UNCHANGED <<item, lastWrite, write, sentWrites>>
  BY DEF Begin
<1>3. LibraryTypeOK'
  BY <1>1, <1>2 DEF LibraryTypeOK
<1>4. ASSUME ~mixed' PROVE OneRequest'
  BY <1>2, <1>4, <1>1 DEF Settled, LibraryTypeOK, FetchAlone, RequestFits, OneRequest
<1>5. WritesAreOfOnePiece'
  BY <1>2 DEF WritesAreOfOnePiece
<1> QED
  BY <1>3, <1>4, <1>5

LEMMA ChoosingKeeps ==
    ASSUME LibraryInv,
           \/ \E f \in Filters : Reshelve(f)
           \/ \E c \in Libraries : ChooseLibrary(c)
           \/ \E i \in Items : ChooseItem(i)
    PROVE  LibraryInv'
PROOF
<1> USE DEF LibraryInv
<1>1. /\ library \in Libraries /\ filter \in Filters /\ shelf \subseteq Items
      /\ chosenItem \in Items \cup {NoItem} /\ versionsOf \in Items \cup {NoItem}
  BY DEF LibraryTypeOK
<1>2. ASSUME NEW f \in Filters, Reshelve(f) PROVE LibraryInv'
  BY <1>1, <1>2, LoadBegins DEF Listing, Reshelve, RequestFits
<1>3. ASSUME NEW c \in Libraries, ChooseLibrary(c) PROVE LibraryInv'
  BY <1>1, <1>3, LoadBegins DEF Listing, ChooseLibrary, RequestFits
<1>4. ASSUME NEW i \in Items, ChooseItem(i) PROVE LibraryInv'
  <2>1. PICK load : load = [pc |-> "versions", at |-> library, of |-> i]
    OBVIOUS
  <2>2. load \in Reading /\ load.pc = "versions" /\ load.at = library /\ load.of = i
    BY <1>1, <2>1 DEF Reading
  <2>3. /\ Begin(load) /\ i \in shelf /\ chosenItem' = i
        /\ UNCHANGED <<library, filter, shelf, versionsOf>>
    BY <1>4, <2>1 DEF ChooseItem
  <2>4. ASSUME Settled, ~mixed PROVE RequestFits(load)'
    BY <2>4, KindOfFetch, KindOfWrite, <2>3, <2>2 DEF OneRequest, Settled, ShownIsOne, RequestFits, LibraryIdle,
       Begin, ShelfIsOwn
  <2> QED  BY <1>1, <2>2, <2>3, <2>4, LoadBegins
<1> QED
  BY <1>2, <1>3, <1>4

-----------------------------------------------------------------------------
\* The entries arrive: those of the client the load was of; the versions of one of them follow.
LEMMA ShelfIsFilled ==
    ASSUME LibraryInv, NEW load \in Listing, NEW next \in Following(load), Shelve(load, next)
    PROVE  /\ next = LibraryIdle \/ (next \in Reading /\ next # LibraryIdle)
           /\ shelf' \subseteq Items /\ chosenItem' \in Items \cup {NoItem}
           /\ versionsOf' \in Items \cup {NoItem}
           /\ load.at = library /\ next = LibraryIdle => ShownIsOne'
           /\ load.at = library /\ next # LibraryIdle => RequestFits(next)'
PROOF
<1>1. load.at \in Libraries /\ load.want \in Items \cup {NoItem}
  BY DEF Listing
<1>2. /\ shelf' = Listed(load)
      /\ chosenItem' = (IF next = LibraryIdle THEN NoItem ELSE next.of)
      /\ versionsOf' = (IF next = LibraryIdle THEN NoItem ELSE versionsOf)
      /\ UNCHANGED <<item, library>>
  BY DEF Shelve
<1>3. Listed(load) \subseteq Items /\ \A i \in Listed(load) : item[i].owner = load.at
  BY DEF Listed
<1>4. versionsOf \in Items \cup {NoItem}
  BY DEF LibraryInv, LibraryTypeOK
<1>5. CASE Listed(load) = {}
  <2>1. next = LibraryIdle
    BY <1>5 DEF Following
  <2>2. chosenItem' = NoItem /\ versionsOf' = NoItem /\ shelf' = {}
    BY <1>2, <1>5, <2>1
  <2>3. ShownIsOne'
    BY <2>2 DEF ShownIsOne, ShelfIsOwn
  <2>4. shelf' \subseteq Items /\ chosenItem' \in Items \cup {NoItem} /\ versionsOf' \in Items \cup {NoItem}
    BY <2>2
  <2> QED  BY ONLY <2>1, <2>3, <2>4
<1>6. CASE Listed(load) # {}
  BY <1>6, <1>1, <1>3, <1>2, <1>4 DEF Following, Reading, LibraryIdle, RequestFits, ShelfIsOwn
<1> QED
  BY <1>5, <1>6

\* One request goes on, or ends; the others rest as they did.
LEMMA FetchGoesOn ==
    ASSUME LibraryTypeOK, NEW f \in Fetches, FetchAlone(f), NEW x,
           fetch' = [fetch EXCEPT ![f] = x], write' = write
    PROVE  FetchAlone(f)' /\ fetch'[f] = x /\ (x = LibraryIdle => Settled')
PROOF
  BY DEF LibraryTypeOK, FetchAlone, Settled

LEMMA WriteGoesOn ==
    ASSUME LibraryTypeOK, NEW w \in Writes, WriteAlone(w), NEW x,
           write' = [write EXCEPT ![w] = x], fetch' = fetch
    PROVE  WriteAlone(w)' /\ write'[w] = x /\ (x = LibraryIdle => Settled')
PROOF
  BY DEF LibraryTypeOK, WriteAlone, Settled

\* The request that moves is the only one there is.
LEMMA TheOnlyFetch ==
    ASSUME LibraryInv, ~mixed, NEW f \in Fetches, fetch[f] # LibraryIdle
    PROVE  FetchAlone(f) /\ RequestFits(fetch[f])
PROOF
  BY DEF LibraryInv, OneRequest, Settled, FetchAlone, WriteAlone

LEMMA TheOnlyWrite ==
    ASSUME LibraryInv, ~mixed, NEW w \in Writes, write[w] # LibraryIdle
    PROVE  WriteAlone(w) /\ RequestFits(write[w])
PROOF
  BY DEF LibraryInv, OneRequest, Settled, FetchAlone, WriteAlone

LEMMA ShelfArrivesKeeps ==
    ASSUME LibraryInv, NEW f \in Fetches, ShelfArrives(f)
    PROVE  LibraryInv'
PROOF
<1>0. LibraryTypeOK
  BY DEF LibraryInv
<1>1. PICK load : load = fetch[f]
  OBVIOUS
<1>2. fetch[f].pc = "list" /\ write' = write
  BY DEF ShelfArrives
<1>3. load \in Listing /\ load.pc = "list" /\ fetch[f] # LibraryIdle
  BY <1>0, <1>1, <1>2, KindOfFetch
<1>4. PICK next \in Following(load) : fetch' = [fetch EXCEPT ![f] = next] /\ Shelve(load, next)
  BY <1>1 DEF ShelfArrives
<1>5. /\ next = LibraryIdle \/ (next \in Reading /\ next # LibraryIdle)
      /\ shelf' \subseteq Items /\ chosenItem' \in Items \cup {NoItem}
      /\ versionsOf' \in Items \cup {NoItem}
      /\ load.at = library /\ next = LibraryIdle => ShownIsOne'
      /\ load.at = library /\ next # LibraryIdle => RequestFits(next)'
  BY <1>3, <1>4, ShelfIsFilled
<1>6. UNCHANGED <<item, lastWrite, library, filter, sentWrites, mixed>>
  BY <1>4 DEF Shelve
<1>7. fetch' \in [Fetches -> {LibraryIdle} \cup Listing \cup Reading]
  BY <1>0, <1>4, <1>5 DEF LibraryTypeOK
<1>8. LibraryTypeOK' /\ WritesAreOfOnePiece'
  BY <1>2, <1>5, <1>6, <1>7 DEF LibraryInv, LibraryTypeOK, WritesAreOfOnePiece
<1>9. ASSUME ~mixed PROVE OneRequest'
  <2>1. FetchAlone(f) /\ load.at = library
    BY <1>1, <1>3, <1>9, TheOnlyFetch DEF RequestFits
  <2>2. FetchAlone(f)' /\ fetch'[f] = next /\ (next = LibraryIdle => Settled')
    BY <1>0, <1>2, <1>4, <2>1, FetchGoesOn
  <2>3. CASE next = LibraryIdle
    BY <1>5, <2>1, <2>2, <2>3 DEF OneRequest
  <2>4. CASE next # LibraryIdle
    BY <1>5, <2>1, <2>2, <2>4 DEF RequestFits, OneRequest
  <2> QED  BY <2>3, <2>4
<1> QED
  BY <1>6, <1>8, <1>9 DEF LibraryInv

LEMMA ShelfFollowsKeeps ==
    ASSUME LibraryInv, NEW w \in Writes, ShelfFollows(w)
    PROVE  LibraryInv'
PROOF
<1>0. LibraryTypeOK
  BY DEF LibraryInv
<1>1. PICK load : load = write[w]
  OBVIOUS
<1>2. write[w].pc = "list" /\ fetch' = fetch
  BY DEF ShelfFollows
<1>3. load \in Listing /\ load.pc = "list" /\ write[w] # LibraryIdle
  BY <1>0, <1>1, <1>2, KindOfWrite
<1>4. PICK next \in Following(load) : write' = [write EXCEPT ![w] = next] /\ Shelve(load, next)
  BY <1>1 DEF ShelfFollows
<1>5. /\ next = LibraryIdle \/ (next \in Reading /\ next # LibraryIdle)
      /\ shelf' \subseteq Items /\ chosenItem' \in Items \cup {NoItem}
      /\ versionsOf' \in Items \cup {NoItem}
      /\ load.at = library /\ next = LibraryIdle => ShownIsOne'
      /\ load.at = library /\ next # LibraryIdle => RequestFits(next)'
  BY <1>3, <1>4, ShelfIsFilled
<1>6. UNCHANGED <<item, lastWrite, library, filter, sentWrites, mixed>>
  BY <1>4 DEF Shelve
<1>7. write' \in [Writes -> LibraryWrites]
  BY <1>0, <1>4, <1>5 DEF LibraryTypeOK, LibraryWrites, StoredWrite
<1>8. LibraryTypeOK' /\ WritesAreOfOnePiece'
  BY <1>2, <1>5, <1>6, <1>7 DEF LibraryInv, LibraryTypeOK, WritesAreOfOnePiece, LibraryWrites, StoredWrite
<1>9. ASSUME ~mixed PROVE OneRequest'
  <2>1. WriteAlone(w) /\ load.at = library
    BY <1>1, <1>3, <1>9, TheOnlyWrite DEF RequestFits
  <2>2. WriteAlone(w)' /\ write'[w] = next /\ (next = LibraryIdle => Settled')
    BY <1>0, <1>2, <1>4, <2>1, WriteGoesOn
  <2>3. CASE next = LibraryIdle
    BY <1>5, <2>1, <2>2, <2>3 DEF OneRequest
  <2>4. CASE next # LibraryIdle
    BY <1>5, <2>1, <2>2, <2>4 DEF RequestFits, OneRequest
  <2> QED  BY <2>3, <2>4
<1> QED
  BY <1>6, <1>8, <1>9 DEF LibraryInv

-----------------------------------------------------------------------------
\* Versions arrive: those of the entry on the screen, or the screen says they are missing.
LEMMA VersionsAreShown ==
    ASSUME LibraryInv, NEW load \in Reading, Unroll(load)
    PROVE  /\ versionsOf' \in Items \cup {NoItem} /\ mixed' \in BOOLEAN
           /\ RequestFits(load) => mixed' \/ ShownIsOne'
PROOF
<1>1. load.of \in Items /\ load.pc = "versions"
  BY DEF Reading
<1>2. UNCHANGED <<item, lastWrite, library, filter, shelf, chosenItem, sentWrites>>
  BY DEF Unroll
<1>3. \/ versionsOf' = load.of /\ mixed' = mixed
      \/ mixed' = TRUE /\ versionsOf' = versionsOf
  BY DEF Unroll
<1>4. mixed \in BOOLEAN /\ versionsOf \in Items \cup {NoItem} /\ shelf \subseteq Items
  BY DEF LibraryInv, LibraryTypeOK
<1>5. ASSUME RequestFits(load), versionsOf' = load.of PROVE ShownIsOne'
  BY <1>1, <1>5, <1>4, LibraryAssumption, <1>2 DEF RequestFits, ShelfIsOwn, ShownIsOne
<1> QED
  BY <1>1, <1>3, <1>4, <1>5

LEMMA VersionsArriveKeeps ==
    ASSUME LibraryInv, NEW f \in Fetches, VersionsArrive(f)
    PROVE  LibraryInv'
PROOF
<1>0. LibraryTypeOK
  BY DEF LibraryInv
<1>1. PICK load : load = fetch[f]
  OBVIOUS
<1>2. /\ fetch[f].pc = "versions" /\ Unroll(load) /\ fetch' = [fetch EXCEPT ![f] = LibraryIdle]
      /\ write' = write
  BY <1>1 DEF VersionsArrive
<1>3. load \in Reading /\ fetch[f] # LibraryIdle
  BY <1>0, <1>1, <1>2, KindOfFetch
<1>4. /\ versionsOf' \in Items \cup {NoItem} /\ mixed' \in BOOLEAN
      /\ RequestFits(load) => mixed' \/ ShownIsOne'
  BY <1>2, <1>3, VersionsAreShown
<1>5. /\ UNCHANGED <<item, lastWrite, library, filter, shelf, chosenItem, sentWrites>>
      /\ mixed => mixed'
  BY <1>2 DEF Unroll
<1>6. LibraryTypeOK' /\ WritesAreOfOnePiece'
  BY <1>2, <1>4, <1>5 DEF LibraryInv, LibraryTypeOK, WritesAreOfOnePiece
<1>7. ASSUME ~mixed' PROVE OneRequest'
  BY <1>1, <1>3, <1>5, <1>7, TheOnlyFetch, <1>0, <1>2, FetchGoesOn, <1>4 DEF OneRequest
<1> QED
  BY <1>6, <1>7 DEF LibraryInv

LEMMA VersionsFollowKeeps ==
    ASSUME LibraryInv, NEW w \in Writes, VersionsFollow(w)
    PROVE  LibraryInv'
PROOF
<1>0. LibraryTypeOK
  BY DEF LibraryInv
<1>1. PICK load : load = write[w]
  OBVIOUS
<1>2. /\ write[w].pc = "versions" /\ Unroll(load) /\ write' = [write EXCEPT ![w] = LibraryIdle]
      /\ fetch' = fetch
  BY <1>1 DEF VersionsFollow
<1>3. load \in Reading /\ write[w] # LibraryIdle
  BY <1>0, <1>1, <1>2, KindOfWrite
<1>4. /\ versionsOf' \in Items \cup {NoItem} /\ mixed' \in BOOLEAN
      /\ RequestFits(load) => mixed' \/ ShownIsOne'
  BY <1>2, <1>3, VersionsAreShown
<1>5. /\ UNCHANGED <<item, lastWrite, library, filter, shelf, chosenItem, sentWrites>>
      /\ mixed => mixed'
  BY <1>2 DEF Unroll
<1>6. LibraryTypeOK' /\ WritesAreOfOnePiece'
  BY <1>2, <1>4, <1>5 DEF LibraryInv, LibraryTypeOK, WritesAreOfOnePiece
<1>7. ASSUME ~mixed' PROVE OneRequest'
  BY <1>1, <1>3, <1>5, <1>7, TheOnlyWrite, <1>0, <1>2, WriteGoesOn, <1>4 DEF OneRequest
<1> QED
  BY <1>6, <1>7 DEF LibraryInv

LEMMA LoadFailsKeeps ==
    ASSUME LibraryInv, NEW f \in Fetches, LibraryLoadFails(f)
    PROVE  LibraryInv'
PROOF
  BY DEF LibraryLoadFails, LibraryInv, LibraryTypeOK, WritesAreOfOnePiece

-----------------------------------------------------------------------------
\* A command names the client on the screen.
LEMMA CommandKeeps ==
    ASSUME LibraryInv, NEW w \in Writes, NEW a \in AskedWrite, a.pc = "sent", a.at = library, Command(w, a)
    PROVE  LibraryInv'
PROOF
<1> USE DEF LibraryInv
<1>1. /\ write[w] = LibraryIdle /\ sentWrites < MaxWrites /\ sentWrites' = sentWrites + 1
      /\ write' = [write EXCEPT ![w] = a] /\ mixed' = (mixed \/ ~Settled)
      /\ UNCHANGED <<item, lastWrite, library, filter, shelf, chosenItem, versionsOf, fetch>>
  BY DEF Command
<1>2. sentWrites' \in 0..MaxWrites
  <2>1. sentWrites \in 0..MaxWrites /\ MaxWrites \in Nat
    BY LibraryAssumption DEF LibraryTypeOK
  <2> QED  BY ONLY <1>1, <2>1
<1>3. write' \in [Writes -> LibraryWrites]
  BY <1>1 DEF LibraryTypeOK, LibraryWrites, StoredWrite
<1>4. mixed' \in BOOLEAN
  BY <1>1 DEF LibraryTypeOK, Settled
<1>5. LibraryTypeOK' /\ WritesAreOfOnePiece'
  BY <1>1, <1>2, <1>3, <1>4 DEF LibraryTypeOK, WritesAreOfOnePiece, LibraryWrites, StoredWrite
<1>6. ASSUME ~mixed' PROVE OneRequest'
  <2>1. Settled /\ ~mixed
    BY <1>1, <1>6
  <2>2. ShownIsOne
    BY <2>1, KindOfFetch, KindOfWrite DEF OneRequest, Settled, RequestFits, LibraryIdle
  <2>3. WriteAlone(w)
    BY <2>1 DEF Settled, WriteAlone
  <2>4. WriteAlone(w)' /\ write'[w] = a
    BY <1>1, <2>3, WriteGoesOn
  <2>5. RequestFits(write[w])'
    BY <1>1, <2>2, <2>4 DEF RequestFits, ShownIsOne, ShelfIsOwn
  <2> QED  BY <2>4, <2>5 DEF OneRequest
<1> QED
  BY <1>5, <1>6

LEMMA PressesKeep ==
    ASSUME LibraryInv,
           PressCreate \/ PressImport \/ PressUrlImport \/ PressSave \/ PressStatus \/ PressReview \/ PressRestore
    PROVE  LibraryInv'
PROOF
<1>1. /\ library \in Libraries /\ filter \in Filters /\ chosenItem \in Items \cup {NoItem}
      /\ versionsOf \in Items \cup {NoItem}
  BY DEF LibraryInv, LibraryTypeOK
<1>2. {Saving, Importing, UrlImporting} \subseteq Writes
  BY DEF Writes
<1>3. ASSUME NEW w \in Writes, Create(w) PROVE LibraryInv'
  BY <1>3, <1>1, CommandKeeps DEF Create, AskedWrite
<1>4. ASSUME NEW kind \in {"draft", "active", "review"}, OnChosen(kind) PROVE LibraryInv'
  BY <1>1, <1>4, <1>2, CommandKeeps DEF OnChosen, AskedWrite
<1>5. ASSUME PressRestore PROVE LibraryInv'
  BY <1>1, <1>5, <1>2, CommandKeeps DEF PressRestore, AskedWrite
<1> QED
  BY <1>2, <1>3, <1>4, <1>5 DEF PressCreate, PressImport, PressUrlImport, PressSave, PressStatus, PressReview

-----------------------------------------------------------------------------
\* The server stores an entry for the client named, which is the one on the screen unless requests crossed.
LEMMA CreateStoredKeeps ==
    ASSUME LibraryInv, NEW w \in Writes, CreateIsStored(w)
    PROVE  LibraryInv'
PROOF
<1>0. LibraryTypeOK
  BY DEF LibraryInv
<1>1. PICK a : a = write[w]
  OBVIOUS
<1>2. /\ a.pc = "sent" /\ item' = [item EXCEPT ![a.what] = [owner |-> a.at, status |-> "draft"]]
      /\ lastWrite' = [lastWrite EXCEPT ![a.what].at = a.at]
      /\ write' = [write EXCEPT ![w] = [pc |-> "stored", what |-> a.what]]
      /\ UNCHANGED <<library, filter, shelf, chosenItem, versionsOf, fetch, sentWrites, mixed>>
  BY <1>1 DEF CreateIsStored
<1>3. a \in AskedWrite /\ write[w] # LibraryIdle
  BY <1>0, <1>1, <1>2, KindOfWrite
<1>4. a.at \in Libraries /\ a.what \in Items
  BY <1>3, AskedFields
<1>5. PICK x : x = [pc |-> "stored", what |-> a.what]
  OBVIOUS
<1>6. x \in StoredWrite /\ x.pc = "stored" /\ write' = [write EXCEPT ![w] = x]
  BY <1>2, <1>4, <1>5 DEF StoredWrite
<1>7. /\ item' \in [Items -> [owner : Libraries \cup {NoItem}, status : {"draft", "active"}]]
      /\ \A i \in Items : item'[i].owner = IF i = a.what THEN a.at ELSE item[i].owner
  BY <1>0, <1>2, <1>4 DEF LibraryTypeOK
<1>8. /\ lastWrite' \in [Items -> [at : Libraries \cup {NoItem}, version : Items \cup {NoItem}]]
      /\ \A i \in Items : lastWrite'[i].at = (IF i = a.what THEN a.at ELSE lastWrite[i].at)
      /\ \A i \in Items : lastWrite'[i].version = lastWrite[i].version
  BY <1>0, <1>2, <1>4 DEF LibraryTypeOK
<1>9. write' \in [Writes -> LibraryWrites]
  BY <1>0, <1>6 DEF LibraryTypeOK, LibraryWrites, StoredWrite
<1>10. LibraryTypeOK'
  BY <1>0, <1>2, <1>7, <1>8, <1>9 DEF LibraryTypeOK, LibraryWrites, StoredWrite
<1>11. WritesAreOfOnePiece'
  BY <1>7, <1>8 DEF LibraryInv, WritesAreOfOnePiece
<1>12. ASSUME ~mixed PROVE OneRequest'
  <2>1. WriteAlone(w) /\ a.at = library /\ ShownIsOne
    BY <1>1, <1>2, <1>3, <1>12, TheOnlyWrite DEF RequestFits
  <2>2. WriteAlone(w)' /\ write'[w] = x
    BY <1>0, <1>2, <1>6, <2>1, WriteGoesOn
  <2>3. shelf \subseteq Items /\ chosenItem \in Items \cup {NoItem}
    BY <1>0 DEF LibraryTypeOK
  <2>4. ShownIsOne'
    BY <1>2, <1>7, <2>1, <2>3 DEF ShownIsOne, ShelfIsOwn
  <2>5. RequestFits(write[w])'
    BY <1>6, <2>2, <2>4 DEF RequestFits
  <2> QED  BY <2>2, <2>5 DEF OneRequest
<1> QED
  BY <1>2, <1>10, <1>11, <1>12 DEF LibraryInv

\* A change keeps the client of its entry, and names the version of its own.
LEMMA ChangeStoredKeeps ==
    ASSUME LibraryInv, NEW w \in Writes, ChangeIsStored(w)
    PROVE  LibraryInv'
PROOF
<1>0. LibraryTypeOK
  BY DEF LibraryInv
<1>1. PICK a : a = write[w]
  OBVIOUS
<1>2. PICK x : x = [pc |-> "list", at |-> a.at, under |-> a.under, want |-> a.what]
  OBVIOUS
<1>3. /\ a.pc = "sent" /\ a.kind # "create" /\ item[a.what].owner = a.at
      /\ a.kind = "restore" => a.version = a.what
      /\ item' = [item EXCEPT ![a.what].status = StatusAfter(a)]
      /\ lastWrite' = [lastWrite EXCEPT ![a.what] =
             [at |-> a.at, version |-> IF a.kind = "restore" THEN a.version ELSE @.version]]
      /\ write' = [write EXCEPT ![w] = x]
      /\ UNCHANGED <<library, filter, shelf, chosenItem, versionsOf, fetch, sentWrites, mixed>>
  BY <1>1, <1>2 DEF ChangeIsStored, Accepts
<1>4. a \in AskedWrite /\ write[w] # LibraryIdle
  BY <1>0, <1>1, <1>3, KindOfWrite
<1>5. /\ a.at \in Libraries /\ a.what \in Items /\ a.under \in Filters
      /\ a.kind = "restore" => a.version \in Items
  BY <1>3, <1>4, AskedFields
<1>6. x \in Listing /\ x.pc = "list" /\ x.at = a.at
  BY <1>2, <1>5 DEF Listing
<1>7. StatusAfter(a) \in {"draft", "active"}
  BY <1>0, <1>5 DEF StatusAfter, LibraryTypeOK
<1>8. /\ item' \in [Items -> [owner : Libraries \cup {NoItem}, status : {"draft", "active"}]]
      /\ \A i \in Items : item'[i].owner = item[i].owner
  BY <1>0, <1>3, <1>5, <1>7 DEF LibraryTypeOK
<1>9. PICK v : v = IF a.kind = "restore" THEN a.version ELSE lastWrite[a.what].version
  OBVIOUS
<1>10. v \in Items \cup {NoItem} /\ v \in {a.what, NoItem}
  BY <1>0, <1>3, <1>5, <1>9 DEF LibraryInv, LibraryTypeOK, WritesAreOfOnePiece
<1>11. lastWrite' = [lastWrite EXCEPT ![a.what] = [at |-> a.at, version |-> v]]
  BY <1>0, <1>3, <1>5, <1>9 DEF LibraryTypeOK
<1>12. /\ lastWrite' \in [Items -> [at : Libraries \cup {NoItem}, version : Items \cup {NoItem}]]
       /\ lastWrite'[a.what].at = a.at /\ lastWrite'[a.what].version = v
       /\ \A i \in Items : i # a.what => lastWrite'[i] = lastWrite[i]
  BY <1>0, <1>5, <1>10, <1>11 DEF LibraryTypeOK
<1>13. write' \in [Writes -> LibraryWrites]
  BY <1>0, <1>3, <1>6 DEF LibraryTypeOK, LibraryWrites, StoredWrite
<1>14. LibraryTypeOK'
  BY <1>0, <1>3, <1>8, <1>12, <1>13 DEF LibraryTypeOK, LibraryWrites, StoredWrite
<1>15. WritesAreOfOnePiece'
  BY <1>3, <1>8, <1>10, <1>12 DEF LibraryInv, WritesAreOfOnePiece
<1>16. ASSUME ~mixed PROVE OneRequest'
  <2>1. WriteAlone(w) /\ a.at = library
    BY <1>1, <1>3, <1>4, <1>16, TheOnlyWrite DEF RequestFits
  <2>2. WriteAlone(w)' /\ write'[w] = x
    BY <1>0, <1>3, <2>1, WriteGoesOn
  <2>3. RequestFits(write[w])'
    BY <1>3, <1>6, <2>1, <2>2 DEF RequestFits
  <2> QED  BY <2>2, <2>3 DEF OneRequest
<1> QED
  BY <1>3, <1>14, <1>15, <1>16 DEF LibraryInv

LEMMA WriteEndsKeeps ==
    ASSUME LibraryInv, NEW w \in Writes, CreateIsReported(w) \/ WriteFails(w)
    PROVE  LibraryInv'
PROOF
<1>0. LibraryTypeOK
  BY DEF LibraryInv
<1>1. /\ write[w].pc \in {"stored", "sent"} /\ write' = [write EXCEPT ![w] = LibraryIdle]
      /\ UNCHANGED <<item, lastWrite, library, filter, shelf, chosenItem, versionsOf, fetch, sentWrites, mixed>>
  BY DEF CreateIsReported, WriteFails
<1>2. write[w] # LibraryIdle
  BY <1>0, <1>1, KindOfWrite
<1>3. LibraryTypeOK' /\ WritesAreOfOnePiece'
  BY <1>1 DEF LibraryInv, LibraryTypeOK, WritesAreOfOnePiece
<1>4. ASSUME ~mixed PROVE OneRequest'
  BY <1>1, <1>2, <1>4, TheOnlyWrite, <1>0, WriteGoesOn DEF RequestFits, OneRequest, ShownIsOne, ShelfIsOwn
<1> QED
  BY <1>1, <1>3, <1>4 DEF LibraryInv

LEMMA LibraryStep == LibraryInv /\ [LibraryNext]_libVars => LibraryInv'
PROOF
<1> SUFFICES ASSUME LibraryInv, [LibraryNext]_libVars PROVE LibraryInv'
  OBVIOUS
<1>1. CASE LibraryNext
  BY <1>1, ChoosingKeeps, ShelfArrivesKeeps, VersionsArriveKeeps, LoadFailsKeeps, PressesKeep, ShelfFollowsKeeps,
     VersionsFollowKeeps, WriteEndsKeeps, CreateStoredKeeps, ChangeStoredKeeps DEF LibraryNext
<1>2. CASE UNCHANGED libVars
  BY <1>2 DEF libVars, LibraryInv, LibraryTypeOK, WritesAreOfOnePiece, OneRequest, Settled, ShownIsOne, ShelfIsOwn,
     FetchAlone, WriteAlone, RequestFits
<1> QED
  BY <1>1, <1>2

LEMMA LibraryKeep == LibraryInv => LibraryTypeOK /\ WritesAreOfOnePiece /\ OneEntryIsShown
PROOF
  BY KindOfFetch, KindOfWrite DEF LibraryInv, OneEntryIsShown, ShownIsOne, ShelfIsOwn, OneRequest, Settled,
     RequestFits, LibraryIdle

-----------------------------------------------------------------------------
(* The conversations: what is picked, and what is searched for.              *)

\* What the screen knows of tickets is of tickets there are, and a history asked for is of the conversation
\* on the screen.
KnownTickets ==
    /\ TalksTypeOK
    /\ talks # NoTalk => picked \in Talks /\ talks \subseteq ticketed
    /\ takeover # Resting => talks # NoTalk
    /\ created # NoTalk => created \in ticketed
    /\ listing.pc = "served" => listing.got \subseteq ticketed
    /\ takeover.pc = "done" => takeover.of \in ticketed
    /\ story.asked \in {NoTalk, picked}

\* A search that nothing outran: it waits in the field's timer, is under way alone, or is shown.
OneSearch ==
    \/ typed.now = NoWords /\ ~pausing /\ NoneSearching /\ found = NoTalk
    \/ typed.now # NoWords /\ pausing /\ NoneSearching
    \/ /\ typed.now # NoWords /\ ~pausing
       /\ \E s \in Searches : searching[s] = typed.now /\ \A r \in Searches : r # s => searching[r] = NoTalk
    \/ typed.now # NoWords /\ ~pausing /\ NoneSearching /\ found = typed.now

TalksInv ==
    /\ KnownTickets /\ StoryIsOfPicked
    /\ (pausing => typed.now # NoWords) /\ (~raced => OneSearch)

LEMMA TalksStart == TalksInit => TalksInv
PROOF
<1> SUFFICES ASSUME TalksInit PROVE TalksInv
  OBVIOUS
<1> USE DEF TalksInit, Resting
<1>1. /\ ticketed \subseteq Talks /\ listing \in {Resting, [pc |-> "asked"]}
      /\ typed \in [now : Words, times : 0..MaxTyping]
  BY TalkAssumption
<1>3. TalksTypeOK
  BY <1>1 DEF TalksTypeOK
<1>2. KnownTickets /\ StoryIsOfPicked
  BY <1>3 DEF KnownTickets, StoryIsOfPicked
<1> QED
  BY <1>2 DEF TalksInv, OneSearch, NoneSearching

\* What the search does leaves the conversations alone, and the other way round.
LEMMA SearchApart ==
    ASSUME TalksInv, UNCHANGED searchVars, KnownTickets', StoryIsOfPicked'
    PROVE  TalksInv'
PROOF
  BY DEF TalksInv, searchVars, OneSearch, NoneSearching

LEMMA DeskApart ==
    ASSUME TalksInv, UNCHANGED deskVars,
           typed' \in [now : Words, times : 0..MaxTyping] /\ pausing' \in BOOLEAN,
           searching' \in [Searches -> (Words \ {NoWords}) \cup {NoTalk}],
           found' \in (Words \ {NoWords}) \cup {NoTalk} /\ raced' \in BOOLEAN
    PROVE  KnownTickets' /\ StoryIsOfPicked'
PROOF
  BY DEF TalksInv, KnownTickets, TalksTypeOK, StoryIsOfPicked, deskVars

LEMMA TakeoverOfATalk ==
    ASSUME TalksInv, takeover.pc \in {"sent", "done"}
    PROVE  takeover \in [pc : {"sent", "done"}, of : Talks] /\ takeover # Resting
PROOF
<1>1. takeover \in {Resting} \cup [pc : {"sent", "done"}, of : Talks]
  BY DEF TalksInv, KnownTickets, TalksTypeOK
<1> QED
  BY ONLY <1>1, takeover.pc \in {"sent", "done"} DEF Resting

LEMMA ListKeeps ==
    ASSUME TalksInv, Reload \/ TalksServed \/ TalksShown \/ TalksLost
    PROVE  TalksInv'
PROOF
<1> USE DEF TalksInv
<1>1. UNCHANGED searchVars
  BY DEF Reload, TalksServed, TalksShown, TalksLost
<1>2. CASE Reload \/ TalksServed \/ TalksLost
  <2>0. UNCHANGED <<ticketed, talks, picked, created, takeover, story>>
    BY <1>2 DEF Reload, TalksServed, TalksLost
  <2>3. listing' \in {Resting, [pc |-> "asked"], [pc |-> "served", got |-> ticketed]}
    BY <1>2 DEF Reload, TalksServed, TalksLost
  <2>4. ticketed \subseteq Talks
    BY DEF KnownTickets, TalksTypeOK
  <2>5. /\ listing' \in {Resting, [pc |-> "asked"]} \cup [pc : {"served"}, got : SUBSET Talks]
        /\ listing'.pc = "served" => listing'.got \subseteq ticketed
    BY ONLY <2>3, <2>4 DEF Resting
  <2>1. TalksTypeOK'
    BY <1>1, <2>0, <2>5 DEF KnownTickets, TalksTypeOK, searchVars
  <2>2. KnownTickets' /\ StoryIsOfPicked'
    BY <2>0, <2>1, <2>5 DEF KnownTickets, StoryIsOfPicked
  <2> QED  BY <1>1, <2>2, SearchApart
<1>3. CASE TalksShown
  BY <1>3, <1>1, TalkAssumption, SearchApart DEF TalksShown, KnownTickets, TalksTypeOK, Resting, searchVars,
     StoryIsOfPicked
<1> QED
  BY <1>2, <1>3

\* The history follows the conversation on the screen.
LEMMA StoryFollows ==
    ASSUME TalksInv, FollowStory, talks' = NoTalk \/ picked' \in Talks, picked' \in Talks \cup {NoTalk}
    PROVE  /\ story' \in [of : Talks \cup {NoTalk}, asked : Talks \cup {NoTalk}]
           /\ story'.asked \in {NoTalk, picked'} /\ StoryIsOfPicked'
PROOF
  BY DEF TalksInv, KnownTickets, TalksTypeOK, FollowStory, StoryIsOfPicked

LEMMA PickKeepsTalks ==
    ASSUME TalksInv, NEW c \in Talks, Pick(c)
    PROVE  TalksInv'
PROOF
  BY StoryFollows, SearchApart DEF Pick, TalksInv, KnownTickets, TalksTypeOK, searchVars

LEMMA TakeoverKeeps ==
    ASSUME TalksInv, PressTakeover \/ TakeoverServed \/ TakeoverFails
    PROVE  TalksInv'
PROOF
<1> USE DEF TalksInv
<1>1. UNCHANGED searchVars /\ UNCHANGED <<talks, listing, picked, created, story>>
  BY DEF PressTakeover, TakeoverServed, TakeoverFails
<1>2. CASE PressTakeover
  BY <1>2, <1>1, SearchApart DEF PressTakeover, KnownTickets, TalksTypeOK, searchVars, StoryIsOfPicked
<1>3. CASE TakeoverServed
  BY <1>3, TakeoverOfATalk, <1>1, SearchApart DEF TakeoverServed, KnownTickets, TalksTypeOK, searchVars,
     StoryIsOfPicked
<1>4. CASE TakeoverFails
  BY <1>4, <1>1, SearchApart DEF TakeoverFails, KnownTickets, TalksTypeOK, searchVars, StoryIsOfPicked, Resting
<1> QED
  BY <1>2, <1>3, <1>4

LEMMA TakeoverShownKeeps ==
    ASSUME TalksInv, TakeoverShown
    PROVE  TalksInv'
PROOF
  BY TakeoverOfATalk, TalkAssumption, StoryFollows, SearchApart DEF TalksInv, TakeoverShown, KnownTickets,
     TalksTypeOK, searchVars, Resting

LEMMA StoryShownKeeps ==
    ASSUME TalksInv, StoryShown
    PROVE  TalksInv'
PROOF
  BY SearchApart DEF TalksInv, StoryShown, KnownTickets, TalksTypeOK, searchVars, StoryIsOfPicked

LEMMA TypeKeeps ==
    ASSUME TalksInv, NEW w \in Words, Type(w)
    PROVE  TalksInv'
PROOF
<1> USE DEF TalksInv
<1>1. /\ typed.times < MaxTyping /\ typed' = [now |-> w, times |-> typed.times + 1]
      /\ pausing' = (w # NoWords) /\ found' = (IF w = NoWords THEN NoTalk ELSE found)
      /\ raced' = ~NoneSearching /\ UNCHANGED <<searching, deskVars>>
  BY DEF Type
<1>2. typed \in [now : Words, times : 0..MaxTyping] /\ found \in (Words \ {NoWords}) \cup {NoTalk}
      /\ searching \in [Searches -> (Words \ {NoWords}) \cup {NoTalk}]
  BY DEF KnownTickets, TalksTypeOK
<1>3. typed.times + 1 \in 0..MaxTyping
  BY ONLY <1>1, <1>2, TalkAssumption
<1>4. KnownTickets' /\ StoryIsOfPicked'
  BY <1>1, <1>2, <1>3, DeskApart DEF NoneSearching
<1>5. ~raced' => NoneSearching'
  BY <1>1 DEF NoneSearching
<1> QED
  BY <1>1, <1>4, <1>5 DEF OneSearch

LEMMA BeginKeeps ==
    ASSUME TalksInv, SearchBegins
    PROVE  TalksInv'
PROOF
<1> USE DEF TalksInv
<1>1. /\ pausing /\ pausing' = FALSE /\ raced' = (raced \/ ~NoneSearching)
      /\ UNCHANGED <<typed, found, deskVars>>
  BY DEF SearchBegins
<1>2. PICK s \in Searches : searching[s] = NoTalk /\ searching' = [searching EXCEPT ![s] = typed.now]
  BY DEF SearchBegins
<1>3. typed \in [now : Words, times : 0..MaxTyping] /\ found \in (Words \ {NoWords}) \cup {NoTalk}
      /\ searching \in [Searches -> (Words \ {NoWords}) \cup {NoTalk}] /\ typed.now # NoWords
  BY <1>1 DEF KnownTickets, TalksTypeOK
<1>4. searching' \in [Searches -> (Words \ {NoWords}) \cup {NoTalk}]
  BY <1>2, <1>3
<1>5. raced' \in BOOLEAN
  BY <1>1 DEF KnownTickets, TalksTypeOK, NoneSearching
<1>6. KnownTickets' /\ StoryIsOfPicked'
  BY <1>1, <1>3, <1>4, <1>5, DeskApart
<1>7. ASSUME ~raced' PROVE OneSearch'
  BY <1>1, <1>7, <1>2, <1>3 DEF NoneSearching, OneSearch
<1> QED
  BY <1>1, <1>6, <1>7

LEMMA ShownKeeps ==
    ASSUME TalksInv, NEW s \in Searches, SearchShown(s)
    PROVE  TalksInv'
PROOF
<1> USE DEF TalksInv
<1>1. /\ searching[s] # NoTalk /\ found' = searching[s] /\ searching' = [searching EXCEPT ![s] = NoTalk]
      /\ UNCHANGED <<typed, pausing, raced, deskVars>>
  BY DEF SearchShown
<1>2. searching \in [Searches -> (Words \ {NoWords}) \cup {NoTalk}] /\ raced \in BOOLEAN /\ pausing \in BOOLEAN
      /\ typed \in [now : Words, times : 0..MaxTyping]
  BY DEF KnownTickets, TalksTypeOK
<1>3. searching' \in [Searches -> (Words \ {NoWords}) \cup {NoTalk}]
  BY <1>1, <1>2
<1>4. KnownTickets' /\ StoryIsOfPicked'
  BY <1>1, <1>2, <1>3, DeskApart
<1>5. ASSUME ~raced PROVE OneSearch'
  BY <1>1, <1>5, <1>2 DEF OneSearch, NoneSearching
<1> QED
  BY <1>1, <1>4, <1>5

LEMMA OpenResultKeeps ==
    ASSUME TalksInv, NEW c \in Talks, OpenResult(c)
    PROVE  TalksInv'
PROOF
  BY StoryFollows, TalkAssumption DEF TalksInv, OpenResult, KnownTickets, TalksTypeOK, NoneSearching, OneSearch

LEMMA TalksStep == TalksInv /\ [TalksNext]_talkVars => TalksInv'
PROOF
<1> SUFFICES ASSUME TalksInv, [TalksNext]_talkVars PROVE TalksInv'
  OBVIOUS
<1>1. CASE TalksNext
  BY <1>1, ListKeeps, PickKeepsTalks, TakeoverKeeps, TakeoverShownKeeps, StoryShownKeeps, TypeKeeps, BeginKeeps,
     ShownKeeps, OpenResultKeeps DEF TalksNext
<1>2. CASE UNCHANGED talkVars
  BY <1>2, SearchApart DEF talkVars, TalksInv, KnownTickets, TalksTypeOK, StoryIsOfPicked, searchVars
<1> QED
  BY <1>1, <1>2

LEMMA TalksKeep == TalksInv => TalksTypeOK /\ LinkIsOwn /\ StoryIsOfPicked /\ ResultsAreOfField
PROOF
<1> SUFFICES ASSUME TalksInv PROVE LinkIsOwn /\ ResultsAreOfField
  BY DEF TalksInv, KnownTickets
<1>1. LinkIsOwn
  BY DEF TalksInv, KnownTickets, LinkIsOwn, Linked
<1>2. ResultsAreOfField
  BY TalkAssumption DEF ResultsAreOfField, TalksInv, KnownTickets, TalksTypeOK, NoneSearching, OneSearch
<1> QED
  BY <1>1, <1>2

-----------------------------------------------------------------------------
(* The clients: two forms for the one that is selected.                      *)

ShopErrand == {NoErrand} \cup ShopsLoad \cup [pc : {"create"}, draft : 1..MaxDrafts]
    \cup [pc : {"update", "terms", "status", "preview"}, at : Shops, of : Shops]
    \cup [pc : {"done"}, kind : {"create", "update", "terms", "status", "preview"}, at : Shops, ver : 1..MaxRecord]

\* A later list has every client that an earlier one has.
Has(later, earlier) == \A c \in Shops : earlier[c] # 0 => later[c] # 0
Reloads(e) == e.pc \in {"asked", "served"}

\* What is loaded, selected or under way is of clients there are; an edited form has one.
ShopsShape ==
    /\ shopRecord \in Records /\ typedFor \in [Shops -> Shops \cup {NoShop}]
    /\ (directory = NoShop \/ directory \in Records)
    /\ refreshing \in {NoErrand} \cup ShopsLoad
    /\ selected \in Shops \cup {NoShop} /\ formMode \in {"edit", "create"}
    /\ info \in Forms /\ terms \in Forms
    /\ errand \in ShopErrand
    /\ drafts \in 0..MaxDrafts /\ onboarded \subseteq 1..MaxDrafts
    /\ mishap \subseteq {"load", "answer", "twice", "crossed"}
ShopsAreReal ==
    /\ directory # NoShop => Has(shopRecord, directory)
    /\ refreshing.pc = "served" => Has(shopRecord, refreshing.got)
    /\ errand.pc = "served" => Has(shopRecord, errand.got)
    /\ selected # NoShop => shopRecord[selected] # 0
    /\ errand.pc \in {"update", "terms", "status", "preview", "done"} => shopRecord[errand.at] # 0
    /\ formMode = "edit" /\ directory # NoShop => NoShop \notin {selected, info.of, terms.of}
    /\ formMode = "create" => info.of = NoShop /\ drafts >= 1

\* A form that made its client is closed by the answer, or the answer is lost.
DraftsInv ==
    /\ onboarded \subseteq 1..drafts
    /\ errand.pc = "create" => errand.draft \in 1..drafts
    /\ "answer" \notin mishap =>
         /\ "twice" \notin mishap
         /\ formMode = "create" /\ drafts \in onboarded => errand.pc = "done" /\ errand.kind = "create"
         /\ errand.pc = "create" => errand.draft \notin onboarded

\* As long as no load failed or crossed a command, one load is under way at most, it brings all that is
\* listed or selected, and the forms are filled from the list, except between the answer and the list.
Brings(e) == e.pc = "served" => /\ directory # NoShop => Has(e.got, directory)
                                /\ selected # NoShop => e.got[selected] # 0
IsFilled(sheet) == sheet.of = selected /\ sheet.ver = directory[selected]
FormsFit == formMode = "edit" /\ directory # NoShop /\ ~Reloads(errand) => IsFilled(info) /\ IsFilled(terms)
LoadsInv ==
    /\ refreshing = NoErrand \/ ~Reloads(errand)
    /\ Brings(refreshing) /\ Brings(errand)
MeansIt ==
    /\ errand.pc \in {"update", "terms", "status", "preview"} => errand.of = errand.at
    /\ \A c \in Shops : typedFor[c] \in {c, NoShop}

\* Nothing was stored since the list was asked for.
Untouched == ~Reloads(errand) /\ (errand.pc = "done" => errand.kind = "preview")
ListsAreCurrent ==
    /\ errand.pc = "served" => errand.got = shopRecord
    /\ Untouched => /\ refreshing.pc = "served" => refreshing.got = shopRecord
                    /\ directory # NoShop /\ refreshing = NoErrand => directory = shopRecord

CalmInv == /\ LoadsInv /\ FormsFit /\ MeansIt
           /\ "answer" \notin mishap => ListsAreCurrent
ShopsInv == ShopsShape /\ ShopsAreReal /\ DraftsInv /\ (Calm => CalmInv)

\* Whatever was lost or crossed: a client not made here is in every list, so that the forms and a command are
\* of it while it is selected.
Lists(list) == \A c \in Shops \ made : shopRecord[c] # 0 => list[c] # 0
StrayInv ==
    /\ made \subseteq Shops
    /\ directory # NoShop => Lists(directory)
    /\ refreshing.pc = "served" => Lists(refreshing.got)
    /\ errand.pc = "served" => Lists(errand.got)
    /\ formMode = "edit" /\ directory # NoShop /\ selected \notin made => info.of = selected /\ terms.of = selected
    /\ errand.pc \in {"update", "terms", "status", "preview"} /\ errand.at \notin made => errand.of = errand.at
    /\ \A c \in Shops \ made : typedFor[c] \in {c, NoShop}
ClientsInv == ShopsInv /\ StrayInv

-----------------------------------------------------------------------------
\* What an errand says at each of its steps.
LEMMA ErrandTells ==
    ASSUME NEW e \in ShopErrand
    PROVE  /\ e.pc \in {"nothing", "asked", "served", "create", "update", "terms", "status", "preview", "done"}
           /\ e = NoErrand <=> e.pc = "nothing"
           /\ e.pc = "served" => e.got \in Records
           /\ e.pc = "create" => e.draft \in 1..MaxDrafts
           /\ e.pc \in {"update", "terms", "status", "preview"} => e.at \in Shops /\ e.of \in Shops
           /\ e.pc = "done" => /\ e.kind \in {"create", "update", "terms", "status", "preview"}
                               /\ e.at \in Shops /\ e.ver \in 1..MaxRecord
PROOF
  BY DEF ShopErrand, NoErrand, ShopsLoad

LEMMA RefreshTells ==
    ASSUME NEW e \in {NoErrand} \cup ShopsLoad
    PROVE  /\ e.pc \in {"nothing", "asked", "served"}
           /\ e = NoErrand <=> e.pc = "nothing"
           /\ e.pc = "served" => e.got \in Records
           /\ e \in ShopErrand
PROOF
  BY DEF ShopErrand, NoErrand, ShopsLoad

\* The errands there can be.
LEMMA ErrandsAre ==
    /\ NoErrand \in {NoErrand} \cup ShopsLoad /\ [pc |-> "asked"] \in {NoErrand} \cup ShopsLoad
    /\ NoErrand \in ShopErrand /\ [pc |-> "asked"] \in ShopErrand
    /\ \A got \in Records : /\ [pc |-> "served", got |-> got] \in {NoErrand} \cup ShopsLoad
                            /\ [pc |-> "served", got |-> got] \in ShopErrand
    /\ \A d \in 1..MaxDrafts : [pc |-> "create", draft |-> d] \in ShopErrand
    /\ \A k \in {"update", "terms", "status", "preview"}, c, d \in Shops :
          [pc |-> k, at |-> c, of |-> d] \in ShopErrand
    /\ \A k \in {"create", "update", "terms", "status", "preview"}, c \in Shops, v \in 1..MaxRecord :
          [pc |-> "done", kind |-> k, at |-> c, ver |-> v] \in ShopErrand
PROOF
  BY DEF ShopErrand, ShopsLoad

\* A form filled from the record of a client.
LEMMA FilledForm ==
    ASSUME NEW c \in Shops \cup {NoShop}, NEW v \in 0..MaxRecord
    PROVE  FilledFrom(c, v) \in Forms /\ FilledFrom(c, v).of = c /\ FilledFrom(c, v).ver = v
PROOF
  BY DEF FilledFrom, Forms

LEMMA ShopsStart == ShopsInit => ShopsInv
PROOF
<1> SUFFICES ASSUME ShopsInit PROVE ShopsInv
  OBVIOUS
<1> USE DEF ShopsInit
<1>1. shopRecord \in Records /\ drafts \in 0..MaxDrafts /\ 0 \in 0..MaxRecord
  BY ShopAssumption DEF Records
<1>2. Blank \in Forms
  BY <1>1, FilledForm DEF Blank
<1>3. ShopsShape
  BY <1>1, <1>2, ErrandsAre DEF ShopsShape
<1>4. errand.pc = "nothing" /\ refreshing.pc = "asked"
  BY DEF NoErrand
<1>5. ShopsAreReal /\ DraftsInv
  BY <1>4 DEF ShopsAreReal, DraftsInv
<1>6. CalmInv
  BY <1>4 DEF CalmInv, LoadsInv, Brings, Reloads, FormsFit, MeansIt, ListsAreCurrent, Untouched
<1> QED
  BY <1>3, <1>5, <1>6 DEF ShopsInv

LEMMA ClientsKeep == ClientsInv => ShopsTypeOK /\ FormsAreCurrent /\ StoredIsTypedForIt /\ OneClientPerDraft
PROOF
<1> SUFFICES ASSUME ClientsInv PROVE ShopsTypeOK /\ FormsAreCurrent /\ StoredIsTypedForIt /\ OneClientPerDraft
  OBVIOUS
<1> USE DEF ClientsInv, ShopsInv
<1>1. ShopsTypeOK
  BY DEF ShopsTypeOK, ShopsShape, ShopsAreReal, ShopErrand, StrayInv
<1>2. OneClientPerDraft
  BY DEF OneClientPerDraft, DraftsInv
<1>3. StoredIsTypedForIt
  BY DEF StoredIsTypedForIt, CalmInv, MeansIt, StrayInv
<1>4. ASSUME errand = NoErrand, refreshing = NoErrand, formMode = "edit", directory # NoShop
      PROVE  /\ selected \notin made => info.of = selected /\ terms.of = selected
             /\ Calm /\ "answer" \notin mishap => \A sheet \in {info, terms} : sheet.of = selected /\ sheet.ver = shopRecord[selected]
  BY <1>4 DEF NoErrand, CalmInv, Untouched, Reloads, FormsFit, ListsAreCurrent, IsFilled, StrayInv
<1> QED
  BY <1>1, <1>2, <1>3, <1>4 DEF FormsAreCurrent

-----------------------------------------------------------------------------
\* The list is asked for, and served with the records as they are.
LEMMA RefreshBegins == ASSUME ShopsInv, RefreshShops PROVE ShopsInv'
PROOF
<1> USE DEF ShopsInv, RefreshShops
<1> DEFINE e == [pc |-> "asked"]
<1>1. refreshing' = e /\ e.pc = "asked" /\ ~Reloads(errand)
  BY DEF ShopsLoading, Reloads
<1>2. ShopsShape' /\ DraftsInv'
  BY ErrandsAre DEF ShopsShape, DraftsInv
<1> HIDE DEF e
<1>3. ShopsAreReal'
  BY <1>1 DEF ShopsAreReal
<1>4. Calm' = Calm
  BY DEF Calm
<1>5. NoErrand.pc # "asked"
  BY DEF NoErrand
<1>6. CalmInv => CalmInv'
  BY <1>1, <1>5 DEF CalmInv, LoadsInv, Brings, Reloads, FormsFit, IsFilled, MeansIt, ListsAreCurrent, Untouched
<1> QED
  BY <1>2, <1>3, <1>4, <1>6

LEMMA ListIsServed == ASSUME ShopsInv, ShopsServed PROVE ShopsInv'
PROOF
<1> USE DEF ShopsInv
<1> DEFINE e == [pc |-> "served", got |-> shopRecord]
<1>1. e \in {NoErrand} \cup ShopsLoad /\ e \in ShopErrand /\ e.pc = "served" /\ e.got = shopRecord
  BY ErrandsAre DEF ShopsShape
<1>2. \/ refreshing.pc = "asked" /\ errand' = errand /\ refreshing' = e
      \/ errand.pc = "asked" /\ refreshing' = refreshing /\ errand' = e
  BY DEF ShopsServed
<1>3. UNCHANGED <<shopRecord, typedFor, directory, selected, formMode, info, terms, drafts, onboarded, mishap>>
  BY DEF ShopsServed
<1> HIDE DEF e
<1>4. ShopsShape'
  BY <1>1, <1>2, <1>3 DEF ShopsShape
<1>5. ShopsAreReal'
  BY <1>1, <1>2, <1>3 DEF ShopsAreReal, Has
<1>6. DraftsInv'
  BY <1>1, <1>2, <1>3 DEF DraftsInv
<1>7. Calm' = Calm /\ NoErrand.pc = "nothing"
  BY <1>3 DEF Calm, NoErrand
<1>8. CalmInv => CalmInv'
  BY <1>1, <1>2, <1>3, <1>7
     DEF CalmInv, LoadsInv, Brings, Reloads, FormsFit, IsFilled, MeansIt, ListsAreCurrent, Untouched, ShopsAreReal
<1> QED
  BY <1>4, <1>5, <1>6, <1>7, <1>8

LEMMA ListIsLost == ASSUME ShopsInv, ShopsLost PROVE ShopsInv'
PROOF
  BY ErrandsAre DEF ShopsInv, ShopsLost, NoErrand, ShopsShape, ShopsAreReal, DraftsInv, Calm

\* The list is shown, with the client that is selected or one that is now; in edit mode the forms are filled.
LEMMA DirectoryFills ==
    ASSUME ShopsInv, NEW got \in Records, ShowDirectory(got)
    PROVE  /\ directory' = got /\ selected' \in Shops \cup {NoShop}
           /\ selected # NoShop => selected' = selected
           /\ selected = NoShop => selected' # NoShop /\ got[selected'] # 0
           /\ info' \in Forms /\ terms' \in Forms
           /\ formMode = "create" \/ got = NoShop => info' = info /\ terms' = terms
           /\ formMode = "edit" /\ got # NoShop => NoShop \notin {info'.of, terms'.of}
           /\ formMode = "edit" /\ got # NoShop /\ got[selected'] # 0 /\ selected' # NoShop =>
                /\ info'.of = selected' /\ info'.ver = got[selected']
                /\ terms'.of = selected' /\ terms'.ver = got[selected']
PROOF
<1> USE DEF ShopsInv
<1>1. directory' = got /\ selected' \in (IF selected = NoShop THEN Onboarded(got) ELSE {selected})
      /\ Refill(formMode, selected', got, info, terms, TRUE)
  BY DEF ShowDirectory
<1>2. \A c \in Onboarded(got) : c \in Shops /\ c # NoShop /\ got[c] # 0 /\ got[c] \in 0..MaxRecord
  BY ShopAssumption DEF Onboarded, Records
<1>3. selected' \in Shops \cup {NoShop} /\ (selected # NoShop => selected' = selected)
      /\ (selected = NoShop => selected' # NoShop /\ got[selected'] # 0)
  BY <1>1, <1>2 DEF ShopsShape
<1>4. CASE formMode = "create" \/ got = NoShop
  BY <1>1, <1>4, <1>3 DEF Refill, ShopsShape
<1>5. CASE formMode = "edit" /\ got # NoShop
  BY <1>1, <1>5, <1>2, FilledForm, <1>3 DEF Refill, LookedAt, Onboarded
<1> QED
  BY <1>4, <1>5 DEF ShopsShape

LEMMA ListIsShown == ASSUME ShopsInv, ShopsShown PROVE ShopsInv'
PROOF
<1> USE DEF ShopsInv
<1>1. PICK e \in {refreshing, errand} :
        /\ e.pc = "served" /\ ShowDirectory(e.got)
        /\ \/ e = refreshing /\ refreshing' = NoErrand /\ errand' = errand
           \/ e = errand /\ errand' = NoErrand /\ refreshing' = refreshing
  BY DEF ShopsShown
<1>2. PICK got : got = e.got
  OBVIOUS
<1>3. got \in Records /\ ShowDirectory(got) /\ Has(shopRecord, got)
  BY <1>1, <1>2, ErrandTells, RefreshTells DEF ShopsShape, ShopsAreReal
<1>4. UNCHANGED <<shopRecord, typedFor, formMode, drafts, onboarded, mishap>>
  BY <1>3 DEF ShowDirectory
<1>5. /\ directory' = got /\ selected' \in Shops \cup {NoShop}
      /\ selected # NoShop => selected' = selected
      /\ selected = NoShop => selected' # NoShop /\ got[selected'] # 0
      /\ info' \in Forms /\ terms' \in Forms
      /\ formMode = "create" \/ got = NoShop => info' = info /\ terms' = terms
      /\ formMode = "edit" /\ got # NoShop => NoShop \notin {info'.of, terms'.of}
      /\ formMode = "edit" /\ got # NoShop /\ got[selected'] # 0 /\ selected' # NoShop =>
                /\ info'.of = selected' /\ info'.ver = got[selected']
                /\ terms'.of = selected' /\ terms'.ver = got[selected']
  BY <1>3, DirectoryFills
<1>6. NoErrand.pc = "nothing"
  BY DEF NoErrand
<1>7. ShopsShape'
  BY <1>1, <1>3, <1>4, <1>5, ErrandsAre DEF ShopsShape
<1>8. selected' # NoShop => shopRecord[selected'] # 0
  BY <1>3, <1>5 DEF ShopsAreReal, Has
<1>9. selected' # NoShop
  BY <1>5
<1>10. ShopsAreReal'
  BY <1>1, <1>3, <1>4, <1>5, <1>6, <1>8, <1>9 DEF ShopsAreReal, ShopsShape
<1>11. DraftsInv'
  BY <1>1, <1>4, <1>6 DEF DraftsInv
<1>12. Calm' = Calm
  BY <1>4 DEF Calm
<1>13. ASSUME Calm PROVE CalmInv'
  <2> USE <1>13 DEF CalmInv
  <2>1. got[selected'] # 0
    BY <1>1, <1>2, <1>5 DEF LoadsInv, Brings
  <2>2. LoadsInv'
    BY <1>1, <1>6 DEF LoadsInv, Brings, Reloads
  <2>3. FormsFit'
    BY <1>4, <1>5, <1>9, <2>1 DEF FormsFit, IsFilled
  <2>4. MeansIt'
    BY <1>1, <1>4, <1>6 DEF MeansIt
  <2>5. ASSUME "answer" \notin mishap PROVE ListsAreCurrent'
    <3>1. CASE e = refreshing /\ refreshing' = NoErrand /\ errand' = errand
      BY <1>1, <1>2, <2>5, <3>1, <1>4, <1>5, <1>6 DEF ListsAreCurrent, Untouched
    <3>2. CASE e = errand /\ errand' = NoErrand /\ refreshing' = refreshing
      BY <1>1, <1>2, <2>5, <3>2, <1>4, <1>5, <1>6 DEF ListsAreCurrent, LoadsInv, Reloads, Untouched
    <3> QED  BY <1>1, <3>1, <3>2
  <2> QED  BY <1>4, <2>2, <2>3, <2>4, <2>5
<1> QED
  BY <1>7, <1>10, <1>11, <1>12, <1>13

-----------------------------------------------------------------------------
\* A client is chosen, or one to be onboarded; keys in the forms.
LEMMA ClientIsChosen == ASSUME ShopsInv, NEW c \in Shops, StartEdit(c) PROVE ShopsInv'
PROOF
<1> USE DEF ShopsInv
<1>1. /\ directory # NoShop /\ directory[c] # 0 /\ directory[c] \in 0..MaxRecord
      /\ formMode' = "edit" /\ selected' = c
      /\ info' = FilledFrom(c, directory[c]) /\ terms' = FilledFrom(c, directory[c])
      /\ UNCHANGED <<shopRecord, typedFor, directory, refreshing, errand, drafts, onboarded, mishap>>
  BY DEF StartEdit, Onboarded, ShopsShape, Records
<1>2. /\ info' \in Forms /\ info'.of = c /\ info'.ver = directory[c]
      /\ terms' \in Forms /\ terms'.of = c /\ terms'.ver = directory[c]
  BY <1>1, FilledForm
<1>3. ShopsShape'
  BY <1>1, <1>2 DEF ShopsShape
<1>4. ShopsAreReal'
  BY <1>1, <1>2, ShopAssumption DEF ShopsAreReal, Has
<1>5. DraftsInv'
  BY <1>1 DEF DraftsInv
<1>6. Calm' = Calm
  BY <1>1 DEF Calm
<1>7. CalmInv => CalmInv'
  BY <1>1, <1>2 DEF CalmInv, LoadsInv, Brings, Has, Reloads, FormsFit, IsFilled, MeansIt, ListsAreCurrent, Untouched
<1> QED
  BY <1>3, <1>4, <1>5, <1>6, <1>7

LEMMA ClientIsOnboarded == ASSUME ShopsInv, StartCreate PROVE ShopsInv'
PROOF
<1> USE DEF ShopsInv
<1>1. /\ drafts < MaxDrafts /\ drafts' = drafts + 1
      /\ formMode' = "create" /\ selected' = NoShop /\ info' = Blank /\ terms' = Blank
      /\ UNCHANGED <<shopRecord, typedFor, directory, refreshing, errand, onboarded, mishap>>
  BY DEF StartCreate
<1>2. Blank \in Forms /\ Blank.of = NoShop
  BY FilledForm, ShopAssumption DEF Blank
<1>3. drafts \in Nat /\ drafts' \in 0..MaxDrafts /\ drafts' >= 1
  BY <1>1, ShopAssumption DEF ShopsShape
<1>4. ShopsShape'
  BY <1>1, <1>2, <1>3 DEF ShopsShape
<1>5. ShopsAreReal'
  BY <1>1, <1>2, <1>3 DEF ShopsAreReal
<1>6. DraftsInv'
  BY <1>1, <1>3 DEF DraftsInv
<1>7. Calm' = Calm
  BY <1>1 DEF Calm
<1>8. CalmInv => CalmInv'
  BY <1>1 DEF CalmInv, LoadsInv, Brings, Reloads, FormsFit, IsFilled, MeansIt, ListsAreCurrent, Untouched
<1> QED
  BY <1>4, <1>5, <1>6, <1>7, <1>8

LEMMA FormsAreTyped == ASSUME ShopsInv, EditInfo \/ EditTerms \/ Discard PROVE ShopsInv'
PROOF
<1> USE DEF ShopsInv
<1>1. /\ info' \in {info, [info EXCEPT !.dirty = TRUE], [info EXCEPT !.dirty = FALSE]}
      /\ terms' \in {terms, [terms EXCEPT !.dirty = TRUE]}
      /\ UNCHANGED <<shopRecord, typedFor, directory, refreshing, selected, formMode, errand, drafts,
                     onboarded, mishap>>
  BY DEF EditInfo, EditTerms, Discard, TypeIn
<1>2. /\ info' \in Forms /\ info'.of = info.of /\ info'.ver = info.ver
      /\ terms' \in Forms /\ terms'.of = terms.of /\ terms'.ver = terms.ver
  BY <1>1 DEF ShopsShape, Forms
<1>3. ShopsShape'
  BY <1>1, <1>2 DEF ShopsShape
<1>4. ShopsAreReal' /\ DraftsInv'
  BY <1>1, <1>2 DEF ShopsAreReal, DraftsInv
<1>5. Calm' = Calm
  BY <1>1 DEF Calm
<1>6. CalmInv => CalmInv'
  BY <1>1, <1>2 DEF CalmInv, LoadsInv, Brings, Reloads, FormsFit, IsFilled, MeansIt, ListsAreCurrent, Untouched
<1> QED
  BY <1>3, <1>4, <1>5, <1>6

-----------------------------------------------------------------------------
\* A command is given, of the client selected; it means that client.
LEMMA OrderIsGiven ==
    ASSUME ShopsInv, NEW e \in ShopErrand, Order(e),
           \/ e.pc = "create" /\ formMode = "create" /\ e.draft = drafts
           \/ /\ e.pc \in {"update", "terms", "status", "preview"} /\ e.at = selected /\ selected # NoShop
              /\ Calm /\ ~ShopsLoading => e.of = e.at
    PROVE  ShopsInv'
PROOF
<1> USE DEF ShopsInv
<1>1. errand = NoErrand /\ errand' = e /\ errand.pc = "nothing"
      /\ mishap' = (IF ShopsLoading THEN mishap \cup {"crossed"} ELSE mishap)
      /\ UNCHANGED <<shopRecord, typedFor, directory, refreshing, selected, formMode, info, terms, drafts, onboarded>>
  BY DEF Order, NoErrand
<1>2. ShopsShape'
  BY <1>1 DEF ShopsShape
<1>3. ShopsAreReal'
  BY <1>1 DEF ShopsAreReal
<1>4. DraftsInv'
  BY <1>1 DEF ShopsShape, ShopsAreReal, DraftsInv
<1>5. Calm' => Calm /\ mishap' = mishap /\ ~ShopsLoading
  BY <1>1 DEF Calm
<1>6. ASSUME Calm' PROVE CalmInv'
  BY <1>1, <1>5, <1>6 DEF CalmInv, LoadsInv, Brings, Reloads, FormsFit, IsFilled, MeansIt, ListsAreCurrent, Untouched
<1> QED
  BY <1>2, <1>3, <1>4, <1>6

LEMMA CommandIsGiven ==
    ASSUME ShopsInv, SaveClient \/ SaveDpaProfile \/ ChangeStatus \/ PreviewRetention \/ RunRetention
    PROVE  ShopsInv'
PROOF
<1> USE DEF ShopsInv
<1>1. ASSUME formMode = "edit", directory # NoShop, errand = NoErrand
      PROVE  /\ selected \in Shops /\ selected # NoShop /\ info.of \in Shops /\ terms.of \in Shops
             /\ Calm => info.of = selected /\ terms.of = selected
  BY <1>1 DEF Reloads, NoErrand, ShopsShape, ShopsAreReal, Forms, CalmInv, FormsFit, IsFilled
<1>2. CASE SaveClient /\ formMode = "create"
  <2>1. drafts \in 1..MaxDrafts
    BY <1>2 DEF ShopsShape, ShopsAreReal
  <2> DEFINE e == [pc |-> "create", draft |-> drafts]
  <2>2. e \in ShopErrand /\ e.pc = "create" /\ e.draft = drafts /\ Order(e)
    BY <1>2, <2>1, ErrandsAre DEF SaveClient
  <2> HIDE DEF e
  <2> QED  BY <1>2, <2>2, OrderIsGiven
<1>3. ASSUME NEW k \in {"update", "terms", "status", "preview"}, NEW d \in {selected, info.of, terms.of},
             formMode = "edit", directory # NoShop, Order([pc |-> k, at |-> selected, of |-> d])
      PROVE  ShopsInv'
  <2> DEFINE e == [pc |-> k, at |-> selected, of |-> d]
  <2>1. selected \in Shops /\ selected # NoShop /\ d \in Shops /\ (Calm => d = selected)
    BY <1>1, <1>3 DEF Order
  <2>2. e \in ShopErrand /\ e.pc = k /\ e.at = selected /\ e.of = d /\ Order(e)
    BY <1>3, <2>1, ErrandsAre
  <2> HIDE DEF e
  <2> QED  BY <2>1, <2>2, OrderIsGiven
<1>4. CASE SaveClient /\ formMode # "create"
  BY <1>4, <1>3 DEF SaveClient, FormIsShown, ShopsShape
<1>5. CASE SaveDpaProfile
  BY <1>5, <1>3 DEF SaveDpaProfile, OnSelected
<1>6. CASE ChangeStatus
  BY <1>6, <1>3 DEF ChangeStatus, OnSelected
<1>7. CASE PreviewRetention
  BY <1>7, <1>3 DEF PreviewRetention, OnSelected
<1>8. CASE RunRetention
  BY <1>8, <1>3 DEF RunRetention, OnSelected
<1> QED
  BY <1>2, <1>4, <1>5, <1>6, <1>7, <1>8

\* The record of a client gets its next version.
LEMMA RecordIsStored ==
    ASSUME ShopsShape, NEW c \in Shops, NEW of \in Shops, StoreFor(c, of)
    PROVE  /\ shopRecord' \in Records /\ typedFor' \in [Shops -> Shops \cup {NoShop}]
           /\ shopRecord'[c] = shopRecord[c] + 1 /\ shopRecord[c] + 1 \in 1..MaxRecord /\ shopRecord'[c] # 0
           /\ Has(shopRecord', shopRecord)
           /\ of = c => \A d \in Shops : typedFor'[d] \in {d, typedFor[d]}
PROOF
<1>1. shopRecord \in [Shops -> 0..MaxRecord] /\ shopRecord[c] < MaxRecord
      /\ shopRecord' = [shopRecord EXCEPT ![c] = shopRecord[c] + 1]
      /\ typedFor' = [typedFor EXCEPT ![c] = of]
  BY DEF ShopsShape, Records, StoreFor
<1>2. shopRecord[c] \in 0..MaxRecord
  BY <1>1
<1>3. shopRecord[c] + 1 \in 1..MaxRecord /\ shopRecord[c] + 1 \in 0..MaxRecord /\ shopRecord[c] + 1 # 0
  BY ONLY <1>1, <1>2, ShopAssumption
<1>4. shopRecord'[c] = shopRecord[c] + 1 /\ \A d \in Shops : d # c => shopRecord'[d] = shopRecord[d]
  BY <1>1
<1>5. shopRecord' \in Records /\ typedFor' \in [Shops -> Shops \cup {NoShop}]
  BY <1>1, <1>3 DEF Records, ShopsShape
<1>6. Has(shopRecord', shopRecord)
  BY <1>3, <1>4 DEF Has
<1>7. of = c => \A d \in Shops : typedFor'[d] \in {d, typedFor[d]}
  BY <1>1 DEF ShopsShape
<1> QED
  BY <1>3, <1>4, <1>5, <1>6, <1>7

\* What a store leaves true.
LEMMA StoreKeeps ==
    ASSUME ShopsInv, NEW c \in Shops, NEW of \in Shops, StoreFor(c, of),
           NEW e \in ShopErrand, e.pc = "done", e.at = c, e.kind # "preview", errand' = e,
           errand.pc \in {"create", "update", "terms", "status"},
           UNCHANGED <<directory, refreshing, selected, formMode, info, terms, drafts>>,
           Calm => of = c,
           mishap' \in {mishap, mishap \cup {"twice"}}
    PROVE  /\ shopRecord' \in Records /\ typedFor' \in [Shops -> Shops \cup {NoShop}]
           /\ ShopsAreReal' /\ (Calm' => CalmInv')
PROOF
<1> USE DEF ShopsInv
<1>1. /\ shopRecord' \in Records /\ typedFor' \in [Shops -> Shops \cup {NoShop}]
      /\ shopRecord'[c] # 0 /\ Has(shopRecord', shopRecord)
      /\ of = c => \A d \in Shops : typedFor'[d] \in {d, typedFor[d]}
  BY RecordIsStored
<1>2. selected \in Shops \cup {NoShop}
  BY DEF ShopsShape
<1>3. ShopsAreReal'
  BY <1>1, <1>2 DEF ShopsAreReal, Has
<1>4. Calm' => Calm
  BY DEF Calm
<1>5. ASSUME Calm' PROVE CalmInv'
  <2> USE <1>4, <1>5 DEF CalmInv
  <2>1. LoadsInv' /\ FormsFit'
    BY DEF LoadsInv, Brings, Reloads, FormsFit, IsFilled
  <2>2. MeansIt'
    BY <1>1 DEF MeansIt
  <2>3. ListsAreCurrent'
    BY DEF ListsAreCurrent, Untouched
  <2> QED  BY <2>1, <2>2, <2>3
<1> QED
  BY <1>1, <1>3, <1>5

\* The server carries a command out.
LEMMA CommandIsServed == ASSUME ShopsInv, ErrandServed PROVE ShopsInv'
PROOF
<1> USE DEF ShopsInv
<1>1. UNCHANGED <<directory, refreshing, selected, formMode, info, terms, drafts>>
  BY DEF ErrandServed
<1>2. CASE errand.pc = "create"
  <2>1. PICK c \in Shops :
          /\ StoreFor(c, c) /\ errand' = [pc |-> "done", kind |-> "create", at |-> c, ver |-> 1]
          /\ onboarded' = onboarded \cup {errand.draft}
          /\ mishap' = IF errand.draft \in onboarded THEN mishap \cup {"twice"} ELSE mishap
    BY <1>2 DEF ErrandServed
  <2> DEFINE e == [pc |-> "done", kind |-> "create", at |-> c, ver |-> 1]
  <2>2. 1 \in 1..MaxRecord
    BY ShopAssumption
  <2>3. e \in ShopErrand /\ e.pc = "done" /\ e.kind = "create" /\ e.at = c /\ errand' = e
    BY <2>1, <2>2, ErrandsAre
  <2> HIDE DEF e
  <2>4. mishap' \in {mishap, mishap \cup {"twice"}}
    BY <2>1
  <2>5. /\ shopRecord' \in Records /\ typedFor' \in [Shops -> Shops \cup {NoShop}]
        /\ ShopsAreReal' /\ (Calm' => CalmInv')
    BY <1>1, <1>2, <2>1, <2>3, <2>4, StoreKeeps
  <2>6. errand.draft \in 1..MaxDrafts
    BY <1>2, ErrandTells DEF ShopsShape
  <2>7. ShopsShape'
    BY <1>1, <2>1, <2>3, <2>4, <2>5, <2>6 DEF ShopsShape
  <2>8. DraftsInv'
    BY <1>1, <1>2, <2>1, <2>3 DEF DraftsInv
  <2> QED  BY <2>5, <2>7, <2>8
<1>3. CASE errand.pc \in {"update", "terms", "status"}
  <2>1. /\ StoreFor(errand.at, errand.of) /\ UNCHANGED <<onboarded, mishap>>
        /\ errand' = [pc |-> "done", kind |-> errand.pc, at |-> errand.at, ver |-> shopRecord[errand.at] + 1]
    BY <1>3 DEF ErrandServed
  <2>2. PICK c, of, v, k : c = errand.at /\ of = errand.of /\ v = shopRecord[errand.at] + 1 /\ k = errand.pc
    OBVIOUS
  <2>3. c \in Shops /\ of \in Shops /\ StoreFor(c, of) /\ v = shopRecord[c] + 1
    BY <1>3, <2>1, <2>2, ErrandTells DEF ShopsShape
  <2>4. v \in 1..MaxRecord
    BY <2>3, RecordIsStored
  <2> DEFINE e == [pc |-> "done", kind |-> k, at |-> c, ver |-> v]
  <2>5. e \in ShopErrand /\ e.pc = "done" /\ e.kind = k /\ e.at = c /\ errand' = e
    BY <1>3, <2>1, <2>2, <2>3, <2>4, ErrandsAre
  <2> HIDE DEF e
  <2>6. Calm => of = c
    BY <1>3, <2>2 DEF CalmInv, MeansIt
  <2>7. /\ shopRecord' \in Records /\ typedFor' \in [Shops -> Shops \cup {NoShop}]
        /\ ShopsAreReal' /\ (Calm' => CalmInv')
    BY <1>1, <1>3, <2>1, <2>2, <2>3, <2>5, <2>6, StoreKeeps
  <2>8. ShopsShape'
    BY <1>1, <2>1, <2>5, <2>7 DEF ShopsShape
  <2>9. DraftsInv'
    BY <1>1, <1>3, <2>1, <2>5 DEF DraftsInv
  <2> QED  BY <2>7, <2>8, <2>9
<1>4. CASE errand.pc = "preview"
  <2>1. /\ UNCHANGED <<shopRecord, typedFor, onboarded, mishap>>
        /\ errand' = [pc |-> "done", kind |-> "preview", at |-> errand.at, ver |-> shopRecord[errand.at]]
    BY <1>4 DEF ErrandServed
  <2>2. PICK c, v : c = errand.at /\ v = shopRecord[errand.at]
    OBVIOUS
  <2>3. c \in Shops /\ v \in 1..MaxRecord /\ v = shopRecord[c] /\ v # 0
    BY <1>4, <2>2, ErrandTells, ShopAssumption DEF ShopsShape, ShopsAreReal, Records
  <2> DEFINE e == [pc |-> "done", kind |-> "preview", at |-> c, ver |-> v]
  <2>4. e \in ShopErrand /\ e.pc = "done" /\ e.kind = "preview" /\ e.at = c /\ errand' = e
    BY <2>1, <2>2, <2>3, ErrandsAre
  <2> HIDE DEF e
  <2>5. ShopsShape' /\ ShopsAreReal'
    BY <1>1, <2>1, <2>3, <2>4 DEF ShopsShape, ShopsAreReal
  <2>6. DraftsInv'
    BY <1>1, <1>4, <2>1, <2>4 DEF DraftsInv
  <2>7. Calm' = Calm
    BY <2>1 DEF Calm
  <2>8. CalmInv => CalmInv'
    BY <1>1, <1>4, <2>1, <2>4
       DEF CalmInv, LoadsInv, Brings, Reloads, FormsFit, IsFilled, MeansIt, ListsAreCurrent, Untouched
  <2> QED  BY <2>5, <2>6, <2>7, <2>8
<1> QED
  BY <1>2, <1>3, <1>4 DEF ErrandServed

\* A command fails, a preview is shown.
LEMMA CommandFails == ASSUME ShopsInv, ErrandFails \/ PreviewAnswered PROVE ShopsInv'
PROOF
<1> USE DEF ShopsInv
<1>1. /\ errand' = NoErrand /\ ~Reloads(errand)
      /\ UNCHANGED <<shopRecord, typedFor, directory, refreshing, selected, formMode, info, terms, drafts, onboarded>>
      /\ mishap' \in {mishap, mishap \cup {"answer"}}
      /\ errand.pc = "done" => mishap' = mishap \cup {"answer"} \/ (mishap' = mishap /\ errand.kind = "preview")
  BY DEF ErrandFails, PreviewAnswered, Reloads
<1>2. NoErrand.pc = "nothing"
  BY DEF NoErrand
<1>3. ShopsShape'
  BY <1>1, ErrandsAre DEF ShopsShape
<1>4. ShopsAreReal'
  BY <1>1, <1>2 DEF ShopsAreReal
<1>5. DraftsInv'
  BY <1>1, <1>2 DEF DraftsInv
<1>6. Calm' = Calm
  BY <1>1 DEF Calm
<1>7. ASSUME Calm PROVE CalmInv'
  <2> USE <1>7 DEF CalmInv
  <2>1. LoadsInv' /\ FormsFit' /\ MeansIt'
    BY <1>1, <1>2 DEF LoadsInv, Brings, Reloads, FormsFit, IsFilled, MeansIt
  <2>2. ASSUME "answer" \notin mishap' PROVE ListsAreCurrent'
    BY <1>1, <1>2, <2>2 DEF ListsAreCurrent, Untouched
  <2> QED  BY <2>1, <2>2
<1> QED
  BY <1>3, <1>4, <1>5, <1>6, <1>7

\* The answer fills its form, selects its client and loads the list again.
LEMMA CommandIsAnswered == ASSUME ShopsInv, ErrandAnswered PROVE ShopsInv'
PROOF
<1> USE DEF ShopsInv
<1>1. PICK c, mode, filled, sheet, side :
        /\ c = errand.at /\ mode = ModeAfter(errand.kind) /\ filled = FilledFrom(c, errand.ver)
        /\ sheet = (IF errand.kind \in {"create", "update"} /\ mode = "edit" THEN filled ELSE info)
        /\ side = (IF errand.kind = "terms" THEN filled ELSE terms)
        /\ formMode' = mode /\ selected' = c
        /\ Refill(mode, c, directory, sheet, side, c # selected \/ mode # formMode)
  BY DEF ErrandAnswered
<1>2. /\ errand.pc = "done" /\ errand.kind # "preview" /\ errand' = [pc |-> "asked"]
      /\ mishap' = (IF ShopsLoading THEN mishap \cup {"crossed"} ELSE mishap)
      /\ UNCHANGED <<shopRecord, typedFor, directory, refreshing, drafts, onboarded>>
  BY DEF ErrandAnswered
<1>3. c \in Shops /\ c # NoShop /\ errand.ver \in 1..MaxRecord /\ errand.kind \in {"create", "update", "terms", "status", "preview"}
      /\ shopRecord[c] # 0
  BY <1>1, <1>2, ErrandTells, ShopAssumption DEF ShopsShape, ShopsAreReal
<1>4. filled \in Forms /\ filled.of = c
  BY <1>3, <1>1, FilledForm
<1>5. mode \in {"edit", "create"} /\ (errand.kind \in {"create", "update"} => mode = "edit")
      /\ (errand.kind \notin {"create", "update"} => mode = formMode)
  BY <1>1 DEF ModeAfter, ShopsShape
<1>6. sheet \in Forms /\ side \in Forms /\ sheet.of \in {c, info.of} /\ side.of \in {c, terms.of}
      /\ (mode = "create" => sheet = info)
  BY <1>1, <1>4, <1>5 DEF ShopsShape
<1>7. /\ info' \in Forms /\ terms' \in Forms
      /\ mode = "edit" /\ directory # NoShop => NoShop \notin {info'.of, terms'.of}
      /\ mode = "create" => info' = info
  <2>1. CASE info' = sheet /\ terms' = side /\ (mode = "edit" /\ directory # NoShop => formMode = "edit")
    BY <1>3, <1>6, <2>1 DEF ShopsAreReal
  <2>2. ASSUME NEW first \in Onboarded(directory), directory # NoShop, mode # "create",
               info' = FilledFrom(LookedAt(directory, c, first), directory[LookedAt(directory, c, first)]),
               terms' = FilledFrom(LookedAt(directory, c, first), directory[LookedAt(directory, c, first)])
        PROVE  info' \in Forms /\ terms' \in Forms /\ NoShop \notin {info'.of, terms'.of}
    BY <2>2, ShopAssumption, FilledForm DEF LookedAt, Onboarded, ShopsShape, Records
  <2>3. CASE directory = NoShop \/ mode = "create" \/ ~(c # selected \/ mode # formMode)
    BY <1>1, <2>3, <1>5, <2>1 DEF Refill
  <2>4. CASE ~(directory = NoShop \/ mode = "create" \/ ~(c # selected \/ mode # formMode))
    BY <1>1, <2>4, <2>2 DEF Refill
  <2> QED  BY <2>3, <2>4
<1>8. errand'.pc = "asked" /\ errand' \in ShopErrand
  BY <1>2, ErrandsAre
<1>9. mishap' \subseteq {"load", "answer", "twice", "crossed"}
  BY <1>2 DEF ShopsShape
<1>10. ShopsShape'
  BY <1>1, <1>2, <1>3, <1>5, <1>7, <1>8, <1>9 DEF ShopsShape
<1>11. ShopsAreReal'
  BY <1>1, <1>2, <1>3, <1>5, <1>7, <1>8 DEF ShopsAreReal
<1>12. DraftsInv'
  BY <1>1, <1>2, <1>5, <1>8 DEF DraftsInv
<1>13. Calm' => Calm /\ mishap' = mishap /\ refreshing = NoErrand
  BY <1>2 DEF Calm, ShopsLoading
<1>14. NoErrand.pc = "nothing"
  BY DEF NoErrand
<1>15. ASSUME Calm' PROVE CalmInv'
  BY <1>2, <1>8, <1>13, <1>14, <1>15
     DEF CalmInv, LoadsInv, Brings, Reloads, FormsFit, IsFilled, MeansIt, ListsAreCurrent, Untouched
<1> QED
  BY <1>10, <1>11, <1>12, <1>15

LEMMA ShopsStep == ShopsInv /\ [ShopsNext]_shopVars => ShopsInv'
PROOF
<1> SUFFICES ASSUME ShopsInv, [ShopsNext]_shopVars PROVE ShopsInv'
  OBVIOUS
<1>1. CASE UNCHANGED shopVars
  BY <1>1 DEF shopVars, ShopsInv, ShopsShape, ShopsAreReal, DraftsInv, Calm, CalmInv, LoadsInv, Brings, FormsFit,
              IsFilled, MeansIt, ListsAreCurrent, Untouched, Reloads, Has
<1>2. CASE RefreshShops
  BY <1>2, RefreshBegins
<1>3. CASE ShopsServed
  BY <1>3, ListIsServed
<1>4. CASE ShopsShown
  BY <1>4, ListIsShown
<1>5. CASE ShopsLost
  BY <1>5, ListIsLost
<1>6. CASE StartCreate
  BY <1>6, ClientIsOnboarded
<1>7. CASE EditInfo \/ EditTerms \/ Discard
  BY <1>7, FormsAreTyped
<1>8. CASE SaveClient \/ SaveDpaProfile \/ ChangeStatus \/ PreviewRetention \/ RunRetention
  BY <1>8, CommandIsGiven
<1>9. CASE ErrandServed
  BY <1>9, CommandIsServed
<1>10. CASE ErrandFails \/ PreviewAnswered
  BY <1>10, CommandFails
<1>11. CASE ErrandAnswered
  BY <1>11, CommandIsAnswered
<1>12. CASE \E c \in Shops : StartEdit(c)
  BY <1>12, ClientIsChosen
<1> QED
  BY <1>1, <1>2, <1>3, <1>4, <1>5, <1>6, <1>7, <1>8, <1>9, <1>10, <1>11, <1>12 DEF ShopsNext

\* A step that stores nothing and changes no list, form or command.
LEMMA StrayStays ==
    ASSUME StrayInv, UNCHANGED <<shopRecord, typedFor, directory, selected, formMode, made>>,
           info'.of = info.of, terms'.of = terms.of,
           \/ errand' = errand
           \/ errand' \in ShopErrand /\ errand'.pc \notin {"update", "terms", "status", "preview"}
              /\ (errand'.pc = "served" => errand'.got = shopRecord),
           \/ refreshing' = refreshing
           \/ refreshing'.pc = "served" => refreshing'.got = shopRecord
    PROVE  StrayInv'
PROOF
  BY DEF StrayInv, Lists

LEMMA StrayShown == ASSUME ShopsInv, StrayInv, ShopsShown PROVE StrayInv'
PROOF
<1> USE DEF ShopsInv
<1>1. PICK e \in {refreshing, errand} :
        /\ e.pc = "served" /\ ShowDirectory(e.got)
        /\ \/ e = refreshing /\ refreshing' = NoErrand /\ errand' = errand
           \/ e = errand /\ errand' = NoErrand /\ refreshing' = refreshing
  BY DEF ShopsShown
<1>2. PICK got : got = e.got
  OBVIOUS
<1>3. got \in Records /\ ShowDirectory(got) /\ Lists(got)
  BY <1>1, <1>2, ErrandTells, RefreshTells DEF ShopsShape, StrayInv
<1>4. UNCHANGED <<shopRecord, typedFor, formMode, made>>
  BY <1>3 DEF ShowDirectory
<1>5. /\ directory' = got /\ selected' \in Shops \cup {NoShop}
      /\ selected # NoShop => selected' = selected
      /\ selected = NoShop => selected' # NoShop /\ got[selected'] # 0
      /\ formMode = "edit" /\ got # NoShop /\ got[selected'] # 0 /\ selected' # NoShop =>
                info'.of = selected' /\ terms'.of = selected'
  BY <1>3, DirectoryFills
<1>6. NoErrand.pc = "nothing"
  BY DEF NoErrand
<1>7. selected' \notin made => got[selected'] # 0
  BY <1>3, <1>5 DEF Lists, ShopsAreReal
<1>8. formMode = "edit" /\ directory' # NoShop /\ selected' \notin made => info'.of = selected' /\ terms'.of = selected'
  BY <1>5, <1>7
<1> QED
  BY <1>1, <1>3, <1>4, <1>5, <1>6, <1>8 DEF StrayInv, Lists

LEMMA StrayChosen == ASSUME ShopsInv, StrayInv, NEW c \in Shops, StartEdit(c) PROVE StrayInv'
PROOF
<1>1. /\ directory # NoShop /\ directory[c] \in 0..MaxRecord
      /\ selected' = c /\ info' = FilledFrom(c, directory[c]) /\ terms' = FilledFrom(c, directory[c])
      /\ UNCHANGED <<shopRecord, typedFor, directory, refreshing, errand, made>>
  BY DEF StartEdit, ShopsInv, ShopsShape, Records
<1>2. info'.of = c /\ terms'.of = c
  BY <1>1, FilledForm
<1> QED
  BY <1>1, <1>2 DEF StrayInv, Lists

LEMMA StrayOrdered ==
    ASSUME ShopsInv, StrayInv, SaveClient \/ SaveDpaProfile \/ ChangeStatus \/ PreviewRetention \/ RunRetention
    PROVE  StrayInv'
PROOF
<1>1. ASSUME NEW k \in {"update", "terms", "status", "preview"}, NEW d \in {selected, info.of, terms.of},
             formMode = "edit", directory # NoShop, Order([pc |-> k, at |-> selected, of |-> d])
      PROVE  StrayInv'
  <2> DEFINE e == [pc |-> k, at |-> selected, of |-> d]
  <2>1. e.pc # "served" /\ e.at = selected /\ e.of = d /\ errand' = e
    BY <1>1 DEF Order
  <2>2. UNCHANGED <<shopRecord, typedFor, directory, refreshing, selected, formMode, info, terms, made>>
    BY <1>1 DEF Order
  <2> HIDE DEF e
  <2> QED  BY <1>1, <2>1, <2>2 DEF StrayInv, Lists
<1>2. CASE SaveClient /\ formMode = "create"
  <2>1. PICK n : n = drafts
    OBVIOUS
  <2> DEFINE e == [pc |-> "create", draft |-> n]
  <2>2. e.pc = "create" /\ errand' = e
    BY <1>2, <2>1 DEF SaveClient, Order
  <2>3. UNCHANGED <<shopRecord, typedFor, directory, refreshing, selected, formMode, info, terms, made>>
    BY <1>2 DEF SaveClient, Order
  <2> HIDE DEF e
  <2> QED  BY <2>2, <2>3 DEF StrayInv, Lists
<1>3. CASE SaveClient /\ formMode # "create"
  BY <1>1, <1>3 DEF SaveClient, FormIsShown, ShopsInv, ShopsShape
<1>4. CASE SaveDpaProfile
  BY <1>1, <1>4 DEF SaveDpaProfile, OnSelected
<1>5. CASE ChangeStatus
  BY <1>1, <1>5 DEF ChangeStatus, OnSelected
<1>6. CASE PreviewRetention
  BY <1>1, <1>6 DEF PreviewRetention, OnSelected
<1>7. CASE RunRetention
  BY <1>1, <1>7 DEF RunRetention, OnSelected
<1> QED
  BY <1>2, <1>3, <1>4, <1>5, <1>6, <1>7

LEMMA StrayServed == ASSUME ShopsInv, StrayInv, ErrandServed PROVE StrayInv'
PROOF
<1>1. UNCHANGED <<directory, refreshing, selected, formMode, info, terms>> /\ ShopsShape
  BY DEF ErrandServed, ShopsInv
<1>2. CASE errand.pc = "create"
  <2>1. PICK c \in Shops :
          /\ StoreFor(c, c) /\ errand' = [pc |-> "done", kind |-> "create", at |-> c, ver |-> 1]
          /\ made' = made \cup {c}
    BY <1>2 DEF ErrandServed
  <2>2. \A d \in Shops \ made' : shopRecord'[d] = shopRecord[d] /\ typedFor'[d] = typedFor[d] /\ d \notin made
    BY <1>1, <2>1 DEF StoreFor, ShopsShape, Records
  <2>3. errand'.pc = "done" /\ made \subseteq made' /\ made' \subseteq Shops
    BY <2>1 DEF StrayInv
  <2> QED  BY <1>1, <2>2, <2>3 DEF StrayInv, Lists
<1>3. CASE errand.pc \in {"update", "terms", "status"}
  <2>1. PICK c, of : c = errand.at /\ of = errand.of
    OBVIOUS
  <2>2. /\ StoreFor(c, of) /\ made' = made /\ errand'.pc = "done"
        /\ c \in Shops /\ shopRecord[c] # 0 /\ (c \notin made => of = c)
    <3>1. StoreFor(c, of) /\ made' = made /\ errand'.pc = "done"
      BY <1>3, <2>1 DEF ErrandServed
    <3>2. c \in Shops
      BY <1>1, <1>3, <2>1, ErrandTells DEF ShopsShape
    <3>3. shopRecord[c] # 0 /\ (c \notin made => of = c)
      BY <1>3, <2>1 DEF ShopsInv, ShopsAreReal, StrayInv
    <3> QED  BY <3>1, <3>2, <3>3
  <2>3. \A d \in Shops \ made : /\ shopRecord'[d] # 0 => shopRecord[d] # 0
                               /\ typedFor'[d] \in {d, typedFor[d]}
    BY <1>1, <2>2 DEF StoreFor, ShopsShape, Records
  <2> QED  BY <1>1, <2>2, <2>3 DEF StrayInv, Lists
<1>4. CASE errand.pc = "preview"
  <2>1. errand'.pc = "done" /\ UNCHANGED <<shopRecord, typedFor, made>>
    BY <1>4 DEF ErrandServed
  <2> QED  BY <1>1, <2>1 DEF StrayInv, Lists
<1> QED
  BY <1>2, <1>3, <1>4 DEF ErrandServed

\* The client of the answer is in the list, so the effect fills the forms from it.
LEMMA StrayAnswered == ASSUME ShopsInv, StrayInv, ErrandAnswered PROVE StrayInv'
PROOF
<1> USE DEF ShopsInv
<1>1. PICK c, mode, filled, sheet, side :
        /\ c = errand.at /\ mode = ModeAfter(errand.kind) /\ filled = FilledFrom(c, errand.ver)
        /\ sheet = (IF errand.kind \in {"create", "update"} /\ mode = "edit" THEN filled ELSE info)
        /\ side = (IF errand.kind = "terms" THEN filled ELSE terms)
        /\ formMode' = mode /\ selected' = c
        /\ Refill(mode, c, directory, sheet, side, c # selected \/ mode # formMode)
  BY DEF ErrandAnswered
<1>2. /\ errand.pc = "done" /\ errand' = [pc |-> "asked"]
      /\ UNCHANGED <<shopRecord, typedFor, directory, refreshing, made>>
  BY DEF ErrandAnswered
<1>3. c \in Shops /\ errand.ver \in 0..MaxRecord /\ shopRecord[c] # 0
  BY <1>1, <1>2, ErrandTells DEF ShopsShape, ShopsAreReal
<1>4. filled.of = c
  BY <1>3, <1>1, FilledForm
<1>5. ASSUME mode = "edit", directory # NoShop, c \notin made PROVE info'.of = c /\ terms'.of = c
  <2>1. CASE c = selected /\ mode = formMode
    BY <1>1, <1>4, <1>5, <2>1 DEF Refill, StrayInv
  <2>2. CASE ~(c = selected /\ mode = formMode)
    <3>1. c \in Onboarded(directory) /\ directory[c] \in 0..MaxRecord
      BY <1>3, <1>5 DEF StrayInv, Lists, Onboarded, ShopsShape, Records
    <3>2. \A first : LookedAt(directory, c, first) = c
      BY <3>1 DEF LookedAt
    <3>3. info' = FilledFrom(c, directory[c]) /\ terms' = FilledFrom(c, directory[c])
      BY <1>1, <1>5, <2>2, <3>2 DEF Refill
    <3> QED  BY <1>3, <3>1, <3>3, FilledForm
  <2> QED  BY <2>1, <2>2
<1>6. errand'.pc = "asked"
  BY <1>2
<1> QED
  BY <1>1, <1>2, <1>5, <1>6 DEF StrayInv, Lists

LEMMA ClientsStart == ShopsInit => ClientsInv
PROOF
  BY ShopsStart DEF ShopsInit, ClientsInv, StrayInv, Lists, NoErrand

LEMMA ClientsStep == ClientsInv /\ [ShopsNext]_shopVars => ClientsInv'
PROOF
<1> SUFFICES ASSUME ShopsInv, StrayInv, [ShopsNext]_shopVars PROVE StrayInv'
  BY ShopsStep DEF ClientsInv
<1>1. NoErrand.pc = "nothing" /\ NoErrand \in ShopErrand /\ [pc |-> "asked"] \in ShopErrand
  BY ErrandsAre DEF NoErrand
<1>2. CASE UNCHANGED shopVars
  BY <1>2, StrayStays DEF shopVars
<1>3. CASE RefreshShops
  BY <1>3, StrayStays DEF RefreshShops
<1>4. CASE ShopsServed
  <2> DEFINE e == [pc |-> "served", got |-> shopRecord]
  <2>1. e \in ShopErrand /\ e.pc = "served" /\ e.got = shopRecord
    BY ErrandsAre DEF ShopsInv, ShopsShape
  <2>2. errand' \in {errand, e} /\ refreshing' \in {refreshing, e}
        /\ UNCHANGED <<shopRecord, typedFor, directory, selected, formMode, info, terms, made>>
    BY <1>4 DEF ShopsServed
  <2> HIDE DEF e
  <2> QED  BY <2>1, <2>2, StrayStays
<1>5. CASE ShopsShown
  BY <1>5, StrayShown
<1>6. CASE ShopsLost
  BY <1>1, <1>6, StrayStays DEF ShopsLost
<1>7. CASE StartCreate
  BY <1>7 DEF StartCreate, StrayInv, Lists
<1>8. CASE EditInfo \/ EditTerms \/ Discard
  <2>1. info'.of = info.of /\ terms'.of = terms.of
    BY <1>8 DEF EditInfo, EditTerms, Discard, TypeIn, ShopsInv, ShopsShape, Forms
  <2> QED  BY <1>8, <2>1, StrayStays DEF EditInfo, EditTerms, Discard
<1>9. CASE SaveClient \/ SaveDpaProfile \/ ChangeStatus \/ PreviewRetention \/ RunRetention
  BY <1>9, StrayOrdered
<1>10. CASE ErrandServed
  BY <1>10, StrayServed
<1>11. CASE ErrandFails \/ PreviewAnswered
  BY <1>1, <1>11, StrayStays DEF ErrandFails, PreviewAnswered
<1>12. CASE ErrandAnswered
  BY <1>12, StrayAnswered
<1>13. CASE \E c \in Shops : StartEdit(c)
  BY <1>13, StrayChosen
<1> QED
  BY <1>2, <1>3, <1>4, <1>5, <1>6, <1>7, <1>8, <1>9, <1>10, <1>11, <1>12, <1>13 DEF ShopsNext

-----------------------------------------------------------------------------
(* The urgent tickets: each is announced once.                               *)

NoneTwice(s) == \A i, j \in 1..Len(s) : s[i] = s[j] => i = j
AnsweredPoll == [pc : {"answered"}, open : SUBSET Urgents, resolved : SUBSET Urgents]
PollsAreTyped == poll \in [Polls -> {Idle} \cup AnsweredPoll]
StackInv ==
    /\ pending \in Seq(Urgents) /\ Len(pending) <= Stack /\ NoneTwice(pending)
    /\ SeqSet(pending) \subseteq Seen
\* The browser has the latest of what the page has seen, unless it refused once; and what was announced the
\* page has seen, unless it was forgotten.
IdsInv ==
    /\ seenRef \in Seq(Urgents) /\ NoneTwice(seenRef)
    /\ seenIds \in Seq(Urgents) /\ NoneTwice(seenIds) /\ Len(seenIds) <= Kept
    /\ refused \in BOOLEAN
    /\ ~refused => seenIds = Latest(seenRef)
ToldInv == \A t \in Urgents : raised[t] > 0 => t \in Seen \cup forgotten
CountsInv ==
    /\ urgent \in [Urgents -> {"none", "open", "resolved"}] /\ raised \in [Urgents -> 0..2]
    /\ suppressed \subseteq Urgents /\ pushed \subseteq Urgents /\ forgotten \subseteq Urgents
    /\ alertOps \in 0..MaxAlertOps

AlertInv ==
    /\ PollsAreTyped /\ StackInv /\ IdsInv /\ ToldInv /\ CountsInv
    /\ SeenIsAnnounced /\ RaisedIsOnStack /\ AnnouncedOnce

-----------------------------------------------------------------------------
\* A sequence without repetition is as long as the set of what it holds.
LEMMA StackIsCounted ==
    ASSUME NEW s \in Seq(Urgents), NoneTwice(s)
    PROVE  Cardinality(SeqSet(s)) = Len(s)
PROOF
<1>1. Len(s) \in Nat /\ DOMAIN s = 1..Len(s)
  OBVIOUS
<1>2. s \in Bijection(1..Len(s), SeqSet(s))
  BY <1>1 DEF Bijection, Injection, Surjection, IsInjective, SeqSet, NoneTwice
<1>3. IsFiniteSet(1..Len(s)) /\ Cardinality(1..Len(s)) = Len(s)
  BY <1>1, FS_Interval
<1> QED
  BY <1>2, <1>3, FS_Bijection DEF ExistsBijection

LEMMA OrderLists ==
    ASSUME NEW S \in SUBSET Urgents, NEW o \in Orders(S)
    PROVE  o \in Seq(Urgents) /\ Len(o) = Cardinality(S) /\ NoneTwice(o) /\ SeqSet(o) = S
PROOF
<1>1. IsFiniteSet(S) /\ Cardinality(S) \in Nat
  BY AlertAssumption, FS_Subset, FS_CardinalityType
<1>2. o \in [1..Cardinality(S) -> S] /\ SeqSet(o) = S
  BY DEF Orders
<1>3. o \in Seq(Urgents) /\ Len(o) = Cardinality(S)
  BY <1>1, <1>2
<1>4. o \in Surjection(1..Cardinality(S), S)
  BY <1>2 DEF Surjection, SeqSet
<1>5. IsFiniteSet(1..Cardinality(S)) /\ Cardinality(1..Cardinality(S)) = Cardinality(S)
  BY <1>1, FS_Interval
<1>6. o \in Injection(1..Cardinality(S), S)
  BY <1>4, <1>5, FS_SurjSameCardinalityImpliesInj
<1> QED
  BY <1>2, <1>3, <1>6 DEF Injection, IsInjective, NoneTwice

LEMMA TopOf ==
    ASSUME NEW s \in Seq(Urgents)
    PROVE  /\ Top(s) \in Seq(Urgents) /\ Len(Top(s)) <= Stack
           /\ Len(Top(s)) = (IF Len(s) < Stack THEN Len(s) ELSE Stack)
           /\ \A i \in 1..Len(Top(s)) : Top(s)[i] = s[i]
           /\ Len(Top(s)) <= Len(s)
PROOF
  BY AlertAssumption DEF Top

LEMMA TopHoldsNoneTwice ==
    ASSUME NEW s \in Seq(Urgents), NoneTwice(s)
    PROVE  NoneTwice(Top(s)) /\ SeqSet(Top(s)) \subseteq SeqSet(s)
PROOF
<1>1. \A i \in 1..Len(Top(s)) : i \in 1..Len(s) /\ Top(s)[i] = s[i]
  BY TopOf
<1>2. DOMAIN s = 1..Len(s) /\ DOMAIN Top(s) = 1..Len(Top(s))
  BY TopOf
<1> QED
  BY <1>1, <1>2 DEF NoneTwice, SeqSet

\* One sequence before another that holds nothing of it.
LEMMA OneBeforeOther ==
    ASSUME NEW a \in Seq(Urgents), NEW b \in Seq(Urgents), NoneTwice(a), NoneTwice(b),
           SeqSet(a) \cap SeqSet(b) = {}
    PROVE  /\ a \o b \in Seq(Urgents) /\ Len(a \o b) = Len(a) + Len(b) /\ NoneTwice(a \o b)
           /\ SeqSet(a \o b) = SeqSet(a) \cup SeqSet(b)
           /\ \A i \in 1..Len(a) : (a \o b)[i] = a[i]
PROOF
<1> DEFINE c == a \o b
<1>1. c \in Seq(Urgents) /\ Len(c) = Len(a) + Len(b) /\ Len(a) \in Nat /\ Len(b) \in Nat
  OBVIOUS
<1>2. \A i \in 1..Len(c) : c[i] = IF i <= Len(a) THEN a[i] ELSE b[i - Len(a)]
  OBVIOUS
<1>3. /\ \A i \in 1..Len(c) : i > Len(a) => i - Len(a) \in 1..Len(b)
      /\ \A i \in 1..Len(b) : i + Len(a) \in 1..Len(c) /\ i + Len(a) > Len(a) /\ i + Len(a) - Len(a) = i
      /\ \A i \in 1..Len(c) : i <= Len(a) => i \in 1..Len(a)
      /\ \A i \in 1..Len(a) : i \in 1..Len(c) /\ i <= Len(a)
      /\ \A i, j \in 1..Len(c) : i - Len(a) = j - Len(a) => i = j
      /\ \A i \in 1..Len(c) : ~(i <= Len(a)) => i > Len(a)
      /\ \A i \in 1..Len(b) : ~(i + Len(a) <= Len(a))
  BY ONLY <1>1
<1>4. DOMAIN a = 1..Len(a) /\ DOMAIN b = 1..Len(b) /\ DOMAIN c = 1..Len(c)
  BY <1>1
<1> HIDE DEF c
<1>5. \A i \in 1..Len(a) : c[i] = a[i]
  BY <1>2, <1>3
<1>6. \A i \in 1..Len(b) : c[i + Len(a)] = b[i]
  BY <1>2, <1>3
<1>7. (\A i \in 1..Len(a) : a[i] \in SeqSet(a)) /\ (\A i \in 1..Len(b) : b[i] \in SeqSet(b))
  BY <1>4 DEF SeqSet
<1>8. SeqSet(c) = SeqSet(a) \cup SeqSet(b)
  <2>1. ASSUME NEW i \in 1..Len(c) PROVE c[i] \in SeqSet(a) \cup SeqSet(b)
    <3>1. CASE i <= Len(a)
      BY <1>2, <1>3, <1>7, <3>1
    <3>2. CASE ~(i <= Len(a))
      BY <1>2, <1>3, <1>7, <3>2
    <3> QED  BY <3>1, <3>2
  <2>2. SeqSet(c) \subseteq SeqSet(a) \cup SeqSet(b)
    BY <2>1, <1>4 DEF SeqSet
  <2>3. SeqSet(a) \subseteq SeqSet(c)
    BY <1>3, <1>4, <1>5 DEF SeqSet
  <2>4. SeqSet(b) \subseteq SeqSet(c)
    BY <1>3, <1>4, <1>6 DEF SeqSet
  <2> QED  BY <2>2, <2>3, <2>4
<1>9. ASSUME NEW i \in 1..Len(c), NEW j \in 1..Len(c), c[i] = c[j]
      PROVE  i = j
  <2>1. CASE i <= Len(a) /\ j <= Len(a)
    BY <1>2, <1>3, <1>9, <2>1 DEF NoneTwice
  <2>2. CASE ~(i <= Len(a)) /\ ~(j <= Len(a))
    BY <1>2, <1>3, <1>9, <2>2 DEF NoneTwice
  <2>3. CASE i <= Len(a) /\ ~(j <= Len(a))
    <3>1. c[i] \in SeqSet(a) /\ c[j] \in SeqSet(b)
      BY <1>2, <1>3, <1>7, <2>3
    <3> QED  BY <1>9, <3>1
  <2>4. CASE ~(i <= Len(a)) /\ j <= Len(a)
    <3>1. c[j] \in SeqSet(a) /\ c[i] \in SeqSet(b)
      BY <1>2, <1>3, <1>7, <2>4
    <3> QED  BY <1>9, <3>1
  <2> QED  BY <2>1, <2>2, <2>3, <2>4
<1>10. NoneTwice(c)
  BY <1>9 DEF NoneTwice
<1> QED
  BY <1>1, <1>5, <1>8, <1>10 DEF c

\* A stack without one of its tickets.
LEMMA WithoutOne ==
    ASSUME NEW s \in Seq(Urgents), NoneTwice(s), NEW k \in 1..Len(s)
    PROVE  /\ Without(s, k) \in Seq(Urgents) /\ Len(Without(s, k)) <= Len(s) /\ NoneTwice(Without(s, k))
           /\ SeqSet(Without(s, k)) = SeqSet(s) \ {s[k]}
PROOF
<1> DEFINE a == SubSeq(s, 1, k - 1)
           b == SubSeq(s, k + 1, Len(s))
<1>1. /\ a \in Seq(Urgents) /\ Len(a) = k - 1 /\ \A i \in 1..(k - 1) : a[i] = s[i]
      /\ b \in Seq(Urgents) /\ Len(b) = Len(s) - k /\ \A i \in 1..(Len(s) - k) : b[i] = s[i + k]
  OBVIOUS
<1>2. DOMAIN a = 1..(k - 1) /\ DOMAIN b = 1..(Len(s) - k) /\ DOMAIN s = 1..Len(s) /\ Len(s) \in Nat /\ k \in Nat
  BY <1>1
<1> HIDE DEF a, b
<1>3. /\ \A i \in 1..(k - 1) : i \in 1..Len(s) /\ i # k
      /\ \A i \in 1..(Len(s) - k) : i + k \in 1..Len(s) /\ i + k # k
      /\ \A i, j \in 1..(Len(s) - k) : i + k = j + k => i = j
      /\ \A i \in 1..(k - 1), j \in 1..(Len(s) - k) : i # j + k
      /\ \A i \in 1..Len(s) : i # k => (i \in 1..(k - 1) \/ i - k \in 1..(Len(s) - k)) /\ (i - k) + k = i
      /\ (k - 1) + (Len(s) - k) <= Len(s)
  BY ONLY <1>2, k \in 1..Len(s)
<1>4. NoneTwice(a)
  BY <1>1, <1>3 DEF NoneTwice
<1>5. NoneTwice(b)
  BY <1>1, <1>3 DEF NoneTwice
<1>6. SeqSet(a) \cap SeqSet(b) = {}
  <2> SUFFICES ASSUME NEW i \in 1..(k - 1), NEW j \in 1..(Len(s) - k), a[i] = b[j] PROVE FALSE
    BY <1>2 DEF SeqSet
  <2>1. s[i] = s[j + k] /\ i \in 1..Len(s) /\ j + k \in 1..Len(s)
    BY <1>1, <1>3
  <2>2. i = j + k
    BY <2>1 DEF NoneTwice
  <2> QED  BY <1>3, <2>2
<1>7. /\ a \o b \in Seq(Urgents) /\ Len(a \o b) = Len(a) + Len(b) /\ NoneTwice(a \o b)
      /\ SeqSet(a \o b) = SeqSet(a) \cup SeqSet(b)
  BY <1>1, <1>4, <1>5, <1>6, OneBeforeOther
<1>8. SeqSet(a) \cup SeqSet(b) = SeqSet(s) \ {s[k]}
  <2>1. ASSUME NEW t \in SeqSet(a) PROVE t \in SeqSet(s) \ {s[k]}
    BY <1>2, <2>1, <1>1, <1>3 DEF SeqSet, NoneTwice
  <2>2. ASSUME NEW t \in SeqSet(b) PROVE t \in SeqSet(s) \ {s[k]}
    <3>1. PICK i \in 1..(Len(s) - k) : t = b[i]
      BY <1>2, <2>2 DEF SeqSet
    <3>2. t = s[i + k] /\ i + k \in 1..Len(s) /\ i + k # k
      BY <1>1, <1>3, <3>1
    <3> QED  BY <1>2, <3>2 DEF NoneTwice, SeqSet
  <2>3. ASSUME NEW t \in SeqSet(s) \ {s[k]} PROVE t \in SeqSet(a) \cup SeqSet(b)
    <3>1. PICK i \in 1..Len(s) : t = s[i] /\ i # k
      BY <1>2, <2>3 DEF SeqSet
    <3>2. CASE i \in 1..(k - 1)
      BY <1>1, <1>2, <3>1, <3>2 DEF SeqSet
    <3>3. CASE i - k \in 1..(Len(s) - k) /\ (i - k) + k = i
      BY <1>1, <3>1, <3>3, <1>2 DEF SeqSet
    <3> QED  BY <1>3, <3>1, <3>2, <3>3
  <2> QED  BY <2>1, <2>2, <2>3
<1> QED
  <2>1. Without(s, k) = a \o b
    BY DEF Without, a, b
  <2>2. Len(a \o b) <= Len(s)
    BY <1>1, <1>3, <1>7
  <2> QED  BY <1>7, <1>8, <2>1, <2>2

-----------------------------------------------------------------------------
\* A list turned round.
LEMMA TurnedRound ==
    ASSUME NEW s \in Seq(Urgents), NoneTwice(s)
    PROVE  /\ Reverse(s) \in Seq(Urgents) /\ Len(Reverse(s)) = Len(s) /\ NoneTwice(Reverse(s))
           /\ SeqSet(Reverse(s)) = SeqSet(s)
PROOF
<1> DEFINE r == Reverse(s)
<1>1. Len(s) \in Nat /\ DOMAIN s = 1..Len(s) /\ \A i \in 1..Len(s) : s[i] \in Urgents
  OBVIOUS
<1>2. /\ \A i \in 1..Len(s) : Len(s) - i + 1 \in 1..Len(s) /\ Len(s) - (Len(s) - i + 1) + 1 = i
      /\ \A i, j \in 1..Len(s) : Len(s) - i + 1 = Len(s) - j + 1 => i = j
  BY ONLY <1>1
<1>3. r = [i \in 1..Len(s) |-> s[Len(s) - i + 1]]
  BY DEF Reverse
<1>4. r \in Seq(Urgents) /\ Len(r) = Len(s) /\ DOMAIN r = 1..Len(s) /\ \A i \in 1..Len(s) : r[i] = s[Len(s) - i + 1]
  BY <1>1, <1>2, <1>3
<1> HIDE DEF r
<1>5. NoneTwice(r)
  <2> SUFFICES ASSUME NEW i \in 1..Len(s), NEW j \in 1..Len(s), r[i] = r[j] PROVE i = j
    BY <1>4 DEF NoneTwice
  <2>1. s[Len(s) - i + 1] = s[Len(s) - j + 1]
    BY <1>4
  <2> QED  BY <1>2, <2>1 DEF NoneTwice
<1>6. SeqSet(r) \subseteq SeqSet(s)
  BY <1>1, <1>2, <1>4 DEF SeqSet
<1>7. \A i \in 1..Len(s) : \E k \in 1..Len(s) : s[i] = r[k]
  BY <1>2, <1>4
<1>8. SeqSet(s) \subseteq SeqSet(r)
  <2> SUFFICES ASSUME NEW i \in 1..Len(s) PROVE s[i] \in SeqSet(r)
    BY <1>1 DEF SeqSet
  <2>1. PICK k \in 1..Len(s) : s[i] = r[k]
    BY <1>7
  <2> QED  BY <1>4, <2>1 DEF SeqSet
<1> QED
  BY <1>4, <1>5, <1>6, <1>8 DEF r

\* What is kept of a list: all of it, when it is short enough.
LEMMA LatestOf ==
    ASSUME NEW s \in Seq(Urgents), NoneTwice(s)
    PROVE  /\ Latest(s) \in Seq(Urgents) /\ Len(Latest(s)) <= Kept /\ NoneTwice(Latest(s))
           /\ SeqSet(Latest(s)) \subseteq SeqSet(s)
           /\ Len(s) <= Kept => Latest(s) = s
PROOF
<1>1. Len(s) \in Nat /\ Kept \in Nat /\ Kept > 0 /\ DOMAIN s = 1..Len(s)
  BY AlertAssumption
<1>2. CASE Len(s) <= Kept
  <2>1. Latest(s) = SubSeq(s, 1, Len(s))
    BY <1>2 DEF Latest
  <2>2. SubSeq(s, 1, Len(s)) = s
    BY <1>1
  <2> QED  BY <1>2, <2>1, <2>2
<1>3. CASE ~(Len(s) <= Kept)
  <2> DEFINE m == Len(s) - Kept + 1
             r == SubSeq(s, m, Len(s))
  <2>1. Latest(s) = r
    BY <1>3 DEF Latest
  <2>2. m \in 1..Len(s) /\ Len(s) - m + 1 = Kept /\ m \in Int
    BY ONLY <1>1, <1>3
  <2> HIDE DEF m
  <2>3. r \in Seq(Urgents) /\ Len(r) = Kept /\ \A i \in 1..Kept : r[i] = s[m + i - 1]
    BY <1>1, <2>2
  <2> HIDE DEF r
  <2>4. /\ \A i \in 1..Kept : m + i - 1 \in 1..Len(s)
        /\ \A i, j \in 1..Kept : m + i - 1 = m + j - 1 => i = j
        /\ Kept <= Kept
    BY ONLY <1>1, <2>2
  <2>5. DOMAIN r = 1..Kept
    BY <2>3
  <2>6. NoneTwice(r)
    <3> SUFFICES ASSUME NEW i \in 1..Kept, NEW j \in 1..Kept, r[i] = r[j] PROVE i = j
      BY <2>3 DEF NoneTwice
    <3>1. s[m + i - 1] = s[m + j - 1]
      BY <2>3
    <3> QED  BY <2>4, <3>1 DEF NoneTwice
  <2>7. SeqSet(r) \subseteq SeqSet(s)
    BY <1>1, <2>3, <2>4, <2>5 DEF SeqSet
  <2> QED  BY <1>3, <2>1, <2>3, <2>4, <2>6, <2>7
<1> QED
  BY <1>2, <1>3

\* Who is handled stays so.
LEMMA HandledGrows ==
    ASSUME Handled \subseteq Handled', raised' \in [Urgents -> 0..2], suppressed' \subseteq Urgents
    PROVE  Cardinality(Handled) > Kept => Cardinality(Handled') > Kept
PROOF
<1>1. IsFiniteSet(Handled') /\ Handled' \subseteq Urgents
  BY AlertAssumption, FS_Subset DEF Handled
<1>2. /\ Cardinality(Handled) <= Cardinality(Handled')
      /\ Cardinality(Handled) \in Nat /\ Cardinality(Handled') \in Nat
  BY <1>1, FS_Subset, FS_CardinalityType
<1>3. Kept \in Nat
  BY AlertAssumption
<1> QED
  BY ONLY <1>2, <1>3

\* Tickets that the page had not seen are added to those it has.
LEMMA MarkSeenKeeps ==
    ASSUME IdsInv, NEW S \in SUBSET Urgents, S \cap Seen = {}, NEW o \in Orders(S), MarkSeen(o)
    PROVE  /\ IdsInv' /\ Seen' = Seen \cup S /\ SeqSet(seenIds') \subseteq SeqSet(seenIds) \cup Seen \cup S
           /\ refused => refused'
PROOF
<1>1. o \in Seq(Urgents) /\ NoneTwice(o) /\ SeqSet(o) = S
  BY OrderLists
<1>2. seenRef \in Seq(Urgents) /\ NoneTwice(seenRef) /\ SeqSet(seenRef) \cap SeqSet(o) = {}
  BY <1>1 DEF IdsInv, Seen
<1>3. seenRef' = seenRef \o o
  BY DEF MarkSeen
<1>4. seenRef' \in Seq(Urgents) /\ NoneTwice(seenRef') /\ SeqSet(seenRef') = SeqSet(seenRef) \cup S
  BY <1>1, <1>2, <1>3, OneBeforeOther
<1>5. /\ Latest(seenRef') \in Seq(Urgents) /\ Len(Latest(seenRef')) <= Kept /\ NoneTwice(Latest(seenRef'))
      /\ SeqSet(Latest(seenRef')) \subseteq SeqSet(seenRef')
  BY <1>4, LatestOf
<1>6. \/ seenIds' = Latest(seenRef') /\ refused' = refused
      \/ seenIds' = seenIds /\ refused' = TRUE
  BY <1>3 DEF MarkSeen
<1>7. /\ seenIds' \in Seq(Urgents) /\ NoneTwice(seenIds') /\ Len(seenIds') <= Kept /\ refused' \in BOOLEAN
      /\ ~refused' => seenIds' = Latest(seenRef')
      /\ SeqSet(seenIds') \subseteq SeqSet(seenIds) \cup SeqSet(seenRef')
      /\ refused => refused'
  BY <1>5, <1>6 DEF IdsInv
<1>8. IdsInv'
  BY <1>4, <1>7 DEF IdsInv, NoneTwice, Latest
<1>9. Seen' = SeqSet(seenRef')
  BY DEF Seen, SeqSet
<1> QED
  BY <1>4, <1>7, <1>8, <1>9 DEF Seen

-----------------------------------------------------------------------------
LEMMA AlertStart == AlertInit => AlertInv
PROOF
<1> SUFFICES ASSUME AlertInit PROVE AlertInv
  OBVIOUS
<1>1. /\ seenIds = <<>> /\ seenRef = <<>> /\ pending = <<>> /\ refused = FALSE
      /\ raised = [t \in Urgents |-> 0] /\ suppressed = {} /\ pushed = {} /\ forgotten = {} /\ alertOps = 0
      /\ urgent = [t \in Urgents |-> "none"] /\ poll = [p \in Polls |-> Idle]
  BY DEF AlertInit
<1>2. /\ <<>> \in Seq(Urgents) /\ Len(<<>>) = 0 /\ NoneTwice(<<>>) /\ SeqSet(<<>>) = {}
      /\ Kept \in Nat /\ Stack \in Nat /\ MaxAlertOps \in Nat
  BY AlertAssumption DEF NoneTwice, SeqSet
<1>21. 0 <= Kept /\ 0 <= Stack
  BY ONLY <1>2
<1>3. Latest(<<>>) = <<>> /\ 0 <= Kept /\ 0 <= Stack
  BY <1>2, <1>21, LatestOf
<1>4. IdsInv
  BY <1>1, <1>2, <1>3 DEF IdsInv
<1>5. StackInv /\ SeenIsAnnounced
  BY <1>1, <1>2, <1>3 DEF StackInv, Seen, SeenIsAnnounced
<1>6. PollsAreTyped
  BY <1>1 DEF PollsAreTyped
<1>7. CountsInv /\ ToldInv /\ RaisedIsOnStack /\ AnnouncedOnce
  BY <1>1, <1>2 DEF CountsInv, ToldInv, RaisedIsOnStack, AnnouncedOnce
<1> QED
  BY <1>4, <1>5, <1>6, <1>7 DEF AlertInv

LEMMA SeenStays ==
    ASSUME AlertInv, UNCHANGED <<seenIds, seenRef, suppressed, forgotten, refused, raised>>
    PROVE  IdsInv' /\ ToldInv' /\ SeenIsAnnounced' /\ AnnouncedOnce' /\ Seen' = Seen
PROOF
<1> USE DEF AlertInv
<1>1. Seen' = Seen /\ Handled' = Handled /\ SeqSet(seenIds)' = SeqSet(seenIds)
  BY DEF Seen, SeqSet, Handled
<1>2. Latest(seenRef)' = Latest(seenRef) /\ NoneTwice(seenRef)' = NoneTwice(seenRef) /\ NoneTwice(seenIds)' = NoneTwice(seenIds)
  BY DEF Latest, NoneTwice
<1>3. IdsInv'
  BY <1>2 DEF IdsInv
<1>4. ToldInv'
  BY <1>1 DEF ToldInv
<1>5. SeenIsAnnounced' /\ AnnouncedOnce'
  BY <1>1 DEF SeenIsAnnounced, AnnouncedOnce
<1> QED
  BY <1>1, <1>3, <1>4, <1>5

LEMMA AlertsStay ==
    ASSUME AlertInv, UNCHANGED <<seenIds, seenRef, suppressed, forgotten, refused, pending, raised, pushed>>
    PROVE  /\ StackInv' /\ IdsInv' /\ ToldInv'
           /\ SeenIsAnnounced' /\ RaisedIsOnStack' /\ AnnouncedOnce'
PROOF
<1> USE DEF AlertInv
<1>1. IdsInv' /\ ToldInv' /\ SeenIsAnnounced' /\ AnnouncedOnce' /\ Seen' = Seen
  BY SeenStays
<1>2. SeqSet(pending)' = SeqSet(pending) /\ NoneTwice(pending)' = NoneTwice(pending)
  BY DEF SeqSet, NoneTwice
<1>3. StackInv'
  BY <1>1, <1>2 DEF StackInv
<1>4. RaisedIsOnStack'
  BY <1>2 DEF RaisedIsOnStack
<1> QED
  BY <1>1, <1>3, <1>4

\* A poll under way changes nothing that is seen, announced or stacked.
LEMMA PollKeeps ==
    ASSUME AlertInv, NEW p \in Polls, StartPoll(p) \/ PollFails(p)
    PROVE  AlertInv'
PROOF
<1> USE DEF AlertInv
<1>1. UNCHANGED <<urgent, seenIds, seenRef, suppressed, forgotten, refused, pending, raised, pushed>>
  BY DEF StartPoll, PollFails, seenVars, alertStack
<1>2. PollsAreTyped'
  BY DEF StartPoll, PollFails, AnsweredPoll, PollsAreTyped
<1>3. alertOps' \in 0..MaxAlertOps
  <2>1. alertOps \in 0..MaxAlertOps /\ MaxAlertOps \in Nat
    BY AlertAssumption DEF CountsInv
  <2>2. CASE StartPoll(p)
    <3>1. alertOps < MaxAlertOps /\ alertOps' = alertOps + 1
      BY <2>2 DEF StartPoll
    <3> QED  BY ONLY <2>1, <3>1
  <2>3. CASE PollFails(p)
    BY <2>3, <2>1 DEF PollFails
  <2> QED  BY <2>2, <2>3
<1>4. CountsInv'
  BY <1>1, <1>3 DEF CountsInv
<1> QED
  BY <1>1, <1>2, <1>4, AlertsStay

LEMMA MovesKeep ==
    ASSUME AlertInv, NEW t \in Urgents, TicketMoves(t)
    PROVE  AlertInv'
PROOF
<1> USE DEF AlertInv
<1>1. /\ UNCHANGED <<poll, seenIds, seenRef, suppressed, forgotten, refused, pending, raised, pushed, alertOps>>
      /\ urgent' = [urgent EXCEPT ![t] = IF urgent[t] = "open" THEN "resolved" ELSE "open"]
  BY DEF TicketMoves, seenVars, alertStack
<1>2. CountsInv' /\ PollsAreTyped'
  BY <1>1 DEF CountsInv, PollsAreTyped
<1> QED
  BY <1>1, <1>2, AlertsStay

\* What an answered poll listed.
LEMMA AnswerOf ==
    ASSUME AlertInv, NEW p \in Polls, poll[p].pc = "answered"
    PROVE  poll[p].open \subseteq Urgents /\ poll[p].resolved \subseteq Urgents
PROOF
<1>1. poll[p] \in {Idle} \cup AnsweredPoll
  BY DEF AlertInv, PollsAreTyped
<1>2. poll[p] \in AnsweredPoll
  BY ONLY <1>1, poll[p].pc = "answered" DEF Idle
<1> QED
  BY <1>2 DEF AnsweredPoll

LEMMA PollOver ==
    ASSUME AlertInv, NEW p \in Polls, poll' = [poll EXCEPT ![p] = Idle]
    PROVE  PollsAreTyped'
PROOF
  BY DEF AlertInv, PollsAreTyped

\* Tickets marked without being announced.
LEMMA MarkKeeps ==
    ASSUME AlertInv, NEW p \in Polls, NEW S \in SUBSET Urgents, S \cap Seen = {},
           \E o \in Orders(S) : MarkSeen(o),
           suppressed' = suppressed \cup S, poll' = [poll EXCEPT ![p] = Idle],
           UNCHANGED <<urgent, forgotten, alertStack, alertOps>>
    PROVE  AlertInv'
PROOF
<1> USE DEF AlertInv
<1>1. UNCHANGED <<urgent, forgotten, pending, raised, pushed, alertOps>>
  BY DEF alertStack
<1>2. /\ IdsInv' /\ Seen' = Seen \cup S /\ SeqSet(seenIds') \subseteq SeqSet(seenIds) \cup Seen \cup S
      /\ refused => refused'
  BY MarkSeenKeeps
<1>3. StackInv'
  BY <1>1, <1>2 DEF StackInv, NoneTwice, SeqSet
<1>4. CountsInv' /\ PollsAreTyped'
  BY <1>1, PollOver DEF CountsInv
<1>5. Handled' = Handled \cup S
  BY <1>1 DEF Handled
<1>6. SeqSet(seenIds)' = SeqSet(seenIds')
  BY DEF SeqSet
<1>7. SeenIsAnnounced'
  BY <1>2, <1>5, <1>6 DEF SeenIsAnnounced
<1>8. RaisedIsOnStack' /\ ToldInv'
  BY <1>1, <1>2 DEF RaisedIsOnStack, SeqSet, ToldInv
<1>9. raised' \in [Urgents -> 0..2] /\ suppressed' \subseteq Urgents
  BY <1>4 DEF CountsInv
<1>10. Cardinality(Handled) > Kept => Cardinality(Handled') > Kept
  BY <1>5, <1>9, HandledGrows
<1>11. AnnouncedOnce'
  BY <1>1, <1>2, <1>10 DEF AnnouncedOnce
<1> QED
  BY <1>2, <1>3, <1>4, <1>7, <1>8, <1>11

LEMMA NothingFreshKeeps ==
    ASSUME AlertInv, NEW p \in Polls, NothingFresh(p)
    PROVE  AlertInv'
PROOF
<1> DEFINE S == poll[p].resolved \ Seen
<1>1. S \in SUBSET Urgents /\ S \cap Seen = {}
  BY AnswerOf DEF NothingFresh
<1>2. /\ \E o \in Orders(S) : MarkSeen(o)
      /\ suppressed' = suppressed \cup S /\ poll' = [poll EXCEPT ![p] = Idle]
      /\ UNCHANGED <<urgent, forgotten, alertStack, alertOps>>
  BY DEF NothingFresh
<1> HIDE DEF S
<1> QED
  BY <1>1, <1>2, MarkKeeps

LEMMA FirstRunKeeps ==
    ASSUME AlertInv, NEW p \in Polls, FirstRun(p)
    PROVE  AlertInv'
PROOF
<1> DEFINE S == Fresh(p)
<1>1. S \in SUBSET Urgents /\ S \cap Seen = {}
  BY AnswerOf DEF FirstRun, Fresh
<1>2. /\ \E o \in Orders(S) : MarkSeen(o)
      /\ suppressed' = suppressed \cup S /\ poll' = [poll EXCEPT ![p] = Idle]
      /\ UNCHANGED <<urgent, forgotten, alertStack, alertOps>>
  BY DEF FirstRun
<1> HIDE DEF S
<1> QED
  BY <1>1, <1>2, MarkKeeps

\* A ticket announced again was forgotten: of the others the page knows that it has seen them.
LEMMA AnnounceKeeps ==
    ASSUME AlertInv, NEW p \in Polls, Announce(p)
    PROVE  AlertInv'
PROOF
<1> USE DEF AlertInv
<1> DEFINE F == poll[p].open \ Seen
<1>1. /\ poll[p].pc = "answered" /\ poll' = [poll EXCEPT ![p] = Idle]
      /\ raised' = [t \in Urgents |-> IF t \in F /\ raised[t] < 2 THEN raised[t] + 1 ELSE raised[t]]
      /\ pushed' = pushed \cup (IF Cardinality(F) > Stack THEN (SeqSet(pending) \cup F) \ SeqSet(pending')
                               ELSE SeqSet(pending) \ SeqSet(pending'))
      /\ UNCHANGED <<urgent, suppressed, forgotten, alertOps>>
  BY DEF Announce, Fresh, Raise
<1>2. PICK order \in Orders(F) : MarkSeen(order) /\ pending' = Top(Reverse(order) \o pending)
  BY DEF Announce, Fresh
<1>3. F \subseteq Urgents /\ F \cap Seen = {}
  BY <1>1, AnswerOf
<1> HIDE DEF F
<1>31. /\ IdsInv' /\ Seen' = Seen \cup F /\ SeqSet(seenIds') \subseteq SeqSet(seenIds) \cup Seen \cup F
       /\ refused => refused'
  BY <1>2, <1>3, MarkSeenKeeps
<1>32. PICK o : o = Reverse(order)
  OBVIOUS
<1>4. o \in Seq(Urgents) /\ Len(o) = Cardinality(F) /\ NoneTwice(o) /\ SeqSet(o) = F
  BY <1>3, <1>32, OrderLists, TurnedRound
<1>5. /\ pending \in Seq(Urgents) /\ NoneTwice(pending) /\ SeqSet(pending) \subseteq Seen
      /\ SeqSet(o) \cap SeqSet(pending) = {}
  BY <1>3, <1>4 DEF StackInv
<1> DEFINE c == o \o pending
<1>6. /\ c \in Seq(Urgents) /\ Len(c) = Len(o) + Len(pending) /\ NoneTwice(c)
      /\ SeqSet(c) = F \cup SeqSet(pending) /\ \A i \in 1..Len(o) : c[i] = o[i]
  BY <1>4, <1>5, OneBeforeOther
<1>7. pending' = Top(c)
  BY <1>2, <1>32
<1> HIDE DEF c
<1>8. /\ pending' \in Seq(Urgents) /\ Len(pending') <= Stack /\ NoneTwice(pending')
      /\ SeqSet(pending') \subseteq F \cup SeqSet(pending)
  BY <1>6, <1>7, TopOf, TopHoldsNoneTwice
<1>9. StackInv'
  BY <1>5, <1>8, <1>31 DEF StackInv, NoneTwice, SeqSet
<1>10. \A t \in Urgents : raised'[t] > 0 => raised[t] > 0 \/ t \in F
  BY <1>1
<1>11. \A t \in F : raised[t] > 0 => t \in forgotten
  BY <1>3 DEF ToldInv
<1>12. \A t \in Urgents : raised[t] \in 0..2
  BY DEF CountsInv
<1>13. /\ raised' \in [Urgents -> 0..2]
       /\ \A t \in F : raised'[t] > 0 /\ (raised'[t] > 1 => raised[t] > 0)
       /\ \A t \in Urgents : t \notin F => raised'[t] = raised[t]
       /\ \A t \in Urgents : raised[t] > 0 => raised'[t] > 0
  BY <1>1, <1>3, <1>12
<1>14. ToldInv'
  BY <1>1, <1>10, <1>31 DEF ToldInv
<1>15. Handled \cup F \subseteq Handled'
  BY <1>1, <1>3, <1>13 DEF Handled
<1>151. SeqSet(seenIds)' = SeqSet(seenIds')
  BY DEF SeqSet
<1>152. SeenIsAnnounced'
  BY <1>15, <1>151, <1>31 DEF SeenIsAnnounced
<1>16. pushed \subseteq Urgents /\ SeqSet(pending) \subseteq Urgents
  BY <1>5 DEF CountsInv, SeqSet
<1>17. CountsInv'
  BY <1>1, <1>3, <1>13, <1>16 DEF CountsInv
<1>171. Cardinality(Handled) > Kept => Cardinality(Handled') > Kept
  BY <1>15, <1>17, HandledGrows DEF CountsInv
<1>172. \A t \in Urgents : raised'[t] > 1 => t \in forgotten
  <2> SUFFICES ASSUME NEW t \in Urgents, raised'[t] > 1 PROVE t \in forgotten
    OBVIOUS
  <2>1. CASE t \in F
    BY <1>11, <1>13, <2>1
  <2>2. CASE t \notin F
    BY <1>13, <2>2 DEF AnnouncedOnce
  <2> QED  BY <2>1, <2>2
<1>173. AnnouncedOnce'
  BY <1>1, <1>31, <1>171, <1>172 DEF AnnouncedOnce
<1>18. SeqSet(pending) \subseteq SeqSet(pending') \cup pushed'
  BY <1>1
<1>19. F \subseteq SeqSet(pending') \cup pushed'
  <2>1. CASE Cardinality(F) > Stack
    BY <1>1, <2>1
  <2>2. CASE ~(Cardinality(F) > Stack)
    <3>1. /\ Len(o) \in Nat /\ Len(pending) \in Nat /\ Stack \in Nat
          /\ ~(Len(o) > Stack) /\ Len(c) = Len(o) + Len(pending)
          /\ Len(pending') = (IF Len(c) < Stack THEN Len(c) ELSE Stack)
      <4>1. Len(pending') = (IF Len(c) < Stack THEN Len(c) ELSE Stack)
        BY <1>6, <1>7, TopOf
      <4>2. Len(o) \in Nat /\ Len(pending) \in Nat /\ Stack \in Nat
        BY <1>4, <1>5, AlertAssumption
      <4> QED  BY <1>4, <1>6, <2>2, <4>1, <4>2
    <3>2. \A i \in 1..Len(o) : i \in 1..Len(pending')
      BY ONLY <3>1
    <3>3. \A i \in 1..Len(pending') : pending'[i] = c[i]
      BY <1>6, <1>7, TopOf
    <3>4. \A i \in 1..Len(o) : pending'[i] = o[i]
      BY <1>6, <3>2, <3>3
    <3>5. DOMAIN o = 1..Len(o) /\ DOMAIN pending' = 1..Len(pending')
      BY <1>4, <1>8
    <3>6. SeqSet(o) \subseteq {pending'[i] : i \in 1..Len(pending')}
      BY <3>2, <3>4, <3>5 DEF SeqSet
    <3> QED  BY <1>4, <3>5, <3>6 DEF SeqSet
  <2> QED  BY <2>1, <2>2
<1>20. RaisedIsOnStack'
  <2> SUFFICES ASSUME NEW t \in Urgents, raised'[t] > 0 PROVE t \in (SeqSet(pending))' \cup pushed'
    BY DEF RaisedIsOnStack
  <2>1. CASE t \in F
    BY <1>19, <2>1 DEF SeqSet
  <2>2. CASE t \notin F
    BY <1>13, <2>2, <1>1, <1>18 DEF RaisedIsOnStack, SeqSet
  <2> QED  BY <2>1, <2>2
<1>21. PollsAreTyped'
  BY <1>1, PollOver
<1> QED
  BY <1>9, <1>14, <1>17, <1>20, <1>21, <1>31, <1>152, <1>173

LEMMA DismissKeeps ==
    ASSUME AlertInv, NEW t \in Urgents, Dismiss(t)
    PROVE  AlertInv'
PROOF
<1> USE DEF AlertInv
<1>1. /\ pushed' = pushed \cup {t}
      /\ UNCHANGED <<urgent, poll, seenIds, seenRef, suppressed, forgotten, refused, raised, alertOps>>
  BY DEF Dismiss, seenVars
<1>2. PICK k \in DOMAIN pending : pending[k] = t /\ pending' = Without(pending, k)
  BY DEF Dismiss
<1>3. pending \in Seq(Urgents) /\ NoneTwice(pending) /\ k \in 1..Len(pending)
  BY <1>2 DEF StackInv
<1>4. /\ pending' \in Seq(Urgents) /\ Len(pending') <= Len(pending) /\ NoneTwice(pending')
      /\ SeqSet(pending') = SeqSet(pending) \ {t}
  BY <1>2, <1>3, WithoutOne
<1>5. Len(pending') <= Stack
  <2>1. Len(pending) <= Stack /\ Len(pending) \in Nat /\ Len(pending') \in Nat /\ Stack \in Nat
    BY <1>3, <1>4, AlertAssumption DEF StackInv
  <2> QED  BY ONLY <1>4, <2>1
<1>50. IdsInv' /\ ToldInv' /\ SeenIsAnnounced' /\ AnnouncedOnce' /\ Seen' = Seen
  BY <1>1, SeenStays
<1>6. StackInv'
  BY <1>4, <1>5, <1>50 DEF StackInv, NoneTwice, SeqSet
<1>7. RaisedIsOnStack'
  BY <1>1, <1>4 DEF RaisedIsOnStack, SeqSet
<1>8. PollsAreTyped' /\ CountsInv'
  BY <1>1 DEF PollsAreTyped, CountsInv
<1> QED
  BY <1>6, <1>7, <1>8, <1>50

\* The page opened again knows the latest ids, unless the browser refused: what it does not know was not among
\* them, so there were more than are kept.
LEMMA RemountKeeps ==
    ASSUME AlertInv, Remount
    PROVE  AlertInv'
PROOF
<1> USE DEF AlertInv
<1>1. /\ alertOps < MaxAlertOps /\ alertOps' = alertOps + 1 /\ pending' = <<>>
      /\ poll' = [p \in Polls |-> Idle] /\ pushed' = pushed \cup SeqSet(pending)
      /\ forgotten' = forgotten \cup (Seen \ SeqSet(seenRef'))
      /\ UNCHANGED <<urgent, seenIds, raised, suppressed>>
  BY DEF Remount
<1>2. pending' \in Seq(Urgents) /\ Len(pending') = 0 /\ SeqSet(pending') = {}
  BY <1>1 DEF SeqSet
<1>3. StackInv'
  BY <1>2, AlertAssumption DEF StackInv, NoneTwice, SeqSet
<1>4. alertOps' \in 0..MaxAlertOps
  <2>1. alertOps \in 0..MaxAlertOps /\ MaxAlertOps \in Nat
    BY AlertAssumption DEF CountsInv
  <2> QED  BY ONLY <1>1, <2>1
<1>5. SeqSet(pending) \subseteq Urgents /\ Seen \subseteq Urgents
  BY DEF StackInv, IdsInv, Seen, SeqSet
<1>6. PollsAreTyped' /\ CountsInv'
  BY <1>1, <1>4, <1>5 DEF PollsAreTyped, CountsInv
<1>7. \/ seenRef' = seenIds /\ refused' = refused
      \/ seenRef' = <<>> /\ refused' = TRUE
  BY DEF Remount
<1>8. Seen' = SeqSet(seenRef') /\ SeqSet(seenIds)' = SeqSet(seenIds)
  BY <1>1 DEF Seen, SeqSet
<1>9. <<>> \in Seq(Urgents) /\ NoneTwice(<<>>) /\ SeqSet(<<>>) = {}
  BY DEF NoneTwice, SeqSet
<1>10. seenRef' \in Seq(Urgents) /\ NoneTwice(seenRef') /\ SeqSet(seenRef') \subseteq SeqSet(seenIds)
  BY <1>7, <1>9 DEF IdsInv
<1>11. Latest(seenIds) = seenIds
  BY LatestOf DEF IdsInv
<1>12. IdsInv'
  <2>1. refused' \in BOOLEAN /\ (~refused' => seenIds' = Latest(seenRef'))
    BY <1>1, <1>7, <1>11 DEF IdsInv
  <2>2. /\ seenIds' \in Seq(Urgents) /\ NoneTwice(seenIds') /\ Len(seenIds') <= Kept
    BY <1>1 DEF IdsInv
  <2> QED  BY <1>10, <2>1, <2>2 DEF IdsInv, NoneTwice, Latest
<1>13. Handled' = Handled
  BY <1>1 DEF Handled
<1>14. SeenIsAnnounced' /\ ToldInv'
  BY <1>1, <1>8, <1>10, <1>13 DEF SeenIsAnnounced, ToldInv
<1>15. RaisedIsOnStack'
  BY <1>1 DEF RaisedIsOnStack, SeqSet
<1>16. forgotten' # {} => refused' \/ Cardinality(Handled) > Kept
  <2> SUFFICES ASSUME forgotten' # {}, ~refused', forgotten = {} PROVE Cardinality(Handled) > Kept
    BY <1>7 DEF AnnouncedOnce
  <2>1. seenRef' = Latest(seenRef) /\ Seen \ SeqSet(seenRef') # {}
    BY <1>1, <1>7 DEF IdsInv
  <2>2. seenRef \in Seq(Urgents) /\ NoneTwice(seenRef)
    BY DEF IdsInv
  <2>3. ~(Len(seenRef) <= Kept)
    BY <2>1, <2>2, LatestOf DEF Seen
  <2>4. Cardinality(Seen) = Len(seenRef)
    BY <2>2, StackIsCounted DEF Seen
  <2>5. Handled \subseteq Urgents /\ Seen \subseteq Handled
    BY DEF Handled, CountsInv, SeenIsAnnounced
  <2>6. IsFiniteSet(Handled)
    BY <2>5, AlertAssumption, FS_Subset
  <2>7. Cardinality(Seen) <= Cardinality(Handled) /\ Cardinality(Handled) \in Nat
    BY <2>5, <2>6, FS_Subset, FS_CardinalityType
  <2>8. Len(seenRef) \in Nat /\ Kept \in Nat
    BY <2>2, AlertAssumption
  <2> QED  BY ONLY <2>3, <2>4, <2>7, <2>8
<1>17. AnnouncedOnce'
  BY <1>1, <1>13, <1>16 DEF AnnouncedOnce
<1> QED
  BY <1>3, <1>6, <1>12, <1>14, <1>15, <1>17

LEMMA AlertStep == AlertInv /\ [AlertNext]_alertVars => AlertInv'
PROOF
<1> SUFFICES ASSUME AlertInv, [AlertNext]_alertVars PROVE AlertInv'
  OBVIOUS
<1>1. CASE UNCHANGED alertVars
  BY <1>1, AlertsStay DEF alertVars, AlertInv, PollsAreTyped, CountsInv
<1>2. CASE AlertNext
  BY <1>2, MovesKeep, DismissKeeps, PollKeeps, NothingFreshKeeps, FirstRunKeeps, AnnounceKeeps, RemountKeeps DEF AlertNext
<1> QED
  BY <1>1, <1>2

LEMMA AlertKeep == AlertInv => AlertTypeOK /\ SeenIsAnnounced /\ RaisedIsOnStack /\ AnnouncedOnce
PROOF
<1> SUFFICES ASSUME AlertInv PROVE AlertTypeOK
  BY DEF AlertInv
<1> USE DEF AlertInv
<1>1. \A s \in {pending, seenIds, seenRef} : s \in Seq(Urgents) /\ Distinct(s)
  BY StackIsCounted DEF StackInv, IdsInv, Distinct
<1>2. {seenIds, seenRef} \subseteq SeenLists /\ Len(seenIds) <= Kept /\ refused \in BOOLEAN
  BY <1>1 DEF SeenLists, IdsInv
<1>3. PendingIsAStack
  BY <1>1 DEF PendingIsAStack, StackInv, Seen
<1>4. poll \in [Polls -> {Idle} \cup [pc : {"answered"}, open : SUBSET Urgents, resolved : SUBSET Urgents]]
  BY DEF PollsAreTyped, AnsweredPoll
<1> QED
  BY <1>2, <1>3, <1>4 DEF AlertTypeOK, CountsInv

-----------------------------------------------------------------------------
(* The requests of a client: the form, the list and the filter.              *)

AskRow == [entry : Articles \cup {NewArticle}, wording : Wordings \ {0}, status : AskStatuses]
Submissions == {NoSubmission}
    \cup [pc : {"sent", "stored", "failed"}, form : AskForms, as : 0..MaxAsks, status : AskFilters]
    \cup [pc : {"reloading"}, by : Fetchers]
FetchLoad == {NotFetching} \cup [pc : {"asked"}, status : AskFilters]
    \cup [pc : {"answered"}, status : AskFilters, asks : SUBSET (1..MaxAsks), entries : SUBSET Articles]

AsksShape ==
    /\ asks \in Seq(AskRow) /\ Len(asks) <= MaxAsks
    /\ approved \subseteq Articles /\ askForm \in AskForms /\ written \in AskForms
    /\ submission \in Submissions
    /\ askNotice \in {"none", "request", "edit"} /\ askFilter \in AskFilters
    /\ shownAsks \in [status : AskFilters, asks : SUBSET (1..MaxAsks), entries : SUBSET Articles]
    /\ fetches \in [Fetchers -> FetchLoad]
    /\ {spinning, hasty, muddled} \subseteq BOOLEAN /\ pageOps \in 0..MaxPageOps

\* A stored submission is the last request; before the page says so, it says nothing.
Sending == submission.pc \in {"sent", "stored", "failed"}
SameWords(ask, words) == ask.entry = words.entry /\ ask.wording = words.wording
SubmissionInv ==
    /\ Sending => askNotice = "none" /\ submission.form.wording # 0
    /\ submission.pc = "stored" =>
         /\ asks # <<>> /\ submission.as = Len(asks)
         /\ SameWords(asks[Len(asks)], submission.form)
    /\ askNotice # "none" => asks # <<>> /\ askNotice = AskKind(asks[Len(asks)])

\* Unless the form was used meanwhile, it holds what is submitted; it is emptied of what is stored.
FormInv ==
    ~hasty => /\ Sending => submission.form = written /\ askForm = written
              /\ askForm = written \/ (/\ askForm.wording = 0
                                       /\ \E i \in DOMAIN asks : SameWords(asks[i], written))

\* Unless loads overlapped, one load is under way at most, in the status that is chosen.
FilterInv ==
    ~muddled => /\ Sending => submission.status = askFilter
                /\ \A k, l \in Fetchers : fetches[k] # NotFetching /\ fetches[l] # NotFetching => k = l
                /\ \A l \in Fetchers : fetches[l] # NotFetching => fetches[l].status = askFilter
                /\ (\A l \in Fetchers : fetches[l] = NotFetching) => shownAsks.status = askFilter

ClientInv == AsksShape /\ SubmissionInv /\ FormInv /\ FilterInv

-----------------------------------------------------------------------------
LEMMA SubmissionTells ==
    ASSUME NEW s \in Submissions
    PROVE  /\ s.pc \in {"idle", "sent", "stored", "failed", "reloading"}
           /\ s = NoSubmission <=> s.pc = "idle"
           /\ s.pc \in {"sent", "stored", "failed"} =>
                /\ s.form \in AskForms /\ s.as \in 0..MaxAsks /\ s.status \in AskFilters
                /\ s = [pc |-> s.pc, form |-> s.form, as |-> s.as, status |-> s.status]
PROOF
  BY DEF Submissions, NoSubmission

LEMMA SubmissionsAre ==
    /\ NoSubmission \in Submissions /\ NoSubmission.pc = "idle"
    /\ \A p \in {"sent", "stored", "failed"}, f \in AskForms, n \in 0..MaxAsks, st \in AskFilters :
         [pc |-> p, form |-> f, as |-> n, status |-> st] \in Submissions
    /\ \A l \in Fetchers : [pc |-> "reloading", by |-> l] \in Submissions
PROOF
  BY DEF Submissions, NoSubmission

LEMMA LoadTells ==
    ASSUME NEW x \in FetchLoad
    PROVE  /\ x.pc \in {"idle", "asked", "answered"}
           /\ x = NotFetching <=> x.pc = "idle"
           /\ x.pc \in {"asked", "answered"} => x.status \in AskFilters
           /\ x.pc = "answered" => x.asks \subseteq 1..MaxAsks /\ x.entries \subseteq Articles
PROOF
  BY DEF FetchLoad, NotFetching

LEMMA LoadsAre ==
    /\ NotFetching \in FetchLoad
    /\ \A st \in AskFilters : [pc |-> "asked", status |-> st] \in FetchLoad
    /\ \A st \in AskFilters, is \in SUBSET (1..MaxAsks), es \in SUBSET Articles :
         [pc |-> "answered", status |-> st, asks |-> is, entries |-> es] \in FetchLoad
PROOF
  BY DEF FetchLoad

\* A form with the entry or the wording changed.
LEMMA FormsAre ==
    /\ EmptyForm \in AskForms /\ EmptyForm.wording = 0
    /\ \A e \in Articles : [entry |-> e, wording |-> 1] \in AskForms
    /\ \A f \in AskForms, w \in Wordings : [f EXCEPT !.wording = w] \in AskForms
    /\ \A f \in AskForms : f.entry \in Articles \cup {NewArticle} /\ f.wording \in Wordings
PROOF
  BY DEF EmptyForm, AskForms, Wordings

LEMMA LastAsk == AsksShape /\ asks # <<>> => Len(asks) \in DOMAIN asks /\ Len(asks) \in Nat \ {0}
PROOF
  BY EmptySeq DEF AsksShape

-----------------------------------------------------------------------------
LEMMA ClientStart == ClientInit => ClientInv
PROOF
<1> SUFFICES ASSUME ClientInit PROVE ClientInv
  OBVIOUS
<1> USE DEF ClientInit
<1>1. PICK l \in Fetchers :
        fetches = [m \in Fetchers |-> IF m = l THEN [pc |-> "asked", status |-> "all"] ELSE NotFetching]
  OBVIOUS
<1>2. "all" \in AskFilters /\ asks \in Seq(AskRow) /\ Len(asks) = 0 /\ MaxAsks \in Nat /\ MaxPageOps \in Nat
  BY ArticleAssumption DEF AskFilters
<1>3. fetches \in [Fetchers -> FetchLoad]
  BY <1>1, <1>2, LoadsAre
<1>4. AsksShape
  <2>1. Len(asks) <= MaxAsks /\ pageOps \in 0..MaxPageOps
    BY <1>2
  <2>2. shownAsks \in [status : AskFilters, asks : SUBSET (1..MaxAsks), entries : SUBSET Articles]
    BY <1>2
  <2> QED  BY <1>2, <1>3, <2>1, <2>2, FormsAre, SubmissionsAre DEF AsksShape
<1>5. ~Sending /\ submission.pc # "stored"
  BY SubmissionsAre DEF Sending
<1>6. SubmissionInv /\ FormInv
  BY <1>5 DEF SubmissionInv, FormInv
<1>7. FilterInv
  BY <1>1, <1>5 DEF FilterInv
<1> QED
  BY <1>4, <1>6, <1>7 DEF ClientInv

LEMMA ClientKeep ==
    ClientInv => ClientTypeOK /\ ShownFitsFilter /\ StoredIsAsSubmitted /\ NoticeIsTrue /\ WordsAreKept
PROOF
<1> SUFFICES ASSUME ClientInv
             PROVE  ClientTypeOK /\ ShownFitsFilter /\ StoredIsAsSubmitted /\ NoticeIsTrue /\ WordsAreKept
  OBVIOUS
<1> USE DEF ClientInv
<1>1. ClientTypeOK
  BY DEF AsksShape, Submissions, FetchLoad, ClientTypeOK, AskRow
<1>2. ShownFitsFilter
  BY DEF ShownFitsFilter, Fetching, FilterInv
<1>3. StoredIsAsSubmitted /\ NoticeIsTrue
  BY DEF StoredIsAsSubmitted, NoticeIsTrue, SubmissionInv, SameWords
<1>4. WordsAreKept
  <2>1. ASSUME NEW i \in DOMAIN asks, SameWords(asks[i], written)
        PROVE  [asks[i] EXCEPT !.status = "any"]
                 = [entry |-> written.entry, wording |-> written.wording, status |-> "any"]
    <3>1. asks[i] \in AskRow
      BY <2>1 DEF AsksShape
    <3> QED  BY <2>1, <3>1 DEF AskRow, SameWords
  <2> QED  BY <2>1 DEF WordsAreKept, FormInv
<1> QED
  BY <1>1, <1>2, <1>3, <1>4

-----------------------------------------------------------------------------
\* The form is used.
LEMMA FormIsUsed ==
    ASSUME ClientInv, NEW f \in AskForms, UseForm(f), askNotice' \in {askNotice, "none"}
    PROVE  ClientInv'
PROOF
<1> USE DEF ClientInv
<1>1. /\ pageOps < MaxPageOps /\ pageOps' = pageOps + 1 /\ askForm' = f /\ written' = f
      /\ hasty' = (hasty \/ Submitting)
      /\ UNCHANGED <<asks, approved, submission, askFilter, shownAsks, fetches, spinning, muddled>>
  BY DEF UseForm, PageClick, askService, askPage
<1>2. pageOps' \in 0..MaxPageOps
  BY <1>1, ArticleAssumption DEF AsksShape
<1>3. AsksShape'
  BY <1>1, <1>2 DEF AsksShape
<1>4. Sending' = Sending
  BY <1>1 DEF Sending
<1>5. SubmissionInv' /\ FilterInv'
  BY <1>1, <1>4 DEF SubmissionInv, FilterInv
<1>6. ~hasty' => ~Sending
  BY <1>1, SubmissionsAre DEF Submitting, Sending
<1>7. FormInv'
  BY <1>1, <1>4, <1>6 DEF FormInv
<1> QED
  BY <1>3, <1>5, <1>7

LEMMA FormIsFilled ==
    ASSUME ClientInv, (\E w \in Wordings : TypeForm(w)) \/ (\E e \in Articles : SelectEdit(e)) \/ ResetForm
    PROVE  ClientInv'
PROOF
<1>1. ASSUME NEW w \in Wordings, TypeForm(w) PROVE ClientInv'
  BY FormsAre, <1>1, FormIsUsed DEF ClientInv, AsksShape, TypeForm
<1>2. ASSUME NEW e \in Articles, SelectEdit(e) PROVE ClientInv'
  BY FormsAre, <1>2, FormIsUsed DEF SelectEdit
<1>3. ASSUME ResetForm PROVE ClientInv'
  BY <1>3, FormsAre, FormIsUsed DEF ResetForm
<1> QED
  BY <1>1, <1>2, <1>3

\* A request is sent, stored or refused.
LEMMA RequestIsSent == ASSUME ClientInv, HandleRequest PROVE ClientInv'
PROOF
<1> USE DEF ClientInv
<1> DEFINE s == [pc |-> "sent", form |-> askForm, as |-> 0, status |-> askFilter]
<1>1. /\ pageOps < MaxPageOps /\ pageOps' = pageOps + 1 /\ submission = NoSubmission /\ askNotice' = "none"
      /\ submission' = IF askForm.wording = 0 THEN NoSubmission ELSE s
      /\ UNCHANGED <<asks, approved, askForm, written, hasty, askFilter, shownAsks, fetches, spinning, muddled>>
  BY DEF HandleRequest, PageClick, Submitting, askService, askFormVars, askPage
<1>2. pageOps' \in 0..MaxPageOps /\ 0 \in 0..MaxAsks
  BY <1>1, ArticleAssumption DEF AsksShape
<1>3. s \in Submissions /\ s.pc = "sent" /\ s.form = askForm /\ s.status = askFilter
  BY <1>2, SubmissionsAre DEF AsksShape
<1> HIDE DEF s
<1>4. AsksShape'
  BY <1>1, <1>2, <1>3, SubmissionsAre DEF AsksShape
<1>5. SubmissionInv'
  BY <1>1, <1>3, <1>4, SubmissionsAre DEF SubmissionInv, Sending
<1>6. FormInv'
  BY <1>1, <1>3, SubmissionsAre DEF FormInv, Sending
<1>7. FilterInv'
  BY <1>1, <1>3, SubmissionsAre DEF FilterInv, Sending
<1> QED
  BY <1>4, <1>5, <1>6, <1>7

LEMMA RequestIsStored == ASSUME ClientInv, StoreRequest PROVE ClientInv'
PROOF
<1> USE DEF ClientInv
<1> DEFINE row == [entry |-> submission.form.entry, wording |-> submission.form.wording, status |-> "submitted"]
           s == [pc |-> "stored", form |-> submission.form, as |-> Len(asks) + 1, status |-> submission.status]
<1>1. /\ submission.pc = "sent" /\ Len(asks) < MaxAsks /\ asks' = Append(asks, row)
      /\ submission' = [submission EXCEPT !.pc = "stored", !.as = Len(asks) + 1]
      /\ UNCHANGED <<approved, askForm, written, hasty, askNotice, askFilter, shownAsks, fetches, spinning,
                     muddled, pageOps>>
  BY DEF StoreRequest, askFormVars, askPage
<1>2. /\ submission.form \in AskForms /\ submission.as \in 0..MaxAsks /\ submission.status \in AskFilters
      /\ submission = [pc |-> submission.pc, form |-> submission.form, as |-> submission.as,
                       status |-> submission.status]
      /\ submission.form.wording # 0 /\ askNotice = "none"
  BY <1>1, SubmissionTells DEF AsksShape, SubmissionInv, Sending
<1>3. Len(asks) \in Nat /\ MaxAsks \in Nat /\ Len(asks) + 1 \in 0..MaxAsks
  BY ArticleAssumption, <1>1 DEF AsksShape
<1>4. row \in AskRow
  BY <1>2, FormsAre DEF AskRow, AskStatuses
<1>5. SameWords(row, submission.form)
  BY DEF SameWords
<1>6. submission' = s
  BY <1>1, <1>2
<1>7. s \in Submissions /\ s.pc = "stored" /\ s.form = submission.form /\ s.as = Len(asks) + 1
      /\ s.status = submission.status
  BY <1>2, <1>3, SubmissionsAre
<1> HIDE DEF row, s
<1>8. /\ asks' \in Seq(AskRow) /\ Len(asks') = Len(asks) + 1 /\ asks'[Len(asks) + 1] = row /\ asks' # <<>>
      /\ DOMAIN asks \subseteq DOMAIN asks' /\ \A i \in DOMAIN asks : asks'[i] = asks[i]
  BY <1>1, <1>3, <1>4, AppendProperties, EmptySeq DEF AsksShape
<1>9. AsksShape'
  BY <1>1, <1>3, <1>6, <1>7, <1>8 DEF AsksShape
<1>10. SubmissionInv'
  BY <1>1, <1>2, <1>5, <1>6, <1>7, <1>8 DEF SubmissionInv, Sending
<1>11. FormInv'
  BY <1>1, <1>6, <1>7, <1>8 DEF FormInv, Sending
<1>12. FilterInv'
  BY <1>1, <1>6, <1>7 DEF FilterInv, Sending
<1> QED
  BY <1>9, <1>10, <1>11, <1>12

LEMMA RequestIsRefused == ASSUME ClientInv, RefuseRequest PROVE ClientInv'
PROOF
<1> USE DEF ClientInv
<1> DEFINE s == [pc |-> "failed", form |-> submission.form, as |-> submission.as, status |-> submission.status]
<1>1. /\ submission.pc = "sent" /\ submission' = [submission EXCEPT !.pc = "failed"]
      /\ UNCHANGED <<asks, approved, askForm, written, hasty, askNotice, askFilter, shownAsks, fetches, spinning,
                     muddled, pageOps>>
  BY DEF RefuseRequest, askService, askFormVars, askPage
<1>2. /\ submission.form \in AskForms /\ submission.as \in 0..MaxAsks /\ submission.status \in AskFilters
      /\ submission = [pc |-> submission.pc, form |-> submission.form, as |-> submission.as,
                       status |-> submission.status]
  BY <1>1, SubmissionTells DEF AsksShape
<1>3. submission' = s
  BY <1>1, <1>2
<1>4. s \in Submissions /\ s.pc = "failed" /\ s.form = submission.form /\ s.status = submission.status
  BY <1>2, SubmissionsAre
<1> HIDE DEF s
<1>5. AsksShape'
  BY <1>1, <1>3, <1>4 DEF AsksShape
<1>6. SubmissionInv' /\ FormInv' /\ FilterInv'
  BY <1>1, <1>3, <1>4 DEF SubmissionInv, FormInv, FilterInv, Sending
<1> QED
  BY <1>5, <1>6

LEMMA FailureIsSaid == ASSUME ClientInv, SayFailed PROVE ClientInv'
PROOF
  BY SubmissionsAre DEF ClientInv, SayFailed, askService, askFormVars, askPage, AsksShape, SubmissionInv, FormInv,
     FilterInv, Sending

-----------------------------------------------------------------------------
\* A load begins.
LEMMA FetchBegins ==
    ASSUME ClientInv, NEW l \in Fetchers, NEW st \in AskFilters, Load(l, st)
    PROVE  /\ fetches' \in [Fetchers -> FetchLoad] /\ spinning' \in BOOLEAN
           /\ fetches'[l] # NotFetching /\ fetches'[l].status = st
           /\ ~Fetching => \A m \in Fetchers : m # l => fetches'[m] = NotFetching
PROOF
<1> USE DEF ClientInv
<1> DEFINE x == [pc |-> "asked", status |-> st]
<1>1. fetches' = [fetches EXCEPT ![l] = x] /\ spinning' = TRUE
  BY DEF Load
<1>2. x \in FetchLoad /\ x.pc = "asked" /\ x.status = st
  BY LoadsAre
<1>3. x # NotFetching
  BY <1>2 DEF NotFetching
<1> HIDE DEF x
<1> QED
  BY <1>1, <1>2, <1>3 DEF AsksShape, Fetching

LEMMA StoredIsSaid == ASSUME ClientInv, NEW l \in Fetchers, SayStored(l) PROVE ClientInv'
PROOF
<1> USE DEF ClientInv
<1> DEFINE s == [pc |-> "reloading", by |-> l]
<1>1. /\ submission.pc = "stored" /\ Load(l, submission.status)
      /\ askNotice' = AskKind(submission.form) /\ askForm' = EmptyForm
      /\ muddled' = (muddled \/ Fetching) /\ submission' = s
      /\ UNCHANGED <<asks, approved, written, hasty, askFilter, shownAsks, pageOps>>
  BY DEF SayStored, askService
<1>2. submission.status \in AskFilters /\ submission.form \in AskForms /\ Sending
  BY <1>1, SubmissionTells DEF AsksShape, Sending
<1>3. PICK st \in AskFilters : st = submission.status
  BY <1>2
<1>4. /\ fetches' \in [Fetchers -> FetchLoad] /\ spinning' \in BOOLEAN
      /\ fetches'[l] # NotFetching /\ fetches'[l].status = st
      /\ ~Fetching => \A m \in Fetchers : m # l => fetches'[m] = NotFetching
  BY <1>1, <1>3, FetchBegins
<1>5. s \in Submissions /\ s.pc = "reloading"
  BY SubmissionsAre
<1> HIDE DEF s
<1>6. AskKind(submission.form) \in {"request", "edit"}
  BY DEF AskKind
<1>7. AsksShape'
  BY <1>1, <1>4, <1>5, <1>6, FormsAre DEF AsksShape
<1>8. /\ asks # <<>> /\ SameWords(asks[Len(asks)], submission.form)
  BY <1>1 DEF SubmissionInv
<1>9. AskKind(submission.form) = AskKind(asks[Len(asks)])
  BY <1>8 DEF AskKind, SameWords
<1>10. SubmissionInv'
  BY <1>1, <1>5, <1>8, <1>9 DEF SubmissionInv, Sending
<1>11. FormInv'
  BY <1>8, LastAsk, <1>1, <1>2, <1>5, FormsAre DEF FormInv, Sending
<1>12. FilterInv'
  BY <1>1, <1>2, <1>3, <1>4, <1>5 DEF FilterInv, Sending
<1> QED
  BY <1>7, <1>10, <1>11, <1>12

LEMMA PageIsRefreshed == ASSUME ClientInv, NEW l \in Fetchers, RefreshPage(l) PROVE ClientInv'
PROOF
<1> USE DEF ClientInv
<1>1. /\ pageOps < MaxPageOps /\ pageOps' = pageOps + 1 /\ Load(l, askFilter) /\ muddled' = (muddled \/ Fetching)
      /\ UNCHANGED <<asks, approved, askForm, written, hasty, submission, askNotice, askFilter, shownAsks>>
  BY DEF RefreshPage, PageClick, askService, askFormVars
<1>2. PICK st \in AskFilters : st = askFilter
  BY DEF AsksShape
<1>3. /\ fetches' \in [Fetchers -> FetchLoad] /\ spinning' \in BOOLEAN
      /\ fetches'[l] # NotFetching /\ fetches'[l].status = st
      /\ ~Fetching => \A m \in Fetchers : m # l => fetches'[m] = NotFetching
  BY <1>1, <1>2, FetchBegins
<1>4. pageOps' \in 0..MaxPageOps
  BY <1>1, ArticleAssumption DEF AsksShape
<1>5. AsksShape'
  BY <1>1, <1>3, <1>4 DEF AsksShape
<1>6. SubmissionInv' /\ FormInv'
  BY <1>1 DEF SubmissionInv, FormInv, Sending
<1>7. FilterInv'
  BY <1>1, <1>2, <1>3 DEF FilterInv, Sending
<1> QED
  BY <1>5, <1>6, <1>7

LEMMA StatusIsChosen == ASSUME ClientInv, NEW l \in Fetchers, NEW f \in AskFilters, SetRequestStatus(l, f) PROVE ClientInv'
PROOF
<1> USE DEF ClientInv
<1>1. /\ pageOps < MaxPageOps /\ pageOps' = pageOps + 1 /\ Load(l, f) /\ askFilter' = f
      /\ muddled' = (muddled \/ Fetching \/ Submitting)
      /\ UNCHANGED <<asks, approved, askForm, written, hasty, submission, askNotice, shownAsks>>
  BY DEF SetRequestStatus, PageClick, askService, askFormVars
<1>2. /\ fetches' \in [Fetchers -> FetchLoad] /\ spinning' \in BOOLEAN
      /\ fetches'[l] # NotFetching /\ fetches'[l].status = f
      /\ ~Fetching => \A m \in Fetchers : m # l => fetches'[m] = NotFetching
  BY <1>1, FetchBegins
<1>3. pageOps' \in 0..MaxPageOps
  BY <1>1, ArticleAssumption DEF AsksShape
<1>4. AsksShape'
  BY <1>1, <1>2, <1>3 DEF AsksShape
<1>5. SubmissionInv' /\ FormInv'
  BY <1>1 DEF SubmissionInv, FormInv, Sending
<1>6. ~muddled' => ~Sending
  BY <1>1, SubmissionsAre DEF Submitting, Sending
<1>7. FilterInv'
  BY <1>1, <1>2, <1>6 DEF FilterInv, Sending
<1> QED
  BY <1>4, <1>5, <1>7

-----------------------------------------------------------------------------
\* The team publishes a request or withdraws an entry.
LEMMA RequestHasMoved == ASSUME ClientInv, NEW i \in 1..MaxAsks, RequestMoves(i) PROVE ClientInv'
PROOF
<1> USE DEF ClientInv
<1> DEFINE row == [asks[i] EXCEPT !.status = "published"]
<1>1. /\ i \in DOMAIN asks /\ asks' = [asks EXCEPT ![i] = row]
      /\ UNCHANGED <<approved, askForm, written, hasty, submission, askNotice, askFilter, shownAsks, fetches,
                     spinning, muddled, pageOps>>
  BY DEF RequestMoves, askFormVars, askPage
<1>2. asks \in Seq(AskRow) /\ asks[i] \in AskRow
  BY <1>1 DEF AsksShape
<1>3. row \in AskRow /\ row.entry = asks[i].entry /\ row.wording = asks[i].wording
  BY <1>2 DEF AskRow, AskStatuses
<1> HIDE DEF row
<1>4. asks' \in Seq(AskRow) /\ Len(asks') = Len(asks) /\ DOMAIN asks' = DOMAIN asks
      /\ (asks' # <<>> <=> asks # <<>>)
  BY <1>1, <1>2, <1>3, ExceptSeq, EmptySeq
<1>5. \A j \in DOMAIN asks : asks'[j].entry = asks[j].entry /\ asks'[j].wording = asks[j].wording
  BY <1>1, <1>3
<1>6. AsksShape'
  BY <1>1, <1>4 DEF AsksShape
<1>7. \A j \in DOMAIN asks : AskKind(asks'[j]) = AskKind(asks[j])
  BY <1>5 DEF AskKind
<1>8. SubmissionInv'
  BY <1>1, <1>4, <1>5, <1>7, LastAsk DEF SubmissionInv, Sending, SameWords
<1>9. FormInv' /\ FilterInv'
  BY <1>1, <1>4, <1>5 DEF FormInv, FilterInv, Sending, SameWords
<1> QED
  BY <1>6, <1>8, <1>9

LEMMA EntryIsWithdrawn == ASSUME ClientInv, NEW e \in Articles, EntryWithdrawn(e) PROVE ClientInv'
PROOF
  BY DEF ClientInv, EntryWithdrawn, askFormVars, askPage, AsksShape, SubmissionInv, FormInv, FilterInv, Sending

-----------------------------------------------------------------------------
\* A load is answered with what is stored; it is shown, or it fails.
LEMMA FetchIsAnswered == ASSUME ClientInv, NEW l \in Fetchers, AnswerFetch(l) PROVE ClientInv'
PROOF
<1> USE DEF ClientInv
<1> DEFINE st == fetches[l].status
           x == [pc |-> "answered", status |-> st, asks |-> InStatus(st), entries |-> approved]
<1>1. /\ fetches[l].pc = "asked" /\ fetches' = [fetches EXCEPT ![l] = x]
      /\ UNCHANGED <<asks, approved, askForm, written, hasty, submission, askNotice, askFilter, shownAsks,
                     spinning, muddled, pageOps>>
  BY DEF AnswerFetch, askService, askFormVars
<1>2. st \in AskFilters /\ fetches[l] # NotFetching
  BY <1>1, LoadTells DEF AsksShape
<1>3. InStatus(st) \subseteq 1..MaxAsks
  BY ArticleAssumption DEF AsksShape, InStatus
<1>4. x \in FetchLoad /\ x.pc = "answered" /\ x.status = st
  BY <1>2, <1>3, LoadsAre DEF AsksShape
<1>5. x # NotFetching
  BY <1>4 DEF NotFetching
<1> HIDE DEF x
<1>6. AsksShape'
  BY <1>1, <1>4 DEF AsksShape
<1>7. SubmissionInv' /\ FormInv'
  BY <1>1 DEF SubmissionInv, FormInv, Sending
<1>8. FilterInv'
  BY <1>1, <1>2, <1>4, <1>5 DEF FilterInv, Sending, AsksShape
<1> QED
  BY <1>6, <1>7, <1>8

LEMMA FetchIsOver ==
    ASSUME ClientInv, NEW l \in Fetchers, EndFetch(l),
           shownAsks' \in [status : AskFilters, asks : SUBSET (1..MaxAsks), entries : SUBSET Articles],
           muddled' \in BOOLEAN,
           muddled' \/ (muddled' = muddled /\ fetches[l] # NotFetching /\ shownAsks'.status = fetches[l].status)
    PROVE  ClientInv'
PROOF
<1> USE DEF ClientInv
<1>1. /\ fetches' = [fetches EXCEPT ![l] = NotFetching] /\ spinning' = FALSE
      /\ submission' = IF submission = [pc |-> "reloading", by |-> l] THEN NoSubmission ELSE submission
      /\ UNCHANGED <<asks, approved, askForm, written, hasty, askNotice, askFilter, pageOps>>
  BY DEF EndFetch, askService, askFormVars
<1>2. submission' \in Submissions /\ (submission' = submission \/ submission' = NoSubmission)
  BY <1>1, SubmissionsAre DEF AsksShape
<1>3. Sending' => Sending /\ submission' = submission
  BY <1>2, SubmissionsAre DEF Sending
<1>4. AsksShape'
  BY <1>1, <1>2, LoadsAre DEF AsksShape
<1>5. SubmissionInv'
  BY <1>2, SubmissionsAre, <1>1, <1>3 DEF SubmissionInv
<1>6. FormInv'
  BY <1>1, <1>3 DEF FormInv
<1>7. FilterInv'
  BY <1>1, <1>3 DEF FilterInv, AsksShape
<1> QED
  BY <1>4, <1>5, <1>6, <1>7

LEMMA FetchIsShown == ASSUME ClientInv, NEW l \in Fetchers, ShowKnowledge(l) \/ FetchFails(l) PROVE ClientInv'
PROOF
<1>1. ASSUME ShowKnowledge(l) PROVE ClientInv'
  <2> DEFINE x == [status |-> fetches[l].status, asks |-> fetches[l].asks, entries |-> fetches[l].entries]
  <2>1. fetches[l] \in FetchLoad /\ fetches[l].pc = "answered" /\ muddled \in BOOLEAN
    BY <1>1 DEF ShowKnowledge, ClientInv, AsksShape
  <2>2. x \in [status : AskFilters, asks : SUBSET (1..MaxAsks), entries : SUBSET Articles]
        /\ x.status = fetches[l].status /\ fetches[l] # NotFetching
    BY <2>1, LoadTells
  <2>3. EndFetch(l) /\ muddled' = muddled /\ shownAsks' = x
    BY <1>1 DEF ShowKnowledge
  <2> QED  BY <2>1, <2>2, <2>3, FetchIsOver
<1>2. ASSUME FetchFails(l) PROVE ClientInv'
  BY <1>2, FetchIsOver DEF FetchFails, ClientInv, AsksShape
<1> QED
  BY <1>1, <1>2

LEMMA ClientStep == ClientInv /\ [ClientNext]_clientVars => ClientInv'
PROOF
<1> SUFFICES ASSUME ClientInv, [ClientNext]_clientVars PROVE ClientInv'
  OBVIOUS
<1>1. CASE UNCHANGED clientVars
  BY <1>1 DEF clientVars, ClientInv, AsksShape, SubmissionInv, FormInv, FilterInv, Sending
<1>2. ASSUME NEW l \in Fetchers,
             SayStored(l) \/ RefreshPage(l) \/ AnswerFetch(l) \/ ShowKnowledge(l) \/ FetchFails(l)
             \/ \E f \in AskFilters : SetRequestStatus(l, f)
      PROVE  ClientInv'
  BY <1>2, StoredIsSaid, PageIsRefreshed, FetchIsAnswered, FetchIsShown, StatusIsChosen
<1>3. ASSUME \E e \in Articles : EntryWithdrawn(e) PROVE ClientInv'
  BY <1>3, EntryIsWithdrawn
<1>4. ASSUME \E i \in 1..MaxAsks : RequestMoves(i) PROVE ClientInv'
  BY <1>4, RequestHasMoved
<1> QED
  BY <1>1, <1>2, <1>3, <1>4, FormIsFilled, RequestIsSent, RequestIsStored, RequestIsRefused, FailureIsSaid
     DEF ClientNext

-----------------------------------------------------------------------------
(* The calibration queue: the ranking, and the list under a filter.          *)

\* What a ranking is, and what of a set is over an element of it.
Ranks(R, S) ==
    /\ \A c \in S : <<c, c>> \notin R
    /\ \A c, d \in S : c = d \/ <<c, d>> \in R \/ <<d, c>> \in R
    /\ \A c, d, e \in S : <<c, d>> \in R /\ <<d, e>> \in R => <<c, e>> \in R
Over(R, S, c) == {d \in S : <<d, c>> \in R}
Tops(R, S, n) == {c \in S : Cardinality(Over(R, S, c)) < n}

LEMMA LeastNumber ==
    ASSUME NEW N \in SUBSET Nat, N # {}
    PROVE  \E n \in N : \A k \in N : n <= k
PROOF
<1>1. \E i \in N : \A k \in N : <<k, i>> \notin OpToRel(<, Nat)
  BY NatLessThanWellFounded, WFMin
<1>2. PICK i \in N : \A k \in N : <<k, i>> \notin OpToRel(<, Nat)
  BY <1>1
<1>3. \A k \in N : k \in Nat /\ i \in Nat /\ ~(k < i)
  BY <1>2 DEF OpToRel
<1> QED
  BY <1>3

LEMMA OverIsFinite ==
    ASSUME NEW S, IsFiniteSet(S), NEW R, NEW c
    PROVE  IsFiniteSet(Over(R, S, c)) /\ Cardinality(Over(R, S, c)) \in Nat
PROOF
  BY FS_Subset, FS_CardinalityType DEF Over

\* What is over another has less over it.
LEMMA HigherHasLess ==
    ASSUME NEW S, IsFiniteSet(S), NEW R, Ranks(R, S), NEW c \in S, NEW d \in S, <<d, c>> \in R
    PROVE  Cardinality(Over(R, S, d)) < Cardinality(Over(R, S, c))
PROOF
<1>1. Over(R, S, d) \subseteq Over(R, S, c) /\ d \in Over(R, S, c) /\ d \notin Over(R, S, d)
  BY DEF Over, Ranks
<1>2. IsFiniteSet(Over(R, S, c)) /\ Cardinality(Over(R, S, c)) \in Nat /\ Cardinality(Over(R, S, d)) \in Nat
  BY OverIsFinite
<1>3. /\ Cardinality(Over(R, S, d)) <= Cardinality(Over(R, S, c))
      /\ Cardinality(Over(R, S, c)) = Cardinality(Over(R, S, d)) => Over(R, S, c) = Over(R, S, d)
  BY <1>1, <1>2, FS_Subset
<1>4. Cardinality(Over(R, S, d)) # Cardinality(Over(R, S, c))
  BY <1>1, <1>3
<1> QED
  BY ONLY <1>2, <1>3, <1>4

LEMMA TopExists ==
    ASSUME NEW S, IsFiniteSet(S), S # {}, NEW R, Ranks(R, S)
    PROVE  \E c \in S : Over(R, S, c) = {}
PROOF
<1> DEFINE N == {Cardinality(Over(R, S, c)) : c \in S}
<1>1. N \in SUBSET Nat /\ N # {}
  BY OverIsFinite
<1>2. PICK n \in N : \A k \in N : n <= k
  BY <1>1, LeastNumber
<1>3. PICK c \in S : n = Cardinality(Over(R, S, c))
  BY <1>2
<1>4. ASSUME NEW d \in Over(R, S, c) PROVE FALSE
  <2>1. d \in S /\ <<d, c>> \in R
    BY DEF Over
  <2>2. Cardinality(Over(R, S, d)) < n
    BY <1>3, <2>1, HigherHasLess
  <2>3. n <= Cardinality(Over(R, S, d)) /\ n \in Nat /\ Cardinality(Over(R, S, d)) \in Nat
    BY <1>1, <1>2, <2>1, OverIsFinite
  <2> QED
    BY ONLY <2>2, <2>3
<1> QED
  BY <1>4

\* Of those that have fewer than n over them there are at most n.
LEMMA TopsAreFew ==
    ASSUME NEW S, IsFiniteSet(S), NEW R, Ranks(R, S), NEW n \in Nat
    PROVE  IsFiniteSet(Tops(R, S, n)) /\ Cardinality(Tops(R, S, n)) \in Nat /\ Cardinality(Tops(R, S, n)) <= n
PROOF
<1> DEFINE T == Tops(R, S, n)
<1>1. T \subseteq S
  BY DEF Tops
<1>2. IsFiniteSet(T) /\ Cardinality(T) \in Nat
  BY <1>1, FS_Subset, FS_CardinalityType
<1>3. CASE T = {}
  BY <1>2, <1>3, FS_EmptySet
<1>4. CASE T # {}
  <2> DEFINE P == {e \in T \X T : <<e[2], e[1]>> \in R}
  <2>1. Ranks(P, T)
    BY <1>1 DEF Ranks
  <2>2. PICK c \in T : Over(P, T, c) = {}
    BY <1>2, <1>4, <2>1, TopExists
  <2>3. \A d \in T : <<c, d>> \notin R
    BY <2>2 DEF Over
  <2>4. T \ {c} \subseteq Over(R, S, c)
    BY <1>1, <2>3 DEF Over, Ranks
  <2>5. Cardinality(T \ {c}) = Cardinality(T) - 1
    BY <1>2, FS_RemoveElement
  <2>6. IsFiniteSet(Over(R, S, c)) /\ Cardinality(Over(R, S, c)) \in Nat /\ Cardinality(Over(R, S, c)) < n
    BY OverIsFinite DEF Tops
  <2>7. Cardinality(T \ {c}) <= Cardinality(Over(R, S, c))
    BY <2>4, <2>6, FS_Subset
  <2>8. Cardinality(T) <= n
    BY ONLY <1>2, <2>5, <2>6, <2>7, n \in Nat
  <2> QED
    BY <1>2, <2>8
<1> QED
  BY <1>3, <1>4

\* They are all of S if S has no more than n, and some if S has any.
LEMMA TopsAreAll ==
    ASSUME NEW S, IsFiniteSet(S), NEW R, Ranks(R, S), NEW n \in Nat, Cardinality(S) <= n
    PROVE  Tops(R, S, n) = S
PROOF
<1>1. SUFFICES ASSUME NEW c \in S PROVE Cardinality(Over(R, S, c)) < n
  BY DEF Tops
<1>2. Over(R, S, c) \subseteq S /\ c \notin Over(R, S, c)
  BY DEF Over, Ranks
<1>3. /\ Cardinality(Over(R, S, c)) <= Cardinality(S)
      /\ Cardinality(S) = Cardinality(Over(R, S, c)) => S = Over(R, S, c)
  BY <1>2, FS_Subset
<1>4. Cardinality(Over(R, S, c)) # Cardinality(S)
  BY <1>2, <1>3
<1>5. Cardinality(S) \in Nat /\ Cardinality(Over(R, S, c)) \in Nat
  BY FS_CardinalityType, OverIsFinite
<1> QED
  BY ONLY <1>3, <1>4, <1>5, n \in Nat, Cardinality(S) <= n

\* Who is in is over who is out.
LEMMA TopsAreOver ==
    ASSUME NEW S, IsFiniteSet(S), NEW R, Ranks(R, S), NEW n \in Nat,
           NEW c \in Tops(R, S, n), NEW d \in S \ Tops(R, S, n)
    PROVE  <<c, d>> \in R
PROOF
<1>1. c \in S /\ Cardinality(Over(R, S, c)) < n /\ ~(Cardinality(Over(R, S, d)) < n) /\ c # d
  BY DEF Tops
<1>2. CASE <<d, c>> \in R
  <2>1. Cardinality(Over(R, S, d)) < Cardinality(Over(R, S, c))
    BY <1>1, <1>2, HigherHasLess
  <2>2. Cardinality(Over(R, S, d)) \in Nat /\ Cardinality(Over(R, S, c)) \in Nat
    BY OverIsFinite
  <2> QED
    BY ONLY <1>1, <2>1, <2>2, n \in Nat
<1> QED
  BY <1>1, <1>2 DEF Ranks

-----------------------------------------------------------------------------
QaLoad == {NotLoading} \cup [pc : {"asked"}, filter : QaFilters]
    \cup {e \in [pc : {"answered"}, list : SUBSET QaCopies] : Cardinality(e.list) <= QueueLimit}
QaGrading == {NotGrading} \cup [pc : {"sent", "stored"}, id : Chats, grade : {"good", "bad"}, flag : BOOLEAN,
                                under : QaFilters]
QaGraded == {NoneGraded} \cup [saved : {TRUE}, id : Chats, grade : {"good", "bad"}, flag : BOOLEAN]

QaShape ==
    /\ chats \in [Chats -> Reviewed] /\ qaFilter \in QaFilters /\ queued \subseteq QaCopies
    /\ newest \in [1..Cardinality(Chats) -> Chats]
    /\ \A c \in Chats : \E i \in 1..Cardinality(Chats) : newest[i] = c
    /\ queueLoads \in [QueueLoads -> QaLoad] /\ grading \in QaGrading /\ graded \in QaGraded
    /\ qaError \in BOOLEAN /\ cut \in BOOLEAN /\ qaCrossed \in BOOLEAN
    /\ outdated \in {"no", "since", "before"} /\ qaOps \in 0..MaxQaOps

\* What is stored, or said to be saved, is what the conversation has, as long as nobody else worked on it.
GradeInv ==
    /\ grading.pc # "idle" => graded = NoneGraded
    /\ outdated = "no" =>
         /\ grading.pc = "stored" => chats[grading.id].grade = grading.grade /\ chats[grading.id].flag = grading.flag
         /\ graded.saved => chats[graded.id].grade = graded.grade /\ chats[graded.id].flag = graded.flag

\* The conversations that match the filter chosen, and those whose copies are shown once the grade is.
Wanted == Matching(qaFilter)
Copied == {c.id : c \in queued}
Remaining == IF grading.pc = "stored" /\ qaFilter # "all" THEN Copied \ {grading.id} ELSE Copied
Current == outdated # "since" /\ ~cut

\* As long as nothing overlapped or failed, one load or one grade is under way, for the filter chosen; a list
\* has the conversations that match, but for those the limit left out and what others did since.
QueueFits ==
    /\ \A k, l \in QueueLoads : queueLoads[k].pc # "idle" /\ queueLoads[l].pc # "idle" => k = l
    /\ \A l \in QueueLoads :
         /\ queueLoads[l].pc # "idle" => grading.pc = "idle"
         /\ queueLoads[l].pc = "asked" => queueLoads[l].filter = qaFilter
         /\ queueLoads[l].pc = "answered" =>
              /\ qaFilter # "all" => \A c \in queueLoads[l].list : c.grade = "none"
              /\ Current => {c.id : c \in queueLoads[l].list} = Wanted
    /\ grading.pc # "idle" => grading.under = qaFilter
    /\ (\A l \in QueueLoads : queueLoads[l].pc = "idle") =>
         /\ qaFilter # "all" => \A c \in queued : c.grade = "none"
         /\ Current => Remaining = Wanted

QaInv == QaShape /\ GradeInv /\ (~qaCrossed => QueueFits)

-----------------------------------------------------------------------------
LEMMA QaLoadTells ==
    ASSUME NEW x \in QaLoad
    PROVE  /\ x.pc \in {"idle", "asked", "answered"} /\ (x.pc = "idle" <=> x = NotLoading)
           /\ x.pc = "asked" => x \in [pc : {"asked"}, filter : QaFilters] /\ x.filter \in QaFilters
           /\ x.pc = "answered" => x.list \subseteq QaCopies /\ Cardinality(x.list) <= QueueLimit
PROOF
  BY DEF QaLoad, NotLoading

LEMMA QaLoadsAre ==
    /\ NotLoading \in QaLoad /\ NotLoading.pc = "idle"
    /\ \A f \in QaFilters : [pc |-> "asked", filter |-> f] \in QaLoad
    /\ \A cs \in SUBSET QaCopies :
         Cardinality(cs) <= QueueLimit => [pc |-> "answered", list |-> cs] \in QaLoad
PROOF
  BY DEF QaLoad, NotLoading

LEMMA GradingTells ==
    ASSUME NEW x \in QaGrading
    PROVE  /\ x.pc \in {"idle", "sent", "stored"} /\ (x.pc = "idle" <=> x = NotGrading)
           /\ x.pc # "idle" => /\ x \in [pc : {"sent", "stored"}, id : Chats, grade : {"good", "bad"}, flag : BOOLEAN,
                                         under : QaFilters]
                               /\ x.id \in Chats /\ x.grade \in {"good", "bad"} /\ x.flag \in BOOLEAN
                               /\ x.under \in QaFilters
PROOF
  BY DEF QaGrading, NotGrading

\* What others read of the conversations depends on nothing else.
LEMMA WantedStays ==
    ASSUME chats' = chats, qaFilter' = qaFilter
    PROVE  Wanted' = Wanted
PROOF
  BY DEF Wanted, Matching, Matches, Ungraded, NeedsReview

LEMMA OthersMatchTheirFilter ==
    ASSUME NEW f \in QaFilters \ {"all"}, NEW c \in Matching(f)
    PROVE  c \in Chats /\ chats[c].grade = "none"
PROOF
  BY DEF Matching, Matches, Ungraded, NeedsReview, QaFilters

LEMMA AllMatch == Matching("all") = Chats
PROOF
  BY DEF Matching, Matches

-----------------------------------------------------------------------------
\* The order of the queue.
Higher == {e \in Chats \X Chats : Above(e[1], e[2])}

LEMMA PriorityIsANumber ==
    ASSUME chats \in [Chats -> Reviewed], NEW c \in Chats
    PROVE  CalibrationPriority(c) \in Nat
PROOF
  BY DEF CalibrationPriority, Reviewed

LEMMA PlaceIsOwn ==
    ASSUME QaShape, NEW c \in Chats
    PROVE  At(c) \in 1..Cardinality(Chats) /\ newest[At(c)] = c /\ At(c) \in Nat
PROOF
  BY QaAssumption, FS_CardinalityType DEF QaShape, At

LEMMA HigherRanks == ASSUME QaShape PROVE Ranks(Higher, Chats)
PROOF
<1>1. \A c, d \in Chats : <<c, d>> \in Higher <=> Above(c, d)
  BY DEF Higher
<1>2. \A c \in Chats : CalibrationPriority(c) \in Nat /\ At(c) \in Nat /\ newest[At(c)] = c
  BY PriorityIsANumber, PlaceIsOwn DEF QaShape
<1>3. \A c \in Chats : ~Above(c, c)
  BY <1>2 DEF Above
<1>4. ASSUME NEW c \in Chats, NEW d \in Chats PROVE c = d \/ Above(c, d) \/ Above(d, c)
  BY <1>2 DEF Above
<1>5. ASSUME NEW c \in Chats, NEW d \in Chats, NEW e \in Chats, Above(c, d), Above(d, e) PROVE Above(c, e)
  BY <1>2, <1>5 DEF Above
<1> QED
  BY <1>1, <1>3, <1>4, <1>5 DEF Ranks

LEMMA FirstIsTops ==
    ASSUME QaShape, NEW S \in SUBSET Chats
    PROVE  First(S) = Tops(Higher, S, QueueLimit) /\ Ranks(Higher, S) /\ IsFiniteSet(S)
PROOF
<1>1. \A c \in S : {d \in S : Above(d, c)} = Over(Higher, S, c)
  BY DEF Higher, Over
<1>2. First(S) = Tops(Higher, S, QueueLimit)
  BY <1>1 DEF First, Tops
<1>3. Ranks(Higher, Chats)
  BY HigherRanks
<1>4. Ranks(Higher, S)
  BY <1>3 DEF Ranks
<1> QED
  BY <1>2, <1>4, QaAssumption, FS_Subset

LEMMA MatchingAreChats == \A f : Matching(f) \in SUBSET Chats
PROOF
  BY DEF Matching

\* What is answered fits the page: as many as the limit allows, and all that match if they are no more.
Answered(f) == {QaCopy(c) : c \in Queue(f)}
LEMMA AnswerIsAQueue ==
    ASSUME QaShape, NEW f \in QaFilters
    PROVE  /\ Answered(f) \subseteq QaCopies /\ Cardinality(Answered(f)) <= QueueLimit
           /\ f # "all" => \A e \in Answered(f) : e.grade = "none"
           /\ ~(Cardinality(Matching(f)) > QueueLimit) => {e.id : e \in Answered(f)} = Matching(f)
PROOF
<1> DEFINE S == Matching(f)
<1>1. S \in SUBSET Chats /\ QueueLimit \in Nat
  BY MatchingAreChats, QaAssumption
<1>2. First(S) = Tops(Higher, S, QueueLimit) /\ Ranks(Higher, S) /\ IsFiniteSet(S)
  BY <1>1, FirstIsTops
<1>3. /\ First(S) \subseteq S /\ IsFiniteSet(First(S)) /\ Cardinality(First(S)) \in Nat
      /\ Cardinality(First(S)) <= QueueLimit
  <2>1. First(S) \subseteq S
    BY DEF First
  <2>2. PICK T : T = Tops(Higher, S, QueueLimit)
    OBVIOUS
  <2>3. IsFiniteSet(T) /\ Cardinality(T) \in Nat /\ Cardinality(T) <= QueueLimit
    BY <1>1, <1>2, <2>2, TopsAreFew
  <2> QED
    BY <1>2, <2>1, <2>2, <2>3
<1>4. Queue(f) = First(S)
  BY DEF Queue
<1>5. \A c \in Chats : QaCopy(c) \in QaCopies /\ QaCopy(c).id = c /\ QaCopy(c).grade = chats[c].grade
  BY DEF QaCopy, QaCopies, QaShape, Reviewed
<1>6. Answered(f) \subseteq QaCopies
  BY <1>1, <1>3, <1>4, <1>5 DEF Answered
<1>7. Cardinality(Answered(f)) <= QueueLimit
  <2> DEFINE copy == [c \in First(S) |-> QaCopy(c)]
  <2>1. copy \in Surjection(First(S), Answered(f))
    BY <1>4 DEF Answered, Surjection
  <2>2. IsFiniteSet(Answered(f)) /\ Cardinality(Answered(f)) <= Cardinality(First(S))
    BY <1>3, <2>1, FS_Surjection
  <2>3. Cardinality(Answered(f)) \in Nat
    BY <2>2, FS_CardinalityType
  <2> QED
    BY ONLY <1>1, <1>3, <2>2, <2>3
<1>8. f # "all" => \A e \in Answered(f) : e.grade = "none"
  BY <1>1, <1>3, <1>4, <1>5, OthersMatchTheirFilter DEF Answered
<1>9. ~(Cardinality(S) > QueueLimit) => Queue(f) = S
  BY <1>2, FS_CardinalityType, <1>1, <1>4, TopsAreAll
<1>10. Queue(f) = S => {e.id : e \in Answered(f)} = S
  BY <1>1, <1>5 DEF Answered
<1> QED
  BY <1>6, <1>7, <1>8, <1>9, <1>10

-----------------------------------------------------------------------------
LEMMA QaStart == QaInit => QaInv
PROOF
<1> SUFFICES ASSUME QaInit PROVE QaInv
  OBVIOUS
<1>1. PICK l \in QueueLoads :
        queueLoads = [m \in QueueLoads |-> IF m = l THEN [pc |-> "asked", filter |-> "all"] ELSE NotLoading]
  BY DEF QaInit
<1>2. queueLoads \in [QueueLoads -> QaLoad]
  BY <1>1, QaLoadsAre DEF QaFilters
<1>3. /\ queueLoads[l].pc = "asked" /\ queueLoads[l].filter = "all"
      /\ \A m \in QueueLoads : m # l => queueLoads[m].pc = "idle"
  BY <1>1, QaLoadsAre
<1>4. grading.pc = "idle" /\ grading \in QaGrading /\ graded = NoneGraded /\ graded \in QaGraded /\ graded.saved = FALSE
  BY DEF QaInit, NotGrading, QaGrading, QaGraded, NoneGraded
<1>5. /\ newest \in [1..Cardinality(Chats) -> Chats]
      /\ \A c \in Chats : \E i \in 1..Cardinality(Chats) : newest[i] = c
  BY DEF QaInit
<1>6. chats \in [Chats -> Reviewed]
  BY DEF QaInit, Reviewed, Grades
<1>7. QaShape
  <2>1. qaOps \in 0..MaxQaOps
    BY QaAssumption DEF QaInit
  <2>2. /\ qaFilter \in QaFilters /\ queued \subseteq QaCopies /\ qaError \in BOOLEAN /\ cut \in BOOLEAN
        /\ qaCrossed \in BOOLEAN /\ outdated \in {"no", "since", "before"}
    BY DEF QaInit, QaFilters
  <2> QED
    BY <1>2, <1>4, <1>5, <1>6, <2>1, <2>2 DEF QaShape
<1>8. GradeInv
  BY <1>4 DEF GradeInv
<1>9. QueueFits
  BY <1>3, <1>4 DEF QueueFits, QaInit
<1> QED
  BY <1>7, <1>8, <1>9 DEF QaInv

LEMMA MoreQaOps == ASSUME QaShape, QaOp PROVE qaOps' \in 0..MaxQaOps
PROOF
<1>1. qaOps \in 0..MaxQaOps /\ qaOps < MaxQaOps /\ qaOps' = qaOps + 1 /\ MaxQaOps \in Nat
  BY QaAssumption DEF QaShape, QaOp
<1> QED
  BY ONLY <1>1

\* No load is under way, read in either way.
LEMMA LoadingTells ==
    ASSUME QaShape
    PROVE  QueueLoading <=> \E l \in QueueLoads : queueLoads[l].pc # "idle"
PROOF
  BY QaLoadTells DEF QaShape, QueueLoading

LEMMA LoadKeepsQa == ASSUME QaInv, NEW l \in QueueLoads, NEW f \in QaFilters, LoadQueue(l, f) PROVE QaInv'
PROOF
<1> USE DEF QaInv
<1>1. /\ qaFilter' = f /\ qaError' = FALSE
      /\ queueLoads' = [queueLoads EXCEPT ![l] = [pc |-> "asked", filter |-> f]]
      /\ qaCrossed' = (qaCrossed \/ QueueLoading \/ grading # NotGrading)
      /\ UNCHANGED <<chats, newest, queued, grading, graded, cut, outdated>>
  BY DEF LoadQueue
<1>2. qaOps' \in 0..MaxQaOps
  BY MoreQaOps DEF LoadQueue
<1>3. /\ queueLoads' \in [QueueLoads -> QaLoad] /\ queueLoads'[l].pc = "asked" /\ queueLoads'[l].filter = f
      /\ \A m \in QueueLoads : m # l => queueLoads'[m] = queueLoads[m]
  BY <1>1, QaLoadsAre DEF QaShape
<1>4. QaShape'
  BY <1>1, <1>2, <1>3 DEF QaShape
<1>5. GradeInv'
  BY <1>1 DEF GradeInv
<1>6. ASSUME ~qaCrossed' PROVE QueueFits'
  <2>1. (\A m \in QueueLoads : queueLoads[m].pc = "idle") /\ grading.pc = "idle"
    BY <1>1, <1>6, LoadingTells, GradingTells DEF QaShape
  <2> QED
    BY <1>1, <1>3, <2>1 DEF QueueFits
<1> QED
  BY <1>4, <1>5, <1>6

LEMMA AnswerKeepsQa == ASSUME QaInv, NEW l \in QueueLoads, AnswerQueue(l) PROVE QaInv'
PROOF
<1> USE DEF QaInv
<1>1. PICK f : f = queueLoads[l].filter
  OBVIOUS
<1>2. /\ queueLoads[l].pc = "asked"
      /\ queueLoads' = [queueLoads EXCEPT ![l] = [pc |-> "answered", list |-> Answered(f)]]
      /\ cut' = (Cardinality(Matching(f)) > QueueLimit)
      /\ outdated' = IF outdated = "no" THEN "no" ELSE "before"
      /\ UNCHANGED <<chats, newest, qaFilter, queued, graded, qaError, grading, qaCrossed, qaOps>>
  BY <1>1 DEF AnswerQueue, Answered, qaShown
<1>3. QaShape /\ f \in QaFilters
  BY <1>1, <1>2, QaLoadTells DEF QaShape
<1>4. /\ Answered(f) \subseteq QaCopies /\ Cardinality(Answered(f)) <= QueueLimit
      /\ f # "all" => \A e \in Answered(f) : e.grade = "none"
      /\ ~(Cardinality(Matching(f)) > QueueLimit) => {e.id : e \in Answered(f)} = Matching(f)
  BY <1>3, AnswerIsAQueue
<1>5. /\ queueLoads' \in [QueueLoads -> QaLoad] /\ queueLoads'[l].pc = "answered" /\ queueLoads'[l].list = Answered(f)
      /\ \A m \in QueueLoads : m # l => queueLoads'[m] = queueLoads[m]
  BY <1>2, <1>3, <1>4, QaLoadsAre DEF QaShape
<1>6. cut' \in BOOLEAN /\ outdated' \in {"no", "before"} /\ (outdated' = "no" => outdated = "no")
  BY <1>2
<1>7. QaShape'
  BY <1>2, <1>3, <1>5, <1>6 DEF QaShape
<1>8. GradeInv'
  BY <1>2, <1>6 DEF GradeInv
<1>9. ASSUME ~qaCrossed' PROVE QueueFits'
  BY <1>1, <1>2, <1>9, WantedStays, <1>4, <1>5 DEF QueueFits, Wanted, Current
<1> QED
  BY <1>7, <1>8, <1>9

LEMMA ShowKeepsQa == ASSUME QaInv, NEW l \in QueueLoads, ShowQueue(l) PROVE QaInv'
PROOF
<1> USE DEF QaInv
<1>1. /\ queueLoads[l].pc = "answered" /\ queued' = queueLoads[l].list
      /\ queueLoads' = [queueLoads EXCEPT ![l] = NotLoading]
      /\ UNCHANGED <<chats, newest, qaFilter, grading, graded, qaError, cut, qaCrossed, outdated, qaOps>>
  BY DEF ShowQueue
<1>2. queued' \subseteq QaCopies
  BY <1>1, QaLoadTells DEF QaShape
<1>3. /\ queueLoads' \in [QueueLoads -> QaLoad] /\ queueLoads'[l].pc = "idle"
      /\ \A m \in QueueLoads : m # l => queueLoads'[m] = queueLoads[m]
  BY <1>1, QaLoadsAre DEF QaShape
<1>4. QaShape'
  BY <1>1, <1>2, <1>3 DEF QaShape
<1>5. GradeInv'
  BY <1>1 DEF GradeInv
<1>6. ASSUME ~qaCrossed' PROVE QueueFits'
  BY <1>1, <1>6, WantedStays, <1>3 DEF Current, QueueFits, Remaining, Copied
<1> QED
  BY <1>4, <1>5, <1>6

LEMMA FailKeepsQa == ASSUME QaInv, NEW l \in QueueLoads, QueueFails(l) PROVE QaInv'
PROOF
  BY QaLoadsAre DEF QaInv, QueueFails, QaShape, GradeInv

LEMMA ClickKeepsQa == ASSUME QaInv, NEW c \in queued, NEW g \in GradesOf(c), HandleGrade(c, g) PROVE QaInv'
PROOF
<1> USE DEF QaInv
<1> DEFINE new == [pc |-> "sent", id |-> c.id, grade |-> g[1], flag |-> g[2], under |-> qaFilter]
<1>1. /\ grading = NotGrading /\ grading' = new
      /\ graded' = NoneGraded /\ qaError' = FALSE /\ qaCrossed' = (qaCrossed \/ QueueLoading)
      /\ UNCHANGED <<chats, newest, qaFilter, queued, queueLoads, cut, outdated>>
  BY DEF HandleGrade
<1>2. qaOps' \in 0..MaxQaOps
  BY MoreQaOps DEF HandleGrade
<1>3. c \in QaCopies /\ qaFilter \in QaFilters
  BY DEF QaShape
<1>4. g[1] \in {"good", "bad"} /\ g[2] \in BOOLEAN /\ c.id \in Chats
  <2>1. c.id \in Chats /\ c.flag \in BOOLEAN
    BY <1>3 DEF QaCopies
  <2>2. PICK turned : turned = ~c.flag
    OBVIOUS
  <2>3. turned \in BOOLEAN
    BY <2>2
  <2>4. PICK w \in {"good", "bad"}, b \in BOOLEAN : g = <<w, b>>
    BY <2>2, <2>3 DEF GradesOf
  <2> QED
    BY <2>1, <2>4
<1>5. new \in QaGrading /\ new.pc = "sent" /\ new.under = qaFilter
  BY <1>3, <1>4 DEF QaGrading
<1> HIDE DEF new
<1>6. QaShape'
  BY <1>1, <1>2, <1>5 DEF QaShape, QaGraded
<1>7. GradeInv'
  BY <1>1, <1>5 DEF GradeInv, NoneGraded
<1>8. ASSUME ~qaCrossed' PROVE QueueFits'
  BY <1>1, <1>8, LoadingTells, WantedStays, <1>5 DEF Current, NotGrading, Remaining, Copied, QueueFits
<1> QED
  BY <1>6, <1>7, <1>8

\* A conversation that is touched moves to the front; every other keeps a place.
LEMMA TouchedKeepsPlaces ==
    ASSUME QaShape, NEW c \in Chats, Touch(c)
    PROVE  /\ newest' \in [1..Cardinality(Chats) -> Chats]
           /\ \A d \in Chats : \E i \in 1..Cardinality(Chats) : newest'[i] = d
PROOF
<1>1. PICK n \in Nat : n = Cardinality(Chats)
  BY QaAssumption, FS_CardinalityType
<1>2. newest \in [1..n -> Chats] /\ DOMAIN newest = 1..n /\ \A d \in Chats : \E i \in 1..n : newest[i] = d
  BY <1>1 DEF QaShape
<1>3. PICK a \in 1..n : a = At(c) /\ newest[a] = c
  BY <1>1, PlaceIsOwn
<1>4. newest' = [i \in 1..n |-> IF i = 1 THEN c ELSE IF i <= a THEN newest[i - 1] ELSE newest[i]]
  BY <1>2, <1>3 DEF Touch
<1>5. \A i \in 1..n : i # 1 => i - 1 \in 1..n
  BY <1>1
<1>6. newest' \in [1..n -> Chats]
  BY <1>2, <1>4, <1>5
<1>7. ASSUME NEW d \in Chats PROVE \E i \in 1..n : newest'[i] = d
  <2>1. PICK j \in 1..n : newest[j] = d
    BY <1>2
  <2>2. CASE d = c
    BY <1>1, <1>3, <1>4, <2>2
  <2>3. CASE d # c /\ j < a
    <3>1. j + 1 \in 1..n /\ j + 1 # 1 /\ j + 1 <= a /\ (j + 1) - 1 = j
      BY ONLY <1>1, <1>3, <2>1, <2>3, n \in Nat, a \in 1..n, j \in 1..n
    <3> QED
      BY <1>4, <2>1, <3>1
  <2>4. CASE d # c /\ ~(j < a)
    <3>1. j # a
      BY <1>3, <2>1, <2>4
    <3>2. ~(j <= a) /\ j # 1
      BY ONLY <3>1, <2>4, n \in Nat, a \in 1..n, j \in 1..n
    <3> QED
      BY <1>4, <2>1, <3>2
  <2> QED
    BY <2>2, <2>3, <2>4
<1> QED
  BY <1>1, <1>6, <1>7

LEMMA StoreKeepsQa == ASSUME QaInv, StoreGrade PROVE QaInv'
PROOF
<1> USE DEF QaInv
<1>1. PICK c, w, b : c = grading.id /\ w = grading.grade /\ b = grading.flag
  OBVIOUS
<1>2. /\ grading.pc = "sent" /\ grading' = [grading EXCEPT !.pc = "stored"] /\ Touch(c)
      /\ chats' = [chats EXCEPT ![c].grade = w, ![c].flag = b]
      /\ UNCHANGED <<qaFilter, queued, graded, qaError, queueLoads, cut, qaCrossed, outdated, qaOps>>
  BY <1>1 DEF StoreGrade, qaShown
<1>3. /\ grading \in [pc : {"sent", "stored"}, id : Chats, grade : {"good", "bad"}, flag : BOOLEAN, under : QaFilters]
      /\ c \in Chats /\ w \in {"good", "bad"} /\ b \in BOOLEAN
  BY <1>1, <1>2, GradingTells DEF QaShape
<1>4. /\ grading' \in QaGrading /\ grading'.pc = "stored" /\ grading'.id = c /\ grading'.grade = w /\ grading'.flag = b
      /\ grading'.under = grading.under
  BY <1>1, <1>2, <1>3 DEF QaGrading
<1>5. /\ chats' \in [Chats -> Reviewed] /\ chats'[c].grade = w /\ chats'[c].flag = b
      /\ \A d \in Chats : chats'[d].auto = chats[d].auto /\ chats'[d].risk = chats[d].risk
      /\ \A d \in Chats : d # c => chats'[d] = chats[d]
  <2> DEFINE one == [chats EXCEPT ![c].grade = w]
  <2>1. chats \in [Chats -> Reviewed] /\ w \in Grades
    BY <1>3 DEF QaShape, Grades
  <2>2. /\ one \in [Chats -> Reviewed] /\ one[c].grade = w
        /\ \A d \in Chats : one[d].auto = chats[d].auto /\ one[d].risk = chats[d].risk
        /\ \A d \in Chats : d # c => one[d] = chats[d]
    BY <1>3, <2>1 DEF Reviewed
  <2>3. chats' = [one EXCEPT ![c].flag = b]
    BY <1>2
  <2> HIDE DEF one
  <2> QED
    BY <1>3, <2>2, <2>3 DEF Reviewed
<1>6. /\ newest' \in [1..Cardinality(Chats) -> Chats]
      /\ \A d \in Chats : \E i \in 1..Cardinality(Chats) : newest'[i] = d
  BY <1>2, <1>3, TouchedKeepsPlaces
<1>7. QaShape'
  BY <1>2, <1>4, <1>5, <1>6 DEF QaShape
<1>8. GradeInv'
  BY <1>2, <1>4, <1>5 DEF GradeInv, NoneGraded
<1>9. ASSUME ~qaCrossed' PROVE QueueFits'
  <2>1. QueueFits /\ grading.pc = "sent"
    BY <1>2, <1>9
  <2>2. \A m \in QueueLoads : queueLoads[m].pc = "idle"
    BY <2>1, QaLoadTells DEF QueueFits, QaShape
  <2>3. (Current' <=> Current) /\ Copied' = Copied
    BY <1>2 DEF Current, Copied
  <2>4. CASE qaFilter = "all"
    BY <1>2, <2>4, AllMatch, <1>4, <2>3, <2>1, <2>2 DEF Wanted, Matching, Matches, Remaining, QueueFits
  <2>5. CASE qaFilter # "all"
    <3>1. Wanted' = Wanted \ {c}
      <4>1. \A d \in Chats : d # c => (Matches(d, qaFilter)' <=> Matches(d, qaFilter))
        BY <1>2, <1>5 DEF Matches, Ungraded, NeedsReview
      <4>2. ~(Matches(c, qaFilter)')
        BY <1>2, <1>3, <1>5, <2>5 DEF Matches, Ungraded, NeedsReview, QaShape, QaFilters
      <4> QED
        BY <1>2, <1>3, <4>1, <4>2 DEF Wanted, Matching
    <3>2. Remaining = Copied /\ Remaining' = Copied \ {c}
      BY <1>2, <1>4, <2>1, <2>3, <2>5 DEF Remaining
    <3> QED
      BY <1>2, <1>4, <2>1, <2>2, <2>3, <2>5, <3>1, <3>2 DEF QueueFits
  <2> QED
    BY <2>4, <2>5
<1> QED
  BY <1>7, <1>8, <1>9

LEMMA ShownKeepsQa == ASSUME QaInv, ShowGrade PROVE QaInv'
PROOF
<1> USE DEF QaInv
<1>1. PICK c, w, b, f : c = grading.id /\ w = grading.grade /\ b = grading.flag /\ f = grading.under
  OBVIOUS
<1> DEFINE new(e) == IF e.id = c THEN [e EXCEPT !.grade = w, !.flag = b] ELSE e
           done == [saved |-> TRUE, id |-> c, grade |-> w, flag |-> b]
<1>2. /\ grading.pc = "stored" /\ grading' = NotGrading
      /\ queued' = {e \in {new(d) : d \in queued} : f = "all" \/ e.grade = "none"} /\ graded' = done
      /\ UNCHANGED <<chats, newest, qaFilter, queueLoads, qaError, cut, qaCrossed, outdated, qaOps>>
  BY <1>1 DEF ShowGrade, StillShown, Updated
<1>3. c \in Chats /\ w \in {"good", "bad"} /\ b \in BOOLEAN /\ f \in QaFilters
  BY <1>1, <1>2, GradingTells DEF QaShape
<1>4. done \in QaGraded /\ done.saved = TRUE /\ done.id = c /\ done.grade = w /\ done.flag = b
  BY <1>3 DEF QaGraded
<1> HIDE DEF done
<1>5. ASSUME NEW e \in queued
      PROVE  new(e) \in QaCopies /\ new(e).id = e.id /\ (e.id = c => new(e).grade = w) /\ (e.id # c => new(e) = e)
  BY <1>3 DEF QaShape, QaCopies, Grades
<1> HIDE DEF new
<1>6. grading' \in QaGrading /\ grading'.pc = "idle"
  BY <1>2 DEF QaGrading, NotGrading
<1>7. queued' \subseteq QaCopies
  BY <1>2, <1>5
<1>8. QaShape'
  BY <1>2, <1>4, <1>6, <1>7 DEF QaShape
<1>9. GradeInv'
  BY <1>1, <1>2, <1>4, <1>6 DEF GradeInv
<1>10. ASSUME ~qaCrossed' PROVE QueueFits'
  <2>1. QueueFits /\ f = qaFilter
    BY <1>1, <1>2, <1>10 DEF QueueFits
  <2>2. \A m \in QueueLoads : queueLoads[m].pc = "idle"
    BY <1>2, <2>1, QaLoadTells DEF QueueFits, QaShape
  <2>3. Wanted' = Wanted /\ (Current' <=> Current)
    BY <1>2, WantedStays DEF Current
  <2>4. Remaining' = Remaining
    <3>1. CASE f = "all"
      BY <1>2, <3>1, <1>5, <1>6, <2>1 DEF Copied, Remaining
    <3>2. CASE f # "all"
      BY <2>1, <2>2, <3>2, <1>3, <1>5, <1>2, <1>1, <1>6 DEF QueueFits, Copied, Remaining
    <3> QED
      BY <3>1, <3>2
  <2>5. qaFilter # "all" => \A e \in queued' : e.grade = "none"
    BY <1>2, <2>1
  <2> QED
    BY <1>2, <1>6, <2>1, <2>2, <2>3, <2>4, <2>5 DEF QueueFits
<1> QED
  BY <1>8, <1>9, <1>10

LEMMA GradeFailKeepsQa == ASSUME QaInv, GradeFails PROVE QaInv'
PROOF
<1> USE DEF QaInv
<1>1. /\ grading.pc = "sent" /\ grading' = NotGrading /\ qaError' = TRUE
      /\ UNCHANGED <<chats, newest, qaFilter, queued, queueLoads, graded, cut, qaCrossed, outdated, qaOps>>
  BY DEF GradeFails
<1>2. grading' \in QaGrading /\ grading'.pc = "idle"
  BY <1>1 DEF QaGrading, NotGrading
<1>3. QaShape'
  BY <1>1, <1>2 DEF QaShape
<1>4. GradeInv'
  BY <1>1, <1>2 DEF GradeInv, NoneGraded
<1>5. QueueFits => QueueFits'
  BY <1>1, WantedStays, <1>2 DEF Current, Remaining, Copied, QueueFits
<1> QED
  BY <1>1, <1>3, <1>4, <1>5

\* What others do makes the list dated.
LEMMA OthersKeepQa ==
    ASSUME QaInv, NEW c \in Chats, chats' \in [Chats -> Reviewed], Touch(c), outdated' = "since",
           UNCHANGED <<qaFilter, queued, graded, qaError, queueLoads, grading, cut, qaCrossed>>,
           qaOps' \in 0..MaxQaOps
    PROVE  QaInv'
PROOF
<1> USE DEF QaInv
<1>1. /\ newest' \in [1..Cardinality(Chats) -> Chats]
      /\ \A d \in Chats : \E i \in 1..Cardinality(Chats) : newest'[i] = d
  BY TouchedKeepsPlaces
<1>2. QaShape'
  BY <1>1 DEF QaShape
<1>3. GradeInv'
  BY DEF GradeInv
<1>4. QueueFits => QueueFits'
  BY DEF Current, QueueFits
<1> QED
  BY <1>2, <1>3, <1>4

LEMMA ColleagueKeepsQa == ASSUME QaInv, NEW c \in Chats, NEW g \in {"good", "bad"}, ColleagueGrades(c, g) PROVE QaInv'
PROOF
<1>1. chats \in [Chats -> Reviewed] /\ qaOps' \in 0..MaxQaOps
  BY MoreQaOps DEF QaInv, QaShape, ColleagueGrades
<1>2. chats' \in [Chats -> Reviewed]
  BY <1>1 DEF ColleagueGrades, Reviewed, Grades
<1> QED
  BY <1>1, <1>2, OthersKeepQa DEF ColleagueGrades, qaShown

LEMMA AutoKeepsQa == ASSUME QaInv, NEW c \in Chats, NEW a \in Autos, NEW r \in BOOLEAN, AutoQa(c, a, r) PROVE QaInv'
PROOF
<1>1. chats \in [Chats -> Reviewed] /\ qaOps' \in 0..MaxQaOps
  BY MoreQaOps DEF QaInv, QaShape, AutoQa
<1>2. chats' \in [Chats -> Reviewed]
  BY <1>1 DEF AutoQa, Reviewed, Autos
<1> QED
  BY <1>1, <1>2, OthersKeepQa DEF AutoQa, qaShown

LEMMA QaStep == QaInv /\ [QaNext]_qaVars => QaInv'
PROOF
<1> SUFFICES ASSUME QaInv, [QaNext]_qaVars PROVE QaInv'
  OBVIOUS
<1>1. CASE QaNext
  <2>1. CASE StoreGrade \/ ShowGrade \/ GradeFails
    BY <2>1, StoreKeepsQa, ShownKeepsQa, GradeFailKeepsQa
  <2>2. CASE \E c \in queued : \E g \in GradesOf(c) : HandleGrade(c, g)
    BY <2>2, ClickKeepsQa
  <2>3. CASE \E c \in Chats : \E g \in {"good", "bad"} : ColleagueGrades(c, g)
    BY <2>3, ColleagueKeepsQa
  <2>4. CASE \E c \in Chats : \E a \in Autos \ {"none"}, r \in BOOLEAN : AutoQa(c, a, r)
    BY <2>4, AutoKeepsQa
  <2>5. CASE \E l \in QueueLoads : AnswerQueue(l) \/ ShowQueue(l) \/ QueueFails(l)
    BY <2>5, AnswerKeepsQa, ShowKeepsQa, FailKeepsQa
  <2>6. CASE \E l \in QueueLoads : \E f \in QaFilters : LoadQueue(l, f)
    BY <2>6, LoadKeepsQa
  <2> QED
    BY <1>1, <2>1, <2>2, <2>3, <2>4, <2>5, <2>6 DEF QaNext
<1>2. CASE UNCHANGED qaVars
  BY <1>2, WantedStays DEF qaVars, Current, Remaining, Copied, QaInv, QaShape, GradeInv, QueueFits
<1> QED
  BY <1>1, <1>2

-----------------------------------------------------------------------------
LEMMA QaKeep ==
    QaInv => QaTypeOK /\ GradedLeavesTheQueue /\ ClearIsClear /\ SavedIsStored /\ UngradedBeforeItsLike
PROOF
<1> SUFFICES ASSUME QaInv PROVE QaTypeOK /\ GradedLeavesTheQueue /\ ClearIsClear /\ SavedIsStored /\ UngradedBeforeItsLike
  OBVIOUS
<1> USE DEF QaInv
<1>1. QaTypeOK
  <2>1. newest \in Seq(Chats) /\ Len(newest) = Cardinality(Chats) /\ DOMAIN newest = 1..Cardinality(Chats)
    BY QaAssumption, FS_CardinalityType DEF QaShape
  <2>2. ASSUME NEW l \in QueueLoads
        PROVE  \/ queueLoads[l] = NotLoading
               \/ queueLoads[l] \in [pc : {"asked"}, filter : QaFilters]
               \/ /\ queueLoads[l].pc = "answered" /\ queueLoads[l].list \subseteq QaCopies
                  /\ Cardinality(queueLoads[l].list) <= QueueLimit
    BY QaLoadTells DEF QaShape
  <2>3. grading = NotGrading
        \/ grading \in [pc : {"sent", "stored"}, id : Chats, grade : {"good", "bad"}, flag : BOOLEAN, under : QaFilters]
    BY GradingTells DEF QaShape
  <2> QED
    BY <2>1, <2>2, <2>3 DEF QaTypeOK, QaShape
<1>2. ASSUME QaSettled PROVE QueueFits /\ grading.pc = "idle" /\ \A l \in QueueLoads : queueLoads[l].pc = "idle"
  BY <1>2, LoadingTells DEF QaSettled, NotGrading
<1>3. GradedLeavesTheQueue
  BY <1>2 DEF GradedLeavesTheQueue, QueueFits
<1>4. ClearIsClear
  BY <1>2 DEF ClearIsClear, QueueFits, Current, Remaining, Copied, Wanted
<1>5. SavedIsStored
  BY DEF SavedIsStored, GradeInv
<1>6. UngradedBeforeItsLike
  <2>1. SUFFICES ASSUME NEW c \in Queue("all"), NEW d \in Chats \ Queue("all"),
                        chats[c].auto = chats[d].auto, chats[c].risk = chats[d].risk, Ungraded(d), ~Ungraded(c)
                 PROVE FALSE
    BY DEF UngradedBeforeItsLike
  <2>2. Queue("all") = Tops(Higher, Chats, QueueLimit) /\ Ranks(Higher, Chats) /\ IsFiniteSet(Chats) /\ QueueLimit \in Nat
    BY FirstIsTops, AllMatch, QaAssumption DEF Queue
  <2>3. PICK T : T = Tops(Higher, Chats, QueueLimit)
    OBVIOUS
  <2>4. c \in T /\ d \in Chats \ T /\ c \in Chats
    BY <2>1, <2>2, <2>3 DEF Tops
  <2>5. Above(c, d)
    BY <2>2, <2>3, <2>4, TopsAreOver DEF Higher
  <2>6. PICK k : k = (IF chats[c].auto = "fail" THEN 80 ELSE IF chats[c].auto = "review" THEN 45 ELSE 0)
    OBVIOUS
  <2>7. PICK m : m = (IF chats[c].risk THEN 35 ELSE 0)
    OBVIOUS
  <2>8. k \in Nat /\ m \in Nat
    BY <2>6, <2>7
  <2>9. CalibrationPriority(c) = 0 + k + m /\ CalibrationPriority(d) = 100 + k + m
    BY <2>1, <2>6, <2>7 DEF CalibrationPriority
  <2>10. CalibrationPriority(c) < CalibrationPriority(d) /\ CalibrationPriority(c) \in Nat /\ CalibrationPriority(d) \in Nat
    BY <2>8, <2>9
  <2> QED
    BY <2>5, <2>10 DEF Above
<1> QED
  BY <1>1, <1>3, <1>4, <1>5, <1>6

-----------------------------------------------------------------------------
(* The screens in one run.                                                   *)

\* A step of the web application is a step of one screen; the others stay.
LEMMA ScreensRunTheirParts ==
    /\ WebAppInit => PortalInit /\ PromptScreenInit
    /\ [WebAppNext]_WebAppVars => [PortalNext]_portalVars /\ [PromptScreenNext]_promptScreenVars
PROOF
  BY DEF WebAppInit, WebAppNext, WebAppVars, portalVars, promptScreenVars

LEMMA OtherScreensStart ==
    WebAppInit => ReviewInit /\ LibraryInit /\ TalksInit /\ ShopsInit /\ AlertInit /\ ClientInit /\ QaInit
PROOF
  BY DEF WebAppInit

LEMMA OtherScreensStep ==
    [WebAppNext]_WebAppVars =>
        /\ [ReviewNext]_reviewVars /\ [LibraryNext]_libVars /\ [TalksNext]_talkVars /\ [ShopsNext]_shopVars
        /\ [AlertNext]_alertVars /\ [ClientNext]_clientVars /\ [QaNext]_qaVars
PROOF
  BY DEF WebAppNext, WebAppVars

\* No step of a screen acts on something else than what its user saw, for any number of tickets, tenants,
\* prompts, loads and clicks.
THEOREM SubjectsAreKept == WebAppSpec => ScreensKeepTheirSubject
PROOF
<1> DEFINE SawIt == delegating.pc = "sent" /\ delegating'.pc = "list"
                     => deskTickets[delegating.card.id].status = delegating.card.status
           OwnPrompt == \A p \in Prompts : promptRows[p] # Absent /\ promptRows'[p] # promptRows[p]
                     => promptRows[p].shop = deed.shop
           DraftKept == draft # "untouched" /\ draft' = "untouched" =>
                     \/ deed.pc = "done" /\ deed.kind = "create"
                     \/ ActiveId(listedPrompts') # ActiveId(listedPrompts)
           Inv == PortalInv /\ RowsOfPrompts
<1>1. WebAppInit => Inv
  BY ScreensRunTheirParts, PortalStarts, PromptsStart
<1>2. Inv /\ [WebAppNext]_WebAppVars => Inv'
  BY ScreensRunTheirParts, PortalKeeps, PromptsKeep
<1>3. Inv /\ [WebAppNext]_WebAppVars => [SawIt]_portalVars
  BY ScreensRunTheirParts, OverridesWhatWasSeen
<1>4. Inv /\ [WebAppNext]_WebAppVars => [OwnPrompt]_promptScreenVars
  BY ScreensRunTheirParts, ChangesOwnPrompts
<1>5. Inv /\ [WebAppNext]_WebAppVars => [DraftKept]_promptScreenVars
  BY ScreensRunTheirParts, DraftEmptied
<1> HIDE DEF Inv, SawIt, OwnPrompt, DraftKept
<1>6. WebAppSpec => []Inv
  BY <1>1, <1>2, PTL DEF WebAppSpec
<1>7. WebAppSpec => [][SawIt]_portalVars
  BY <1>3, <1>6, PTL DEF WebAppSpec
<1>8. WebAppSpec => [][OwnPrompt]_promptScreenVars
  BY <1>4, <1>6, PTL DEF WebAppSpec
<1>9. WebAppSpec => [][DraftKept]_promptScreenVars
  BY <1>5, <1>6, PTL DEF WebAppSpec
<1> QED
  BY <1>7, <1>8, <1>9
  DEF ScreensKeepTheirSubject, NoBlindOverride, ChangesStayWithTheShop, DraftStays, SawIt, OwnPrompt, DraftKept

\* A screen at rest shows one thing, and what it sends belongs together, for any number of clients, tickets,
\* entries, prompts, conversations, loads and clicks.
THEOREM ScreensAreSound == WebAppSpec => []ScreenInvariant
PROOF
<1> DEFINE Inv == /\ PortalInv /\ DeskInv /\ EditorInv
                  /\ ReviewInv /\ LibraryInv /\ TalksInv /\ ClientsInv /\ AlertInv /\ ClientInv /\ QaInv
<1>1. WebAppInit => Inv
  <2>1. WebAppInit => PortalInv /\ DeskInv /\ EditorInv
    BY ScreensRunTheirParts, PortalStarts, DeskStarts, EditorStart
  <2>2. WebAppInit => ReviewInv /\ LibraryInv /\ TalksInv /\ ClientsInv /\ AlertInv /\ ClientInv /\ QaInv
    BY OtherScreensStart, ReviewStart, LibraryStart, TalksStart, ClientsStart, AlertStart, ClientStart, QaStart
  <2> QED
    BY <2>1, <2>2
<1>2. Inv /\ [WebAppNext]_WebAppVars => Inv'
  <2> SUFFICES ASSUME Inv, [WebAppNext]_WebAppVars PROVE Inv'
    OBVIOUS
  <2>1. PortalInv' /\ DeskInv' /\ EditorInv'
    BY ScreensRunTheirParts, PortalKeeps, DeskSteps, EditorStep
  <2>2. ReviewInv' /\ LibraryInv' /\ TalksInv' /\ ClientsInv'
    BY OtherScreensStep, ReviewStep, LibraryStep, TalksStep, ClientsStep
  <2>3. AlertInv' /\ ClientInv' /\ QaInv'
    BY OtherScreensStep, AlertStep, ClientStep, QaStep
  <2> QED
    BY <2>1, <2>2, <2>3
<1>3. Inv => ScreenInvariant
  BY DeskKeeps, EditorKeep, ReviewKeep, LibraryKeep, TalksKeep, ClientsKeep, AlertKeep, ClientKeep, QaKeep DEF
     WebTypeOK, ShowsOneThing, SendsWhatIsMeant, ScreenInvariant
<1> HIDE DEF Inv
<1> QED
  BY <1>1, <1>2, <1>3, PTL DEF WebAppSpec

=============================================================================
