------------------------------ MODULE ClientDesk ------------------------------
(***************************************************************************)
(* The tickets of a client in the client portal (apps/web client/tickets/  *)
(* page.tsx) and the service behind it (updateClientTicketStatus of both   *)
(* APIs): a list loaded by filter, one ticket open in detail, and status   *)
(* changes that carry the version the screen shows, while the operators'   *)
(* desk changes the same tickets.                                          *)
(***************************************************************************)
EXTENDS Naturals, FiniteSets

CONSTANTS
    PortalTickets,  \* tickets of the client
    MaxPortalOps,   \* bound: clicks and changes by operators
    NoCase          \* no ticket pickedCard, none open

ASSUME PortalAssumption == MaxPortalOps \in Nat /\ NoCase \notin PortalTickets

VARIABLES
    deskTickets,    \* the stored tickets: status and version
    filterBy,       \* the filter of the screen
    cards,          \* the listed tickets, as loaded
    pickedCard,         \* selectedTicketId
    openCase,       \* ticketDetail
    listLoads,      \* the list requests: the user's and the delegation's
    caseLoads,      \* the detail requests: of a pick, of Refresh, of the delegation
    delegating,     \* the status change under way
    delegated,      \* the ticket it was made for last
    unseen,         \* tickets operators changed since
    portalClash,    \* two requests of one kind overlapped
    portalMishap,   \* one failed
    portalOps

portalVars == <<deskTickets, filterBy, cards, pickedCard, openCase, listLoads, caseLoads,
                delegating, delegated, unseen, portalClash, portalMishap, portalOps>>

Versions == 0..MaxPortalOps
CaseStatuses == {"assigned", "resolved"}
PortalFilters == {"all", "open"}
Stored == [status : CaseStatuses, version : Versions]
Card == [id : PortalTickets, status : CaseStatuses, version : Versions]
CardOf(t) == [id |-> t, status |-> deskTickets[t].status, version |-> deskTickets[t].version]
NoLoad == [pc |-> "idle"]
NotDelegating == [pc |-> "idle"]

DeskTypeOK ==
    /\ deskTickets \in [PortalTickets -> Stored] /\ filterBy \in PortalFilters
    /\ cards \subseteq Card /\ pickedCard \in PortalTickets \cup {NoCase}
    /\ \A c, d \in cards : c.id = d.id => c = d
    /\ openCase = {} \/ \E c \in Card : openCase = {c}
    /\ \A l \in {"user", "delegate"} :
         listLoads[l] = NoLoad \/ listLoads[l] \in [pc : {"asked"}, filter : PortalFilters]
         \/ listLoads[l] \in [pc : {"answered"}, rows : SUBSET Card]
    /\ \A l \in {"pick", "again", "delegate"} :
         caseLoads[l] = NoLoad \/ caseLoads[l] \in [pc : {"asked"}, id : PortalTickets]
         \/ caseLoads[l] \in [pc : {"answered"}, row : Card]
    /\ \/ delegating = NotDelegating
       \/ delegating \in [pc : {"sent", "list", "case"}, card : Card, to : CaseStatuses,
                          filter : PortalFilters]
    /\ delegated \in PortalTickets \cup {NoCase} /\ unseen \subseteq PortalTickets
    /\ portalClash \in BOOLEAN /\ portalMishap \in BOOLEAN /\ portalOps \in Versions

PortalInit ==
    /\ deskTickets = [t \in PortalTickets |-> [status |-> "assigned", version |-> 0]]
    /\ filterBy = "all" /\ cards = {} /\ pickedCard = NoCase /\ openCase = {}
    /\ listLoads = [l \in {"user", "delegate"} |-> IF l = "user"
                      THEN [pc |-> "asked", filter |-> "all"] ELSE NoLoad]
    /\ caseLoads = [l \in {"pick", "again", "delegate"} |-> NoLoad]
    /\ delegating = NotDelegating /\ delegated = NoCase /\ unseen = {}
    /\ portalClash = FALSE /\ portalMishap = FALSE /\ portalOps = 0

viewVars == <<filterBy, cards, pickedCard, openCase>>
Click == portalOps < MaxPortalOps /\ portalOps' = portalOps + 1
Busy(loads) == \E l \in DOMAIN loads : loads[l] # NoLoad

\* An operator changes a ticket at the desk.
OperatorUpdates(t) ==
    /\ Click /\ unseen' = unseen \cup {t}
    /\ \E to \in CaseStatuses :
         deskTickets' = [deskTickets EXCEPT ![t] = [status |-> to, version |-> @.version + 1]]
    /\ UNCHANGED <<viewVars, listLoads, caseLoads, delegating, delegated, portalClash, portalMishap>>

AskDeskList(l, filter) ==
    /\ listLoads[l] = NoLoad
    /\ listLoads' = [listLoads EXCEPT ![l] = [pc |-> "asked", filter |-> filter]]
AskCase(l, t) ==
    /\ caseLoads[l] = NoLoad
    /\ caseLoads' = [caseLoads EXCEPT ![l] = [pc |-> "asked", id |-> t]]

\* A filter button, or Refresh.
FilterTickets(filter) ==
    /\ Click /\ AskDeskList("user", filter) /\ filterBy' = filter
    /\ portalClash' = (portalClash \/ Busy(listLoads) \/ delegating # NotDelegating)
    /\ UNCHANGED <<deskTickets, cards, pickedCard, openCase, caseLoads, delegating, delegated,
                   unseen, portalMishap>>

\* listClientTickets
AnswerDeskList(l) ==
    /\ listLoads[l].pc = "asked"
    /\ listLoads' = [listLoads EXCEPT ![l] =
                       [pc |-> "answered",
                        rows |-> {CardOf(t) : t \in {u \in PortalTickets :
                                     \/ listLoads[l].filter = "all"
                                     \/ deskTickets[u].status # "resolved"}}]]
    /\ UNCHANGED <<deskTickets, viewVars, caseLoads, delegating, delegated, unseen,
                   portalClash, portalMishap, portalOps>>

\* The delegation goes on to the detail, whether or not its list came.
AfterList(l) ==
    delegating' = IF l = "delegate" THEN [delegating EXCEPT !.pc = "case"] ELSE delegating

\* Mutant: the detail does not follow the pick.
PicksOnly(t) == pickedCard' = t /\ UNCHANGED <<openCase, caseLoads, portalClash>>
\* What a new pick does (the effect on selectedTicketId): nothing pickedCard closes
\* the detail, another ticket is loaded.
Picks(t) ==
    /\ pickedCard' = t
    /\ IF t = pickedCard THEN UNCHANGED <<openCase, caseLoads, portalClash>>
       ELSE /\ portalClash' = (portalClash \/ Busy(caseLoads))
            /\ IF t = NoCase THEN openCase' = {} /\ UNCHANGED caseLoads
               ELSE AskCase("pick", t) /\ UNCHANGED openCase

\* loadTickets, answered: a pick that is not listed gives way to the first listed.
ShowList(l) ==
    LET rows == listLoads[l].rows
        ids == {c.id : c \in rows} IN
    /\ listLoads[l].pc = "answered" /\ cards' = rows
    /\ \E t \in (IF pickedCard \in ids THEN {pickedCard} ELSE IF ids = {} THEN {NoCase} ELSE ids) : Picks(t)
    /\ listLoads' = [listLoads EXCEPT ![l] = NoLoad] /\ AfterList(l)
    /\ UNCHANGED <<deskTickets, filterBy, delegated, unseen, portalMishap, portalOps>>

DeskListFails(l) ==
    /\ listLoads[l].pc = "asked" /\ listLoads' = [listLoads EXCEPT ![l] = NoLoad] /\ AfterList(l)
    /\ portalMishap' = TRUE
    /\ UNCHANGED <<deskTickets, viewVars, caseLoads, delegated, unseen, portalClash, portalOps>>

SelectDeskTicket(t) ==
    /\ Click /\ \E c \in cards : c.id = t
    /\ t # pickedCard /\ Picks(t)
    /\ UNCHANGED <<deskTickets, filterBy, cards, listLoads, delegating, delegated, unseen, portalMishap>>

RefreshDetail ==
    /\ Click /\ pickedCard # NoCase /\ ~Busy(caseLoads) /\ AskCase("again", pickedCard)
    /\ UNCHANGED <<deskTickets, viewVars, listLoads, delegating, delegated, unseen, portalClash,
                   portalMishap>>

\* getClientTicketDetail
AnswerCase(l) ==
    /\ caseLoads[l].pc = "asked"
    /\ caseLoads' = [caseLoads EXCEPT ![l] = [pc |-> "answered", row |-> CardOf(caseLoads[l].id)]]
    /\ UNCHANGED <<deskTickets, viewVars, listLoads, delegating, delegated, unseen, portalClash,
                   portalMishap, portalOps>>

AfterCase(l) ==
    /\ caseLoads' = [caseLoads EXCEPT ![l] = NoLoad]
    /\ delegating' = IF l = "delegate" THEN NotDelegating ELSE delegating

\* loadTicketDetail shows the answer, whatever is pickedCard by then ...
ShowCase(l) ==
    /\ caseLoads[l].pc = "answered" /\ openCase' = {caseLoads[l].row} /\ AfterCase(l)
    /\ UNCHANGED <<deskTickets, filterBy, cards, pickedCard, listLoads, delegated, unseen,
                   portalClash, portalMishap, portalOps>>

\* ... or nothing when it fails.
CaseFails(l) ==
    /\ caseLoads[l].pc = "asked" /\ openCase' = {} /\ AfterCase(l) /\ portalMishap' = TRUE
    /\ UNCHANGED <<deskTickets, filterBy, cards, pickedCard, listLoads, delegated, unseen,
                   portalClash, portalOps>>

\* delegate: a status button on a card or in the detail sends the version shown.
Delegate(card, to) ==
    /\ Click /\ delegating = NotDelegating /\ card \in cards \cup openCase
    /\ delegating' = [pc |-> "sent", card |-> card, to |-> to, filter |-> filterBy]
    /\ portalClash' = (portalClash \/ Busy(listLoads) \/ Busy(caseLoads))
    /\ UNCHANGED <<deskTickets, viewVars, listLoads, caseLoads, delegated, unseen, portalMishap>>

\* Mutant: the version is not compared.
OverrideStatus ==
    LET t == delegating.card.id IN
    /\ delegating.pc = "sent" /\ deskTickets[t].version < MaxPortalOps
    /\ deskTickets' = [deskTickets EXCEPT ![t] = [status |-> delegating.to, version |-> @.version + 1]]
    /\ delegating' = [delegating EXCEPT !.pc = "list"] /\ AskDeskList("delegate", delegating.filter)
    /\ delegated' = t /\ unseen' = unseen \ {t}
    /\ UNCHANGED <<viewVars, caseLoads, portalClash, portalMishap, portalOps>>
\* updateClientTicketStatus, when the stored version is the one sent.
UpdateTicketStatus ==
    LET t == delegating.card.id IN
    /\ delegating.pc = "sent" /\ deskTickets[t].version = delegating.card.version
    /\ deskTickets' = [deskTickets EXCEPT ![t] = [status |-> delegating.to, version |-> @.version + 1]]
    /\ delegating' = [delegating EXCEPT !.pc = "list"] /\ AskDeskList("delegate", delegating.filter)
    /\ delegated' = t /\ unseen' = unseen \ {t}
    /\ UNCHANGED <<viewVars, caseLoads, portalClash, portalMishap, portalOps>>

\* The conflict is shown, and nothing is loaded again.
UpdateRefused ==
    /\ delegating.pc = "sent" /\ deskTickets[delegating.card.id].version # delegating.card.version
    /\ delegating' = NotDelegating
    /\ UNCHANGED <<deskTickets, viewVars, listLoads, caseLoads, delegated, unseen, portalClash,
                   portalMishap, portalOps>>

\* After the list the detail of the ticket is loaded again.
ReloadCase ==
    /\ delegating.pc = "case" /\ AskCase("delegate", delegating.card.id)
    /\ portalClash' = (portalClash \/ Busy(caseLoads))
    /\ UNCHANGED <<deskTickets, viewVars, listLoads, delegating, delegated, unseen, portalMishap,
                   portalOps>>

PortalNext ==
    \/ RefreshDetail \/ UpdateTicketStatus \/ UpdateRefused \/ ReloadCase
    \/ \E t \in PortalTickets : OperatorUpdates(t) \/ SelectDeskTicket(t)
    \/ \E filter \in PortalFilters : FilterTickets(filter)
    \/ \E l \in {"user", "delegate"} : AnswerDeskList(l) \/ ShowList(l) \/ DeskListFails(l)
    \/ \E l \in {"pick", "again", "delegate"} : AnswerCase(l) \/ ShowCase(l) \/ CaseFails(l)
    \/ \E card \in cards \cup openCase, to \in CaseStatuses : Delegate(card, to)

PortalSpec == PortalInit /\ [][PortalNext]_portalVars

-----------------------------------------------------------------------------
\* The client never changes the status of a ticket that is, by then, not in the
\* status the client saw.
NoBlindOverride ==
    [][delegating.pc = "sent" /\ delegating'.pc = "list"
       => deskTickets[delegating.card.id].status = delegating.card.status]_portalVars

DeskAtRest == ~Busy(listLoads) /\ ~Busy(caseLoads) /\ delegating = NotDelegating

\* With nothing under way, the detail is of the ticket that is pickedCard or that was
\* delegated last, unless two loads overlapped.
DetailIsOfTheTicket ==
    DeskAtRest /\ ~portalClash => \A c \in openCase : c.id \in {pickedCard, delegated}

\* After a delegation the screen has the ticket as it is stored, so the next one
\* is not refused, unless loads overlapped or failed, or an operator changed it.
DelegationIsShown ==
    DeskAtRest /\ ~portalClash /\ ~portalMishap /\ delegated \notin unseen =>
        \A c \in cards \cup openCase : c.id = delegated => c = CardOf(delegated)
=============================================================================
