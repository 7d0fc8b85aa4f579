---------------------------- MODULE MCTicketDesk ----------------------------
(* Two people on one ticket, each through the console or the dashboard, and the *)
(* console screen that shows it; a behaviour explores one of the two, the other *)
(* rests at its initial state.                                                  *)
EXTENDS TicketDesk, TicketScreen, TLC

VARIABLE focus   \* the component whose steps are explored; the others rest at their initial state

TicketDeskInit ==
    /\ focus \in {"desk", "tickets"}
    /\ Init
    /\ ScreenInit

TicketDeskNext ==
    \/ /\ focus = "desk" /\ Next
       /\ UNCHANGED <<focus, screenVars>>
    \/ /\ focus = "tickets" /\ ScreenNext
       /\ UNCHANGED <<focus, vars>>

TicketDeskVars == <<focus, vars, screenVars>>
TicketDeskSpec == TicketDeskInit /\ [][TicketDeskNext]_TicketDeskVars

PoolSymmetry == Permutations(Actors) \union Permutations(DeskTickets)

-----------------------------------------------------------------------------
(* Properties of the screen.                                                 *)

\* Whatever order its answers come in, the panel shows the selected case, and beside it the history of
\* the customer of that case.
PanelIsOfItsCase == ScreenTypeOK /\ PanelFollowsSelection /\ HistoryIsOfCase

\* A change leaves the screen with the version of the copy the operator saw, and a mark of a bulk change
\* goes only when its ticket was saved.
ActsOnWhatItShows == NoBlindUpdate /\ MarksClearedAreSaved
=============================================================================
