--------------------------- MODULE IntakeContract ---------------------------
(***************************************************************************)
(* What the inbound pipeline promises for each message, seen from outside: *)
(* a run is admitted only while the message has no reply, and a run that   *)
(* was admitted accounts for at most one send and at most one ticket.      *)
(* Requests, rows and deliveries are left to MessageIntake.                *)
(***************************************************************************)
EXTENDS Integers

CONSTANT Messages

VARIABLES
  admitted,  \* runs let through so far
  answered,  \* messages with a reply on record
  raised,    \* tickets raised for the message
  sends      \* replies handed to the customer

vars == <<admitted, answered, raised, sends>>

Init ==
  /\ admitted = [m \in Messages |-> 0]
  /\ answered = {}
  /\ raised = [m \in Messages |-> 0]
  /\ sends = [m \in Messages |-> 0]

Admit(m) ==
  /\ m \notin answered
  /\ admitted' = [admitted EXCEPT ![m] = @ + 1]
  /\ UNCHANGED <<answered, raised, sends>>

Answer(m) ==
  /\ admitted[m] > 0
  /\ answered' = answered \union {m}
  /\ UNCHANGED <<admitted, raised, sends>>

Raise(m) ==
  /\ m \in answered
  /\ raised[m] < admitted[m]
  /\ raised' = [raised EXCEPT ![m] = @ + 1]
  /\ UNCHANGED <<admitted, answered, sends>>

Send(m) ==
  /\ m \in answered
  /\ sends[m] < admitted[m]
  /\ sends' = [sends EXCEPT ![m] = @ + 1]
  /\ UNCHANGED <<admitted, answered, raised>>

Next == \E m \in Messages : Admit(m) \/ Answer(m) \/ Raise(m) \/ Send(m)

Spec == Init /\ [][Next]_vars
=============================================================================
