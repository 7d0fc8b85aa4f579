----------------------------- MODULE SenderMarks -----------------------------
(***************************************************************************)
(* Blocking a sender and marking one as a test customer: the service that  *)
(* keeps the marks (apps/api/src/customers) and the conversation screen    *)
(* that sets them (apps/web/src/app/internal/conversations).  The screen   *)
(* keeps one list of marks per client: it is asked for when a conversation *)
(* of the client is looked at first, and from then on the screen's own     *)
(* changes are worked into it.  Blocks and test marks follow the same code *)
(* and never touch each other, so one of them is modelled.                 *)
(***************************************************************************)
EXTENDS Naturals, FiniteSets

CONSTANTS
    Senders,        \* the customers with a conversation
    TenantOf,       \* the client each belongs to
    MaxMarkChanges, \* bound: changes of marks in all
    NoSender        \* no conversation selected, no list loaded

ASSUME MarkAssumption == MaxMarkChanges \in Nat /\ NoSender \notin Senders

\* "No list" is not a list.
ASSUME NoListAssumption == \A list \in SUBSET Senders : NoSender # list

VARIABLES
    marked,      \* the service's marks
    markChanges, \* changes so far
    lists,       \* blocksByClient: the loaded marks of each client, or NoSender
    looking,     \* the sender of the selected conversation
    listReq,     \* the request of the effect that loads a client's marks
    markJob,     \* the change under way
    own,         \* marks set on this screen and not taken back on it
    marksBlurred      \* clients whose list may differ from the service's marks

markVars == <<marked, markChanges, lists, looking, listReq, markJob, own, marksBlurred>>

Tenants == {TenantOf[s] : s \in Senders}
Still == [pc |-> "still"]

MarksTypeOK ==
    /\ marked \subseteq Senders /\ markChanges \in 0..MaxMarkChanges
    /\ \A t \in Tenants : lists[t] = NoSender \/ lists[t] \subseteq {s \in Senders : TenantOf[s] = t}
    /\ looking \in Senders \cup {NoSender}
    /\ listReq = Still \/ listReq \in [pc : {"asked"}, of : Tenants]
                       \/ listReq \in [pc : {"served"}, of : Tenants, got : SUBSET Senders]
    /\ markJob = Still
       \/ markJob \in [pc : {"sent", "stored"}, to : {"mark", "unmark"}, who : Senders]
    /\ own \subseteq Senders /\ marksBlurred \subseteq Tenants

MarksInit ==
    /\ marked \in SUBSET Senders /\ markChanges = 0
    /\ lists = [t \in Tenants |-> NoSender] /\ looking = NoSender
    /\ listReq = Still /\ markJob = Still /\ own = {} /\ marksBlurred = {}

\* Mutant: a list under way is not given up when the lists change.
EffectKeeps == IF looking' = looking THEN UNCHANGED listReq
               ELSE listReq' = [pc |-> "asked", of |-> TenantOf[looking']]
\* The effect runs anew when the conversation or the lists change: the request
\* under way is given up, and another one starts where there is no list yet.
Effect == listReq' = IF looking' = NoSender THEN Still
                     ELSE IF lists'[TenantOf[looking']] # NoSender THEN Still
                     ELSE [pc |-> "asked", of |-> TenantOf[looking']]

LookAt(s) == /\ s # looking /\ looking' = s /\ UNCHANGED lists /\ Effect
             /\ UNCHANGED <<marked, markChanges, markJob, own, marksBlurred>>

\* The marks of one client.
ListServed == /\ listReq.pc = "asked"
              /\ listReq' = [pc |-> "served", of |-> listReq.of,
                             got |-> {s \in marked : TenantOf[s] = listReq.of}]
              /\ UNCHANGED <<marked, markChanges, lists, looking, markJob, own, marksBlurred>>

ListShown == /\ listReq.pc = "served" /\ lists' = [lists EXCEPT ![listReq.of] = listReq.got]
             /\ UNCHANGED looking /\ listReq' = Still
             /\ UNCHANGED <<marked, markChanges, markJob, own, marksBlurred>>

\* A failed request counts as an empty list, and is not repeated.
ListLost == /\ listReq.pc = "asked" /\ lists' = [lists EXCEPT ![listReq.of] = {}]
            /\ marksBlurred' = marksBlurred \cup {listReq.of} /\ listReq' = Still
            /\ UNCHANGED <<marked, markChanges, looking, markJob, own>>

\* What the button offers: taking the mark back where the list has it.
Has(s) == lists[TenantOf[s]] # NoSender /\ s \in lists[TenantOf[s]]

PressMark == /\ looking # NoSender /\ ~Has(looking) /\ markJob = Still
             /\ markJob' = [pc |-> "sent", to |-> "mark", who |-> looking]
             /\ UNCHANGED <<marked, markChanges, lists, looking, listReq, own, marksBlurred>>

PressUnmark == /\ looking # NoSender /\ Has(looking) /\ markJob = Still
               /\ markJob' = [pc |-> "sent", to |-> "unmark", who |-> looking]
               /\ UNCHANGED <<marked, markChanges, lists, looking, listReq, own, marksBlurred>>

\* The service keeps one mark per client and sender, and takes back only one it has.
Marking(s) == s \notin marked /\ marked' = marked \cup {s}
Unmarking(s) == s \in marked /\ marked' = marked \ {s}
Counted == markChanges < MaxMarkChanges /\ markChanges' = markChanges + 1

MarkServed == /\ markJob.pc = "sent" /\ Counted
              /\ \/ markJob.to = "mark" /\ Marking(markJob.who)
                 \/ markJob.to = "unmark" /\ Unmarking(markJob.who)
              /\ markJob' = [markJob EXCEPT !.pc = "stored"]
              /\ UNCHANGED <<lists, looking, listReq, own, marksBlurred>>

\* A refused or lost request leaves the list as it is.
MarkRefused == /\ markJob.pc = "sent" /\ markJob' = Still
               /\ UNCHANGED <<marked, markChanges, lists, looking, listReq, own, marksBlurred>>

\* The list after a change of this screen; one not loaded yet counts as empty.
Worked(old, job) == IF job.to = "mark" THEN old \cup {job.who} ELSE old \ {job.who}

\* The answer is worked into the list of the sender's client. A list that was
\* not loaded is one from now on, though it has the new mark only.
MarkShown ==
    /\ markJob.pc = "stored"
    /\ LET t == TenantOf[markJob.who]
           old == IF lists[t] = NoSender THEN {} ELSE lists[t] IN
       /\ lists' = [lists EXCEPT ![t] = Worked(old, markJob)]
       /\ marksBlurred' = IF lists[t] = NoSender /\ marked \cap {s \in Senders : TenantOf[s] = t}
                                               # {markJob.who}
                     THEN marksBlurred \cup {t} ELSE marksBlurred
    /\ own' = IF markJob.to = "mark" THEN own \cup {markJob.who} ELSE own \ {markJob.who}
    /\ markJob' = Still /\ UNCHANGED looking /\ Effect
    /\ UNCHANGED <<marked, markChanges>>

\* Another operator's change reaches no list that is loaded or on its way.
ColleagueMarks(s) == /\ Counted /\ (Marking(s) \/ Unmarking(s))
                     /\ marksBlurred' = marksBlurred \cup {TenantOf[s]}
                     /\ UNCHANGED <<lists, looking, listReq, markJob, own>>

MarksNext ==
    \/ ListServed \/ ListShown \/ ListLost \/ PressMark \/ PressUnmark
    \/ MarkServed \/ MarkRefused \/ MarkShown
    \/ \E s \in Senders : LookAt(s) \/ ColleagueMarks(s)

MarksSpec == MarksInit /\ [][MarksNext]_markVars

-----------------------------------------------------------------------------
\* What the operator marked here is offered for taking back from then on: no
\* list that was asked for before the change replaces it.
OwnMarkIsOffered == \A s \in own : Has(s)

\* A list loaded whole is the service's, while only this screen changes marks:
\* it differs only after a failed load or a mark set before the list was there.
ListIsService ==
    \A t \in Tenants :
        t \notin marksBlurred /\ lists[t] # NoSender
            /\ (markJob.pc = "stored" => TenantOf[markJob.who] # t)
        => lists[t] = {s \in marked : TenantOf[s] = t}
=============================================================================
