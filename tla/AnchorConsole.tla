---------------------------- MODULE AnchorConsole ----------------------------
(* Escalations and the operators who work them: the rows of hono-api          *)
(* services/escalation.ts, the access checks of services/anchor-console.ts    *)
(* and services/operator-access.ts, and the screen of apps/web                *)
(* internal/voice-console/page.tsx, which keeps a queue that may be old.      *)
EXTENDS Naturals, FiniteSets

CONSTANTS
    AnchorOperators, Clients, Escalations,
    Colleague,     \* an operator whose screen is not modelled: it acts on any row, as an old screen may
    RoleOf,        \* operator -> "admin", "operator" or "read-only"
    ClientOf,      \* escalation -> the client whose call raised it
    MaxRevision,   \* bound: takes and resolutions of one escalation
    MaxLoads,      \* bound: operator -> loads of its screen in flight
    Nobody

ASSUME AnchorAssumption ==
    /\ RoleOf \in [AnchorOperators -> {"admin", "operator", "read-only"}]
    /\ ClientOf \in [Escalations -> Clients]
    /\ MaxRevision \in Nat /\ MaxLoads \in [AnchorOperators -> Nat]
    /\ Nobody \notin AnchorOperators \cup Clients \cup {Colleague}
    /\ Colleague \notin AnchorOperators

VARIABLES
    escalations,  \* escalation -> [status, assignedTo, revision]; revision counts the changes of the row
    access,       \* operator-client pairs of operatorClientAccess
    selected,     \* operator -> client picked on the screen
    queue,        \* operator -> rows on the screen: [esc, revision]
    loads,        \* requests for the queue: [by, client, at, rows]
    acts,         \* operator -> the take or resolve it has under way
    revokedAmid,  \* history: operators who lost their access after a request had been checked
    wavered,      \* history: operators whose screen had two loads in flight at once, or one for a
                  \* client that was no longer selected
    knowingly     \* history: an escalation was changed that the operator's own screen showed as settled

anchorVars == <<escalations, access, selected, queue, loads, acts, revokedAmid, wavered, knowingly>>

AnchorStatuses == {"none", "open", "taken", "resolved"}
EscalationRow == [status : AnchorStatuses, assignedTo : AnchorOperators \cup {Colleague, Nobody}, revision : 0 .. MaxRevision]
QueueRow == [esc : Escalations, revision : 0 .. MaxRevision]
NoAct == [kind |-> "none", esc |-> Nobody, client |-> Nobody, at |-> "none", revision |-> 0]

LoadsOf(o) == {l \in loads : l.by = o}
Load(o, c) == [by |-> o, client |-> c, at |-> "sent", rows |-> {}]

AnchorInit ==
    /\ escalations = [e \in Escalations |-> [status |-> "none", assignedTo |-> Nobody, revision |-> 0]]
    /\ access = {}
    /\ selected = [o \in AnchorOperators |-> Nobody]
    /\ queue = [o \in AnchorOperators |-> {}]
    /\ loads = {}
    /\ acts = [o \in AnchorOperators |-> NoAct]
    /\ revokedAmid = {}
    /\ wavered = {}
    /\ knowingly = FALSE
-----------------------------------------------------------------------------
\* raise: a call puts a row into the queue of its client.
Raise(e) ==
    /\ escalations[e].status = "none"
    /\ escalations' = [escalations EXCEPT ![e].status = "open"]
    /\ UNCHANGED <<access, selected, queue, loads, acts, revokedAmid, wavered, knowingly>>

\* grant and revoke; the mapping of an admin is never read and left alone.
Grant(o, c) ==
    /\ <<o, c>> \notin access
    /\ RoleOf[o] # "admin"
    /\ access' = access \cup {<<o, c>>}
    /\ UNCHANGED <<escalations, selected, queue, loads, acts, revokedAmid, wavered, knowingly>>
Revoke(o, c) ==
    /\ <<o, c>> \in access
    /\ access' = access \ {<<o, c>>}
    /\ revokedAmid' = IF acts[o].at = "checked" /\ acts[o].client = c THEN revokedAmid \cup {o} ELSE revokedAmid
    /\ UNCHANGED <<escalations, selected, queue, loads, acts, wavered, knowingly>>

\* hasAccess: an admin always, anyone else by the mapping.
HasAccess(o, c) == RoleOf[o] = "admin" \/ <<o, c>> \in access
\* assertAccess and requireWriteRole.
MayWrite(o, c) == HasAccess(o, c) /\ RoleOf[o] # "read-only"
-----------------------------------------------------------------------------
ListOpen(c) == {e \in Escalations : ClientOf[e] = c /\ escalations[e].status = "open"}

\* The screen asks for the queue of a client; the effect does so whenever the client changes.
StartLoad(o, c) ==
    /\ Cardinality(LoadsOf(o)) < MaxLoads[o]
    /\ loads' = loads \cup {Load(o, c)}
    /\ wavered' = IF LoadsOf(o) # {} \/ c # selected'[o] THEN wavered \cup {o} ELSE wavered

\* Mutant: the effect does not depend on the client.
ReloadNothing(o, c) == UNCHANGED <<loads, wavered>>
Reload(o, c) == StartLoad(o, c)
SelectAnchorClient(o, c) ==
    /\ selected[o] # c
    /\ selected' = [selected EXCEPT ![o] = c]
    /\ Reload(o, c)
    /\ UNCHANGED <<escalations, access, queue, acts, revokedAmid, knowingly>>
\* The Refresh button.
PressRefresh(o) ==
    /\ selected[o] # Nobody
    /\ LoadsOf(o) = {}
    /\ UNCHANGED <<escalations, access, selected, queue, acts, revokedAmid, knowingly>>
    /\ StartLoad(o, selected[o])

\* The service checks the operator and reads the open escalations.
LoadIsServed(l) ==
    /\ l \in loads /\ l.at = "sent" /\ HasAccess(l.by, l.client)
    /\ loads' = (loads \ {l}) \cup
         {[l EXCEPT !.at = "served",
                    !.rows = {[esc |-> e, revision |-> escalations[e].revision] : e \in ListOpen(l.client)}]}
    /\ UNCHANGED <<escalations, access, selected, queue, acts, revokedAmid, wavered, knowingly>>
\* The answer replaces the queue on the screen, whatever client is selected by now.
LoadArrives(l) ==
    /\ l \in loads /\ l.at = "served"
    /\ queue' = [queue EXCEPT ![l.by] = l.rows]
    /\ loads' = loads \ {l}
    /\ UNCHANGED <<escalations, access, selected, acts, revokedAmid, wavered, knowingly>>
\* No access, or the request fails: the screen shows the error above the queue it had.
LoadFails(l) ==
    /\ l \in loads
    /\ loads' = loads \ {l}
    /\ wavered' = wavered \cup {l.by}
    /\ UNCHANGED <<escalations, access, selected, queue, acts, revokedAmid, knowingly>>
-----------------------------------------------------------------------------
\* Take and Resolve: the request names the row on the screen and the client selected.
PressAct(o, r, kind) ==
    /\ acts[o] = NoAct
    /\ r \in queue[o]
    /\ escalations[r.esc].revision < MaxRevision
    /\ acts' = [acts EXCEPT ![o] = [kind |-> kind, esc |-> r.esc, client |-> selected[o], at |-> "sent",
                                    revision |-> r.revision]]
    /\ UNCHANGED <<escalations, access, selected, queue, loads, revokedAmid, wavered, knowingly>>
ActIsChecked(o) ==
    /\ acts[o].at = "sent"
    /\ MayWrite(o, acts[o].client)
    /\ acts' = [acts EXCEPT ![o].at = "checked"]
    /\ revokedAmid' = revokedAmid \ {o}
    /\ UNCHANGED <<escalations, access, selected, queue, loads, wavered, knowingly>>

\* tenantScope: the statement finds the row only under the client it was sent for.
Found(e, c) == ClientOf[e] = c
\* take and resolve write the row whatever its status.
Applied(row, o, kind) ==
    [row EXCEPT !.status = IF kind = "take" THEN "taken" ELSE "resolved",
                !.assignedTo = IF kind = "take" THEN o ELSE @,
                !.revision = @ + 1]
ActIsApplied(o) ==
    LET a == acts[o]
    IN /\ a.at = "checked"
       /\ IF Found(a.esc, a.client) /\ escalations[a.esc].revision < MaxRevision
          THEN /\ escalations' = [escalations EXCEPT ![a.esc] = Applied(@, o, a.kind)]
               /\ knowingly' = (knowingly \/ (escalations[a.esc].status # "open" /\ escalations[a.esc].revision = a.revision))
          ELSE UNCHANGED <<escalations, knowingly>>
       /\ acts' = [acts EXCEPT ![o].at = "applied"]
       /\ UNCHANGED <<access, selected, queue, loads, revokedAmid, wavered>>
ColleagueActs(e, kind) ==
    /\ escalations[e].status # "none" /\ escalations[e].revision < MaxRevision
    /\ escalations' = [escalations EXCEPT ![e] = Applied(@, Colleague, kind)]
    /\ UNCHANGED <<access, selected, queue, loads, acts, revokedAmid, wavered, knowingly>>
\* After the answer the screen loads the queue of the client it was pressed under.
ActAnswered(o) ==
    /\ acts[o].at = "applied"
    /\ acts' = [acts EXCEPT ![o] = NoAct]
    /\ UNCHANGED <<escalations, access, selected, queue, revokedAmid, knowingly>>
    /\ StartLoad(o, acts[o].client)
\* Forbidden, or lost on either way: an error is shown and nothing is loaded.
ActFails(o) ==
    /\ acts[o] # NoAct
    /\ acts' = [acts EXCEPT ![o] = NoAct]
    /\ UNCHANGED <<escalations, access, selected, queue, loads, revokedAmid, wavered, knowingly>>

AnchorNext ==
    \/ \E e \in Escalations : Raise(e) \/ ColleagueActs(e, "take") \/ ColleagueActs(e, "resolve")
    \/ \E o \in AnchorOperators, c \in Clients : Grant(o, c) \/ Revoke(o, c) \/ SelectAnchorClient(o, c)
    \/ \E o \in AnchorOperators : PressRefresh(o) \/ ActIsChecked(o) \/ ActIsApplied(o) \/ ActAnswered(o) \/ ActFails(o)
    \/ \E l \in loads : LoadIsServed(l) \/ LoadArrives(l) \/ LoadFails(l)
    \/ \E o \in AnchorOperators, r \in QueueRow, kind \in {"take", "resolve"} : PressAct(o, r, kind)

AnchorSpec == AnchorInit /\ [][AnchorNext]_anchorVars
-----------------------------------------------------------------------------
\* Rows, screens and requests have the shape the code gives them; an escalation that was taken has an owner.
AnchorTypeOK ==
    /\ escalations \in [Escalations -> EscalationRow]
    /\ \A e \in Escalations : escalations[e].status = "taken" => escalations[e].assignedTo # Nobody
    /\ access \subseteq AnchorOperators \X Clients
    /\ queue \in [AnchorOperators -> SUBSET QueueRow]
    /\ \A o \in AnchorOperators : Cardinality(LoadsOf(o)) <= MaxLoads[o]

\* An escalation that somebody settled is changed again only by an operator whose screen had not yet
\* been told: take and resolve do not look at the status, so the queue that lists only open rows is all
\* that keeps two operators apart.
ReworkedOnlyUnseen == ~knowingly

\* A request sent under one client never changes an escalation of another, although the screen shows the
\* queue of the client left behind until the new one is loaded.
ClientsStayApart ==
    [][\A e \in Escalations, o \in AnchorOperators :
         acts[o].esc = e /\ acts[o].at = "checked" /\ acts'[o].at = "applied" /\ acts[o].client # ClientOf[e]
           => escalations'[e] = escalations[e]]_anchorVars

\* What is changed is changed by an operator who may write for that client, except one whose access was
\* revoked between the check and the statement.
ChangedWithAccess ==
    [][\A o \in AnchorOperators : acts[o].at = "checked" /\ acts'[o].at = "applied" =>
         \/ RoleOf[o] = "admin"
         \/ RoleOf[o] = "operator" /\ (<<o, acts[o].client>> \in access \/ o \in revokedAmid)]_anchorVars

\* Once its loads are answered the screen shows escalations of the selected client only, unless loads
\* crossed or failed, or an answer to Take or Resolve loaded the queue of a client left meanwhile.
QueueIsOfSelected ==
    \A o \in AnchorOperators \ wavered :
        LoadsOf(o) = {} => \A r \in queue[o] : ClientOf[r.esc] = selected[o]
=============================================================================
