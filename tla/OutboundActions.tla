--------------------------- MODULE OutboundActions ---------------------------
(***************************************************************************)
(* What the agent does to a tenant's own systems: the governance gate with *)
(* its approvals inbox (services/action-governance.ts) over the connector  *)
(* framework with its write queue (services/connectors.ts).                *)
(*                                                                         *)
(* The agent's requests, the approvers' requests and the replays run side  *)
(* by side; the call to the tenant's system, the queue row and the action  *)
(* row are separate steps.  A write that the connector reports as failed   *)
(* may have taken effect: the five second timeout aborts the wait, not the *)
(* work, and the idempotency key is never sent along.                      *)
(***************************************************************************)
EXTENDS Integers, Sequences, FiniteSets

CONSTANTS
  Actions,      \* requests to the gate
  Class,        \* [Actions -> ActionClass]
  Amount,       \* [Actions -> Nat \union {Unknown}], what a financial action moves
  Unknown,      \* no amount given
  Named,        \* the actions that name a connector
  Key,          \* [Actions -> idempotency keys or NoKey]
  NoKey,
  Approvers,
  Replayers,    \* replays that can be in progress together
  Thresholds,   \* financialApprovalThreshold values an operator may set
  MaxTimeouts,  \* bound on writes that took effect but were reported as failed
  MaxFailures   \* bound on requests that die

ActionClass == {"read", "reversible_write", "irreversible_financial"}

ASSUME OutboundAssumption ==
  /\ Class \in [Actions -> ActionClass]
  /\ Unknown \notin Nat
  /\ Amount \in [Actions -> Nat \union {Unknown}]
  /\ DOMAIN Key = Actions
  /\ Thresholds \subseteq Nat
  /\ MaxTimeouts \in Nat /\ MaxFailures \in Nat

VARIABLES
  registered, \* the tenant has an active connector
  threshold,  \* the tenant's policy; 0 without one
  row,        \* action -> status of its CallAction row, "none" before it is stored
  queue,      \* connectorWriteQueue in the order of insertion
  agent,      \* action -> progress of the agent's request
  decision,   \* approver -> request in progress
  replay,     \* replayer -> entries still to do
  applied,    \* external: times the action took effect in the tenant's system
  sanctioned, \* history: actions some approver approved while they were pending
  highest,    \* history: highest threshold so far
  raced,      \* history: two decisions of one action, or two replays, overlapped
  timeouts, failures

vars == <<registered, threshold, row, queue, agent, decision, replay, applied,
          sanctioned, highest, raced, timeouts, failures>>
bookkeeping == <<registered, threshold, sanctioned, highest, failures>>

RowStatus == {"none", "auto_executed", "pending_approval", "approved", "rejected", "failed"}
Result == {"none", "ok", "queued", "failed"}
Entry == [action : Actions, key : {Key[a] : a \in Actions} \union {NoKey},
          status : {"pending", "replayed"}]
NoDecision == [pc |-> "idle", action |-> "none", result |-> "none"]
NoReplay == [pc |-> "idle", todo |-> {}, ok |-> FALSE]

TypeOK ==
  /\ registered \in BOOLEAN
  /\ threshold \in Thresholds \union {0}
  /\ row \in [Actions -> RowStatus]
  /\ queue \in Seq(Entry)
  /\ agent \in [Actions -> [pc : {"ready", "write", "enqueue", "record", "done"}, result : Result]]
  /\ decision \in [Approvers -> [pc : {"idle", "reject", "write", "enqueue", "mark"},
                                 action : Actions \union {"none"}, result : Result]]
  /\ replay \in [Replayers -> [pc : {"idle", "write", "mark"}, todo : SUBSET DOMAIN queue, ok : BOOLEAN]]
  /\ applied \in [Actions -> Nat]
  /\ sanctioned \subseteq Actions
  /\ highest \in Thresholds \union {0}
  /\ raced \in BOOLEAN
  /\ timeouts \in 0..MaxTimeouts
  /\ failures \in 0..MaxFailures

Init ==
  /\ registered \in BOOLEAN
  /\ threshold = 0
  /\ row = [a \in Actions |-> "none"]
  /\ queue = <<>>
  /\ agent = [a \in Actions |-> [pc |-> "ready", result |-> "none"]]
  /\ decision = [p \in Approvers |-> NoDecision]
  /\ replay = [w \in Replayers |-> NoReplay]
  /\ applied = [a \in Actions |-> 0]
  /\ sanctioned = {}
  /\ highest = 0
  /\ raced = FALSE
  /\ timeouts = 0
  /\ failures = 0

-----------------------------------------------------------------------------
(* The connector.                                                          *)

\* One HTTP write: it takes effect and says so; it does not; it takes effect and
\* the answer is lost.
Call(a, ok) ==
  \/ ok /\ applied' = [applied EXCEPT ![a] = @ + 1] /\ UNCHANGED timeouts
  \/ ~ok /\ UNCHANGED <<applied, timeouts>>
  \/ /\ ~ok /\ timeouts < MaxTimeouts
     /\ applied' = [applied EXCEPT ![a] = @ + 1]
     /\ timeouts' = timeouts + 1

\* An action that names no connector is not even tried.
Connected(a) == registered /\ a \in Named

\* The executor and ConnectorFrameworkService.write up to the queue: where its caller
\* goes on and with which result.
WriteThrough(a, next, result) ==
  \/ /\ ~Connected(a)
     /\ next = "record" /\ result = "failed"
     /\ UNCHANGED <<applied, timeouts>>
  \/ /\ Connected(a)
     /\ \E ok \in BOOLEAN :
          /\ Call(a, ok)
          /\ next = IF ok THEN "record" ELSE "enqueue"
          /\ result = IF ok THEN "ok" ELSE "queued"

\* Mutant: the queue holds one entry per connector.
OneEntryPerConnector(a, key) == queue = <<>>

\* The unique index on connector and key; a write without a key gets a random one.
IsNewEntry(a, key) == key = NoKey \/ \A i \in DOMAIN queue : queue[i].key # key

\* enqueueWrite: insert, or do nothing when the key is there already.
Enqueue(a, key) ==
  queue' = IF IsNewEntry(a, key)
             THEN Append(queue, [action |-> a, key |-> key, status |-> "pending"])
             ELSE queue

-----------------------------------------------------------------------------
(* The agent's request: ActionGovernanceService.execute.                   *)

\* Mutant: an action without an amount clears.
ClearsUnknown(a) == Amount[a] = Unknown \/ Amount[a] <= threshold

UnderThreshold(a) == Amount[a] # Unknown /\ Amount[a] <= threshold

\* A read runs at once, whatever it brings back.
Submit(a) ==
  /\ agent[a].pc = "ready"
  /\ agent' = [agent EXCEPT ![a].pc =
       IF \/ Class[a] = "reversible_write"
          \/ Class[a] = "irreversible_financial" /\ UnderThreshold(a)
         THEN "write" ELSE "record"]
  /\ UNCHANGED <<bookkeeping, row, queue, decision, replay, applied, raced, timeouts>>

Execute(a) ==
  /\ agent[a].pc = "write"
  /\ \E next \in {"record", "enqueue"}, result \in Result :
       /\ WriteThrough(a, next, result)
       /\ agent' = [agent EXCEPT ![a] = [pc |-> next, result |-> result]]
  /\ UNCHANGED <<bookkeeping, row, queue, decision, replay, raced>>

EnqueueFailed(a) ==
  /\ agent[a].pc = "enqueue"
  /\ Enqueue(a, Key[a])
  /\ agent' = [agent EXCEPT ![a].pc = "record"]
  /\ UNCHANGED <<bookkeeping, row, decision, replay, applied, raced, timeouts>>

\* recordAction; a request that never reached the connector waits for a human, and a
\* read is recorded as executed even if it brought back nothing.
Record(a) ==
  /\ agent[a].pc = "record"
  /\ row' = [row EXCEPT ![a] =
       CASE Class[a] = "read" -> IF a \in Named THEN "auto_executed" ELSE "failed"
         [] Class[a] # "read" /\ agent[a].result = "none" -> "pending_approval"
         [] agent[a].result = "failed" -> "failed"
         [] OTHER -> "auto_executed"]
  /\ agent' = [agent EXCEPT ![a].pc = "done"]
  /\ UNCHANGED <<bookkeeping, queue, decision, replay, applied, raced, timeouts>>

-----------------------------------------------------------------------------
(* An approver's request: decideApproval.                                  *)

\* Mutant: a decided row may be decided again.
Decidable(a) == row[a] \in {"pending_approval", "approved", "rejected", "failed"}

AwaitsApproval(a) == row[a] = "pending_approval"

\* The status check.  Nothing marks the row as taken.
BeginDecision(p, a, d) ==
  /\ decision[p].pc = "idle"
  /\ AwaitsApproval(a)
  /\ decision' = [decision EXCEPT ![p] =
       [pc |-> IF d = "reject" THEN "reject" ELSE "write", action |-> a, result |-> "none"]]
  /\ sanctioned' = IF d = "approve" THEN sanctioned \union {a} ELSE sanctioned
  /\ raced' = (raced \/ \E q \in Approvers : decision[q].action = a)
  /\ UNCHANGED <<registered, threshold, row, queue, agent, replay, applied, highest,
                 timeouts, failures>>

Reject(p) ==
  /\ decision[p].pc = "reject"
  /\ row' = [row EXCEPT ![decision[p].action] = "rejected"]
  /\ decision' = [decision EXCEPT ![p] = NoDecision]
  /\ UNCHANGED <<bookkeeping, queue, agent, replay, applied, raced, timeouts>>

ExecuteApproved(p) ==
  /\ decision[p].pc = "write"
  /\ \E next \in {"record", "enqueue"}, result \in Result :
       /\ WriteThrough(decision[p].action, next, result)
       /\ decision' = [decision EXCEPT ![p] =
            [@ EXCEPT !.pc = IF next = "record" THEN "mark" ELSE next, !.result = result]]
  /\ UNCHANGED <<bookkeeping, row, queue, agent, replay, raced>>

\* The request rebuilt from the row carries no idempotency key.
EnqueueApproved(p) ==
  /\ decision[p].pc = "enqueue"
  /\ Enqueue(decision[p].action, NoKey)
  /\ decision' = [decision EXCEPT ![p].pc = "mark"]
  /\ UNCHANGED <<bookkeeping, row, agent, replay, applied, raced, timeouts>>

\* Mutant: the executor's result is stored as it is.
StoresResult(result) == result

StatusAfter(result) == IF result \in {"ok", "queued"} THEN "approved" ELSE "failed"

\* The final UPDATE names the row only by its id.
MarkDecided(p) ==
  /\ decision[p].pc = "mark"
  /\ row' = [row EXCEPT ![decision[p].action] = StatusAfter(decision[p].result)]
  /\ decision' = [decision EXCEPT ![p] = NoDecision]
  /\ UNCHANGED <<bookkeeping, queue, agent, replay, applied, raced, timeouts>>

-----------------------------------------------------------------------------
(* Replay: replayPending.                                                  *)

Pending(i) == queue[i].status = "pending"

\* The entries a replay has read are done in the order of insertion.
First(todo, i) == i \in todo /\ \A j \in todo : i <= j

BeginReplay(w) ==
  /\ replay[w].pc = "idle"
  /\ \E i \in DOMAIN queue : Pending(i)
  /\ replay' = [replay EXCEPT ![w] =
       [pc |-> "write", todo |-> {i \in DOMAIN queue : Pending(i)}, ok |-> FALSE]]
  /\ raced' = (raced \/ \E v \in Replayers : replay[v].pc # "idle")
  /\ UNCHANGED <<bookkeeping, row, queue, agent, decision, applied, timeouts>>

ReplayWrite(w) ==
  /\ replay[w].pc = "write"
  /\ \E i \in replay[w].todo, ok \in BOOLEAN :
       /\ First(replay[w].todo, i)
       /\ Call(queue[i].action, ok)
       /\ replay' = [replay EXCEPT ![w] = [@ EXCEPT !.pc = "mark", !.ok = ok]]
  /\ UNCHANGED <<bookkeeping, row, queue, agent, decision, raced>>

NeverSettled(entry, ok) == entry.status

\* The catch branch stores the error and leaves the status alone.
EntryStatus(entry, ok) == IF ok THEN "replayed" ELSE entry.status

MarkReplayed(w) ==
  /\ replay[w].pc = "mark"
  /\ \E i \in replay[w].todo :
       /\ First(replay[w].todo, i)
       /\ queue' = [queue EXCEPT ![i].status = EntryStatus(queue[i], replay[w].ok)]
       /\ replay' = [replay EXCEPT ![w] =
            IF replay[w].todo = {i} THEN NoReplay
            ELSE [pc |-> "write", todo |-> replay[w].todo \ {i}, ok |-> FALSE]]
  /\ UNCHANGED <<bookkeeping, row, agent, decision, applied, raced, timeouts>>

-----------------------------------------------------------------------------
Register ==
  /\ ~registered
  /\ registered' = TRUE
  /\ UNCHANGED <<threshold, row, queue, agent, decision, replay, applied, sanctioned,
                 highest, raced, timeouts, failures>>

SetPolicy(t) ==
  /\ t # threshold
  /\ threshold' = t
  /\ highest' = IF t > highest THEN t ELSE highest
  /\ UNCHANGED <<registered, row, queue, agent, decision, replay, applied, sanctioned,
                 raced, timeouts, failures>>

\* Any request may die between two steps.  A dead agent request is not repeated
\* under the same identity; a dead decision or replay may be started again.
Die(agents, decisions, replays) ==
  /\ failures < MaxFailures
  /\ failures' = failures + 1
  /\ agent' = [a \in Actions |-> IF a \in agents THEN [agent[a] EXCEPT !.pc = "done"] ELSE agent[a]]
  /\ decision' = [p \in Approvers |-> IF p \in decisions THEN NoDecision ELSE decision[p]]
  /\ replay' = [w \in Replayers |-> IF w \in replays THEN NoReplay ELSE replay[w]]
  /\ UNCHANGED <<registered, threshold, row, queue, applied, sanctioned, highest, raced, timeouts>>

Crash ==
  \/ \E a \in Actions : agent[a].pc \in {"write", "enqueue", "record"} /\ Die({a}, {}, {})
  \/ \E p \in Approvers : decision[p].pc # "idle" /\ Die({}, {p}, {})
  \/ \E w \in Replayers : replay[w].pc # "idle" /\ Die({}, {}, {w})

Next ==
  \/ \E a \in Actions : Submit(a) \/ Execute(a) \/ EnqueueFailed(a) \/ Record(a)
  \/ \E p \in Approvers :
       \/ \E a \in Actions, d \in {"approve", "reject"} : BeginDecision(p, a, d)
       \/ Reject(p) \/ ExecuteApproved(p) \/ EnqueueApproved(p) \/ MarkDecided(p)
  \/ \E w \in Replayers : BeginReplay(w) \/ ReplayWrite(w) \/ MarkReplayed(w)
  \/ Register
  \/ \E t \in Thresholds : SetPolicy(t)
  \/ Crash

Spec == Init /\ [][Next]_vars

-----------------------------------------------------------------------------
(* Properties.                                                             *)

SameKey(a, b) == a = b \/ (Key[a] = Key[b] /\ Key[a] # NoKey)
Queued(a) == \E i \in DOMAIN queue : Pending(i) /\ SameKey(queue[i].action, a)
Waiting(a) == \E i \in DOMAIN queue : Pending(i) /\ queue[i].action = a

\* No money moves, and none is queued to move, unless the amount is known and
\* was within some policy the tenant has had, or an approver approved that very
\* action: lowering the policy, replays and crashes open no other way.
SpendIsSanctioned ==
  \A a \in Actions :
    Class[a] = "irreversible_financial" /\ (applied[a] > 0 \/ Waiting(a)) =>
      a \in sanctioned \/ (Amount[a] # Unknown /\ Amount[a] <= highest)

\* A row that says executed or approved is not a lie: the operation took effect,
\* or an entry for it, or for its earlier attempt under the same key, still waits.
ExecutedIsDurable ==
  \A a \in Actions : row[a] \in {"auto_executed", "approved"} /\ Class[a] # "read" =>
    Queued(a) \/ \E b \in Actions : SameKey(a, b) /\ applied[b] > 0

\* A replayed entry took effect, whichever of several replays settled it.
ReplayedIsApplied ==
  \A i \in DOMAIN queue : queue[i].status = "replayed" => applied[queue[i].action] > 0

\* So what is recorded as done, of an action or of a queued write, is done or on its way.
RecordsAreBacked == ExecutedIsDurable /\ ReplayedIsApplied

\* Without a lost answer, a crash, or overlapping decisions or replays, what a
\* request asks for takes effect at most once, executed at once, approved or queued.
AtMostOnceUndisturbed ==
  timeouts = 0 /\ failures = 0 /\ ~raced => \A a \in Actions : applied[a] <= 1

\* As long as no decisions or replays overlap, a decided action stays as it was
\* decided, and only the replay of its queued write still touches the tenant's
\* system.
DecidedIsFinal ==
  [][~raced => \A a \in Actions : row[a] \in {"approved", "rejected", "failed"} =>
       /\ row'[a] = row[a]
       /\ applied'[a] # applied[a] => \E w \in Replayers : replay[w].pc = "write"]_vars

=============================================================================
