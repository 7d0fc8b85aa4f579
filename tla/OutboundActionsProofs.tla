------------------------ MODULE OutboundActionsProofs ------------------------
(***************************************************************************)
(* Proofs about OutboundActions for any actions, classes, amounts, keys,   *)
(* approvers, replayers, thresholds and bounds.                            *)
(***************************************************************************)
EXTENDS OutboundActions, SequenceTheorems, TLAPS

Keys == {Key[a] : a \in Actions} \union {NoKey}

LEMMA QueueShape ==
  ASSUME TypeOK
  PROVE  /\ DOMAIN queue = 1..Len(queue) /\ Len(queue) \in Nat
         /\ \A i \in DOMAIN queue : queue[i] \in Entry
BY DEF TypeOK

\* What the queue is after a failed write: the entry is new, or one with its key waits already.
LEMMA Enqueued ==
  ASSUME TypeOK, NEW a \in Actions, NEW key \in Keys, Enqueue(a, key)
  PROVE  /\ queue' \in Seq(Entry) /\ DOMAIN queue \subseteq DOMAIN queue'
         /\ \A i \in DOMAIN queue : queue'[i] = queue[i]
         /\ \/ key # NoKey /\ queue' = queue /\ \E i \in DOMAIN queue : queue[i].key = key
            \/ \E n \in DOMAIN queue' :
                 /\ n \notin DOMAIN queue /\ DOMAIN queue' = DOMAIN queue \union {n}
                 /\ queue'[n] = [action |-> a, key |-> key, status |-> "pending"]
<1> DEFINE new == [action |-> a, key |-> key, status |-> "pending"]
<1>1. queue \in Seq(Entry) /\ new \in Entry
  BY DEF TypeOK, Entry, Keys
<1>2. CASE IsNewEntry(a, key)
  <2>1. queue' = Append(queue, new)
    BY <1>2 DEF Enqueue
  <2> HIDE DEF new
  <2>2. /\ queue' \in Seq(Entry) /\ Len(queue') = Len(queue) + 1
        /\ \A i \in 1..Len(queue) : queue'[i] = queue[i]
        /\ queue'[Len(queue) + 1] = new
    BY <1>1, <2>1, AppendProperties
  <2>3. DOMAIN queue' = 1..(Len(queue) + 1) /\ DOMAIN queue = 1..Len(queue) /\ Len(queue) \in Nat
    BY <1>1, <2>2
  <2>4. /\ Len(queue) + 1 \in DOMAIN queue' /\ Len(queue) + 1 \notin DOMAIN queue
        /\ DOMAIN queue' = DOMAIN queue \union {Len(queue) + 1}
    BY <2>3
  <2> QED
    BY <2>2, <2>3, <2>4 DEF new
<1>3. CASE ~IsNewEntry(a, key)
  BY <1>1, <1>3 DEF Enqueue, IsNewEntry
<1> QED
  BY <1>2, <1>3

\* What the queue is after a replay has stored the outcome of an entry.
LEMMA Marked ==
  ASSUME TypeOK, NEW i \in DOMAIN queue, NEW s \in {"pending", "replayed"},
         queue' = [queue EXCEPT ![i].status = s]
  PROVE  /\ queue' \in Seq(Entry) /\ DOMAIN queue' = DOMAIN queue
         /\ \A j \in DOMAIN queue : /\ queue'[j].action = queue[j].action
                                    /\ queue'[j].key = queue[j].key
                                    /\ queue'[j].status = IF j = i THEN s ELSE queue[j].status
<1> DEFINE new == [queue[i] EXCEPT !.status = s]
<1>1. /\ queue \in Seq(Entry) /\ DOMAIN queue = 1..Len(queue) /\ queue[i] \in Entry
  BY QueueShape DEF TypeOK
<1>2. new \in Entry /\ new.action = queue[i].action /\ new.key = queue[i].key /\ new.status = s
  BY <1>1 DEF Entry
<1>3. queue' = [queue EXCEPT ![i] = new]
  BY <1>1
<1> HIDE DEF new
<1>4. /\ queue' \in Seq(Entry) /\ Len(queue') = Len(queue)
      /\ \A j \in 1..Len(queue) : queue'[j] = IF j = i THEN new ELSE queue[j]
  BY <1>1, <1>2, <1>3, ExceptSeq
<1> QED
  BY <1>1, <1>2, <1>4

\* What one call to the tenant's system does to the books.
Reaches(a, ok) ==
  /\ applied' \in [Actions -> Nat] /\ timeouts' \in 0..MaxTimeouts
  /\ \A b \in Actions : b # a => applied'[b] = applied[b]
  /\ applied'[a] = applied[a] \/ applied'[a] = applied[a] + 1
  /\ ok => applied'[a] = applied[a] + 1
  /\ timeouts' = 0 => timeouts = 0 /\ (~ok => applied'[a] = applied[a])

LEMMA CallReaches ==
  ASSUME TypeOK, NEW a \in Actions, NEW ok \in BOOLEAN, Call(a, ok)
  PROVE  Reaches(a, ok)
<1>1. applied \in [Actions -> Nat] /\ timeouts \in 0..MaxTimeouts /\ MaxTimeouts \in Nat
  BY OutboundAssumption DEF TypeOK
<1>2. CASE applied' = applied /\ timeouts' = timeouts /\ ~ok
  BY <1>1, <1>2 DEF Reaches
<1>3. CASE applied' = [applied EXCEPT ![a] = @ + 1] /\ timeouts' = timeouts /\ ok
  BY <1>1, <1>3 DEF Reaches
<1>4. CASE /\ applied' = [applied EXCEPT ![a] = @ + 1] /\ timeouts < MaxTimeouts
           /\ timeouts' = timeouts + 1 /\ ~ok
  <2>1. timeouts' \in 0..MaxTimeouts /\ timeouts' # 0
    BY ONLY <1>1, <1>4
  <2> QED
    BY <1>1, <1>4, <2>1 DEF Reaches
<1> QED
  BY <1>2, <1>3, <1>4 DEF Call

\* A write goes on to its record with the outcome, or to the queue.
LEMMA WriteReaches ==
  ASSUME TypeOK, NEW a \in Actions, NEW next, NEW result, WriteThrough(a, next, result)
  PROVE  \/ next = "record" /\ result = "failed" /\ Reaches(a, FALSE) /\ applied' = applied
         \/ next = "record" /\ result = "ok" /\ Reaches(a, TRUE)
         \/ next = "enqueue" /\ result = "queued" /\ Reaches(a, FALSE)
<1>1. applied \in [Actions -> Nat] /\ timeouts \in 0..MaxTimeouts
  BY DEF TypeOK
<1>2. CASE ~Connected(a)
  BY <1>1, <1>2 DEF WriteThrough, Reaches
<1>3. CASE Connected(a)
  BY <1>3, CallReaches DEF WriteThrough
<1> QED
  BY <1>2, <1>3

-----------------------------------------------------------------------------
(* Type correctness, one lemma per action.                                 *)

AgentState == [pc : {"ready", "write", "enqueue", "record", "done"}, result : Result]
DecisionState == [pc : {"idle", "reject", "write", "enqueue", "mark"},
                  action : Actions \union {"none"}, result : Result]
ReplayState(q) == [pc : {"idle", "write", "mark"}, todo : SUBSET DOMAIN q, ok : BOOLEAN]

\* The parts of TypeOK.
LEMMA Typed ==
  TypeOK <=> /\ registered \in BOOLEAN /\ threshold \in Thresholds \union {0}
             /\ row \in [Actions -> RowStatus] /\ queue \in Seq(Entry)
             /\ agent \in [Actions -> AgentState]
             /\ decision \in [Approvers -> DecisionState]
             /\ replay \in [Replayers -> ReplayState(queue)]
             /\ applied \in [Actions -> Nat] /\ sanctioned \subseteq Actions
             /\ highest \in Thresholds \union {0} /\ raced \in BOOLEAN
             /\ timeouts \in 0..MaxTimeouts /\ failures \in 0..MaxFailures
BY DEF TypeOK, AgentState, DecisionState, ReplayState

\* What a job can name: the action a decision is about, and the entries a replay does.
Names == \A p \in Approvers : decision[p].pc # "idle" => decision[p].action \in Actions

LEMMA InitTyped == Init => TypeOK /\ Names
<1> SUFFICES ASSUME Init PROVE TypeOK /\ Names
  OBVIOUS
<1>1. 0 \in 0..MaxTimeouts /\ 0 \in 0..MaxFailures
  BY OutboundAssumption
<1>2. /\ agent \in [Actions -> AgentState] /\ decision \in [Approvers -> DecisionState]
      /\ replay \in [Replayers -> ReplayState(queue)]
  BY DEF Init, AgentState, DecisionState, ReplayState, NoDecision, NoReplay, Result
<1>3. row \in [Actions -> RowStatus] /\ queue \in Seq(Entry) /\ applied \in [Actions -> Nat]
  BY DEF Init, RowStatus
<1> QED
  BY <1>1, <1>2, <1>3, Typed DEF Init, Names, NoDecision

LEMMA SubmitTyped ==
  ASSUME TypeOK, NEW a \in Actions, Submit(a)
  PROVE  TypeOK'
<1>1. agent' \in [Actions -> AgentState]
  BY Typed DEF Submit, AgentState
<1> QED
  BY <1>1, Typed DEF Submit, bookkeeping, TypeOK, AgentState, DecisionState, ReplayState

LEMMA ExecuteTyped ==
  ASSUME TypeOK, NEW a \in Actions, Execute(a)
  PROVE  TypeOK'
<1>1. PICK next \in {"record", "enqueue"}, result \in Result :
        /\ WriteThrough(a, next, result)
        /\ agent' = [agent EXCEPT ![a] = [pc |-> next, result |-> result]]
  BY DEF Execute
<1>2. agent' \in [Actions -> AgentState]
  BY <1>1, Typed DEF AgentState
<1>3. applied' \in [Actions -> Nat] /\ timeouts' \in 0..MaxTimeouts
  BY <1>1, WriteReaches DEF Reaches
<1> QED
  BY <1>2, <1>3, Typed DEF Execute, bookkeeping, TypeOK, AgentState, DecisionState, ReplayState

LEMMA ReplayStays ==
  ASSUME TypeOK, DOMAIN queue \subseteq DOMAIN queue', UNCHANGED replay
  PROVE  replay' \in [Replayers -> ReplayState(queue)']
BY Typed DEF ReplayState

LEMMA EnqueueFailedTyped ==
  ASSUME TypeOK, NEW a \in Actions, EnqueueFailed(a)
  PROVE  TypeOK'
<1>1. agent' \in [Actions -> AgentState]
  BY Typed DEF EnqueueFailed, AgentState
<1>2. queue' \in Seq(Entry) /\ DOMAIN queue \subseteq DOMAIN queue'
  BY Enqueued DEF EnqueueFailed, Keys
<1>3. replay' \in [Replayers -> ReplayState(queue)']
  BY <1>2, ReplayStays DEF EnqueueFailed
<1> QED
  BY <1>1, <1>2, <1>3, Typed DEF EnqueueFailed, bookkeeping, TypeOK, AgentState, DecisionState, ReplayState

LEMMA RecordTyped ==
  ASSUME TypeOK, NEW a \in Actions, Record(a)
  PROVE  TypeOK'
<1>1. agent' \in [Actions -> AgentState]
  BY Typed DEF Record, AgentState
<1>2. row' \in [Actions -> RowStatus]
  BY Typed DEF Record, RowStatus
<1> QED
  BY <1>1, <1>2, Typed DEF Record, bookkeeping, TypeOK, AgentState, DecisionState, ReplayState

LEMMA BeginDecisionTyped ==
  ASSUME TypeOK, NEW p \in Approvers, NEW a \in Actions, NEW d \in {"approve", "reject"},
         BeginDecision(p, a, d)
  PROVE  TypeOK'
<1>1. decision' \in [Approvers -> DecisionState]
  BY Typed DEF BeginDecision, DecisionState, Result
<1>2. sanctioned' \subseteq Actions /\ raced' \in BOOLEAN
  BY Typed DEF BeginDecision
<1> QED
  BY <1>1, <1>2, Typed DEF BeginDecision, TypeOK, AgentState, DecisionState, ReplayState

LEMMA NoDecisionTyped == NoDecision \in DecisionState
BY DEF NoDecision, DecisionState, Result

LEMMA RejectTyped ==
  ASSUME TypeOK, NEW p \in Approvers, Reject(p)
  PROVE  TypeOK'
<1>1. decision' \in [Approvers -> DecisionState]
  BY Typed, NoDecisionTyped DEF Reject
<1>2. row' \in [Actions -> RowStatus]
  BY Typed DEF Reject, RowStatus
<1> QED
  BY <1>1, <1>2, Typed DEF Reject, bookkeeping, TypeOK, AgentState, DecisionState, ReplayState

LEMMA ExecuteApprovedTyped ==
  ASSUME TypeOK, Names, NEW p \in Approvers, ExecuteApproved(p)
  PROVE  TypeOK'
<1>1. PICK next \in {"record", "enqueue"}, result \in Result :
        /\ WriteThrough(decision[p].action, next, result)
        /\ decision' = [decision EXCEPT ![p] =
             [decision[p] EXCEPT !.pc = IF next = "record" THEN "mark" ELSE next, !.result = result]]
  BY DEF ExecuteApproved
<1>2. decision' \in [Approvers -> DecisionState]
  <2> DEFINE pc == IF next = "record" THEN "mark" ELSE next
             d == [decision[p] EXCEPT !.pc = pc, !.result = result]
  <2>1. decision \in [Approvers -> DecisionState] /\ pc \in {"mark", "enqueue"}
    BY Typed
  <2> HIDE DEF pc
  <2>2. d \in DecisionState
    BY <2>1 DEF DecisionState
  <2>3. decision' = [decision EXCEPT ![p] = d]
    BY <1>1 DEF pc
  <2> HIDE DEF d
  <2> QED
    BY <2>1, <2>2, <2>3
<1>3. decision[p].action \in Actions
  BY DEF Names, ExecuteApproved
<1>4. applied' \in [Actions -> Nat] /\ timeouts' \in 0..MaxTimeouts
  BY <1>1, <1>3, WriteReaches DEF Reaches
<1> QED
  BY <1>2, <1>4, Typed DEF ExecuteApproved, bookkeeping, TypeOK, AgentState, DecisionState, ReplayState

LEMMA EnqueueApprovedTyped ==
  ASSUME TypeOK, Names, NEW p \in Approvers, EnqueueApproved(p)
  PROVE  TypeOK'
<1>1. decision' \in [Approvers -> DecisionState]
  BY Typed DEF EnqueueApproved, DecisionState
<1>2. queue' \in Seq(Entry) /\ DOMAIN queue \subseteq DOMAIN queue'
  BY Enqueued DEF EnqueueApproved, Keys, Names
<1>3. replay' \in [Replayers -> ReplayState(queue)']
  BY <1>2, ReplayStays DEF EnqueueApproved
<1> QED
  BY <1>1, <1>2, <1>3, Typed DEF EnqueueApproved, bookkeeping, TypeOK, AgentState, DecisionState, ReplayState

LEMMA MarkDecidedTyped ==
  ASSUME TypeOK, NEW p \in Approvers, MarkDecided(p)
  PROVE  TypeOK'
<1>1. decision' \in [Approvers -> DecisionState]
  BY Typed, NoDecisionTyped DEF MarkDecided
<1>2. row' \in [Actions -> RowStatus]
  BY Typed DEF MarkDecided, RowStatus, StatusAfter
<1> QED
  BY <1>1, <1>2, Typed DEF MarkDecided, bookkeeping, TypeOK, AgentState, DecisionState, ReplayState

LEMMA NoReplayTyped == NoReplay \in ReplayState(queue)
BY DEF NoReplay, ReplayState

LEMMA BeginReplayTyped ==
  ASSUME TypeOK, NEW w \in Replayers, BeginReplay(w)
  PROVE  TypeOK'
<1>1. replay' \in [Replayers -> ReplayState(queue)]
  BY Typed DEF BeginReplay, ReplayState
<1>2. raced' \in BOOLEAN
  BY Typed DEF BeginReplay
<1> QED
  BY <1>1, <1>2, Typed DEF BeginReplay, bookkeeping, TypeOK, AgentState, DecisionState, ReplayState

LEMMA ReplayWriteTyped ==
  ASSUME TypeOK, NEW w \in Replayers, ReplayWrite(w)
  PROVE  TypeOK'
<1>1. PICK i \in replay[w].todo, ok \in BOOLEAN :
        /\ Call(queue[i].action, ok)
        /\ replay' = [replay EXCEPT ![w] = [replay[w] EXCEPT !.pc = "mark", !.ok = ok]]
  BY DEF ReplayWrite
<1>2. replay[w] \in ReplayState(queue) /\ i \in DOMAIN queue
  BY <1>1, Typed DEF ReplayState
<1>3. queue[i].action \in Actions
  BY <1>2, QueueShape DEF Entry
<1>4. replay' \in [Replayers -> ReplayState(queue)]
  BY <1>1, <1>2, Typed DEF ReplayState
<1>5. applied' \in [Actions -> Nat] /\ timeouts' \in 0..MaxTimeouts
  BY <1>1, <1>3, CallReaches DEF Reaches
<1> QED
  BY <1>4, <1>5, Typed DEF ReplayWrite, bookkeeping, TypeOK, AgentState, DecisionState, ReplayState

\* The outcome of an entry, and what is left to do.
LEMMA MarkReplayedDoes ==
  ASSUME TypeOK, NEW w \in Replayers, MarkReplayed(w)
  PROVE  \E i \in replay[w].todo :
           /\ i \in DOMAIN queue /\ First(replay[w].todo, i)
           /\ queue' \in Seq(Entry) /\ DOMAIN queue' = DOMAIN queue
           /\ \A j \in DOMAIN queue :
                /\ queue'[j].action = queue[j].action /\ queue'[j].key = queue[j].key
                /\ queue'[j].status = IF j = i /\ replay[w].ok THEN "replayed" ELSE queue[j].status
           /\ replay' = [replay EXCEPT ![w] =
                IF replay[w].todo = {i} THEN NoReplay
                ELSE [pc |-> "write", todo |-> replay[w].todo \ {i}, ok |-> FALSE]]
<1>1. PICK i \in replay[w].todo :
        /\ First(replay[w].todo, i)
        /\ queue' = [queue EXCEPT ![i].status = EntryStatus(queue[i], replay[w].ok)]
        /\ replay' = [replay EXCEPT ![w] =
             IF replay[w].todo = {i} THEN NoReplay
             ELSE [pc |-> "write", todo |-> replay[w].todo \ {i}, ok |-> FALSE]]
  BY DEF MarkReplayed
<1>2. i \in DOMAIN queue /\ replay[w].ok \in BOOLEAN
  BY <1>1, Typed DEF ReplayState
<1>3. queue[i] \in Entry
  BY <1>2, QueueShape
<1> DEFINE s == EntryStatus(queue[i], replay[w].ok)
<1>4. s \in {"pending", "replayed"} /\ s = IF replay[w].ok THEN "replayed" ELSE queue[i].status
  BY <1>3 DEF EntryStatus, Entry
<1>5. /\ queue' \in Seq(Entry) /\ DOMAIN queue' = DOMAIN queue
      /\ \A j \in DOMAIN queue : /\ queue'[j].action = queue[j].action
                                 /\ queue'[j].key = queue[j].key
                                 /\ queue'[j].status = IF j = i THEN s ELSE queue[j].status
  <2> HIDE DEF s
  <2>1. queue' = [queue EXCEPT ![i].status = s]
    BY <1>1 DEF s
  <2>2. s \in {"pending", "replayed"}
    BY <1>4
  <2>3. /\ queue' \in Seq(Entry) /\ DOMAIN queue' = DOMAIN queue
        /\ \A j \in DOMAIN queue : /\ queue'[j].action = queue[j].action
                                   /\ queue'[j].key = queue[j].key
                                   /\ queue'[j].status = IF j = i THEN s ELSE queue[j].status
    BY <1>2, <2>1, <2>2, Marked, Zenon
  <2> QED
    BY <2>3
<1>6. \A j \in DOMAIN queue :
        queue'[j].status = IF j = i /\ replay[w].ok THEN "replayed" ELSE queue[j].status
  BY <1>4, <1>5
<1> QED
  BY <1>1, <1>2, <1>5, <1>6

LEMMA MarkReplayedTyped ==
  ASSUME TypeOK, NEW w \in Replayers, MarkReplayed(w)
  PROVE  TypeOK'
<1>1. PICK i \in replay[w].todo :
        /\ queue' \in Seq(Entry) /\ DOMAIN queue' = DOMAIN queue
        /\ replay' = [replay EXCEPT ![w] =
             IF replay[w].todo = {i} THEN NoReplay
             ELSE [pc |-> "write", todo |-> replay[w].todo \ {i}, ok |-> FALSE]]
  BY MarkReplayedDoes
<1>2. replay' \in [Replayers -> ReplayState(queue)]
  BY <1>1, Typed, NoReplayTyped DEF ReplayState
<1>3. replay' \in [Replayers -> ReplayState(queue)']
  BY <1>1, <1>2 DEF ReplayState
<1> QED
  BY <1>1, <1>3, Typed DEF MarkReplayed, bookkeeping, TypeOK, AgentState, DecisionState, ReplayState

LEMMA CrashTyped ==
  ASSUME TypeOK, Crash
  PROVE  TypeOK'
<1>1. PICK agents \in SUBSET Actions, decisions \in SUBSET Approvers, replays \in SUBSET Replayers :
        Die(agents, decisions, replays)
  BY DEF Crash
<1>2. failures' \in 0..MaxFailures
  <2>1. failures \in 0..MaxFailures /\ failures < MaxFailures /\ failures' = failures + 1 /\ MaxFailures \in Nat
    BY <1>1, OutboundAssumption, Typed DEF Die
  <2> QED
    BY ONLY <2>1
<1>3. agent' \in [Actions -> AgentState]
  BY <1>1, Typed DEF Die, AgentState
<1>4. decision' \in [Approvers -> DecisionState]
  BY <1>1, Typed, NoDecisionTyped DEF Die
<1>5. replay' \in [Replayers -> ReplayState(queue)]
  BY <1>1, Typed, NoReplayTyped DEF Die
<1> QED
  BY <1>1, <1>2, <1>3, <1>4, <1>5, Typed DEF Die, TypeOK, AgentState, DecisionState, ReplayState

LEMMA PolicyTyped ==
  ASSUME TypeOK, Register \/ \E t \in Thresholds : SetPolicy(t)
  PROVE  TypeOK'
BY Typed DEF Register, SetPolicy, TypeOK, AgentState, DecisionState, ReplayState

LEMMA NamesKept ==
  ASSUME TypeOK, Names, Next
  PROVE  Names'
<1> SUFFICES ASSUME NEW q \in Approvers, decision'[q].pc # "idle"
             PROVE  decision'[q].action \in Actions
  BY DEF Names
<1>1. decision[q] \in DecisionState /\ decision \in [Approvers -> DecisionState]
  BY Typed
<1>2. \/ decision'[q].action \in Actions
      \/ decision'[q].action = decision[q].action /\ decision[q].pc # "idle"
  <2>1. CASE decision' = decision
    BY <2>1
  <2>2. ASSUME NEW p \in Approvers, NEW a \in Actions, NEW d \in {"approve", "reject"}, BeginDecision(p, a, d)
        PROVE  <1>2!1 \/ <1>2!2
    BY <1>1, <2>2 DEF BeginDecision
  <2>3. ASSUME NEW p \in Approvers, Reject(p) \/ MarkDecided(p)
        PROVE  <1>2!1 \/ <1>2!2
    BY <1>1, <2>3 DEF Reject, MarkDecided, NoDecision
  <2>4. ASSUME NEW p \in Approvers, ExecuteApproved(p)
        PROVE  <1>2!1 \/ <1>2!2
    BY <1>1, <2>4 DEF ExecuteApproved, DecisionState
  <2>5. ASSUME NEW p \in Approvers, EnqueueApproved(p)
        PROVE  <1>2!1 \/ <1>2!2
    BY <1>1, <2>5 DEF EnqueueApproved, DecisionState
  <2>6. CASE Crash
    BY <1>1, <2>6 DEF Crash, Die, NoDecision
  <2> QED
    BY <2>1, <2>2, <2>3, <2>4, <2>5, <2>6
       DEF Next, Submit, Execute, EnqueueFailed, Record, BeginReplay, ReplayWrite, MarkReplayed,
           Register, SetPolicy
<1> QED
  BY <1>2 DEF Names

LEMMA NextTyped ==
  ASSUME TypeOK, Names, Next
  PROVE  TypeOK' /\ Names'
<1>1. ASSUME NEW a \in Actions, Submit(a) \/ Execute(a) \/ EnqueueFailed(a) \/ Record(a)
      PROVE  TypeOK'
  BY <1>1, SubmitTyped, ExecuteTyped, EnqueueFailedTyped, RecordTyped
<1>2. ASSUME NEW p \in Approvers,
             \/ \E a \in Actions, d \in {"approve", "reject"} : BeginDecision(p, a, d)
             \/ Reject(p) \/ ExecuteApproved(p) \/ EnqueueApproved(p) \/ MarkDecided(p)
      PROVE  TypeOK'
  BY <1>2, BeginDecisionTyped, RejectTyped, ExecuteApprovedTyped, EnqueueApprovedTyped, MarkDecidedTyped
<1>3. ASSUME NEW w \in Replayers, BeginReplay(w) \/ ReplayWrite(w) \/ MarkReplayed(w)
      PROVE  TypeOK'
  BY <1>3, BeginReplayTyped, ReplayWriteTyped, MarkReplayedTyped
<1>4. CASE Register \/ (\E t \in Thresholds : SetPolicy(t)) \/ Crash
  BY <1>4, PolicyTyped, CrashTyped, NamesKept DEF Next
<1> QED
  BY <1>1, <1>2, <1>3, <1>4, NamesKept DEF Next

-----------------------------------------------------------------------------
(* What any step does to the queue and to the tenant's system.             *)

\* The entry a replay does next is one.
LEMMA FirstIsOne ==
  ASSUME TypeOK, NEW w \in Replayers, NEW i, NEW j, First(replay[w].todo, i), First(replay[w].todo, j)
  PROVE  i = j /\ i \in replay[w].todo /\ i \in DOMAIN queue
<1>1. i \in DOMAIN queue /\ j \in DOMAIN queue /\ i <= j /\ j <= i /\ i \in replay[w].todo
  BY Typed DEF ReplayState, First
<1>2. i \in Nat /\ j \in Nat
  BY <1>1, QueueShape
<1> QED
  BY <1>1, <1>2

\* Entries keep their place, their action and their key.
LEMMA QueueStep ==
  ASSUME TypeOK, Names, Next
  PROVE  /\ DOMAIN queue \subseteq DOMAIN queue'
         /\ \A i \in DOMAIN queue :
              /\ queue'[i].action = queue[i].action /\ queue'[i].key = queue[i].key
              /\ \/ queue'[i].status = queue[i].status
                 \/ \E w \in Replayers : /\ MarkReplayed(w) /\ replay[w].pc = "mark" /\ replay[w].ok
                                         /\ First(replay[w].todo, i) /\ queue'[i].status = "replayed"
         /\ \A n \in DOMAIN queue' : n \notin DOMAIN queue =>
              \E a \in Actions :
                /\ queue'[n].action = a /\ queue'[n].status = "pending"
                /\ queue'[n].key \in {NoKey, Key[a]}
                /\ \A m \in DOMAIN queue' : m \notin DOMAIN queue => m = n
                /\ \/ EnqueueFailed(a)
                   \/ \E p \in Approvers : EnqueueApproved(p) /\ decision[p].action = a
<1> DEFINE Goal == /\ DOMAIN queue \subseteq DOMAIN queue'
                   /\ \A i \in DOMAIN queue :
                        /\ queue'[i].action = queue[i].action /\ queue'[i].key = queue[i].key
                        /\ \/ queue'[i].status = queue[i].status
                           \/ \E w \in Replayers : /\ MarkReplayed(w) /\ replay[w].pc = "mark" /\ replay[w].ok
                                                   /\ First(replay[w].todo, i) /\ queue'[i].status = "replayed"
                   /\ \A n \in DOMAIN queue' : n \notin DOMAIN queue =>
                        \E a \in Actions :
                          /\ queue'[n].action = a /\ queue'[n].status = "pending"
                          /\ queue'[n].key \in {NoKey, Key[a]}
                          /\ \A m \in DOMAIN queue' : m \notin DOMAIN queue => m = n
                          /\ \/ EnqueueFailed(a)
                             \/ \E p \in Approvers : EnqueueApproved(p) /\ decision[p].action = a
<1>1. ASSUME queue' = queue PROVE Goal
  BY <1>1
<1>2. ASSUME NEW a \in Actions, EnqueueFailed(a) PROVE Goal
  <2>1. Enqueue(a, Key[a]) /\ Key[a] \in Keys
    BY <1>2 DEF EnqueueFailed, Keys
  <2>2. /\ DOMAIN queue \subseteq DOMAIN queue' /\ \A i \in DOMAIN queue : queue'[i] = queue[i]
        /\ \/ queue' = queue
           \/ \E n \in DOMAIN queue' :
                /\ n \notin DOMAIN queue /\ DOMAIN queue' = DOMAIN queue \union {n}
                /\ queue'[n] = [action |-> a, key |-> Key[a], status |-> "pending"]
    BY <2>1, Enqueued
  <2>3. \A n \in DOMAIN queue' : n \notin DOMAIN queue =>
          /\ queue'[n] = [action |-> a, key |-> Key[a], status |-> "pending"]
          /\ \A m \in DOMAIN queue' : m \notin DOMAIN queue => m = n
    BY <2>2
  <2> QED
    BY <1>2, <2>2, <2>3
<1>3. ASSUME NEW p \in Approvers, EnqueueApproved(p) PROVE Goal
  <2>1. PICK a \in Actions : a = decision[p].action
    BY <1>3 DEF EnqueueApproved, Names
  <2>2. Enqueue(a, NoKey) /\ NoKey \in Keys
    BY <1>3, <2>1 DEF EnqueueApproved, Keys
  <2>3. /\ DOMAIN queue \subseteq DOMAIN queue' /\ \A i \in DOMAIN queue : queue'[i] = queue[i]
        /\ \/ queue' = queue
           \/ \E n \in DOMAIN queue' :
                /\ n \notin DOMAIN queue /\ DOMAIN queue' = DOMAIN queue \union {n}
                /\ queue'[n] = [action |-> a, key |-> NoKey, status |-> "pending"]
    BY <2>2, Enqueued
  <2>4. \A n \in DOMAIN queue' : n \notin DOMAIN queue =>
          /\ queue'[n] = [action |-> a, key |-> NoKey, status |-> "pending"]
          /\ \A m \in DOMAIN queue' : m \notin DOMAIN queue => m = n
    BY <2>3
  <2> QED
    BY <1>3, <2>1, <2>3, <2>4
<1>4. ASSUME NEW w \in Replayers, MarkReplayed(w) PROVE Goal
  <2>1. PICK i \in replay[w].todo :
          /\ i \in DOMAIN queue /\ First(replay[w].todo, i)
          /\ DOMAIN queue' = DOMAIN queue
          /\ \A j \in DOMAIN queue :
               /\ queue'[j].action = queue[j].action /\ queue'[j].key = queue[j].key
               /\ queue'[j].status = IF j = i /\ replay[w].ok THEN "replayed" ELSE queue[j].status
    BY <1>4, MarkReplayedDoes
  <2>2. replay[w].pc = "mark"
    BY <1>4 DEF MarkReplayed
  <2> QED
    BY <1>4, <2>1, <2>2
<1> HIDE DEF Goal
<1>5. Goal
  BY <1>1, <1>2, <1>3, <1>4
     DEF Next, Submit, Execute, Record, BeginDecision, Reject, ExecuteApproved, MarkDecided,
         BeginReplay, ReplayWrite, Register, SetPolicy, Crash, Die, bookkeeping
<1> QED
  BY <1>5 DEF Goal

\* An action takes effect only by the agent, by a decision about it, or by a replay of its entry.
LEMMA BooksStep ==
  ASSUME TypeOK, Names, Next, NEW a \in Actions
  PROVE  \/ applied'[a] = applied[a]
         \/ /\ applied'[a] = applied[a] + 1
            /\ \/ Execute(a)
               \/ \E p \in Approvers : ExecuteApproved(p) /\ decision[p].action = a
               \/ \E w \in Replayers : /\ ReplayWrite(w)
                                       /\ \E i \in replay[w].todo : /\ First(replay[w].todo, i)
                                                                    /\ queue[i].action = a
<1>1. CASE applied' = applied
  BY <1>1
<1>2. ASSUME NEW b \in Actions, Execute(b)
      PROVE  applied'[a] = applied[a] \/ (applied'[a] = applied[a] + 1 /\ b = a)
  BY <1>2, WriteReaches DEF Execute, Reaches
<1>3. ASSUME NEW p \in Approvers, ExecuteApproved(p)
      PROVE  applied'[a] = applied[a] \/ (applied'[a] = applied[a] + 1 /\ decision[p].action = a)
  BY <1>3, WriteReaches DEF ExecuteApproved, Reaches, Names
<1>4. ASSUME NEW w \in Replayers, ReplayWrite(w)
      PROVE  \/ applied'[a] = applied[a]
             \/ /\ applied'[a] = applied[a] + 1
                /\ \E i \in replay[w].todo : First(replay[w].todo, i) /\ queue[i].action = a
  <2>1. PICK i \in replay[w].todo, ok \in BOOLEAN :
          First(replay[w].todo, i) /\ Call(queue[i].action, ok)
    BY <1>4 DEF ReplayWrite
  <2>2. queue[i].action \in Actions
    BY <2>1, QueueShape, FirstIsOne DEF Entry
  <2>3. Reaches(queue[i].action, ok)
    BY <2>1, <2>2, CallReaches
  <2> QED
    BY <2>1, <2>3 DEF Reaches
<1> QED
  BY <1>1, <1>2, <1>3, <1>4
     DEF Next, Submit, EnqueueFailed, Record, BeginDecision, Reject, EnqueueApproved, MarkDecided,
         BeginReplay, MarkReplayed, Register, SetPolicy, Crash, Die

LEMMA BooksGrow ==
  ASSUME TypeOK, Names, Next, NEW a \in Actions
  PROVE  /\ applied[a] \in Nat /\ applied'[a] \in Nat /\ applied[a] <= applied'[a]
         /\ (applied[a] > 0 => applied'[a] > 0)
<1>1. applied[a] \in Nat /\ (applied'[a] = applied[a] \/ applied'[a] = applied[a] + 1)
  BY BooksStep, Typed
<1> QED
  BY ONLY <1>1

-----------------------------------------------------------------------------
(* Records are backed.                                                     *)

\* An entry carries no key or that of its action.
Keyed == \A i \in DOMAIN queue : queue[i].key \in {NoKey, Key[queue[i].action]}

\* Each step of a request follows from the result of the one before, and an action
\* has no row before its request is done.
AgentForm ==
  \A a \in Actions :
    /\ agent[a].pc \in {"ready", "write"} => agent[a].result = "none"
    /\ agent[a].pc \in {"write", "enqueue"} => Class[a] # "read"
    /\ agent[a].pc = "enqueue" => agent[a].result = "queued"
    /\ agent[a].pc # "done" => row[a] = "none"

DecisionForm ==
  \A p \in Approvers :
    /\ decision[p].pc = "enqueue" => decision[p].result = "queued"
    /\ decision[p].pc # "idle" => row[decision[p].action] # "none"

\* The operation took effect, or an entry for it or its earlier attempt waits.
Backed(a) == Queued(a) \/ \E b \in Actions : SameKey(a, b) /\ applied[b] > 0

\* A request that is about to report success may.
Promised ==
  /\ \A a \in Actions : agent[a].pc = "record" /\ agent[a].result \in {"ok", "queued"} => Backed(a)
  /\ \A p \in Approvers : decision[p].pc = "mark" /\ decision[p].result \in {"ok", "queued"} =>
       Backed(decision[p].action)

\* A replay that is about to settle an entry did what it says.
Settling ==
  \A w \in Replayers, i \in DOMAIN queue :
    replay[w].pc = "mark" /\ replay[w].ok /\ First(replay[w].todo, i) => applied[queue[i].action] > 0

Kept == TypeOK /\ Names /\ Keyed /\ AgentForm /\ DecisionForm /\ Promised /\ Settling /\ RecordsAreBacked

LEMMA BackedStays ==
  ASSUME Kept, Next, NEW a \in Actions, Backed(a)
  PROVE  Backed(a)'
<1>0. TypeOK /\ Names /\ Settling
  BY DEF Kept
<1>1. CASE \E b \in Actions : SameKey(a, b) /\ applied[b] > 0
  BY <1>0, <1>1, BooksGrow DEF Backed, SameKey
<1>2. CASE Queued(a)
  <2>1. PICK i \in DOMAIN queue : queue[i].status = "pending" /\ SameKey(queue[i].action, a)
    BY <1>2 DEF Queued, Pending
  <2>2. /\ i \in DOMAIN queue' /\ queue'[i].action = queue[i].action
        /\ \/ queue'[i].status = queue[i].status
           \/ \E w \in Replayers : replay[w].pc = "mark" /\ replay[w].ok /\ First(replay[w].todo, i)
    BY <1>0, <2>1, QueueStep
  <2>3. CASE queue'[i].status = queue[i].status
    BY <2>1, <2>2, <2>3 DEF Backed, Queued, Pending, SameKey
  <2>4. CASE \E w \in Replayers : replay[w].pc = "mark" /\ replay[w].ok /\ First(replay[w].todo, i)
    <3> PICK b \in Actions : b = queue[i].action
      BY <1>0, <2>1, QueueShape DEF Entry
    <3>1. applied[b] > 0 /\ SameKey(a, b)
      BY <1>0, <2>1, <2>4 DEF Settling, SameKey
    <3>2. applied'[b] > 0
      BY <1>0, <3>1, BooksGrow
    <3> QED
      BY <3>1, <3>2 DEF Backed, SameKey
  <2> QED
    BY <2>2, <2>3, <2>4
<1> QED
  BY <1>1, <1>2 DEF Backed

LEMMA KeyedKeeps ==
  ASSUME Kept, Next
  PROVE  Keyed'
<1> SUFFICES ASSUME NEW i \in DOMAIN queue' PROVE queue'[i].key \in {NoKey, Key[queue'[i].action]}
  BY DEF Keyed
<1>1. CASE i \in DOMAIN queue
  BY <1>1, QueueStep DEF Kept, Keyed
<1>2. CASE i \notin DOMAIN queue
  BY <1>2, QueueStep DEF Kept
<1> QED
  BY <1>1, <1>2

LEMMA FormsKeep ==
  ASSUME Kept, Next
  PROVE  AgentForm' /\ DecisionForm'
<1>0. /\ agent \in [Actions -> AgentState] /\ decision \in [Approvers -> DecisionState]
      /\ row \in [Actions -> RowStatus] /\ TypeOK /\ Names /\ AgentForm /\ DecisionForm
  BY Typed DEF Kept
<1>1. ASSUME NEW a \in Actions, Submit(a) PROVE AgentForm' /\ DecisionForm'
  <2>1. agent' = [agent EXCEPT ![a] = [agent[a] EXCEPT !.pc = agent'[a].pc]]
        /\ agent'[a].pc \in {"write", "record"} /\ agent'[a].result = agent[a].result
        /\ (agent'[a].pc = "write" => Class[a] # "read")
    BY <1>0, <1>1 DEF Submit, AgentState
  <2>2. row' = row /\ decision' = decision /\ agent[a].pc = "ready"
    BY <1>1 DEF Submit
  <2> QED
    BY <1>0, <2>1, <2>2 DEF AgentForm, DecisionForm
<1>2. ASSUME NEW a \in Actions, Execute(a) PROVE AgentForm' /\ DecisionForm'
  <2>1. PICK next \in {"record", "enqueue"}, result \in Result :
          /\ WriteThrough(a, next, result)
          /\ agent' = [agent EXCEPT ![a] = [pc |-> next, result |-> result]]
    BY <1>2 DEF Execute
  <2>2. row' = row /\ decision' = decision /\ agent[a].pc = "write"
    BY <1>2 DEF Execute
  <2>3. next = "enqueue" => result = "queued"
    BY <1>0, <2>1, WriteReaches
  <2> QED
    BY <1>0, <2>1, <2>2, <2>3 DEF AgentForm, DecisionForm
<1>3. ASSUME NEW a \in Actions, EnqueueFailed(a) PROVE AgentForm' /\ DecisionForm'
  <2>1. agent' = [agent EXCEPT ![a] = [agent[a] EXCEPT !.pc = "record"]] /\ row' = row /\ decision' = decision
        /\ agent[a].pc = "enqueue" /\ agent[a] \in AgentState
    BY <1>0, <1>3 DEF EnqueueFailed
  <2> QED
    BY <1>0, <2>1 DEF AgentForm, DecisionForm, AgentState
<1>4. ASSUME NEW a \in Actions, Record(a) PROVE AgentForm' /\ DecisionForm'
  <2>1. agent' = [agent EXCEPT ![a] = [agent[a] EXCEPT !.pc = "done"]] /\ decision' = decision
        /\ agent[a] \in AgentState /\ (\A b \in Actions : b # a => row'[b] = row[b]) /\ row'[a] # "none"
    BY <1>0, <1>4 DEF Record
  <2> QED
    BY <1>0, <2>1 DEF AgentForm, DecisionForm, AgentState, Names
<1>5. ASSUME NEW p \in Approvers, NEW a \in Actions, NEW d \in {"approve", "reject"}, BeginDecision(p, a, d)
      PROVE  AgentForm' /\ DecisionForm'
  BY <1>0, <1>5 DEF BeginDecision, AwaitsApproval, AgentForm, DecisionForm
<1>6. ASSUME NEW p \in Approvers, Reject(p) \/ MarkDecided(p) PROVE AgentForm' /\ DecisionForm'
  <2>1. decision' = [decision EXCEPT ![p] = NoDecision] /\ agent' = agent
        /\ decision[p].action \in Actions /\ row[decision[p].action] # "none"
    BY <1>0, <1>6 DEF Reject, MarkDecided, Names, DecisionForm
  <2>2. /\ \A b \in Actions : b # decision[p].action => row'[b] = row[b]
        /\ row'[decision[p].action] # "none"
    BY <1>0, <1>6, <2>1 DEF Reject, MarkDecided, StatusAfter
  <2> QED
    BY <1>0, <2>1, <2>2 DEF AgentForm, DecisionForm, NoDecision, Names
<1>7. ASSUME NEW p \in Approvers, ExecuteApproved(p) PROVE AgentForm' /\ DecisionForm'
  <2>1. PICK next \in {"record", "enqueue"}, result \in Result :
          /\ WriteThrough(decision[p].action, next, result)
          /\ decision' = [decision EXCEPT ![p] =
               [decision[p] EXCEPT !.pc = IF next = "record" THEN "mark" ELSE next, !.result = result]]
    BY <1>7 DEF ExecuteApproved
  <2>2. row' = row /\ agent' = agent /\ decision[p].pc = "write" /\ decision[p].action \in Actions
        /\ decision[p] \in DecisionState
    BY <1>0, <1>7 DEF ExecuteApproved, Names
  <2>3. next = "enqueue" => result = "queued"
    BY <1>0, <2>1, <2>2, WriteReaches
  <2> QED
    BY <1>0, <2>1, <2>2, <2>3 DEF AgentForm, DecisionForm, DecisionState
<1>8. ASSUME NEW p \in Approvers, EnqueueApproved(p) PROVE AgentForm' /\ DecisionForm'
  <2>1. decision' = [decision EXCEPT ![p] = [decision[p] EXCEPT !.pc = "mark"]] /\ row' = row /\ agent' = agent
        /\ decision[p].pc = "enqueue" /\ decision[p] \in DecisionState
    BY <1>0, <1>8 DEF EnqueueApproved
  <2> QED
    BY <1>0, <2>1 DEF AgentForm, DecisionForm, DecisionState
<1>9. CASE Crash
  <2>1. /\ row' = row
        /\ \A a \in Actions : agent'[a] = agent[a] \/ agent'[a].pc = "done"
        /\ \A p \in Approvers : decision'[p] = decision[p] \/ decision'[p].pc = "idle"
    BY <1>0, <1>9 DEF Crash, Die, NoDecision, AgentState
  <2> QED
    BY <1>0, <2>1 DEF AgentForm, DecisionForm
<1>10. CASE UNCHANGED <<agent, decision, row>>
  BY <1>0, <1>10 DEF AgentForm, DecisionForm
<1> QED
  BY <1>1, <1>2, <1>3, <1>4, <1>5, <1>6, <1>7, <1>8, <1>9, <1>10
     DEF Next, BeginReplay, ReplayWrite, MarkReplayed, Register, SetPolicy, bookkeeping

LEMMA EnqueuedIsBacked ==
  ASSUME Kept, NEW a \in Actions, NEW key \in {NoKey, Key[a]}, Enqueue(a, key), UNCHANGED applied
  PROVE  Backed(a)'
<1>0. TypeOK /\ Keyed /\ RecordsAreBacked /\ key \in Keys
  BY DEF Kept, Keys
<1>1. CASE key # NoKey /\ queue' = queue /\ \E i \in DOMAIN queue : queue[i].key = key
  <2>1. PICK i \in DOMAIN queue : queue[i].key = key
    BY <1>1
  <2>2. PICK b \in Actions : b = queue[i].action
    BY <1>0, QueueShape DEF Entry
  <2>3. Key[b] = Key[a] /\ Key[a] # NoKey
    BY <1>0, <1>1, <2>1, <2>2 DEF Keyed
  <2>4. queue[i].status \in {"pending", "replayed"}
    BY <1>0, QueueShape DEF Entry
  <2>5. CASE queue[i].status = "pending"
    BY <1>1, <2>2, <2>3, <2>5 DEF Backed, Queued, Pending, SameKey
  <2>6. CASE queue[i].status = "replayed"
    <3>1. applied[b] > 0
      BY <1>0, <2>2, <2>6 DEF RecordsAreBacked, ReplayedIsApplied
    <3> QED
      BY <2>3, <3>1 DEF Backed, SameKey
  <2> QED
    BY <2>4, <2>5, <2>6
<1>2. CASE \E n \in DOMAIN queue' : queue'[n] = [action |-> a, key |-> key, status |-> "pending"]
  BY <1>2 DEF Backed, Queued, Pending, SameKey
<1> QED
  BY <1>0, <1>1, <1>2, Enqueued

LEMMA AppliedIsBacked ==
  ASSUME NEW a \in Actions, applied'[a] > 0
  PROVE  Backed(a)'
BY DEF Backed, SameKey

LEMMA PromisedKeeps ==
  ASSUME Kept, Next
  PROVE  Promised'
<1>0. /\ agent \in [Actions -> AgentState] /\ decision \in [Approvers -> DecisionState]
      /\ TypeOK /\ Names /\ AgentForm /\ DecisionForm /\ Promised
      /\ applied \in [Actions -> Nat]
  BY Typed DEF Kept
<1>1. ASSUME NEW a \in Actions, agent'[a].pc = "record", agent'[a].result \in {"ok", "queued"}
      PROVE  Backed(a)'
  <2>1. CASE agent'[a] = agent[a]
    BY <1>0, <1>1, <2>1, BackedStays DEF Promised
  <2>2. CASE Submit(a)
    <3>1. agent'[a].result = "none"
      BY <1>0, <2>2 DEF Submit, AgentForm, AgentState
    <3> QED
      BY <1>1, <3>1
  <2>3. CASE Execute(a)
    <3>1. PICK next \in {"record", "enqueue"}, result \in Result :
            WriteThrough(a, next, result) /\ agent' = [agent EXCEPT ![a] = [pc |-> next, result |-> result]]
      BY <2>3 DEF Execute
    <3>2. next = "record" /\ result # "failed"
      BY <1>0, <1>1, <3>1
    <3>3. applied'[a] = applied[a] + 1 /\ applied[a] \in Nat
      BY <1>0, <3>1, <3>2, WriteReaches DEF Reaches
    <3>4. applied'[a] > 0
      BY ONLY <3>3
    <3> QED
      BY <3>4, AppliedIsBacked
  <2>4. CASE EnqueueFailed(a)
    BY <2>4, EnqueuedIsBacked DEF EnqueueFailed
  <2>5. CASE Record(a) \/ Crash
    <3>1. agent'[a] = agent[a] \/ agent'[a].pc = "done"
      BY <1>0, <2>5 DEF Record, Crash, Die, AgentState
    <3> QED
      BY <1>1, <2>1, <3>1
  <2>6. CASE ~(Submit(a) \/ Execute(a) \/ EnqueueFailed(a) \/ Record(a) \/ Crash)
    <3>2. ASSUME NEW b \in Actions, Submit(b) \/ Execute(b) \/ EnqueueFailed(b) \/ Record(b)
          PROVE  agent'[a] = agent[a]
      BY <1>0, <2>6, <3>2 DEF Submit, Execute, EnqueueFailed, Record
    <3>3. ASSUME agent' = agent PROVE agent'[a] = agent[a]
      BY <3>3
    <3>1. agent'[a] = agent[a]
      BY <2>6, <3>2, <3>3
         DEF Next, BeginDecision, Reject, ExecuteApproved, EnqueueApproved, MarkDecided, BeginReplay,
             ReplayWrite, MarkReplayed, Register, SetPolicy
    <3> QED
      BY <2>1, <3>1
  <2> QED
    BY <2>2, <2>3, <2>4, <2>5, <2>6
<1>2. ASSUME NEW p \in Approvers, decision'[p].pc = "mark", decision'[p].result \in {"ok", "queued"},
             NEW a \in Actions, a = decision'[p].action
      PROVE  Backed(a)'
  <2>1. CASE decision'[p] = decision[p]
    BY <1>0, <1>2, <2>1, BackedStays DEF Promised
  <2>2. CASE ExecuteApproved(p)
    <3>1. PICK next \in {"record", "enqueue"}, result \in Result :
            /\ WriteThrough(decision[p].action, next, result)
            /\ decision' = [decision EXCEPT ![p] =
                 [decision[p] EXCEPT !.pc = IF next = "record" THEN "mark" ELSE next, !.result = result]]
      BY <2>2 DEF ExecuteApproved
    <3>2. next = "record" /\ result # "failed" /\ a = decision[p].action
      BY <1>0, <1>2, <3>1 DEF DecisionState
    <3>3. applied'[a] = applied[a] + 1 /\ applied[a] \in Nat
      BY <1>0, <3>1, <3>2, WriteReaches DEF Reaches
    <3>4. applied'[a] > 0
      BY ONLY <3>3
    <3> QED
      BY <3>4, AppliedIsBacked
  <2>3. CASE EnqueueApproved(p)
    <3>1. a = decision[p].action
      BY <1>0, <1>2, <2>3 DEF EnqueueApproved, DecisionState
    <3> QED
      BY <2>3, <3>1, EnqueuedIsBacked DEF EnqueueApproved
  <2>4. CASE ~ExecuteApproved(p) /\ ~EnqueueApproved(p)
    <3>1. decision'[p] = decision[p] \/ decision'[p].pc # "mark"
      <4>1. ASSUME NEW q \in Approvers, NEW b \in Actions, NEW d \in {"approve", "reject"}, BeginDecision(q, b, d)
            PROVE  decision'[p] = decision[p] \/ decision'[p].pc # "mark"
        BY <1>0, <4>1 DEF BeginDecision
      <4>2. ASSUME NEW q \in Approvers, Reject(q) \/ MarkDecided(q)
            PROVE  decision'[p] = decision[p] \/ decision'[p].pc # "mark"
        BY <1>0, <4>2 DEF Reject, MarkDecided, NoDecision
      <4>3. ASSUME NEW q \in Approvers, ExecuteApproved(q) \/ EnqueueApproved(q)
            PROVE  decision'[p] = decision[p]
        BY <1>0, <2>4, <4>3 DEF ExecuteApproved, EnqueueApproved
      <4>4. CASE Crash
        BY <1>0, <4>4 DEF Crash, Die, NoDecision
      <4>5. CASE decision' = decision
        BY <4>5
      <4> QED
        BY <4>1, <4>2, <4>3, <4>4, <4>5
           DEF Next, Submit, Execute, EnqueueFailed, Record, BeginReplay, ReplayWrite, MarkReplayed,
               Register, SetPolicy
    <3> QED
      BY <1>2, <2>1, <3>1
  <2> QED
    BY <2>2, <2>3, <2>4
<1>3. ASSUME NEW p \in Approvers, decision'[p].pc = "mark", decision'[p].result \in {"ok", "queued"}
      PROVE  Backed(decision[p].action)'
  <2>1. PICK a \in Actions : a = decision'[p].action
    BY <1>0, <1>3, NextTyped DEF Names
  <2>2. Backed(a)'
    BY <1>2, <1>3, <2>1
  <2> QED
    BY <2>1, <2>2 DEF Backed, Queued, SameKey
<1> QED
  BY <1>1, <1>3 DEF Promised

LEMMA SettlingKeeps ==
  ASSUME Kept, Next
  PROVE  Settling'
<1>0. TypeOK /\ Names /\ Settling /\ TypeOK' /\ replay \in [Replayers -> ReplayState(queue)]
      /\ applied \in [Actions -> Nat]
  BY NextTyped, Typed DEF Kept
<1> SUFFICES ASSUME NEW w \in Replayers, NEW i \in DOMAIN queue',
                    replay'[w].pc = "mark", replay'[w].ok, First(replay'[w].todo, i)
             PROVE  applied'[queue'[i].action] > 0
  BY DEF Settling
<1>1. CASE replay'[w] = replay[w]
  <2>1. i \in DOMAIN queue /\ replay[w].pc = "mark" /\ replay[w].ok /\ First(replay[w].todo, i)
    BY <1>0, <1>1 DEF ReplayState, First
  <2>2. PICK a \in Actions : a = queue[i].action
    BY <1>0, <2>1, QueueShape DEF Entry
  <2>3. applied[a] > 0
    BY <1>0, <2>1, <2>2 DEF Settling
  <2>4. applied'[a] > 0
    BY <1>0, <2>3, BooksGrow
  <2>5. queue'[i].action = a
    BY <1>0, <2>1, <2>2, QueueStep
  <2> QED
    BY <2>4, <2>5
<1>2. CASE ReplayWrite(w)
  <2>1. PICK j \in replay[w].todo, ok \in BOOLEAN :
          /\ First(replay[w].todo, j) /\ Call(queue[j].action, ok)
          /\ replay' = [replay EXCEPT ![w] = [replay[w] EXCEPT !.pc = "mark", !.ok = ok]]
    BY <1>2 DEF ReplayWrite
  <2>2. ok /\ replay'[w].todo = replay[w].todo
    BY <1>0, <2>1 DEF ReplayState
  <2>7. First(replay[w].todo, i)
    BY <2>2
  <2>3. i = j /\ j \in DOMAIN queue /\ queue' = queue
    BY <1>0, <1>2, <2>1, <2>7, FirstIsOne DEF ReplayWrite
  <2>4. PICK a \in Actions : a = queue[j].action
    BY <1>0, <2>3, QueueShape DEF Entry
  <2>5. applied'[a] = applied[a] + 1 /\ applied[a] \in Nat
    BY <1>0, <2>1, <2>2, <2>4, CallReaches DEF Reaches
  <2>6. applied'[a] > 0
    BY ONLY <2>5
  <2> QED
    BY <2>3, <2>4, <2>6
<1>3. CASE ~ReplayWrite(w)
  <2>1. replay'[w] = replay[w] \/ replay'[w].pc # "mark"
    <3>1. ASSUME NEW v \in Replayers, BeginReplay(v)
          PROVE  replay'[w] = replay[w] \/ replay'[w].pc # "mark"
      BY <1>0, <3>1 DEF BeginReplay
    <3>2. ASSUME NEW v \in Replayers, ReplayWrite(v)
          PROVE  replay'[w] = replay[w]
      BY <1>0, <1>3, <3>2 DEF ReplayWrite
    <3>3. ASSUME NEW v \in Replayers, MarkReplayed(v)
          PROVE  replay'[w] = replay[w] \/ replay'[w].pc # "mark"
      BY <1>0, <3>3 DEF MarkReplayed, NoReplay
    <3>4. CASE Crash
      BY <1>0, <3>4 DEF Crash, Die, NoReplay
    <3>5. CASE replay' = replay
      BY <3>5
    <3> QED
      BY <3>1, <3>2, <3>3, <3>4, <3>5
         DEF Next, Submit, Execute, EnqueueFailed, Record, BeginDecision, Reject, ExecuteApproved,
             EnqueueApproved, MarkDecided, Register, SetPolicy
  <2> QED
    BY <1>1, <2>1
<1> QED
  BY <1>2, <1>3

LEMMA RecordsKeep ==
  ASSUME Kept, Next
  PROVE  RecordsAreBacked'
<1>0. /\ TypeOK /\ Names /\ Settling /\ Promised /\ RecordsAreBacked /\ TypeOK'
      /\ agent \in [Actions -> AgentState] /\ decision \in [Approvers -> DecisionState]
      /\ row \in [Actions -> RowStatus]
  BY NextTyped, Typed DEF Kept
<1>1. ASSUME NEW i \in DOMAIN queue', queue'[i].status = "replayed"
      PROVE  applied'[queue'[i].action] > 0
  <2>1. i \in DOMAIN queue
    BY <1>0, <1>1, QueueStep
  <2>2. PICK a \in Actions : a = queue[i].action
    BY <1>0, <2>1, QueueShape DEF Entry
  <2>3. \/ queue'[i].status = queue[i].status
        \/ \E w \in Replayers : replay[w].pc = "mark" /\ replay[w].ok /\ First(replay[w].todo, i)
    BY <1>0, <2>1, QueueStep
  <2>4. applied[a] > 0
    BY <1>0, <1>1, <2>1, <2>2, <2>3 DEF RecordsAreBacked, ReplayedIsApplied, Settling
  <2>5. applied'[a] > 0
    BY <1>0, <2>4, BooksGrow
  <2>6. queue'[i].action = a
    BY <1>0, <2>1, <2>2, QueueStep
  <2> QED
    BY <2>5, <2>6
<1>2. ASSUME NEW a \in Actions, row'[a] \in {"auto_executed", "approved"}, Class[a] # "read"
      PROVE  Backed(a)'
  <2>1. Backed(a)
    <3>1. CASE row'[a] = row[a]
      BY <1>0, <1>2, <3>1 DEF RecordsAreBacked, ExecutedIsDurable, Backed
    <3>2. CASE Record(a)
      <4>1. agent[a].pc = "record" /\ agent[a].result \in {"ok", "queued"}
        BY <1>0, <1>2, <3>2 DEF Record, AgentState, Result
      <4> QED
        BY <1>0, <4>1 DEF Promised
    <3>3. ASSUME NEW p \in Approvers, MarkDecided(p), decision[p].action = a
          PROVE  Backed(a)
      <4>1. decision[p].pc = "mark" /\ decision[p].result \in {"ok", "queued"}
        BY <1>0, <1>2, <3>3 DEF MarkDecided, StatusAfter
      <4> QED
        BY <1>0, <3>3, <4>1 DEF Promised
    <3>4. CASE ~Record(a) /\ ~\E p \in Approvers : MarkDecided(p) /\ decision[p].action = a
      <4>1. row'[a] = row[a] \/ row'[a] = "rejected"
        <5>1. ASSUME NEW b \in Actions, Record(b) PROVE row'[a] = row[a]
          BY <1>0, <3>4, <5>1 DEF Record
        <5>2. ASSUME NEW p \in Approvers, Reject(p) PROVE row'[a] = row[a] \/ row'[a] = "rejected"
          BY <1>0, <5>2 DEF Reject
        <5>3. ASSUME NEW p \in Approvers, MarkDecided(p) PROVE row'[a] = row[a]
          BY <1>0, <3>4, <5>3 DEF MarkDecided
        <5>4. CASE row' = row
          BY <5>4
        <5> QED
          BY <5>1, <5>2, <5>3, <5>4
             DEF Next, Submit, Execute, EnqueueFailed, BeginDecision, ExecuteApproved, EnqueueApproved,
                 BeginReplay, ReplayWrite, MarkReplayed, Register, SetPolicy, Crash, Die
      <4> QED
        BY <1>2, <3>1, <4>1
    <3> QED
      BY <3>2, <3>3, <3>4
  <2> QED
    BY <2>1, BackedStays
<1> QED
  BY <1>1, <1>2 DEF RecordsAreBacked, ReplayedIsApplied, ExecutedIsDurable, Backed

LEMMA InitKept == Init => Kept
<1> SUFFICES ASSUME Init PROVE Kept
  OBVIOUS
<1>1. /\ DOMAIN queue = {} /\ \A a \in Actions : row[a] = "none"
      /\ \A a \in Actions : agent[a] = [pc |-> "ready", result |-> "none"]
      /\ \A p \in Approvers : decision[p].pc = "idle"
      /\ \A w \in Replayers : replay[w].pc = "idle"
  BY DEF Init, NoDecision, NoReplay
<1>2. TypeOK /\ Names
  BY InitTyped
<1>3. Keyed /\ AgentForm /\ DecisionForm /\ Promised /\ Settling
  BY <1>1 DEF Keyed, AgentForm, DecisionForm, Promised, Settling
<1>4. RecordsAreBacked
  BY <1>1 DEF RecordsAreBacked, ExecutedIsDurable, ReplayedIsApplied
<1> QED
  BY <1>2, <1>3, <1>4 DEF Kept

LEMMA NextKept ==
  ASSUME Kept, [Next]_vars
  PROVE  Kept'
<1>1. CASE Next
  <2>1. TypeOK' /\ Names'
    BY <1>1, NextTyped DEF Kept
  <2> QED
    BY <1>1, <2>1, KeyedKeeps, FormsKeep, PromisedKeeps, SettlingKeeps, RecordsKeep DEF Kept
<1>2. CASE UNCHANGED vars
  BY <1>2 DEF vars, Kept, TypeOK, Names, Keyed, AgentForm, DecisionForm, Promised, Backed, Queued,
              Pending, SameKey, Settling, RecordsAreBacked, ExecutedIsDurable, ReplayedIsApplied
<1> QED
  BY <1>1, <1>2

\* In every reachable state each record of an execution or a replay has a write, a queue entry or a job
\* about to settle it behind it, for any actions, approvers and replays.
THEOREM Invariant == Spec => []Kept
<1>1. Init => Kept
  BY InitKept
<1>2. Kept /\ [Next]_vars => Kept'
  BY NextKept
<1> QED
  BY <1>1, <1>2, PTL DEF Spec

\* Every reachable state of the gate, its inbox and its queue is well typed.
THEOREM TypeCorrect == Spec => []TypeOK
<1>1. Kept => TypeOK
  BY DEF Kept
<1> QED
  BY <1>1, Invariant, PTL

\* What a row or a queue entry says is done, is done or on its way: whatever answers
\* get lost, requests die and replays overlap, and also when a retry found the entry
\* of its first attempt in the queue (connectors.ts, enqueueWrite).
THEOREM RecordsHold == Spec => []RecordsAreBacked
<1>1. Kept => RecordsAreBacked
  BY DEF Kept
<1> QED
  BY <1>1, Invariant, PTL

-----------------------------------------------------------------------------
(* No money moves unsanctioned.                                            *)

\* A financial action was approved, or its amount was within some policy.
Cleared(a) ==
  Class[a] = "irreversible_financial" =>
    a \in sanctioned \/ (Amount[a] # Unknown /\ Amount[a] <= highest)

\* Whatever has moved, is queued or is about to be written was cleared.
AllCleared ==
  /\ threshold <= highest
  /\ \A i \in DOMAIN queue : Cleared(queue[i].action)
  /\ \A a \in Actions : applied[a] > 0 \/ agent[a].pc \in {"write", "enqueue"} => Cleared(a)
  /\ \A p \in Approvers : decision[p].pc \in {"write", "enqueue"} => decision[p].action \in sanctioned

LEMMA PolicyStep ==
  ASSUME TypeOK, Next
  PROVE  /\ threshold \in Nat /\ highest \in Nat /\ highest' \in Nat /\ highest <= highest'
         /\ sanctioned \subseteq sanctioned'
         /\ (threshold <= highest => threshold' <= highest')
         /\ (raced => raced')
<1>1. /\ threshold \in Nat /\ highest \in Nat /\ Thresholds \subseteq Nat
  <2>1. Thresholds \subseteq Nat
    BY OutboundAssumption
  <2>2. threshold \in Thresholds \union {0} /\ highest \in Thresholds \union {0}
    BY DEF TypeOK
  <2> QED
    BY <2>1, <2>2
<1>2. CASE \E t \in Thresholds : SetPolicy(t)
  <2>1. PICK t \in Thresholds : SetPolicy(t)
    BY <1>2
  <2>2. t \in Nat /\ threshold' = t /\ highest' = IF t > highest THEN t ELSE highest
    BY <1>1, <2>1 DEF SetPolicy
  <2>3. highest' \in Nat /\ highest <= highest' /\ threshold' <= highest'
    BY ONLY <1>1, <2>2
  <2> QED
    BY <1>1, <2>1, <2>3 DEF SetPolicy
<1>3. CASE ~\E t \in Thresholds : SetPolicy(t)
  <2> DEFINE Goal == /\ threshold' = threshold /\ highest' = highest
                     /\ sanctioned \subseteq sanctioned' /\ (raced => raced')
  <2>1. ASSUME NEW a \in Actions, Submit(a) \/ Execute(a) \/ EnqueueFailed(a) \/ Record(a) PROVE Goal
    <3>1. UNCHANGED <<bookkeeping, raced>>
      BY <2>1 DEF Submit, Execute, EnqueueFailed, Record
    <3> QED
      BY <3>1 DEF bookkeeping
  <2>2. ASSUME NEW p \in Approvers, NEW a \in Actions, NEW d \in {"approve", "reject"}, BeginDecision(p, a, d)
        PROVE  Goal
    BY <2>2 DEF BeginDecision
  <2>3. ASSUME NEW p \in Approvers, Reject(p) \/ ExecuteApproved(p) \/ EnqueueApproved(p) \/ MarkDecided(p)
        PROVE  Goal
    <3>1. UNCHANGED <<bookkeeping, raced>>
      BY <2>3 DEF Reject, ExecuteApproved, EnqueueApproved, MarkDecided
    <3> QED
      BY <3>1 DEF bookkeeping
  <2>4. ASSUME NEW w \in Replayers, BeginReplay(w) \/ ReplayWrite(w) \/ MarkReplayed(w) PROVE Goal
    <3>1. UNCHANGED bookkeeping
      BY <2>4 DEF BeginReplay, ReplayWrite, MarkReplayed
    <3>2. raced => raced'
      <4>1. CASE BeginReplay(w)
        BY <4>1, ZenonT(20) DEF BeginReplay
      <4>2. CASE ReplayWrite(w) \/ MarkReplayed(w)
        <5>1. raced' = raced
          BY <4>2 DEF ReplayWrite, MarkReplayed
        <5> QED
          BY <5>1
      <4> QED
        BY <2>4, <4>1, <4>2
    <3>3. threshold' = threshold /\ highest' = highest /\ sanctioned' = sanctioned
      BY <3>1 DEF bookkeeping
    <3> QED
      BY <3>2, <3>3
  <2>5. ASSUME Register PROVE Goal
    <3>1. threshold' = threshold /\ highest' = highest /\ sanctioned' = sanctioned /\ raced' = raced
      BY <2>5 DEF Register
    <3> QED
      BY <3>1
  <2>6. ASSUME Crash PROVE Goal
    <3>1. threshold' = threshold /\ highest' = highest /\ sanctioned' = sanctioned /\ raced' = raced
      BY <2>6 DEF Crash, Die
    <3> QED
      BY <3>1
  <2> HIDE DEF Goal
  <2>7. Goal
    <3>1. \/ \E a \in Actions : Submit(a) \/ Execute(a) \/ EnqueueFailed(a) \/ Record(a)
          \/ \E p \in Approvers, a \in Actions, d \in {"approve", "reject"} : BeginDecision(p, a, d)
          \/ \E p \in Approvers : Reject(p) \/ ExecuteApproved(p) \/ EnqueueApproved(p) \/ MarkDecided(p)
          \/ \E w \in Replayers : BeginReplay(w) \/ ReplayWrite(w) \/ MarkReplayed(w)
          \/ Register
          \/ Crash
      BY <1>3 DEF Next
    <3> QED
      BY <2>1, <2>2, <2>3, <2>4, <2>5, <2>6, <3>1
  <2> QED
    BY <1>1, <2>7 DEF Goal
<1> QED
  BY <1>2, <1>3

LEMMA ClearedStays ==
  ASSUME TypeOK, Next, NEW a \in Actions, Cleared(a)
  PROVE  Cleared(a)'
<1>1. highest \in Nat /\ highest' \in Nat /\ highest <= highest' /\ sanctioned \subseteq sanctioned'
  BY PolicyStep
<1>2. Amount[a] # Unknown => Amount[a] \in Nat
  BY OutboundAssumption
<1> QED
  BY <1>1, <1>2 DEF Cleared

LEMMA ClearedKeeps ==
  ASSUME Kept, AllCleared, Next
  PROVE  AllCleared'
<1> DEFINE Free(a) ==
      Class[a] = "irreversible_financial" =>
        a \in sanctioned' \/ (Amount[a] # Unknown /\ Amount[a] <= highest')
<1>0. /\ TypeOK /\ Names /\ AgentForm /\ Names'
      /\ agent \in [Actions -> AgentState] /\ decision \in [Approvers -> DecisionState]
      /\ applied \in [Actions -> Nat]
  BY NextTyped, Typed DEF Kept
<1>9. ASSUME NEW a \in Actions, Cleared(a) PROVE Free(a)
  BY <1>0, <1>9, ClearedStays DEF Cleared
<1> HIDE DEF Free
<1>1. threshold' <= highest'
  BY <1>0, PolicyStep DEF AllCleared
<1>2. ASSUME NEW i \in DOMAIN queue' PROVE Free(queue'[i].action)
  <2>1. PICK a \in Actions : a = queue'[i].action
    <3>1. CASE i \in DOMAIN queue
      BY <1>0, <3>1, QueueStep, QueueShape DEF Entry
    <3>2. CASE i \notin DOMAIN queue
      BY <1>0, <3>2, QueueStep
    <3> QED
      BY <3>1, <3>2
  <2>2. Cleared(a)
    <3>1. CASE i \in DOMAIN queue
      BY <1>0, <2>1, <3>1, QueueStep DEF AllCleared
    <3>2. CASE i \notin DOMAIN queue
      <4>1. \/ EnqueueFailed(a)
            \/ \E p \in Approvers : EnqueueApproved(p) /\ decision[p].action = a
        BY <1>0, <2>1, <3>2, QueueStep
      <4> QED
        BY <4>1 DEF EnqueueFailed, EnqueueApproved, AllCleared, Cleared
    <3> QED
      BY <3>1, <3>2
  <2> QED
    BY <1>9, <2>1, <2>2
<1>3. ASSUME NEW a \in Actions, applied'[a] > 0 PROVE Cleared(a)
  <2>1. CASE applied'[a] = applied[a]
    BY <1>3, <2>1 DEF AllCleared
  <2>2. CASE Execute(a)
    BY <2>2 DEF Execute, AllCleared
  <2>3. CASE \E p \in Approvers : ExecuteApproved(p) /\ decision[p].action = a
    BY <2>3 DEF ExecuteApproved, AllCleared, Cleared
  <2>4. ASSUME NEW w \in Replayers, NEW i \in replay[w].todo, First(replay[w].todo, i), queue[i].action = a
        PROVE  Cleared(a)
    <3>1. i \in DOMAIN queue
      BY <1>0, <2>4, FirstIsOne
    <3> QED
      BY <2>4, <3>1 DEF AllCleared
  <2> QED
    BY <1>0, <2>1, <2>2, <2>3, <2>4, BooksStep
<1>4. ASSUME NEW a \in Actions, agent'[a].pc \in {"write", "enqueue"} PROVE Cleared(a)
  <2>1. CASE agent'[a] = agent[a]
    BY <1>4, <2>1 DEF AllCleared
  <2>2. CASE Submit(a)
    <3>1. \/ Class[a] = "reversible_write"
          \/ Class[a] = "irreversible_financial" /\ UnderThreshold(a)
      BY <1>0, <1>4, <2>2 DEF Submit, AgentState
    <3>2. CASE Class[a] = "reversible_write"
      BY <3>2 DEF Cleared
    <3>3. CASE UnderThreshold(a)
      <4>1. Amount[a] # Unknown /\ Amount[a] \in Nat /\ Amount[a] <= threshold
        BY <3>3, OutboundAssumption DEF UnderThreshold
      <4>2. threshold \in Nat /\ highest \in Nat /\ threshold <= highest
        BY <1>0, PolicyStep DEF AllCleared
      <4>3. Amount[a] <= highest
        BY <4>1, <4>2
      <4> QED
        BY <4>1, <4>3 DEF Cleared
    <3> QED
      BY <3>1, <3>2, <3>3
  <2>3. CASE Execute(a)
    BY <2>3 DEF Execute, AllCleared
  <2>4. CASE EnqueueFailed(a) \/ Record(a)
    BY <1>0, <1>4, <2>4 DEF EnqueueFailed, Record, AgentState
  <2>5. CASE Crash
    <3>1. agent'[a] = agent[a] \/ agent'[a].pc = "done"
      BY <1>0, <2>5 DEF Crash, Die, AgentState
    <3> QED
      BY <1>4, <2>1, <3>1
  <2>6. CASE ~(Submit(a) \/ Execute(a) \/ EnqueueFailed(a) \/ Record(a) \/ Crash)
    <3>1. ASSUME NEW b \in Actions, Submit(b) \/ Execute(b) \/ EnqueueFailed(b) \/ Record(b)
          PROVE  agent'[a] = agent[a]
      BY <1>0, <2>6, <3>1 DEF Submit, Execute, EnqueueFailed, Record
    <3>2. ASSUME agent' = agent PROVE agent'[a] = agent[a]
      BY <3>2
    <3>3. agent'[a] = agent[a]
      BY <2>6, <3>1, <3>2
         DEF Next, BeginDecision, Reject, ExecuteApproved, EnqueueApproved, MarkDecided, BeginReplay,
             ReplayWrite, MarkReplayed, Register, SetPolicy
    <3> QED
      BY <2>1, <3>3
  <2> QED
    BY <2>2, <2>3, <2>4, <2>5, <2>6
<1>5. ASSUME NEW p \in Approvers, decision'[p].pc \in {"write", "enqueue"}
      PROVE  decision'[p].action \in sanctioned'
  <2>0. sanctioned \subseteq sanctioned'
    BY <1>0, PolicyStep
  <2>1. CASE decision'[p] = decision[p]
    BY <1>5, <2>0, <2>1 DEF AllCleared
  <2>2. ASSUME NEW q \in Approvers, NEW a \in Actions, NEW d \in {"approve", "reject"}, BeginDecision(q, a, d)
        PROVE  decision'[p] = decision[p] \/ decision'[p].action \in sanctioned'
    BY <1>0, <1>5, <2>2 DEF BeginDecision
  <2>3. ASSUME NEW q \in Approvers, Reject(q) \/ MarkDecided(q)
        PROVE  decision'[p] = decision[p]
    BY <1>0, <1>5, <2>3 DEF Reject, MarkDecided, NoDecision
  <2>4. ASSUME NEW q \in Approvers, ExecuteApproved(q) \/ EnqueueApproved(q)
        PROVE  decision'[p] = decision[p] \/ decision'[p].action \in sanctioned'
    <3>1. decision[p] \in DecisionState
      BY <1>0
    <3>2. CASE q = p /\ ExecuteApproved(p)
      <4>1. decision'[p].action = decision[p].action /\ decision[p].pc = "write"
        BY <1>0, <3>1, <3>2 DEF ExecuteApproved, DecisionState
      <4> QED
        BY <2>0, <4>1 DEF AllCleared
    <3>3. CASE q = p /\ EnqueueApproved(p)
      <4>1. decision'[p].action = decision[p].action /\ decision[p].pc = "enqueue"
        BY <1>0, <3>1, <3>3 DEF EnqueueApproved, DecisionState
      <4> QED
        BY <2>0, <4>1 DEF AllCleared
    <3>4. CASE q # p
      <4>1. CASE ExecuteApproved(q)
        BY <1>0, <3>4, <4>1 DEF ExecuteApproved
      <4>2. CASE EnqueueApproved(q)
        BY <1>0, <3>4, <4>2 DEF EnqueueApproved
      <4> QED
        BY <2>4, <4>1, <4>2
    <3> QED
      BY <2>4, <3>2, <3>3, <3>4
  <2>5. CASE Crash
    BY <1>0, <1>5, <2>1, <2>5 DEF Crash, Die, NoDecision
  <2>6. CASE decision' = decision
    BY <2>1, <2>6
  <2> QED
    BY <2>1, <2>2, <2>3, <2>4, <2>5, <2>6
       DEF Next, Submit, Execute, EnqueueFailed, Record, BeginReplay, ReplayWrite, MarkReplayed,
           Register, SetPolicy
<1>6. ASSUME NEW a \in Actions, applied'[a] > 0 \/ agent'[a].pc \in {"write", "enqueue"}
      PROVE  Free(a)
  BY <1>3, <1>4, <1>6, <1>9
<1> QED
  BY <1>1, <1>2, <1>5, <1>6 DEF AllCleared, Cleared, Free

LEMMA ClearedIsSanctioned == AllCleared => SpendIsSanctioned
BY DEF AllCleared, SpendIsSanctioned, Cleared, Waiting

-----------------------------------------------------------------------------
(* Decisions and replays that do not overlap.                              *)

\* A decision in progress is about an action that still awaits it, and nobody else
\* decides it; only one replay runs, and what it has to do still waits.
Apart ==
  ~raced =>
    /\ \A p \in Approvers : decision[p].pc # "idle" => row[decision[p].action] = "pending_approval"
    /\ \A p, q \in Approvers :
         decision[p].pc # "idle" /\ decision[q].pc # "idle" /\ decision[p].action = decision[q].action => p = q
    /\ \A v, w \in Replayers : replay[v].pc # "idle" /\ replay[w].pc # "idle" => v = w
    /\ \A w \in Replayers : replay[w].pc # "idle" =>
         \A i \in replay[w].todo : i \in DOMAIN queue /\ queue[i].status = "pending"

\* What a step does to the decisions in progress.
LEMMA DecisionStep ==
  ASSUME TypeOK, Names, Next, NEW p \in Approvers, decision'[p].pc # "idle"
  PROVE  \/ decision'[p] = decision[p]
         \/ /\ decision[p].pc = "idle"
            /\ \E a \in Actions, d \in {"approve", "reject"} :
                 BeginDecision(p, a, d) /\ decision'[p].action = a /\ decision'[p].pc # "mark"
         \/ /\ decision[p].pc # "idle" /\ decision'[p].action = decision[p].action
            /\ \/ ExecuteApproved(p) /\ decision[p].pc = "write" /\ decision'[p].pc \in {"mark", "enqueue"}
               \/ EnqueueApproved(p) /\ decision[p].pc = "enqueue" /\ decision'[p].pc = "mark"
<1>0. decision \in [Approvers -> DecisionState]
  BY Typed
<1> DEFINE Goal ==
      \/ decision'[p] = decision[p]
      \/ /\ decision[p].pc = "idle"
         /\ \E a \in Actions, d \in {"approve", "reject"} :
              BeginDecision(p, a, d) /\ decision'[p].action = a /\ decision'[p].pc # "mark"
      \/ /\ decision[p].pc # "idle" /\ decision'[p].action = decision[p].action
         /\ \/ ExecuteApproved(p) /\ decision[p].pc = "write" /\ decision'[p].pc \in {"mark", "enqueue"}
            \/ EnqueueApproved(p) /\ decision[p].pc = "enqueue" /\ decision'[p].pc = "mark"
<1>1. ASSUME NEW q \in Approvers, NEW a \in Actions, NEW d \in {"approve", "reject"}, BeginDecision(q, a, d)
      PROVE  Goal
  <2>1. CASE q = p
    <3>1. decision[p].pc = "idle" /\ decision'[p].action = a /\ decision'[p].pc # "mark"
      BY <1>0, <1>1, <2>1 DEF BeginDecision
    <3> QED
      BY <1>1, <2>1, <3>1
  <2>2. CASE q # p
    BY <1>0, <1>1, <2>2 DEF BeginDecision
  <2> QED
    BY <2>1, <2>2
<1>2. ASSUME NEW q \in Approvers, Reject(q) \/ MarkDecided(q) PROVE Goal
  <2>1. decision'[p] = decision[p] \/ decision'[p].pc = "idle"
    BY <1>0, <1>2 DEF Reject, MarkDecided, NoDecision
  <2> QED
    BY <2>1
<1>3. ASSUME NEW q \in Approvers, ExecuteApproved(q) PROVE Goal
  <2>1. CASE q = p
    <3>1. /\ decision[p].pc = "write" /\ decision'[p].action = decision[p].action
          /\ decision'[p].pc \in {"mark", "enqueue"}
      BY <1>0, <1>3, <2>1 DEF ExecuteApproved, DecisionState
    <3> QED
      BY <1>3, <2>1, <3>1
  <2>2. CASE q # p
    BY <1>0, <1>3, <2>2 DEF ExecuteApproved
  <2> QED
    BY <2>1, <2>2
<1>4. ASSUME NEW q \in Approvers, EnqueueApproved(q) PROVE Goal
  <2>1. CASE q = p
    <3>1. /\ decision[p].pc = "enqueue" /\ decision'[p].action = decision[p].action
          /\ decision'[p].pc = "mark"
      BY <1>0, <1>4, <2>1 DEF EnqueueApproved, DecisionState
    <3> QED
      BY <1>4, <2>1, <3>1
  <2>2. CASE q # p
    BY <1>0, <1>4, <2>2 DEF EnqueueApproved
  <2> QED
    BY <2>1, <2>2
<1>5. ASSUME Crash PROVE Goal
  <2>1. decision'[p] = decision[p] \/ decision'[p].pc = "idle"
    BY <1>0, <1>5 DEF Crash, Die, NoDecision
  <2> QED
    BY <2>1
<1>6. ASSUME decision' = decision PROVE Goal
  BY <1>6
<1> HIDE DEF Goal
<1>7. Goal
  BY <1>1, <1>2, <1>3, <1>4, <1>5, <1>6
     DEF Next, Submit, Execute, EnqueueFailed, Record, BeginReplay, ReplayWrite, MarkReplayed,
         Register, SetPolicy
<1> QED
  BY <1>7 DEF Goal

\* What a step does to the replays in progress.
LEMMA ReplayStep ==
  ASSUME TypeOK, Next, NEW w \in Replayers, replay'[w].pc # "idle"
  PROVE  \/ replay'[w] = replay[w] /\ ~MarkReplayed(w) /\ ~ReplayWrite(w)
         \/ /\ BeginReplay(w) /\ replay[w].pc = "idle" /\ replay'[w].pc = "write"
            /\ replay'[w].todo = {i \in DOMAIN queue : queue[i].status = "pending"}
         \/ /\ ReplayWrite(w) /\ replay[w].pc = "write" /\ replay'[w].todo = replay[w].todo
            /\ replay'[w].pc = "mark"
         \/ /\ MarkReplayed(w) /\ replay[w].pc = "mark" /\ replay'[w].pc = "write"
            /\ \E i \in replay[w].todo : First(replay[w].todo, i) /\ replay'[w].todo = replay[w].todo \ {i}
<1>0. replay \in [Replayers -> ReplayState(queue)]
  BY Typed
<1> DEFINE Goal ==
      \/ replay'[w] = replay[w] /\ ~MarkReplayed(w) /\ ~ReplayWrite(w)
      \/ /\ BeginReplay(w) /\ replay[w].pc = "idle" /\ replay'[w].pc = "write"
         /\ replay'[w].todo = {i \in DOMAIN queue : queue[i].status = "pending"}
      \/ /\ ReplayWrite(w) /\ replay[w].pc = "write" /\ replay'[w].todo = replay[w].todo
         /\ replay'[w].pc = "mark"
      \/ /\ MarkReplayed(w) /\ replay[w].pc = "mark" /\ replay'[w].pc = "write"
         /\ \E i \in replay[w].todo : First(replay[w].todo, i) /\ replay'[w].todo = replay[w].todo \ {i}
<1>1. ASSUME BeginReplay(w) PROVE Goal
  BY <1>0, <1>1 DEF BeginReplay, Pending
<1>2. ASSUME ReplayWrite(w) PROVE Goal
  <2>1. replay[w].pc = "write" /\ replay'[w].todo = replay[w].todo /\ replay'[w].pc = "mark"
    BY <1>0, <1>2 DEF ReplayWrite, ReplayState
  <2> QED
    BY <1>2, <2>1
<1>3. ASSUME MarkReplayed(w) PROVE Goal
  <2>1. PICK i \in replay[w].todo :
          /\ First(replay[w].todo, i)
          /\ replay' = [replay EXCEPT ![w] =
               IF replay[w].todo = {i} THEN NoReplay
               ELSE [pc |-> "write", todo |-> replay[w].todo \ {i}, ok |-> FALSE]]
    BY <1>3 DEF MarkReplayed
  <2>2. replay[w].pc = "mark" /\ replay'[w].pc = "write" /\ replay'[w].todo = replay[w].todo \ {i}
    BY <1>0, <1>3, <2>1 DEF MarkReplayed, NoReplay
  <2> QED
    BY <1>3, <2>1, <2>2
<1>4. ASSUME ~BeginReplay(w), ~ReplayWrite(w), ~MarkReplayed(w) PROVE Goal
  <2>1. ASSUME NEW v \in Replayers, BeginReplay(v) \/ ReplayWrite(v) \/ MarkReplayed(v)
        PROVE  replay'[w] = replay[w]
    BY <1>0, <1>4, <2>1 DEF BeginReplay, ReplayWrite, MarkReplayed
  <2>2. ASSUME Crash PROVE replay'[w] = replay[w]
    BY <1>0, <2>2 DEF Crash, Die, NoReplay
  <2>3. ASSUME replay' = replay PROVE replay'[w] = replay[w]
    BY <2>3
  <2>4. replay'[w] = replay[w]
    BY <2>1, <2>2, <2>3
       DEF Next, Submit, Execute, EnqueueFailed, Record, BeginDecision, Reject, ExecuteApproved,
           EnqueueApproved, MarkDecided, Register, SetPolicy
  <2> QED
    BY <1>4, <2>4
<1> HIDE DEF Goal
<1>5. Goal
  BY <1>1, <1>2, <1>3, <1>4
<1> QED
  BY <1>5 DEF Goal

LEMMA ApartKeeps ==
  ASSUME Kept, Apart, Next
  PROVE  Apart'
<1>0. /\ TypeOK /\ Names /\ AgentForm /\ Names' /\ TypeOK' /\ decision \in [Approvers -> DecisionState]
      /\ row \in [Actions -> RowStatus] /\ replay \in [Replayers -> ReplayState(queue)]
  BY NextTyped, Typed DEF Kept
<1> SUFFICES ASSUME ~raced'
             PROVE  /\ \A p \in Approvers : decision'[p].pc # "idle" => row'[decision'[p].action] = "pending_approval"
                    /\ \A p, q \in Approvers :
                         decision'[p].pc # "idle" /\ decision'[q].pc # "idle"
                         /\ decision'[p].action = decision'[q].action => p = q
                    /\ \A v, w \in Replayers : replay'[v].pc # "idle" /\ replay'[w].pc # "idle" => v = w
                    /\ \A w \in Replayers : replay'[w].pc # "idle" =>
                         \A i \in replay'[w].todo : i \in DOMAIN queue' /\ queue'[i].status = "pending"
  BY DEF Apart
<1>1. ~raced
  BY <1>0, PolicyStep
<1>2. ASSUME NEW p \in Approvers, decision'[p].pc # "idle", NEW a \in Actions, a = decision'[p].action
      PROVE  row'[a] = "pending_approval" /\ row[a] = "pending_approval"
  <2>1. row[a] = "pending_approval"
    BY <1>0, <1>1, <1>2, DecisionStep DEF Apart, BeginDecision, AwaitsApproval
  <2>2. ASSUME NEW b \in Actions, Record(b) PROVE row'[a] = row[a]
    <3>1. b # a
      BY <1>0, <2>1, <2>2 DEF Record, AgentForm
    <3> QED
      BY <1>0, <2>2, <3>1 DEF Record
  <2>3. ASSUME NEW q \in Approvers, Reject(q) \/ MarkDecided(q) PROVE row'[a] = row[a]
    <3>1. decision'[q].pc = "idle" /\ decision[q].pc # "idle"
      BY <1>0, <2>3 DEF Reject, MarkDecided, NoDecision
    <3>2. decision'[p] = decision[p] /\ q # p
      BY <1>0, <1>2, <2>3, <3>1 DEF Reject, MarkDecided
    <3>3. decision[q].action # a
      BY <1>1, <1>2, <3>1, <3>2 DEF Apart
    <3> QED
      BY <1>0, <2>3, <3>3 DEF Reject, MarkDecided
  <2>4. ASSUME row' = row PROVE row'[a] = row[a]
    BY <2>4
  <2>5. row'[a] = row[a]
    BY <2>2, <2>3, <2>4
       DEF Next, Submit, Execute, EnqueueFailed, BeginDecision, ExecuteApproved, EnqueueApproved,
           BeginReplay, ReplayWrite, MarkReplayed, Register, SetPolicy, Crash, Die
  <2> QED
    BY <2>1, <2>5
<1>3. \A p \in Approvers : decision'[p].pc # "idle" => row'[decision'[p].action] = "pending_approval"
  BY <1>0, <1>2 DEF Names
<1>4. ASSUME NEW p \in Approvers, NEW q \in Approvers, p # q, decision'[p].pc # "idle", decision'[q].pc # "idle",
             decision'[p].action = decision'[q].action
      PROVE  FALSE
  <2>1. ASSUME NEW u \in Approvers, NEW v \in Approvers, u # v, NEW a \in Actions, NEW d \in {"approve", "reject"},
               BeginDecision(u, a, d), decision'[v].pc # "idle"
        PROVE  decision'[v].action # decision'[u].action
    BY <1>0, <2>1 DEF BeginDecision
  <2>2. ASSUME NEW u \in Approvers, decision'[u].pc # "idle",
               ~\E a \in Actions, d \in {"approve", "reject"} : BeginDecision(u, a, d)
        PROVE  decision[u].pc # "idle" /\ decision'[u].action = decision[u].action
    BY <1>0, <2>2, DecisionStep
  <2> QED
    BY <1>1, <1>4, <2>1, <2>2 DEF Apart
<1>5. ASSUME NEW v \in Replayers, NEW w \in Replayers, v # w, replay'[v].pc # "idle", replay'[w].pc # "idle"
      PROVE  FALSE
  <2>1. ASSUME NEW x \in Replayers, NEW y \in Replayers, x # y, BeginReplay(x)
        PROVE  replay'[y].pc = "idle"
    BY <1>0, <2>1 DEF BeginReplay
  <2>2. ASSUME NEW x \in Replayers, replay'[x].pc # "idle", ~BeginReplay(x)
        PROVE  replay[x].pc # "idle"
    BY <1>0, <2>2, ReplayStep
  <2> QED
    BY <1>1, <1>5, <2>1, <2>2 DEF Apart
<1>6. ASSUME NEW w \in Replayers, replay'[w].pc # "idle", NEW i \in replay'[w].todo
      PROVE  i \in DOMAIN queue' /\ queue'[i].status = "pending"
  <2>1. i \in DOMAIN queue /\ queue[i].status = "pending"
    BY <1>0, <1>1, <1>6, ReplayStep DEF Apart
  <2>2. ASSUME NEW v \in Replayers, MarkReplayed(v), First(replay[v].todo, i)
        PROVE  FALSE
    <3>1. CASE v = w
      <4>1. PICK j \in replay[w].todo : First(replay[w].todo, j) /\ replay'[w].todo = replay[w].todo \ {j}
        <5>1. replay'[w] # replay[w] \/ MarkReplayed(w)
          BY <2>2, <3>1
        <5> QED
          BY <1>0, <1>6, <2>2, <3>1, ReplayStep DEF MarkReplayed, BeginReplay, ReplayWrite
      <4>2. i = j
        BY <1>0, <2>2, <3>1, <4>1, FirstIsOne
      <4> QED
        BY <1>6, <4>1, <4>2
    <3>2. CASE v # w
      <4>1. replay[v].pc = "mark" /\ replay'[w] = replay[w]
        BY <1>0, <2>2, <3>2 DEF MarkReplayed
      <4> QED
        BY <1>1, <1>6, <3>2, <4>1 DEF Apart
    <3> QED
      BY <3>1, <3>2
  <2> QED
    BY <1>0, <2>1, <2>2, QueueStep
<1> QED
  BY <1>3, <1>4, <1>5, <1>6

-----------------------------------------------------------------------------
(* Nothing takes effect twice.                                             *)

\* Nothing of the action has happened or is queued.
NotYet(a) == applied[a] = 0 /\ \A i \in DOMAIN queue : queue[i].action # a

\* The request for the action has not come past its one write: the agent's request is
\* on its way or ended before it, or the action awaits a decision that is not past its own.
Fresh(a) ==
  \/ agent[a].pc \in {"ready", "write", "enqueue"}
  \/ agent[a].pc = "record" /\ agent[a].result = "none"
  \/ /\ row[a] = "pending_approval"
     /\ \A p \in Approvers : decision[p].action = a => decision[p].pc # "mark"

\* A replay has written the entry, whether or not it has marked it.
Written(i) ==
  \/ queue[i].status = "replayed"
  \/ \E w \in Replayers : replay[w].pc = "mark" /\ replay[w].ok /\ First(replay[w].todo, i)

\* Every action has at most one entry, and at most one of its write and of its entry's
\* takes effect.
Once ==
  timeouts = 0 /\ failures = 0 /\ ~raced =>
    /\ \A i, j \in DOMAIN queue : queue[i].action = queue[j].action => i = j
    /\ \A a \in Actions : Fresh(a) => NotYet(a)
    /\ \A i \in DOMAIN queue : ~Written(i) => applied[queue[i].action] = 0
    /\ \A a \in Actions : applied[a] <= 1

\* Disturbances are never forgotten.
LEMMA Undisturbed ==
  ASSUME TypeOK, Names, Next, timeouts' = 0, failures' = 0, ~raced'
  PROVE  timeouts = 0 /\ failures = 0 /\ ~raced /\ ~Crash
<1>1. ~raced
  BY PolicyStep
<1>2. timeouts \in Nat /\ failures \in Nat
  BY OutboundAssumption DEF TypeOK
<1>3. ~Crash
  <2>1. Crash => failures' = failures + 1
    BY DEF Crash, Die
  <2> QED
    BY <1>2, <2>1
<1>4. failures' = failures
  <2>1. \/ \E a \in Actions : Submit(a) \/ Execute(a) \/ EnqueueFailed(a) \/ Record(a)
        \/ \E p \in Approvers, a \in Actions, d \in {"approve", "reject"} : BeginDecision(p, a, d)
        \/ \E p \in Approvers : Reject(p) \/ ExecuteApproved(p) \/ EnqueueApproved(p) \/ MarkDecided(p)
        \/ \E w \in Replayers : BeginReplay(w) \/ ReplayWrite(w) \/ MarkReplayed(w)
        \/ Register
        \/ \E t \in Thresholds : SetPolicy(t)
    BY <1>3 DEF Next
  <2> QED
    BY <2>1 DEF Submit, Execute, EnqueueFailed, Record, BeginDecision, Reject, ExecuteApproved,
        EnqueueApproved, MarkDecided, BeginReplay, ReplayWrite, MarkReplayed, Register, SetPolicy,
        bookkeeping
<1>5. timeouts = 0
  <2>1. ASSUME NEW a \in Actions, Execute(a) PROVE timeouts = 0
    <3>1. PICK next \in {"record", "enqueue"}, result \in Result : WriteThrough(a, next, result)
      BY <2>1 DEF Execute
    <3> QED
      BY <3>1, WriteReaches DEF Reaches
  <2>2. ASSUME NEW p \in Approvers, ExecuteApproved(p) PROVE timeouts = 0
    <3>1. decision[p].action \in Actions
      BY <2>2 DEF ExecuteApproved, Names
    <3>2. PICK next \in {"record", "enqueue"}, result \in Result :
            WriteThrough(decision[p].action, next, result)
      BY <2>2 DEF ExecuteApproved
    <3> QED
      BY <3>1, <3>2, WriteReaches DEF Reaches
  <2>3. ASSUME NEW w \in Replayers, ReplayWrite(w) PROVE timeouts = 0
    <3>1. PICK i \in replay[w].todo, ok \in BOOLEAN : First(replay[w].todo, i) /\ Call(queue[i].action, ok)
      BY <2>3 DEF ReplayWrite
    <3>2. queue[i].action \in Actions
      BY <3>1, FirstIsOne, QueueShape DEF Entry
    <3> QED
      BY <3>1, <3>2, CallReaches DEF Reaches
  <2>4. ASSUME timeouts' = timeouts PROVE timeouts = 0
    BY <2>4
  <2> QED
    BY <1>3, <2>1, <2>2, <2>3, <2>4
       DEF Next, Submit, EnqueueFailed, Record, BeginDecision, Reject, EnqueueApproved, MarkDecided,
           BeginReplay, MarkReplayed, Register, SetPolicy
<1> QED
  BY <1>1, <1>3, <1>4, <1>5

\* What a step does to the status of an action, and to the agent's request for it.
LEMMA RowStep ==
  ASSUME TypeOK, Names, Next, NEW a \in Actions
  PROVE  \/ row'[a] = row[a]
         \/ Record(a)
         \/ \E p \in Approvers : (Reject(p) \/ MarkDecided(p)) /\ decision[p].action = a
<1>0. row \in [Actions -> RowStatus]
  BY Typed
<1> DEFINE Goal == \/ row'[a] = row[a]
                   \/ Record(a)
                   \/ \E p \in Approvers : (Reject(p) \/ MarkDecided(p)) /\ decision[p].action = a
<1>1. ASSUME NEW b \in Actions, Record(b) PROVE Goal
  <2>1. CASE b = a
    BY <1>1, <2>1
  <2>2. CASE b # a
    BY <1>0, <1>1, <2>2 DEF Record
  <2> QED
    BY <2>1, <2>2
<1>2. ASSUME NEW p \in Approvers, Reject(p) \/ MarkDecided(p) PROVE Goal
  <2>1. CASE decision[p].action = a
    BY <1>2, <2>1
  <2>2. CASE decision[p].action # a
    <3>1. row'[a] = row[a]
      BY <1>0, <1>2, <2>2 DEF Reject, MarkDecided
    <3> QED
      BY <3>1
  <2> QED
    BY <2>1, <2>2
<1>3. ASSUME row' = row PROVE Goal
  BY <1>3
<1> HIDE DEF Goal
<1>4. Goal
  BY <1>1, <1>2, <1>3
     DEF Next, Submit, Execute, EnqueueFailed, BeginDecision, ExecuteApproved, EnqueueApproved,
         BeginReplay, ReplayWrite, MarkReplayed, Register, SetPolicy, Crash, Die
<1> QED
  BY <1>4 DEF Goal

LEMMA AgentStep ==
  ASSUME TypeOK, Next, ~Crash, NEW a \in Actions
  PROVE  \/ agent'[a] = agent[a]
         \/ Submit(a) /\ agent[a].pc = "ready"
         \/ /\ Execute(a) /\ agent[a].pc = "write"
            /\ \/ agent'[a].pc = "record" /\ agent'[a].result \in {"ok", "failed"}
               \/ /\ agent'[a].pc = "enqueue"
                  /\ timeouts' = 0 => applied'[a] = applied[a]
         \/ EnqueueFailed(a) /\ agent[a].pc = "enqueue" /\ agent'[a].pc = "record"
                             /\ agent'[a].result = agent[a].result
         \/ Record(a) /\ agent[a].pc = "record" /\ agent'[a].pc = "done"
<1>0. agent \in [Actions -> AgentState]
  BY Typed
<1> DEFINE Goal ==
         \/ agent'[a] = agent[a]
         \/ Submit(a) /\ agent[a].pc = "ready"
         \/ /\ Execute(a) /\ agent[a].pc = "write"
            /\ \/ agent'[a].pc = "record" /\ agent'[a].result \in {"ok", "failed"}
               \/ /\ agent'[a].pc = "enqueue"
                  /\ timeouts' = 0 => applied'[a] = applied[a]
         \/ EnqueueFailed(a) /\ agent[a].pc = "enqueue" /\ agent'[a].pc = "record"
                             /\ agent'[a].result = agent[a].result
         \/ Record(a) /\ agent[a].pc = "record" /\ agent'[a].pc = "done"
<1>1. ASSUME Submit(a) PROVE Goal
  BY <1>1 DEF Submit
<1>2. ASSUME Execute(a) PROVE Goal
  <2>1. PICK next \in {"record", "enqueue"}, result \in Result :
          /\ WriteThrough(a, next, result)
          /\ agent' = [agent EXCEPT ![a] = [pc |-> next, result |-> result]]
    BY <1>2 DEF Execute
  <2>2. agent'[a].pc = next /\ agent'[a].result = result /\ agent[a].pc = "write"
    BY <1>0, <1>2, <2>1 DEF Execute
  <2>3. \/ next = "record" /\ result \in {"ok", "failed"}
        \/ next = "enqueue" /\ (timeouts' = 0 => applied'[a] = applied[a])
    BY <2>1, WriteReaches DEF Reaches
  <2> QED
    BY <1>2, <2>2, <2>3
<1>3. ASSUME EnqueueFailed(a) PROVE Goal
  <2>1. agent[a].pc = "enqueue" /\ agent'[a].pc = "record" /\ agent'[a].result = agent[a].result
    BY <1>0, <1>3 DEF EnqueueFailed, AgentState
  <2> QED
    BY <1>3, <2>1
<1>4. ASSUME Record(a) PROVE Goal
  <2>1. agent[a].pc = "record" /\ agent'[a].pc = "done"
    BY <1>0, <1>4 DEF Record, AgentState
  <2> QED
    BY <1>4, <2>1
<1>5. ASSUME NEW b \in Actions, b # a, Submit(b) \/ Execute(b) \/ EnqueueFailed(b) \/ Record(b) PROVE Goal
  <2>1. agent'[a] = agent[a]
    BY <1>0, <1>5 DEF Submit, Execute, EnqueueFailed, Record
  <2> QED
    BY <2>1
<1>6. ASSUME agent' = agent PROVE Goal
  BY <1>6
<1> HIDE DEF Goal
<1>7. Goal
  <2>1. \/ \E b \in Actions : Submit(b) \/ Execute(b) \/ EnqueueFailed(b) \/ Record(b)
        \/ agent' = agent
    BY DEF Next, BeginDecision, Reject, ExecuteApproved, EnqueueApproved, MarkDecided, BeginReplay,
           ReplayWrite, MarkReplayed, Register, SetPolicy
  <2> QED
    BY <1>1, <1>2, <1>3, <1>4, <1>5, <1>6, <2>1
<1> QED
  BY <1>7 DEF Goal

\* An approver's write and what becomes of it.
LEMMA ApprovedStep ==
  ASSUME TypeOK, Names, NEW p \in Approvers, ExecuteApproved(p)
  PROVE  /\ decision[p].pc = "write" /\ decision'[p].action = decision[p].action
         /\ \/ decision'[p].pc = "mark"
            \/ timeouts' = 0 => applied' = applied
<1>0. decision \in [Approvers -> DecisionState] /\ applied \in [Actions -> Nat]
  BY Typed
<1>1. PICK next \in {"record", "enqueue"}, result \in Result :
        /\ WriteThrough(decision[p].action, next, result)
        /\ decision' = [decision EXCEPT ![p] =
             [@ EXCEPT !.pc = IF next = "record" THEN "mark" ELSE next, !.result = result]]
  BY DEF ExecuteApproved
<1>2. decision[p].pc = "write" /\ decision[p].action \in Actions
  BY DEF ExecuteApproved, Names
<1>3. /\ decision'[p].action = decision[p].action
      /\ decision'[p].pc = IF next = "record" THEN "mark" ELSE next
  BY <1>0, <1>1 DEF DecisionState
<1>4. next # "record" => Reaches(decision[p].action, FALSE)
  BY <1>1, <1>2, WriteReaches
<1>5. next # "record" /\ timeouts' = 0 => applied' = applied
  BY <1>0, <1>2, <1>4 DEF Reaches
<1> QED
  BY <1>2, <1>3, <1>5

\* A request that has not come past its write after a step had not before it.
LEMMA FreshBefore ==
  ASSUME TypeOK, Names, AgentForm, Next, ~Crash, NEW a \in Actions, Fresh(a)'
  PROVE  Fresh(a)
<1>0. decision \in [Approvers -> DecisionState] /\ row \in [Actions -> RowStatus]
  BY Typed
<1>1. CASE \/ agent'[a].pc \in {"ready", "write", "enqueue"}
           \/ agent'[a].pc = "record" /\ agent'[a].result = "none"
  BY <1>1, AgentStep DEF Fresh, AgentForm
<1>2. CASE /\ row'[a] = "pending_approval"
           /\ \A p \in Approvers : decision'[p].action = a => decision'[p].pc # "mark"
  <2>1. CASE Record(a)
    <3>1. row'[a] = "pending_approval" => agent[a].result = "none"
      BY <1>0, <2>1 DEF Record
    <3> QED
      BY <1>2, <2>1, <3>1 DEF Record, Fresh
  <2>2. ASSUME NEW p \in Approvers, Reject(p) \/ MarkDecided(p), decision[p].action = a
        PROVE  FALSE
    <3>1. row'[a] \in {"rejected", "approved", "failed"}
      BY <1>0, <2>2 DEF Reject, MarkDecided, StatusAfter
    <3> QED
      BY <1>2, <3>1
  <2>3. CASE row'[a] = row[a]
    <3>1. ASSUME NEW p \in Approvers, decision[p].action = a, decision[p].pc = "mark"
          PROVE  MarkDecided(p)
      <4>1. CASE decision'[p] = decision[p]
        BY <1>2, <3>1, <4>1
      <4>2. CASE decision'[p] # decision[p]
        <5>1. ASSUME NEW q \in Approvers, NEW b \in Actions, NEW d \in {"approve", "reject"}, BeginDecision(q, b, d)
              PROVE  FALSE
          BY <1>0, <3>1, <4>2, <5>1 DEF BeginDecision
        <5>2. ASSUME NEW q \in Approvers, Reject(q) PROVE FALSE
          BY <1>0, <3>1, <4>2, <5>2 DEF Reject
        <5>3. ASSUME NEW q \in Approvers, ExecuteApproved(q) PROVE FALSE
          BY <1>0, <3>1, <4>2, <5>3 DEF ExecuteApproved
        <5>4. ASSUME NEW q \in Approvers, EnqueueApproved(q) PROVE FALSE
          BY <1>0, <3>1, <4>2, <5>4 DEF EnqueueApproved
        <5>5. ASSUME NEW q \in Approvers, MarkDecided(q) PROVE MarkDecided(p)
          <6>1. CASE q = p
            BY <5>5, <6>1
          <6>2. CASE q # p
            BY <1>0, <4>2, <5>5, <6>2 DEF MarkDecided
          <6> QED
            BY <6>1, <6>2
        <5>6. ASSUME decision' = decision PROVE FALSE
          BY <4>2, <5>6
        <5> QED
          BY <5>1, <5>2, <5>3, <5>4, <5>5, <5>6
             DEF Next, Submit, Execute, EnqueueFailed, Record, BeginReplay, ReplayWrite, MarkReplayed,
                 Register, SetPolicy
      <4> QED
        BY <4>1, <4>2
    <3>2. \A p \in Approvers : decision[p].action = a => decision[p].pc # "mark"
      BY <2>2, <3>1
    <3> QED
      BY <1>2, <2>3, <3>2 DEF Fresh
  <2> QED
    BY <2>1, <2>2, <2>3, RowStep
<1> QED
  BY <1>1, <1>2 DEF Fresh

\* A write is done, and a failed one queued, for a request that had not come past it.
LEMMA WriterIsFresh ==
  ASSUME Kept, Apart, ~raced, NEW a \in Actions,
         \/ Execute(a) \/ EnqueueFailed(a)
         \/ \E p \in Approvers : (ExecuteApproved(p) \/ EnqueueApproved(p)) /\ decision[p].action = a
  PROVE  Fresh(a)
<1>1. CASE Execute(a) \/ EnqueueFailed(a)
  BY <1>1 DEF Execute, EnqueueFailed, Fresh
<1>2. ASSUME NEW p \in Approvers, ExecuteApproved(p) \/ EnqueueApproved(p), decision[p].action = a
      PROVE  Fresh(a)
  <2>1. decision[p].pc \in {"write", "enqueue"}
    BY <1>2 DEF ExecuteApproved, EnqueueApproved
  <2>2. row[a] = "pending_approval"
    BY <1>2, <2>1 DEF Apart
  <2>3. ASSUME NEW q \in Approvers, decision[q].action = a, decision[q].pc = "mark" PROVE FALSE
    <3>1. q = p
      BY <1>2, <2>1, <2>3 DEF Apart
    <3> QED
      BY <2>1, <2>3, <3>1
  <2> QED
    BY <2>2, <2>3 DEF Fresh
<1> QED
  BY <1>1, <1>2

\* No write is done or queued for a request that still has not come past it.
LEMMA FreshIsQuiet ==
  ASSUME Kept, Apart, ~raced, Next, ~Crash, timeouts' = 0, NEW a \in Actions, Fresh(a)'
  PROVE  /\ Execute(a) \/ (\E p \in Approvers : ExecuteApproved(p) /\ decision[p].action = a) =>
              applied'[a] = applied[a]
         /\ ~EnqueueFailed(a)
         /\ ~\E p \in Approvers : EnqueueApproved(p) /\ decision[p].action = a
<1>0. /\ TypeOK /\ Names /\ AgentForm /\ agent \in [Actions -> AgentState]
      /\ decision \in [Approvers -> DecisionState] /\ row \in [Actions -> RowStatus]
  BY Typed DEF Kept
<1>1. ASSUME Execute(a) PROVE applied'[a] = applied[a]
  <2>1. row[a] = "none" /\ row' = row
    BY <1>0, <1>1 DEF Execute, AgentForm
  <2>2. \/ agent'[a].pc = "record" /\ agent'[a].result \in {"ok", "failed"}
        \/ agent'[a].pc = "enqueue" /\ applied'[a] = applied[a]
    <3>1. agent[a].pc = "write" /\ agent'[a].pc # "write"
      BY <1>0, <1>1 DEF Execute
    <3> QED
      BY <1>0, <3>1, AgentStep
  <2> QED
    BY <2>1, <2>2 DEF Fresh
<1>2. ASSUME EnqueueFailed(a) PROVE FALSE
  <2>1. row[a] = "none" /\ row' = row /\ agent[a].result = "queued"
    BY <1>0, <1>2 DEF EnqueueFailed, AgentForm
  <2>2. agent'[a].pc = "record" /\ agent'[a].result = "queued"
    BY <1>0, <1>2, <2>1 DEF EnqueueFailed, AgentState
  <2> QED
    BY <2>1, <2>2 DEF Fresh
<1>3. ASSUME NEW p \in Approvers, ExecuteApproved(p) \/ EnqueueApproved(p), decision[p].action = a
      PROVE  decision'[p].pc # "mark" /\ decision'[p].action = a
  <2>1. decision[p].pc \in {"write", "enqueue"} /\ row' = row /\ agent' = agent
    BY <1>3 DEF ExecuteApproved, EnqueueApproved
  <2>2. row[a] = "pending_approval"
    BY <1>3, <2>1 DEF Apart
  <2>3. agent[a].pc = "done"
    BY <1>0, <2>2 DEF AgentForm
  <2>4. decision'[p].action = decision[p].action
    BY <1>0, <1>3, ApprovedStep DEF EnqueueApproved, DecisionState
  <2> QED
    BY <1>3, <2>1, <2>3, <2>4 DEF Fresh
<1>4. ASSUME NEW p \in Approvers, ExecuteApproved(p), decision[p].action = a
      PROVE  applied'[a] = applied[a]
  BY <1>0, <1>3, <1>4, ApprovedStep
<1>5. ASSUME NEW p \in Approvers, EnqueueApproved(p), decision[p].action = a
      PROVE  FALSE
  <2>1. decision'[p].pc = "mark"
    BY <1>0, <1>5 DEF EnqueueApproved, DecisionState
  <2> QED
    BY <1>3, <1>5, <2>1
<1> QED
  BY <1>1, <1>2, <1>4, <1>5

\* What a replay has written stays written.
LEMMA WrittenStays ==
  ASSUME TypeOK, Names, Next, ~Crash, NEW i \in DOMAIN queue, Written(i)
  PROVE  Written(i)'
<1>1. CASE queue[i].status = "replayed"
  BY <1>1, QueueStep DEF Written
<1>2. ASSUME NEW w \in Replayers, replay[w].pc = "mark", replay[w].ok, First(replay[w].todo, i)
      PROVE  Written(i)'
  <2>1. CASE MarkReplayed(w)
    <3>1. PICK j \in replay[w].todo :
            /\ First(replay[w].todo, j)
            /\ \A k \in DOMAIN queue :
                 queue'[k].status = IF k = j /\ replay[w].ok THEN "replayed" ELSE queue[k].status
      BY <2>1, MarkReplayedDoes
    <3>2. i = j
      BY <1>2, <3>1, FirstIsOne
    <3> QED
      BY <1>2, <3>1, <3>2 DEF Written
  <2>2. CASE ~MarkReplayed(w)
    <3>0. replay \in [Replayers -> ReplayState(queue)]
      BY Typed
    <3>1. ASSUME NEW v \in Replayers, BeginReplay(v) PROVE replay'[w] = replay[w]
      BY <1>2, <3>0, <3>1 DEF BeginReplay
    <3>2. ASSUME NEW v \in Replayers, ReplayWrite(v) PROVE replay'[w] = replay[w]
      BY <1>2, <3>0, <3>2 DEF ReplayWrite
    <3>3. ASSUME NEW v \in Replayers, MarkReplayed(v) PROVE replay'[w] = replay[w]
      BY <2>2, <3>0, <3>3 DEF MarkReplayed
    <3>4. ASSUME replay' = replay PROVE replay'[w] = replay[w]
      BY <3>4
    <3>5. replay'[w] = replay[w]
      BY <3>1, <3>2, <3>3, <3>4
         DEF Next, Submit, Execute, EnqueueFailed, Record, BeginDecision, Reject, ExecuteApproved,
             EnqueueApproved, MarkDecided, Register, SetPolicy
    <3> QED
      BY <1>2, <3>5 DEF Written
  <2> QED
    BY <2>1, <2>2
<1> QED
  BY <1>1, <1>2 DEF Written

LEMMA OnceKeeps ==
  ASSUME Kept, Apart, Once, Next
  PROVE  Once'
<1>0. /\ TypeOK /\ Names /\ AgentForm /\ applied \in [Actions -> Nat]
      /\ replay \in [Replayers -> ReplayState(queue)]
  BY Typed DEF Kept
<1> SUFFICES ASSUME timeouts' = 0, failures' = 0, ~raced'
             PROVE  /\ \A i, j \in DOMAIN queue' : queue'[i].action = queue'[j].action => i = j
                    /\ \A a \in Actions : Fresh(a)' => NotYet(a)'
                    /\ \A i \in DOMAIN queue' : ~Written(i)' => applied'[queue'[i].action] = 0
                    /\ \A a \in Actions : applied'[a] <= 1
  BY DEF Once
<1>1. timeouts = 0 /\ failures = 0 /\ ~raced /\ ~Crash
  BY <1>0, Undisturbed
<1>2. /\ \A i, j \in DOMAIN queue : queue[i].action = queue[j].action => i = j
      /\ \A a \in Actions : Fresh(a) => NotYet(a)
      /\ \A i \in DOMAIN queue : ~Written(i) => applied[queue[i].action] = 0
      /\ \A a \in Actions : applied[a] <= 1
  BY <1>1 DEF Once
<1>3. \A i \in DOMAIN queue : i \in DOMAIN queue' /\ queue'[i].action = queue[i].action
                              /\ queue[i].action \in Actions
  BY <1>0, QueueStep, QueueShape DEF Entry
\* A new entry is the first of its action, and nothing of the action has happened.
<1>4. ASSUME NEW n \in DOMAIN queue', n \notin DOMAIN queue
      PROVE  /\ \A m \in DOMAIN queue' : m \notin DOMAIN queue => m = n
             /\ \E b \in Actions : /\ queue'[n].action = b /\ Fresh(b) /\ NotYet(b)
                                   /\ ~Fresh(b)' /\ applied' = applied
  <2>1. PICK b \in Actions :
          /\ queue'[n].action = b
          /\ \A m \in DOMAIN queue' : m \notin DOMAIN queue => m = n
          /\ \/ EnqueueFailed(b)
             \/ \E p \in Approvers : EnqueueApproved(p) /\ decision[p].action = b
    BY <1>0, <1>4, QueueStep
  <2>2. Fresh(b)
    BY <1>1, <2>1, WriterIsFresh
  <2>3. ~Fresh(b)'
    BY <1>1, <2>1, FreshIsQuiet
  <2>4. applied' = applied
    BY <2>1 DEF EnqueueFailed, EnqueueApproved
  <2> QED
    BY <1>2, <2>1, <2>2, <2>3, <2>4
\* Only a request that had not come past its write, or a replay of an unwritten entry, writes.
<1>5. ASSUME NEW a \in Actions, applied'[a] # applied[a]
      PROVE  /\ applied[a] = 0 /\ applied'[a] = 1 /\ ~Fresh(a)'
             /\ \A i \in DOMAIN queue : queue[i].action = a => Written(i)'
  <2>1. applied'[a] = applied[a] + 1
    BY <1>0, <1>5, BooksStep
  <2>2. CASE Execute(a) \/ \E p \in Approvers : ExecuteApproved(p) /\ decision[p].action = a
    <3>1. Fresh(a)
      BY <1>1, <2>2, WriterIsFresh
    <3>2. ~Fresh(a)'
      BY <1>1, <1>5, <2>2, FreshIsQuiet
    <3>3. NotYet(a)
      BY <1>2, <3>1
    <3> QED
      BY <2>1, <3>2, <3>3 DEF NotYet
  <2>3. ASSUME NEW w \in Replayers, ReplayWrite(w), NEW i \in replay[w].todo, First(replay[w].todo, i),
               queue[i].action = a
        PROVE  /\ applied[a] = 0 /\ ~Fresh(a)'
               /\ \A j \in DOMAIN queue : queue[j].action = a => Written(j)'
    <3>1. i \in DOMAIN queue /\ replay[w].pc = "write"
      BY <1>0, <2>3, FirstIsOne DEF ReplayWrite
    <3>2. queue[i].status = "pending"
      BY <1>1, <2>3, <3>1 DEF Apart
    <3>3. ~Written(i)
      <4>1. ASSUME NEW v \in Replayers, replay[v].pc = "mark" PROVE FALSE
        BY <1>1, <3>1, <4>1 DEF Apart
      <4> QED
        BY <3>2, <4>1 DEF Written
    <3>4. applied[a] = 0
      BY <1>2, <2>3, <3>1, <3>3
    <3>5. ~Fresh(a)'
      <4>1. Fresh(a)' => NotYet(a)
        BY <1>0, <1>1, <1>2, FreshBefore
      <4> QED
        BY <2>3, <3>1, <4>1 DEF NotYet
    <3>6. PICK k \in replay[w].todo, ok \in BOOLEAN :
            /\ First(replay[w].todo, k)
            /\ Call(queue[k].action, ok)
            /\ replay' = [replay EXCEPT ![w] = [@ EXCEPT !.pc = "mark", !.ok = ok]]
      BY <2>3 DEF ReplayWrite
    <3>7. k = i
      BY <1>0, <2>3, <3>6, FirstIsOne
    <3>8. ok
      BY <1>0, <1>5, <2>3, <3>6, <3>7, CallReaches DEF Reaches
    <3>9. replay'[w].pc = "mark" /\ replay'[w].ok = ok /\ replay'[w].todo = replay[w].todo
      BY <1>0, <3>6 DEF ReplayState
    <3>10. Written(i)'
      BY <2>3, <3>8, <3>9 DEF Written
    <3> QED
      BY <1>2, <2>3, <3>1, <3>4, <3>5, <3>10
  <2>4. /\ applied[a] = 0 /\ ~Fresh(a)'
        /\ \A i \in DOMAIN queue : queue[i].action = a => Written(i)'
    BY <1>0, <1>5, <2>2, <2>3, BooksStep
  <2> QED
    BY <2>1, <2>4
<1>6. ASSUME NEW i \in DOMAIN queue', NEW j \in DOMAIN queue', queue'[i].action = queue'[j].action
      PROVE  i = j
  <2>1. CASE i \in DOMAIN queue /\ j \in DOMAIN queue
    BY <1>2, <1>3, <1>6, <2>1
  <2>2. CASE i \notin DOMAIN queue /\ j \notin DOMAIN queue
    BY <1>4, <2>2
  <2>3. ASSUME NEW n \in DOMAIN queue', n \notin DOMAIN queue, NEW m \in DOMAIN queue,
               queue'[n].action = queue'[m].action
        PROVE  FALSE
    BY <1>3, <1>4, <2>3 DEF NotYet
  <2> QED
    BY <1>6, <2>1, <2>2, <2>3
<1>7. ASSUME NEW a \in Actions, Fresh(a)' PROVE NotYet(a)'
  <2>1. NotYet(a)
    BY <1>0, <1>1, <1>2, <1>7, FreshBefore
  <2>2. applied'[a] = 0
    BY <1>5, <1>7, <2>1 DEF NotYet
  <2>3. ASSUME NEW i \in DOMAIN queue', queue'[i].action = a PROVE FALSE
    <3>1. CASE i \in DOMAIN queue
      BY <1>3, <2>1, <2>3, <3>1 DEF NotYet
    <3>2. CASE i \notin DOMAIN queue
      BY <1>4, <1>7, <2>3, <3>2
    <3> QED
      BY <3>1, <3>2
  <2> QED
    BY <2>2, <2>3 DEF NotYet
<1>8. ASSUME NEW i \in DOMAIN queue', ~Written(i)' PROVE applied'[queue'[i].action] = 0
  <2>1. CASE i \in DOMAIN queue
    <3>1. ~Written(i)
      BY <1>0, <1>1, <1>8, <2>1, WrittenStays
    <3>2. PICK a \in Actions : a = queue[i].action /\ a = queue'[i].action
      BY <1>3, <2>1
    <3>3. applied[a] = 0
      BY <1>2, <2>1, <3>1, <3>2
    <3>4. applied'[a] = applied[a]
      BY <1>5, <1>8, <2>1, <3>2
    <3> QED
      BY <3>2, <3>3, <3>4
  <2>2. CASE i \notin DOMAIN queue
    BY <1>4, <2>2 DEF NotYet
  <2> QED
    BY <2>1, <2>2
<1>9. ASSUME NEW a \in Actions PROVE applied'[a] <= 1
  <2>1. CASE applied'[a] = applied[a]
    BY <1>2, <2>1
  <2>2. CASE applied'[a] # applied[a]
    BY <1>5, <2>2
  <2> QED
    BY <2>1, <2>2
<1> QED
  BY <1>6, <1>7, <1>8, <1>9

-----------------------------------------------------------------------------
(* The inductive invariant and what follows from it.                       *)

Inv == Kept /\ AllCleared /\ Apart /\ Once

LEMMA InitInv == Init => Inv
<1> SUFFICES ASSUME Init PROVE Inv
  OBVIOUS
<1>1. Kept
  BY InitKept
<1>2. AllCleared
  BY DEF Init, AllCleared, NoDecision
<1>3. Apart
  BY DEF Init, Apart, NoDecision, NoReplay
<1>4. Once
  BY DEF Init, Once, NotYet
<1> QED
  BY <1>1, <1>2, <1>3, <1>4 DEF Inv

LEMMA NextInv ==
  ASSUME Inv, [Next]_vars
  PROVE  Inv'
<1>1. CASE Next
  BY <1>1, NextKept, ClearedKeeps, ApartKeeps, OnceKeeps DEF Inv
<1>2. CASE UNCHANGED vars
  <2>1. Kept'
    BY <1>2, NextKept DEF Inv
  <2>2. AllCleared'
    BY <1>2 DEF Inv, AllCleared, Cleared, vars
  <2>3. Apart'
    BY <1>2 DEF Inv, Apart, vars
  <2>4. Once'
    BY <1>2 DEF Inv, Once, NotYet, Fresh, Written, vars
  <2> QED
    BY <2>1, <2>2, <2>3, <2>4 DEF Inv
<1> QED
  BY <1>1, <1>2

LEMMA WholeInvariant == Spec => []Inv
<1>1. Inv /\ [Next]_vars => Inv'
  BY NextInv
<1> QED
  BY InitInv, <1>1, PTL DEF Spec

\* No money moves, and none is queued to move, unless the amount was within some policy
\* the tenant has had or an approver approved that very action: decideApproval, execute
\* and replayPending open no other way to connectors.ts write.
THEOREM SpendSanctioned == Spec => []SpendIsSanctioned
<1>1. Inv => SpendIsSanctioned
  BY ClearedIsSanctioned DEF Inv
<1> QED
  BY WholeInvariant, <1>1, PTL

\* While no answer is lost, no request dies and no decisions or replays overlap, the
\* agent's write, the approver's write and the replays of the queued one never make an
\* action take effect twice.
THEOREM NothingHappensTwice == Spec => []AtMostOnceUndisturbed
<1>1. Inv => AtMostOnceUndisturbed
  BY DEF Inv, Once, AtMostOnceUndisturbed
<1> QED
  BY WholeInvariant, <1>1, PTL

\* While no decisions or replays overlap, a decided action keeps its status and only the
\* replay of its queued write still reaches the tenant's system.
THEOREM DecisionsAreFinal == Spec => DecidedIsFinal
<1> DEFINE Final ==
      ~raced => \A a \in Actions : row[a] \in {"approved", "rejected", "failed"} =>
        /\ row'[a] = row[a]
        /\ applied'[a] # applied[a] => \E w \in Replayers : replay[w].pc = "write"
<1>1. ASSUME Inv, Next PROVE Final
  <2>0. TypeOK /\ Names /\ AgentForm /\ Apart
    BY <1>1 DEF Inv, Kept
  <2>1. SUFFICES ASSUME ~raced, NEW a \in Actions, row[a] \in {"approved", "rejected", "failed"}
                 PROVE  /\ row'[a] = row[a]
                        /\ applied'[a] # applied[a] => \E w \in Replayers : replay[w].pc = "write"
    OBVIOUS
  <2>2. agent[a].pc = "done"
    BY <2>0, <2>1 DEF AgentForm
  <2>3. \A p \in Approvers : decision[p].pc # "idle" => decision[p].action # a
    BY <2>0, <2>1 DEF Apart
  <2>4. row'[a] = row[a]
    BY <1>1, <2>0, <2>2, <2>3, RowStep DEF Record, Reject, MarkDecided
  <2>5. applied'[a] # applied[a] => \E w \in Replayers : replay[w].pc = "write"
    <3>1. ~Execute(a)
      BY <2>2 DEF Execute
    <3>2. ASSUME NEW p \in Approvers, ExecuteApproved(p) PROVE decision[p].action # a
      BY <2>3, <3>2 DEF ExecuteApproved
    <3>3. \A w \in Replayers : ReplayWrite(w) => replay[w].pc = "write"
      BY DEF ReplayWrite
    <3> QED
      BY <1>1, <2>0, <3>1, <3>2, <3>3, BooksStep
  <2> QED
    BY <2>4, <2>5
<1>2. Inv /\ [Next]_vars => [Final]_vars
  BY <1>1
<1> HIDE DEF Final
<1>3. Spec => [][Final]_vars
  BY WholeInvariant, <1>2, PTL DEF Spec
<1> QED
  BY <1>3 DEF Final, DecidedIsFinal

=============================================================================
