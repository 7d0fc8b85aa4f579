-------------------------- MODULE PromptProfilesProofs --------------------------
(***************************************************************************)
(* Proofs about the prompt profiles and their experiments, for any         *)
(* profiles, requests and bounds: the inductive invariant of the service.  *)
(***************************************************************************)
EXTENDS PromptProfiles, FiniteSetTheorems, NaturalsInduction, WellFoundedInduction, TLAPS

-----------------------------------------------------------------------------
(* Who writes what, and what a reader of the history may come to see.           *)

Entries == [p : Profiles, version : 1..MaxPromptVersion, config : PromptConfigs, action : Actions]
Buffers == UNION {[P -> PromptRow] : P \in SUBSET Profiles}
PromptSteps == {"idle", "archive", "activate", "record", "done"}
PromptJob == [step : PromptSteps, p : Profiles \cup {NoProfile}, action : Actions, exp : BOOLEAN,
              now : Nat, writes : Buffers, records : SUBSET Entries]
Inserted(row) == row.status # "absent" /\ row.version \in 1..MaxPromptVersion
Preparing(h) == promptJobs[h].step \in {"archive", "activate"}
TakenRows(h) == DOMAIN promptJobs[h].writes
\* What a reader of the history may come to see: its rows, and those the other service is about to add.
KnownEntries == versions \cup UNION {promptJobs[h].records : h \in PromptRequests}

\* What a request holds at each of its steps.
StepInv(h) ==
    LET j == promptJobs[h] IN
    /\ j.step = "idle" => j = Waiting
    /\ j.step = "done" => j = Ended
    /\ Writing(h) => j.p \in Profiles
    /\ Preparing(h) => j.records = {} /\ j.now > 0 /\ j.action \in {"published", "created"}
    /\ j.step = "archive" => j.writes = Waiting.writes
    /\ j.step = "activate" => j.p \notin TakenRows(h)
    /\ j.step = "record" => \E v \in Entries : j.records = {v} /\ v.p = j.p
    /\ h \in PromptRequests => j.writes = Waiting.writes
    /\ \A q \in TakenRows(h) : Inserted(j.writes[q])

JobsInv ==
    /\ profiles \in [Profiles -> PromptRow]
    /\ \A p \in Profiles : Inserted(profiles[p])
                             \/ (profiles[p].status = "absent" /\ profiles[p].version = 0)
    /\ versions \in SUBSET Entries
    /\ promptJobs \in [PromptHandlers -> PromptJob]
    /\ promptClock \in Nat /\ overlapped \in BOOLEAN
    /\ \A h \in PromptHandlers : StepInv(h)

\* A row is held by one transaction, and a profile not inserted yet belongs to one request.
OwnersInv ==
    /\ \A g, h \in PromptHandlers : g # h => TakenRows(g) \cap TakenRows(h) = {}
    /\ \A h \in PromptHandlers :
         /\ Preparing(h) => (promptJobs[h].action = "created" <=> profiles[promptJobs[h].p].status = "absent")
         /\ Writing(h) /\ profiles[promptJobs[h].p].status = "absent" =>
              \A g \in PromptHandlers \ {h} : promptJobs[g].p # promptJobs[h].p
         /\ \A q \in TakenRows(h) : profiles[q].status = "absent" => q = promptJobs[h].p

SameEntry(v, row) == v.version = row.version /\ v.config = row.config
WordingInv ==
    /\ \A h \in PromptHandlers : \A q \in TakenRows(h) :
          \/ /\ promptJobs[h].writes[q].version = profiles[q].version
             /\ promptJobs[h].writes[q].config = profiles[q].config
          \/ /\ promptJobs[h].writes[q].version = profiles[q].version + 1
             /\ \E v \in promptJobs[h].records : v.p = q
    /\ \A h \in PromptTxs : \A v \in promptJobs[h].records :
          v.p \in TakenRows(h) /\ SameEntry(v, promptJobs[h].writes[v.p])
    /\ \A v \in KnownEntries : /\ v.version <= profiles[v.p].version
                               /\ v.version = profiles[v.p].version => v.config = profiles[v.p].config
    /\ \A v, w \in KnownEntries : w.p = v.p /\ w.version = v.version => w.config = v.config
    /\ HistoryHasNoUnexplainedHole

OnePlain(rows) ==
    \/ \A p, q \in ActiveIn(rows) : p = q
    \/ \A p \in ActiveIn(rows) : rows[p].config.exp
\* A publication that overlapped nothing runs alone, and has archived what its profile displaces.
ActiveInv ==
    \/ overlapped
    \/ /\ OnePlain(profiles)
       /\ \A h \in PromptHandlers : Publishing(h) =>
            /\ \A g \in PromptHandlers \ {h} : ~Writing(g)
            /\ Preparing(h) => promptJobs[h].exp =
                 (promptJobs[h].action = "published" /\ profiles[promptJobs[h].p].config.exp)
            /\ promptJobs[h].step = "activate" =>
                 \A q \in ActiveIn(Seen(h)) \ {promptJobs[h].p} : promptJobs[h].exp /\ Seen(h)[q].config.exp
            /\ promptJobs[h].step = "record" => OnePlain(Seen(h))
       /\ \A h \in PromptHandlers : ~Publishing(h) =>
            \A q \in TakenRows(h) : promptJobs[h].writes[q].status # "active"

\* Active rows were activated at different times.
ClockInv ==
    /\ IsFiniteSet(ActiveIn(profiles))
    /\ \A p \in ActiveIn(profiles) : profiles[p].at <= promptClock
    /\ \A p, q \in ActiveIn(profiles) : profiles[p].at = profiles[q].at => p = q
    /\ \A h \in PromptHandlers :
         /\ promptJobs[h].now <= promptClock
         /\ \A g \in PromptHandlers \ {h} : Publishing(h) => promptJobs[g].now # promptJobs[h].now
         /\ Publishing(h) /\ (Preparing(h) \/ h \in PromptTxs) =>
              \A p \in ActiveIn(profiles) : profiles[p].at # promptJobs[h].now
         /\ \A q \in TakenRows(h) : promptJobs[h].writes[q].status = "active" =>
              Publishing(h) /\ q = promptJobs[h].p /\ promptJobs[h].writes[q].at = promptJobs[h].now

PromptInv == JobsInv /\ OwnersInv /\ WordingInv /\ ActiveInv /\ ClockInv

-----------------------------------------------------------------------------
\* The rows a transaction buffers are rows of a set of profiles.
LEMMA BufferKinds ==
    /\ \A w \in Buffers : DOMAIN w \in SUBSET Profiles /\ \A q \in DOMAIN w : w[q] \in PromptRow
    /\ \A P \in SUBSET Profiles : \A w \in [P -> PromptRow] : w \in Buffers
PROOF
  BY DEF Buffers

\* A request that has not begun, or has ended, holds nothing.
LEMMA RestingJobs ==
    /\ Waiting \in PromptJob /\ Ended \in PromptJob
    /\ DOMAIN Waiting.writes = {} /\ Ended.writes = Waiting.writes
    /\ Waiting.step = "idle" /\ Ended.step = "done" /\ Waiting.records = {} /\ Ended.records = {}
    /\ Waiting.p = NoProfile /\ Ended.p = NoProfile /\ Waiting.now = 0 /\ Ended.now = 0
PROOF
<1> DEFINE none == [q \in {} |-> 0]
<1>1. none \in Buffers
  <2>1. none \in [{} -> PromptRow] /\ {} \in SUBSET Profiles
    OBVIOUS
  <2> HIDE DEF none
  <2> QED
    BY <2>1, BufferKinds
<1>2. DOMAIN none = {}
  OBVIOUS
<1>3. Waiting = [step |-> "idle", p |-> NoProfile, action |-> "created", exp |-> FALSE,
                 now |-> 0, writes |-> none, records |-> {}]
  BY DEF Waiting
<1> HIDE DEF none
<1>4. Waiting \in PromptJob
  BY <1>1, <1>3 DEF PromptJob, PromptSteps, Actions
<1>5. Ended \in PromptJob /\ Ended.step = "done" /\ Ended.writes = Waiting.writes
        /\ Ended.records = Waiting.records /\ Ended.p = Waiting.p /\ Ended.now = Waiting.now
  BY <1>4 DEF Ended, PromptJob, PromptSteps
<1> QED
  BY <1>2, <1>3, <1>4, <1>5

\* What the types say of one row, one entry and one request.
LEMMA PromptTypes ==
    ASSUME JobsInv
    PROVE  /\ \A p \in Profiles : profiles[p] \in PromptRow
           /\ \A h \in PromptHandlers :
                /\ promptJobs[h] \in PromptJob /\ promptJobs[h].writes \in Buffers
                /\ promptJobs[h].now \in Nat /\ promptJobs[h].records \in SUBSET Entries
                /\ TakenRows(h) \in SUBSET Profiles
                /\ \A q \in TakenRows(h) : promptJobs[h].writes[q] \in PromptRow
           /\ \A h \in PromptRequests : h \notin PromptTxs /\ TakenRows(h) = {}
           /\ KnownEntries \in SUBSET Entries
PROOF
<1>1. \A p \in Profiles : profiles[p] \in PromptRow
  BY DEF JobsInv
<1>2. ASSUME NEW h \in PromptHandlers
      PROVE  /\ promptJobs[h] \in PromptJob /\ promptJobs[h].writes \in Buffers
             /\ promptJobs[h].now \in Nat /\ promptJobs[h].records \in SUBSET Entries
             /\ TakenRows(h) \in SUBSET Profiles
             /\ \A q \in TakenRows(h) : promptJobs[h].writes[q] \in PromptRow
  BY BufferKinds DEF JobsInv, PromptJob, TakenRows
<1>3. \A h \in PromptRequests : h \notin PromptTxs /\ TakenRows(h) = {}
  BY RestingJobs, PromptAssumption DEF JobsInv, StepInv, TakenRows, PromptHandlers
<1>4. KnownEntries \in SUBSET Entries
  BY <1>2 DEF JobsInv, KnownEntries, PromptHandlers
<1> QED
  BY <1>1, <1>2, <1>3, <1>4

LEMMA PromptStart ==
    ASSUME PromptInit
    PROVE  PromptInv
PROOF
<1> USE DEF PromptInit
<1>1. \A h \in PromptHandlers : promptJobs[h] = Waiting
  OBVIOUS
<1>2. \A h \in PromptHandlers : TakenRows(h) = {} /\ ~Writing(h) /\ ~Publishing(h) /\ ~Preparing(h)
  BY <1>1, RestingJobs DEF TakenRows, Writing, Publishing, Preparing
<1>3. \A p \in Profiles :
        \/ profiles[p] = [status |-> "absent", config |-> DefaultConfig, version |-> 0, at |-> 0]
        \/ \E c \in PromptConfigs : profiles[p] = [status |-> "draft", config |-> c, version |-> 1, at |-> 0]
  OBVIOUS
<1>4. 1 \in 1..MaxPromptVersion /\ DefaultConfig \in PromptConfigs
  BY PromptAssumption
<1>5. \A p \in Profiles : profiles[p] \in PromptRow /\ profiles[p].status # "active"
        /\ (Inserted(profiles[p]) \/ (profiles[p].status = "absent" /\ profiles[p].version = 0))
        /\ (profiles[p].status # "absent" => profiles[p].version = 1)
  BY <1>3, <1>4 DEF PromptRow, Statuses, Inserted
<1>6. profiles \in [Profiles -> PromptRow]
  BY <1>5
<1>7. versions \in SUBSET Entries
  BY <1>4, <1>5 DEF Existing, Version, Entries, PromptRow, Actions
<1>8. \A v \in versions : v.p \in Profiles /\ v.version = profiles[v.p].version /\ v.config = profiles[v.p].config
  BY DEF Existing, Version
<1>9. JobsInv
  BY <1>1, <1>2, RestingJobs, <1>5, <1>6, <1>7 DEF StepInv, JobsInv
<1>10. OwnersInv
  BY <1>2 DEF OwnersInv
<1>11. KnownEntries = versions
  BY <1>1, RestingJobs DEF KnownEntries, PromptHandlers
<1>12. WordingInv
  <2>1. \A h \in PromptHandlers : promptJobs[h].records = {}
    BY <1>1, RestingJobs
  <2>2. HistoryHasNoUnexplainedHole
    <3> SUFFICES ASSUME NEW p \in Profiles, NEW n \in 1..profiles[p].version
                 PROVE  \E v \in versions : v.p = p /\ v.version = n
      BY DEF HistoryHasNoUnexplainedHole
    <3>1. profiles[p].status # "absent" /\ profiles[p].version = 1 /\ n = 1
      BY <1>3
    <3>2. Version(p, profiles[p], "created") \in versions
      BY <3>1 DEF Existing
    <3> QED
      BY <3>1, <3>2 DEF Version
  <2>3. \A v \in KnownEntries : /\ v.version <= profiles[v.p].version
                                /\ v.version = profiles[v.p].version => v.config = profiles[v.p].config
    BY <1>5, <1>8, <1>11 DEF PromptRow
  <2>4. \A v, w \in KnownEntries : w.p = v.p /\ w.version = v.version => w.config = v.config
    BY <1>8, <1>11
  <2>5. \A h \in PromptTxs : promptJobs[h].records = {}
    BY <2>1 DEF PromptHandlers
  <2>6. \A h \in PromptTxs : \A v \in promptJobs[h].records :
          v.p \in TakenRows(h) /\ SameEntry(v, promptJobs[h].writes[v.p])
    BY <2>5
  <2>7. \A h \in PromptHandlers : \A q \in TakenRows(h) :
          \/ /\ promptJobs[h].writes[q].version = profiles[q].version
             /\ promptJobs[h].writes[q].config = profiles[q].config
          \/ /\ promptJobs[h].writes[q].version = profiles[q].version + 1
             /\ \E v \in promptJobs[h].records : v.p = q
    BY <1>2
  <2> QED
    BY <2>2, <2>3, <2>4, <2>6, <2>7 DEF WordingInv
<1>13. ActiveIn(profiles) = {}
  BY <1>5 DEF ActiveIn
<1>14. ActiveInv
  BY <1>2, <1>13 DEF ActiveInv, OnePlain
<1>15. ClockInv
  BY <1>1, RestingJobs, <1>2, <1>13, FS_EmptySet DEF ClockInv
<1> QED
  BY <1>9, <1>10, <1>12, <1>14, <1>15 DEF PromptInv

\* One UPDATE or INSERT of a request: it is about rows nobody holds, and it changes one version by one
\* at most, with the history row of that version in its hands.
Statement(h, new, j) ==
    /\ new \in Buffers /\ j \in PromptJob
    /\ j.writes = promptJobs[h].writes /\ promptJobs[h].records = {}
    /\ j.p \in Profiles /\ j.step \in {"activate", "record"}
    /\ DOMAIN new \cap TakenRows(h) = {}
    /\ j.step = "activate" => /\ promptJobs[h].step = "archive" /\ j.p \notin DOMAIN new
                              /\ j.action = promptJobs[h].action /\ j.records = {}
    /\ j.step = "record" => /\ promptJobs[h].step \in {"idle", "activate"}
                            /\ DOMAIN new = {j.p}
                            /\ \E v \in Entries : j.records = {v} /\ v.p = j.p /\ SameEntry(v, new[j.p])
    /\ \A q \in DOMAIN new :
         /\ Inserted(new[q])
         /\ \/ new[q].version = profiles[q].version /\ new[q].config = profiles[q].config
            \/ new[q].version = profiles[q].version + 1 /\ j.step = "record"
         /\ profiles[q].status = "absent" =>
              q = j.p /\ \A g \in PromptHandlers \ {h} : promptJobs[g].p # q
         /\ new[q].status = "active" => j.step = "record" /\ j.now > 0 /\ new[q].at = j.now
    /\ \/ /\ Preparing(h) /\ promptClock' = promptClock /\ overlapped' = overlapped
          /\ j.now = promptJobs[h].now /\ j.p = promptJobs[h].p /\ j.exp = promptJobs[h].exp
       \/ /\ promptJobs[h].step = "idle" /\ Starts(h, FALSE) /\ j.now = 0 /\ j.step = "record"

\* The rest of the tables, and of the history, stays.
Quiet == UNCHANGED <<versions, unrecorded>>

\* Where a statement leaves its rows: in the table, or in the buffer of its transaction.
LEMMA Stored ==
    ASSUME PromptInv, NEW h \in PromptHandlers, NEW new, NEW j, Statement(h, new, j), Write(h, new, j)
    PROVE  /\ profiles' \in [Profiles -> PromptRow]
           /\ \A q \in Profiles : q \notin DOMAIN new \/ h \in PromptTxs => profiles'[q] = profiles[q]
           /\ \A q \in DOMAIN new : h \notin PromptTxs => profiles'[q] = new[q]
           /\ DOMAIN new \in SUBSET Profiles
           /\ \A g \in PromptHandlers \ {h} : DOMAIN new \cap TakenRows(g) = {}
           /\ \E x \in PromptJob :
                /\ promptJobs' = [promptJobs EXCEPT ![h] = x]
                /\ x.step = j.step /\ x.p = j.p /\ x.action = j.action /\ x.exp = j.exp
                /\ x.now = j.now /\ x.records = j.records
                /\ h \notin PromptTxs => x.writes = Waiting.writes
                /\ h \in PromptTxs =>
                     /\ DOMAIN x.writes = DOMAIN new \cup TakenRows(h)
                     /\ \A q \in DOMAIN new : x.writes[q] = new[q]
                     /\ \A q \in TakenRows(h) : x.writes[q] = promptJobs[h].writes[q]
PROOF
<1> USE DEF PromptInv
<1>1. DOMAIN new \in SUBSET Profiles /\ \A q \in DOMAIN new : new[q] \in PromptRow
  BY BufferKinds DEF Statement
<1>2. /\ TakenRows(h) \in SUBSET Profiles /\ \A q \in TakenRows(h) : promptJobs[h].writes[q] \in PromptRow
      /\ \A p \in Profiles : profiles[p] \in PromptRow
  BY PromptTypes
<1>3. j \in PromptJob /\ j.writes = promptJobs[h].writes /\ DOMAIN new \cap TakenRows(h) = {}
  BY DEF Statement
<1>4. \A g \in PromptHandlers \ {h} : DOMAIN new \cap TakenRows(g) = {}
  BY PromptTypes DEF Write, Locked, TakenRows, PromptHandlers
<1>5. CASE h \in PromptTxs
  <2> DEFINE w == [p \in DOMAIN new \cup TakenRows(h) |-> IF p \in DOMAIN new THEN new[p] ELSE promptJobs[h].writes[p]]
             x == [j EXCEPT !.writes = w]
  <2>1. profiles' = profiles /\ promptJobs' = [promptJobs EXCEPT ![h] = x]
    BY <1>3, <1>5 DEF Write, TakenRows
  <2>2. w \in [DOMAIN new \cup TakenRows(h) -> PromptRow] /\ (DOMAIN new \cup TakenRows(h)) \in SUBSET Profiles
    BY <1>1, <1>2
  <2>3. /\ DOMAIN w = DOMAIN new \cup TakenRows(h)
        /\ \A q \in DOMAIN new : w[q] = new[q]
        /\ \A q \in TakenRows(h) : w[q] = promptJobs[h].writes[q]
    BY <1>3
  <2> HIDE DEF w
  <2>4. w \in Buffers
    BY <2>2, BufferKinds
  <2>5. /\ x \in PromptJob /\ x.writes = w
        /\ x.step = j.step /\ x.p = j.p /\ x.action = j.action /\ x.exp = j.exp
        /\ x.now = j.now /\ x.records = j.records
    BY <1>3, <2>4 DEF PromptJob
  <2> HIDE DEF x
  <2> QED
    BY <1>1, <1>2, <1>4, <1>5, <2>1, <2>3, <2>5 DEF JobsInv
<1>6. CASE h \notin PromptTxs
  BY <1>6, <1>3, <1>1, <1>2, <1>4 DEF Write, JobsInv, StepInv, PromptHandlers
<1> QED
  BY <1>5, <1>6

\* Every statement of the service is one of those.
LEMMA ArchiveIsAStatement ==
    ASSUME PromptInv, NEW h \in PromptHandlers, ArchiveOthers(h)
    PROVE  \E new, j : /\ Statement(h, new, j) /\ Write(h, new, j) /\ Quiet
                       /\ j.step = "activate"
                       /\ \A q \in ActiveIn(profiles) \ {j.p} :
                            q \notin DOMAIN new => j.exp /\ profiles[q].config.exp
PROOF
<1> USE DEF PromptInv
<1>1. promptJobs[h].step = "archive" /\ Preparing(h) /\ Writing(h)
  BY DEF ArchiveOthers, Preparing, Writing
<1>2. promptJobs[h].writes = Waiting.writes /\ TakenRows(h) = {} /\ promptJobs[h].records = {}
        /\ promptJobs[h].p \in Profiles
  BY <1>1, RestingJobs DEF JobsInv, StepInv, TakenRows
<1>3. Seen(h) = profiles
  BY <1>2 DEF Seen, JobsInv, TakenRows
<1> DEFINE D == ArchivedBy(h, profiles)
           new == [q \in D |-> [profiles[q] EXCEPT !.status = "archived", !.at = promptJobs[h].now]]
           j == [promptJobs[h] EXCEPT !.step = "activate"]
<1>4. promptJobs[h] \in PromptJob /\ promptJobs[h].now \in Nat
  BY PromptTypes
<1>5. /\ j \in PromptJob /\ j.step = "activate" /\ j.writes = promptJobs[h].writes
      /\ j.p = promptJobs[h].p /\ j.action = promptJobs[h].action /\ j.exp = promptJobs[h].exp
      /\ j.now = promptJobs[h].now /\ j.records = promptJobs[h].records
  BY <1>4 DEF PromptJob, PromptSteps
<1>6. D \in SUBSET Profiles /\ promptJobs[h].p \notin D /\ \A q \in D : profiles[q].status = "active"
  BY DEF ArchivedBy, ActiveIn
<1>7. \A q \in ActiveIn(profiles) \ {promptJobs[h].p} : q \notin D => promptJobs[h].exp /\ profiles[q].config.exp
  BY DEF ArchivedBy
<1>8. Write(h, new, j) /\ Quiet /\ promptClock' = promptClock /\ overlapped' = overlapped
  BY <1>3 DEF ArchiveOthers, Quiet
<1> HIDE DEF D
<1>9. DOMAIN new = D /\ \A q \in D : new[q] = [profiles[q] EXCEPT !.status = "archived", !.at = promptJobs[h].now]
  OBVIOUS
<1>10. \A q \in D : /\ new[q] \in PromptRow /\ new[q].status = "archived"
                    /\ new[q].version = profiles[q].version /\ new[q].config = profiles[q].config
  <2> SUFFICES ASSUME NEW q \in D
               PROVE  /\ new[q] \in PromptRow /\ new[q].status = "archived"
                      /\ new[q].version = profiles[q].version /\ new[q].config = profiles[q].config
    OBVIOUS
  <2>1. profiles[q] \in PromptRow
    BY <1>6, PromptTypes
  <2>2. new[q] = [profiles[q] EXCEPT !.status = "archived", !.at = promptJobs[h].now]
    BY <1>9
  <2> HIDE DEF new
  <2> QED
    BY <1>4, <2>1, <2>2 DEF PromptRow, Statuses
<1>11. new \in Buffers
  <2>1. new \in [D -> PromptRow]
    BY <1>9, <1>10
  <2> HIDE DEF new
  <2> QED
    BY <1>6, <2>1, BufferKinds
<1> HIDE DEF new, j
<1>12. \A q \in D : Inserted(profiles[q]) /\ profiles[q].status # "absent"
  BY <1>6 DEF JobsInv
<1>13. \A q \in D : Inserted(new[q])
  BY <1>10, <1>12 DEF Inserted
<1>14. Statement(h, new, j)
  BY <1>1, <1>2, <1>5, <1>6, <1>8, <1>9, <1>10, <1>11, <1>12, <1>13 DEF Statement
<1> QED
  BY <1>5, <1>7, <1>8, <1>9, <1>14

\* What the one-row statements have in common.
OneRow(h, p, row) ==
    /\ row \in PromptRow /\ Inserted(row) /\ p \in Profiles /\ p \notin TakenRows(h)
    /\ promptJobs[h].step \in {"idle", "activate"}
    /\ \/ row.version = profiles[p].version /\ row.config = profiles[p].config
       \/ row.version = profiles[p].version + 1
    /\ profiles[p].status = "absent" => \A g \in PromptHandlers \ {h} : promptJobs[g].p # p
    /\ row.status = "active" => promptJobs[h].now > 0 /\ row.at = promptJobs[h].now
    /\ \/ /\ promptJobs[h].step = "activate" /\ p = promptJobs[h].p
          /\ promptClock' = promptClock /\ overlapped' = overlapped
       \/ promptJobs[h].step = "idle" /\ Starts(h, FALSE)

LEMMA OneRowIsAStatement ==
    ASSUME PromptInv, NEW h \in PromptHandlers, NEW p, NEW row, NEW a \in Actions, OneRow(h, p, row),
           NEW new, new = [q \in {p} |-> row], NEW j, j = Recording(h, p, row, a)
    PROVE  /\ Statement(h, new, j)
           /\ j.step = "record" /\ j.p = p /\ j.now = promptJobs[h].now
PROOF
<1> USE DEF PromptInv, OneRow
<1> DEFINE v == Version(p, row, a)
<1>1. DOMAIN new = {p} /\ new[p] = row
  OBVIOUS
<1>2. new \in Buffers
  BY BufferKinds
<1>3. v \in Entries /\ v.p = p /\ SameEntry(v, row)
  BY DEF Version, Entries, SameEntry, Inserted, PromptRow
<1>4. promptJobs[h] \in PromptJob
  BY PromptTypes
<1>5. j = [promptJobs[h] EXCEPT !.step = "record", !.p = p, !.records = {v}]
  BY DEF Recording
<1>6. StepInv(h) /\ promptJobs[h].records = {}
  BY RestingJobs DEF JobsInv, StepInv, Preparing
<1> HIDE DEF v
<1>7. /\ j \in PromptJob /\ j.step = "record" /\ j.p = p /\ j.writes = promptJobs[h].writes
      /\ j.now = promptJobs[h].now /\ j.records = {v} /\ j.exp = promptJobs[h].exp
  <2>1. /\ promptJobs[h] \in PromptJob /\ v \in Entries /\ p \in Profiles
        /\ j = [promptJobs[h] EXCEPT !.step = "record", !.p = p, !.records = {v}]
    BY <1>3, <1>4, <1>5
  <2> QED
    BY ONLY <2>1 DEF PromptJob, PromptSteps
<1>8. promptJobs[h].step = "idle" => promptJobs[h].now = 0
  BY <1>6, RestingJobs DEF StepInv
<1>9. \/ /\ Preparing(h) /\ promptClock' = promptClock /\ overlapped' = overlapped
         /\ j.now = promptJobs[h].now /\ j.p = promptJobs[h].p /\ j.exp = promptJobs[h].exp
      \/ /\ promptJobs[h].step = "idle" /\ Starts(h, FALSE) /\ j.now = 0 /\ j.step = "record"
  BY <1>7, <1>8 DEF Preparing
<1>10. \A q \in DOMAIN new :
         /\ Inserted(new[q])
         /\ \/ new[q].version = profiles[q].version /\ new[q].config = profiles[q].config
            \/ new[q].version = profiles[q].version + 1 /\ j.step = "record"
         /\ profiles[q].status = "absent" =>
              q = j.p /\ \A g \in PromptHandlers \ {h} : promptJobs[g].p # q
         /\ new[q].status = "active" => j.step = "record" /\ j.now > 0 /\ new[q].at = j.now
  BY <1>1, <1>7
<1>11. \E u \in Entries : j.records = {u} /\ u.p = j.p /\ SameEntry(u, new[j.p])
  BY <1>1, <1>3, <1>7
<1>12. DOMAIN new \cap TakenRows(h) = {}
  BY <1>1
<1>13. Statement(h, new, j)
  BY <1>1, <1>2, <1>6, <1>7, <1>9, <1>10, <1>11, <1>12 DEF Statement
<1> QED
  BY <1>7, <1>13

\* The activation keeps the wording of its profile, or makes the default one.
LEMMA ActivateIsAStatement ==
    ASSUME PromptInv, NEW h \in PromptHandlers, Activate(h)
    PROVE  \E new, j : /\ Statement(h, new, j) /\ Write(h, new, j) /\ Quiet
                       /\ promptJobs[h].step = "activate" /\ j.step = "record"
                       /\ new[j.p].config.exp = (promptJobs[h].action = "published" /\ profiles[j.p].config.exp)
PROOF
<1> USE DEF PromptInv
<1> DEFINE p == promptJobs[h].p
           row == IF promptJobs[h].action = "created"
                  THEN [status |-> "active", config |-> DefaultConfig, version |-> 1, at |-> promptJobs[h].now]
                  ELSE [Seen(h)[p] EXCEPT !.status = "active", !.at = promptJobs[h].now]
           new == [q \in {p} |-> row]
<1>1. promptJobs[h].step = "activate" /\ Preparing(h) /\ Writing(h)
  BY DEF Activate, Preparing, Writing
<1>2. p \in Profiles /\ p \notin TakenRows(h) /\ promptJobs[h].now > 0 /\ promptJobs[h].action \in {"published", "created"}
  BY <1>1 DEF JobsInv, StepInv
<1>3. Seen(h)[p] = profiles[p] /\ profiles[p] \in PromptRow
  BY <1>2, PromptTypes DEF Seen, TakenRows
<1>4. promptJobs[h].now \in Nat
  BY PromptTypes
<1>5. /\ promptJobs[h].action = "created" <=> profiles[p].status = "absent"
      /\ profiles[p].status = "absent" => \A g \in PromptHandlers \ {h} : promptJobs[g].p # p
  BY <1>1 DEF OwnersInv
<1>6. Write(h, new, Recording(h, p, row, promptJobs[h].action)) /\ Quiet
        /\ promptClock' = promptClock /\ overlapped' = overlapped
  BY DEF Activate, Quiet
<1>7. CASE promptJobs[h].action = "created"
  <2>1. row = [status |-> "active", config |-> DefaultConfig, version |-> 1, at |-> promptJobs[h].now]
    BY <1>7
  <2>2. profiles[p].version = 0
    BY <1>2, <1>5, <1>7 DEF JobsInv, Inserted
  <2>3. 1 \in 1..MaxPromptVersion /\ DefaultConfig \in PromptConfigs /\ DefaultConfig.exp = FALSE
    BY PromptAssumption
  <2> HIDE DEF row, p
  <2>4. row \in PromptRow /\ Inserted(row) /\ row.version = profiles[p].version + 1
    BY <1>4, <2>1, <2>2, <2>3 DEF PromptRow, Statuses, Inserted
  <2>5. row.at = promptJobs[h].now /\ row.config.exp = FALSE /\ new[p].config = row.config
    BY <2>1, <2>3
  <2> DEFINE j == Recording(h, p, row, promptJobs[h].action)
  <2>6. Statement(h, new, j) /\ j.step = "record" /\ j.p = p
    <3>1. promptJobs[h].action \in Actions /\ p = promptJobs[h].p
      BY <1>2 DEF Actions, p
    <3>2. j = Recording(h, p, row, promptJobs[h].action) /\ new = [q \in {p} |-> row]
      OBVIOUS
    <3>3. OneRow(h, p, row)
      BY <1>1, <1>2, <1>5, <1>6, <2>4, <2>5, <3>1 DEF OneRow
    <3> HIDE DEF new, j
    <3> QED
      BY <3>1, <3>2, <3>3, OneRowIsAStatement
  <2>8. Write(h, new, j)
    BY <1>6
  <2> HIDE DEF new, j
  <2> QED
    BY <1>1, <1>6, <1>7, <2>5, <2>6, <2>8
<1>8. CASE promptJobs[h].action = "published"
  <2>1. row = [profiles[p] EXCEPT !.status = "active", !.at = promptJobs[h].now]
    BY <1>3, <1>8
  <2>2. Inserted(profiles[p])
    BY <1>2, <1>5, <1>8 DEF JobsInv
  <2> HIDE DEF row, p
  <2>4. /\ row \in PromptRow /\ row.version = profiles[p].version /\ row.config = profiles[p].config
        /\ row.status = "active" /\ row.at = promptJobs[h].now
    BY <1>3, <1>4, <2>1 DEF PromptRow, Statuses
  <2>5. Inserted(row) /\ new[p].config = row.config
    BY <2>2, <2>4 DEF Inserted
  <2> DEFINE j == Recording(h, p, row, promptJobs[h].action)
  <2>6. Statement(h, new, j) /\ j.step = "record" /\ j.p = p
    <3>1. promptJobs[h].action \in Actions /\ p = promptJobs[h].p
      BY <1>2 DEF Actions, p
    <3>2. j = Recording(h, p, row, promptJobs[h].action) /\ new = [q \in {p} |-> row]
      OBVIOUS
    <3>3. OneRow(h, p, row)
      BY <1>1, <1>2, <1>5, <1>6, <2>4, <2>5, <3>1 DEF OneRow
    <3> HIDE DEF new, j
    <3> QED
      BY <3>1, <3>2, <3>3, OneRowIsAStatement
  <2>8. Write(h, new, j)
    BY <1>6
  <2>7. profiles[p].config.exp \in BOOLEAN
    BY <1>3, PromptAssumption DEF PromptRow
  <2> HIDE DEF new, j
  <2> QED
    BY <1>1, <1>6, <1>8, <2>4, <2>5, <2>6, <2>7, <2>8
<1> QED
  BY <1>2, <1>7, <1>8

\* SetAside, CreateProfile, Edit and Rollback are one statement each, and make nothing active.
LEMMA PlainIsAStatement ==
    ASSUME PromptInv, NEW h \in PromptHandlers, NEW p \in Profiles,
           \/ \E s \in {"archived", "draft"} : SetAside(h, p, s)
           \/ \E c \in PromptConfigs : CreateProfile(h, p, c)
           \/ \E c \in PromptConfigs : Edit(h, p, c)
           \/ \E v \in versions : Rollback(h, p, v)
    PROVE  \E new, j : /\ Statement(h, new, j) /\ Write(h, new, j) /\ Quiet
                       /\ promptJobs[h].step = "idle" /\ j.step = "record" /\ Starts(h, FALSE)
                       /\ j.now = 0 /\ new[j.p].status # "active"
PROOF
<1> USE DEF PromptInv
<1>1. promptJobs[h].step = "idle" /\ Starts(h, FALSE) /\ Quiet
  BY DEF SetAside, CreateProfile, Edit, Rollback, Starts, Quiet
<1>2. TakenRows(h) = {} /\ promptJobs[h].now = 0
  BY <1>1, RestingJobs DEF JobsInv, StepInv, TakenRows
<1>3. profiles[p] \in PromptRow /\ promptClock + 1 \in Nat
  BY PromptTypes DEF JobsInv
<1>4. ASSUME NEW row \in PromptRow, NEW a \in Actions, Inserted(row), row.status # "active",
             \/ row.version = profiles[p].version /\ row.config = profiles[p].config
             \/ row.version = profiles[p].version + 1,
             profiles[p].status = "absent" => \A g \in PromptHandlers \ {h} : promptJobs[g].p # p,
             Write(h, [q \in {p} |-> row], Recording(h, p, row, a))
      PROVE  \E new, j : /\ Statement(h, new, j) /\ Write(h, new, j) /\ Quiet
                       /\ promptJobs[h].step = "idle" /\ j.step = "record" /\ Starts(h, FALSE)
                       /\ j.now = 0 /\ new[j.p].status # "active"
  <2> DEFINE new == [q \in {p} |-> row]
             j == Recording(h, p, row, a)
  <2>1. new[p] = row /\ Write(h, new, j)
    BY <1>4
  <2>2. Statement(h, new, j) /\ j.step = "record" /\ j.p = p /\ j.now = promptJobs[h].now
    <3>1. j = Recording(h, p, row, a) /\ new = [q \in {p} |-> row]
      OBVIOUS
    <3>2. OneRow(h, p, row)
      BY <1>1, <1>2, <1>4 DEF OneRow
    <3> HIDE DEF new, j
    <3> QED
      BY <1>4, <3>1, <3>2, OneRowIsAStatement
  <2> HIDE DEF new, j
  <2> QED
    BY <1>1, <1>2, <1>4, <2>1, <2>2
<1>5. ASSUME NEW s \in {"archived", "draft"}, SetAside(h, p, s)
      PROVE  \E new, j : /\ Statement(h, new, j) /\ Write(h, new, j) /\ Quiet
                       /\ promptJobs[h].step = "idle" /\ j.step = "record" /\ Starts(h, FALSE)
                       /\ j.now = 0 /\ new[j.p].status # "active"
  <2> DEFINE row == [profiles[p] EXCEPT !.status = s, !.at = promptClock + 1]
             a == IF s = "archived" THEN "archived" ELSE "updated"
  <2>1. Write(h, [q \in {p} |-> row], Recording(h, p, row, a)) /\ profiles[p].status # "absent"
    BY <1>5 DEF SetAside, Existing
  <2>2. Inserted(profiles[p])
    BY <2>1 DEF JobsInv
  <2>3. /\ row \in PromptRow /\ row.status = s
        /\ row.version = profiles[p].version /\ row.config = profiles[p].config
    BY <1>3 DEF PromptRow, Statuses
  <2>4. a \in Actions
    BY DEF Actions
  <2> HIDE DEF row, a
  <2>5. Inserted(row) /\ row.status # "active"
    BY <2>2, <2>3 DEF Inserted
  <2> QED
    BY <1>4, <2>1, <2>3, <2>4, <2>5
<1>6. ASSUME NEW c \in PromptConfigs, CreateProfile(h, p, c)
      PROVE  \E new, j : /\ Statement(h, new, j) /\ Write(h, new, j) /\ Quiet
                       /\ promptJobs[h].step = "idle" /\ j.step = "record" /\ Starts(h, FALSE)
                       /\ j.now = 0 /\ new[j.p].status # "active"
  <2> DEFINE row == [status |-> "draft", config |-> c, version |-> 1, at |-> promptClock + 1]
  <2>1. Write(h, [q \in {p} |-> row], Recording(h, p, row, "created"))
    BY <1>6 DEF CreateProfile
  <2>2. profiles[p].version = 0 /\ \A g \in PromptHandlers \ {h} : promptJobs[g].p # p
    BY <1>6 DEF CreateProfile, Existing, JobsInv, Inserted
  <2>3. /\ row \in PromptRow /\ row.status = "draft" /\ row.version = 1 /\ Inserted(row)
    BY <1>3, PromptAssumption DEF PromptRow, Statuses, Inserted
  <2>4. "created" \in Actions
    BY DEF Actions
  <2> HIDE DEF row
  <2>5. row.version = profiles[p].version + 1
    BY <2>2, <2>3
  <2> QED
    BY <1>4, <2>1, <2>2, <2>3, <2>4, <2>5
<1>7. ASSUME NEW c \in PromptConfigs, NEW a \in Actions, p \in Existing, profiles[p].version < MaxPromptVersion,
             Write(h, [q \in {p} |-> Revised(p, c)], Recording(h, p, Revised(p, c), a))
      PROVE  \E new, j : /\ Statement(h, new, j) /\ Write(h, new, j) /\ Quiet
                       /\ promptJobs[h].step = "idle" /\ j.step = "record" /\ Starts(h, FALSE)
                       /\ j.now = 0 /\ new[j.p].status # "active"
  <2> DEFINE row == Revised(p, c)
  <2>1. row = [status |-> "draft", config |-> c, version |-> profiles[p].version + 1, at |-> promptClock + 1]
    BY DEF Revised
  <2>2. profiles[p].status # "absent"
    BY <1>7 DEF Existing
  <2>3. profiles[p].version \in Nat /\ MaxPromptVersion \in Nat
    BY <1>3, PromptAssumption DEF PromptRow
  <2>4. profiles[p].version + 1 \in Nat /\ profiles[p].version + 1 \in 1..MaxPromptVersion
    BY <1>7, <2>3
  <2> HIDE DEF row
  <2>5. /\ row \in PromptRow /\ row.status # "active" /\ Inserted(row) /\ row.version = profiles[p].version + 1
    BY <1>3, <1>7, <2>1, <2>4 DEF PromptRow, Statuses, Inserted
  <2> QED
    BY <1>4, <1>7, <2>2, <2>5 DEF row
<1>8. ASSUME NEW c \in PromptConfigs, Edit(h, p, c)
      PROVE  \E new, j : /\ Statement(h, new, j) /\ Write(h, new, j) /\ Quiet
                       /\ promptJobs[h].step = "idle" /\ j.step = "record" /\ Starts(h, FALSE)
                       /\ j.now = 0 /\ new[j.p].status # "active"
  BY <1>7, <1>8 DEF Edit, Actions
<1>9. ASSUME NEW v \in versions, Rollback(h, p, v)
      PROVE  \E new, j : /\ Statement(h, new, j) /\ Write(h, new, j) /\ Quiet
                       /\ promptJobs[h].step = "idle" /\ j.step = "record" /\ Starts(h, FALSE)
                       /\ j.now = 0 /\ new[j.p].status # "active"
  <2>1. v \in Entries /\ v.p = p
    BY <1>9 DEF Rollback, JobsInv
  <2>2. v \in KnownEntries
    BY <1>9 DEF KnownEntries
  <2>3. v.version <= profiles[p].version /\ v.version \in 1..MaxPromptVersion
    BY <2>1, <2>2 DEF WordingInv, Entries
  <2>4. p \in Existing
    BY <2>3 DEF JobsInv, Inserted, Existing
  <2>5. v.config \in PromptConfigs /\ "rollback" \in Actions
    BY <2>1 DEF Entries, Actions
  <2> QED
    BY <1>7, <1>9, <2>4, <2>5 DEF Rollback
<1> QED
  BY <1>5, <1>6, <1>8, <1>9

\* A publication begins, or the default profile is about to be made: nothing is written yet.
Begun(h, p, x) ==
    /\ promptJobs' = [promptJobs EXCEPT ![h] = x]
    /\ x.step = "archive" /\ x.writes = Waiting.writes /\ x.records = {} /\ x.p = p
    /\ x.now = promptClock + 1 /\ x.now > 0
    /\ x.action \in {"published", "created"}
    /\ x.action = "created" <=> profiles[p].status = "absent"
    /\ profiles[p].status = "absent" => \A g \in PromptHandlers \ {h} : promptJobs[g].p # p
    /\ x.exp = (x.action = "published" /\ profiles[p].config.exp)
    /\ promptJobs[h].step = "idle" /\ promptJobs[h] = Waiting
    /\ Starts(h, TRUE) /\ UNCHANGED <<profiles, versions, unrecorded>>

LEMMA BeginIs ==
    ASSUME PromptInv, NEW h \in PromptHandlers, NEW p \in Profiles,
           StartPublish(h, p) \/ AnswerWithDefault(h, p)
    PROVE  \E x \in PromptJob : Begun(h, p, x)
PROOF
<1> USE DEF PromptInv
<1>1. promptJobs[h].step = "idle" /\ Starts(h, TRUE) /\ UNCHANGED <<profiles, versions, unrecorded>>
  BY DEF StartPublish, AnswerWithDefault, Starts
<1>2. promptJobs[h] = Waiting /\ Waiting \in PromptJob /\ Waiting.exp = FALSE
  BY <1>1, RestingJobs DEF JobsInv, StepInv, Waiting
<1>3. promptClock + 1 \in Nat /\ promptClock + 1 > 0 /\ profiles[p] \in PromptRow
  BY PromptTypes DEF JobsInv
<1>4. profiles[p].config.exp \in BOOLEAN
  BY <1>3, PromptAssumption DEF PromptRow
<1>5. CASE StartPublish(h, p)
  <2> DEFINE x == [Waiting EXCEPT !.step = "archive", !.p = p, !.action = "published",
                    !.exp = profiles[p].config.exp, !.now = promptClock + 1]
  <2>1. promptJobs' = [promptJobs EXCEPT ![h] = x] /\ profiles[p].status # "absent"
    BY <1>2, <1>5 DEF StartPublish, Existing, JobsInv
  <2>2. /\ x \in PromptJob /\ x.step = "archive" /\ x.p = p /\ x.action = "published"
        /\ x.exp = profiles[p].config.exp /\ x.now = promptClock + 1
        /\ x.writes = Waiting.writes /\ x.records = Waiting.records
    BY <1>2, <1>3, <1>4 DEF PromptJob, PromptSteps, Actions
  <2> HIDE DEF x
  <2>3. x.exp = (x.action = "published" /\ profiles[p].config.exp)
    BY <1>4, <2>2
  <2> QED
    BY <1>1, <1>2, <1>3, <2>1, <2>2, <2>3, RestingJobs DEF Begun
<1>6. CASE AnswerWithDefault(h, p)
  <2> DEFINE x == [Waiting EXCEPT !.step = "archive", !.p = p, !.action = "created", !.now = promptClock + 1]
  <2>1. /\ promptJobs' = [promptJobs EXCEPT ![h] = x] /\ profiles[p].status = "absent"
        /\ \A g \in PromptHandlers : promptJobs[g].p # p
    BY <1>2, <1>6 DEF AnswerWithDefault, Existing, JobsInv
  <2>2. /\ x \in PromptJob /\ x.step = "archive" /\ x.p = p /\ x.action = "created"
        /\ x.exp = Waiting.exp /\ x.now = promptClock + 1
        /\ x.writes = Waiting.writes /\ x.records = Waiting.records
    BY <1>2, <1>3 DEF PromptJob, PromptSteps, Actions
  <2> HIDE DEF x
  <2> QED
    BY <1>1, <1>2, <1>3, <2>1, <2>2, RestingJobs DEF Begun
<1> QED
  BY <1>5, <1>6

\* A step of one request leaves the others where they are.
LEMMA OthersStay ==
    ASSUME PromptInv, NEW h \in PromptHandlers, NEW x \in PromptJob, promptJobs' = [promptJobs EXCEPT ![h] = x]
    PROVE  /\ promptJobs' \in [PromptHandlers -> PromptJob]
           /\ promptJobs'[h] = x /\ TakenRows(h)' = DOMAIN x.writes
           /\ Writing(h)' <=> x.step \notin {"idle", "done"}
           /\ Publishing(h)' <=> x.step \notin {"idle", "done"} /\ x.now > 0
           /\ Preparing(h)' <=> x.step \in {"archive", "activate"}
           /\ \A g \in PromptHandlers \ {h} :
                /\ promptJobs'[g] = promptJobs[g] /\ TakenRows(g)' = TakenRows(g) /\ StepInv(g)'
                /\ Writing(g)' = Writing(g) /\ Publishing(g)' = Publishing(g) /\ Preparing(g)' = Preparing(g)
PROOF
<1>1. promptJobs \in [PromptHandlers -> PromptJob]
  BY DEF PromptInv, JobsInv
<1>2. promptJobs' \in [PromptHandlers -> PromptJob] /\ promptJobs'[h] = x
  BY <1>1
<1>3. ASSUME NEW g \in PromptHandlers \ {h}
      PROVE  /\ promptJobs'[g] = promptJobs[g] /\ TakenRows(g)' = TakenRows(g) /\ StepInv(g)'
             /\ Writing(g)' = Writing(g) /\ Publishing(g)' = Publishing(g) /\ Preparing(g)' = Preparing(g)
  BY <1>1 DEF TakenRows, Writing, Publishing, Preparing, PromptInv, JobsInv, StepInv
<1> QED
  BY <1>2, <1>3 DEF TakenRows, Writing, Publishing, Preparing

\* StepInv of a request that has just taken its step.
LEMMA StepOf ==
    ASSUME NEW h \in PromptHandlers, NEW x, promptJobs'[h] = x,
           x.step \notin {"idle", "done"}, x.p \in Profiles,
           x.step \in {"archive", "activate"} =>
             x.records = {} /\ x.now > 0 /\ x.action \in {"published", "created"},
           x.step = "archive" => x.writes = Waiting.writes,
           x.step = "activate" => x.p \notin DOMAIN x.writes,
           x.step = "record" => \E v \in Entries : x.records = {v} /\ v.p = x.p,
           h \in PromptRequests => x.writes = Waiting.writes,
           \A q \in DOMAIN x.writes : Inserted(x.writes[q])
    PROVE  StepInv(h)'
PROOF
  BY DEF StepInv, Preparing, TakenRows, Inserted

LEMMA JobsBegin ==
    ASSUME PromptInv, NEW h \in PromptHandlers, NEW p \in Profiles,
           StartPublish(h, p) \/ AnswerWithDefault(h, p)
    PROVE  JobsInv'
PROOF
<1>0. PICK x \in PromptJob : Begun(h, p, x)
  BY BeginIs
<1>1. /\ promptJobs' = [promptJobs EXCEPT ![h] = x]
      /\ x.step = "archive" /\ x.writes = Waiting.writes /\ x.records = {} /\ x.p = p
      /\ x.now > 0 /\ x.action \in {"published", "created"}
      /\ Starts(h, TRUE) /\ UNCHANGED <<profiles, versions, unrecorded>>
  BY <1>0 DEF Begun
<1>2. StepInv(h)'
  BY <1>1, OthersStay, RestingJobs, StepOf
<1>3. \A g \in PromptHandlers : StepInv(g)'
  BY <1>1, <1>2, OthersStay
<1>4. promptJobs' \in [PromptHandlers -> PromptJob]
  BY <1>1, OthersStay
<1>5. promptClock' \in Nat /\ overlapped' \in BOOLEAN
  BY <1>1 DEF PromptInv, JobsInv, Starts
<1> QED
  BY <1>1, <1>3, <1>4, <1>5 DEF PromptInv, JobsInv

LEMMA JobsWrite ==
    ASSUME PromptInv, NEW h \in PromptHandlers, NEW new, NEW j,
           Statement(h, new, j), Write(h, new, j), Quiet
    PROVE  JobsInv'
PROOF
<1> USE DEF PromptInv
<1>1. PICK x \in PromptJob :
        /\ promptJobs' = [promptJobs EXCEPT ![h] = x]
        /\ x.step = j.step /\ x.p = j.p /\ x.action = j.action /\ x.exp = j.exp
        /\ x.now = j.now /\ x.records = j.records
        /\ h \notin PromptTxs => x.writes = Waiting.writes
        /\ h \in PromptTxs =>
             /\ DOMAIN x.writes = DOMAIN new \cup TakenRows(h)
             /\ \A q \in DOMAIN new : x.writes[q] = new[q]
             /\ \A q \in TakenRows(h) : x.writes[q] = promptJobs[h].writes[q]
  BY Stored
<1>2. \A q \in DOMAIN new : Inserted(new[q])
  BY DEF Statement
<1>3. \A q \in TakenRows(h) : Inserted(promptJobs[h].writes[q])
  BY DEF JobsInv, StepInv
<1>4. \A q \in DOMAIN x.writes : Inserted(x.writes[q])
  BY <1>1, <1>2, <1>3, RestingJobs
<1>5. h \in PromptRequests => h \notin PromptTxs
  BY PromptAssumption
<1>6. x.step \in {"activate", "record"} /\ x.p \in Profiles
  BY <1>1 DEF Statement
<1>7. x.step = "activate" => x.records = {} /\ x.now > 0 /\ x.action \in {"published", "created"}
                             /\ x.p \notin DOMAIN x.writes
  BY <1>1, RestingJobs DEF Statement, Preparing, JobsInv, StepInv, TakenRows
<1>8. x.step = "record" => \E v \in Entries : x.records = {v} /\ v.p = x.p
  BY <1>1 DEF Statement
<1>9. StepInv(h)'
  BY <1>1, <1>4, <1>5, <1>6, <1>7, <1>8, OthersStay, StepOf
<1>10. \A g \in PromptHandlers : StepInv(g)'
  BY <1>1, <1>9, OthersStay
<1>11. promptJobs' \in [PromptHandlers -> PromptJob]
  BY <1>1, OthersStay
<1>12. promptClock' \in Nat /\ overlapped' \in BOOLEAN
  <2>1. promptClock \in Nat /\ overlapped \in BOOLEAN
    BY DEF JobsInv
  <2>2. \/ promptClock' = promptClock /\ overlapped' = overlapped
        \/ Starts(h, FALSE)
    BY DEF Statement
  <2>3. promptClock' \in Nat
    BY <2>1, <2>2 DEF Starts
  <2>4. overlapped' \in BOOLEAN
    BY <2>1, <2>2 DEF Starts
  <2> QED
    BY <2>3, <2>4
<1>13. profiles' \in [Profiles -> PromptRow]
  BY Stored
<1>14. \A p \in Profiles : Inserted(profiles'[p]) \/ (profiles'[p].status = "absent" /\ profiles'[p].version = 0)
  BY Stored, <1>2 DEF JobsInv
<1>15. \A p \in Profiles : Inserted(profiles[p])'
         \/ (profiles[p].status = "absent" /\ profiles[p].version = 0)'
  BY <1>14 DEF Inserted
<1> QED
  BY <1>10, <1>11, <1>12, <1>13, <1>15 DEF JobsInv, Quiet

\* A request ends: it holds nothing any more.
LEMMA JobEnds ==
    ASSUME PromptInv, NEW h \in PromptHandlers, promptJobs' = [promptJobs EXCEPT ![h] = Ended]
    PROVE  /\ promptJobs' \in [PromptHandlers -> PromptJob] /\ promptJobs'[h] = Ended
           /\ TakenRows(h)' = {} /\ ~Writing(h)' /\ ~Publishing(h)' /\ ~Preparing(h)'
           /\ \A g \in PromptHandlers : StepInv(g)'
PROOF
<1>1. Ended \in PromptJob /\ Ended.step = "done" /\ DOMAIN Ended.writes = {}
  BY RestingJobs
<1>2. promptJobs'[h] = Ended /\ TakenRows(h)' = {} /\ ~Writing(h)' /\ ~Publishing(h)' /\ ~Preparing(h)'
  BY <1>1, OthersStay
<1>3. StepInv(h)'
  BY <1>1, <1>2, RestingJobs DEF StepInv
<1> QED
  BY <1>1, <1>2, <1>3, OthersStay

\* What a commit, or a history row added, finds.
LEMMA CommitIs ==
    ASSUME PromptInv, NEW h \in PromptHandlers, RecordVersion(h)
    PROVE  /\ profiles' = Seen(h) /\ profiles' \in [Profiles -> PromptRow]
           /\ \A q \in TakenRows(h) : profiles'[q] = promptJobs[h].writes[q]
           /\ \A q \in Profiles \ TakenRows(h) : profiles'[q] = profiles[q]
           /\ Writing(h) /\ ~Preparing(h) /\ promptJobs[h].step = "record"
           /\ \E v \in Entries : /\ promptJobs[h].records = {v} /\ v.p = promptJobs[h].p
                                 /\ versions' = versions \cup {v}
           /\ promptJobs' = [promptJobs EXCEPT ![h] = Ended]
           /\ UNCHANGED <<promptClock, unrecorded, overlapped>>
PROOF
  BY PromptTypes DEF RecordVersion, PromptInv, JobsInv, StepInv, Seen, TakenRows, Writing, Preparing

LEMMA JobsRecord ==
    ASSUME PromptInv, NEW h \in PromptHandlers, RecordVersion(h)
    PROVE  JobsInv'
PROOF
  BY CommitIs, JobEnds DEF PromptInv, JobsInv, StepInv, Inserted

LEMMA JobsFail ==
    ASSUME PromptInv, NEW h \in PromptHandlers, PromptRequestFails(h)
    PROVE  JobsInv'
PROOF
  BY JobEnds DEF PromptRequestFails, PromptInv, JobsInv, Inserted

-----------------------------------------------------------------------------
LEMMA OwnersBegin ==
    ASSUME PromptInv, NEW h \in PromptHandlers, NEW p \in Profiles,
           StartPublish(h, p) \/ AnswerWithDefault(h, p)
    PROVE  OwnersInv'
PROOF
<1> USE DEF PromptInv
<1>1. PICK x \in PromptJob : Begun(h, p, x)
  BY BeginIs
<1>2. /\ promptJobs' = [promptJobs EXCEPT ![h] = x] /\ profiles' = profiles
      /\ x.step = "archive" /\ DOMAIN x.writes = {} /\ x.p = p
      /\ x.action = "created" <=> profiles[p].status = "absent"
      /\ profiles[p].status = "absent" => \A g \in PromptHandlers \ {h} : promptJobs[g].p # p
  BY <1>1, RestingJobs DEF Begun
<1>3. /\ promptJobs'[h] = x /\ TakenRows(h)' = {}
      /\ \A g \in PromptHandlers \ {h} :
           /\ promptJobs'[g] = promptJobs[g] /\ TakenRows(g)' = TakenRows(g)
           /\ Writing(g)' = Writing(g) /\ Preparing(g)' = Preparing(g)
  BY <1>2, OthersStay
<1>4. \A g \in PromptHandlers \ {h} : Writing(g) /\ profiles[promptJobs[g].p].status = "absent" => promptJobs[g].p # p
  BY <1>2
<1> QED
  BY <1>2, <1>3, <1>4 DEF OwnersInv

LEMMA OwnersWrite ==
    ASSUME PromptInv, NEW h \in PromptHandlers, NEW new, NEW j,
           Statement(h, new, j), Write(h, new, j), Quiet
    PROVE  OwnersInv'
PROOF
<1> USE DEF PromptInv
<1>1. PICK x \in PromptJob :
        /\ promptJobs' = [promptJobs EXCEPT ![h] = x]
        /\ x.step = j.step /\ x.p = j.p /\ x.action = j.action /\ x.exp = j.exp
        /\ x.now = j.now /\ x.records = j.records
        /\ h \notin PromptTxs => x.writes = Waiting.writes
        /\ h \in PromptTxs =>
             /\ DOMAIN x.writes = DOMAIN new \cup TakenRows(h)
             /\ \A q \in DOMAIN new : x.writes[q] = new[q]
             /\ \A q \in TakenRows(h) : x.writes[q] = promptJobs[h].writes[q]
  BY Stored
<1>2. /\ promptJobs'[h] = x /\ TakenRows(h)' = DOMAIN x.writes
      /\ \A g \in PromptHandlers \ {h} :
           /\ promptJobs'[g] = promptJobs[g] /\ TakenRows(g)' = TakenRows(g)
           /\ Writing(g)' = Writing(g) /\ Preparing(g)' = Preparing(g)
  BY <1>1, OthersStay
<1>3. TakenRows(h)' \subseteq DOMAIN new \cup TakenRows(h)
  BY <1>1, <1>2, RestingJobs
<1>4. \A g \in PromptHandlers \ {h} : DOMAIN new \cap TakenRows(g) = {}
  BY Stored
<1>5. \A q \in Profiles : \/ profiles'[q] = profiles[q]
                          \/ q \in DOMAIN new /\ profiles'[q] = new[q] /\ profiles'[q].status # "absent"
  <2>1. \A q \in DOMAIN new : new[q].status # "absent"
    BY DEF Statement, Inserted
  <2> QED
    BY <2>1, Stored
\* Who else writes a profile that is not inserted yet does not own it, so the row stays as it is.
<1>6. ASSUME NEW g \in PromptHandlers \ {h}, Writing(g)
      PROVE  /\ promptJobs[g].p \in Profiles
             /\ profiles[promptJobs[g].p].status = "absent" <=> profiles'[promptJobs[g].p].status = "absent"
             /\ profiles[promptJobs[g].p].status = "absent" => x.p # promptJobs[g].p
  <2>1. promptJobs[g].p \in Profiles
    BY <1>6 DEF JobsInv, StepInv
  <2>2. ASSUME profiles[promptJobs[g].p].status = "absent"
        PROVE  promptJobs[g].p \notin DOMAIN new
    BY <2>2 DEF Statement
  <2>3. ASSUME profiles[promptJobs[g].p].status = "absent"
        PROVE  x.p # promptJobs[g].p
    <3>1. CASE x.step = "record"
      BY <1>1, <2>2, <2>3, <3>1 DEF Statement
    <3>2. CASE x.step # "record"
      <4>1. Preparing(h) /\ x.p = promptJobs[h].p
        BY <1>1, <3>2 DEF Statement
      <4> QED
        BY <1>6, <2>3, <4>1 DEF OwnersInv
    <3> QED
      BY <3>1, <3>2
  <2> QED
    BY <1>5, <2>1, <2>2, <2>3
<1>7. \A g, k \in PromptHandlers : g # k => TakenRows(g)' \cap TakenRows(k)' = {}
  <2> SUFFICES ASSUME NEW g \in PromptHandlers, NEW k \in PromptHandlers, g # k
               PROVE  TakenRows(g)' \cap TakenRows(k)' = {}
    OBVIOUS
  <2>1. TakenRows(g) \cap TakenRows(k) = {}
    BY DEF OwnersInv
  <2> QED
    BY <1>2, <1>3, <1>4, <2>1
<1>8. x.p \in Profiles /\ x.step \in {"activate", "record"}
  BY <1>1 DEF Statement
<1>9. Preparing(h)' => (x.action = "created" <=> profiles'[x.p].status = "absent")
  <2> SUFFICES ASSUME Preparing(h)' PROVE x.action = "created" <=> profiles'[x.p].status = "absent"
    OBVIOUS
  <2>1. x.step = "activate"
    BY <1>2, <1>8 DEF Preparing
  <2>2. Preparing(h) /\ x.action = promptJobs[h].action /\ x.p = promptJobs[h].p /\ x.p \notin DOMAIN new
    BY <1>1, <2>1 DEF Statement, Preparing
  <2> QED
    BY <1>5, <1>8, <2>2 DEF OwnersInv
<1>10. profiles'[x.p].status = "absent" => \A g \in PromptHandlers \ {h} : promptJobs'[g].p # x.p
  <2> SUFFICES ASSUME profiles'[x.p].status = "absent", NEW g \in PromptHandlers \ {h}
               PROVE  promptJobs[g].p # x.p
    BY <1>2
  <2>1. profiles[x.p].status = "absent"
    BY <1>5, <1>8
  <2>2. CASE x.step = "record"
    BY <1>1, <2>1, <2>2 DEF Statement
  <2>3. CASE x.step # "record"
    <3>1. Preparing(h) /\ Writing(h) /\ x.p = promptJobs[h].p
      BY <1>1, <2>3 DEF Statement, Preparing, Writing
    <3> QED
      BY <2>1, <3>1 DEF OwnersInv
  <2> QED
    BY <2>2, <2>3
<1>11. \A q \in TakenRows(h)' : profiles'[q].status = "absent" => q = x.p
  <2> SUFFICES ASSUME NEW q \in TakenRows(h)', profiles'[q].status = "absent" PROVE q = x.p
    OBVIOUS
  <2>1. q \in DOMAIN new \cup TakenRows(h) /\ q \in Profiles
    BY <1>3, PromptTypes, Stored
  <2>2. profiles[q].status = "absent"
    BY <1>5, <2>1
  <2>3. CASE q \in DOMAIN new
    BY <1>1, <2>2, <2>3 DEF Statement
  <2>4. CASE q \in TakenRows(h)
    <3>1. q = promptJobs[h].p
      BY <2>2, <2>4 DEF OwnersInv
    <3>2. promptJobs[h].step # "idle"
      BY <2>4, RestingJobs DEF JobsInv, StepInv, TakenRows
    <3> QED
      BY <1>1, <3>1, <3>2 DEF Statement
  <2> QED
    BY <2>1, <2>3, <2>4
<1>12. ASSUME NEW g \in PromptHandlers \ {h}
       PROVE  /\ Preparing(g)' => (promptJobs'[g].action = "created" <=> profiles'[promptJobs'[g].p].status = "absent")
              /\ Writing(g)' /\ profiles'[promptJobs'[g].p].status = "absent" =>
                   \A k \in PromptHandlers \ {g} : promptJobs'[k].p # promptJobs'[g].p
              /\ \A q \in TakenRows(g)' : profiles'[q].status = "absent" => q = promptJobs'[g].p
  <2>1. Preparing(g) => Writing(g)
    BY DEF Preparing, Writing
  <2>2. Preparing(g)' => (promptJobs'[g].action = "created" <=> profiles'[promptJobs'[g].p].status = "absent")
    BY <1>2, <1>6, <2>1 DEF OwnersInv
  <2>3. Writing(g)' /\ profiles'[promptJobs'[g].p].status = "absent" =>
                   \A k \in PromptHandlers \ {g} : promptJobs'[k].p # promptJobs'[g].p
    BY <1>2, <1>6 DEF OwnersInv
  <2>4. TakenRows(g) \in SUBSET Profiles
    BY PromptTypes
  <2>5. \A q \in TakenRows(g)' : profiles'[q].status = "absent" => q = promptJobs'[g].p
    BY <1>2, <1>5, <2>4 DEF OwnersInv
  <2> QED
    BY <2>2, <2>3, <2>5
<1>13. \A k \in PromptHandlers :
         /\ Preparing(k)' => (promptJobs'[k].action = "created" <=> profiles'[promptJobs'[k].p].status = "absent")
         /\ Writing(k)' /\ profiles'[promptJobs'[k].p].status = "absent" =>
              \A g \in PromptHandlers \ {k} : promptJobs'[g].p # promptJobs'[k].p
         /\ \A q \in TakenRows(k)' : profiles'[q].status = "absent" => q = promptJobs'[k].p
  BY <1>2, <1>9, <1>10, <1>11, <1>12
<1> QED
  BY <1>7, <1>13 DEF OwnersInv

LEMMA OwnersEnd ==
    ASSUME PromptInv, NEW h \in PromptHandlers, RecordVersion(h) \/ PromptRequestFails(h)
    PROVE  OwnersInv'
PROOF
<1> USE DEF PromptInv
<1>1. promptJobs' = [promptJobs EXCEPT ![h] = Ended] /\ Writing(h)
  BY CommitIs DEF PromptRequestFails
<1>2. /\ promptJobs'[h] = Ended /\ TakenRows(h)' = {} /\ ~Writing(h)' /\ ~Preparing(h)'
      /\ Ended \in PromptJob /\ Ended.p = NoProfile
  BY <1>1, JobEnds, RestingJobs
<1>3. \A g \in PromptHandlers \ {h} :
           /\ promptJobs'[g] = promptJobs[g] /\ TakenRows(g)' = TakenRows(g)
           /\ Writing(g)' = Writing(g) /\ Preparing(g)' = Preparing(g)
  BY <1>1, <1>2, OthersStay
<1>4. \A q \in Profiles : profiles'[q] = profiles[q] \/ (q \in TakenRows(h) /\ profiles'[q].status # "absent")
  <2>1. CASE RecordVersion(h)
    BY <2>1, CommitIs DEF JobsInv, StepInv, Inserted
  <2>2. CASE PromptRequestFails(h)
    BY <2>2 DEF PromptRequestFails
  <2> QED
    BY <2>1, <2>2
<1>5. ASSUME NEW g \in PromptHandlers \ {h}, Writing(g)
      PROVE  /\ promptJobs[g].p \in Profiles
             /\ profiles[promptJobs[g].p].status = "absent" <=> profiles'[promptJobs[g].p].status = "absent"
             /\ promptJobs[g].p # NoProfile
  BY <1>5, <1>1, <1>4, PromptAssumption DEF JobsInv, StepInv, OwnersInv
<1>6. \A g, k \in PromptHandlers : g # k => TakenRows(g)' \cap TakenRows(k)' = {}
  BY <1>2, <1>3 DEF OwnersInv
<1>7. ASSUME NEW g \in PromptHandlers \ {h}
       PROVE  /\ Preparing(g)' => (promptJobs'[g].action = "created" <=> profiles'[promptJobs'[g].p].status = "absent")
              /\ Writing(g)' /\ profiles'[promptJobs'[g].p].status = "absent" =>
                   \A k \in PromptHandlers \ {g} : promptJobs'[k].p # promptJobs'[g].p
              /\ \A q \in TakenRows(g)' : profiles'[q].status = "absent" => q = promptJobs'[g].p
  BY <1>3, <1>5, <1>2, PromptTypes, <1>4 DEF Preparing, Writing, OwnersInv
<1>8. \A k \in PromptHandlers :
         /\ Preparing(k)' => (promptJobs'[k].action = "created" <=> profiles'[promptJobs'[k].p].status = "absent")
         /\ Writing(k)' /\ profiles'[promptJobs'[k].p].status = "absent" =>
              \A g \in PromptHandlers \ {k} : promptJobs'[g].p # promptJobs'[k].p
         /\ \A q \in TakenRows(k)' : profiles'[q].status = "absent" => q = promptJobs'[k].p
  BY <1>2, <1>7
<1> QED
  BY <1>6, <1>8 DEF OwnersInv

-----------------------------------------------------------------------------
\* A row keeps its wording, or takes the next version.
Grown(p) ==
    \/ profiles'[p].version = profiles[p].version /\ profiles'[p].config = profiles[p].config
    \/ profiles'[p].version = profiles[p].version + 1

LEMMA KnownKept ==
    ASSUME PromptInv, profiles' \in [Profiles -> PromptRow], \A p \in Profiles : Grown(p),
           NEW K \in SUBSET Entries, \A v \in K : v \in KnownEntries \/ SameEntry(v, profiles'[v.p])
    PROVE  /\ \A v \in K : /\ v.version <= profiles'[v.p].version
                           /\ v.version = profiles'[v.p].version => v.config = profiles'[v.p].config
           /\ \A v, w \in K : w.p = v.p /\ w.version = v.version => w.config = v.config
PROOF
<1>1. ASSUME NEW v \in K
      PROVE  /\ v.p \in Profiles /\ v.version \in Nat
             /\ profiles[v.p].version \in Nat /\ profiles'[v.p].version \in Nat
  BY <1>1, PromptTypes DEF Entries, PromptInv, PromptRow
<1>2. ASSUME NEW v \in K
      PROVE  /\ v.version <= profiles'[v.p].version
             /\ v.version = profiles'[v.p].version => v.config = profiles'[v.p].config
  <2>1. CASE SameEntry(v, profiles'[v.p])
    BY <1>1, <2>1 DEF SameEntry
  <2>2. CASE v \in KnownEntries
    BY <2>2, <1>1 DEF PromptInv, WordingInv, Grown
  <2> QED
    BY <2>1, <2>2
<1>3. ASSUME NEW v \in K, NEW w \in K, w.p = v.p, w.version = v.version
      PROVE  w.config = v.config
  BY <1>3, <1>2 DEF PromptInv, WordingInv, SameEntry
<1> QED
  BY <1>2, <1>3

LEMMA WordingBegin ==
    ASSUME PromptInv, NEW h \in PromptHandlers, NEW p \in Profiles,
           StartPublish(h, p) \/ AnswerWithDefault(h, p)
    PROVE  WordingInv'
PROOF
<1> USE DEF PromptInv
<1>1. PICK x \in PromptJob : Begun(h, p, x)
  BY BeginIs
<1>2. /\ promptJobs' = [promptJobs EXCEPT ![h] = x] /\ UNCHANGED <<profiles, versions, unrecorded>>
      /\ x.records = {} /\ DOMAIN x.writes = {} /\ promptJobs[h].records = {}
  BY <1>1, RestingJobs DEF Begun
<1>3. /\ promptJobs'[h] = x /\ TakenRows(h)' = {}
      /\ \A g \in PromptHandlers \ {h} : promptJobs'[g] = promptJobs[g] /\ TakenRows(g)' = TakenRows(g)
  BY <1>2, OthersStay
<1>4. \A g \in PromptRequests : promptJobs'[g].records = promptJobs[g].records
  BY <1>2, <1>3 DEF PromptHandlers
<1>5. KnownEntries' = KnownEntries
  BY <1>2, <1>4 DEF KnownEntries
<1>6. \A g \in PromptHandlers : \A q \in TakenRows(g)' :
          \/ /\ promptJobs'[g].writes[q].version = profiles'[q].version
             /\ promptJobs'[g].writes[q].config = profiles'[q].config
          \/ /\ promptJobs'[g].writes[q].version = profiles'[q].version + 1
             /\ \E v \in promptJobs'[g].records : v.p = q
  BY <1>2, <1>3 DEF WordingInv
<1>7. \A g \in PromptTxs : \A v \in promptJobs'[g].records :
          v.p \in TakenRows(g)' /\ SameEntry(v, promptJobs'[g].writes[v.p])
  BY <1>2, <1>3 DEF WordingInv, PromptHandlers
<1>8. HistoryHasNoUnexplainedHole'
  <2>1. ASSUME NEW q \in Profiles, NEW n \in 1..profiles[q].version
        PROVE  \/ \E v \in versions : v.p = q /\ v.version = n
               \/ \E g \in PromptRequests : \E v \in promptJobs'[g].records : v.p = q /\ v.version = n
               \/ <<q, n>> \in unrecorded
    BY <2>1, <1>4 DEF WordingInv, HistoryHasNoUnexplainedHole
  <2> QED
    BY <1>2, <2>1 DEF HistoryHasNoUnexplainedHole
<1>9. /\ \A v \in KnownEntries' : /\ v.version <= profiles'[v.p].version
                                  /\ v.version = profiles'[v.p].version => v.config = profiles'[v.p].config
      /\ \A v, w \in KnownEntries' : w.p = v.p /\ w.version = v.version => w.config = v.config
  BY <1>2, <1>5 DEF WordingInv
<1> QED
  BY <1>6, <1>7, <1>8, <1>9 DEF WordingInv, SameEntry

LEMMA WordingWrite ==
    ASSUME PromptInv, NEW h \in PromptHandlers, NEW new, NEW j,
           Statement(h, new, j), Write(h, new, j), Quiet
    PROVE  WordingInv'
PROOF
<1> USE DEF PromptInv
<1>1. PICK x \in PromptJob :
        /\ promptJobs' = [promptJobs EXCEPT ![h] = x]
        /\ x.step = j.step /\ x.p = j.p /\ x.action = j.action /\ x.exp = j.exp
        /\ x.now = j.now /\ x.records = j.records
        /\ h \notin PromptTxs => x.writes = Waiting.writes
        /\ h \in PromptTxs =>
             /\ DOMAIN x.writes = DOMAIN new \cup TakenRows(h)
             /\ \A q \in DOMAIN new : x.writes[q] = new[q]
             /\ \A q \in TakenRows(h) : x.writes[q] = promptJobs[h].writes[q]
  BY Stored
<1>2. /\ promptJobs'[h] = x /\ TakenRows(h)' = DOMAIN x.writes
      /\ \A g \in PromptHandlers \ {h} : promptJobs'[g] = promptJobs[g] /\ TakenRows(g)' = TakenRows(g)
  BY <1>1, OthersStay
<1>3. /\ profiles' \in [Profiles -> PromptRow] /\ DOMAIN new \in SUBSET Profiles
      /\ \A q \in Profiles : q \notin DOMAIN new \/ h \in PromptTxs => profiles'[q] = profiles[q]
      /\ \A q \in DOMAIN new : h \notin PromptTxs => profiles'[q] = new[q]
      /\ \A g \in PromptHandlers \ {h} : DOMAIN new \cap TakenRows(g) = {}
  BY Stored
<1>4. versions' = versions /\ unrecorded' = unrecorded
  BY DEF Quiet
<1>5. promptJobs[h].records = {} /\ j.step \in {"activate", "record"}
  BY DEF Statement
<1>6. x.records = {} \/ \E v \in Entries : /\ x.records = {v} /\ v.p = j.p /\ SameEntry(v, new[j.p])
                                           /\ DOMAIN new = {j.p}
  BY <1>1, <1>5 DEF Statement
<1>7. \A q \in DOMAIN new :
        \/ new[q].version = profiles[q].version /\ new[q].config = profiles[q].config
        \/ /\ new[q].version = profiles[q].version + 1
           /\ \E v \in x.records : v.p = q /\ v.version = new[q].version
  BY <1>1 DEF Statement, SameEntry
<1>8. \A q \in Profiles : Grown(q)
  BY <1>3, <1>7 DEF Grown
<1>9. ASSUME NEW g \in PromptHandlers, NEW q \in TakenRows(g)'
      PROVE  \/ /\ promptJobs'[g].writes[q].version = profiles'[q].version
                /\ promptJobs'[g].writes[q].config = profiles'[q].config
             \/ /\ promptJobs'[g].writes[q].version = profiles'[q].version + 1
                /\ \E v \in promptJobs'[g].records : v.p = q
  <2>1. CASE g # h
    BY <1>2, <1>9, <2>1, PromptTypes, <1>3 DEF WordingInv
  <2>2. CASE g = h /\ h \in PromptTxs
    <3>1. q \in DOMAIN new \cup TakenRows(h) /\ q \in Profiles
      BY <1>1, <1>2, <1>3, <1>9, <2>2, PromptTypes
    <3>2. profiles'[q] = profiles[q] /\ promptJobs'[g] = x
      BY <1>2, <1>3, <2>2, <3>1
    <3>3. CASE q \in DOMAIN new
      BY <1>1, <1>7, <2>2, <3>2, <3>3
    <3>4. CASE q \in TakenRows(h)
      BY <1>5, <3>4, <1>1, <2>2, <3>2 DEF WordingInv
    <3> QED
      BY <3>1, <3>3, <3>4
  <2>3. CASE g = h /\ h \notin PromptTxs
    BY <1>1, <1>2, <1>9, <2>3, RestingJobs
  <2> QED
    BY <2>1, <2>2, <2>3
<1>10. ASSUME NEW g \in PromptTxs, NEW v \in promptJobs'[g].records
       PROVE  v.p \in TakenRows(g)' /\ SameEntry(v, promptJobs'[g].writes[v.p])
  <2>1. CASE g # h
    BY <1>2, <1>10, <2>1 DEF WordingInv, PromptHandlers
  <2>2. CASE g = h
    BY <1>2, <1>6, <1>10, <2>2, <1>1
  <2> QED
    BY <2>1, <2>2
<1>11. \A v \in KnownEntries' : v \in KnownEntries \/ (v \in Entries /\ SameEntry(v, profiles'[v.p]))
  BY <1>4, <1>2, PromptTypes, <1>6, <1>3 DEF KnownEntries, PromptHandlers
<1>12. /\ \A v \in KnownEntries' : /\ v.version <= profiles'[v.p].version
                                   /\ v.version = profiles'[v.p].version => v.config = profiles'[v.p].config
       /\ \A v, w \in KnownEntries' : w.p = v.p /\ w.version = v.version => w.config = v.config
  BY <1>11, PromptTypes, <1>3, <1>8, KnownKept
<1>13. ASSUME NEW p \in Profiles, NEW n \in 1..profiles'[p].version
       PROVE  \/ \E v \in versions' : v.p = p /\ v.version = n
              \/ \E g \in PromptRequests : \E v \in promptJobs'[g].records : v.p = p /\ v.version = n
              \/ <<p, n>> \in unrecorded'
  <2>1. profiles[p].version \in Nat /\ profiles'[p].version \in Nat
    BY <1>3, <1>13, PromptTypes DEF PromptRow
  <2>2. CASE n <= profiles[p].version
    BY <2>1, <2>2, <1>2, <1>5, <1>4 DEF WordingInv, HistoryHasNoUnexplainedHole, PromptHandlers
  <2>3. CASE ~(n <= profiles[p].version)
    BY <1>8, <1>13, <2>1, <2>3, <1>3, <1>7, <1>2 DEF Grown, PromptHandlers
  <2> QED
    BY <2>2, <2>3
<1>14. HistoryHasNoUnexplainedHole'
  BY <1>13 DEF HistoryHasNoUnexplainedHole
<1> QED
  BY <1>9, <1>10, <1>12, <1>14 DEF WordingInv, SameEntry

LEMMA WordingRecord ==
    ASSUME PromptInv, NEW h \in PromptHandlers, RecordVersion(h)
    PROVE  WordingInv'
PROOF
<1> USE DEF PromptInv
<1>1. PICK u \in Entries : promptJobs[h].records = {u} /\ versions' = versions \cup {u}
  BY CommitIs
<1>2. /\ profiles' \in [Profiles -> PromptRow] /\ unrecorded' = unrecorded
      /\ \A q \in TakenRows(h) : profiles'[q] = promptJobs[h].writes[q]
      /\ \A q \in Profiles \ TakenRows(h) : profiles'[q] = profiles[q]
      /\ promptJobs' = [promptJobs EXCEPT ![h] = Ended]
  BY CommitIs
<1>3. promptJobs'[h] = Ended /\ TakenRows(h)' = {} /\ Ended.records = {} /\ Ended \in PromptJob
  BY <1>2, JobEnds, RestingJobs
<1>4. \A g \in PromptHandlers \ {h} : promptJobs'[g] = promptJobs[g] /\ TakenRows(g)' = TakenRows(g)
  BY <1>2, <1>3, OthersStay
<1>5. \A q \in TakenRows(h) :
          \/ /\ promptJobs[h].writes[q].version = profiles[q].version
             /\ promptJobs[h].writes[q].config = profiles[q].config
          \/ promptJobs[h].writes[q].version = profiles[q].version + 1 /\ u.p = q
  BY <1>1 DEF WordingInv
<1>6. \A q \in Profiles : Grown(q)
  BY <1>2, <1>5 DEF Grown
<1>7. h \in PromptTxs => u.p \in TakenRows(h) /\ SameEntry(u, profiles'[u.p])
  BY <1>1, <1>2 DEF WordingInv
<1>8. ASSUME NEW g \in PromptHandlers, NEW q \in TakenRows(g)'
      PROVE  \/ /\ promptJobs'[g].writes[q].version = profiles'[q].version
                /\ promptJobs'[g].writes[q].config = profiles'[q].config
             \/ /\ promptJobs'[g].writes[q].version = profiles'[q].version + 1
                /\ \E v \in promptJobs'[g].records : v.p = q
  BY <1>3, <1>4, <1>8, PromptTypes, <1>2 DEF OwnersInv, WordingInv
<1>9. ASSUME NEW g \in PromptTxs, NEW v \in promptJobs'[g].records
      PROVE  v.p \in TakenRows(g)' /\ SameEntry(v, promptJobs'[g].writes[v.p])
  BY <1>3, <1>4, <1>9 DEF WordingInv, PromptHandlers
<1>10. \A v \in KnownEntries' : v \in KnownEntries \/ (v \in Entries /\ SameEntry(v, profiles'[v.p]))
  BY <1>1, <1>3, <1>4, <1>7 DEF KnownEntries, PromptHandlers
<1>11. /\ \A v \in KnownEntries' : /\ v.version <= profiles'[v.p].version
                                   /\ v.version = profiles'[v.p].version => v.config = profiles'[v.p].config
       /\ \A v, w \in KnownEntries' : w.p = v.p /\ w.version = v.version => w.config = v.config
  BY <1>10, PromptTypes, <1>2, <1>6, KnownKept
<1>12. ASSUME NEW p \in Profiles, NEW n \in 1..profiles'[p].version
       PROVE  \/ \E v \in versions' : v.p = p /\ v.version = n
              \/ \E g \in PromptRequests : \E v \in promptJobs'[g].records : v.p = p /\ v.version = n
              \/ <<p, n>> \in unrecorded'
  <2>1. profiles[p].version \in Nat /\ profiles'[p].version \in Nat
    BY <1>2, <1>12, PromptTypes DEF PromptRow
  <2>2. CASE n <= profiles[p].version
    BY <2>1, <2>2, <1>1, <1>4, <1>2 DEF WordingInv, HistoryHasNoUnexplainedHole, PromptHandlers
  <2>3. CASE ~(n <= profiles[p].version)
    <3>1. profiles'[p].version = profiles[p].version + 1 /\ n = profiles'[p].version
      BY <1>6, <1>12, <2>1, <2>3 DEF Grown
    <3>2. p \in TakenRows(h)
      BY <1>2, <2>1, <3>1
    <3>3. h \in PromptTxs /\ u.p = p
      BY <1>2, <1>5, <2>1, <3>1, <3>2, PromptTypes DEF PromptHandlers
    <3> QED
      BY <1>1, <1>7, <3>1, <3>3 DEF SameEntry
  <2> QED
    BY <2>2, <2>3
<1>13. HistoryHasNoUnexplainedHole'
  BY <1>12 DEF HistoryHasNoUnexplainedHole
<1> QED
  BY <1>8, <1>9, <1>11, <1>13 DEF WordingInv, SameEntry

LEMMA WordingFail ==
    ASSUME PromptInv, NEW h \in PromptHandlers, PromptRequestFails(h)
    PROVE  WordingInv'
PROOF
<1> USE DEF PromptInv
<1>1. /\ promptJobs' = [promptJobs EXCEPT ![h] = Ended] /\ UNCHANGED <<profiles, versions>>
      /\ unrecorded' = IF h \in PromptTxs THEN unrecorded
                       ELSE unrecorded \cup {<<v.p, v.version>> : v \in promptJobs[h].records}
  BY DEF PromptRequestFails
<1>2. promptJobs'[h] = Ended /\ TakenRows(h)' = {} /\ Ended.records = {} /\ Ended \in PromptJob
  BY <1>1, JobEnds, RestingJobs
<1>3. \A g \in PromptHandlers \ {h} : promptJobs'[g] = promptJobs[g] /\ TakenRows(g)' = TakenRows(g)
  BY <1>1, <1>2, OthersStay
<1>4. \A g \in PromptHandlers : \A q \in TakenRows(g)' :
          \/ /\ promptJobs'[g].writes[q].version = profiles'[q].version
             /\ promptJobs'[g].writes[q].config = profiles'[q].config
          \/ /\ promptJobs'[g].writes[q].version = profiles'[q].version + 1
             /\ \E v \in promptJobs'[g].records : v.p = q
  BY <1>1, <1>2, <1>3 DEF WordingInv
<1>5. \A g \in PromptTxs : \A v \in promptJobs'[g].records :
          v.p \in TakenRows(g)' /\ SameEntry(v, promptJobs'[g].writes[v.p])
  BY <1>2, <1>3 DEF WordingInv, PromptHandlers
<1>6. KnownEntries' \in SUBSET KnownEntries
  BY <1>1, <1>2, <1>3 DEF KnownEntries, PromptHandlers
<1>7. /\ \A v \in KnownEntries' : /\ v.version <= profiles'[v.p].version
                                  /\ v.version = profiles'[v.p].version => v.config = profiles'[v.p].config
      /\ \A v, w \in KnownEntries' : w.p = v.p /\ w.version = v.version => w.config = v.config
  BY <1>1, <1>6 DEF WordingInv
<1>8. ASSUME NEW p \in Profiles, NEW n \in 1..profiles[p].version
      PROVE  \/ \E v \in versions : v.p = p /\ v.version = n
             \/ \E g \in PromptRequests : \E v \in promptJobs'[g].records : v.p = p /\ v.version = n
             \/ <<p, n>> \in unrecorded'
  <2>1. \/ \E v \in versions : v.p = p /\ v.version = n
        \/ \E g \in PromptRequests : \E v \in promptJobs[g].records : v.p = p /\ v.version = n
        \/ <<p, n>> \in unrecorded
    BY <1>8 DEF WordingInv, HistoryHasNoUnexplainedHole
  <2>2. ASSUME NEW g \in PromptRequests, NEW v \in promptJobs[g].records, v.p = p, v.version = n
        PROVE  v \in promptJobs'[g].records \/ <<p, n>> \in unrecorded'
    <3>1. CASE g = h
      BY <3>1, PromptTypes, <1>1, <2>2
    <3>2. CASE g # h
      BY <1>3, <2>2, <3>2 DEF PromptHandlers
    <3> QED
      BY <3>1, <3>2
  <2> QED
    BY <1>1, <2>1, <2>2
<1>9. HistoryHasNoUnexplainedHole'
  BY <1>1, <1>8 DEF HistoryHasNoUnexplainedHole
<1> QED
  BY <1>4, <1>5, <1>7, <1>9 DEF WordingInv, SameEntry

-----------------------------------------------------------------------------
\* A publication that starts, or a row that is no longer active, spoils nothing.
LEMMA FewerActive ==
    ASSUME NEW old, NEW rows, OnePlain(old),
           \A p \in ActiveIn(rows) : p \in ActiveIn(old) /\ rows[p] = old[p]
    PROVE  OnePlain(rows)
PROOF
  BY DEF OnePlain

\* What a statement's own request sees after it.
LEMMA SeenAfter ==
    ASSUME PromptInv, NEW h \in PromptHandlers, NEW new, NEW j, Statement(h, new, j), Write(h, new, j)
    PROVE  /\ \A q \in DOMAIN new : q \in Profiles /\ Seen(h)'[q] = new[q]
           /\ \A q \in Profiles \ DOMAIN new : Seen(h)'[q] = Seen(h)[q]
           /\ h \notin PromptTxs => \A q \in Profiles : Seen(h)'[q] = profiles'[q]
           /\ promptJobs[h].step \in {"idle", "archive"} => \A q \in Profiles : Seen(h)[q] = profiles[q]
PROOF
<1> USE DEF PromptInv
<1>1. PICK x \in PromptJob :
        /\ promptJobs' = [promptJobs EXCEPT ![h] = x]
        /\ h \notin PromptTxs => x.writes = Waiting.writes
        /\ h \in PromptTxs =>
             /\ DOMAIN x.writes = DOMAIN new \cup TakenRows(h)
             /\ \A q \in DOMAIN new : x.writes[q] = new[q]
             /\ \A q \in TakenRows(h) : x.writes[q] = promptJobs[h].writes[q]
  BY Stored
<1>2. promptJobs'[h] = x
  BY <1>1, OthersStay
<1>3. \A q \in Profiles : Seen(h)'[q] = IF q \in DOMAIN x.writes THEN x.writes[q] ELSE profiles'[q]
  BY <1>2 DEF Seen
<1>4. \A q \in Profiles : Seen(h)[q] = IF q \in TakenRows(h) THEN promptJobs[h].writes[q] ELSE profiles[q]
  BY DEF Seen, TakenRows
<1>5. /\ DOMAIN new \in SUBSET Profiles /\ DOMAIN new \cap TakenRows(h) = {}
      /\ \A q \in Profiles : q \notin DOMAIN new \/ h \in PromptTxs => profiles'[q] = profiles[q]
      /\ \A q \in DOMAIN new : h \notin PromptTxs => profiles'[q] = new[q]
  BY Stored DEF Statement
<1>6. promptJobs[h].step \in {"idle", "archive"} => TakenRows(h) = {}
  BY RestingJobs DEF JobsInv, StepInv, TakenRows
<1>7. CASE h \in PromptTxs
  BY <1>1, <1>3, <1>5, <1>7, <1>4, <1>6
<1>8. CASE h \notin PromptTxs
  BY <1>1, <1>8, PromptTypes, RestingJobs, <1>3, <1>4, <1>5 DEF PromptHandlers
<1> QED
  BY <1>7, <1>8

\* Who does not write holds nothing.
LEMMA IdleHoldsNothing ==
    ASSUME PromptInv
    PROVE  \A g \in PromptHandlers : ~Writing(g) => TakenRows(g) = {} /\ ~Publishing(g)
PROOF
  BY RestingJobs DEF PromptInv, JobsInv, StepInv, Writing, Publishing, TakenRows

\* Without an overlap, a request that publishes runs alone.
LEMMA PublishesAlone ==
    ASSUME PromptInv, ~overlapped, NEW h \in PromptHandlers, Publishing(h)
    PROVE  \A g \in PromptHandlers \ {h} : ~Writing(g) /\ ~Publishing(g) /\ TakenRows(g) = {}
PROOF
  BY IdleHoldsNothing DEF PromptInv, ActiveInv

LEMMA ActiveBegin ==
    ASSUME PromptInv, NEW h \in PromptHandlers, NEW p \in Profiles,
           StartPublish(h, p) \/ AnswerWithDefault(h, p)
    PROVE  ActiveInv'
PROOF
<1> USE DEF PromptInv
<1>1. PICK x \in PromptJob : Begun(h, p, x)
  BY BeginIs
<1>2. /\ promptJobs' = [promptJobs EXCEPT ![h] = x] /\ profiles' = profiles
      /\ x.step = "archive" /\ DOMAIN x.writes = {} /\ x.p = p /\ x.now > 0
      /\ x.exp = (x.action = "published" /\ profiles[p].config.exp)
      /\ overlapped' = (overlapped \/ \E g \in PromptHandlers \ {h} : Writing(g))
  BY <1>1, RestingJobs DEF Begun, Starts
<1>3. /\ promptJobs'[h] = x /\ TakenRows(h)' = {} /\ Publishing(h)'
      /\ \A g \in PromptHandlers \ {h} :
           /\ promptJobs'[g] = promptJobs[g] /\ TakenRows(g)' = TakenRows(g)
           /\ Writing(g)' = Writing(g) /\ Preparing(g)' = Preparing(g) /\ Publishing(g)' = Publishing(g)
  BY <1>2, OthersStay
<1>4. SUFFICES ASSUME ~overlapped' PROVE ActiveInv'
  BY DEF ActiveInv
<1>5. ~overlapped /\ \A g \in PromptHandlers \ {h} : ~Writing(g) /\ ~Publishing(g) /\ TakenRows(g) = {}
  BY <1>2, <1>4, IdleHoldsNothing
<1>6. OnePlain(profiles)'
  BY <1>2, <1>5 DEF ActiveInv, OnePlain, ActiveIn
<1>7. \A k \in PromptHandlers : Publishing(k)' => k = h
  BY <1>3, <1>5
<1>8. \A k \in PromptHandlers : TakenRows(k)' = {}
  BY <1>3, <1>5
<1>9. \A k \in PromptHandlers : Publishing(k)' =>
            /\ \A g \in PromptHandlers \ {k} : ~Writing(g)'
            /\ promptJobs'[k].exp = (promptJobs'[k].action = "published" /\ profiles'[promptJobs'[k].p].config.exp)
            /\ promptJobs'[k].step = "archive"
  BY <1>2, <1>3, <1>5, <1>7
<1> QED
  BY <1>6, <1>8, <1>9 DEF ActiveInv

\* SetAside, CreateProfile, Edit and Rollback make nothing active.
LEMMA ActivePlain ==
    ASSUME PromptInv, NEW h \in PromptHandlers, NEW new, NEW j,
           Statement(h, new, j), Write(h, new, j), promptJobs[h].step = "idle", Starts(h, FALSE),
           j.step = "record", j.now = 0, new[j.p].status # "active"
    PROVE  ActiveInv'
PROOF
<1> USE DEF PromptInv
<1>1. PICK x \in PromptJob :
        /\ promptJobs' = [promptJobs EXCEPT ![h] = x] /\ x.now = 0
        /\ h \notin PromptTxs => x.writes = Waiting.writes
        /\ h \in PromptTxs =>
             /\ DOMAIN x.writes = DOMAIN new \cup TakenRows(h)
             /\ \A q \in DOMAIN new : x.writes[q] = new[q]
  BY Stored
<1>2. /\ promptJobs'[h] = x /\ TakenRows(h)' = DOMAIN x.writes /\ ~Publishing(h)'
      /\ \A g \in PromptHandlers \ {h} :
           promptJobs'[g] = promptJobs[g] /\ TakenRows(g)' = TakenRows(g) /\ Publishing(g)' = Publishing(g)
  <2>1. ~(x.now > 0)
    BY <1>1
  <2> QED
    BY <1>1, <2>1, OthersStay
<1>3. SUFFICES ASSUME ~overlapped' PROVE ActiveInv'
  BY DEF ActiveInv
<1>4. ~overlapped /\ \A g \in PromptHandlers \ {h} : ~Publishing(g)
  BY <1>3 DEF Starts, Publishing
<1>5. \A q \in DOMAIN new : new[q].status # "active"
  BY DEF Statement
<1>6. TakenRows(h) = {}
  BY RestingJobs DEF JobsInv, StepInv, TakenRows
<1>7. \A q \in TakenRows(h)' : promptJobs'[h].writes[q].status # "active"
  BY <1>1, <1>2, <1>5, <1>6, RestingJobs
<1>8. OnePlain(profiles)'
  <2>1. \A q \in ActiveIn(profiles') : q \in ActiveIn(profiles) /\ profiles'[q] = profiles[q]
    BY <1>5, Stored DEF ActiveIn
  <2>2. OnePlain(profiles)
    BY <1>4 DEF ActiveInv
  <2>3. OnePlain(profiles')
    BY <2>1, <2>2, FewerActive
  <2> QED
    BY <2>3 DEF OnePlain, ActiveIn
<1>9. \A k \in PromptHandlers : ~Publishing(k)'
  BY <1>2, <1>4
<1>10. \A k \in PromptHandlers : \A q \in TakenRows(k)' : promptJobs'[k].writes[q].status # "active"
  BY <1>2, <1>4, <1>7 DEF ActiveInv
<1> QED
  BY <1>8, <1>9, <1>10 DEF ActiveInv

\* The archive and the activation of a publication that runs alone.
LEMMA ActiveAlone ==
    ASSUME PromptInv, NEW h \in PromptHandlers, ~overlapped, Publishing(h), NEW x \in PromptJob,
           promptJobs' = [promptJobs EXCEPT ![h] = x], x.step \in {"activate", "record"}, x.now > 0,
           overlapped' = overlapped, OnePlain(profiles'),
           x.step = "activate" => /\ x.exp = (x.action = "published" /\ profiles'[x.p].config.exp)
                                  /\ \A q \in ActiveIn(Seen(h)') \ {x.p} : x.exp /\ Seen(h)'[q].config.exp,
           x.step = "record" => OnePlain(Seen(h)')
    PROVE  ActiveInv'
PROOF
<1>1. \A g \in PromptHandlers \ {h} : ~Writing(g) /\ ~Publishing(g) /\ TakenRows(g) = {}
  BY PublishesAlone
<1>2. /\ promptJobs'[h] = x /\ Publishing(h)' /\ (Preparing(h)' <=> x.step = "activate")
      /\ \A g \in PromptHandlers \ {h} : TakenRows(g)' = {} /\ ~Writing(g)' /\ ~Publishing(g)'
  <2>1. /\ promptJobs'[h] = x
        /\ Publishing(h)' <=> x.step \notin {"idle", "done"} /\ x.now > 0
        /\ Preparing(h)' <=> x.step \in {"archive", "activate"}
        /\ \A g \in PromptHandlers \ {h} :
             TakenRows(g)' = TakenRows(g) /\ Writing(g)' = Writing(g) /\ Publishing(g)' = Publishing(g)
    BY OthersStay
  <2> QED
    BY <1>1, <2>1
<1>3. OnePlain(profiles)' /\ (x.step = "record" => OnePlain(Seen(h))')
  BY DEF OnePlain, ActiveIn
<1>4. x.step = "activate" => \A q \in ActiveIn(Seen(h))' \ {x.p} : x.exp /\ Seen(h)'[q].config.exp
  BY DEF ActiveIn
<1>5. \A k \in PromptHandlers : Publishing(k)' => k = h
  BY <1>2
<1>6. \A k \in PromptHandlers : Publishing(k)' =>
            /\ \A g \in PromptHandlers \ {k} : ~Writing(g)'
            /\ Preparing(k)' => promptJobs'[k].exp =
                 (promptJobs'[k].action = "published" /\ profiles'[promptJobs'[k].p].config.exp)
            /\ promptJobs'[k].step = "activate" =>
                 \A q \in ActiveIn(Seen(k))' \ {promptJobs'[k].p} : promptJobs'[k].exp /\ Seen(k)'[q].config.exp
            /\ promptJobs'[k].step = "record" => OnePlain(Seen(k))'
  BY <1>2, <1>3, <1>4, <1>5
<1>7. \A k \in PromptHandlers : ~Publishing(k)' =>
            \A q \in TakenRows(k)' : promptJobs'[k].writes[q].status # "active"
  BY <1>2
<1> QED
  BY <1>3, <1>6, <1>7 DEF ActiveInv

LEMMA ActiveArchive ==
    ASSUME PromptInv, NEW h \in PromptHandlers, NEW new, NEW j,
           Statement(h, new, j), Write(h, new, j), j.step = "activate",
           \A q \in ActiveIn(profiles) \ {j.p} : q \notin DOMAIN new => j.exp /\ profiles[q].config.exp
    PROVE  ActiveInv'
PROOF
<1> USE DEF PromptInv
<1>1. PICK x \in PromptJob :
        /\ promptJobs' = [promptJobs EXCEPT ![h] = x]
        /\ x.step = j.step /\ x.p = j.p /\ x.action = j.action /\ x.exp = j.exp /\ x.now = j.now
  BY Stored
<1>2. /\ promptJobs[h].step = "archive" /\ j.p \notin DOMAIN new /\ j.action = promptJobs[h].action
      /\ j.now = promptJobs[h].now /\ j.p = promptJobs[h].p /\ j.exp = promptJobs[h].exp
      /\ overlapped' = overlapped /\ j.p \in Profiles
      /\ \A q \in DOMAIN new : new[q].status # "active"
  BY DEF Statement, Preparing
<1>3. Preparing(h) /\ Publishing(h) /\ j.now > 0
  BY <1>2 DEF JobsInv, StepInv, Preparing, Publishing, Writing
<1>4. SUFFICES ASSUME ~overlapped PROVE ActiveInv'
  BY <1>2 DEF ActiveInv
<1>5. j.exp = (j.action = "published" /\ profiles[j.p].config.exp)
  BY <1>2, <1>3, <1>4 DEF ActiveInv
<1>6. profiles'[j.p] = profiles[j.p]
  BY <1>2, Stored
<1>7. OnePlain(profiles')
  BY <1>2, Stored, <1>4, FewerActive DEF ActiveIn, ActiveInv
<1>8. \A q \in ActiveIn(Seen(h)') \ {j.p} : j.exp /\ Seen(h)'[q].config.exp
  BY <1>2, SeenAfter DEF ActiveIn
<1> QED
  BY <1>1, <1>2, <1>3, <1>4, <1>5, <1>6, <1>7, <1>8, ActiveAlone

LEMMA ActiveActivate ==
    ASSUME PromptInv, NEW h \in PromptHandlers, NEW new, NEW j,
           Statement(h, new, j), Write(h, new, j), promptJobs[h].step = "activate", j.step = "record",
           new[j.p].config.exp = (promptJobs[h].action = "published" /\ profiles[j.p].config.exp)
    PROVE  ActiveInv'
PROOF
<1> USE DEF PromptInv
<1>1. PICK x \in PromptJob :
        /\ promptJobs' = [promptJobs EXCEPT ![h] = x]
        /\ x.step = j.step /\ x.p = j.p /\ x.action = j.action /\ x.exp = j.exp /\ x.now = j.now
  BY Stored
<1>2. /\ DOMAIN new = {j.p} /\ j.now = promptJobs[h].now /\ j.p = promptJobs[h].p /\ j.exp = promptJobs[h].exp
      /\ overlapped' = overlapped /\ j.p \in Profiles
  BY DEF Statement
<1>3. Preparing(h) /\ Publishing(h) /\ j.now > 0
  BY <1>2 DEF JobsInv, StepInv, Preparing, Publishing, Writing
<1>4. SUFFICES ASSUME ~overlapped PROVE ActiveInv'
  BY <1>2 DEF ActiveInv
<1>5. new[j.p].config.exp = j.exp
  BY <1>2, <1>3, <1>4 DEF ActiveInv
<1>6. \A q \in Profiles \ {j.p} : Seen(h)'[q].status = "active" => j.exp /\ Seen(h)'[q].config.exp
  <2> SUFFICES ASSUME NEW q \in Profiles, Seen(h)'[q].status = "active", q # j.p
               PROVE  j.exp /\ Seen(h)'[q].config.exp
    OBVIOUS
  <2>1. Seen(h)'[q] = Seen(h)[q]
    BY <1>2, SeenAfter
  <2>2. q \in ActiveIn(Seen(h)) \ {promptJobs[h].p}
    BY <1>2, <2>1 DEF ActiveIn
  <2> QED
    BY <1>2, <1>3, <1>4, <2>1, <2>2 DEF ActiveInv
<1>7. Seen(h)'[j.p] = new[j.p]
  BY <1>2, SeenAfter
<1>8. OnePlain(Seen(h)')
  BY <1>5, <1>6, <1>7 DEF OnePlain, ActiveIn
<1>9. OnePlain(profiles')
  <2>1. CASE h \in PromptTxs
    BY <2>1, Stored, <1>4, FewerActive DEF ActiveIn, ActiveInv
  <2>2. CASE h \notin PromptTxs
    BY <2>2, SeenAfter, <1>8, FewerActive DEF ActiveIn
  <2> QED
    BY <2>1, <2>2
<1> QED
  BY <1>1, <1>2, <1>3, <1>4, <1>8, <1>9, ActiveAlone

LEMMA ActiveEnd ==
    ASSUME PromptInv, NEW h \in PromptHandlers, RecordVersion(h) \/ PromptRequestFails(h)
    PROVE  ActiveInv'
PROOF
<1> USE DEF PromptInv
<1>1. promptJobs' = [promptJobs EXCEPT ![h] = Ended] /\ Writing(h) /\ overlapped' = overlapped
  BY CommitIs DEF PromptRequestFails
<1>2. promptJobs'[h] = Ended /\ TakenRows(h)' = {} /\ ~Publishing(h)' /\ Ended \in PromptJob
  BY <1>1, JobEnds, RestingJobs
<1>3. \A g \in PromptHandlers \ {h} :
           promptJobs'[g] = promptJobs[g] /\ TakenRows(g)' = TakenRows(g) /\ Publishing(g)' = Publishing(g)
  BY <1>1, <1>2, OthersStay
<1>4. SUFFICES ASSUME ~overlapped PROVE ActiveInv'
  BY <1>1 DEF ActiveInv
<1>5. \A g \in PromptHandlers \ {h} : ~Publishing(g)
  BY <1>1, <1>4, PublishesAlone
<1>6. \A k \in PromptHandlers : ~Publishing(k)'
  BY <1>2, <1>3, <1>5
<1>7. \A k \in PromptHandlers : \A q \in TakenRows(k)' : promptJobs'[k].writes[q].status # "active"
  BY <1>2, <1>3, <1>4, <1>5 DEF ActiveInv
<1>8. OnePlain(profiles')
  <2>1. CASE RecordVersion(h) /\ Publishing(h)
    BY <2>1, CommitIs, <1>4 DEF ActiveInv
  <2>2. CASE RecordVersion(h) /\ ~Publishing(h)
    <3>1. \A q \in TakenRows(h) : promptJobs[h].writes[q].status # "active"
      BY <1>4, <2>2 DEF ActiveInv
    <3>2. \A q \in ActiveIn(profiles') : q \in ActiveIn(profiles) /\ profiles'[q] = profiles[q]
      BY <2>2, <3>1, CommitIs DEF ActiveIn
    <3> QED
      BY <1>4, <3>2, FewerActive DEF ActiveInv
  <2>3. CASE PromptRequestFails(h)
    BY <1>4, <2>3 DEF PromptRequestFails, ActiveInv
  <2> QED
    BY <2>1, <2>2, <2>3
<1>9. OnePlain(profiles)'
  BY <1>8 DEF OnePlain, ActiveIn
<1> QED
  BY <1>6, <1>7, <1>9 DEF ActiveInv

-----------------------------------------------------------------------------
\* Nobody else publishes with the time of a request.
LEMMA TimesDiffer ==
    ASSUME PromptInv
    PROVE  /\ \A g \in PromptHandlers : Publishing(g) =>
                \A k \in PromptHandlers \ {g} : promptJobs[k].now # promptJobs[g].now
           /\ \A g \in PromptHandlers : promptJobs[g].now \in Nat /\ promptJobs[g].now <= promptClock
           /\ \A p \in Profiles : profiles[p].at \in Nat
           /\ promptClock \in Nat
PROOF
  BY PromptTypes DEF PromptInv, ClockInv, JobsInv, PromptRow

LEMMA ClockBegin ==
    ASSUME PromptInv, NEW h \in PromptHandlers, NEW p \in Profiles,
           StartPublish(h, p) \/ AnswerWithDefault(h, p)
    PROVE  ClockInv'
PROOF
<1> USE DEF PromptInv
<1>1. PICK x \in PromptJob : Begun(h, p, x)
  BY BeginIs
<1>2. /\ promptJobs' = [promptJobs EXCEPT ![h] = x] /\ profiles' = profiles
      /\ DOMAIN x.writes = {} /\ x.now = promptClock + 1 /\ promptClock' = promptClock + 1
  BY <1>1, RestingJobs DEF Begun, Starts
<1>3. /\ promptJobs'[h] = x /\ TakenRows(h)' = {}
      /\ \A g \in PromptHandlers \ {h} :
           /\ promptJobs'[g] = promptJobs[g] /\ TakenRows(g)' = TakenRows(g)
           /\ Preparing(g)' = Preparing(g) /\ Publishing(g)' = Publishing(g)
  BY <1>2, OthersStay
<1>4. /\ \A g \in PromptHandlers : promptJobs[g].now <= promptClock' /\ promptJobs[g].now # x.now
      /\ x.now <= promptClock'
      /\ \A q \in ActiveIn(profiles) : profiles[q].at <= promptClock' /\ profiles[q].at # x.now
  BY TimesDiffer, <1>2 DEF ClockInv, ActiveIn
<1>5. \A k \in PromptHandlers : promptJobs'[k].now <= promptClock'
  BY <1>3, <1>4
<1>6. \A k \in PromptHandlers : \A g \in PromptHandlers \ {k} : Publishing(k)' => promptJobs'[g].now # promptJobs'[k].now
  BY <1>3, <1>4 DEF ClockInv
<1>7. \A k \in PromptHandlers : Publishing(k)' /\ (Preparing(k)' \/ k \in PromptTxs) =>
              \A q \in ActiveIn(profiles) : profiles[q].at # promptJobs'[k].now
  BY <1>3, <1>4 DEF ClockInv
<1>8. \A k \in PromptHandlers : \A q \in TakenRows(k)' : promptJobs'[k].writes[q].status = "active" =>
              Publishing(k)' /\ q = promptJobs'[k].p /\ promptJobs'[k].writes[q].at = promptJobs'[k].now
  BY <1>3 DEF ClockInv
<1>9. ActiveIn(profiles)' = ActiveIn(profiles)
  BY <1>2 DEF ActiveIn
<1>10. /\ IsFiniteSet(ActiveIn(profiles)')
       /\ \A q \in ActiveIn(profiles)' : profiles'[q].at <= promptClock'
       /\ \A q, r \in ActiveIn(profiles)' : profiles'[q].at = profiles'[r].at => q = r
  BY <1>2, <1>4, <1>9 DEF ClockInv
<1>11. \A k \in PromptHandlers : Publishing(k)' /\ (Preparing(k)' \/ k \in PromptTxs) =>
              \A q \in ActiveIn(profiles)' : profiles'[q].at # promptJobs'[k].now
  BY <1>2, <1>7, <1>9
<1> QED
  BY <1>5, <1>6, <1>8, <1>10, <1>11 DEF ClockInv

LEMMA ClockWrite ==
    ASSUME PromptInv, NEW h \in PromptHandlers, NEW new, NEW j, Statement(h, new, j), Write(h, new, j)
    PROVE  ClockInv'
PROOF
<1> USE DEF PromptInv
<1>1. PICK x \in PromptJob :
        /\ promptJobs' = [promptJobs EXCEPT ![h] = x]
        /\ x.step = j.step /\ x.p = j.p /\ x.now = j.now
        /\ h \notin PromptTxs => x.writes = Waiting.writes
        /\ h \in PromptTxs =>
             /\ DOMAIN x.writes = DOMAIN new \cup TakenRows(h)
             /\ \A q \in DOMAIN new : x.writes[q] = new[q]
             /\ \A q \in TakenRows(h) : x.writes[q] = promptJobs[h].writes[q]
  BY Stored
<1>2. /\ promptJobs'[h] = x /\ TakenRows(h)' = DOMAIN x.writes
      /\ Publishing(h)' <=> x.step \notin {"idle", "done"} /\ x.now > 0
      /\ Preparing(h)' <=> x.step \in {"archive", "activate"}
      /\ \A g \in PromptHandlers \ {h} :
           /\ promptJobs'[g] = promptJobs[g] /\ TakenRows(g)' = TakenRows(g)
           /\ Preparing(g)' = Preparing(g) /\ Publishing(g)' = Publishing(g)
  BY <1>1, OthersStay
<1>3. j.step \in {"activate", "record"}
  BY DEF Statement
\* A request that makes a row active publishes, with the time it began at.
<1>4. \/ x.now = 0
      \/ x.now = promptJobs[h].now /\ x.p = promptJobs[h].p /\ Preparing(h) /\ Publishing(h)
  <2>1. Preparing(h) => promptJobs[h].now > 0 /\ Writing(h)
    BY DEF JobsInv, StepInv, Preparing, Writing
  <2> QED
    BY <1>1, <2>1 DEF Statement, Publishing
<1>5. promptClock' \in Nat /\ promptClock <= promptClock' /\ \A n \in Nat : n <= promptClock => n <= promptClock'
  <2>1. promptClock' = promptClock \/ promptClock' = promptClock + 1
    BY DEF Statement, Starts
  <2> QED
    BY <2>1, TimesDiffer
<1>6. x.now \in Nat /\ x.now <= promptClock' /\ 0 <= promptClock'
  BY <1>4, <1>5, TimesDiffer
<1>7. \A q \in DOMAIN new : new[q].status = "active" =>
        /\ x.step = "record" /\ x.now > 0 /\ new[q].at = x.now /\ q = x.p
        /\ Publishing(h) /\ Preparing(h) /\ x.now = promptJobs[h].now
  BY <1>1, <1>4 DEF Statement
<1>8. \A q \in Profiles :
        \/ profiles'[q] = profiles[q]
        \/ h \notin PromptTxs /\ q \in DOMAIN new /\ profiles'[q] = new[q]
  BY Stored
<1>9. \A q \in ActiveIn(profiles') :
        \/ q \in ActiveIn(profiles) /\ profiles'[q] = profiles[q]
        \/ /\ q = x.p /\ profiles'[q].at = x.now /\ x.step = "record" /\ h \notin PromptTxs
           /\ Publishing(h) /\ Preparing(h) /\ x.now = promptJobs[h].now
  BY <1>7, <1>8 DEF ActiveIn
<1>10. \A q \in ActiveIn(profiles) : profiles[q].at \in Nat /\ profiles[q].at <= promptClock
  BY TimesDiffer DEF ClockInv, ActiveIn
<1>11. IsFiniteSet(ActiveIn(profiles'))
  <2>1. IsFiniteSet(ActiveIn(profiles) \cup {x.p})
    BY FS_AddElement DEF ClockInv
  <2>2. ActiveIn(profiles') \subseteq ActiveIn(profiles) \cup {x.p}
    BY <1>9
  <2> QED
    BY <2>1, <2>2, FS_Subset
<1>12. \A q \in ActiveIn(profiles') : profiles'[q].at <= promptClock'
  BY <1>5, <1>6, <1>9, <1>10
<1>13. ASSUME NEW q \in ActiveIn(profiles'), NEW r \in ActiveIn(profiles'), profiles'[q].at = profiles'[r].at
       PROVE  q = r
  <2>1. Publishing(h) /\ Preparing(h) => \A p \in ActiveIn(profiles) : profiles[p].at # promptJobs[h].now
    BY DEF ClockInv
  <2> QED
    BY <1>9, <1>13, <2>1 DEF ClockInv
<1>14. \A k \in PromptHandlers : promptJobs'[k].now <= promptClock'
  BY <1>2, <1>5, <1>6, TimesDiffer
<1>15. \A k \in PromptHandlers : \A g \in PromptHandlers \ {k} : Publishing(k)' => promptJobs'[g].now # promptJobs'[k].now
  <2>1. ASSUME NEW g \in PromptHandlers \ {h}, Publishing(g) PROVE x.now # promptJobs[g].now
    <3>1. promptJobs[g].now > 0 /\ promptJobs[g].now # promptJobs[h].now
      BY <2>1, TimesDiffer DEF Publishing
    <3> QED
      BY <1>4, <3>1
  <2>2. ASSUME NEW g \in PromptHandlers \ {h}, Publishing(h)' PROVE x.now # promptJobs[g].now
    <3>1. Publishing(h) /\ x.now = promptJobs[h].now
      BY <1>2, <1>4, <2>2
    <3> QED
      BY <2>2, <3>1, TimesDiffer
  <2>3. \A k \in PromptHandlers \ {h} : \A g \in PromptHandlers \ {k} : Publishing(k) => promptJobs[g].now # promptJobs[k].now
    BY TimesDiffer
  <2> QED
    BY <1>2, <2>1, <2>2, <2>3
<1>16. ASSUME NEW k \in PromptHandlers, Publishing(k)', Preparing(k)' \/ k \in PromptTxs,
              NEW q \in ActiveIn(profiles')
       PROVE  profiles'[q].at # promptJobs'[k].now
  <2>1. CASE k = h
    <3>1. Publishing(h) /\ Preparing(h) /\ x.now = promptJobs[h].now
      BY <1>2, <1>4, <1>16, <2>1
    <3>2. q \in ActiveIn(profiles) /\ profiles'[q] = profiles[q]
      BY <1>2, <1>9, <1>16, <2>1
    <3> QED
      BY <1>2, <2>1, <3>1, <3>2 DEF ClockInv
  <2>2. CASE k # h
    <3>1. Publishing(k) /\ (Preparing(k) \/ k \in PromptTxs) /\ promptJobs'[k] = promptJobs[k]
      BY <1>2, <1>16, <2>2
    <3>2. CASE q \in ActiveIn(profiles) /\ profiles'[q] = profiles[q]
      BY <3>1, <3>2 DEF ClockInv
    <3>3. CASE profiles'[q].at = x.now /\ x.now = promptJobs[h].now
      BY <2>2, <3>1, <3>3, TimesDiffer
    <3> QED
      BY <1>9, <3>2, <3>3
  <2> QED
    BY <2>1, <2>2
<1>17. ASSUME NEW k \in PromptHandlers, NEW q \in TakenRows(k)', promptJobs'[k].writes[q].status = "active"
       PROVE  Publishing(k)' /\ q = promptJobs'[k].p /\ promptJobs'[k].writes[q].at = promptJobs'[k].now
  <2>1. CASE k # h
    BY <1>2, <1>17, <2>1 DEF ClockInv
  <2>2. CASE k = h /\ h \in PromptTxs
    <3>1. q \in DOMAIN new \cup TakenRows(h)
      BY <1>1, <1>2, <1>17, <2>2
    <3>2. CASE q \in DOMAIN new
      BY <1>1, <1>2, <1>7, <1>17, <2>2, <3>2
    <3>3. CASE q \in TakenRows(h)
      <4>1. promptJobs[h].writes[q].status = "active"
        BY <1>1, <1>2, <1>17, <2>2, <3>3
      <4>2. Publishing(h) /\ q = promptJobs[h].p /\ promptJobs[h].writes[q].at = promptJobs[h].now
        BY <3>3, <4>1 DEF ClockInv
      <4>3. x.now = promptJobs[h].now /\ x.p = promptJobs[h].p /\ promptJobs[h].now > 0
        BY <1>1, <4>2 DEF Statement, Publishing, Writing
      <4> QED
        BY <1>1, <1>2, <1>3, <2>2, <3>3, <4>2, <4>3
    <3> QED
      BY <3>1, <3>2, <3>3
  <2>3. CASE k = h /\ h \notin PromptTxs
    BY <1>1, <1>2, <1>17, <2>3, RestingJobs
  <2> QED
    BY <2>1, <2>2, <2>3
<1>18. ActiveIn(profiles)' = ActiveIn(profiles')
  BY DEF ActiveIn
<1>19. /\ IsFiniteSet(ActiveIn(profiles)')
       /\ \A q \in ActiveIn(profiles)' : profiles'[q].at <= promptClock'
       /\ \A q, r \in ActiveIn(profiles)' : profiles'[q].at = profiles'[r].at => q = r
       /\ \A k \in PromptHandlers : Publishing(k)' /\ (Preparing(k)' \/ k \in PromptTxs) =>
              \A q \in ActiveIn(profiles)' : profiles'[q].at # promptJobs'[k].now
  BY <1>11, <1>12, <1>13, <1>16, <1>18
<1> QED
  BY <1>14, <1>15, <1>17, <1>19 DEF ClockInv

LEMMA ClockEnd ==
    ASSUME PromptInv, NEW h \in PromptHandlers, RecordVersion(h) \/ PromptRequestFails(h)
    PROVE  ClockInv'
PROOF
<1> USE DEF PromptInv
<1>1. promptJobs' = [promptJobs EXCEPT ![h] = Ended] /\ promptClock' = promptClock
  BY CommitIs DEF PromptRequestFails
<1>2. /\ promptJobs'[h] = Ended /\ TakenRows(h)' = {} /\ ~Publishing(h)' /\ Ended \in PromptJob /\ Ended.now = 0
  BY <1>1, JobEnds, RestingJobs
<1>3. \A g \in PromptHandlers \ {h} :
           /\ promptJobs'[g] = promptJobs[g] /\ TakenRows(g)' = TakenRows(g)
           /\ Preparing(g)' = Preparing(g) /\ Publishing(g)' = Publishing(g)
  BY <1>1, <1>2, OthersStay
<1>4. \A q \in ActiveIn(profiles') :
        \/ q \in ActiveIn(profiles) /\ profiles'[q] = profiles[q]
        \/ /\ q = promptJobs[h].p /\ profiles'[q].at = promptJobs[h].now /\ Publishing(h) /\ h \in PromptTxs
  <2>1. CASE RecordVersion(h)
    BY <2>1, CommitIs, PromptTypes DEF ActiveIn, PromptHandlers, ClockInv
  <2>2. CASE PromptRequestFails(h)
    BY <2>2 DEF PromptRequestFails
  <2> QED
    BY <2>1, <2>2
<1>5. IsFiniteSet(ActiveIn(profiles'))
  <2>1. IsFiniteSet(ActiveIn(profiles) \cup {promptJobs[h].p})
    BY FS_AddElement DEF ClockInv
  <2>2. ActiveIn(profiles') \subseteq ActiveIn(profiles) \cup {promptJobs[h].p}
    BY <1>4
  <2> QED
    BY <2>1, <2>2, FS_Subset
<1>6. \A q \in ActiveIn(profiles') : profiles'[q].at <= promptClock'
  BY <1>1, <1>4 DEF ClockInv
<1>7. ASSUME NEW q \in ActiveIn(profiles'), NEW r \in ActiveIn(profiles'), profiles'[q].at = profiles'[r].at
      PROVE  q = r
  BY <1>4, <1>7 DEF ClockInv
<1>8. \A k \in PromptHandlers : promptJobs'[k].now <= promptClock'
  BY TimesDiffer, <1>1, <1>2, <1>3
<1>9. \A k \in PromptHandlers : \A g \in PromptHandlers \ {k} : Publishing(k)' => promptJobs'[g].now # promptJobs'[k].now
  BY TimesDiffer, <1>2, <1>3 DEF Publishing, ClockInv
<1>10. ASSUME NEW k \in PromptHandlers, Publishing(k)', Preparing(k)' \/ k \in PromptTxs,
              NEW q \in ActiveIn(profiles')
       PROVE  profiles'[q].at # promptJobs'[k].now
  BY <1>2, <1>3, <1>10, TimesDiffer, <1>4 DEF ClockInv
<1>11. \A k \in PromptHandlers : \A q \in TakenRows(k)' : promptJobs'[k].writes[q].status = "active" =>
         Publishing(k)' /\ q = promptJobs'[k].p /\ promptJobs'[k].writes[q].at = promptJobs'[k].now
  BY <1>2, <1>3 DEF ClockInv
<1>12. ActiveIn(profiles)' = ActiveIn(profiles')
  BY DEF ActiveIn
<1>13. /\ IsFiniteSet(ActiveIn(profiles)')
       /\ \A q \in ActiveIn(profiles)' : profiles'[q].at <= promptClock'
       /\ \A q, r \in ActiveIn(profiles)' : profiles'[q].at = profiles'[r].at => q = r
       /\ \A k \in PromptHandlers : Publishing(k)' /\ (Preparing(k)' \/ k \in PromptTxs) =>
              \A q \in ActiveIn(profiles)' : profiles'[q].at # promptJobs'[k].now
  BY <1>5, <1>6, <1>7, <1>10, <1>12
<1> QED
  BY <1>8, <1>9, <1>11, <1>13 DEF ClockInv

-----------------------------------------------------------------------------
LEMMA PromptStep == PromptInv /\ [PromptNext]_promptVars => PromptInv'
PROOF
<1> SUFFICES ASSUME PromptInv, [PromptNext]_promptVars PROVE PromptInv'
  OBVIOUS
<1>1. ASSUME NEW h \in PromptHandlers, NEW p \in Profiles, StartPublish(h, p) \/ AnswerWithDefault(h, p)
      PROVE  PromptInv'
  BY <1>1, JobsBegin, OwnersBegin, WordingBegin, ActiveBegin, ClockBegin DEF PromptInv
<1>2. ASSUME NEW h \in PromptHandlers, ArchiveOthers(h) PROVE PromptInv'
  BY <1>2, ArchiveIsAStatement, JobsWrite, OwnersWrite, WordingWrite, ActiveArchive, ClockWrite DEF PromptInv
<1>3. ASSUME NEW h \in PromptHandlers, Activate(h) PROVE PromptInv'
  BY <1>3, ActivateIsAStatement, JobsWrite, OwnersWrite, WordingWrite, ActiveActivate, ClockWrite DEF PromptInv
<1>4. ASSUME NEW h \in PromptHandlers, NEW p \in Profiles,
             \/ \E s \in {"archived", "draft"} : SetAside(h, p, s)
             \/ \E c \in PromptConfigs : CreateProfile(h, p, c)
             \/ \E c \in PromptConfigs : Edit(h, p, c)
             \/ \E v \in versions : Rollback(h, p, v)
      PROVE  PromptInv'
  BY <1>4, PlainIsAStatement, JobsWrite, OwnersWrite, WordingWrite, ActivePlain, ClockWrite DEF PromptInv
<1>5. ASSUME NEW h \in PromptHandlers, RecordVersion(h) PROVE PromptInv'
  BY <1>5, JobsRecord, OwnersEnd, WordingRecord, ActiveEnd, ClockEnd DEF PromptInv
<1>6. ASSUME NEW h \in PromptHandlers, PromptRequestFails(h) PROVE PromptInv'
  BY <1>6, JobsFail, OwnersEnd, WordingFail, ActiveEnd, ClockEnd DEF PromptInv
<1>7. CASE UNCHANGED promptVars
  <2>1. UNCHANGED <<profiles, versions, promptJobs, promptClock, unrecorded, overlapped>>
    BY <1>7 DEF promptVars
  <2>2. \A h \in PromptHandlers : TakenRows(h)' = TakenRows(h) /\ Writing(h)' = Writing(h) /\ Preparing(h)' = Preparing(h)
          /\ Publishing(h)' = Publishing(h) /\ Seen(h)' = Seen(h)
    BY <2>1 DEF TakenRows, Writing, Preparing, Publishing, Seen
  <2>3. JobsInv'
    BY <2>1, <2>2 DEF StepInv, PromptInv, JobsInv, Inserted
  <2>4. OwnersInv'
    BY <2>1, <2>2 DEF PromptInv, OwnersInv
  <2>5. WordingInv'
    BY <2>1, <2>2 DEF KnownEntries, HistoryHasNoUnexplainedHole, PromptInv, WordingInv, PromptHandlers, SameEntry
  <2>6. ActiveInv'
    BY <2>1, <2>2 DEF PromptInv, ActiveInv, OnePlain, ActiveIn
  <2>7. ClockInv'
    BY <2>1, <2>2 DEF PromptInv, ClockInv, ActiveIn
  <2> QED
    BY <2>3, <2>4, <2>5, <2>6, <2>7 DEF PromptInv
<1> QED
  BY <1>1, <1>2, <1>3, <1>4, <1>5, <1>6, <1>7 DEF PromptNext

Pick(s) == CHOOSE x \in s : TRUE
Weight(rows, p) == rows[p].config.weight
WeighsOf(f, rows, s) == IF s = {} THEN 0 ELSE f[s \ {Pick(s)}] + Weight(rows, Pick(s))
SumsOver(f, rows, P) == f = [s \in SUBSET P |-> WeighsOf(f, rows, s)]
UpTo(f, rows, P, n) ==
    f = [s \in SUBSET P |-> f[s]] /\ \A s \in SUBSET P : Cardinality(s) <= n => f[s] = WeighsOf(f, rows, s)

LEMMA WeightUnfolds ==
    ASSUME NEW rows, NEW P
    PROVE  WeightOf(rows, P) = (CHOOSE f : SumsOver(f, rows, P))[P]
PROOF
  BY DEF WeightOf, FoldSet, MapThenFoldSet, Pick, SumsOver, WeighsOf, Weight

LEMMA SmallestNumber ==
    ASSUME NEW N \in SUBSET Nat, N # {}
    PROVE  \E n \in N : \A k \in N : n <= k
PROOF
<1>1. \E i \in N : \A k \in N : <<k, i>> \notin OpToRel(<, Nat)
  BY NatLessThanWellFounded, WFMin
<1>2. PICK i \in N : \A k \in N : <<k, i>> \notin OpToRel(<, Nat)
  BY <1>1
<1>3. \A k \in N : k \in Nat /\ i \in Nat /\ ~(k < i)
  BY <1>2 DEF OpToRel
<1> QED
  BY <1>3

LEMMA SmallestSet ==
    ASSUME NEW P, IsFiniteSet(P), NEW Bad \in SUBSET SUBSET P, Bad # {}
    PROVE  \E s \in Bad : \A t \in Bad : t \subseteq s => t = s
PROOF
<1> DEFINE N == {Cardinality(s) : s \in Bad}
<1>1. \A s \in Bad : IsFiniteSet(s) /\ Cardinality(s) \in Nat
  BY FS_Subset, FS_CardinalityType
<1>2. N \in SUBSET Nat /\ N # {}
  BY <1>1
<1>3. PICK n \in N : \A k \in N : n <= k
  BY <1>2, SmallestNumber
<1>4. PICK s \in Bad : n = Cardinality(s)
  BY <1>3
<1>5. ASSUME NEW t \in Bad, t \subseteq s PROVE t = s
  BY <1>1, <1>5, FS_Subset, <1>3, <1>4
<1> QED
  BY <1>5

LEMMA PickIsIn == ASSUME NEW s, s # {} PROVE Pick(s) \in s
PROOF
  BY DEF Pick

LEMMA SumExists ==
    ASSUME NEW rows, NEW P, IsFiniteSet(P)
    PROVE  \E f : SumsOver(f, rows, P)
PROOF
<1> DEFINE Good(n) == \E f : UpTo(f, rows, P, n)
           Bad == {n \in Nat : ~Good(n)}
<1>1. \A s \in SUBSET P : IsFiniteSet(s) /\ Cardinality(s) \in Nat
  BY FS_Subset, FS_CardinalityType
<1>2. Bad = {}
  <2> SUFFICES ASSUME Bad # {} PROVE FALSE
    OBVIOUS
  <2>1. PICK n \in Bad : \A k \in Bad : n <= k
    <3>1. Bad \in SUBSET Nat
      OBVIOUS
    <3> HIDE DEF Bad
    <3> QED
      BY <3>1, SmallestNumber
  <2>2. n # 0
    <3> DEFINE z == [s \in SUBSET P |-> 0]
    <3>1. \A s \in SUBSET P : Cardinality(s) <= 0 => s = {}
      BY <1>1, FS_EmptySet
    <3>2. UpTo(z, rows, P, 0)
      BY <3>1 DEF UpTo, WeighsOf
    <3>3. Good(0)
      BY <3>2
    <3> QED
      BY <3>3
  <2>3. n - 1 \in Nat /\ Good(n - 1)
    BY <2>1, <2>2
  <2>4. PICK f : UpTo(f, rows, P, n - 1)
    BY <2>3
  <2> DEFINE g == [s \in SUBSET P |-> IF Cardinality(s) <= n - 1 THEN f[s] ELSE WeighsOf(f, rows, s)]
  <2>5. g = [s \in SUBSET P |-> g[s]]
    OBVIOUS
  <2>6. ASSUME NEW s \in SUBSET P, Cardinality(s) <= n PROVE g[s] = WeighsOf(g, rows, s)
    <3>0. g[s] = WeighsOf(f, rows, s)
      BY <2>4 DEF UpTo
    <3>1. CASE s = {}
      BY <3>0, <3>1 DEF WeighsOf
    <3>2. CASE s # {}
      <4> DEFINE t == s \ {Pick(s)}
      <4>1. Pick(s) \in s /\ t \in SUBSET P
        BY <3>2, PickIsIn
      <4>2. Cardinality(t) = Cardinality(s) - 1
        BY <1>1, <4>1, FS_RemoveElement
      <4>3. Cardinality(t) <= n - 1
        BY <1>1, <2>1, <2>6, <4>2
      <4>4. g[t] = f[t]
        BY <4>1, <4>3
      <4> HIDE DEF g
      <4> QED
        BY <3>0, <3>2, <4>4 DEF WeighsOf
    <3> QED
      BY <3>1, <3>2
  <2>7. UpTo(g, rows, P, n)
    <3> HIDE DEF g
    <3> QED
      BY <2>5, <2>6 DEF UpTo
  <2> QED
    BY <2>7
<1>3. Good(Cardinality(P))
  BY <1>1, <1>2
<1>4. PICK f : UpTo(f, rows, P, Cardinality(P))
  BY <1>3
<1>5. \A s \in SUBSET P : f[s] = WeighsOf(f, rows, s)
  BY <1>1, <1>4, FS_Subset DEF UpTo
<1>6. f = [s \in SUBSET P |-> WeighsOf(f, rows, s)]
  BY <1>4, <1>5 DEF UpTo
<1> QED
  BY <1>6 DEF SumsOver

Weighs(rows, P) == \A p \in P : Weight(rows, p) \in Nat

LEMMA SumsAgree ==
    ASSUME NEW rows, NEW P, IsFiniteSet(P), NEW S \in SUBSET P, NEW f, SumsOver(f, rows, P),
           NEW g, SumsOver(g, rows, S)
    PROVE  \A s \in SUBSET S : f[s] = g[s]
PROOF
<1> DEFINE Bad == {s \in SUBSET S : f[s] # g[s]}
<1>1. SUFFICES ASSUME Bad # {} PROVE FALSE
  OBVIOUS
<1>2. Bad \in SUBSET SUBSET P
  OBVIOUS
<1>3. PICK s \in Bad : \A t \in Bad : t \subseteq s => t = s
  <2> HIDE DEF Bad
  <2> QED
    BY <1>1, <1>2, SmallestSet
<1>4. f[s] = WeighsOf(f, rows, s) /\ g[s] = WeighsOf(g, rows, s)
  BY DEF SumsOver
<1>5. s # {}
  BY <1>3, <1>4 DEF WeighsOf
<1>6. Pick(s) \in s
  BY <1>5, PickIsIn
<1>7. f[s \ {Pick(s)}] = g[s \ {Pick(s)}]
  BY <1>3, <1>6
<1> QED
  BY <1>3, <1>4, <1>5, <1>7 DEF WeighsOf

LEMMA SumFacts ==
    ASSUME NEW rows, NEW P, IsFiniteSet(P), Weighs(rows, P), NEW f, SumsOver(f, rows, P)
    PROVE  \A s \in SUBSET P : f[s] \in Nat /\ \A x \in s : f[s] = f[s \ {x}] + Weight(rows, x)
PROOF
<1>0. \A s \in SUBSET P : f[s] = WeighsOf(f, rows, s)
  BY DEF SumsOver
<1>1. ASSUME NEW s \in SUBSET P, s # {}
      PROVE  /\ Pick(s) \in s /\ Weight(rows, Pick(s)) \in Nat
             /\ f[s] = f[s \ {Pick(s)}] + Weight(rows, Pick(s))
  BY <1>0, <1>1, PickIsIn DEF WeighsOf, Weighs
<1>2. ASSUME NEW s \in SUBSET P PROVE f[s] \in Nat
  <2> DEFINE Bad == {t \in SUBSET P : f[t] \notin Nat}
  <2>1. SUFFICES ASSUME Bad # {} PROVE FALSE
    BY <1>2
  <2>2. PICK t \in Bad : \A u \in Bad : u \subseteq t => u = t
    <3>1. Bad \in SUBSET SUBSET P
      OBVIOUS
    <3> HIDE DEF Bad
    <3> QED
      BY <2>1, <3>1, SmallestSet
  <2>3. t # {}
    <3>1. {} \in SUBSET P
      OBVIOUS
    <3>2. f[{}] = 0
      BY <1>0, <3>1 DEF WeighsOf
    <3>3. f[t] \notin Nat
      BY <2>2
    <3> QED
      BY <3>2, <3>3
  <2>4. f[t \ {Pick(t)}] \in Nat
    BY <1>1, <2>2, <2>3
  <2> QED
    BY <1>1, <2>2, <2>3, <2>4
<1>3. ASSUME NEW s \in SUBSET P, NEW x \in s PROVE f[s] = f[s \ {x}] + Weight(rows, x)
  <2> DEFINE Bad == {t \in SUBSET P : \E y \in t : f[t] # f[t \ {y}] + Weight(rows, y)}
  <2>1. SUFFICES ASSUME Bad # {} PROVE FALSE
    BY <1>3
  <2>2. PICK t \in Bad : \A u \in Bad : u \subseteq t => u = t
    <3>1. Bad \in SUBSET SUBSET P
      OBVIOUS
    <3> HIDE DEF Bad
    <3> QED
      BY <2>1, <3>1, SmallestSet
  <2>3. PICK y \in t : f[t] # f[t \ {y}] + Weight(rows, y)
    BY <2>2
  <2> DEFINE z == Pick(t)
  <2>4. z \in t /\ f[t] = f[t \ {z}] + Weight(rows, z)
    BY <1>1, <2>2, <2>3
  <2>5. y # z
    BY <2>3, <2>4
  <2>6. t \ {y} \notin Bad /\ t \ {z} \notin Bad
    BY <2>2, <2>3, <2>4
  <2>7. f[t \ {y}] = f[(t \ {y}) \ {z}] + Weight(rows, z)
    <3> HIDE DEF z
    <3> QED
      BY <2>2, <2>4, <2>5, <2>6
  <2>8. f[t \ {z}] = f[(t \ {z}) \ {y}] + Weight(rows, y)
    <3> HIDE DEF z
    <3> QED
      BY <2>2, <2>3, <2>5, <2>6
  <2>9. (t \ {y}) \ {z} = (t \ {z}) \ {y}
    OBVIOUS
  <2> DEFINE a == f[(t \ {y}) \ {z}]
             wy == Weight(rows, y)
             wz == Weight(rows, z)
  <2>10. wy \in Nat /\ wz \in Nat
    <3> HIDE DEF z
    <3> QED
      BY <2>2, <2>3, <2>4 DEF Weighs
  <2>11. a \in Nat
    BY <1>2, <2>2
  <2>12. f[t] = (a + wy) + wz /\ f[t \ {y}] = a + wz /\ f[t] # f[t \ {y}] + wy
    BY <2>3, <2>4, <2>7, <2>8, <2>9
  <2> HIDE DEF a, wy, wz
  <2> QED
    BY ONLY <2>10, <2>11, <2>12
<1> QED
  BY <1>2, <1>3

\* The weight of a finite set is a number, nothing for the empty set, and grows by each of its members.
LEMMA WeightAdds ==
    ASSUME NEW rows, NEW P, IsFiniteSet(P), Weighs(rows, P)
    PROVE  /\ WeightOf(rows, P) \in Nat
           /\ P = {} => WeightOf(rows, P) = 0
           /\ \A x \in P : WeightOf(rows, P) = WeightOf(rows, P \ {x}) + Weight(rows, x)
PROOF
<1> DEFINE F(Q) == CHOOSE f : SumsOver(f, rows, Q)
<1>1. ASSUME NEW Q \in SUBSET P PROVE SumsOver(F(Q), rows, Q) /\ WeightOf(rows, Q) = F(Q)[Q]
  BY FS_Subset, SumExists, WeightUnfolds
<1>2. SumsOver(F(P), rows, P) /\ WeightOf(rows, P) = F(P)[P]
  BY <1>1
<1>3. \A Q \in SUBSET P : WeightOf(rows, Q) = F(P)[Q]
  <2> SUFFICES ASSUME NEW Q \in SUBSET P PROVE WeightOf(rows, Q) = F(P)[Q]
    OBVIOUS
  <2>1. SumsOver(F(Q), rows, Q) /\ WeightOf(rows, Q) = F(Q)[Q]
    BY <1>1
  <2> HIDE DEF F
  <2>2. F(P)[Q] = F(Q)[Q]
    BY <1>2, <2>1, SumsAgree
  <2> QED
    BY <2>1, <2>2
<1> HIDE DEF F
<1>4. \A s \in SUBSET P : F(P)[s] \in Nat /\ \A x \in s : F(P)[s] = F(P)[s \ {x}] + Weight(rows, x)
  BY <1>2, SumFacts
<1>5. P = {} => F(P)[P] = 0
  BY <1>2 DEF SumsOver, WeighsOf
<1> QED
  BY <1>3, <1>4, <1>5

LEMMA WeightGrows ==
    ASSUME NEW rows, NEW P, IsFiniteSet(P), Weighs(rows, P), NEW S \in SUBSET P
    PROVE  WeightOf(rows, S) <= WeightOf(rows, P)
PROOF
<1> DEFINE Bad == {T \in SUBSET P : S \subseteq T /\ ~(WeightOf(rows, S) <= WeightOf(rows, T))}
<1>1. SUFFICES ASSUME Bad # {} PROVE FALSE
  OBVIOUS
<1>2. PICK T \in Bad : \A u \in Bad : u \subseteq T => u = T
  <2>1. Bad \in SUBSET SUBSET P
    OBVIOUS
  <2> HIDE DEF Bad
  <2> QED
    BY <1>1, <2>1, SmallestSet
<1>3. \A Q \in SUBSET P : IsFiniteSet(Q) /\ Weighs(rows, Q)
  BY FS_Subset DEF Weighs
<1>4. WeightOf(rows, S) \in Nat /\ WeightOf(rows, T) \in Nat
  BY <1>2, <1>3, WeightAdds
<1>5. T # S
  BY <1>2, <1>4
<1>6. PICK x \in T : x \notin S
  BY <1>2, <1>5
<1>7. S \subseteq T \ {x} /\ T \ {x} \in SUBSET P /\ T \ {x} \notin Bad
  BY <1>2, <1>6
<1>8. WeightOf(rows, S) <= WeightOf(rows, T \ {x})
  BY <1>7
<1>9. WeightOf(rows, T) = WeightOf(rows, T \ {x}) + Weight(rows, x) /\ Weight(rows, x) \in Nat
  BY <1>2, <1>3, WeightAdds DEF Weighs
<1>10. WeightOf(rows, T \ {x}) \in Nat
  BY <1>3, <1>7, WeightAdds
<1>11. ~(WeightOf(rows, S) <= WeightOf(rows, T))
  BY <1>2
<1> QED
  BY ONLY <1>4, <1>8, <1>9, <1>10, <1>11

-----------------------------------------------------------------------------
\* The variants of a set of rows whose weights fill the buckets.
Newer(rows, W, p) == {q \in W : rows[q].at >= rows[p].at}
Falls(rows, W, p, b) ==
    /\ b < WeightOf(rows, Newer(rows, W, p))
    /\ WeightOf(rows, Newer(rows, W, p)) - Weight(rows, p) <= b

LEMMA SharesAdd ==
    ASSUME NEW rows, NEW W, IsFiniteSet(W), Weighs(rows, W),
           \A p \in W : rows[p].at \in Nat /\ Weight(rows, p) > 0,
           \A p, q \in W : rows[p].at = rows[q].at => p = q
    PROVE  /\ \A p \in W : /\ WeightOf(rows, Newer(rows, W, p)) \in Nat
                           /\ WeightOf(rows, Newer(rows, W, p)) - Weight(rows, p) \in Nat
                           /\ WeightOf(rows, Newer(rows, W, p)) <= WeightOf(rows, W)
           /\ \A b \in Nat : b < WeightOf(rows, W) => \E p \in W : Falls(rows, W, p, b)
           /\ \A b \in Nat : \A p, r \in W : Falls(rows, W, p, b) /\ Falls(rows, W, r, b) => p = r
PROOF
<1> DEFINE Up(p) == {q \in W : rows[q].at >= rows[p].at}
           T(S) == WeightOf(rows, S)
           w(p) == Weight(rows, p)
<1>1. \A S \in SUBSET W : IsFiniteSet(S) /\ Weighs(rows, S)
  BY FS_Subset DEF Weighs
<1>2. \A S \in SUBSET W : T(S) \in Nat
  BY <1>1, WeightAdds
<1>3. \A p \in W : Up(p) \in SUBSET W /\ p \in Up(p) /\ Up(p) \ {p} \in SUBSET W
  OBVIOUS
<1>4. \A p \in W : T(Up(p)) = T(Up(p) \ {p}) + w(p)
  BY <1>1, <1>3, WeightAdds
<1>5. \A p \in W : w(p) \in Nat /\ w(p) > 0
  BY DEF Weighs
<1>6. \A S \in SUBSET W : \A R \in SUBSET S : T(R) <= T(S)
  BY <1>1, WeightGrows
<1> HIDE DEF T, w
<1>7. \A p \in W : /\ T(Up(p)) \in Nat /\ T(Up(p)) - w(p) \in Nat
                   /\ T(Up(p)) - w(p) = T(Up(p) \ {p}) /\ T(Up(p)) <= T(W)
  <2> SUFFICES ASSUME NEW p \in W
               PROVE  /\ T(Up(p)) \in Nat /\ T(Up(p)) - w(p) \in Nat
                      /\ T(Up(p)) - w(p) = T(Up(p) \ {p}) /\ T(Up(p)) <= T(W)
    OBVIOUS
  <2> DEFINE a == T(Up(p))
             c == T(Up(p) \ {p})
             d == w(p)
  <2>1. a \in Nat /\ c \in Nat /\ d \in Nat /\ a = c + d
    BY <1>2, <1>3, <1>4, <1>5
  <2>2. a <= T(W)
    BY <1>3, <1>6
  <2> HIDE DEF a, c, d
  <2>3. a - d = c
    BY ONLY <2>1
  <2> QED
    BY <2>1, <2>2, <2>3 DEF a, c, d
<1>8. ASSUME NEW p \in W, NEW r \in W, rows[r].at > rows[p].at
      PROVE  T(Up(r)) <= T(Up(p)) - w(p)
  <2>1. Up(r) \subseteq Up(p) \ {p}
    BY <1>8
  <2>2. T(Up(r)) <= T(Up(p) \ {p})
    BY <1>3, <1>6, <2>1
  <2> QED
    BY <1>7, <2>2
<1>9. ASSUME NEW b \in Nat, b < T(W)
      PROVE  \E p \in W : b < T(Up(p)) /\ T(Up(p)) - w(p) <= b
  <2> DEFINE Bad == {Up(p) : p \in {q \in W : b < T(Up(q))}}
  <2>1. Bad \in SUBSET SUBSET W
    BY <1>3
  <2>2. W # {}
    BY <1>1, WeightAdds, <1>9 DEF T
  <2>3. Bad # {}
    <3> DEFINE N == {rows[p].at : p \in W}
    <3>1. N \in SUBSET Nat /\ N # {}
      BY <2>2
    <3>2. PICK n \in N : \A k \in N : n <= k
      <4> HIDE DEF N
      <4> QED
        BY <3>1, SmallestNumber
    <3>3. PICK p \in W : rows[p].at = n
      BY <3>2
    <3>4. \A q \in W : rows[q].at >= rows[p].at
      BY <3>2, <3>3
    <3>5. Up(p) = W
      BY <3>4
    <3>6. b < T(Up(p))
      <4>1. T(Up(p)) = T(W)
        BY <3>5
      <4> HIDE DEF Up
      <4> QED
        BY <1>9, <4>1
    <3> HIDE DEF Up
    <3>7. Up(p) \in Bad
      BY <3>6
    <3> QED
      BY <3>7
  <2>4. PICK s \in Bad : \A t \in Bad : t \subseteq s => t = s
    <3> HIDE DEF Bad
    <3> QED
      BY <2>1, <2>3, SmallestSet
  <2>5. PICK p \in W : s = Up(p) /\ b < T(Up(p))
    BY <2>4
  <2>6. T(Up(p)) - w(p) <= b
    <3> SUFFICES ASSUME ~(T(Up(p)) - w(p) <= b) PROVE FALSE
      OBVIOUS
    <3> DEFINE R == Up(p) \ {p}
    <3>1. b < T(R)
      <4> DEFINE e == T(Up(p)) - w(p)
      <4>1. e \in Nat /\ ~(e <= b) /\ b \in Nat /\ e = T(R)
        BY <1>7, <1>9
      <4> HIDE DEF e
      <4>2. b < e
        BY ONLY <4>1
      <4> QED
        BY <4>1, <4>2
    <3>2. R # {}
      <4>1. T({}) = 0
        BY <1>1, WeightAdds DEF T
      <4> SUFFICES ASSUME R = {} PROVE FALSE
        OBVIOUS
      <4> HIDE DEF R
      <4>2. T(R) = 0
        BY <4>1
      <4>3. b \in Nat /\ b < 0
        BY <1>9, <3>1, <4>2
      <4> QED
        BY <4>3
    <3> DEFINE N == {rows[q].at : q \in R}
    <3>3. N \in SUBSET Nat /\ N # {}
      BY <3>2
    <3>4. PICK n \in N : \A k \in N : n <= k
      <4> HIDE DEF N
      <4> QED
        BY <3>3, SmallestNumber
    <3>5. PICK r \in R : rows[r].at = n
      BY <3>4
    <3>6. \A q \in R : rows[q].at >= rows[r].at
      BY <3>4, <3>5
    <3>7. rows[r].at > rows[p].at
      BY <3>5
    <3>8. Up(r) = R
      <4>1. \A q \in W : rows[q].at >= rows[r].at => q \in R
        BY <3>7
      <4>2. \A q \in R : q \in W /\ rows[q].at >= rows[r].at
        BY <3>6
      <4> HIDE DEF R
      <4> QED
        BY <4>1, <4>2
    <3>9. Up(r) \in Bad
      BY <3>1, <3>5, <3>8
    <3>10. Up(r) = s
      BY <2>4, <2>5, <3>8, <3>9
    <3> QED
      BY <1>3, <2>5, <3>8, <3>10
  <2> QED
    BY <2>5, <2>6
<1>10. ASSUME NEW b \in Nat, NEW p \in W, NEW r \in W,
              b < T(Up(p)), T(Up(p)) - w(p) <= b, b < T(Up(r)), T(Up(r)) - w(r) <= b
       PROVE  p = r
  <2> SUFFICES ASSUME p # r PROVE FALSE
    OBVIOUS
  <2>1. rows[p].at \in Nat /\ rows[r].at \in Nat /\ rows[p].at # rows[r].at
    OBVIOUS
  <2>2. CASE rows[r].at > rows[p].at
    <3>1. T(Up(r)) <= T(Up(p)) - w(p)
      BY <1>8, <2>2
    <3>2. T(Up(r)) \in Nat /\ T(Up(p)) - w(p) \in Nat
      BY <1>7
    <3> QED
      BY ONLY <1>10, <3>1, <3>2
  <2>3. CASE rows[p].at > rows[r].at
    <3>1. T(Up(p)) <= T(Up(r)) - w(r)
      BY <1>8, <2>3
    <3>2. T(Up(p)) \in Nat /\ T(Up(r)) - w(r) \in Nat
      BY <1>7
    <3> QED
      BY ONLY <1>10, <3>1, <3>2
  <2> QED
    BY <2>1, <2>2, <2>3
<1>11. \A p : Up(p) = Newer(rows, W, p)
  BY DEF Newer
<1> HIDE DEF Up
<1>12. \A b \in Nat : \A p \in W : Falls(rows, W, p, b) <=> b < T(Up(p)) /\ T(Up(p)) - w(p) <= b
  BY <1>11 DEF Falls, T, w
<1>13. \A p \in W : T(Up(p)) = WeightOf(rows, Newer(rows, W, p)) /\ w(p) = Weight(rows, p)
  BY <1>11 DEF T, w
<1>14. T(W) = WeightOf(rows, W)
  BY DEF T
<1> HIDE DEF T, w
<1>15. \A p \in W : /\ WeightOf(rows, Newer(rows, W, p)) \in Nat
                    /\ WeightOf(rows, Newer(rows, W, p)) - Weight(rows, p) \in Nat
                    /\ WeightOf(rows, Newer(rows, W, p)) <= WeightOf(rows, W)
  BY <1>7, <1>13, <1>14
<1>16. ASSUME NEW b \in Nat, b < WeightOf(rows, W) PROVE \E p \in W : Falls(rows, W, p, b)
  BY <1>9, <1>12, <1>14, <1>16
<1>17. ASSUME NEW b \in Nat, NEW p \in W, NEW r \in W, Falls(rows, W, p, b), Falls(rows, W, r, b) PROVE p = r
  BY <1>12, <1>17, <1>10
<1> QED
  BY <1>15, <1>16, <1>17

LEMMA BucketsAreShared ==
    ASSUME PromptInv
    PROVE  VariantsShareTheBuckets
PROOF
<1> DEFINE A == ActiveIn(profiles)
           W == Weighted(profiles)
           total == WeightOf(profiles, W)
<1>1. \A p \in Profiles : profiles[p].at \in Nat /\ profiles[p].config.weight \in Nat
  BY PromptTypes, PromptAssumption DEF PromptInv, PromptRow
<1>2. A \in SUBSET Profiles /\ W \in SUBSET A /\ \A p \in W : profiles[p].config.weight > 0
  BY DEF ActiveIn, Weighted
<1>3. IsFiniteSet(A) /\ IsFiniteSet(W) /\ Cardinality(W) \in Nat
  BY <1>2, FS_Subset, FS_CardinalityType DEF PromptInv, ClockInv
<1>4. \A p, q \in A : profiles[p].at = profiles[q].at => p = q
  BY DEF PromptInv, ClockInv
<1>5. \A p \in A : profiles[p].at <= promptClock /\ promptClock \in Nat
  BY DEF PromptInv, ClockInv, JobsInv
<1>6. SUFFICES ASSUME A # {}, total <= Buckets
               PROVE  /\ \A b \in 0..(Buckets - 1) : Cardinality(Chosen(profiles, b)) = 1
                      /\ Cardinality(W) >= 2 => \A p \in W : \E b \in 0..(Buckets - 1) : p \in Chosen(profiles, b)
  BY DEF VariantsShareTheBuckets
<1>7. Buckets \in Nat
  BY PromptAssumption
<1>8. CASE Cardinality(W) < 2
  <2> DEFINE M == {p \in A : \A q \in A : profiles[q].at <= profiles[p].at}
             N == {promptClock - profiles[p].at : p \in A}
  <2>1. \A b : Chosen(profiles, b) = M
    BY <1>8 DEF Chosen
  <2>2. N \in SUBSET Nat /\ N # {}
    <3>1. ASSUME NEW p \in A PROVE promptClock - profiles[p].at \in Nat
      <4>1. profiles[p].at \in Nat /\ promptClock \in Nat /\ profiles[p].at <= promptClock
        BY <1>1, <1>2, <1>5
      <4> QED
        BY ONLY <4>1
    <3> QED
      BY <1>6, <3>1
  <2>3. PICK n \in N : \A k \in N : n <= k
    <3> HIDE DEF N
    <3> QED
      BY <2>2, SmallestNumber
  <2>4. PICK m \in A : promptClock - profiles[m].at = n
    BY <2>3
  <2>5. ASSUME NEW q \in A PROVE profiles[q].at <= profiles[m].at
    <3>1. promptClock - profiles[m].at <= promptClock - profiles[q].at
      BY <2>3, <2>4
    <3>2. profiles[m].at \in Nat /\ promptClock \in Nat /\ profiles[q].at \in Nat
      BY <1>1, <1>2, <1>5
    <3> QED
      BY ONLY <3>1, <3>2
  <2>6. ASSUME NEW p \in M PROVE p = m
    <3>1. profiles[m].at <= profiles[p].at /\ profiles[p].at <= profiles[m].at
      BY <2>5
    <3>2. profiles[m].at \in Nat /\ profiles[p].at \in Nat
      BY <1>1, <1>2
    <3>3. profiles[m].at = profiles[p].at
      BY ONLY <3>1, <3>2
    <3> QED
      BY <1>4, <3>3
  <2>7. M = {m}
    BY <2>5, <2>6
  <2> HIDE DEF M
  <2>8. Cardinality(M) = 1
    BY <2>7, FS_Singleton
  <2>9. ~(Cardinality(W) >= 2)
    BY <1>3, <1>8
  <2> QED
    BY <2>1, <2>8, <2>9
<1>9. CASE ~(Cardinality(W) < 2)
  <2> DEFINE Up(p) == Newer(profiles, W, p)
             T(S) == WeightOf(profiles, S)
             w(p) == Weight(profiles, p)
  <2>1. \A p \in W : w(p) \in Nat /\ w(p) > 0 /\ profiles[p].at \in Nat
    BY <1>1, <1>2 DEF Weight
  <2>2. Weighs(profiles, W)
    BY <2>1 DEF Weighs
  <2>3. \A p, q \in W : profiles[p].at = profiles[q].at => p = q
    BY <1>2, <1>4
  <2> HIDE DEF A, W
  <2>4. /\ \A p \in W : T(Up(p)) \in Nat /\ T(Up(p)) - w(p) \in Nat /\ T(Up(p)) <= T(W)
        /\ \A b \in Nat : b < T(W) => \E p \in W : Falls(profiles, W, p, b)
        /\ \A b \in Nat : \A p, r \in W : Falls(profiles, W, p, b) /\ Falls(profiles, W, r, b) => p = r
    BY <1>3, <2>1, <2>2, <2>3, SharesAdd
  <2>5. \A p, b : Falls(profiles, W, p, b) <=> b < T(Up(p)) /\ T(Up(p)) - w(p) <= b
    BY DEF Falls
  <2>6. \A b : Chosen(profiles, b) = {p \in W : Falls(profiles, W, p, b % T(W))}
    BY <1>9 DEF Chosen, Falls, FallsIn, NewestFirst, Newer, Weight, W
  <2>7. T(W) \in Nat
    BY <1>3, <2>2, WeightAdds
  <2>8. W # {}
    BY <1>9, FS_EmptySet
  <2> HIDE DEF Up, w
  <2>9. T(W) > 0
    <3>1. PICK p \in W : TRUE
      BY <2>8
    <3>2. T(Up(p)) \in Nat /\ T(Up(p)) - w(p) \in Nat /\ T(Up(p)) <= T(W) /\ w(p) \in Nat /\ w(p) > 0
      BY <2>1, <2>4
    <3> HIDE DEF T
    <3> QED
      BY ONLY <2>7, <3>2
  <2> HIDE DEF T
  <2>10. ASSUME NEW b \in 0..(Buckets - 1) PROVE Cardinality(Chosen(profiles, b)) = 1
    <3> DEFINE c == b % T(W)
    <3>1. c \in Nat /\ c < T(W)
      <4> DEFINE t == T(W)
      <4>1. b \in Nat /\ t \in Nat /\ t > 0
        BY <1>7, <2>7, <2>9, <2>10
      <4> HIDE DEF t
      <4>2. b % t \in Nat /\ b % t < t
        BY ONLY <4>1
      <4> QED
        BY <4>2 DEF t
    <3> HIDE DEF c
    <3>2. PICK m \in W : Falls(profiles, W, m, c)
      BY <2>4, <3>1
    <3>3. \A p \in W : Falls(profiles, W, p, c) => p = m
      BY <2>4, <3>1, <3>2
    <3>4. Chosen(profiles, b) = {p \in W : Falls(profiles, W, p, c)}
      BY <2>6 DEF c
    <3>5. Chosen(profiles, b) = {m}
      BY <3>2, <3>3, <3>4
    <3> QED
      BY <3>5, FS_Singleton
  <2>11. ASSUME NEW p \in W PROVE \E b \in 0..(Buckets - 1) : p \in Chosen(profiles, b)
    <3> DEFINE b == T(Up(p)) - 1
    <3>1. T(Up(p)) \in Nat /\ T(Up(p)) - w(p) \in Nat /\ T(Up(p)) <= T(W) /\ w(p) \in Nat /\ w(p) > 0
      BY <2>1, <2>4
    <3>2. /\ b \in Nat /\ b < T(Up(p)) /\ T(Up(p)) - w(p) <= b /\ b < T(W)
      <4> DEFINE x == T(Up(p))
                 y == w(p)
                 t == T(W)
      <4>1. x \in Nat /\ x - y \in Nat /\ x <= t /\ y \in Nat /\ y > 0 /\ t \in Nat
        BY <2>7, <3>1
      <4> HIDE DEF x, y, t
      <4>2. x - 1 \in Nat /\ x - 1 < x /\ x - y <= x - 1 /\ x - 1 < t
        BY ONLY <4>1
      <4> QED
        BY <4>2 DEF x, y, t
    <3> HIDE DEF b
    <3>3. b % T(W) = b
      <4> DEFINE t == T(W)
      <4>1. b \in Nat /\ t \in Nat /\ b < t
        BY <2>7, <3>2
      <4> HIDE DEF t
      <4>2. b % t = b
        BY ONLY <4>1
      <4> QED
        BY <4>2 DEF t
    <3>4. b \in 0..(Buckets - 1)
      BY <1>6, <1>7, <2>7, <3>2 DEF T
    <3>5. p \in Chosen(profiles, b)
      BY <2>5, <2>6, <3>2, <3>3
    <3> QED
      BY <3>4, <3>5
  <2> QED
    BY <2>10, <2>11
<1> QED
  BY <1>8, <1>9

\* What the invariant says of the properties.
LEMMA PromptKeep ==
    ASSUME PromptInv
    PROVE  /\ PromptTypeOK /\ VersionNamesOneWording /\ HistoryHasNoUnexplainedHole
           /\ OneActiveUnlessOverlapped /\ VariantsShareTheBuckets
PROOF
<1> USE DEF PromptInv
<1>1. PromptTypeOK
  <2>1. \A v \in versions : v.p \in Profiles /\ v.version \in 1..MaxPromptVersion /\ v.config \in PromptConfigs
    BY DEF JobsInv, Entries
  <2>2. ASSUME NEW h \in PromptHandlers
        PROVE  /\ promptJobs[h].step \in {"idle", "archive", "activate", "record", "done"}
               /\ DOMAIN promptJobs[h].writes \subseteq Profiles
               /\ h \in PromptRequests => DOMAIN promptJobs[h].writes = {}
    BY PromptTypes DEF PromptJob, PromptSteps, TakenRows
  <2>3. profiles \in [Profiles -> PromptRow] /\ promptClock \in Nat
    BY DEF JobsInv
  <2> QED
    BY <2>1, <2>2, <2>3 DEF PromptTypeOK
<1>2. VersionNamesOneWording
  BY DEF KnownEntries, WordingInv, VersionNamesOneWording
<1>3. HistoryHasNoUnexplainedHole
  BY DEF WordingInv
<1>4. OneActiveUnlessOverlapped
  <2> SUFFICES ASSUME ~overlapped, ~ \A p \in ActiveIn(profiles) : profiles[p].config.exp
               PROVE  Cardinality(ActiveIn(profiles)) <= 1
    BY DEF OneActiveUnlessOverlapped
  <2>1. \A p, q \in ActiveIn(profiles) : p = q
    BY DEF ActiveInv, OnePlain
  <2>2. PICK p \in ActiveIn(profiles) : TRUE
    OBVIOUS
  <2>3. ActiveIn(profiles) = {p}
    BY <2>1, <2>2
  <2>4. Cardinality(ActiveIn(profiles)) = 1
    BY <2>3, FS_Singleton
  <2> QED
    BY <2>4
<1> QED
  BY <1>1, <1>2, <1>3, <1>4, BucketsAreShared

-----------------------------------------------------------------------------
\* For any number of profiles and requests: a version names one wording, what is missing in the history is
\* explained, and while no publications overlapped one profile is active, or one experiment whose weights share
\* the buckets (prompt-store.ts, and the profile service of the NestJS API).
THEOREM ProfilesAreSound ==
    PromptSpec => [](/\ PromptTypeOK /\ VersionNamesOneWording /\ HistoryHasNoUnexplainedHole
                    /\ OneActiveUnlessOverlapped /\ VariantsShareTheBuckets)
PROOF
<1>1. PromptSpec => []PromptInv
  BY PromptStart, PromptStep, PTL DEF PromptSpec
<1> QED
  BY <1>1, PromptKeep, PTL

=============================================================================
