------------------------- MODULE KnowledgeBaseProofs -------------------------
(***************************************************************************)
(* Proofs about KnowledgeBase for any entries, contents, change requests,  *)
(* jobs and bounds.                                                        *)
(***************************************************************************)
EXTENDS KnowledgeBase, FiniteSetTheorems, TLAPS

\* An entry has a version and a content from its INSERT on.
EntryShape ==
  \A e \in Entries :
    IF Exists(e) THEN entry[e].version # 0 /\ entry[e].content \in Contents
                 ELSE entry[e].version = 0

\* What a job needs at each of its steps it has read before.
Shaped(j) ==
  /\ j \in Job
  /\ j.pc = "idle" => j = Idle
  /\ j.pc \in {"embed", "record", "activate", "close"} => j.row \in Row
  /\ j.pc \in {"review", "draft", "activate", "close", "event"} \/ j.next # "idle" =>
       j.request \in Requests /\ j.type \in RequestStatus
  /\ j.pc \in {"draft", "activate", "close"} \/ j.next # "idle" => j.content \in Contents
JobShape == \A w \in Jobs : Shaped(job[w])

\* Rows somebody holds: the history, and what the jobs have read.
Held == {v \in Row : v \in versions \/ \E w \in Jobs : v = job[w].row \/ v \in job[w].todo}

\* Held rows are rows the entry had: none is ahead of it, and those of one version
\* agree with each other and with the entry if it is still at that version.
RowsAgree ==
  /\ \A v \in Held :
       /\ v.version <= entry[v.entry].version
       /\ v.version = entry[v.entry].version => v.content = entry[v.entry].content
  /\ \A v, w \in Held : v.entry = w.entry /\ v.version = w.version => v.content = w.content

\* The inductive invariant.  VersionNamesContent says nothing of rows that are
\* still in a job's hands and reach the history later.
KInv == TypeOK /\ EntryShape /\ JobShape /\ RowsAgree

\* The parts of TypeOK other than the jobs.
Rest ==
  /\ entry \in [Entries -> Entry]
  /\ indexed \in [Entries -> Contents \union {None}]
  /\ versions \subseteq Row
  /\ req \in [Requests -> Request]
  /\ events \subseteq Event
  /\ calls \in 0..MaxCalls
  /\ source \in [Entries -> Requests \union {None}]
  /\ disturbed \subseteq Entries
  /\ contested \subseteq Requests /\ reopened \subseteq Requests
  /\ failures \in 0..MaxFailures

\* A step leaves an entry's version and content alone, or raises the version.
Advances ==
  \A e \in Entries :
    \/ entry'[e].version = entry[e].version /\ entry'[e].content = entry[e].content
    \/ entry'[e].version > entry[e].version

Fresh(v) == v.version = entry'[v.entry].version /\ v.content = entry'[v.entry].content

\* What a step of job w, which leaves it as j, may do for KInv to survive.
Steps(w, j) ==
  /\ job' = [job EXCEPT ![w] = j]
  /\ Shaped(j)
  /\ versions' \subseteq versions \union {job[w].row}
  /\ j.row = job[w].row \/ j.row = NoRow \/ Fresh(j.row)
  /\ j.todo \subseteq job[w].todo \/ \A v \in j.todo : Fresh(v)
  /\ Advances
  /\ EntryShape'
  /\ Rest'

-----------------------------------------------------------------------------
LEMMA Split == TypeOK /\ JobShape <=> Rest /\ job \in [Jobs -> Job] /\ JobShape
BY DEF TypeOK, Rest

LEMMA IdleShaped == Shaped(Idle)
BY DEF Shaped, Idle, Job, NoRow, None, RequestStatus, ReviewOutcome, Row

LEMMA NoRowIsNone == NoRow \notin Row
BY DEF NoRow, Row

LEMMA StepKeeps ==
  ASSUME KInv, NEW w \in Jobs, NEW j, Steps(w, j)
  PROVE  KInv'
<1>1. job \in [Jobs -> Job] /\ Rest /\ EntryShape /\ JobShape
  BY Split DEF KInv
<1>2. /\ job' \in [Jobs -> Job]
      /\ \A u \in Jobs : job'[u] = IF u = w THEN j ELSE job[u]
  BY <1>1 DEF Steps, Shaped
<1>3. JobShape'
  BY <1>1, <1>2 DEF JobShape, Steps, Shaped
<1>4. TypeOK'
  BY <1>2 DEF Steps, Rest, TypeOK
<1>5. \A v \in Held' : v \in Held \/ (v \in Row /\ Fresh(v))
  <2> SUFFICES ASSUME NEW v \in Held'
               PROVE  v \in Held \/ (v \in Row /\ Fresh(v))
    OBVIOUS
  <2>1. v \in Row
    BY DEF Held
  <2>2. CASE v \in versions'
    BY <2>1, <2>2 DEF Steps, Held
  <2>3. CASE \E u \in Jobs : v = job'[u].row \/ v \in job'[u].todo
    BY <2>1, <2>3, <1>2, NoRowIsNone DEF Steps, Held
  <2> QED
    BY <2>2, <2>3 DEF Held
<1>6. \A e \in Entries : entry[e].version \in Nat /\ entry'[e].version \in Nat
  BY <1>1 DEF Steps, Rest, Entry
<1>7. \A v \in Row : v.entry \in Entries /\ v.version \in Nat
  BY DEF Row
<1>8. \A v \in Held' :
        /\ v.version <= entry'[v.entry].version
        /\ v.version = entry'[v.entry].version => v.content = entry'[v.entry].content
  <2> SUFFICES ASSUME NEW v \in Held'
               PROVE  /\ v.version <= entry'[v.entry].version
                      /\ v.version = entry'[v.entry].version => v.content = entry'[v.entry].content
    OBVIOUS
  <2>1. CASE v \in Held
    <3>1. v \in Row /\ v.version <= entry[v.entry].version
          /\ (v.version = entry[v.entry].version => v.content = entry[v.entry].content)
      BY <2>1 DEF KInv, RowsAgree, Held
    <3> QED
      BY <3>1, <1>6, <1>7 DEF Steps, Advances
  <2>2. CASE v \in Row /\ Fresh(v)
    BY <2>2, <1>6, <1>7 DEF Fresh
  <2> QED
    BY <1>5, <2>1, <2>2
<1>9. \A u, v \in Held' : u.entry = v.entry /\ u.version = v.version => u.content = v.content
  <2> SUFFICES ASSUME NEW u \in Held', NEW v \in Held', u.entry = v.entry, u.version = v.version
               PROVE  u.content = v.content
    OBVIOUS
  <2>1. CASE u \in Held /\ v \in Held
    BY <2>1 DEF KInv, RowsAgree
  <2>2. CASE Fresh(u) \/ Fresh(v)
    BY <2>2, <1>8 DEF Fresh
  <2> QED
    BY <1>5, <2>1, <2>2
<1> QED
  BY <1>3, <1>4, <1>8, <1>9 DEF KInv, RowsAgree, Steps

-----------------------------------------------------------------------------
LEMMA InitKInv == Init => KInv
<1> SUFFICES ASSUME Init PROVE KInv
  OBVIOUS
<1>1. PICK c \in Contents :
        /\ entry = [e \in Entries |->
             IF e = 1 THEN [version |-> 1, content |-> c, status |-> "active"]
                      ELSE [version |-> 0, content |-> None, status |-> None]]
        /\ indexed = [e \in Entries |-> IF e = 1 THEN c ELSE None]
        /\ versions = {[entry |-> 1, version |-> 1, content |-> c, status |-> "draft"],
                       [entry |-> 1, version |-> 1, content |-> c, status |-> "active"]}
        /\ req = [r \in Requests |-> [status |-> None, target |-> 0, proposed |-> None,
                                      seen |-> NoRow, decided |-> None, publishedEntry |-> 0]]
        /\ events = {}
        /\ job = [w \in Jobs |-> Idle]
        /\ calls = 0
        /\ source = [e \in Entries |-> None]
        /\ disturbed = {} /\ contested = {} /\ reopened = {}
        /\ failures = 0
  BY DEF Init
<1>2. 1 \in Entries
  BY KnowledgeAssumption
<1>3. Rest
  BY <1>1, <1>2, KnowledgeAssumption
     DEF Rest, Entry, Row, Request, EntryStatus, None
<1>4. EntryShape
  BY <1>1 DEF EntryShape, Exists, None
<1>5. JobShape /\ job \in [Jobs -> Job]
  BY <1>1, IdleShaped DEF JobShape, Shaped
<1>6. Held \subseteq versions
  BY <1>1, NoRowIsNone DEF Held, Idle
<1>7. RowsAgree
  BY <1>1, <1>2, <1>6 DEF RowsAgree
<1> QED
  BY <1>3, <1>4, <1>5, <1>7, Split DEF KInv

-----------------------------------------------------------------------------
(* The three statements on entries, whoever runs them.                     *)

LEMMA RowOfTyped ==
  ASSUME KInv, NEW e \in Entries, Exists(e)
  PROVE  RowOf(e) \in Row /\ RowOf(e).entry = e
<1>1. entry[e] \in Entry /\ entry[e].version # 0 /\ entry[e].content \in Contents
  BY Split DEF KInv, Rest, EntryShape
<1> QED
  BY <1>1 DEF RowOf, Row, Entry, Exists

\* An entry that a statement left with another row.
LEMMA Written ==
  ASSUME KInv, NEW e \in Entries, NEW new \in Entry, new.status # None,
         new.version # 0, new.content \in Contents,
         \/ new.version = entry[e].version /\ new.content = entry[e].content
         \/ new.version > entry[e].version,
         entry' = [entry EXCEPT ![e] = new]
  PROVE  Advances /\ EntryShape' /\ entry' \in [Entries -> Entry] /\ entry'[e] = new
<1>1. entry \in [Entries -> Entry] /\ EntryShape
  BY Split DEF KInv, Rest
<1> QED
  BY <1>1 DEF Advances, EntryShape, Exists

LEMMA InsertSteps ==
  ASSUME KInv, NEW w \in Jobs, NEW c \in Contents, NEW next \in {"idle", "activate"},
         NEW r \in Requests \union {None}, Insert(w, c, next, r)
  PROVE  \E row \in Row :
           /\ job' = [job EXCEPT ![w] = [job[w] EXCEPT !.pc = "embed", !.next = next, !.row = row]]
           /\ Fresh(row) /\ Advances /\ EntryShape'
           /\ entry' \in [Entries -> Entry]
           /\ source' \in [Entries -> Requests \union {None}]
           /\ disturbed' = disturbed
<1>1. PICK e \in Entries :
        /\ ~Exists(e)
        /\ entry' = [entry EXCEPT ![e] = [version |-> 1, content |-> c, status |-> "draft"]]
        /\ source' = [source EXCEPT ![e] = r]
        /\ job' = [job EXCEPT ![w] = [job[w] EXCEPT !.pc = "embed", !.next = next, !.row =
             [entry |-> e, version |-> 1, content |-> c, status |-> "draft"]]]
        /\ disturbed' = disturbed
  BY Split DEF Insert, KInv
<1> DEFINE new == [version |-> 1, content |-> c, status |-> "draft"]
           row == [entry |-> e, version |-> 1, content |-> c, status |-> "draft"]
<1>2. /\ new \in Entry /\ row \in Row /\ new.status # None
      /\ entry' = [entry EXCEPT ![e] = new]
  BY <1>1 DEF Entry, Row, EntryStatus, None
<1>3. new.version > entry[e].version /\ new.version # 0 /\ new.content \in Contents
  BY <1>1 DEF KInv, EntryShape
<1>4. Advances /\ EntryShape' /\ entry' \in [Entries -> Entry] /\ entry'[e] = new
  <2> HIDE DEF new
  <2> QED
    BY <1>2, <1>3, Written
<1>5. Fresh(row)
  BY <1>4 DEF Fresh
<1>6. source' \in [Entries -> Requests \union {None}]
  BY <1>1, Split DEF KInv, Rest
<1> QED
  BY <1>1, <1>2, <1>4, <1>5, <1>6

LEMMA RewriteSteps ==
  ASSUME KInv, NEW w \in Jobs, NEW e \in Entries, NEW c \in Contents,
         NEW next \in {"idle", "activate"}, Rewrite(w, e, c, next)
  PROVE  \E row \in Row :
           /\ job' = [job EXCEPT ![w] = [job[w] EXCEPT !.pc = "embed", !.next = next, !.row = row]]
           /\ Fresh(row) /\ Advances /\ EntryShape'
           /\ entry' \in [Entries -> Entry]
           /\ source' = source
           /\ disturbed' \subseteq Entries
<1> DEFINE new == [version |-> entry[e].version + 1, content |-> c, status |-> "draft"]
           row == [entry |-> e, version |-> entry[e].version + 1, content |-> c, status |-> "draft"]
<1>1. /\ entry' = [entry EXCEPT ![e] = new]
      /\ job' = [job EXCEPT ![w] = [job[w] EXCEPT !.pc = "embed", !.next = next, !.row = row]]
      /\ source' = source
  BY Split DEF KInv, Rewrite, NextVersion
<1>2. entry[e].version \in Nat
  BY Split DEF KInv, Rest, Entry
<1>3. /\ new \in Entry /\ row \in Row /\ new.status # None
      /\ new.version > entry[e].version /\ new.version # 0 /\ new.content \in Contents
  BY <1>2 DEF Entry, Row, EntryStatus, None
<1>4. Advances /\ EntryShape' /\ entry' \in [Entries -> Entry] /\ entry'[e] = new
  <2> HIDE DEF new
  <2> QED
    BY <1>1, <1>3, Written
<1>5. Fresh(row)
  BY <1>4 DEF Fresh
<1>6. disturbed' \subseteq Entries
  BY Split DEF KInv, Rest, Rewrite, Touch
<1> QED
  BY <1>1, <1>3, <1>4, <1>5, <1>6

LEMMA ChangeStatusSteps ==
  ASSUME KInv, NEW w \in Jobs, NEW e \in Entries, NEW s \in EntryStatus,
         NEW next \in {"idle", "close"}, ChangeStatus(w, e, s, next)
  PROVE  \E row \in Row :
           /\ job' = [job EXCEPT ![w] = [job[w] EXCEPT !.pc = "record", !.next = next, !.row = row]]
           /\ Fresh(row) /\ Advances /\ EntryShape'
           /\ entry' \in [Entries -> Entry]
           /\ disturbed' \subseteq Entries
<1> DEFINE new == [entry[e] EXCEPT !.status = s]
           row == [RowOf(e) EXCEPT !.status = s]
<1>1. /\ Exists(e)
      /\ entry' = [entry EXCEPT ![e] = new]
      /\ job' = [job EXCEPT ![w] = [job[w] EXCEPT !.pc = "record", !.next = next, !.row = row]]
  BY Split DEF KInv, Rest, ChangeStatus, ReturnedRow
<1>2. entry[e] \in Entry /\ entry[e].version # 0 /\ entry[e].content \in Contents
  BY <1>1, Split DEF KInv, Rest, EntryShape
<1>3. new \in Entry /\ new.status # None /\ new.version = entry[e].version
      /\ new.content = entry[e].content
  BY <1>2 DEF Entry, EntryStatus, None
<1>4. Advances /\ EntryShape' /\ entry' \in [Entries -> Entry] /\ entry'[e] = new
  <2> HIDE DEF new
  <2> QED
    BY <1>1, <1>2, <1>3, Written
<1>5. row \in Row /\ row.entry = e /\ row.version = entry[e].version /\ row.content = entry[e].content
  BY <1>1, RowOfTyped DEF RowOf, Row
<1>6. Fresh(row)
  BY <1>3, <1>4, <1>5 DEF Fresh
<1>7. disturbed' \subseteq Entries
  BY Split DEF KInv, Rest, ChangeStatus, Touch
<1> QED
  BY <1>1, <1>4, <1>5, <1>6, <1>7

-----------------------------------------------------------------------------
(* One lemma per action; the job it leaves is named j.                     *)

LEMMA ReadyIdle ==
  ASSUME KInv, NEW w \in Jobs, Ready(w)
  PROVE  job[w] = Idle /\ calls' \in 0..MaxCalls
<1>1. Shaped(job[w]) /\ calls \in 0..MaxCalls
  BY Split DEF KInv, JobShape, Rest
<1> QED
  BY <1>1, KnowledgeAssumption DEF Ready, Shaped

LEMMA CreateDraftKeeps ==
  ASSUME KInv, NEW w \in Jobs, NEW c \in Contents, CreateDraft(w, c)
  PROVE  KInv'
<1>1. job[w] = Idle /\ calls' \in 0..MaxCalls
  BY ReadyIdle DEF CreateDraft
<1>2. PICK row \in Row :
        /\ job' = [job EXCEPT ![w] = [job[w] EXCEPT !.pc = "embed", !.next = "idle", !.row = row]]
        /\ Fresh(row) /\ Advances /\ EntryShape'
        /\ entry' \in [Entries -> Entry]
        /\ source' \in [Entries -> Requests \union {None}]
        /\ disturbed' = disturbed
  BY InsertSteps DEF CreateDraft
<1> DEFINE j == [job[w] EXCEPT !.pc = "embed", !.next = "idle", !.row = row]
<1>3. Shaped(j)
  BY <1>1, IdleShaped DEF Shaped, Idle, Job
<1>4. Rest'
  BY <1>1, <1>2, Split DEF KInv, Rest, CreateDraft
<1>5. Steps(w, j)
  BY <1>1, <1>2, <1>3, <1>4 DEF Steps, CreateDraft, Idle
<1> QED
  BY <1>5, StepKeeps

LEMMA UpdateKeeps ==
  ASSUME KInv, NEW w \in Jobs, NEW e \in Entries, NEW c \in Contents, Ready(w),
         Rewrite(w, e, c, "idle"),
         UNCHANGED <<indexed, versions, req, events, contested, reopened, failures>>
  PROVE  KInv'
<1>1. job[w] = Idle /\ calls' \in 0..MaxCalls
  BY ReadyIdle
<1>2. PICK row \in Row :
        /\ job' = [job EXCEPT ![w] = [job[w] EXCEPT !.pc = "embed", !.next = "idle", !.row = row]]
        /\ Fresh(row) /\ Advances /\ EntryShape'
        /\ entry' \in [Entries -> Entry]
        /\ source' = source
        /\ disturbed' \subseteq Entries
  BY RewriteSteps
<1> DEFINE j == [job[w] EXCEPT !.pc = "embed", !.next = "idle", !.row = row]
<1>3. Shaped(j)
  BY <1>1, IdleShaped DEF Shaped, Idle, Job
<1>4. Rest'
  BY <1>1, <1>2, Split DEF KInv, Rest
<1>5. Steps(w, j)
  BY <1>1, <1>2, <1>3, <1>4 DEF Steps, Idle
<1> QED
  BY <1>5, StepKeeps

LEMMA SetStatusKeeps ==
  ASSUME KInv, NEW w \in Jobs, NEW e \in Entries, NEW s \in EntryStatus, SetStatus(w, e, s)
  PROVE  KInv'
<1>1. job[w] = Idle /\ calls' \in 0..MaxCalls
  BY ReadyIdle DEF SetStatus
<1>2. PICK row \in Row :
        /\ job' = [job EXCEPT ![w] = [job[w] EXCEPT !.pc = "record", !.next = "idle", !.row = row]]
        /\ Fresh(row) /\ Advances /\ EntryShape'
        /\ entry' \in [Entries -> Entry]
        /\ disturbed' \subseteq Entries
  BY ChangeStatusSteps DEF SetStatus
<1> DEFINE j == [job[w] EXCEPT !.pc = "record", !.next = "idle", !.row = row]
<1>3. Shaped(j)
  BY <1>1, IdleShaped DEF Shaped, Idle, Job
<1>4. Rest'
  BY <1>1, <1>2, Split DEF KInv, Rest, SetStatus
<1>5. Steps(w, j)
  BY <1>1, <1>2, <1>3, <1>4 DEF Steps, SetStatus, Idle
<1> QED
  BY <1>5, StepKeeps

LEMMA SameEntries ==
  ASSUME KInv, entry' = entry
  PROVE  Advances /\ EntryShape' /\ entry' \in [Entries -> Entry]
BY Split DEF KInv, Rest, Advances, EntryShape, Exists

LEMMA WriteEmbeddingKeeps ==
  ASSUME KInv, NEW w \in Jobs, WriteEmbedding(w)
  PROVE  KInv'
<1> DEFINE j == [job[w] EXCEPT !.pc = "record"]
<1>1. Shaped(job[w]) /\ job[w].row \in Row
  BY Split DEF KInv, JobShape, Shaped, WriteEmbedding
<1>2. Shaped(j)
  BY <1>1 DEF Shaped, Job, WriteEmbedding
<1>3. job' = [job EXCEPT ![w] = j]
  BY Split DEF KInv, WriteEmbedding
<1>4. Advances /\ EntryShape'
  BY SameEntries DEF WriteEmbedding
<1>5. Rest'
  BY <1>1, Split DEF KInv, Rest, WriteEmbedding, NewIndex, Row, history
<1>6. Steps(w, j)
  BY <1>1, <1>2, <1>3, <1>4, <1>5 DEF Steps, WriteEmbedding, Shaped, Job
<1> QED
  BY <1>6, StepKeeps

LEMMA RecordVersionKeeps ==
  ASSUME KInv, NEW w \in Jobs, RecordVersion(w)
  PROVE  KInv'
<1> DEFINE j == IF job[w].next = "idle" THEN Idle ELSE [job[w] EXCEPT !.pc = job[w].next]
<1>1. Shaped(job[w]) /\ job[w].row \in Row
  BY Split DEF KInv, JobShape, Shaped, RecordVersion
<1>2. Shaped(j)
  BY <1>1, IdleShaped DEF Shaped, Job, RecordVersion
<1>3. job' = [job EXCEPT ![w] = j]
  BY DEF RecordVersion
<1>4. Advances /\ EntryShape'
  BY SameEntries DEF RecordVersion
<1>5. Rest'
  BY <1>1, Split DEF KInv, Rest, RecordVersion, history
<1>6. j.row \in {job[w].row, NoRow} /\ j.todo \subseteq job[w].todo
  BY <1>1 DEF Shaped, Job, Idle
<1>7. Steps(w, j)
  BY <1>2, <1>3, <1>4, <1>5, <1>6 DEF Steps, RecordVersion
<1> QED
  BY <1>7, StepKeeps

LEMMA ReindexKeeps ==
  ASSUME KInv, NEW w \in Jobs, Reindex(w)
  PROVE  KInv'
<1> DEFINE rows == {RowOf(e) : e \in {d \in Entries : entry[d].status \in {"draft", "active"}}}
           j == [job[w] EXCEPT !.pc = "reindex", !.todo = rows]
<1>1. job[w] = Idle /\ calls' \in 0..MaxCalls
  BY ReadyIdle DEF Reindex
<1>2. \A v \in rows : v \in Row /\ Fresh(v)
  <2> SUFFICES ASSUME NEW e \in Entries, entry[e].status \in {"draft", "active"}
               PROVE  RowOf(e) \in Row /\ Fresh(RowOf(e))
    OBVIOUS
  <2>1. RowOf(e) \in Row
    BY RowOfTyped DEF Exists, None
  <2> QED
    BY <2>1 DEF Fresh, RowOf, Reindex
<1>3. Shaped(j)
  BY <1>1, <1>2, IdleShaped DEF Shaped, Idle, Job
<1>4. job' = [job EXCEPT ![w] = j]
  BY DEF Reindex
<1>5. Advances /\ EntryShape'
  BY SameEntries DEF Reindex
<1>6. Rest'
  <2>1. {row.entry : row \in rows} \subseteq Entries
    BY <1>2 DEF Row
  <2>2. disturbed' \subseteq disturbed \union {row.entry : row \in rows}
    BY DEF Reindex, Touch
  <2> QED
    BY <1>1, <2>1, <2>2, Split DEF KInv, Rest, Reindex
<1>7. Steps(w, j)
  BY <1>1, <1>2, <1>3, <1>4, <1>5, <1>6 DEF Steps, Reindex, Idle
<1> QED
  BY <1>7, StepKeeps

LEMMA ReindexEntryKeeps ==
  ASSUME KInv, NEW w \in Jobs, ReindexEntry(w)
  PROVE  KInv'
<1>1. PICK row \in job[w].todo :
        /\ indexed' = [indexed EXCEPT ![row.entry] = NewIndex(row.entry, row.content)]
        /\ job' = [job EXCEPT ![w] =
             IF job[w].todo = {row} THEN Idle ELSE [job[w] EXCEPT !.todo = job[w].todo \ {row}]]
  BY Split DEF KInv, ReindexEntry
<1> DEFINE j == IF job[w].todo = {row} THEN Idle ELSE [job[w] EXCEPT !.todo = job[w].todo \ {row}]
<1>2. Shaped(job[w]) /\ row \in Row
  BY <1>1, Split DEF KInv, JobShape, Shaped, Job
<1>3. Shaped(j)
  BY <1>2, IdleShaped DEF Shaped, Job, ReindexEntry
<1>4. Advances /\ EntryShape'
  BY SameEntries DEF ReindexEntry
<1>5. Rest'
  BY <1>1, <1>2, Split DEF KInv, Rest, ReindexEntry, NewIndex, Row, history
<1>6. j.row \in {job[w].row, NoRow} /\ j.todo \subseteq job[w].todo
  BY <1>2 DEF Shaped, Job, Idle
<1>7. Steps(w, j)
  BY <1>1, <1>3, <1>4, <1>5, <1>6 DEF Steps, ReindexEntry
<1> QED
  BY <1>7, StepKeeps

LEMMA SubmitKeeps ==
  ASSUME KInv, NEW w \in Jobs, NEW r \in Requests, NEW target \in Entries \union {0},
         NEW c \in Contents, Submit(w, r, target, c)
  PROVE  KInv'
<1> DEFINE j == [job[w] EXCEPT !.pc = "event", !.request = r, !.type = "submitted"]
           snapshot == IF target = 0 THEN NoRow ELSE RowOf(target)
<1>1. job[w] = Idle /\ calls' \in 0..MaxCalls
  BY ReadyIdle DEF Submit
<1>2. snapshot \in Row \union {NoRow}
  BY RowOfTyped DEF Submit
<1>3. Shaped(j)
  BY <1>1, IdleShaped DEF Shaped, Idle, Job, RequestStatus
<1>4. req' \in [Requests -> Request]
  <2>1. req' = [req EXCEPT ![r] = [req[r] EXCEPT !.status = "submitted", !.target = target,
                                                 !.proposed = c, !.seen = snapshot]]
    BY DEF Submit
  <2>2. req \in [Requests -> Request] /\ "submitted" \in RequestStatus
    BY Split DEF KInv, Rest, RequestStatus
  <2> HIDE DEF snapshot
  <2> QED
    BY <1>2, <2>1, <2>2 DEF Request
<1>5. Advances /\ EntryShape'
  BY SameEntries DEF Submit, history
<1>6. Rest'
  BY <1>1, <1>4, Split DEF KInv, Rest, Submit, history
<1>7. Steps(w, j)
  BY <1>1, <1>3, <1>5, <1>6 DEF Steps, Submit, Idle
<1> QED
  BY <1>7, StepKeeps

LEMMA BeginReviewKeeps ==
  ASSUME KInv, NEW w \in Jobs, NEW r \in Requests, NEW s \in ReviewOutcome, BeginReview(w, r, s)
  PROVE  KInv'
<1> DEFINE j == [job[w] EXCEPT !.pc = "review", !.request = r, !.type = s,
                               !.previous = req[r].status]
<1>1. job[w] = Idle /\ calls' \in 0..MaxCalls
  BY ReadyIdle DEF BeginReview
<1>2. req[r].status \in RequestStatus \union {None}
  BY Split DEF KInv, Rest, Request
<1>3. Shaped(j)
  BY <1>1, <1>2, IdleShaped DEF Shaped, Idle, Job, RequestStatus
<1>4. Advances /\ EntryShape'
  BY SameEntries DEF BeginReview
<1>5. Rest'
  BY <1>1, Split DEF KInv, Rest, BeginReview, Contest
<1>6. Steps(w, j)
  BY <1>1, <1>3, <1>4, <1>5 DEF Steps, BeginReview, Idle
<1> QED
  BY <1>6, StepKeeps

LEMMA ReviewKeeps ==
  ASSUME KInv, NEW w \in Jobs, Review(w)
  PROVE  KInv'
<1> DEFINE j == [job[w] EXCEPT !.pc = "event"]
<1>1. /\ Shaped(job[w]) /\ job[w].request \in Requests /\ job[w].type \in RequestStatus
      /\ job[w] \in Job
  BY Split DEF KInv, JobShape, Shaped, Review
<1>2. Shaped(j)
  BY <1>1 DEF Shaped, Job, Review
<1>3. job' = [job EXCEPT ![w] = j]
  BY Split DEF KInv, Review
<1>4. req' \in [Requests -> Request]
  BY <1>1, Split DEF KInv, Rest, Request, Review
<1>5. Advances /\ EntryShape'
  BY SameEntries DEF Review
<1>6. Rest'
  BY <1>1, <1>4, Split DEF KInv, Rest, Review
<1>7. Steps(w, j)
  BY <1>1, <1>2, <1>3, <1>5, <1>6 DEF Steps, Review, Job
<1> QED
  BY <1>7, StepKeeps

LEMMA BeginPublishKeeps ==
  ASSUME KInv, NEW w \in Jobs, NEW r \in Requests, NEW c \in Contents, BeginPublish(w, r, c)
  PROVE  KInv'
<1> DEFINE j == [job[w] EXCEPT !.pc = "draft", !.request = r, !.type = "published",
                               !.previous = req[r].status, !.content = c]
<1>1. job[w] = Idle /\ calls' \in 0..MaxCalls
  BY ReadyIdle DEF BeginPublish
<1>2. req[r].status \in RequestStatus \union {None} /\ req[r].target \in Entries \union {0}
  BY Split DEF KInv, Rest, Request
<1>3. Shaped(j)
  BY <1>1, <1>2, IdleShaped DEF Shaped, Idle, Job, RequestStatus
<1>4. Advances /\ EntryShape'
  BY SameEntries DEF BeginPublish
<1>5. Rest'
  BY <1>1, <1>2, Split DEF KInv, Rest, BeginPublish, Contest, Touch
<1>6. Steps(w, j)
  BY <1>1, <1>3, <1>4, <1>5 DEF Steps, BeginPublish, Idle
<1> QED
  BY <1>6, StepKeeps

LEMMA PublishDraftKeeps ==
  ASSUME KInv, NEW w \in Jobs, PublishDraft(w)
  PROVE  KInv'
<1> DEFINE r == job[w].request
<1>1. Shaped(job[w]) /\ r \in Requests /\ job[w].content \in Contents
  BY Split DEF KInv, JobShape, Shaped, PublishDraft
<1>2. PICK row \in Row :
        /\ job' = [job EXCEPT ![w] =
             [job[w] EXCEPT !.pc = "embed", !.next = "activate", !.row = row]]
        /\ Fresh(row) /\ Advances /\ EntryShape'
        /\ entry' \in [Entries -> Entry]
        /\ source' \in [Entries -> Requests \union {None}]
        /\ disturbed' \subseteq Entries
  <2>1. disturbed \subseteq Entries /\ source \in [Entries -> Requests \union {None}]
    BY Split DEF KInv, Rest
  <2>2. CASE req[r].target = 0
    <3>1. Insert(w, job[w].content, "activate", r)
      BY <2>2 DEF PublishDraft
    <3> QED
      BY <1>1, <2>1, <3>1, InsertSteps
  <2>3. CASE req[r].target # 0
    <3>1. req[r].target \in Entries
      BY <1>1, <2>3, Split DEF KInv, Rest, Request
    <3>2. Rewrite(w, req[r].target, job[w].content, "activate")
      BY <2>3 DEF PublishDraft
    <3> QED
      BY <1>1, <2>1, <3>1, <3>2, RewriteSteps
  <2> QED
    BY <2>2, <2>3
<1> DEFINE j == [job[w] EXCEPT !.pc = "embed", !.next = "activate", !.row = row]
<1>3. Shaped(j)
  BY <1>1 DEF Shaped, Job, PublishDraft
<1>4. Rest'
  BY <1>2, Split DEF KInv, Rest, PublishDraft
<1>5. Steps(w, j)
  BY <1>1, <1>2, <1>3, <1>4 DEF Steps, PublishDraft, Shaped, Job
<1> QED
  BY <1>5, StepKeeps

LEMMA ActivateKeeps ==
  ASSUME KInv, NEW w \in Jobs, Activate(w)
  PROVE  KInv'
<1>1. Shaped(job[w]) /\ job[w].row.entry \in Entries /\ PublishedStatus \in EntryStatus
  BY Split DEF KInv, JobShape, Shaped, Activate, Row, PublishedStatus, EntryStatus
<1>2. PICK row \in Row :
        /\ job' = [job EXCEPT ![w] = [job[w] EXCEPT !.pc = "record", !.next = "close", !.row = row]]
        /\ Fresh(row) /\ Advances /\ EntryShape'
        /\ entry' \in [Entries -> Entry]
        /\ disturbed' \subseteq Entries
  BY <1>1, ChangeStatusSteps DEF Activate
<1> DEFINE j == [job[w] EXCEPT !.pc = "record", !.next = "close", !.row = row]
<1>3. Shaped(j)
  BY <1>1 DEF Shaped, Job, Activate
<1>4. Rest'
  BY <1>2, Split DEF KInv, Rest, Activate
<1>5. Steps(w, j)
  BY <1>1, <1>2, <1>3, <1>4 DEF Steps, Activate, Shaped, Job
<1> QED
  BY <1>5, StepKeeps

LEMMA ClosedTyped ==
  ASSUME NEW q \in Request, NEW c \in Contents, NEW e \in Entries
  PROVE  [q EXCEPT !.status = "published", !.decided = c, !.publishedEntry = e] \in Request
BY DEF Request, RequestStatus

LEMMA CloseKeeps ==
  ASSUME KInv, NEW w \in Jobs, Close(w)
  PROVE  KInv'
<1> DEFINE j == [job[w] EXCEPT !.pc = "event"]
<1>1. /\ Shaped(job[w]) /\ job[w] \in Job
      /\ job[w].request \in Requests /\ job[w].content \in Contents
      /\ job[w].row.entry \in Entries
  BY Split DEF KInv, JobShape, Shaped, Close, Row
<1>2. Shaped(j)
  BY <1>1 DEF Shaped, Job, Close
<1>3. job' = [job EXCEPT ![w] = j]
  BY Split DEF KInv, Close
<1>4. req' \in [Requests -> Request]
  <2>1. req \in [Requests -> Request] /\ "published" \in RequestStatus
    BY Split DEF KInv, Rest, RequestStatus
  <2>2. [req[job[w].request] EXCEPT !.status = "published", !.decided = job[w].content,
                                    !.publishedEntry = job[w].row.entry] \in Request
    BY <1>1, <2>1, ClosedTyped
  <2> QED
    BY <2>1, <2>2 DEF Close
<1>5. Advances /\ EntryShape'
  BY SameEntries DEF Close
<1>6. Rest'
  BY <1>4, Split DEF KInv, Rest, Close, history
<1>7. Steps(w, j)
  BY <1>1, <1>2, <1>3, <1>5, <1>6 DEF Steps, Close, Job
<1> QED
  BY <1>7, StepKeeps

\* A job that ends, by its last statement or by dying, holds nothing any more.
LEMMA JobEnds ==
  ASSUME KInv, NEW w \in Jobs, job' = [job EXCEPT ![w] = Idle], Rest',
         UNCHANGED <<entry, versions>>
  PROVE  KInv'
<1>1. Advances /\ EntryShape'
  BY SameEntries
<1>2. Steps(w, Idle)
  BY <1>1, IdleShaped DEF Steps, Idle
<1> QED
  BY <1>2, StepKeeps

LEMMA RecordEventKeeps ==
  ASSUME KInv, NEW w \in Jobs, RecordEvent(w)
  PROVE  KInv'
<1>1. /\ job[w].request \in Requests /\ job[w].type \in RequestStatus
      /\ job[w].previous \in RequestStatus \union {None}
  BY Split DEF KInv, JobShape, Shaped, Job, RecordEvent
<1>2. Rest'
  BY <1>1, Split DEF KInv, Rest, RecordEvent, EventType, Event, history
<1> QED
  BY <1>2, JobEnds DEF RecordEvent

LEMMA CrashKeeps ==
  ASSUME KInv, NEW w \in Jobs, Crash(w)
  PROVE  KInv'
<1>1. Rest'
  BY KnowledgeAssumption, Split DEF KInv, Rest, Crash
<1> QED
  BY <1>1, JobEnds DEF Crash

-----------------------------------------------------------------------------
LEMMA NextKInv ==
  ASSUME KInv, [Next]_vars
  PROVE  KInv'
<1>1. CASE UNCHANGED vars
  BY <1>1 DEF vars, KInv, TypeOK, EntryShape, Exists, JobShape, RowsAgree, Held
<1>2. CASE Next
  <2> PICK w \in Jobs :
        \/ \E c \in Contents : CreateDraft(w, c)
        \/ \E e \in Entries, c \in Contents : Update(w, e, c)
        \/ \E v \in versions : Rollback(w, v)
        \/ \E e \in Entries, s \in EntryStatus : SetStatus(w, e, s)
        \/ WriteEmbedding(w) \/ RecordVersion(w) \/ Reindex(w) \/ ReindexEntry(w)
        \/ \E r \in Requests, target \in Entries \union {0}, c \in Contents :
             Submit(w, r, target, c)
        \/ \E r \in Requests, s \in ReviewOutcome : BeginReview(w, r, s)
        \/ Review(w)
        \/ \E r \in Requests, c \in Contents : BeginPublish(w, r, c)
        \/ PublishDraft(w) \/ Activate(w) \/ Close(w) \/ RecordEvent(w)
        \/ Crash(w)
    BY <1>2 DEF Next
  <2>1. ASSUME NEW c \in Contents, CreateDraft(w, c) PROVE KInv'
    BY <2>1, CreateDraftKeeps
  <2>2. ASSUME NEW e \in Entries, NEW c \in Contents, Update(w, e, c) PROVE KInv'
    BY <2>2, UpdateKeeps DEF Update
  <2>3. ASSUME NEW v \in versions, Rollback(w, v) PROVE KInv'
    <3>1. v.entry \in Entries /\ v.content \in Contents
      BY Split DEF KInv, Rest, Row
    <3> QED
      BY <2>3, <3>1, UpdateKeeps DEF Rollback
  <2>4. ASSUME NEW e \in Entries, NEW s \in EntryStatus, SetStatus(w, e, s) PROVE KInv'
    BY <2>4, SetStatusKeeps
  <2>5. CASE WriteEmbedding(w) \/ RecordVersion(w) \/ Reindex(w) \/ ReindexEntry(w)
    BY <2>5, WriteEmbeddingKeeps, RecordVersionKeeps, ReindexKeeps, ReindexEntryKeeps
  <2>6. ASSUME NEW r \in Requests, NEW target \in Entries \union {0}, NEW c \in Contents,
               Submit(w, r, target, c)
        PROVE  KInv'
    BY <2>6, SubmitKeeps
  <2>7. ASSUME NEW r \in Requests, NEW s \in ReviewOutcome, BeginReview(w, r, s) PROVE KInv'
    BY <2>7, BeginReviewKeeps
  <2>8. CASE Review(w)
    BY <2>8, ReviewKeeps
  <2>9. ASSUME NEW r \in Requests, NEW c \in Contents, BeginPublish(w, r, c) PROVE KInv'
    BY <2>9, BeginPublishKeeps
  <2>10. CASE PublishDraft(w) \/ Activate(w) \/ Close(w) \/ RecordEvent(w) \/ Crash(w)
    BY <2>10, PublishDraftKeeps, ActivateKeeps, CloseKeeps, RecordEventKeeps, CrashKeeps
  <2> QED
    BY <2>1, <2>2, <2>3, <2>4, <2>5, <2>6, <2>7, <2>8, <2>9, <2>10
<1> QED
  BY <1>1, <1>2

LEMMA KInvNames == KInv => VersionNamesContent
<1> SUFFICES ASSUME KInv PROVE VersionNamesContent
  OBVIOUS
<1> DEFINE now == {RowOf(e) : e \in {d \in Entries : Exists(d)}}
<1> SUFFICES ASSUME NEW v \in versions \union now, NEW u \in versions \union now,
                    v.entry = u.entry, v.version = u.version
             PROVE  v.content = u.content
  BY DEF VersionNamesContent
<1>1. versions \subseteq Held
  BY Split DEF KInv, Rest, Held
<1>2. \A x \in now : x.version = entry[x.entry].version /\ x.content = entry[x.entry].content
  BY DEF RowOf
<1>3. CASE v \in Held /\ u \in Held
  BY <1>3 DEF KInv, RowsAgree
<1>4. CASE v \in now \/ u \in now
  <2> HIDE DEF now
  <2> QED
    BY <1>1, <1>2, <1>4 DEF KInv, RowsAgree
<1> QED
  BY <1>1, <1>3, <1>4

\* In every reachable state rows kept or held for the history agree where they share a version, and jobs
\* know what their step needs, for any entries, requests and jobs.
THEOREM Invariant == Spec => []KInv
<1>1. Init => KInv
  BY InitKInv
<1>2. KInv /\ [Next]_vars => KInv'
  BY NextKInv
<1> QED
  BY <1>1, <1>2, PTL DEF Spec

\* Every reachable state of the knowledge base is well typed: the statements of
\* overlapping requests, retries and crashes never leave a row half-written.
THEOREM TypeCorrect == Spec => []TypeOK
<1>1. KInv => TypeOK
  BY DEF KInv
<1> QED
  BY <1>1, Invariant, PTL

\* One version number of an entry names one content, in the history and in the
\* entry itself, for any number of jobs that update, roll back, activate, publish
\* and record their history rows late (knowledge.ts, update and rollback).
THEOREM VersionsNameContent == Spec => []VersionNamesContent
BY Invariant, KInvNames, PTL
-----------------------------------------------------------------------------
(* What a step of one job does, told apart by what happens to the entries.  *)

Step(w) ==
  \/ \E c \in Contents : CreateDraft(w, c)
  \/ \E e \in Entries, c \in Contents : Update(w, e, c)
  \/ \E v \in versions : Rollback(w, v)
  \/ \E e \in Entries, s \in EntryStatus : SetStatus(w, e, s)
  \/ WriteEmbedding(w) \/ RecordVersion(w) \/ Reindex(w) \/ ReindexEntry(w)
  \/ \E r \in Requests, target \in Entries \union {0}, c \in Contents : Submit(w, r, target, c)
  \/ \E r \in Requests, s \in ReviewOutcome : BeginReview(w, r, s)
  \/ Review(w)
  \/ \E r \in Requests, c \in Contents : BeginPublish(w, r, c)
  \/ PublishDraft(w) \/ Activate(w) \/ Close(w) \/ RecordEvent(w)
  \/ Crash(w)

\* The other jobs stand still, and nothing but the entries and the job moves.
Alone(w) ==
  /\ job' \in [Jobs -> Job]
  /\ \A u \in Jobs : u # w => job'[u] = job[u]

\* Job w writes the row of entry e and holds what it wrote; before, it was idle
\* or at the named step of a publication.
Holds(w, e) ==
  /\ \A d \in Entries : d # e => entry'[d] = entry[d]
  /\ job'[w].row = RowOf(e)' /\ Exists(e)'
  /\ job'[w].request = job[w].request /\ job'[w].type = job[w].type
  /\ job'[w].content = job[w].content /\ job'[w].todo = job[w].todo
  /\ UNCHANGED <<indexed, versions, req, events, contested, reopened, failures>>

Inserts(w, e) ==
  /\ Holds(w, e) /\ ~Exists(e)
  /\ job'[w].pc = "embed" /\ entry'[e].status = "draft"
  /\ UNCHANGED disturbed
  /\ \A d \in Entries : d # e => source'[d] = source[d]
  /\ \/ job[w] = Idle /\ job'[w].next = "idle" /\ source'[e] = None
     \/ /\ job[w].pc = "draft" /\ req[job[w].request].target = 0
        /\ job'[w].next = "activate" /\ source'[e] = job[w].request
        /\ entry'[e].content = job[w].content

Rewrites(w, e) ==
  /\ Holds(w, e) /\ Exists(e)
  /\ job'[w].pc = "embed" /\ entry'[e].status = "draft"
  /\ Touch(w, {e}) /\ UNCHANGED source
  /\ \/ job[w] = Idle /\ job'[w].next = "idle"
     \/ /\ job[w].pc = "draft" /\ req[job[w].request].target = e
        /\ job'[w].next = "activate" /\ entry'[e].content = job[w].content

Restates(w, e) ==
  /\ Holds(w, e) /\ Exists(e)
  /\ job'[w].pc = "record" /\ entry'[e].content = entry[e].content
  /\ Touch(w, {e}) /\ UNCHANGED source
  /\ \/ job[w] = Idle /\ job'[w].next = "idle"
     \/ /\ job[w].pc = "activate" /\ job[w].row.entry = e
        /\ job'[w].next = "close" /\ entry'[e].status = "active"

\* The steps that leave the entries alone.
Passes(w) ==
  \/ WriteEmbedding(w) \/ RecordVersion(w) \/ Reindex(w) \/ ReindexEntry(w)
  \/ \E r \in Requests, target \in Entries \union {0}, c \in Contents : Submit(w, r, target, c)
  \/ \E r \in Requests, s \in ReviewOutcome : BeginReview(w, r, s)
  \/ Review(w)
  \/ \E r \in Requests, c \in Contents : BeginPublish(w, r, c)
  \/ Close(w) \/ RecordEvent(w) \/ Crash(w)

LEMMA NextIsAStep == Next => \E w \in Jobs : Step(w)
BY DEF Next, Step

LEMMA StepIsAlone ==
  ASSUME KInv, KInv', NEW w \in Jobs, Step(w)
  PROVE  Alone(w)
<1>1. job \in [Jobs -> Job] /\ job' \in [Jobs -> Job]
  BY DEF KInv, TypeOK
<1>2. PICK j : job' = [job EXCEPT ![w] = j]
  BY DEF Step, CreateDraft, Insert, Update, Rollback, Rewrite, SetStatus, ChangeStatus,
         WriteEmbedding, RecordVersion, Reindex, ReindexEntry, Submit, BeginReview, Review,
         BeginPublish, PublishDraft, Activate, Close, RecordEvent, Crash
<1> QED
  BY <1>1, <1>2 DEF Alone

LEMMA InsertInserts ==
  ASSUME KInv, NEW w \in Jobs, NEW c \in Contents, NEW next \in {"idle", "activate"},
         NEW r \in Requests \union {None}, Insert(w, c, next, r),
         UNCHANGED <<indexed, versions, req, events, contested, reopened, failures>>,
         \/ job[w] = Idle /\ next = "idle" /\ r = None
         \/ /\ job[w].pc = "draft" /\ req[job[w].request].target = 0
            /\ next = "activate" /\ r = job[w].request /\ c = job[w].content
  PROVE  \E e \in Entries : Inserts(w, e)
<1>0. /\ entry \in [Entries -> Entry] /\ job \in [Jobs -> Job]
      /\ source \in [Entries -> Requests \union {None}]
  BY DEF KInv, TypeOK
<1>1. PICK e \in Entries :
        /\ ~Exists(e)
        /\ entry' = [entry EXCEPT ![e] = [version |-> 1, content |-> c, status |-> "draft"]]
        /\ source' = [source EXCEPT ![e] = r]
        /\ job' = [job EXCEPT ![w] = [job[w] EXCEPT !.pc = "embed", !.next = next, !.row =
             [entry |-> e, version |-> 1, content |-> c, status |-> "draft"]]]
        /\ disturbed' = disturbed
  BY <1>0 DEF Insert
<1>2. entry'[e] = [version |-> 1, content |-> c, status |-> "draft"]
  BY <1>0, <1>1
<1>3. RowOf(e)' = [entry |-> e, version |-> 1, content |-> c, status |-> "draft"] /\ Exists(e)'
  BY <1>2 DEF RowOf, Exists, None
<1>4. job'[w] = [job[w] EXCEPT !.pc = "embed", !.next = next, !.row =
                   [entry |-> e, version |-> 1, content |-> c, status |-> "draft"]]
      /\ job[w] \in Job
  BY <1>0, <1>1
<1>5. /\ job'[w].pc = "embed" /\ job'[w].next = next /\ job'[w].row = RowOf(e)'
      /\ job'[w].request = job[w].request /\ job'[w].type = job[w].type
      /\ job'[w].content = job[w].content /\ job'[w].todo = job[w].todo
  BY <1>3, <1>4 DEF Job
<1>6. Holds(w, e)
  BY <1>0, <1>1, <1>3, <1>5 DEF Holds
<1>7. source'[e] = r /\ \A d \in Entries : d # e => source'[d] = source[d]
  BY <1>0, <1>1
<1> QED
  BY <1>1, <1>2, <1>5, <1>6, <1>7 DEF Inserts

LEMMA RewriteRewrites ==
  ASSUME KInv, NEW w \in Jobs, NEW e \in Entries, NEW c \in Contents,
         NEW next \in {"idle", "activate"}, Rewrite(w, e, c, next),
         UNCHANGED <<indexed, versions, req, events, contested, reopened, failures>>,
         \/ job[w] = Idle /\ next = "idle"
         \/ /\ job[w].pc = "draft" /\ req[job[w].request].target = e
            /\ next = "activate" /\ c = job[w].content
  PROVE  Rewrites(w, e)
<1>0. entry \in [Entries -> Entry] /\ job \in [Jobs -> Job]
  BY DEF KInv, TypeOK
<1> DEFINE new == [version |-> entry[e].version + 1, content |-> c, status |-> "draft"]
           row == [entry |-> e, version |-> entry[e].version + 1, content |-> c, status |-> "draft"]
<1>1. /\ Exists(e)
      /\ entry' = [entry EXCEPT ![e] = new]
      /\ job' = [job EXCEPT ![w] = [job[w] EXCEPT !.pc = "embed", !.next = next, !.row = row]]
      /\ Touch(w, {e}) /\ UNCHANGED source
  BY <1>0 DEF Rewrite, NextVersion
<1>2. entry'[e] = new
  BY <1>0, <1>1
<1>3. RowOf(e)' = row /\ Exists(e)'
  BY <1>2 DEF RowOf, Exists, None
<1>4. job'[w] = [job[w] EXCEPT !.pc = "embed", !.next = next, !.row = row] /\ job[w] \in Job
  BY <1>0, <1>1
<1>5. /\ job'[w].pc = "embed" /\ job'[w].next = next /\ job'[w].row = RowOf(e)'
      /\ job'[w].request = job[w].request /\ job'[w].type = job[w].type
      /\ job'[w].content = job[w].content /\ job'[w].todo = job[w].todo
  BY <1>3, <1>4 DEF Job
<1>6. Holds(w, e)
  BY <1>0, <1>1, <1>3, <1>5 DEF Holds
<1> QED
  BY <1>1, <1>2, <1>5, <1>6 DEF Rewrites

LEMMA ChangeStatusRestates ==
  ASSUME KInv, NEW w \in Jobs, NEW e \in Entries, NEW s \in EntryStatus,
         NEW next \in {"idle", "close"}, ChangeStatus(w, e, s, next),
         UNCHANGED <<indexed, versions, req, events, source, contested, reopened, failures>>,
         \/ job[w] = Idle /\ next = "idle"
         \/ job[w].pc = "activate" /\ job[w].row.entry = e /\ next = "close" /\ s = "active"
  PROVE  Restates(w, e)
<1>0. entry \in [Entries -> Entry] /\ job \in [Jobs -> Job]
  BY DEF KInv, TypeOK
<1>1. /\ Exists(e)
      /\ entry' = [entry EXCEPT ![e] = [entry[e] EXCEPT !.status = s]]
      /\ job' = [job EXCEPT ![w] = [job[w] EXCEPT !.pc = "record", !.next = next,
                                                  !.row = ReturnedRow(e, s)]]
      /\ Touch(w, {e})
  BY <1>0 DEF ChangeStatus
<1>2. /\ entry'[e].content = entry[e].content /\ entry'[e].version = entry[e].version
      /\ entry'[e].status = s
  BY <1>0, <1>1 DEF Entry
<1>3. RowOf(e)' = ReturnedRow(e, s) /\ Exists(e)'
  BY <1>2 DEF RowOf, ReturnedRow, Exists, EntryStatus, None
<1>4. job'[w] = [job[w] EXCEPT !.pc = "record", !.next = next, !.row = ReturnedRow(e, s)]
      /\ job[w] \in Job
  BY <1>0, <1>1
<1>5. /\ job'[w].pc = "record" /\ job'[w].next = next /\ job'[w].row = RowOf(e)'
      /\ job'[w].request = job[w].request /\ job'[w].type = job[w].type
      /\ job'[w].content = job[w].content /\ job'[w].todo = job[w].todo
  BY <1>3, <1>4 DEF Job
<1>6. Holds(w, e)
  BY <1>0, <1>1, <1>3, <1>5 DEF Holds
<1> QED
  BY <1>1, <1>2, <1>5, <1>6 DEF Restates

LEMMA StepKinds ==
  ASSUME KInv, NEW w \in Jobs, Step(w)
  PROVE  Passes(w) \/ \E e \in Entries : Inserts(w, e) \/ Rewrites(w, e) \/ Restates(w, e)
<1>1. ASSUME NEW c \in Contents, CreateDraft(w, c)
      PROVE  \E e \in Entries : Inserts(w, e)
  <2>1. job[w] = Idle
    BY <1>1, ReadyIdle DEF CreateDraft
  <2> QED
    BY <1>1, <2>1, InsertInserts DEF CreateDraft
<1>2. ASSUME NEW e \in Entries, NEW c \in Contents, Update(w, e, c)
      PROVE  Rewrites(w, e)
  <2>1. job[w] = Idle
    BY <1>2, ReadyIdle DEF Update
  <2> QED
    BY <1>2, <2>1, RewriteRewrites DEF Update
<1>3. ASSUME NEW v \in versions, Rollback(w, v)
      PROVE  \E e \in Entries : Rewrites(w, e)
  <2>1. job[w] = Idle /\ v.entry \in Entries /\ v.content \in Contents
    BY <1>3, ReadyIdle DEF Rollback, KInv, TypeOK, Row
  <2> QED
    BY <1>3, <2>1, RewriteRewrites DEF Rollback
<1>4. ASSUME NEW e \in Entries, NEW s \in EntryStatus, SetStatus(w, e, s)
      PROVE  Restates(w, e)
  <2>1. job[w] = Idle
    BY <1>4, ReadyIdle DEF SetStatus
  <2> QED
    BY <1>4, <2>1, ChangeStatusRestates DEF SetStatus
<1>5. CASE PublishDraft(w)
  <2>1. job[w].request \in Requests /\ job[w].content \in Contents
    BY <1>5 DEF KInv, JobShape, Shaped, PublishDraft
  <2>2. req[job[w].request].target \in Entries \union {0}
    BY <2>1 DEF KInv, TypeOK, Request
  <2>3. CASE req[job[w].request].target = 0
    BY <1>5, <2>1, <2>3, InsertInserts DEF PublishDraft
  <2>4. CASE req[job[w].request].target # 0
    BY <1>5, <2>1, <2>2, <2>4, RewriteRewrites DEF PublishDraft
  <2> QED
    BY <2>3, <2>4
<1>6. CASE Activate(w)
  <2>1. job[w].row.entry \in Entries
    BY <1>6 DEF KInv, JobShape, Shaped, Activate, Row
  <2> QED
    BY <1>6, <2>1, ChangeStatusRestates DEF Activate, PublishedStatus, EntryStatus
<1> QED
  BY <1>1, <1>2, <1>3, <1>4, <1>5, <1>6 DEF Step, Passes

-----------------------------------------------------------------------------
(* History, duties of a job, audit.                                        *)

\* What a step that passes does to the rows and the history.
LEMMA PassKeepsRows ==
  ASSUME KInv, NEW w \in Jobs, Passes(w)
  PROVE  /\ entry' = entry /\ source' = source /\ versions \subseteq versions'
         /\ disturbed \subseteq disturbed' /\ contested \subseteq contested'
         /\ reopened \subseteq reopened'
         /\ failures' = failures \/ Crash(w)
BY DEF Passes, WriteEmbedding, RecordVersion, Reindex, ReindexEntry, Submit, BeginReview, Review,
       BeginPublish, Close, RecordEvent, Crash, Touch, Contest, history

LEMMA FailuresGrow ==
  ASSUME KInv, NEW w \in Jobs, Step(w), failures' = 0
  PROVE  failures = 0 /\ ~Crash(w)
<1>1. failures \in Nat
  BY KnowledgeAssumption DEF KInv, TypeOK
<1>2. ~Crash(w)
  BY ONLY <1>1, failures' = 0 DEF Crash
<1>3. failures' = failures
  BY <1>2, StepKinds, PassKeepsRows DEF Inserts, Rewrites, Restates, Holds
<1> QED
  BY <1>2, <1>3

LEMMA HistoryKeeps ==
  ASSUME KInv, KInv', HistoryComplete, NEW w \in Jobs, Step(w)
  PROVE  HistoryComplete'
<1> SUFFICES ASSUME failures' = 0, NEW e \in Entries, Exists(e)'
             PROVE  RowOf(e)' \in versions' \/
                    \E u \in Jobs : job'[u].pc \in {"embed", "record"} /\ job'[u].row = RowOf(e)'
  BY DEF HistoryComplete
<1>1. failures = 0 /\ ~Crash(w)
  BY FailuresGrow
<1>2. Alone(w)
  BY StepIsAlone
<1>3. job[w] \in Job /\ Shaped(job[w])
  BY DEF KInv, TypeOK, JobShape
<1>4. \/ entry'[e] = entry[e] /\ versions \subseteq versions'
         /\ (job[w].pc \in {"embed", "record"} =>
               \/ job'[w].pc \in {"embed", "record"} /\ job'[w].row = job[w].row
               \/ job[w].row \in versions')
      \/ job'[w].pc \in {"embed", "record"} /\ job'[w].row = RowOf(e)'
  <2>1. CASE Passes(w)
    <3>1. entry'[e] = entry[e] /\ versions \subseteq versions'
      BY <2>1, PassKeepsRows
    <3>2. CASE WriteEmbedding(w)
      <4>1. job'[w] = [job[w] EXCEPT !.pc = "record"]
        BY <3>2 DEF WriteEmbedding, KInv, TypeOK
      <4> QED
        BY <3>1, <4>1, <1>3 DEF Job
    <3>3. CASE RecordVersion(w)
      BY <3>1, <3>3 DEF RecordVersion
    <3>4. CASE ~WriteEmbedding(w) /\ ~RecordVersion(w)
      <4>1. job[w].pc \notin {"embed", "record"}
        BY <2>1, <3>4, <1>1, ReadyIdle DEF Passes, Reindex, ReindexEntry, Submit, BeginReview, Review,
           BeginPublish, Close, RecordEvent, Ready
      <4> QED
        BY <3>1, <4>1
    <3> QED
      BY <3>2, <3>3, <3>4
  <2>2. ASSUME NEW d \in Entries, Inserts(w, d) \/ Rewrites(w, d) \/ Restates(w, d)
        PROVE  <1>4!1 \/ <1>4!2
    BY <2>2 DEF Inserts, Rewrites, Restates, Holds, Idle
  <2> QED
    BY <2>1, <2>2, StepKinds
<1>5. CASE entry'[e] # entry[e]
  BY <1>4, <1>5
<1>6. CASE entry'[e] = entry[e]
  <2>1. RowOf(e)' = RowOf(e) /\ Exists(e)
    BY <1>6 DEF RowOf, Exists
  <2>2. RowOf(e) \in versions \/
        \E u \in Jobs : job[u].pc \in {"embed", "record"} /\ job[u].row = RowOf(e)
    BY <1>1, <2>1 DEF HistoryComplete
  <2> QED
    BY <1>2, <1>4, <2>1, <2>2 DEF Alone
<1> QED
  BY <1>5, <1>6

\* What a job still has to do: it holds rows to reindex only while it does so; a
\* publication remembers what it decided, and the request it works on was submitted.
Duty(w) ==
  /\ job[w].pc # "reindex" => job[w].todo = {}
  /\ job[w].pc \in {"draft", "activate", "close"} \/ job[w].next # "idle" =>
       job[w].type = "published"
  /\ job[w].pc = "close" => job[w].next = "close"
  /\ job[w].pc = "embed" => job[w].next # "close"
  /\ job[w].pc = "activate" => job[w].next = "activate"
  /\ job[w].pc \in {"review", "draft"} => job[w].next = "idle"
  /\ job[w].pc \in {"record", "close"} /\ job[w].next = "close" => job[w].row.status = "active"
  /\ job[w].pc \in {"review", "draft", "event"} \/ job[w].next # "idle" =>
       req[job[w].request].status # None
Duties == \A w \in Jobs : Duty(w)

\* A request that was submitted stays so.
LEMMA StaysSubmitted ==
  ASSUME KInv, NEW w \in Jobs, Step(w), NEW r \in Requests, req[r].status # None
  PROVE  req'[r].status # None
<1>0. req \in [Requests -> Request] /\ req[r] \in Request /\ Shaped(job[w])
  BY DEF KInv, TypeOK, JobShape
<1>1. CASE req' = req
  BY <1>1
<1>2. CASE Review(w)
  BY <1>0, <1>2 DEF Review, Shaped, RequestStatus, ReviewOutcome, None, Request
<1>3. CASE Close(w)
  BY <1>0, <1>3 DEF Close, Shaped, RequestStatus, ReviewOutcome, None, Request
<1>4. CASE \E q \in Requests, target \in Entries \union {0}, c \in Contents : Submit(w, q, target, c)
  BY <1>0, <1>4 DEF Submit
<1> QED
  BY <1>1, <1>2, <1>3, <1>4, StepKinds
     DEF Passes, WriteEmbedding, RecordVersion, Reindex, ReindexEntry, BeginReview,
         BeginPublish, RecordEvent, Crash, Inserts, Rewrites, Restates, Holds

LEMMA DutiesKeep ==
  ASSUME KInv, KInv', Duties, NEW w \in Jobs, Step(w)
  PROVE  Duties'
<1> SUFFICES ASSUME NEW u \in Jobs PROVE Duty(u)'
  BY DEF Duties
<1>1. Alone(w) /\ job \in [Jobs -> Job]
  BY StepIsAlone DEF KInv, TypeOK
<1>2. Shaped(job[w]) /\ Shaped(job[u]) /\ Duty(u) /\ Duty(w) /\ req \in [Requests -> Request]
  BY DEF KInv, JobShape, Duties, TypeOK
<1>3. CASE u # w
  <2>1. job'[u] = job[u]
    BY <1>1, <1>3 DEF Alone
  <2>2. job[u].pc \in {"review", "draft", "event"} \/ job[u].next # "idle" =>
          req'[job[u].request].status # None
    BY <1>2, StaysSubmitted DEF Shaped, Duty
  <2> QED
    BY <1>2, <2>1, <2>2 DEF Duty
<1>4. CASE u = w
  <2>w. ASSUME NEW e \in Entries, Inserts(w, e) \/ Rewrites(w, e) \/ Restates(w, e)
        PROVE  Duty(w)'
    <3>1. req' = req
      BY <2>w DEF Inserts, Rewrites, Restates, Holds
    <3>2. job[w] = Idle => job'[w].todo = {} /\ job'[w].next = "idle"
      BY <2>w DEF Inserts, Rewrites, Restates, Holds, Idle
    <3>3. CASE job[w] = Idle
      BY <2>w, <3>2, <3>3 DEF Inserts, Rewrites, Restates, Holds, Idle, Duty
    <3>4. CASE job[w] # Idle
      BY <2>w, <3>1, <3>4, <1>2 DEF Inserts, Rewrites, Restates, Holds, Duty, RowOf
    <3> QED
      BY <3>3, <3>4
  <2>1. CASE WriteEmbedding(w)
    <3>1. job'[w] = [job[w] EXCEPT !.pc = "record"] /\ req' = req
      BY <1>1, <2>1 DEF WriteEmbedding
    <3> QED
      BY <1>1, <1>2, <2>1, <3>1 DEF Duty, WriteEmbedding, Job
  <2>2. CASE RecordVersion(w)
    <3>1. job'[w] = (IF job[w].next = "idle" THEN Idle ELSE [job[w] EXCEPT !.pc = job[w].next])
          /\ req' = req
      BY <1>1, <2>2 DEF RecordVersion
    <3> QED
      BY <1>1, <1>2, <2>2, <3>1 DEF Duty, RecordVersion, Job, Idle
  <2>3. CASE Reindex(w)
    <3>0. job[w] = Idle
      BY <2>3, ReadyIdle DEF Reindex
    <3>1. job'[w].pc = "reindex" /\ job'[w].next = "idle"
      BY <1>1, <2>3, <3>0 DEF Reindex, Idle
    <3> QED
      BY <1>4, <3>1 DEF Duty
  <2>4. CASE ReindexEntry(w)
    <3>1. PICK row \in job[w].todo :
            job'[w] = (IF job[w].todo = {row} THEN Idle ELSE [job[w] EXCEPT !.todo = @ \ {row}])
      BY <1>1, <2>4 DEF ReindexEntry
    <3>2. req' = req
      BY <2>4 DEF ReindexEntry
    <3> QED
      BY <1>1, <1>2, <2>4, <3>1, <3>2 DEF Duty, ReindexEntry, Job, Idle
  <2>5. ASSUME NEW r \in Requests, NEW target \in Entries \union {0}, NEW c \in Contents,
               Submit(w, r, target, c)
        PROVE  Duty(w)'
    <3>0. job[w] = Idle
      BY <2>5, ReadyIdle DEF Submit
    <3>1. job'[w] = [Idle EXCEPT !.pc = "event", !.request = r, !.type = "submitted"]
      BY <1>1, <2>5, <3>0 DEF Submit
    <3>2. req'[r].status # None
      BY <1>2, <2>5 DEF Submit, Request, None
    <3> QED
      BY <3>1, <3>2 DEF Duty, Idle
  <2>6. ASSUME NEW r \in Requests, NEW s \in ReviewOutcome, BeginReview(w, r, s)
        PROVE  Duty(w)'
    <3>0. job[w] = Idle
      BY <2>6, ReadyIdle DEF BeginReview
    <3>1. job'[w] = [Idle EXCEPT !.pc = "review", !.request = r, !.type = s,
                                 !.previous = req[r].status] /\ req' = req
      BY <1>1, <2>6, <3>0 DEF BeginReview
    <3> QED
      BY <3>1, <2>6 DEF Duty, Idle, BeginReview
  <2>7. CASE Review(w)
    <3>1. job'[w] = [job[w] EXCEPT !.pc = "event"]
      BY <1>1, <2>7 DEF Review
    <3>2. req'[job[w].request].status # None
      BY <1>2, <2>7, StaysSubmitted DEF Review, Shaped, Duty
    <3> QED
      BY <1>1, <1>2, <2>7, <3>1, <3>2 DEF Duty, Review, Job
  <2>8. ASSUME NEW r \in Requests, NEW c \in Contents, BeginPublish(w, r, c)
        PROVE  Duty(w)'
    <3>0. job[w] = Idle
      BY <2>8, ReadyIdle DEF BeginPublish
    <3>1. job'[w] = [Idle EXCEPT !.pc = "draft", !.request = r, !.type = "published",
                                 !.previous = req[r].status, !.content = c] /\ req' = req
      BY <1>1, <2>8, <3>0 DEF BeginPublish
    <3> QED
      BY <3>1, <2>8 DEF Duty, Idle, BeginPublish, Publishable
  <2>9. CASE Close(w)
    <3>1. job'[w] = [job[w] EXCEPT !.pc = "event"]
      BY <1>1, <2>9 DEF Close
    <3>2. req'[job[w].request].status # None
      BY <1>2, <2>9, StaysSubmitted DEF Close, Shaped, Duty
    <3> QED
      BY <1>1, <1>2, <2>9, <3>1, <3>2 DEF Duty, Close, Job
  <2>10. CASE RecordEvent(w) \/ Crash(w)
    <3>1. job'[w] = Idle
      BY <1>1, <2>10 DEF RecordEvent, Crash
    <3> QED
      BY <1>4, <3>1 DEF Duty, Idle
  <2> QED
    BY <1>4, <2>w, <2>1, <2>2, <2>3, <2>4, <2>5, <2>6, <2>7, <2>8, <2>9, <2>10, StepKinds DEF Passes
<1> QED
  BY <1>3, <1>4

LEMMA AuditKeeps ==
  ASSUME KInv, KInv', Duties, RequestAudited, NEW w \in Jobs, Step(w)
  PROVE  RequestAudited'
<1> SUFFICES ASSUME failures' = 0, NEW r \in Requests, req'[r].status # None
             PROVE  \/ \E ev \in events' : ev.request = r /\ ev.type = req'[r].status
                    \/ \E u \in Jobs : /\ job'[u].pc = "event" /\ job'[u].request = r
                                       /\ job'[u].type = req'[r].status
  BY DEF RequestAudited
<1>1. failures = 0 /\ ~Crash(w)
  BY FailuresGrow
<1>2. Alone(w) /\ job \in [Jobs -> Job] /\ req \in [Requests -> Request]
  BY StepIsAlone DEF KInv, TypeOK
<1>3. Shaped(job[w]) /\ Duty(w)
  BY DEF KInv, JobShape, Duties
<1>4. CASE job[w].pc = "event"
  <2>0. ~Ready(w) /\ job[w] # Idle
    BY <1>4 DEF Ready, Idle
  <2>1. RecordEvent(w)
    BY <1>1, <1>4, <2>0, StepKinds
       DEF Passes, WriteEmbedding, RecordVersion, Reindex, ReindexEntry, Submit, BeginReview, Review,
           BeginPublish, Close, Inserts, Rewrites, Restates
  <2>2. /\ events' = events \union {[request |-> job[w].request, type |-> job[w].type,
                                     previous |-> job[w].previous]}
        /\ req' = req
    BY <2>1 DEF RecordEvent, EventType
  <2>3. CASE \E ev \in events : ev.request = r /\ ev.type = req[r].status
    BY <2>2, <2>3
  <2>4. CASE job[w].request = r /\ job[w].type = req[r].status
    <3> DEFINE new == [request |-> job[w].request, type |-> job[w].type, previous |-> job[w].previous]
    <3>1. new \in events' /\ new.request = r /\ new.type = req'[r].status
      BY <2>2, <2>4
    <3> QED
      BY <3>1
  <2>5. CASE \E u \in Jobs : u # w /\ job[u].pc = "event" /\ job[u].request = r
                             /\ job[u].type = req[r].status
    BY <1>2, <2>2, <2>5 DEF Alone
  <2> QED
    BY <1>1, <2>2, <2>3, <2>4, <2>5 DEF RequestAudited
<1>5. CASE job[w].pc # "event" /\ req'[r].status = req[r].status
  <2>1. events \subseteq events'
    BY StepKinds, <1>1
       DEF Passes, WriteEmbedding, RecordVersion, Reindex, ReindexEntry, Submit, BeginReview, Review,
           BeginPublish, Close, RecordEvent, Inserts, Rewrites, Restates, Holds, history
  <2> QED
    BY <1>1, <1>2, <1>5, <2>1 DEF RequestAudited, Alone
<1>6. CASE req'[r].status # req[r].status
  <2>1. CASE Review(w) \/ Close(w)
    <3>1. job'[w] = [job[w] EXCEPT !.pc = "event"]
      BY <1>2, <2>1 DEF Review, Close
    <3>2. job[w].request = r /\ req'[r].status = job[w].type
      BY <1>2, <1>3, <1>6, <2>1 DEF Review, Close, Request, Duty
    <3> QED
      BY <1>2, <3>1, <3>2 DEF Job
  <2>2. ASSUME NEW q \in Requests, NEW target \in Entries \union {0}, NEW c \in Contents,
               Submit(w, q, target, c)
        PROVE  job'[w].pc = "event" /\ job'[w].request = r /\ job'[w].type = req'[r].status
    <3>1. job'[w] = [job[w] EXCEPT !.pc = "event", !.request = q, !.type = "submitted"]
      BY <1>2, <2>2 DEF Submit
    <3>2. q = r /\ req'[r].status = "submitted"
      BY <1>2, <1>6, <2>2 DEF Submit, Request
    <3> QED
      BY <1>2, <3>1, <3>2 DEF Job
  <2>3. CASE req' = req
    BY <1>6, <2>3
  <2> QED
    BY <2>1, <2>2, <2>3, StepKinds
       DEF Passes, WriteEmbedding, RecordVersion, Reindex, ReindexEntry, BeginReview,
           BeginPublish, RecordEvent, Crash, Inserts, Rewrites, Restates, Holds
<1> QED
  BY <1>4, <1>5, <1>6

-----------------------------------------------------------------------------
(* Entries only one job works on, the index and the publication.           *)

\* An entry somebody asked to change exists.
Targets == \A r \in Requests : req[r].target # 0 => Exists(req[r].target) /\ req[r].status # None

\* What is read of an entry nobody else works on is what it says.
Current ==
  \A w \in Jobs : \A v \in {job[w].row} \union job[w].todo :
    v.entry \in Entries \ disturbed => v = RowOf(v.entry)

\* Only one job works on an entry that was not disturbed.
Exclusive == \A e \in Entries \ disturbed, u, w \in Jobs : Busy(u, e) /\ Busy(w, e) => u = w

Undisturbed == Duties /\ Targets /\ Current /\ Exclusive

LEMMA StaysExisting ==
  ASSUME KInv, NEW w \in Jobs, Step(w), NEW e \in Entries, Exists(e)
  PROVE  Exists(e)'
BY StepKinds, PassKeepsRows DEF Inserts, Rewrites, Restates, Holds, Exists

LEMMA TargetsKeep ==
  ASSUME KInv, KInv', Targets, NEW w \in Jobs, Step(w)
  PROVE  Targets'
<1> SUFFICES ASSUME NEW r \in Requests, req'[r].target # 0
             PROVE  entry'[req'[r].target].status # None /\ req'[r].status # None
  BY DEF Targets, Exists
<1>1. req \in [Requests -> Request] /\ req[r] \in Request /\ req'[r] \in Request
  BY DEF KInv, TypeOK
<1>2. CASE req'[r].target = req[r].target
  <2> PICK e \in Entries : e = req[r].target
    BY <1>1, <1>2 DEF Request
  <2>1. Exists(e) /\ req[r].status # None
    BY <1>1, <1>2 DEF Targets
  <2>2. req'[r].status # None
    BY <2>1, StaysSubmitted
  <2>3. Exists(e)'
    BY <2>1, StaysExisting
  <2> QED
    BY <1>2, <2>2, <2>3 DEF Exists
<1>3. CASE req'[r].target # req[r].target
  <2>1. CASE req' = req
    BY <1>3, <2>1
  <2>2. CASE Review(w)
    BY <1>1, <1>3, <2>2 DEF Review, Request
  <2>3. CASE Close(w)
    BY <1>1, <1>3, <2>3 DEF Close, Request
  <2>4. ASSUME NEW q \in Requests, NEW target \in Entries \union {0}, NEW c \in Contents,
               Submit(w, q, target, c)
        PROVE  entry'[req'[r].target].status # None /\ req'[r].status # None
    <3>1. /\ req' = [req EXCEPT ![q] = [req[q] EXCEPT !.status = "submitted", !.target = target,
                !.proposed = c, !.seen = IF target = 0 THEN NoRow ELSE RowOf(target)]]
          /\ entry' = entry /\ (target # 0 => Exists(target))
      BY <1>1, <2>4 DEF Submit, history
    <3>2. q = r
      BY <1>1, <1>3, <3>1
    <3>3. req'[r].status = "submitted" /\ req'[r].target = target
      BY <1>1, <3>1, <3>2 DEF Request
    <3> QED
      BY <3>1, <3>3 DEF Exists, None
  <2> QED
    BY <2>1, <2>2, <2>3, <2>4, StepKinds
       DEF Passes, WriteEmbedding, RecordVersion, Reindex, ReindexEntry, BeginReview,
           BeginPublish, RecordEvent, Crash, Inserts, Rewrites, Restates, Holds
<1> QED
  BY <1>2, <1>3

LEMMA BusyExists ==
  ASSUME KInv, Targets, Duties, NEW u \in Jobs, NEW e \in Entries, Busy(u, e)
  PROVE  Exists(e)
<1>1. /\ job[u] \in Job /\ Shaped(job[u]) /\ e # 0 /\ entry[e] \in Entry
      /\ req \in [Requests -> Request]
  BY KnowledgeAssumption DEF KInv, TypeOK, JobShape
<1>2. ASSUME NEW v \in Row, v.entry = e, v = job[u].row \/ v \in job[u].todo
      PROVE  Exists(e)
    <2>1. v \in Held
      BY <1>2 DEF Held
    <2>2. v.version <= entry[e].version /\ v.version \in Nat \ {0} /\ entry[e].version \in Nat
      BY <1>1, <1>2, <2>1 DEF KInv, RowsAgree, Row, Entry
    <2> QED
      BY <2>2 DEF KInv, EntryShape
<1>3. CASE job[u].row.entry = e
  <2>1. job[u].row \in Row
    BY <1>1, <1>3 DEF Job, NoRow
  <2> QED
    BY <1>2, <1>3, <2>1
<1>4. CASE \E row \in job[u].todo : row.entry = e
  BY <1>1, <1>2, <1>4 DEF Job
<1>5. CASE job[u].pc = "draft" /\ req[job[u].request].target = e
  BY <1>1, <1>5 DEF Shaped, Targets
<1> QED
  BY <1>3, <1>4, <1>5 DEF Busy

LEMMA DisturbedGrows ==
  ASSUME KInv, NEW w \in Jobs, Step(w)
  PROVE  disturbed \subseteq disturbed'
BY StepKinds, PassKeepsRows DEF Inserts, Rewrites, Restates, Touch

\* The other jobs take up no further entry.
LEMMA OthersBusy ==
  ASSUME KInv, KInv', Duties, NEW w \in Jobs, Step(w), NEW u \in Jobs \ {w}, NEW e \in Entries, Busy(u, e)'
  PROVE  Busy(u, e)
<1>1. job'[u] = job[u] /\ Shaped(job[u]) /\ Duty(u)
  BY StepIsAlone DEF Alone, KInv, JobShape, Duties
<1>2. CASE job[u].pc = "draft" /\ req'[job[u].request].target = e
  <2>1. /\ req \in [Requests -> Request] /\ req[job[u].request] \in Request
        /\ job[u].request \in Requests /\ req[job[u].request].status # None
    BY <1>1, <1>2 DEF KInv, TypeOK, Shaped, Duty
  <2>2. req'[job[u].request].target = req[job[u].request].target
    <3>1. CASE req' = req
      BY <3>1
    <3>3. CASE Review(w)
      BY <2>1, <3>3 DEF Review, Request
    <3>4. CASE Close(w)
      BY <2>1, <3>4 DEF Close, Request
    <3>2. CASE \E q \in Requests, target \in Entries \union {0}, c \in Contents : Submit(w, q, target, c)
      BY <2>1, <3>2 DEF Submit
    <3> QED
      BY <3>1, <3>2, <3>3, <3>4, StepKinds
         DEF Passes, WriteEmbedding, RecordVersion, Reindex, ReindexEntry, BeginReview,
             BeginPublish, RecordEvent, Crash, Inserts, Rewrites, Restates, Holds
  <2> QED
    BY <1>2, <2>2 DEF Busy
<1> QED
  BY <1>1, <1>2 DEF Busy

\* A job takes up an entry only when nobody else works on it, or disturbs it.
LEMMA OwnBusy ==
  ASSUME KInv, KInv', Duties, Targets, NEW w \in Jobs, Step(w), NEW e \in Entries \ disturbed',
         Busy(w, e)', ~Busy(w, e)
  PROVE  \A u \in Jobs \ {w} : ~Busy(u, e)
<1>1. /\ job \in [Jobs -> Job] /\ job[w] \in Job /\ Shaped(job[w]) /\ e # 0
      /\ job' \in [Jobs -> Job] /\ req \in [Requests -> Request]
  BY KnowledgeAssumption DEF KInv, TypeOK, JobShape
<1>2. ASSUME NEW d \in Entries, Inserts(w, d) \/ Rewrites(w, d) \/ Restates(w, d)
      PROVE  \A u \in Jobs \ {w} : ~Busy(u, e)
  <2>1. d = e
    BY <1>2 DEF Inserts, Rewrites, Restates, Holds, Busy, RowOf
  <2>2. CASE Inserts(w, e)
    BY <2>2, BusyExists DEF Inserts
  <2>3. CASE Rewrites(w, e) \/ Restates(w, e)
    BY <2>3 DEF Rewrites, Restates, Touch
  <2> QED
    BY <1>2, <2>1, <2>2, <2>3
<1>3. CASE Reindex(w)
  <2> DEFINE rows == {RowOf(d) : d \in {d \in Entries : entry[d].status \in {"draft", "active"}}}
  <2>1. job[w] = Idle
    BY <1>3, ReadyIdle DEF Reindex
  <2>2. job'[w] = [Idle EXCEPT !.pc = "reindex", !.todo = rows] /\ Touch(w, {row.entry : row \in rows})
    BY <1>1, <1>3, <2>1 DEF Reindex
  <2>3. \E row \in rows : row.entry = e
    BY <1>1, <2>2 DEF Busy, Idle, NoRow
  <2> HIDE DEF rows
  <2> QED
    BY <2>2, <2>3 DEF Touch
<1>4. ASSUME NEW r \in Requests, NEW c \in Contents, BeginPublish(w, r, c)
      PROVE  \A u \in Jobs \ {w} : ~Busy(u, e)
  <2>1. job[w] = Idle
    BY <1>4, ReadyIdle DEF BeginPublish
  <2>2. job'[w] = [Idle EXCEPT !.pc = "draft", !.request = r, !.type = "published",
                               !.previous = req[r].status, !.content = c] /\ req' = req
        /\ Touch(w, {req[r].target} \ {0})
    BY <1>1, <1>4, <2>1 DEF BeginPublish
  <2>3. req[r].target = e
    BY <1>1, <2>2 DEF Busy, Idle, NoRow
  <2> QED
    BY <1>1, <2>2, <2>3 DEF Touch
<1>5. CASE \/ WriteEmbedding(w) \/ RecordVersion(w) \/ ReindexEntry(w)
           \/ Review(w) \/ Close(w) \/ RecordEvent(w) \/ Crash(w)
  <2>1. CASE WriteEmbedding(w)
    <3>1. job'[w] = [job[w] EXCEPT !.pc = "record"]
      BY <1>1, <2>1 DEF WriteEmbedding
    <3> QED
      BY <1>1, <3>1 DEF Busy, Job
  <2>2. CASE RecordVersion(w)
    <3>1. job'[w] = (IF job[w].next = "idle" THEN Idle ELSE [job[w] EXCEPT !.pc = job[w].next])
      BY <1>1, <2>2 DEF RecordVersion
    <3> QED
      BY <1>1, <3>1 DEF Busy, Job, Idle, NoRow
  <2>3. CASE ReindexEntry(w)
    <3>1. PICK row \in job[w].todo :
            job'[w] = (IF job[w].todo = {row} THEN Idle ELSE [job[w] EXCEPT !.todo = @ \ {row}])
      BY <1>1, <2>3 DEF ReindexEntry
    <3> QED
      BY <1>1, <2>3, <3>1 DEF Busy, Job, Idle, NoRow, ReindexEntry
  <2>4. CASE Review(w) \/ Close(w)
    <3>1. job'[w] = [job[w] EXCEPT !.pc = "event"]
      BY <1>1, <2>4 DEF Review, Close
    <3> QED
      BY <1>1, <3>1 DEF Busy, Job
  <2>5. CASE RecordEvent(w) \/ Crash(w)
    <3>1. job'[w] = Idle
      BY <1>1, <2>5 DEF RecordEvent, Crash
    <3> QED
      BY <1>1, <3>1 DEF Busy, Idle, NoRow
  <2> QED
    BY <1>5, <2>1, <2>2, <2>3, <2>4, <2>5
<1>6. ASSUME NEW r \in Requests, NEW target \in Entries \union {0}, NEW c \in Contents,
             Submit(w, r, target, c)
      PROVE  \A u \in Jobs \ {w} : ~Busy(u, e)
  <2>1. job[w] = Idle
    BY <1>6, ReadyIdle DEF Submit
  <2>2. job'[w] = [Idle EXCEPT !.pc = "event", !.request = r, !.type = "submitted"]
    BY <1>1, <1>6, <2>1 DEF Submit
  <2> QED
    BY <1>1, <2>2 DEF Busy, Idle, NoRow
<1>7. ASSUME NEW r \in Requests, NEW s \in ReviewOutcome, BeginReview(w, r, s)
      PROVE  \A u \in Jobs \ {w} : ~Busy(u, e)
  <2>1. job[w] = Idle
    BY <1>7, ReadyIdle DEF BeginReview
  <2>2. job'[w] = [Idle EXCEPT !.pc = "review", !.request = r, !.type = s, !.previous = req[r].status]
    BY <1>1, <1>7, <2>1 DEF BeginReview
  <2> QED
    BY <1>1, <2>2 DEF Busy, Idle, NoRow
<1> QED
  BY <1>2, <1>3, <1>4, <1>5, <1>6, <1>7, StepKinds DEF Passes

LEMMA ExclusiveKeeps ==
  ASSUME KInv, KInv', Undisturbed, NEW w \in Jobs, Step(w)
  PROVE  Exclusive'
<1> SUFFICES ASSUME NEW e \in Entries \ disturbed', NEW u \in Jobs, NEW v \in Jobs,
                    Busy(u, e)', Busy(v, e)', u # v, u # w
             PROVE  FALSE
  BY DEF Exclusive
<1>1. e \in Entries \ disturbed /\ Busy(u, e)
  BY DisturbedGrows, OthersBusy DEF Undisturbed
<1>2. CASE v # w
  BY <1>1, <1>2, OthersBusy DEF Undisturbed, Exclusive
<1>3. CASE v = w /\ Busy(w, e)
  BY <1>1, <1>3 DEF Undisturbed, Exclusive
<1>4. CASE v = w /\ ~Busy(w, e)
  BY <1>1, <1>4, OwnBusy DEF Undisturbed
<1> QED
  BY <1>2, <1>3, <1>4

\* What a job has in hand after a passing step it had before, or has just read.
LEMMA PassHands ==
  ASSUME KInv, KInv', NEW w \in Jobs, Passes(w),
         NEW v \in {job'[w].row} \union job'[w].todo, v.entry \in Entries
  PROVE  v \in {job[w].row} \union job[w].todo \/ v = RowOf(v.entry)
<1>1. /\ job \in [Jobs -> Job] /\ job[w] \in Job /\ 0 \notin Entries
  BY KnowledgeAssumption DEF KInv, TypeOK
<1>2. v # NoRow
  BY <1>1 DEF NoRow
<1>3. CASE Reindex(w)
  <2>0. job[w] = Idle
    BY <1>3, ReadyIdle DEF Reindex
  <2>1. job'[w] = [Idle EXCEPT !.pc = "reindex", !.todo =
                     {RowOf(d) : d \in {d \in Entries : entry[d].status \in {"draft", "active"}}}]
    BY <1>1, <1>3, <2>0 DEF Reindex
  <2> QED
    BY <1>2, <2>1 DEF Idle, RowOf
<1>4. CASE \/ \E r \in Requests, target \in Entries \union {0}, c \in Contents : Submit(w, r, target, c)
           \/ \E r \in Requests, s \in ReviewOutcome : BeginReview(w, r, s)
           \/ \E r \in Requests, c \in Contents : BeginPublish(w, r, c)
  <2>1. job'[w].row = job[w].row /\ job'[w].todo = job[w].todo
    <3>1. CASE \E r \in Requests, target \in Entries \union {0}, c \in Contents : Submit(w, r, target, c)
      BY <1>1, <3>1 DEF Submit, Job
    <3>2. CASE \E r \in Requests, s \in ReviewOutcome : BeginReview(w, r, s)
      BY <1>1, <3>2 DEF BeginReview, Job
    <3>3. CASE \E r \in Requests, c \in Contents : BeginPublish(w, r, c)
      BY <1>1, <3>3 DEF BeginPublish, Job
    <3> QED
      BY <1>4, <3>1, <3>2, <3>3
  <2> QED
    BY <2>1
<1>5. CASE WriteEmbedding(w) \/ Review(w) \/ Close(w)
  <2>1. job'[w].row = job[w].row /\ job'[w].todo = job[w].todo
    BY <1>1, <1>5 DEF WriteEmbedding, Review, Close, Job
  <2> QED
    BY <2>1
<1>6. CASE RecordVersion(w) \/ RecordEvent(w) \/ Crash(w)
  <2>1. job'[w] = Idle \/ (job'[w].row = job[w].row /\ job'[w].todo = job[w].todo)
    BY <1>1, <1>6 DEF RecordVersion, RecordEvent, Crash, Job
  <2> QED
    BY <1>2, <2>1 DEF Idle
<1>7. CASE ReindexEntry(w)
  <2>1. job'[w] = Idle \/ (job'[w].row = job[w].row /\ job'[w].todo \subseteq job[w].todo)
    BY <1>1, <1>7 DEF ReindexEntry, Job
  <2> QED
    BY <1>2, <2>1 DEF Idle
<1> QED
  BY <1>3, <1>4, <1>5, <1>6, <1>7 DEF Passes

LEMMA CurrentKeeps ==
  ASSUME KInv, KInv', Undisturbed, NEW w \in Jobs, Step(w)
  PROVE  Current'
<1> SUFFICES ASSUME NEW u \in Jobs, NEW v \in {job'[u].row} \union job'[u].todo,
                    v.entry \in Entries \ disturbed'
             PROVE  v = RowOf(v.entry)'
  BY DEF Current
<1> DEFINE e == v.entry
<1>1. Alone(w) /\ e \in Entries \ disturbed /\ e \in Entries \ disturbed'
  BY StepIsAlone, DisturbedGrows
<1>2. CASE u # w
  <2>1. v \in {job[u].row} \union job[u].todo /\ Busy(u, e)
    BY <1>1, <1>2 DEF Alone, Busy
  <2>2. v = RowOf(e)
    BY <1>1, <2>1 DEF Undisturbed, Current
  <2>3. entry'[e] = entry[e]
    <3>1. CASE Passes(w)
      BY <3>1, PassKeepsRows
    <3>2. ASSUME NEW d \in Entries, Inserts(w, d) \/ Rewrites(w, d) \/ Restates(w, d)
          PROVE  entry'[e] = entry[e]
      <4>1. d # e
        BY <1>1, <1>2, <2>1, <3>2, BusyExists
           DEF Inserts, Rewrites, Restates, Touch, Undisturbed
      <4> QED
        BY <1>1, <3>2, <4>1 DEF Inserts, Rewrites, Restates, Holds
    <3> QED
      BY <3>1, <3>2, StepKinds
  <2> QED
    BY <2>2, <2>3 DEF RowOf
<1>3. CASE u = w /\ Passes(w)
  <2>1. v = RowOf(e)
    BY <1>1, <1>3, PassHands DEF Undisturbed, Current
  <2> QED
    BY <1>3, <2>1, PassKeepsRows DEF RowOf
<1>4. ASSUME u = w, NEW d \in Entries, Inserts(w, d) \/ Rewrites(w, d) \/ Restates(w, d)
      PROVE  v = RowOf(e)'
  <2>1. job[w].todo = {}
    BY <1>4 DEF Inserts, Rewrites, Restates, Idle, Undisturbed, Duties, Duty
  <2>2. v = RowOf(d)'
    BY <1>4, <2>1 DEF Inserts, Rewrites, Restates, Holds
  <2>3. d = e
    BY <2>2 DEF RowOf
  <2> QED
    BY <2>2, <2>3
<1> QED
  BY <1>2, <1>3, <1>4, StepKinds

\* An entry whose index is behind has a job that is about to write it.
IndexAhead ==
  failures = 0 =>
    \A e \in Entries \ disturbed : Exists(e) =>
      \/ indexed[e] = entry[e].content
      \/ \E w \in Jobs : job[w].pc = "embed" /\ job[w].row.entry = e

LEMMA IndexKeeps ==
  ASSUME KInv, KInv', Undisturbed, IndexAhead, NEW w \in Jobs, Step(w)
  PROVE  IndexAhead'
<1> SUFFICES ASSUME failures' = 0, NEW e \in Entries \ disturbed', Exists(e)'
             PROVE  \/ indexed'[e] = entry'[e].content
                    \/ \E u \in Jobs : job'[u].pc = "embed" /\ job'[u].row.entry = e
  BY DEF IndexAhead
<1>1. failures = 0 /\ ~Crash(w) /\ Alone(w) /\ e \in Entries \ disturbed
  BY FailuresGrow, StepIsAlone, DisturbedGrows
<1>2. /\ job \in [Jobs -> Job] /\ job[w] \in Job /\ indexed \in [Entries -> Contents \union {None}]
      /\ Shaped(job[w])
  BY DEF KInv, TypeOK, JobShape
<1>3. Exists(e) => \/ indexed[e] = entry[e].content
                   \/ \E u \in Jobs : job[u].pc = "embed" /\ job[u].row.entry = e
  BY <1>1 DEF IndexAhead
<1>4. ASSUME NEW d \in Entries, Inserts(w, d) \/ Rewrites(w, d) \/ Restates(w, d)
      PROVE  \/ indexed'[e] = entry'[e].content
             \/ \E u \in Jobs : job'[u].pc = "embed" /\ job'[u].row.entry = e
  <2>1. indexed' = indexed /\ job'[w].row.entry = d /\ job[w].pc # "embed"
    BY <1>4 DEF Inserts, Rewrites, Restates, Holds, RowOf, Idle
  <2>2. CASE d = e /\ job'[w].pc = "embed"
    BY <2>1, <2>2
  <2>3. CASE d # e \/ job'[w].pc # "embed"
    <3>1. entry'[e].content = entry[e].content /\ Exists(e)
      BY <1>4, <2>3 DEF Inserts, Rewrites, Restates, Holds, Exists
    <3> QED
      BY <1>1, <1>3, <2>1, <3>1 DEF Alone
  <2> QED
    BY <2>2, <2>3
<1>5. CASE Passes(w)
  <2>0. entry' = entry /\ Exists(e)
    BY <1>5, PassKeepsRows DEF Exists
  <2>1. CASE WriteEmbedding(w)
    <3>1. indexed' = [indexed EXCEPT ![job[w].row.entry] = job[w].row.content]
      BY <2>1 DEF WriteEmbedding, NewIndex
    <3>2. CASE job[w].row.entry = e
      <4>1. job[w].row = RowOf(e)
        BY <1>1, <3>2 DEF Undisturbed, Current
      <4> QED
        BY <1>2, <2>0, <3>1, <3>2, <4>1 DEF RowOf
    <3>3. CASE job[w].row.entry # e
      BY <1>1, <1>2, <1>3, <2>0, <3>1, <3>3 DEF Alone
    <3> QED
      BY <3>2, <3>3
  <2>2. CASE ReindexEntry(w)
    <3>1. PICK row \in job[w].todo : indexed' = [indexed EXCEPT ![row.entry] = row.content]
      BY <2>2 DEF ReindexEntry, NewIndex
    <3>2. CASE row.entry = e
      <4>1. row = RowOf(e)
        BY <1>1, <3>1, <3>2 DEF Undisturbed, Current
      <4> QED
        BY <1>2, <2>0, <3>1, <3>2, <4>1 DEF RowOf
    <3>3. CASE row.entry # e
      <4>1. indexed'[e] = indexed[e] /\ job[w].pc # "embed"
        BY <1>2, <2>2, <3>1, <3>3 DEF ReindexEntry
      <4> QED
        BY <1>1, <1>3, <2>0, <4>1 DEF Alone
    <3> QED
      BY <3>2, <3>3
  <2>3. CASE ~WriteEmbedding(w) /\ ~ReindexEntry(w)
    <3>1. indexed' = indexed /\ (job[w].pc = "embed" => FALSE)
      BY <1>1, <1>5, <2>3
         DEF Passes, RecordVersion, Reindex, Submit, BeginReview, Review, BeginPublish, Close,
             RecordEvent, Ready
    <3> QED
      BY <1>1, <1>3, <2>0, <3>1 DEF Alone
  <2> QED
    BY <2>1, <2>2, <2>3
<1> QED
  BY <1>4, <1>5, StepKinds

LEMMA IndexAheadIsCurrent == IndexAhead => IndexCurrent
BY DEF IndexAhead, IndexCurrent, Busy

\* What a publication wrote to an entry nobody else works on is what it decided.
Decided(w) ==
  /\ job[w].pc \in {"embed", "record", "activate", "close"} /\ job[w].next # "idle"
  /\ job[w].row.entry \notin disturbed
  => job[w].row.content = job[w].content
AllDecided == \A w \in Jobs : Decided(w)

\* A passing step of a job that is publishing leaves in its hands what it had.
LEMMA PassOn ==
  ASSUME KInv, KInv', NEW w \in Jobs, Passes(w),
         job'[w].pc \in {"embed", "record", "activate", "close"}, job'[w].next # "idle"
  PROVE  /\ job'[w].row = job[w].row /\ job'[w].content = job[w].content
         /\ job'[w].request = job[w].request
         /\ job'[w].next = job[w].next
         /\ \/ WriteEmbedding(w) /\ job[w].pc = "embed" /\ job'[w].pc = "record"
            \/ RecordVersion(w) /\ job[w].pc = "record" /\ job'[w].pc = job[w].next
<1>1. job \in [Jobs -> Job] /\ job[w] \in Job
  BY DEF KInv, TypeOK
<1>2. CASE WriteEmbedding(w)
  <2>1. job'[w] = [job[w] EXCEPT !.pc = "record"] /\ job[w].pc = "embed"
    BY <1>1, <1>2 DEF WriteEmbedding
  <2> QED
    BY <1>1, <1>2, <2>1 DEF Job
<1>3. CASE RecordVersion(w)
  <2>1. job'[w] = (IF job[w].next = "idle" THEN Idle ELSE [job[w] EXCEPT !.pc = job[w].next])
        /\ job[w].pc = "record"
    BY <1>1, <1>3 DEF RecordVersion
  <2> QED
    BY <1>1, <1>3, <2>1 DEF Job, Idle
<1>4. CASE Reindex(w)
  BY <1>1, <1>4 DEF Reindex, Job
<1>5. CASE ReindexEntry(w)
  BY <1>1, <1>5 DEF ReindexEntry, Job, Idle
<1>6. CASE \E r \in Requests, target \in Entries \union {0}, c \in Contents : Submit(w, r, target, c)
  BY <1>1, <1>6 DEF Submit, Job
<1>7. CASE \E r \in Requests, s \in ReviewOutcome : BeginReview(w, r, s)
  BY <1>1, <1>7 DEF BeginReview, Job
<1>8. CASE \E r \in Requests, c \in Contents : BeginPublish(w, r, c)
  BY <1>1, <1>8 DEF BeginPublish, Job
<1>9. CASE Review(w) \/ Close(w)
  <2>1. job'[w] = [job[w] EXCEPT !.pc = "event"]
    BY <1>1, <1>9 DEF Review, Close
  <2> QED
    BY <1>1, <2>1 DEF Job
<1>10. CASE RecordEvent(w) \/ Crash(w)
  BY <1>1, <1>10 DEF RecordEvent, Crash, Idle
<1> QED
  BY <1>2, <1>3, <1>4, <1>5, <1>6, <1>7, <1>8, <1>9, <1>10 DEF Passes

LEMMA DecidedKeeps ==
  ASSUME KInv, KInv', Undisturbed, AllDecided, NEW w \in Jobs, Step(w)
  PROVE  AllDecided'
<1> SUFFICES ASSUME NEW u \in Jobs, job'[u].pc \in {"embed", "record", "activate", "close"},
                    job'[u].next # "idle", job'[u].row.entry \notin disturbed'
             PROVE  job'[u].row.content = job'[u].content
  BY DEF AllDecided, Decided
<1>1. Alone(w) /\ disturbed \subseteq disturbed'
  BY StepIsAlone, DisturbedGrows
<1>2. CASE u # w
  BY <1>1, <1>2 DEF Alone, AllDecided, Decided
<1>3. CASE u = w /\ Passes(w)
  BY <1>1, <1>3, PassOn DEF AllDecided, Decided, Undisturbed, Duties, Duty
<1>4. ASSUME u = w, NEW d \in Entries, Inserts(w, d) \/ Rewrites(w, d) \/ Restates(w, d)
      PROVE  job'[w].row.content = job'[w].content
  <2>1. job'[w].row.content = entry'[d].content /\ job'[w].content = job[w].content
        /\ job'[w].row.entry = d
    BY <1>4 DEF Inserts, Rewrites, Restates, Holds, RowOf
  <2>2. CASE Inserts(w, d) \/ Rewrites(w, d)
    BY <1>4, <2>1, <2>2 DEF Inserts, Rewrites
  <2>3. CASE Restates(w, d)
    <3>1. /\ job[w].pc = "activate" /\ job[w].row.entry = d /\ job[w].next = "activate"
          /\ entry'[d].content = entry[d].content
      BY <1>4, <2>3 DEF Restates, Undisturbed, Duties, Duty
    <3>2. d \in Entries \ disturbed
      BY <1>1, <1>4, <2>1
    <3>3. job[w].row.content = job[w].content /\ job[w].row = RowOf(d)
      BY <3>1, <3>2 DEF AllDecided, Decided, Undisturbed, Current
    <3> QED
      BY <2>1, <3>1, <3>3 DEF RowOf
  <2> QED
    BY <1>4, <2>2, <2>3
<1> QED
  BY <1>2, <1>3, <1>4, StepKinds

LEMMA GoesLive ==
  ASSUME KInv, KInv', Undisturbed, AllDecided, NEW w \in Jobs, Step(w), NEW r \in Requests, NEW u \in Jobs,
         job[u].pc = "close", job[u].request = r, job'[u].pc = "event",
         job[u].row.entry \notin disturbed
  PROVE  /\ entry[job[u].row.entry].status = "active"
         /\ entry[job[u].row.entry].content = req'[r].decided
<1>1. u = w
  BY StepIsAlone DEF Alone
<1>2. job \in [Jobs -> Job] /\ req \in [Requests -> Request] /\ req[r] \in Request
      /\ Shaped(job[u]) /\ Duty(u)
  BY DEF KInv, TypeOK, JobShape, Undisturbed, Duties
<1>3. ~Crash(w)
  BY <1>1, <1>2 DEF Crash, Idle
<1>4. Close(w)
  BY <1>1, <1>3, StepKinds
     DEF Passes, WriteEmbedding, RecordVersion, Reindex, ReindexEntry, Submit, BeginReview, Review,
         BeginPublish, RecordEvent, Ready, Inserts, Rewrites, Restates, Idle
<1>5. req'[r].decided = job[u].content
  BY <1>1, <1>2, <1>4 DEF Close, Request
<1>6. job[u].row.entry \in Entries \ disturbed
  BY <1>2 DEF Shaped, Row
<1>7. job[u].row = RowOf(job[u].row.entry) /\ job[u].row.content = job[u].content
      /\ job[u].row.status = "active"
  BY <1>2, <1>6 DEF Undisturbed, Current, AllDecided, Decided, Duty
<1> QED
  BY <1>5, <1>7 DEF RowOf

-----------------------------------------------------------------------------
(* What a published request claims, and the entries it creates.            *)

\* How far a publication's history has come by each of its steps.
Trail(w) ==
  /\ job[w].next = "activate" /\ job[w].pc \in {"embed", "record"} =>
       job[w].row.content = job[w].content
  /\ job[w].pc = "activate" \/ (job[w].next = "close" /\ job[w].pc \in {"record", "close"}) =>
       \E v \in versions : v.entry = job[w].row.entry /\ v.content = job[w].content
  /\ job[w].pc = "close" =>
       \E v \in versions : v.entry = job[w].row.entry /\ v.status = "active"
Backed == PublishedIsBacked /\ \A w \in Jobs : Trail(w)

LEMMA VersionsGrow ==
  ASSUME KInv, NEW w \in Jobs, Step(w)
  PROVE  versions \subseteq versions'
BY StepKinds, PassKeepsRows DEF Inserts, Rewrites, Restates, Holds

LEMMA BackedKeeps ==
  ASSUME KInv, KInv', Duties, Backed, NEW w \in Jobs, Step(w)
  PROVE  Backed'
<1>1. Alone(w) /\ versions \subseteq versions' /\ req \in [Requests -> Request] /\ Shaped(job[w])
      /\ job[w] \in Job
  BY StepIsAlone, VersionsGrow DEF KInv, TypeOK, JobShape
<1>2. Trail(w) /\ Duty(w)
  BY DEF Backed, Duties
<1>3. ASSUME NEW u \in Jobs PROVE Trail(u)'
  <2>1. CASE u # w
    BY <1>1, <2>1 DEF Alone, Backed, Trail
  <2>2. CASE u = w /\ Passes(w)
    <3>1. CASE job'[w].pc \in {"embed", "record", "activate", "close"} /\ job'[w].next # "idle"
      <4>1. CASE WriteEmbedding(w) /\ job[w].pc = "embed" /\ job'[w].pc = "record"
        BY <1>1, <1>2, <2>2, <3>1, <4>1, PassOn DEF Trail, Duty
      <4>2. CASE RecordVersion(w) /\ job[w].pc = "record" /\ job'[w].pc = job[w].next
        <5>1. job[w].row \in versions'
          BY <4>2 DEF RecordVersion
        <5>2. /\ job'[w].row = job[w].row /\ job'[w].content = job[w].content
              /\ job'[w].next = job[w].next
          BY <2>2, <3>1, PassOn
        <5>3. CASE job[w].next = "activate"
          BY <1>2, <2>2, <4>2, <5>1, <5>2, <5>3 DEF Trail
        <5>4. CASE job[w].next = "close"
          <6>1. \E v \in versions : v.entry = job[w].row.entry /\ v.content = job[w].content
            BY <1>2, <4>2, <5>4 DEF Trail
          <6>2. job[w].row.status = "active"
            BY <1>2, <4>2, <5>4 DEF Duty
          <6> QED
            BY <1>1, <2>2, <4>2, <5>1, <5>2, <5>4, <6>1, <6>2 DEF Trail
        <5> QED
          BY <1>1, <3>1, <5>2, <5>3, <5>4 DEF Job
      <4> QED
        BY <2>2, <3>1, <4>1, <4>2, PassOn
    <3>2. CASE job'[w].pc \notin {"embed", "record", "activate", "close"} \/ job'[w].next = "idle"
      <4>1. Duties'
        BY DutiesKeep
      <4> QED
        BY <2>2, <3>2, <4>1 DEF Trail, Duties, Duty
    <3> QED
      BY <3>1, <3>2
  <2>3. ASSUME u = w, NEW d \in Entries, Inserts(w, d) \/ Rewrites(w, d) \/ Restates(w, d)
        PROVE  Trail(w)'
    <3>1. job'[w].row.content = entry'[d].content /\ job'[w].content = job[w].content
          /\ job'[w].row.entry = d /\ versions' = versions
      BY <2>3 DEF Inserts, Rewrites, Restates, Holds, RowOf
    <3>2. CASE Inserts(w, d) \/ Rewrites(w, d)
      BY <3>1, <3>2 DEF Inserts, Rewrites, Trail
    <3>3. CASE Restates(w, d)
      BY <1>2, <3>1, <3>3 DEF Restates, Trail
    <3> QED
      BY <2>3, <3>2, <3>3
  <2> QED
    BY <2>1, <2>2, <2>3, StepKinds
<1>4. ASSUME NEW r \in Requests, req'[r].publishedEntry # 0
      PROVE  /\ \E v \in versions' : v.entry = req'[r].publishedEntry /\ v.content = req'[r].decided
             /\ \E v \in versions' : v.entry = req'[r].publishedEntry /\ v.status = "active"
  <2>0. req[r] \in Request
    BY <1>1
  <2>1. CASE /\ req'[r].publishedEntry = req[r].publishedEntry /\ req'[r].decided = req[r].decided
    BY <1>1, <1>4, <2>1 DEF Backed, PublishedIsBacked
  <2>2. CASE Close(w) /\ job[w].request = r
    <3>1. req'[r].publishedEntry = job[w].row.entry /\ req'[r].decided = job[w].content
      BY <1>1, <2>0, <2>2 DEF Close, Request
    <3> QED
      BY <1>1, <1>2, <2>2, <3>1 DEF Close, Trail, Duty
  <2>3. CASE ~(Close(w) /\ job[w].request = r)
    <3>1. CASE req' = req
      BY <2>1, <3>1
    <3>2. CASE Review(w)
      BY <1>1, <2>0, <2>1, <3>2 DEF Review, Request
    <3>3. CASE Close(w)
      BY <1>1, <2>1, <2>3, <3>3 DEF Close
    <3>4. ASSUME NEW q \in Requests, NEW target \in Entries \union {0}, NEW c \in Contents,
                 Submit(w, q, target, c)
          PROVE  req'[r].publishedEntry = req[r].publishedEntry /\ req'[r].decided = req[r].decided
      BY <1>1, <2>0, <3>4 DEF Submit, Request
    <3> QED
      BY <2>1, <3>1, <3>2, <3>3, <3>4, StepKinds
         DEF Passes, WriteEmbedding, RecordVersion, Reindex, ReindexEntry, BeginReview,
             BeginPublish, RecordEvent, Crash, Inserts, Rewrites, Restates, Holds
  <2> QED
    BY <2>2, <2>3
<1> QED
  BY <1>3, <1>4 DEF Backed, PublishedIsBacked
\* A job works on a request that was submitted, and nobody else does while the
\* request is not contested.
OneJob ==
  /\ \A w \in Jobs : job[w].request # None => req[job[w].request].status # None
  /\ \A r \in Requests \ contested, u, w \in Jobs :
       job[u].request = r /\ job[w].request = r => u = w

\* What a step does to the request of its job.
LEMMA RequestOf ==
  ASSUME KInv, KInv', NEW w \in Jobs, Step(w)
  PROVE  \/ job'[w].request \in {job[w].request, None}
         \/ \E r \in Requests : /\ job'[w].request = r /\ req'[r].status # None
                                /\ r \in contested' \/ req[r].status = None
                                   \/ \A u \in Jobs \ {w} : job[u].request # r
<1>1. job \in [Jobs -> Job] /\ job[w] \in Job /\ req \in [Requests -> Request]
  BY DEF KInv, TypeOK
<1>2. CASE Passes(w)
  <2>1. CASE WriteEmbedding(w) \/ RecordVersion(w)
    BY <1>1, <2>1 DEF WriteEmbedding, RecordVersion, Job, Idle
  <2>2. CASE Reindex(w)
    BY <1>1, <2>2 DEF Reindex, Job
  <2>8. CASE ReindexEntry(w)
    BY <1>1, <2>8 DEF ReindexEntry, Job, Idle
  <2>3. CASE Review(w) \/ Close(w)
    BY <1>1, <2>3 DEF Review, Close, Job
  <2>4. CASE RecordEvent(w) \/ Crash(w)
    BY <1>1, <2>4 DEF RecordEvent, Crash, Idle
  <2>5. ASSUME NEW r \in Requests, NEW target \in Entries \union {0}, NEW c \in Contents,
               Submit(w, r, target, c)
        PROVE  job'[w].request = r /\ req'[r].status # None /\ req[r].status = None
    BY <1>1, <2>5 DEF Submit, Job, Request, None
  <2>6. ASSUME NEW r \in Requests, NEW s \in ReviewOutcome, BeginReview(w, r, s)
        PROVE  /\ job'[w].request = r /\ req'[r].status # None
               /\ r \in contested' \/ \A u \in Jobs \ {w} : job[u].request # r
    BY <1>1, <2>6 DEF BeginReview, Job, Contest
  <2>7. ASSUME NEW r \in Requests, NEW c \in Contents, BeginPublish(w, r, c)
        PROVE  /\ job'[w].request = r /\ req'[r].status # None
               /\ r \in contested' \/ \A u \in Jobs \ {w} : job[u].request # r
    BY <1>1, <2>7 DEF BeginPublish, Publishable, Job, Contest
  <2> QED
    BY <1>2, <2>1, <2>2, <2>3, <2>4, <2>5, <2>6, <2>7, <2>8 DEF Passes
<1> QED
  BY <1>2, StepKinds DEF Inserts, Rewrites, Restates, Holds

LEMMA OneJobKeeps ==
  ASSUME KInv, KInv', OneJob, NEW w \in Jobs, Step(w)
  PROVE  OneJob'
<1>1. Alone(w) /\ job \in [Jobs -> Job] /\ contested \subseteq contested'
  BY StepIsAlone, StepKinds, PassKeepsRows DEF KInv, TypeOK, Inserts, Rewrites, Restates, Holds
<1>2. ASSUME NEW u \in Jobs, job'[u].request # None, job'[u].request = job[u].request
      PROVE  req'[job'[u].request].status # None
  <2>1. job[u].request \in Requests /\ req[job[u].request].status # None
    BY <1>1, <1>2 DEF OneJob, Job
  <2> QED
    BY <1>2, <2>1, StaysSubmitted
<1>3. \A u \in Jobs : job'[u].request # None => req'[job'[u].request].status # None
  BY <1>1, <1>2, RequestOf DEF Alone
<1>4. ASSUME NEW r \in Requests \ contested', NEW u \in Jobs \ {w},
             job'[u].request = r, job'[w].request = r
      PROVE  FALSE
  <2>1. job[u].request = r /\ r \in Requests \ contested /\ r # None
    BY <1>1, <1>4, KnowledgeAssumption DEF Alone
  <2>2. req[r].status # None
    BY <2>1 DEF OneJob
  <2>3. job[w].request = r
    BY <1>4, <2>1, <2>2, RequestOf
  <2> QED
    BY <2>1, <2>3 DEF OneJob
<1>5. ASSUME NEW r \in Requests \ contested', NEW u \in Jobs, NEW v \in Jobs,
             job'[u].request = r, job'[v].request = r
      PROVE  u = v
  BY <1>1, <1>4, <1>5 DEF Alone, OneJob
<1> QED
  BY <1>3, <1>5 DEF OneJob

\* The job that created an entry for a request and has not closed the request yet.
Creating(w, r) ==
  /\ job[w].request = r /\ job[w].next # "idle"
  /\ job[w].pc \in {"embed", "record", "activate", "close"}

OneEntry ==
  failures = 0 =>
    \A r \in Requests \ (contested \union reopened) :
      /\ \A d, e \in Entries : source[d] = r /\ source[e] = r => d = e
      /\ \A e \in Entries : source[e] = r =>
           req[r].status = "published" \/ \E w \in Jobs : Creating(w, r)
      /\ \A w \in Jobs : job[w].pc = "draft" /\ job[w].request = r =>
           \A e \in Entries : source[e] # r

\* A request stays published unless it is reviewed again.
LEMMA StaysPublished ==
  ASSUME KInv, KInv', NEW w \in Jobs, Step(w), NEW r \in Requests \ reopened', req[r].status = "published"
  PROVE  req'[r].status = "published"
<1>0. req \in [Requests -> Request] /\ req[r] \in Request
  BY DEF KInv, TypeOK
<1>1. CASE req' = req
  BY <1>1
<1>2. CASE Review(w)
  BY <1>0, <1>2 DEF Review
<1>3. CASE Close(w)
  BY <1>0, <1>3 DEF Close, Request
<1>4. CASE \E q \in Requests, target \in Entries \union {0}, c \in Contents : Submit(w, q, target, c)
  BY <1>0, <1>4 DEF Submit, None
<1> QED
  BY <1>1, <1>2, <1>3, <1>4, StepKinds
     DEF Passes, WriteEmbedding, RecordVersion, Reindex, ReindexEntry, BeginReview,
         BeginPublish, RecordEvent, Crash, Inserts, Rewrites, Restates, Holds

\* A job at work on the entry it created goes on, or closes the request.
LEMMA CreatingGoesOn ==
  ASSUME KInv, KInv', Duties, NEW w \in Jobs, Step(w), failures' = 0, NEW r \in Requests, Creating(w, r)
  PROVE  Creating(w, r)' \/ req'[r].status = "published"
<1>1. job \in [Jobs -> Job] /\ job[w] \in Job /\ req \in [Requests -> Request] /\ req[r] \in Request
  BY DEF KInv, TypeOK
<1>2. ~Ready(w) /\ ~Crash(w) /\ Duty(w) /\ job[w] # Idle
  BY FailuresGrow DEF Creating, Ready, Duties, Idle
<1>3. CASE Close(w)
  BY <1>1, <1>3 DEF Close, Creating, Request
<1>4. CASE WriteEmbedding(w)
  <2>1. job'[w] = [job[w] EXCEPT !.pc = "record"]
    BY <1>1, <1>4 DEF WriteEmbedding
  <2> QED
    BY <1>1, <2>1 DEF Creating, Job
<1>5. CASE RecordVersion(w)
  <2>1. job'[w] = [job[w] EXCEPT !.pc = job[w].next]
    BY <1>1, <1>5 DEF RecordVersion, Creating
  <2> QED
    BY <1>1, <2>1 DEF Creating, Job
<1>6. CASE \E d \in Entries : Restates(w, d)
  BY <1>2, <1>6 DEF Restates, Holds, Creating
<1> QED
  BY <1>2, <1>3, <1>4, <1>5, <1>6, StepKinds
     DEF Passes, Reindex, ReindexEntry, Submit, BeginReview, Review, BeginPublish, RecordEvent,
         Inserts, Rewrites, Creating

LEMMA OneEntryKeeps ==
  ASSUME KInv, KInv', Duties, OneJob, OneEntry, NEW w \in Jobs, Step(w)
  PROVE  OneEntry'
<1> SUFFICES ASSUME failures' = 0, NEW r \in Requests \ (contested' \union reopened')
             PROVE  /\ \A d, e \in Entries : source'[d] = r /\ source'[e] = r => d = e
                    /\ \A e \in Entries : source'[e] = r =>
                         req'[r].status = "published" \/ \E u \in Jobs : Creating(u, r)'
                    /\ \A u \in Jobs : job'[u].pc = "draft" /\ job'[u].request = r =>
                         \A e \in Entries : source'[e] # r
  BY DEF OneEntry, Creating
<1>0. contested' \subseteq Requests /\ job \in [Jobs -> Job] /\ r # None
  BY KnowledgeAssumption DEF KInv, TypeOK
<1>1. /\ Alone(w) /\ job \in [Jobs -> Job] /\ failures = 0 /\ r # None
      /\ contested \subseteq contested' /\ reopened \subseteq reopened'
  <2>1. contested \subseteq contested' /\ reopened \subseteq reopened'
    BY StepKinds, PassKeepsRows DEF Inserts, Rewrites, Restates, Holds
  <2> QED
    BY <1>0, <2>1, StepIsAlone, FailuresGrow
<1>2. r \in Requests \ (contested \union reopened)
  BY <1>1
<1>3. CASE \E d \in Entries : Inserts(w, d) /\ job[w].pc = "draft" /\ job[w].request = r
  <2> PICK d \in Entries : Inserts(w, d) /\ job[w].pc = "draft" /\ job[w].request = r
    BY <1>3
  <2>1. \A e \in Entries : source[e] # r
    BY <1>1, <1>2 DEF OneEntry
  <2>2. \A e \in Entries : source'[e] = r => e = d
    BY <2>1 DEF Inserts
  <2>3. Creating(w, r)'
    BY DEF Inserts, Holds, Creating, Idle
  <2>4. OneJob'
    BY OneJobKeeps
  <2>5. \A u \in Jobs : job'[u].request = r => u = w
    BY <2>3, <2>4 DEF OneJob, Creating
  <2>6. job'[w].pc # "draft"
    BY <2>3 DEF Creating
  <2> QED
    BY <2>2, <2>3, <2>5, <2>6
<1>4. CASE ~\E d \in Entries : Inserts(w, d) /\ job[w].pc = "draft" /\ job[w].request = r
  <2>1. \A e \in Entries : source'[e] = r => source[e] = r
    <3>1. CASE Passes(w) \/ \E d \in Entries : Rewrites(w, d) \/ Restates(w, d)
      BY <3>1, PassKeepsRows DEF Rewrites, Restates
    <3>2. ASSUME NEW d \in Entries, Inserts(w, d) PROVE \A e \in Entries : source'[e] = r => source[e] = r
      <4>1. source'[d] # r
        BY <1>1, <1>4, <3>2 DEF Inserts
      <4> QED
        BY <3>2, <4>1 DEF Inserts
    <3> QED
      BY <3>1, <3>2, StepKinds
  <2>2. \A d, e \in Entries : source'[d] = r /\ source'[e] = r => d = e
    BY <1>1, <1>2, <2>1 DEF OneEntry
  <2>3. ASSUME NEW e \in Entries, source[e] = r
        PROVE  req'[r].status = "published" \/ \E u \in Jobs : Creating(u, r)'
    <3>1. CASE req[r].status = "published"
      BY <3>1, StaysPublished
    <3>2. ASSUME NEW u \in Jobs, Creating(u, r)
          PROVE  req'[r].status = "published" \/ Creating(u, r)'
      <4>1. CASE u = w
        BY <3>2, <4>1, CreatingGoesOn
      <4>2. CASE u # w
        BY <1>1, <3>2, <4>2 DEF Alone, Creating
      <4> QED
        BY <4>1, <4>2
    <3> QED
      BY <1>1, <1>2, <2>3, <3>1, <3>2 DEF OneEntry
  <2>4. ASSUME NEW u \in Jobs, job'[u].pc = "draft", job'[u].request = r, NEW e \in Entries, source[e] = r
        PROVE  FALSE
    <3>1. CASE job[u].pc = "draft" /\ job[u].request = r
      BY <1>1, <1>2, <2>4, <3>1 DEF OneEntry
    <3>2. CASE u = w /\ \E c \in Contents : BeginPublish(w, r, c)
      <4>1. req[r].status # "published" /\ job[w] = Idle
        BY <3>2, ReadyIdle DEF BeginPublish, Publishable
      <4>2. PICK v \in Jobs : Creating(v, r)
        BY <1>1, <1>2, <2>4, <4>1 DEF OneEntry
      <4>3. v # w
        BY <4>1, <4>2 DEF Creating, Idle
      <4> QED
        BY <3>2, <4>2, <4>3 DEF BeginPublish, Contest, Creating
    <3>3. (job[u].pc = "draft" /\ job[u].request = r)
          \/ (u = w /\ \E c \in Contents : BeginPublish(w, r, c))
      <4>1. CASE u # w
        BY <1>1, <2>4, <4>1 DEF Alone
      <4>2. CASE u = w /\ ~\E q \in Requests, c \in Contents : BeginPublish(w, q, c)
        <5>1. job'[w].pc # "draft"
          <6>1. CASE WriteEmbedding(w) \/ RecordVersion(w)
            BY <1>1, <6>1 DEF WriteEmbedding, RecordVersion, Job, Idle
          <6>2. CASE Reindex(w)
            BY <1>1, <6>2 DEF Reindex, Job
          <6>7. CASE ReindexEntry(w)
            BY <1>1, <6>7 DEF ReindexEntry, Job, Idle
          <6>3. CASE Review(w) \/ Close(w)
            BY <1>1, <6>3 DEF Review, Close, Job
          <6>4. CASE RecordEvent(w) \/ Crash(w)
            BY <1>1, <6>4 DEF RecordEvent, Crash, Idle
          <6>5. CASE \E q \in Requests, target \in Entries \union {0}, c \in Contents : Submit(w, q, target, c)
            BY <1>1, <6>5 DEF Submit, Job
          <6>6. CASE \E q \in Requests, s \in ReviewOutcome : BeginReview(w, q, s)
            BY <1>1, <6>6 DEF BeginReview, Job
          <6> QED
            BY <4>2, <6>1, <6>2, <6>3, <6>4, <6>5, <6>6, <6>7, StepKinds
               DEF Passes, Inserts, Rewrites, Restates
        <5> QED
          BY <2>4, <4>2, <5>1
      <4>3. ASSUME u = w, NEW q \in Requests, NEW c \in Contents, BeginPublish(w, q, c)
            PROVE  q = r
        BY <1>1, <2>4, <4>3 DEF BeginPublish, Job
      <4> QED
        BY <4>1, <4>2, <4>3
    <3> QED
      BY <3>1, <3>2, <3>3
  <2> QED
    BY <2>1, <2>2, <2>3, <2>4
<1> QED
  BY <1>3, <1>4

LEMMA OneEntryIsOne == OneEntry => RequestCreatesOnce
<1> SUFFICES ASSUME OneEntry, failures = 0, NEW r \in Requests \ (contested \union reopened)
             PROVE  Cardinality(CreatedBy(r)) <= 1
  BY DEF RequestCreatesOnce
<1>1. \A d, e \in CreatedBy(r) : d = e
  BY DEF OneEntry, CreatedBy
<1>2. CASE CreatedBy(r) = {}
  BY <1>2, FS_EmptySet
<1>3. CASE CreatedBy(r) # {}
  <2> PICK d \in CreatedBy(r) : CreatedBy(r) = {d}
    BY <1>1, <1>3
  <2>1. Cardinality({d}) = 1
    BY FS_Singleton
  <2> QED
    BY <2>1
<1> QED
  BY <1>2, <1>3

-----------------------------------------------------------------------------
(* The whole invariant.                                                    *)

Inv ==
  /\ KInv /\ HistoryComplete /\ RequestAudited
  /\ Undisturbed /\ IndexAhead /\ AllDecided
  /\ Backed /\ OneJob /\ OneEntry

LEMMA InitInv == Init => Inv
<1> SUFFICES ASSUME Init PROVE Inv
  OBVIOUS
<1>1. KInv
  BY InitKInv
<1>2. /\ req = [r \in Requests |-> [status |-> None, target |-> 0, proposed |-> None,
                                    seen |-> NoRow, decided |-> None, publishedEntry |-> 0]]
      /\ job = [w \in Jobs |-> Idle] /\ disturbed = {}
      /\ source = [e \in Entries |-> None]
  BY DEF Init
<1>3. PICK c \in Contents :
        /\ entry = [e \in Entries |->
             IF e = 1 THEN [version |-> 1, content |-> c, status |-> "active"]
                      ELSE [version |-> 0, content |-> None, status |-> None]]
        /\ indexed = [e \in Entries |-> IF e = 1 THEN c ELSE None]
        /\ [entry |-> 1, version |-> 1, content |-> c, status |-> "active"] \in versions
  BY DEF Init
<1>4. HistoryComplete
  <2> SUFFICES ASSUME NEW e \in Entries, Exists(e) PROVE RowOf(e) \in versions
    BY DEF HistoryComplete
  <2>1. e = 1
    BY <1>3 DEF Exists
  <2>2. RowOf(e) = [entry |-> 1, version |-> 1, content |-> c, status |-> "active"]
    BY <1>3, <2>1 DEF RowOf
  <2> QED
    BY <1>3, <2>2
<1>5. RequestAudited
  BY <1>2 DEF RequestAudited
<1>6. Undisturbed
  <2>1. Duties
    BY <1>2 DEF Duties, Duty, Idle
  <2>2. Targets
    BY <1>2 DEF Targets
  <2>3. \A w \in Jobs, e \in Entries : ~Busy(w, e)
    BY <1>2, KnowledgeAssumption DEF Busy, Idle, NoRow
  <2>4. Current
    BY <1>2, KnowledgeAssumption DEF Current, Idle, NoRow
  <2> QED
    BY <2>1, <2>2, <2>3, <2>4 DEF Undisturbed, Exclusive
<1>7. IndexAhead
  BY <1>3 DEF IndexAhead, Exists
<1>8. AllDecided /\ OneJob
  BY <1>2, KnowledgeAssumption DEF AllDecided, Decided, OneJob, Idle
<1>9. Backed
  BY <1>2 DEF Backed, PublishedIsBacked, Trail, Idle
<1>10. OneEntry
  BY <1>2, KnowledgeAssumption DEF OneEntry, Idle
<1> QED
  BY <1>1, <1>4, <1>5, <1>6, <1>7, <1>8, <1>9, <1>10 DEF Inv

LEMMA StepInv ==
  ASSUME Inv, NEW w \in Jobs, Step(w)
  PROVE  Inv'
<1>1. KInv /\ KInv'
  BY NextKInv DEF Inv, Step, Next
<1>2. Duties /\ Targets
  BY DEF Inv, Undisturbed
<1>3. Undisturbed'
  BY <1>1, <1>2, DutiesKeep, TargetsKeep, CurrentKeeps, ExclusiveKeeps DEF Inv, Undisturbed
<1> QED
  BY <1>1, <1>2, <1>3, HistoryKeeps, AuditKeeps, IndexKeeps, DecidedKeeps, BackedKeeps, OneJobKeeps,
     OneEntryKeeps
     DEF Inv

LEMMA NextInv ==
  ASSUME Inv, [Next]_vars
  PROVE  Inv'
<1>1. CASE Next
  BY <1>1, NextIsAStep, StepInv
<1>2. CASE UNCHANGED vars
  <2>1. /\ entry' = entry /\ indexed' = indexed /\ versions' = versions /\ req' = req
        /\ events' = events /\ job' = job /\ source' = source /\ disturbed' = disturbed
        /\ contested' = contested /\ reopened' = reopened /\ failures' = failures
    BY <1>2 DEF vars
  <2>2. KInv'
    BY <1>2, NextKInv DEF Inv
  <2>3. HistoryComplete' /\ RequestAudited' /\ IndexAhead' /\ AllDecided'
    BY <2>1 DEF Inv, HistoryComplete, RequestAudited, IndexAhead, AllDecided, Decided, Exists, RowOf
  <2>4. Undisturbed'
    BY <2>1 DEF Inv, Undisturbed, Duties, Duty, Targets, Current, Exclusive, Exists, RowOf, Busy
  <2>5. Backed' /\ OneJob' /\ OneEntry'
    BY <2>1 DEF Inv, Backed, PublishedIsBacked, Trail, OneJob, OneEntry, Creating
  <2> QED
    BY <2>2, <2>3, <2>4, <2>5 DEF Inv
<1> QED
  BY <1>1, <1>2

LEMMA AllInvariants == Spec => []Inv
<1>1. Init => Inv
  BY InitInv
<1>2. Inv /\ [Next]_vars => Inv'
  BY NextInv
<1> QED
  BY <1>1, <1>2, PTL DEF Spec

\* As long as no request died, every state of an entry is in its history or about
\* to be recorded by the job that wrote it, whoever wrote the entry in between.
THEOREM NoStateIsForgotten == Spec => []HistoryComplete
<1>1. Inv => HistoryComplete
  BY DEF Inv
<1> QED
  BY <1>1, AllInvariants, PTL

\* The status of every change request is in its audit trail or about to be
\* recorded, however the three UPDATEs of overlapping reviewers are ordered.
THEOREM AuditFollowsRequests == Spec => []RequestAudited
<1>1. Inv => RequestAudited
  BY DEF Inv
<1> QED
  BY <1>1, AllInvariants, PTL

\* An entry no two jobs worked on together is searched by what it says, whichever
\* of the single writes and the reindex touched it last.
THEOREM IndexFollowsEntries == Spec => []IndexCurrent
<1>1. Inv => IndexCurrent
  BY IndexAheadIsCurrent DEF Inv
<1> QED
  BY <1>1, AllInvariants, PTL

\* What a published request names is in the history, crashes or not.
THEOREM PublicationIsBacked == Spec => []PublishedIsBacked
<1>1. Inv => PublishedIsBacked
  BY DEF Inv, Backed
<1> QED
  BY <1>1, AllInvariants, PTL

\* A change request nobody competed for or reopened creates at most one entry.
THEOREM OneEntryPerRequest == Spec => []RequestCreatesOnce
<1>1. Inv => RequestCreatesOnce
  BY OneEntryIsOne DEF Inv
<1> QED
  BY <1>1, AllInvariants, PTL

\* When a publication closes its request and nobody else worked on the entry, the
\* entry is live with the content that was decided.
THEOREM PublishedGoesLive == Spec => PublicationGoesLive
<1> DEFINE Live ==
      \A r \in Requests, w \in Jobs :
        /\ job[w].pc = "close" /\ job[w].request = r /\ job'[w].pc = "event"
        /\ job[w].row.entry \notin disturbed
        => /\ entry[job[w].row.entry].status = "active"
           /\ entry[job[w].row.entry].content = req'[r].decided
<1>1. Inv /\ [Next]_vars => [Live]_vars
  <2> SUFFICES ASSUME Inv, Next PROVE Live
    OBVIOUS
  <2>1. KInv'
    BY NextInv DEF Inv
  <2> QED
    BY <2>1, NextIsAStep, GoesLive DEF Inv
<1> QED
  BY <1>1, AllInvariants, PTL DEF Spec, PublicationGoesLive
=============================================================================
