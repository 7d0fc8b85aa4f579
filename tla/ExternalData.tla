---------------------------- MODULE ExternalData ----------------------------
(* The Google Sheet a client connects for product and order answers:         *)
(* apps/api external-data/external-data.service.ts.  A sync fetches the two  *)
(* tabs and replaces the cached rows in one READ COMMITTED transaction,      *)
(* whose statements are modelled one by one because two syncs may overlap.   *)
EXTENDS Naturals, FiniteSets

CONSTANTS
    Sources,       \* ids of ExternalDataSource rows
    Urls,          \* sheet links
    TabChoices,    \* the kinds of rows a source may have a tab for
    Editions,      \* what a sheet may hold: [rows : rows with kind, key, known; repeats : a key twice]
    Queries,       \* customer questions: [kind, keys], keys those the text matches best
    Saves, Syncs, Answers,   \* executions of saveGoogleSheetSource, syncSource, findOperationalReply
    Freshness,     \* kind -> minutes a cached row may be quoted
    MaxTime,       \* bound: minutes that pass
    MaxFaults,     \* bound: statements and fetches that fail
    NoKey, None

ASSUME SheetAssumption ==
    /\ MaxTime \in Nat /\ MaxFaults \in Nat
    /\ Freshness \in [{"product", "order"} -> Nat]
    /\ TabChoices \subseteq {{"product"}, {"product", "order"}}
    /\ \A q \in Queries : q.kind \in {"product", "order"}
    /\ IsFiniteSet(Sources)
    /\ None \notin Sources \cup Urls \cup Syncs

VARIABLES
    sources,   \* source -> its row, or None
    sheets,    \* url -> edition it holds now
    runs,      \* sync -> status of its ExternalDataSyncRun row
    records,   \* source -> cached rows: [row, by: sync that imported it, asOf: minute it was fetched]
    saveJobs, syncJobs, answerJobs,
    now, faults,
    lastRun,   \* history: source -> the sync that settled last
    overlapped \* history: sources two executions worked on at once

sheetVars == <<sources, sheets, runs, records, saveJobs, syncJobs, answerJobs, now, faults, lastRun, overlapped>>

Kinds == {"product", "order"}
\* The row of a source, as far as syncs and answers read it.  created orders the rows by createdAt.
SourceRow == [url : Urls, created : 0 .. Cardinality(Sources), tabs : TabChoices,
              lastSyncStatus : {"none", "succeeded", "failed"}, lastSuccess : 0 .. MaxTime + 1]
NeverSynced == MaxTime + 1

\* "No source" is not a row.
ASSUME NoneAssumption == None \notin SourceRow

Connected == {d \in Sources : sources[d] # None}
\* SELECT ... ORDER BY createdAt ASC LIMIT 1.
Oldest == CHOOSE d \in Connected : \A e \in Connected : sources[d].created <= sources[e].created
Existing == IF Connected = {} THEN None ELSE Oldest

IdleSave == [pc |-> "idle", url |-> None, tabs |-> {}, found |-> None]
IdleSync == [pc |-> "idle", src |-> None, url |-> None, tabs |-> {}, got |-> {}, repeats |-> FALSE,
             snapshot |-> {}, doomed |-> {}, at |-> 0]
IdleAnswer == [pc |-> "idle", query |-> None, src |-> None, late |-> FALSE]

SheetInit ==
    /\ sources = [d \in Sources |-> None]
    /\ sheets \in [Urls -> Editions]
    /\ runs = [j \in Syncs |-> "none"]
    /\ records = [d \in Sources |-> {}]
    /\ saveJobs = [j \in Saves |-> IdleSave]
    /\ syncJobs = [j \in Syncs |-> IdleSync]
    /\ answerJobs = [j \in Answers |-> IdleAnswer]
    /\ now = 0
    /\ faults = 0
    /\ lastRun = [d \in Sources |-> None]
    /\ overlapped = {}

Fault == faults < MaxFaults /\ faults' = faults + 1
-----------------------------------------------------------------------------
\* The client edits the sheet; nothing tells the service.
EditSheet(u, e) ==
    /\ sheets[u] # e
    /\ sheets' = [sheets EXCEPT ![u] = e]
    /\ UNCHANGED <<sources, runs, records, saveJobs, syncJobs, answerJobs, now, faults, lastRun, overlapped>>

\* A minute passes.  A sync does not last two, for a fetch is given up after 12 seconds, and a
\* reply reads its two tables within one.
Young(t) == t = now
Tick ==
    /\ now < MaxTime
    /\ \A j \in Syncs : syncJobs[j].pc \in {"idle", "done"} \/ Young(syncJobs[j].at)
    /\ \A j \in Answers : answerJobs[j].pc # "read"
    /\ now' = now + 1
    /\ UNCHANGED <<sources, sheets, runs, records, saveJobs, syncJobs, answerJobs, faults, lastRun, overlapped>>
-----------------------------------------------------------------------------
\* saveGoogleSheetSource: the first statement looks for a source of the client.
FindForSave(j, u, tabs) ==
    /\ saveJobs[j].pc = "idle"
    /\ saveJobs' = [saveJobs EXCEPT ![j] = [pc |-> "found", url |-> u, tabs |-> tabs, found |-> Existing]]
    /\ overlapped' = IF \E k \in Saves : saveJobs[k].pc = "found" THEN Sources ELSE overlapped
    /\ UNCHANGED <<sources, sheets, runs, records, syncJobs, answerJobs, now, faults, lastRun>>

AddsSource(found) == found = None
\* The second statement inserts a source, or overwrites the settings of the one found.
WriteSource(j) ==
    /\ saveJobs[j].pc = "found"
    /\ IF AddsSource(saveJobs[j].found)
       THEN \E d \in Sources \ Connected :
              sources' = [sources EXCEPT ![d] =
                [url |-> saveJobs[j].url, created |-> Cardinality(Connected), tabs |-> saveJobs[j].tabs,
                 lastSyncStatus |-> "none", lastSuccess |-> NeverSynced]]
       ELSE sources' = [sources EXCEPT ![saveJobs[j].found].url = saveJobs[j].url,
                                       ![saveJobs[j].found].tabs = saveJobs[j].tabs]
    /\ saveJobs' = [saveJobs EXCEPT ![j] = [IdleSave EXCEPT !.pc = "done"]]
    /\ UNCHANGED <<sheets, runs, records, syncJobs, answerJobs, now, faults, lastRun, overlapped>>
-----------------------------------------------------------------------------
Imported(e, kind) == {r \in e.rows : r.kind = kind /\ r.key # NoKey}
Working(j) == syncJobs[j].pc \notin {"idle", "done"}
InTransaction(j) == syncJobs[j].pc \in {"deleting", "deleted", "inserted"}

\* syncSource reads the source and inserts a run row that says 'running'.
StartSync(j, d) ==
    /\ syncJobs[j].pc = "idle"
    /\ d \in Connected
    /\ syncJobs' = [syncJobs EXCEPT ![j] = [IdleSync EXCEPT
                      !.pc = "products", !.src = d, !.url = sources[d].url, !.tabs = sources[d].tabs, !.at = now]]
    /\ runs' = [runs EXCEPT ![j] = "running"]
    /\ overlapped' = IF \E k \in Syncs : Working(k) /\ syncJobs[k].src = d THEN overlapped \cup {d} ELSE overlapped
    /\ UNCHANGED <<sources, sheets, records, saveJobs, answerJobs, now, faults, lastRun>>

Fetched(j, kind) ==
    {[row |-> r, by |-> j, asOf |-> now] : r \in Imported(sheets[syncJobs[j].url], kind)}
\* fetchProducts, then fetchOrders when the source has an orders tab.
FetchProducts(j) ==
    /\ syncJobs[j].pc = "products"
    /\ syncJobs' = [syncJobs EXCEPT ![j].pc = IF "order" \in syncJobs[j].tabs THEN "orders" ELSE "begin",
                                    ![j].got = Fetched(j, "product"),
                                    ![j].repeats = sheets[syncJobs[j].url].repeats]
    /\ UNCHANGED <<sources, sheets, runs, records, saveJobs, answerJobs, now, faults, lastRun, overlapped>>
FetchOrders(j) ==
    /\ syncJobs[j].pc = "orders"
    /\ syncJobs' = [syncJobs EXCEPT ![j].pc = "begin", ![j].got = @ \cup Fetched(j, "order")]
    /\ UNCHANGED <<sources, sheets, runs, records, saveJobs, answerJobs, now, faults, lastRun, overlapped>>

\* The transaction begins: its DELETE sees the rows committed by now.
BeginReplace(j) ==
    /\ syncJobs[j].pc = "begin"
    /\ syncJobs' = [syncJobs EXCEPT ![j].pc = "deleting", ![j].snapshot = records[syncJobs[j].src]]
    /\ UNCHANGED <<sources, sheets, runs, records, saveJobs, answerJobs, now, faults, lastRun, overlapped>>

\* DELETE waits for the transactions that are deleting the same rows, then skips the rows they removed.
DeleteRows(j) ==
    LET d == syncJobs[j].src
        mine == syncJobs[j].snapshot
    IN /\ syncJobs[j].pc = "deleting"
       /\ \A k \in Syncs \ {j} : InTransaction(k) => syncJobs[k].doomed \cap mine = {}
       /\ syncJobs' = [syncJobs EXCEPT ![j].pc = "deleted", ![j].doomed = mine \cap records[d]]
       /\ UNCHANGED <<sources, sheets, runs, records, saveJobs, answerJobs, now, faults, lastRun, overlapped>>

KeyOf(r) == <<r.row.kind, r.row.key>>
Clash(rows, others) == \E r \in rows, s \in others : KeyOf(r) = KeyOf(s)
UniqueViolation(j) ==
    \/ syncJobs[j].repeats
    \/ Clash(syncJobs[j].got, records[syncJobs[j].src] \ syncJobs[j].doomed)
\* Mutant: the statements run outside of a transaction.
InsertAtOnce(j) ==
    /\ syncJobs[j].pc = "deleted"
    /\ \A k \in Syncs \ {j} : ~(syncJobs[k].pc = "inserted" /\ syncJobs[k].src = syncJobs[j].src
                                /\ Clash(syncJobs[j].got, syncJobs[k].got))
    /\ syncJobs' = [syncJobs EXCEPT ![j].pc = IF UniqueViolation(j) THEN "failing" ELSE "inserted",
                                    ![j].doomed = IF UniqueViolation(j) THEN {} ELSE @]
    /\ records' = IF UniqueViolation(j) THEN records
                  ELSE [records EXCEPT ![syncJobs[j].src] = (@ \ syncJobs[j].doomed) \cup syncJobs[j].got]
    /\ UNCHANGED <<sources, sheets, runs, saveJobs, answerJobs, now, faults, lastRun, overlapped>>
\* INSERT waits for an open transaction that inserted the same key; a committed one is an error.
InsertRows(j) ==
    /\ syncJobs[j].pc = "deleted"
    /\ \A k \in Syncs \ {j} : ~(syncJobs[k].pc = "inserted" /\ syncJobs[k].src = syncJobs[j].src
                                /\ Clash(syncJobs[j].got, syncJobs[k].got))
    /\ syncJobs' = [syncJobs EXCEPT ![j].pc = IF UniqueViolation(j) THEN "failing" ELSE "inserted",
                                    ![j].doomed = IF UniqueViolation(j) THEN {} ELSE @]
    /\ UNCHANGED <<sources, sheets, runs, records, saveJobs, answerJobs, now, faults, lastRun, overlapped>>

SourceSucceeded(d) == sources' = [sources EXCEPT ![d].lastSyncStatus = "succeeded", ![d].lastSuccess = now]
\* Run and source are marked in the same transaction, which commits.
CommitReplace(j) ==
    LET d == syncJobs[j].src
    IN /\ syncJobs[j].pc = "inserted"
       /\ records' = [records EXCEPT ![d] = (@ \ syncJobs[j].doomed) \cup syncJobs[j].got]
       /\ runs' = [runs EXCEPT ![j] = "succeeded"]
       /\ SourceSucceeded(d)
       /\ lastRun' = [lastRun EXCEPT ![d] = j]
       /\ syncJobs' = [syncJobs EXCEPT ![j] = [IdleSync EXCEPT !.pc = "done", !.src = d]]
       /\ UNCHANGED <<sheets, saveJobs, answerJobs, now, faults, overlapped>>

\* A fetch or a statement fails; an open transaction is rolled back.
SyncFails(j) ==
    /\ syncJobs[j].pc \in {"products", "orders", "begin", "deleting", "deleted", "inserted"}
    /\ Fault
    /\ syncJobs' = [syncJobs EXCEPT ![j].pc = "failing", ![j].doomed = {}]
    /\ UNCHANGED <<sources, sheets, runs, records, saveJobs, answerJobs, now, lastRun, overlapped>>

FailedStatus == "failed"
\* catch: the run, then the source, each by a statement of its own.
MarkRunFailed(j) ==
    /\ syncJobs[j].pc = "failing"
    /\ runs' = [runs EXCEPT ![j] = FailedStatus]
    /\ syncJobs' = [syncJobs EXCEPT ![j].pc = "failed"]
    /\ UNCHANGED <<sources, sheets, records, saveJobs, answerJobs, now, faults, lastRun, overlapped>>
SourceFailed(d) == sources' = [sources EXCEPT ![d].lastSyncStatus = "failed"]
MarkSourceFailed(j) ==
    LET d == syncJobs[j].src
    IN /\ syncJobs[j].pc = "failed"
       /\ SourceFailed(d)
       /\ lastRun' = [lastRun EXCEPT ![d] = j]
       /\ syncJobs' = [syncJobs EXCEPT ![j] = [IdleSync EXCEPT !.pc = "done", !.src = d]]
       /\ UNCHANGED <<sheets, runs, records, saveJobs, answerJobs, now, faults, overlapped>>
\* The database refuses the marking too, or the process stops: the rows stay as they are.
MarkingFails(j) ==
    /\ syncJobs[j].pc \in {"failing", "failed"}
    /\ Fault
    /\ overlapped' = overlapped \cup {syncJobs[j].src}
    /\ syncJobs' = [syncJobs EXCEPT ![j] = [IdleSync EXCEPT !.pc = "done", !.src = syncJobs[j].src]]
    /\ UNCHANGED <<sources, sheets, runs, records, saveJobs, answerJobs, now, lastRun>>
-----------------------------------------------------------------------------
IsFresh(d, kind) == sources[d].lastSuccess # NeverSynced /\ now - sources[d].lastSuccess <= Freshness[kind]

\* The reply leaves; late: a row it quotes had been read from the sheet too long ago, and not because
\* overlapping syncs left it behind.
Say(j, quoted) ==
    answerJobs' = [answerJobs EXCEPT ![j] = [IdleAnswer EXCEPT
        !.late = answerJobs[j].src \notin overlapped /\ \E r \in quoted : now - r.asOf > Freshness[r.row.kind] + 1]]

\* findOperationalReply: the oldest active source, and whether its cache is fresh enough to look.
ReadForAnswer(j, q) ==
    /\ answerJobs[j].pc = "idle"
    /\ Connected # {}
    /\ IF IsFresh(Oldest, q.kind)
       THEN answerJobs' = [answerJobs EXCEPT ![j] = [IdleAnswer EXCEPT !.pc = "read", !.query = q, !.src = Oldest]]
       ELSE Say(j, {})      \* escalates: the data is stale
    /\ UNCHANGED <<sources, sheets, runs, records, saveJobs, syncJobs, now, faults, lastRun, overlapped>>

\* The rows are read by the next statement, whatever a sync has committed meanwhile.
LookUp(j) ==
    LET q == answerJobs[j].query
        matches == {r \in records[answerJobs[j].src] : r.row.kind = q.kind /\ r.row.key \in q.keys}
    IN /\ answerJobs[j].pc = "read"
       /\ \/ matches = {} /\ Say(j, {})                                                \* escalates: not found
          \/ Cardinality(matches) > 1 /\ q.kind = "product" /\ Say(j, matches)         \* asks which one
          \/ \E r \in matches :
               /\ Cardinality(matches) = 1 \/ q.kind = "order"
               /\ Say(j, IF r.row.known THEN {r} ELSE {})                             \* quotes its status
       /\ UNCHANGED <<sources, sheets, runs, records, saveJobs, syncJobs, now, faults, lastRun, overlapped>>

SheetNext ==
    \/ Tick
    \/ \E u \in Urls, e \in Editions : EditSheet(u, e)
    \/ \E j \in Saves, u \in Urls, tabs \in TabChoices : FindForSave(j, u, tabs)
    \/ \E j \in Saves : WriteSource(j)
    \/ \E j \in Syncs, d \in Sources : StartSync(j, d)
    \/ \E j \in Syncs :
          \/ FetchProducts(j) \/ FetchOrders(j)
          \/ BeginReplace(j) \/ DeleteRows(j) \/ InsertRows(j) \/ CommitReplace(j)
          \/ SyncFails(j) \/ MarkRunFailed(j) \/ MarkSourceFailed(j) \/ MarkingFails(j)
    \/ \E j \in Answers, q \in Queries : ReadForAnswer(j, q)
    \/ \E j \in Answers : LookUp(j)

SheetSpec == SheetInit /\ [][SheetNext]_sheetVars
-----------------------------------------------------------------------------
\* Every row has the shape the code gives it, and only connected sources have runs or cached rows.
SheetTypeOK ==
    /\ sources \in [Sources -> SourceRow \cup {None}]
    /\ sheets \in [Urls -> Editions]
    /\ runs \in [Syncs -> {"none", "running", "succeeded", "failed"}]
    /\ \A d \in Sources : records[d] # {} => d \in Connected
    /\ now \in 0 .. MaxTime /\ faults \in 0 .. MaxFaults

\* Without overlapping executions the cached rows are exactly what one successful sync fetched:
\* a failed sync keeps the previous cache whole, a successful one leaves nothing of it.
CacheIsOneImport ==
    \A d \in Sources \ overlapped :
        /\ \A r, s \in records[d] : r.by = s.by
        /\ \A r \in records[d] : runs[r.by] = "succeeded"

\* A client's settings live in one source row unless two saves overlapped.
OneSource == overlapped # Sources => Cardinality(Connected) <= 1

\* The status the portal shows on the source is that of the sync that settled last; with overlapping
\* syncs excepted, a sync that has ended is never left 'running'.
StatusOfLastRun ==
    \A d \in Connected \ overlapped :
        /\ lastRun[d] # None => sources[d].lastSyncStatus = runs[lastRun[d]]
        /\ \A j \in Syncs : syncJobs[j].pc = "done" /\ syncJobs[j].src = d => runs[j] # "running"

\* Stale data is never quoted: what a reply says was read from the sheet no longer ago than the
\* freshness limit and the minute a sync may take, unless it outlived the delete of an overlapping sync.
QuotesAreFresh == \A j \in Answers : ~answerJobs[j].late
=============================================================================
