--------------------------- MODULE PromptProfiles ---------------------------
(* The prompt profiles of one client: the text the assistant answers with,   *)
(* its experiment variants and its version history.  Two services write the  *)
(* same two tables: apps/hono-api services/prompts.ts, statement by          *)
(* statement, and apps/api prompts/prompt-profile.service.ts, in one         *)
(* transaction per operation (read committed: a statement sees what other    *)
(* transactions have committed, a written row stays locked until commit).    *)
EXTENDS Naturals, FiniteSets, FiniteSetsExt

CONSTANTS
    Profiles,        \* prompt profile ids
    PromptConfigs,   \* [text, exp, weight]: wording, experimentEnabled, trafficWeight
    DefaultConfig,   \* the wording of createDefaultPromptProfile
    PromptRequests,  \* requests to the statement-by-statement service
    PromptTxs,       \* requests to the transactional service
    Buckets,         \* stableBucket returns 0 .. Buckets - 1 (100 in the code)
    MaxPromptVersion,  \* bound: versions of one profile
    NoProfile

ASSUME PromptAssumption ==
    /\ Buckets \in Nat \ {0}
    /\ MaxPromptVersion \in Nat \ {0}
    /\ DefaultConfig \in PromptConfigs
    /\ \A c \in PromptConfigs : c.exp \in BOOLEAN /\ c.weight \in Nat
    /\ ~DefaultConfig.exp
    /\ NoProfile \notin Profiles
    /\ PromptRequests \cap PromptTxs = {}

VARIABLES
    profiles,   \* PromptProfile rows: [status, config, version, at], status "absent" before insert
    versions,   \* PromptProfileVersion rows: [p, version, config, action]
    promptJobs, \* request -> where it stands and what it holds
    promptClock,   \* new Date(), one tick per request
    unrecorded, \* history: <<profile, version>> written by a request that failed before recordVersion
    overlapped  \* history: a publication ran while another request was writing

promptVars == <<profiles, versions, promptJobs, promptClock, unrecorded, overlapped>>

PromptHandlers == PromptRequests \cup PromptTxs
Statuses == {"absent", "draft", "active", "archived"}
Actions == {"created", "updated", "published", "archived", "rollback"}
PromptRow == [status : Statuses, config : PromptConfigs, version : Nat, at : Nat]

Version(p, row, action) ==
    [p |-> p, version |-> row.version, config |-> row.config, action |-> action]
Existing == {p \in Profiles : profiles[p].status # "absent"}
ActiveIn(rows) == {p \in Profiles : rows[p].status = "active"}

Waiting == [step |-> "idle", p |-> NoProfile, action |-> "created", exp |-> FALSE,
            now |-> 0, writes |-> [q \in {} |-> 0], records |-> {}]
Ended == [Waiting EXCEPT !.step = "done"]

\* What a statement of h sees: committed rows, and its own writes inside a transaction.
Seen(h) == [p \in Profiles |->
    IF p \in DOMAIN promptJobs[h].writes THEN promptJobs[h].writes[p] ELSE profiles[p]]
Locked(h, P) == \E g \in PromptTxs \ {h} : DOMAIN promptJobs[g].writes \cap P # {}

\* One UPDATE or INSERT of h over the rows new is defined on.
Write(h, new, job) ==
    /\ ~Locked(h, DOMAIN new)
    /\ IF h \in PromptTxs
       THEN /\ promptJobs' = [promptJobs EXCEPT ![h] =
                  [job EXCEPT !.writes = [p \in DOMAIN new \cup DOMAIN @ |->
                                            IF p \in DOMAIN new THEN new[p] ELSE @[p]]]]
            /\ UNCHANGED profiles
       ELSE /\ profiles' = [p \in Profiles |-> IF p \in DOMAIN new THEN new[p] ELSE profiles[p]]
            /\ promptJobs' = [promptJobs EXCEPT ![h] = job]

Writing(h) == promptJobs[h].step \notin {"idle", "done"}
Publishing(h) == Writing(h) /\ promptJobs[h].now > 0
Starts(h, publishes) ==
    /\ promptJobs[h].step = "idle"
    /\ promptClock' = promptClock + 1
    /\ overlapped' = (overlapped \/ \E g \in PromptHandlers \ {h} :
                          Writing(g) /\ (publishes \/ Publishing(g)))

\* Some profiles were written before, as first drafts.
PromptInit ==
    /\ profiles \in [Profiles ->
          {[status |-> "absent", config |-> DefaultConfig, version |-> 0, at |-> 0]} \cup
          {[status |-> "draft", config |-> c, version |-> 1, at |-> 0] : c \in PromptConfigs}]
    /\ versions = {Version(p, profiles[p], "created") : p \in Existing}
    /\ promptJobs = [h \in PromptHandlers |-> Waiting]
    /\ promptClock = 0
    /\ unrecorded = {}
    /\ overlapped = FALSE
-----------------------------------------------------------------------------
(* chooseExperimentProfile: among the active variants, most recently updated *)
(* first, the one whose share of the total weight the bucket falls in.       *)
Weighted(rows) == {p \in ActiveIn(rows) : rows[p].config.exp /\ rows[p].config.weight > 0}
WeightOf(rows, P) == FoldSet(LAMBDA p, acc : acc + rows[p].config.weight, 0, P)
NewestFirst(rows, p) == {q \in Weighted(rows) : rows[q].at >= rows[p].at}
FallsIn(rows, p, b) ==
    LET cursor == WeightOf(rows, NewestFirst(rows, p)) IN
    /\ b < cursor
    /\ cursor - rows[p].config.weight <= b
Chosen(rows, bucket) ==
    LET total == WeightOf(rows, Weighted(rows)) IN
    IF Cardinality(Weighted(rows)) < 2
    THEN {p \in ActiveIn(rows) : \A q \in ActiveIn(rows) : rows[q].at <= rows[p].at}
    ELSE {p \in Weighted(rows) : FallsIn(rows, p, bucket % total)}
-----------------------------------------------------------------------------

\* setStatus(active): the row is read, then the others are archived, then this one activated.
StartPublish(h, p) ==
    /\ p \in Existing
    /\ Starts(h, TRUE)
    /\ promptJobs' = [promptJobs EXCEPT ![h] =
          [@ EXCEPT !.step = "archive", !.p = p, !.action = "published",
                    !.exp = profiles[p].config.exp, !.now = promptClock + 1]]
    /\ UNCHANGED <<profiles, versions, unrecorded>>

\* Mutant: publishing a plain profile leaves the variants active.
ArchivedByPlainOnly(h, rows) ==
    {q \in ActiveIn(rows) \ {promptJobs[h].p} : ~rows[q].config.exp}
\* A publication archives the plain active profiles, and the variants too unless it is a variant.
ArchivedBy(h, rows) ==
    {q \in ActiveIn(rows) \ {promptJobs[h].p} : promptJobs[h].exp => ~rows[q].config.exp}

ArchiveOthers(h) ==
    /\ promptJobs[h].step = "archive"
    /\ LET rows == Seen(h) IN
       Write(h, [q \in ArchivedBy(h, rows) |->
                    [rows[q] EXCEPT !.status = "archived", !.at = promptJobs[h].now]],
                [promptJobs[h] EXCEPT !.step = "activate"])
    /\ UNCHANGED <<versions, promptClock, unrecorded, overlapped>>

Recording(h, p, row, action) ==
    [promptJobs[h] EXCEPT !.step = "record", !.p = p, !.records = {Version(p, row, action)}]

Activate(h) ==
    /\ promptJobs[h].step = "activate"
    /\ LET p == promptJobs[h].p
           row == IF promptJobs[h].action = "created"
                  THEN [status |-> "active", config |-> DefaultConfig, version |-> 1, at |-> promptJobs[h].now]
                  ELSE [Seen(h)[p] EXCEPT !.status = "active", !.at = promptJobs[h].now]
       IN Write(h, [q \in {p} |-> row], Recording(h, p, row, promptJobs[h].action))
    /\ UNCHANGED <<versions, promptClock, unrecorded, overlapped>>

\* setStatus(archived | draft): no other row is touched.
SetAside(h, p, status) ==
    /\ p \in Existing
    /\ Starts(h, FALSE)
    /\ LET row == [profiles[p] EXCEPT !.status = status, !.at = promptClock + 1] IN
       Write(h, [q \in {p} |-> row],
             Recording(h, p, row, IF status = "archived" THEN "archived" ELSE "updated"))
    /\ UNCHANGED <<versions, unrecorded>>

\* createDraft from the console.
CreateProfile(h, p, config) ==
    /\ p \notin Existing
    /\ \A g \in PromptHandlers : promptJobs[g].p # p   \* randomId
    /\ Starts(h, FALSE)
    /\ LET row == [status |-> "draft", config |-> config, version |-> 1, at |-> promptClock + 1] IN
       Write(h, [q \in {p} |-> row], Recording(h, p, row, "created"))
    /\ UNCHANGED <<versions, unrecorded>>

\* The UPDATE of update and rollback: new wording, back to draft, version + 1, in one statement.
Revised(p, config) ==
    [status |-> "draft", config |-> config, version |-> profiles[p].version + 1, at |-> promptClock + 1]

Edit(h, p, config) ==
    /\ p \in Existing
    /\ profiles[p].version < MaxPromptVersion
    /\ Starts(h, FALSE)
    /\ Write(h, [q \in {p} |-> Revised(p, config)], Recording(h, p, Revised(p, config), "updated"))
    /\ UNCHANGED <<versions, unrecorded>>

Rollback(h, p, v) ==
    /\ v \in versions
    /\ v.p = p
    /\ profiles[p].version < MaxPromptVersion
    /\ Starts(h, FALSE)
    /\ Write(h, [q \in {p} |-> Revised(p, v.config)], Recording(h, p, Revised(p, v.config), "rollback"))
    /\ UNCHANGED <<versions, unrecorded>>

\* getActiveForClient finds no active profile: it makes the default one, active.  With an active
\* profile it only reads (Chosen above).
AnswerWithDefault(h, p) ==
    /\ ActiveIn(profiles) = {}
    /\ p \notin Existing
    /\ \A g \in PromptHandlers : promptJobs[g].p # p
    /\ Starts(h, TRUE)
    /\ promptJobs' = [promptJobs EXCEPT ![h] =
          [@ EXCEPT !.step = "archive", !.p = p, !.action = "created", !.now = promptClock + 1]]
    /\ UNCHANGED <<profiles, versions, unrecorded>>

\* recordVersion; in a transaction, the commit that makes all of it visible.
RecordVersion(h) ==
    /\ promptJobs[h].step = "record"
    /\ versions' = versions \cup promptJobs[h].records
    /\ profiles' = Seen(h)
    /\ promptJobs' = [promptJobs EXCEPT ![h] = Ended]
    /\ UNCHANGED <<promptClock, unrecorded, overlapped>>

\* A statement fails: a transaction leaves nothing, the other service what it had written.
PromptRequestFails(h) ==
    /\ Writing(h)
    /\ promptJobs' = [promptJobs EXCEPT ![h] = Ended]
    /\ unrecorded' = IF h \in PromptTxs THEN unrecorded
                     ELSE unrecorded \cup {<<v.p, v.version>> : v \in promptJobs[h].records}
    /\ UNCHANGED <<profiles, versions, promptClock, overlapped>>

PromptNext ==
    \E h \in PromptHandlers :
        \/ \E p \in Profiles : StartPublish(h, p)
        \/ ArchiveOthers(h)
        \/ Activate(h)
        \/ \E p \in Profiles, s \in {"archived", "draft"} : SetAside(h, p, s)
        \/ \E p \in Profiles, c \in PromptConfigs : CreateProfile(h, p, c)
        \/ \E p \in Profiles, c \in PromptConfigs : Edit(h, p, c)
        \/ \E p \in Profiles : \E v \in versions : Rollback(h, p, v)
        \/ \E p \in Profiles : AnswerWithDefault(h, p)
        \/ RecordVersion(h)
        \/ PromptRequestFails(h)

PromptSpec == PromptInit /\ [][PromptNext]_promptVars
-----------------------------------------------------------------------------
(* Properties.                                                               *)

\* Rows, history and requests keep their shapes; only transactions buffer writes.
PromptTypeOK ==
    /\ profiles \in [Profiles -> PromptRow]
    /\ \A v \in versions :
          /\ v.p \in Profiles
          /\ v.version \in 1..MaxPromptVersion
          /\ v.config \in PromptConfigs
    /\ \A h \in PromptHandlers :
          /\ promptJobs[h].step \in {"idle", "archive", "activate", "record", "done"}
          /\ DOMAIN promptJobs[h].writes \subseteq Profiles
          /\ h \in PromptRequests => DOMAIN promptJobs[h].writes = {}
    /\ promptClock \in Nat

\* A version number names one wording: no two history rows of a profile with the same number differ,
\* the row itself agrees with its number, and none is ahead of the row.  A rollback relies on it.
VersionNamesOneWording ==
    \A v \in versions :
        /\ v.version <= profiles[v.p].version
        /\ v.version = profiles[v.p].version => v.config = profiles[v.p].config
        /\ \A w \in versions : w.p = v.p /\ w.version = v.version => w.config = v.config

\* Every version a profile ever had is in the history, is about to be written there by the request
\* that made it, or was made by a request of the statement-by-statement service that failed between
\* its UPDATE and recordVersion.  The transactional service never leaves such a hole.
HistoryHasNoUnexplainedHole ==
    \A p \in Profiles : \A n \in 1..profiles[p].version :
        \/ \E v \in versions : v.p = p /\ v.version = n
        \/ \E h \in PromptRequests : \E v \in promptJobs[h].records : v.p = p /\ v.version = n
        \/ <<p, n>> \in unrecorded

\* When no publication overlapped another write, the assistant has one plain active profile or only
\* experiment variants: failures between the archive and the activation may leave none, never two.
OneActiveUnlessOverlapped ==
    \/ overlapped
    \/ Cardinality(ActiveIn(profiles)) <= 1
    \/ \A p \in ActiveIn(profiles) : profiles[p].config.exp

\* While the weights of the running variants add up to at most the number of buckets, every bucket
\* is answered by exactly one profile and every variant with a weight gets some bucket.
VariantsShareTheBuckets ==
    LET total == WeightOf(profiles, Weighted(profiles)) IN
    ActiveIn(profiles) # {} /\ total <= Buckets =>
        /\ \A b \in 0..(Buckets - 1) : Cardinality(Chosen(profiles, b)) = 1
        /\ Cardinality(Weighted(profiles)) >= 2 =>
              \A p \in Weighted(profiles) : \E b \in 0..(Buckets - 1) : p \in Chosen(profiles, b)
=============================================================================
