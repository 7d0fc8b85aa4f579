----------------------------- MODULE ChannelAdmin -----------------------------
(***************************************************************************)
(* What the operator sets up about the channels of a client: the rules of  *)
(* automatic replies, with the seed rules of a client that has none, and   *)
(* the health of the channels (ChannelAdminService in apps/hono-api/src/   *)
(* services/channel-admin.ts and AutoReplyService of the NestJS API, which *)
(* is the one that answers).  Both services share the table and use one    *)
(* statement after the other without a transaction.  The conversations and *)
(* their ages are external.                                                *)
(***************************************************************************)
EXTENDS Naturals, FiniteSets

CONSTANTS
    Rules,        \* ids of rules
    Operators,    \* calls of the services, one under way for each
    MaxRuleOps    \* bound: calls

ASSUME RuleAssumption == MaxRuleOps \in Nat /\ IsFiniteSet(Operators)

VARIABLES
    rules,        \* client_auto_reply_rules
    edit,         \* the call each operator has under way
    told,         \* what acknowledged edits said of each rule
    mixed,        \* rules of which two edits overlapped
    seeding,      \* the seeds inserted, and whether two calls met an empty table
    answered,     \* the last automatic reply
    traffic,      \* age of the last conversation of the channel, and whether one is new
    health,       \* the health check under way or shown
    ruleOps

ruleVars == <<rules, edit, told, mixed, seeding, answered, traffic, health, ruleOps>>

-----------------------------------------------------------------------------
\* Two days of three parts each: night, day, evening.
Days == 0..1
Parts == 0..2
AnyDay == 2
Moments == [day : Days, part : Parts]
Holiday == "holiday"
OffHours == "off_hours"
RuleRow == [type : {Holiday, OffHours}, from : Days, to : Days, day : Days \cup {AnyDay},
            start : Parts, end : Parts, enabled : BOOLEAN, new : BOOLEAN]
NoRule == [type |-> "none"]
SeedRules == {[type |-> Holiday, from |-> 0, to |-> 0, day |-> AnyDay, start |-> 0, end |-> 2,
               enabled |-> FALSE, new |-> FALSE],
              [type |-> OffHours, from |-> 0, to |-> 0, day |-> AnyDay, start |-> 2, end |-> 1,
               enabled |-> FALSE, new |-> FALSE]}
Present == {r \in Rules : rules[r] # NoRule}

\* ruleMatches: a holiday by its dates; other rules by day and part, and a window
\* whose end comes before its start goes over midnight, on the days given.
RuleMatches(rule, at) ==
    IF rule.type = Holiday THEN rule.from <= at.day /\ at.day <= rule.to
    ELSE /\ rule.day \in {AnyDay, at.day}
         /\ IF rule.start <= rule.end THEN rule.start <= at.part /\ at.part < rule.end
            ELSE rule.start <= at.part \/ at.part < rule.end

NoEdit == [pc |-> "none"]
Patches == [{"type"} -> {Holiday, OffHours}] \cup [{"enabled"} -> BOOLEAN]
           \cup [{"start"} -> {0}]
HealthCheck == [pc : {"seen", "shown"}, last : {"never", "old", "recent"}, events : BOOLEAN]
NotAnswered == [rule |-> NoRule]

RuleTypeOK ==
    /\ \A r \in Rules : rules[r] = NoRule \/ rules[r] \in RuleRow
    /\ \A o \in Operators :
         \/ edit[o] = NoEdit \/ edit[o] = [pc |-> "count"]
         \/ edit[o] = [pc |-> "seed"]
         \/ edit[o] \in [pc : {"read"}, rule : Rules, patch : Patches]
         \/ edit[o] \in [pc : {"write"}, rule : Rules, patch : Patches, base : RuleRow]
    /\ told \in [Rules -> [type : {Holiday, OffHours}, enabled : BOOLEAN, start : Parts]]
    /\ mixed \subseteq Rules
    /\ seeding \in [batches : 0..Cardinality(Operators), met : BOOLEAN]
    /\ answered = NotAnswered \/ answered \in [rule : RuleRow, at : Moments, all : SUBSET RuleRow]
    /\ traffic \in [ever : BOOLEAN, recent : BOOLEAN]
    /\ health = NoEdit \/ health \in HealthCheck
    /\ ruleOps \in 0..MaxRuleOps

RuleInit ==
    /\ rules = [r \in Rules |-> NoRule] /\ edit = [o \in Operators |-> NoEdit]
    /\ told = [r \in Rules |-> [type |-> Holiday, enabled |-> FALSE, start |-> 0]]
    /\ mixed = {} /\ seeding = [batches |-> 0, met |-> FALSE] /\ answered = NotAnswered
    /\ traffic = [ever |-> FALSE, recent |-> FALSE] /\ health = NoEdit /\ ruleOps = 0

RuleOp == ruleOps < MaxRuleOps /\ ruleOps' = ruleOps + 1
Says(rule) == [type |-> rule.type, enabled |-> rule.enabled, start |-> rule.start]

-----------------------------------------------------------------------------
\* listAutoReplyRules seeds a client that has no rules: counts ...
ListRules(o) ==
    /\ RuleOp /\ edit[o] = NoEdit /\ edit' = [edit EXCEPT ![o] = [pc |-> "count"]]
    /\ UNCHANGED <<rules, told, mixed, seeding, answered, traffic, health>>

\* Mutant: the seeds are inserted whatever is there.
SeedAlways(o) ==
    /\ edit[o] = [pc |-> "count"] /\ edit' = [edit EXCEPT ![o] = [pc |-> "seed"]]
    /\ seeding' = [seeding EXCEPT !.met = @ \/ (\E p \in Operators \ {o} : edit[p] = [pc |-> "seed"])]
    /\ UNCHANGED <<rules, told, mixed, answered, traffic, health, ruleOps>>
CountRules(o) ==
    /\ edit[o] = [pc |-> "count"]
    /\ edit' = [edit EXCEPT ![o] = IF Present = {} THEN [pc |-> "seed"] ELSE NoEdit]
    /\ seeding' = [seeding EXCEPT !.met = @ \/ (\E p \in Operators \ {o} : edit[p] = [pc |-> "seed"])]
    /\ UNCHANGED <<rules, told, mixed, answered, traffic, health, ruleOps>>

\* ... and inserts them, all in one statement.
SeedRulesInserted(o) ==
    /\ edit[o] = [pc |-> "seed"]
    /\ \E ids \in [SeedRules -> Rules \ Present] :
         /\ \A a, b \in SeedRules : a # b => ids[a] # ids[b]
         /\ rules' = [r \in Rules |-> IF \E s \in SeedRules : ids[s] = r
                                      THEN CHOOSE s \in SeedRules : ids[s] = r ELSE rules[r]]
         /\ told' = [r \in Rules |-> IF \E s \in SeedRules : ids[s] = r
                                     THEN Says(CHOOSE s \in SeedRules : ids[s] = r) ELSE told[r]]
    /\ edit' = [edit EXCEPT ![o] = NoEdit]
    /\ seeding' = [seeding EXCEPT !.batches = @ + 1]
    /\ UNCHANGED <<mixed, answered, traffic, health, ruleOps>>

\* createAutoReplyRule: one statement.
CreateRule(r, type) ==
    LET rule == [type |-> type, from |-> 1, to |-> 1, day |-> 1, start |-> 0, end |-> 2,
                 enabled |-> TRUE, new |-> TRUE] IN
    /\ RuleOp /\ r \notin Present
    /\ rules' = [rules EXCEPT ![r] = rule] /\ told' = [told EXCEPT ![r] = Says(rule)]
    /\ UNCHANGED <<edit, mixed, seeding, answered, traffic, health>>

\* updateAutoReplyRule: the rule is read ...
UpdateRule(o, r, patch) ==
    /\ RuleOp /\ edit[o] = NoEdit /\ r \in Present
    /\ edit' = [edit EXCEPT ![o] = [pc |-> "read", rule |-> r, patch |-> patch]]
    /\ UNCHANGED <<rules, told, mixed, seeding, answered, traffic, health>>
FindRule(o) ==
    LET r == edit[o].rule IN
    /\ edit[o].pc = "read"
    /\ edit' = [edit EXCEPT ![o] = IF r \notin Present THEN NoEdit
                  ELSE [pc |-> "write", rule |-> r, patch |-> @.patch, base |-> rules[r]]]
    /\ mixed' = (IF \E p \in Operators : edit[p].pc = "write" /\ edit[p].rule = r
                 THEN mixed \cup {r} ELSE mixed)
    /\ UNCHANGED <<rules, told, seeding, answered, traffic, health, ruleOps>>

Merge(base, patch) ==
    [f \in DOMAIN base |-> IF f \in DOMAIN patch THEN patch[f] ELSE base[f]]
\* ruleData: the days of the week are of off-hours rules only, and in the service in
\* use the dates of holidays only (here: a holiday of the first day).
RuleData(rule) ==
    [rule EXCEPT !.day = IF rule.type = OffHours THEN rule.day ELSE AnyDay,
                 !.from = IF rule.type = Holiday THEN rule.from ELSE 0,
                 !.to = IF rule.type = Holiday THEN rule.to ELSE 0, !.new = TRUE]
RuleDataLegacy(rule) ==
    [rule EXCEPT !.day = IF rule.type = OffHours THEN rule.day ELSE AnyDay, !.new = TRUE]

\* ... completed by what the edit does not name, and written as a whole; a rule that
\* was deleted meanwhile is not found.
WriteRule(o, legacy) ==
    LET e == edit[o]
        data(rule) == IF legacy THEN RuleDataLegacy(rule) ELSE RuleData(rule) IN
    /\ e.pc = "write" /\ edit' = [edit EXCEPT ![o] = NoEdit]
    /\ IF e.rule \in Present
       THEN /\ rules' = [rules EXCEPT ![e.rule] = data(Merge(e.base, e.patch))]
            /\ told' = [told EXCEPT ![e.rule] = Merge(@, e.patch)]
       ELSE UNCHANGED <<rules, told>>
    /\ UNCHANGED <<mixed, seeding, answered, traffic, health, ruleOps>>

\* deleteAutoReplyRule: one statement; the next list of a client left without rules
\* seeds it again.
DeleteRule(r) ==
    /\ RuleOp /\ r \in Present /\ rules' = [rules EXCEPT ![r] = NoRule]
    /\ mixed' = (IF \E o \in Operators : edit[o].pc \in {"read", "write"} /\ edit[o].rule = r
                 THEN mixed \cup {r} ELSE mixed)
    /\ seeding' = (IF Present = {r} THEN [seeding EXCEPT !.batches = 0,
                     !.met = \E o \in Operators : edit[o].pc \in {"count", "seed"}] ELSE seeding)
    /\ UNCHANGED <<edit, told, answered, traffic, health>>

-----------------------------------------------------------------------------
Enabled == {r \in Present : rules[r].enabled}
\* findActiveReply: of the enabled rules that match, a holiday before other rules and
\* then the one changed last.
FindActiveReply(r, at) ==
    /\ r \in Enabled /\ RuleMatches(rules[r], at)
    /\ \A q \in Enabled : RuleMatches(rules[q], at) =>
         \/ rules[r].type = Holiday /\ rules[q].type = OffHours
         \/ rules[r].type = rules[q].type /\ (rules[r].new \/ ~rules[q].new)
    /\ answered' = [rule |-> rules[r], at |-> at, all |-> {rules[q] : q \in Enabled}]
    /\ UNCHANGED <<rules, edit, told, mixed, seeding, traffic, health, ruleOps>>

-----------------------------------------------------------------------------
\* The conversations of the channel: one comes, or a day passes without.
ConversationSeen ==
    /\ traffic' = [ever |-> TRUE, recent |-> TRUE] /\ traffic' # traffic
    /\ UNCHANGED <<rules, edit, told, mixed, seeding, answered, health, ruleOps>>
DayPasses ==
    /\ traffic.recent /\ health.pc # "seen" /\ traffic' = [traffic EXCEPT !.recent = FALSE]
    /\ UNCHANGED <<rules, edit, told, mixed, seeding, answered, health, ruleOps>>

Last == IF traffic.recent THEN "recent" ELSE IF traffic.ever THEN "old" ELSE "never"
\* getWebhookStats: the last conversation ...
ReadLastSeen ==
    /\ RuleOp /\ health.pc # "seen"
    /\ health' = [pc |-> "seen", last |-> Last, events |-> FALSE]
    /\ UNCHANGED <<rules, edit, told, mixed, seeding, answered, traffic>>

\* ... then the conversations since a day before the check began.
CountEvents ==
    /\ health.pc = "seen"
    /\ health' = [health EXCEPT !.pc = "shown", !.events = traffic.recent]
    /\ UNCHANGED <<rules, edit, told, mixed, seeding, answered, traffic, ruleOps>>

RuleNext ==
    \/ \E o \in Operators :
         \/ ListRules(o) \/ CountRules(o) \/ SeedRulesInserted(o) \/ FindRule(o)
         \/ \E r \in Rules, patch \in Patches : UpdateRule(o, r, patch)
         \/ \E legacy \in BOOLEAN : WriteRule(o, legacy)
    \/ \E r \in Rules, type \in {Holiday, OffHours} : CreateRule(r, type)
    \/ \E r \in Rules : DeleteRule(r)
    \/ \E r \in Rules, at \in Moments : FindActiveReply(r, at)
    \/ ConversationSeen \/ DayPasses \/ ReadLastSeen \/ CountEvents

RuleSpec == RuleInit /\ [][RuleNext]_ruleVars

-----------------------------------------------------------------------------
\* A client is seeded once, unless two lists met an empty table.
SeededOnce == ~seeding.met => seeding.batches <= 1

\* A rule says what the edits that were acknowledged said, of either service, unless
\* edits of it overlapped.
RuleEditsAreKept ==
    \A r \in Present \ mixed : Says(rules[r]) = told[r]

\* The reply of a rule is given only while no holiday asks for another.
HolidayComesFirst ==
    answered # NotAnswered /\ answered.rule.type = OffHours =>
        \A rule \in answered.all : rule.type = Holiday => ~RuleMatches(rule, answered.at)

\* A check that shows a conversation of the last day also counts it, whatever
\* arrived meanwhile.
RecentIsCounted ==
    health # NoEdit /\ health.pc = "shown" /\ health.last = "recent" => health.events
=============================================================================
