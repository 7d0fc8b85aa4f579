---------------------------- MODULE CallerThreads ----------------------------
(***************************************************************************)
(* What the control plane keeps about callers (apps/hono-api/src/services: *)
(* telephony, thread-state, read-lookup, qualification, and the routes of  *)
(* routes/voice.ts): which client a dialled number belongs to, the thread  *)
(* of a caller with its structured fields, lookups folded into them, and   *)
(* the verdicts on callers by the client's threadRules.                          *)
(***************************************************************************)
EXTENDS Naturals, FiniteSets

CONSTANTS
    Tenants,     \* clients
    Numbers,     \* telephone numbers, normalised
    Identities,  \* callers, as the threads know them
    StateFields,      \* fields of a thread, also what the threadRules ask for
    VoiceJobs,   \* requests that may overlap
    MaxOps,      \* bound: requests
    NoTenant     \* none

ASSUME CallerAssumption == MaxOps \in Nat

VARIABLES
    ownerOf,     \* tenant_phone_numbers: the client of each number
    everOwned,   \* the clients it was ever registered to
    inbound,     \* calls answeredTurns: number and client
    threadSeen,  \* threads: those there are
    captured,    \* thread_states: the fields of each thread
    acknowledged,\* what the last acknowledged patch of each field said
    lostPatch,   \* the threads where a patch was written over one it had not read
    answeredTurns,    \* values the client's system gave
    threadRules,       \* icp_rules: mode and conditions of each client
    everRuled,   \* the threadRules it ever had
    verdicts,    \* lead_qualifications
    job,         \* the requests under way
    ops          \* requests so far; each value said or looked up is another

callerVars == <<ownerOf, everOwned, inbound, threadSeen, captured, acknowledged, lostPatch,
                answeredTurns, threadRules, everRuled, verdicts, job, ops>>

NumberRows == [Numbers -> Tenants \cup {NoTenant}]
Threads == Tenants \X Identities
NotNoted == [val |-> 0, from |-> "none"]
FieldValue == [val : 0..MaxOps, from : {"none", "caller", "system"}]
ThreadFields == [StateFields -> FieldValue]
NoRules == [mode |-> "all", on |-> {}]
IcpConfig == [mode : {"all", "any"}, on : SUBSET StateFields]
RuleRows == [Tenants -> IcpConfig]
Verdict == [tenant : Tenants, holds : SUBSET StateFields, qualified : BOOLEAN]
VerdictRows == SUBSET Verdict
Free == [pc |-> "free"]

CallerTypeOK ==
    /\ ownerOf \in NumberRows
    /\ everOwned \in [Numbers -> SUBSET Tenants]
    /\ inbound \subseteq [number : Numbers, tenant : Tenants]
    /\ threadSeen \subseteq Threads
    /\ captured \in [Threads -> ThreadFields] /\ acknowledged \in [Threads -> ThreadFields]
    /\ \A t \in Threads \ threadSeen : \A f \in StateFields : captured[t][f] = NotNoted
    /\ lostPatch \subseteq threadSeen /\ answeredTurns \subseteq 1..MaxOps
    /\ threadRules \in RuleRows /\ everRuled \in [Tenants -> SUBSET IcpConfig]
    /\ verdicts \in VerdictRows
    /\ \A j \in VoiceJobs :
         \/ job[j] = Free
         \/ job[j] \in [pc : {"dialled"}, number : Numbers, tenant : Tenants]
         \/ job[j] \in [pc : {"asking"}, at : Threads, field : StateFields]
         \/ job[j] \in [pc : {"read"}, at : Threads, field : StateFields, said : FieldValue,
                        got : ThreadFields, moved : BOOLEAN]
         \/ job[j] \in [pc : {"patching"}, at : Threads, field : StateFields, said : FieldValue]
         \/ job[j] \in [pc : {"judging"}, of : Tenants, holds : SUBSET StateFields, config : IcpConfig]
    /\ ops \in 0..MaxOps

CallerInit ==
    /\ ownerOf = [n \in Numbers |-> NoTenant] /\ everOwned = [n \in Numbers |-> {}]
    /\ inbound = {} /\ threadSeen = {}
    /\ captured = [t \in Threads |-> [f \in StateFields |-> NotNoted]] /\ acknowledged = captured
    /\ lostPatch = {} /\ answeredTurns = {}
    /\ threadRules = [c \in Tenants |-> NoRules] /\ everRuled = [c \in Tenants |-> {}] /\ verdicts = {}
    /\ job = [j \in VoiceJobs |-> Free] /\ ops = 0

numberVars == <<ownerOf, everOwned>>
threadVars == <<threadSeen, captured, acknowledged, lostPatch, answeredTurns>>
threadRuleVars == <<threadRules, everRuled>>
OneMore == ops < MaxOps /\ ops' = ops + 1
Becomes(j, next) == job' = [job EXCEPT ![j] = next]

\* A number is registered, or pointed at another client.
RegisterNumber(c, n) ==
    /\ OneMore
    /\ ownerOf' = [ownerOf EXCEPT ![n] = c] /\ everOwned' = [everOwned EXCEPT ![n] = @ \cup {c}]
    /\ UNCHANGED <<inbound, threadVars, threadRuleVars, verdicts, job>>

\* An inbound call: the number's client is read; a number nobody registered is
\* rejected (no client is assumed).
ResolveNumber(j, n) ==
    /\ job[j] = Free /\ ownerOf[n] # NoTenant /\ OneMore
    /\ Becomes(j, [pc |-> "dialled", number |-> n, tenant |-> ownerOf[n]])
    /\ UNCHANGED <<numberVars, inbound, threadVars, threadRuleVars, verdicts>>

StartInboundCall(j) ==
    /\ job[j].pc = "dialled" /\ Becomes(j, Free)
    /\ inbound' = inbound \cup {[number |-> job[j].number, tenant |-> job[j].tenant]}
    /\ UNCHANGED <<ops, numberVars, threadVars, threadRuleVars, verdicts>>

\* The thread of a caller is made on the first call and found on the others.
GetOrCreateThread(t) ==
    /\ t \notin threadSeen /\ threadSeen' = threadSeen \cup {t}
    /\ UNCHANGED <<ops, numberVars, inbound, captured, acknowledged, lostPatch, answeredTurns,
                   threadRuleVars, verdicts, job>>

\* The agent patches one field of the thread it talks on.
StartPatch(j, t, f) ==
    /\ job[j] = Free /\ t \in threadSeen /\ OneMore
    /\ Becomes(j, [pc |-> "patching", at |-> t, field |-> f,
                   said |-> [val |-> ops + 1, from |-> "caller"]])
    /\ UNCHANGED <<numberVars, inbound, threadSeen, captured, acknowledged, lostPatch, answeredTurns,
                   threadRuleVars, verdicts>>

\* applyStatePatch reads the fields there are ...
ReadFields(j) ==
    /\ job[j].pc = "patching"
    /\ Becomes(j, [pc |-> "read", at |-> job[j].at, field |-> job[j].field, said |-> job[j].said,
                   got |-> captured[job[j].at], moved |-> FALSE])
    /\ UNCHANGED <<ops, numberVars, inbound, threadVars, threadRuleVars, verdicts>>

\* Mutant: a field that has a value keeps it.
MergeKeeps(existing, f, said) ==
    IF existing[f] = NotNoted THEN [existing EXCEPT ![f] = said] ELSE existing
\* The patch wins in its field; the others stay as they were read.
MergeThreadFields(existing, f, said) == [existing EXCEPT ![f] = said]

\* ... and writes the merged document over what there is by then.
WriteFields(j) ==
    /\ job[j].pc = "read"
    /\ LET r == job[j] IN
       /\ captured' = [captured EXCEPT ![r.at] = MergeThreadFields(r.got, r.field, r.said)]
       /\ acknowledged' = [acknowledged EXCEPT ![r.at][r.field] = r.said]
       /\ lostPatch' = IF r.moved THEN lostPatch \cup {r.at} ELSE lostPatch
       /\ job' = [k \in VoiceJobs |->
                    IF k = j THEN Free
                    ELSE IF job[k].pc = "read" /\ job[k].at = r.at THEN [job[k] EXCEPT !.moved = TRUE]
                    ELSE job[k]]
    /\ UNCHANGED <<ops, numberVars, inbound, threadSeen, answeredTurns, threadRuleVars, verdicts>>

\* A lookup in the client's system, to be stored in a field of the thread.
StartLookup(j, t, f) ==
    /\ job[j] = Free /\ t \in threadSeen /\ OneMore
    /\ Becomes(j, [pc |-> "asking", at |-> t, field |-> f])
    /\ UNCHANGED <<numberVars, inbound, threadVars, threadRuleVars, verdicts>>

Fold(j, v) == Becomes(j, [pc |-> "patching", at |-> job[j].at, field |-> job[j].field,
                          said |-> [val |-> v, from |-> "system"]])

SystemAnswers(j) ==
    /\ job[j].pc = "asking" /\ OneMore
    /\ answeredTurns' = answeredTurns \cup {ops + 1} /\ Fold(j, ops + 1)
    /\ UNCHANGED <<numberVars, inbound, threadSeen, captured, acknowledged, lostPatch, threadRuleVars,
                   verdicts>>

\* The system degrades, or the action is refused: unknown, and nothing is stored.
LookupUnknown(j) == /\ job[j].pc = "asking" /\ Becomes(j, Free)
                    /\ UNCHANGED <<ops, numberVars, inbound, threadVars, threadRuleVars, verdicts>>

\* The threadRules of a client are replaced.
SetRules(c, mode, on) ==
    /\ OneMore
    /\ threadRules' = [threadRules EXCEPT ![c] = [mode |-> mode, on |-> on]]
    /\ everRuled' = [everRuled EXCEPT ![c] = @ \cup {[mode |-> mode, on |-> on]}]
    /\ UNCHANGED <<numberVars, inbound, threadVars, verdicts, job>>

\* All conditions, or any of them; with no threadRules nobody qualifies.
EvaluateIcp(config, holds) ==
    /\ config.on # {}
    /\ IF config.mode = "all" THEN config.on \subseteq holds ELSE config.on \cap holds # {}

\* qualify reads the threadRules, then stores the verdict by them on the fields it was given.
ReadRules(j, c, holds) ==
    /\ job[j] = Free /\ OneMore
    /\ Becomes(j, [pc |-> "judging", of |-> c, holds |-> holds, config |-> threadRules[c]])
    /\ UNCHANGED <<numberVars, inbound, threadVars, threadRuleVars, verdicts>>

Qualify(j) ==
    /\ job[j].pc = "judging" /\ Becomes(j, Free)
    /\ verdicts' = verdicts \cup {[tenant |-> job[j].of, holds |-> job[j].holds,
                                   qualified |-> EvaluateIcp(job[j].config, job[j].holds)]}
    /\ UNCHANGED <<ops, numberVars, inbound, threadVars, threadRuleVars>>

CallerNext ==
    \/ \E c \in Tenants, n \in Numbers : RegisterNumber(c, n)
    \/ \E t \in Threads : GetOrCreateThread(t)
    \/ \E c \in Tenants, mode \in {"all", "any"}, on \in SUBSET StateFields : SetRules(c, mode, on)
    \/ \E j \in VoiceJobs :
         \/ \E n \in Numbers : ResolveNumber(j, n)
         \/ StartInboundCall(j)
         \/ \E t \in Threads, f \in StateFields : StartPatch(j, t, f) \/ StartLookup(j, t, f)
         \/ ReadFields(j) \/ WriteFields(j) \/ SystemAnswers(j) \/ LookupUnknown(j)
         \/ \E c \in Tenants, holds \in SUBSET StateFields : ReadRules(j, c, holds)
         \/ Qualify(j)

CallerSpec == CallerInit /\ [][CallerNext]_callerVars

-----------------------------------------------------------------------------
\* A call belongs to a client its number was registered to, never to a client
\* assumed for want of one (startInboundCall).
NoFallbackTenant == \A call \in inbound : call.tenant \in everOwned[call.number]

\* Every field of a thread is what the last acknowledged patch of it said, unless
\* two patches of the thread overlapped (applyStatePatch).
PatchesAddUp == \A t \in Threads \ lostPatch : captured[t] = acknowledged[t]

\* What a field ascribes to the client's system the system said (read-lookup.ts).
NeverFabricated ==
    \A t \in Threads, f \in StateFields : captured[t][f].from = "system" => captured[t][f].val \in answeredTurns

\* A caller is qualified by threadRules its client had, whatever was set since.
QualifiedByARule ==
    \A v \in verdicts : v.qualified => \E config \in everRuled[v.tenant] :
        /\ v.holds \cap config.on # {}
        /\ config.mode = "all" => config.on \subseteq v.holds
=============================================================================
