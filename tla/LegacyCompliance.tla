-------------------------- MODULE LegacyCompliance --------------------------
(***************************************************************************)
(* The compliance record and the life cycle of a client in the legacy API  *)
(* (apps/api/src/clients: pilot-client.service, conversion-checklist       *)
(* .service): agreement (DPA) and retention policy are two parts of one    *)
(* JSON document that every update reads, changes and writes back; the     *)
(* cleanup redacts messages by the policy it read; the checklist judges    *)
(* how long a client has been live.                                        *)
(***************************************************************************)
EXTENDS Naturals

CONSTANTS
    MaxDay,         \* bound: days; a message is written on each
    PolicyDays,     \* the days a policy may keep messages
    LiveDays,       \* days live before the checklist counts it
    ComplianceJobs, \* requests that may overlap
    MaxUpdates      \* bound: updates

ASSUME ComplianceAssumption ==
    /\ MaxDay \in Nat /\ PolicyDays \subseteq Nat /\ LiveDays \in Nat /\ MaxUpdates \in Nat
    /\ \E d \in PolicyDays : \A e \in PolicyDays : d >= e

VARIABLES
    day,         \* today
    dpa,         \* complianceProfile.dpa: which update wrote it
    policy,      \* complianceProfile.retention: mode and days
    storedDpa,   \* the last acknowledged of each
    storedPolicy,
    everPolicy,  \* the policies there were
    overlap,     \* two updates of the document overlapped
    redactedOn,  \* of the message written on each day: the day it was; 0 for not
    lifeStage,   \* lifecycleStage
    stagedOn,    \* the day it became so
    updatedAt,   \* the row's updatedAt
    cjob,        \* the requests under way
    updates      \* updates so far

complianceVars == <<day, dpa, policy, storedDpa, storedPolicy, everPolicy, overlap, redactedOn,
                    lifeStage, stagedOn, updatedAt, cjob, updates>>

Days == 0..MaxDay
Policy == [mode : {"disabled", "redact"}, days : PolicyDays]
Default == [mode |-> "disabled", days |-> CHOOSE d \in PolicyDays : \A e \in PolicyDays : d >= e]
\* The agreement is known by the update that signed or changed it.
DpaProfiles == 0..MaxUpdates
Resting == [pc |-> "idle"]

ComplianceTypeOK ==
    /\ day \in Days /\ dpa \in DpaProfiles /\ policy \in Policy
    /\ storedDpa \in DpaProfiles /\ storedPolicy \in Policy
    /\ everPolicy \subseteq Policy /\ policy \in everPolicy /\ overlap \in BOOLEAN
    /\ \A d \in Days : redactedOn[d] \in 0..day
    /\ lifeStage \in {"shadow", "live"} /\ stagedOn \in 0..day /\ updatedAt \in 0..day
    /\ \A j \in ComplianceJobs :
         \/ cjob[j] = Resting
         \/ cjob[j] \in [pc : {"dpa", "policy", "cleanup", "cleaned"}, dpa : DpaProfiles,
                         policy : Policy, new : Policy, n : 0..MaxUpdates, stale : BOOLEAN]
    /\ updates \in 0..MaxUpdates

ComplianceInit ==
    /\ day = 0 /\ dpa = 0 /\ policy = Default /\ storedDpa = 0 /\ storedPolicy = Default
    /\ everPolicy = {Default} /\ overlap = FALSE /\ redactedOn = [d \in Days |-> 0]
    /\ lifeStage = "shadow" /\ stagedOn = 0 /\ updatedAt = 0
    /\ cjob = [j \in ComplianceJobs |-> Resting] /\ updates = 0

documentVars == <<dpa, policy, storedDpa, storedPolicy, everPolicy, overlap>>
stageVars == <<lifeStage, stagedOn>>

NextDay == /\ day < MaxDay /\ day' = day + 1
           /\ UNCHANGED <<documentVars, redactedOn, stageVars, updatedAt, cjob, updates>>

\* An update of the document reads it first.
ReadDocument(j, pc, new) ==
    /\ cjob[j] = Resting /\ updates < MaxUpdates /\ updates' = updates + 1
    /\ cjob' = [cjob EXCEPT ![j] = [pc |-> pc, dpa |-> dpa, policy |-> policy, new |-> new,
                                    n |-> updates + 1, stale |-> FALSE]]
    /\ UNCHANGED <<day, documentVars, redactedOn, stageVars, updatedAt>>

StartDpaUpdate(j) == ReadDocument(j, "dpa", policy)
StartPolicyUpdate(j, new) == ReadDocument(j, "policy", new)
StartCleanup(j) == ReadDocument(j, "cleanup", policy)

\* The document is written whole; what others read before is stale now.
Writes(j, newDpa, newPolicy) ==
    /\ dpa' = newDpa /\ policy' = newPolicy /\ everPolicy' = everPolicy \cup {newPolicy}
    /\ updatedAt' = day
    /\ overlap' = (overlap \/ cjob[j].stale)
    /\ cjob' = [k \in ComplianceJobs |->
                  IF k = j THEN Resting
                  ELSE IF cjob[k] = Resting THEN Resting ELSE [cjob[k] EXCEPT !.stale = TRUE]]
    /\ UNCHANGED <<day, stageVars, updates>>

UpdateDpaProfile(j) == /\ cjob[j].pc = "dpa" /\ Writes(j, cjob[j].n, cjob[j].policy)
                       /\ storedDpa' = cjob[j].n /\ UNCHANGED <<storedPolicy, redactedOn>>

UpdateRetentionPolicy(j) ==
    /\ cjob[j].pc = "policy" /\ Writes(j, cjob[j].dpa, cjob[j].new)
    /\ storedPolicy' = cjob[j].new /\ UNCHANGED <<storedDpa, redactedOn>>

\* Mutant: a disabled policy redacts too.
CleansAnyway(j) ==
    /\ cjob[j].pc = "cleanup"
    /\ redactedOn' = [d \in Days |-> IF redactedOn[d] = 0 /\ d + cjob[j].policy.days < day
                                     THEN day ELSE redactedOn[d]]
    /\ cjob' = [cjob EXCEPT ![j].pc = "cleaned"]
    /\ UNCHANGED <<day, documentVars, stageVars, updatedAt, updates>>
\* Messages older than the policy's days are redacted, once, when it says so ...
RedactOldMessages(j) ==
    /\ cjob[j].pc = "cleanup"
    /\ redactedOn' =
         [d \in Days |-> IF /\ cjob[j].policy.mode = "redact"
                            /\ redactedOn[d] = 0 /\ d + cjob[j].policy.days < day
                         THEN day ELSE redactedOn[d]]
    /\ cjob' = [cjob EXCEPT ![j].pc = "cleaned"]
    /\ UNCHANGED <<day, documentVars, stageVars, updatedAt, updates>>

\* ... and the run is noted in the document, with the policy as it was read.
NoteCleanup(j) ==
    /\ cjob[j].pc = "cleaned" /\ Writes(j, cjob[j].dpa, cjob[j].policy)
    /\ UNCHANGED <<storedDpa, storedPolicy, redactedOn>>

\* The database fails: what was redacted stays so.
UpdateLost(j) ==
    /\ cjob[j] # Resting /\ cjob' = [cjob EXCEPT ![j] = Resting]
    /\ UNCHANGED <<day, documentVars, redactedOn, stageVars, updatedAt, updates>>

OneUpdate == updates < MaxUpdates /\ updates' = updates + 1

\* updateLifecycleStage; every update of the row dates it.
UpdateLifecycleStage(stage) ==
    /\ OneUpdate /\ lifeStage' = stage /\ updatedAt' = day
    /\ stagedOn' = (IF stage = lifeStage THEN stagedOn ELSE day)
    /\ UNCHANGED <<day, documentVars, redactedOn, cjob>>

\* The manual items of the checklist, and the account's status, are fields of the row.
DatesTheRow ==
    /\ OneUpdate /\ updatedAt' = day
    /\ UNCHANGED <<day, documentVars, redactedOn, stageVars, cjob>>

UpdateConversionChecklist == DatesTheRow
SetComplianceStatus == DatesTheRow

ComplianceNext ==
    \/ NextDay \/ UpdateConversionChecklist \/ SetComplianceStatus
    \/ \E stage \in {"shadow", "live"} : UpdateLifecycleStage(stage)
    \/ \E j \in ComplianceJobs :
         \/ StartDpaUpdate(j) \/ StartCleanup(j) \/ \E new \in Policy : StartPolicyUpdate(j, new)
         \/ UpdateDpaProfile(j) \/ UpdateRetentionPolicy(j)
         \/ RedactOldMessages(j) \/ NoteCleanup(j) \/ UpdateLost(j)

ComplianceSpec == ComplianceInit /\ [][ComplianceNext]_complianceVars

-----------------------------------------------------------------------------
\* Agreement and policy are what was stored last of each, unless two updates of
\* the document overlapped.
DocumentAddsUp == overlap \/ (dpa = storedDpa /\ policy = storedPolicy)

\* A message is redacted only when older than the days of a policy the client had,
\* and one that redacts; also when the policy changes during the cleanup.
RedactedByPolicy ==
    \A d \in Days : redactedOn[d] # 0 =>
        \E p \in everPolicy : p.mode = "redact" /\ d + p.days < redactedOn[d]

\* The checklist's item "live" ("Live for ... days without churn flag").
DaysLive == day - updatedAt
LiveItemDone == lifeStage = "live" /\ DaysLive >= LiveDays

\* It is done only for a client that has been live that long.
LiveItemIsEarned == LiveItemDone => day - stagedOn >= LiveDays

=============================================================================
