-------------------------- MODULE MCTenantServices --------------------------
(* The services a tenant uses apart from its inbox, checked in one run: a       *)
(* behaviour explores one of them, the others rest at their initial state.      *)
EXTENDS PromptProfiles, AnchorConsole, CallerThreads, PageConnection, SignInCodes, WorkspaceSetup,
        ChannelAdmin, RateLimits, TLC

VARIABLE focus   \* the component whose steps are explored; the others rest at their initial state

MCDefault == [text |-> "default",exp |-> FALSE,weight |-> 4]
MCConfigs == {MCDefault, [text |-> "b",exp |-> TRUE,weight |-> 2]}
CONSTANTS o1, x1, cA, cB
MCRole == o1 :> "operator"
MCLoads == o1 :> 1
MCClient == x1 :> cA
\* Two tenants behind one address on the hono API, a legacy webhook of one page, and the sign-in.
MCHit(s,p,t,g) == [service |-> s, ip |-> "ip", path |-> p, tenant |-> t, page |-> g]
MCHits == {MCHit("hono","voice","A",NoScope), MCHit("hono","voice","B",NoScope),
 MCHit("api","webhook",NoScope,"pg"), MCHit("login","login",NoScope,NoScope)}
MCLimits == [p \in {"webhook","voice","other","login"} |-> IF p="webhook" THEN 2 ELSE 1]

TenantServicesInit ==
    /\ focus \in {"profiles", "anchor", "callers", "pages", "signin", "setup", "rules", "limits"}
    /\ PromptInit
    /\ focus # "profiles" => \A p \in Profiles : profiles[p].status = "absent"
    /\ AnchorInit
    /\ CallerInit
    /\ PagesInit
    /\ SignInit
    /\ SetupInit
    /\ RuleInit
    /\ RateInit

TenantServicesNext ==
    \/ /\ focus = "profiles" /\ PromptNext
       /\ UNCHANGED <<focus, anchorVars, callerVars, oauthVars, signVars, setupVars, ruleVars, rateVars>>
    \/ /\ focus = "anchor" /\ AnchorNext
       /\ UNCHANGED <<focus, promptVars, callerVars, oauthVars, signVars, setupVars, ruleVars, rateVars>>
    \/ /\ focus = "callers" /\ CallerNext
       /\ UNCHANGED <<focus, promptVars, anchorVars, oauthVars, signVars, setupVars, ruleVars, rateVars>>
    \/ /\ focus = "pages" /\ PagesNext
       /\ UNCHANGED <<focus, promptVars, anchorVars, callerVars, signVars, setupVars, ruleVars, rateVars>>
    \/ /\ focus = "signin" /\ SignNext
       /\ UNCHANGED <<focus, promptVars, anchorVars, callerVars, oauthVars, setupVars, ruleVars, rateVars>>
    \/ /\ focus = "setup" /\ SetupNext
       /\ UNCHANGED <<focus, promptVars, anchorVars, callerVars, oauthVars, signVars, ruleVars, rateVars>>
    \/ /\ focus = "rules" /\ RuleNext
       /\ UNCHANGED <<focus, promptVars, anchorVars, callerVars, oauthVars, signVars, setupVars, rateVars>>
    \/ /\ focus = "limits" /\ RateNext
       /\ UNCHANGED <<focus, promptVars, anchorVars, callerVars, oauthVars, signVars, setupVars, ruleVars>>

TenantServicesVars == <<focus, promptVars, anchorVars, callerVars, oauthVars, signVars, setupVars,
    ruleVars, rateVars>>
TenantServicesSpec == TenantServicesInit /\ [][TenantServicesNext]_TenantServicesVars

PoolSymmetry == Permutations(VoiceJobs) \union Permutations(Profiles)

-----------------------------------------------------------------------------
(* Properties.                                                               *)

TenantTypeOK ==
    /\ PromptTypeOK /\ AnchorTypeOK /\ CallerTypeOK /\ PagesTypeOK
    /\ SignTypeOK /\ SetupTypeOK /\ RuleTypeOK /\ RateTypeOK

\* Requests that overlap lose nothing that was acknowledged and mix nothing up: wordings and variants
\* of prompts, queues and forms of a client chosen since, patches of a thread, rules of a channel,
\* hits in a window of the rate limiter.
OverlapLosesNothing ==
    /\ VersionNamesOneWording /\ OneActiveUnlessOverlapped /\ VariantsShareTheBuckets
    /\ ReworkedOnlyUnseen /\ QueueIsOfSelected
    /\ PatchesAddUp /\ QualifiedByARule
    /\ AcknowledgedIsKept /\ FormIsOfSelected
    /\ SeededOnce /\ RuleEditsAreKept /\ HolidayComesFirst /\ RecentIsCounted
    /\ WindowHoldsTheLimit /\ RefusedForItsOwn

\* A statement, request or delivery that fails half way leaves no lie behind: no hole in a history, no
\* value nobody looked up, no page said to be live, no code that opens nothing, no second workspace.
FailureIsContained ==
    /\ HistoryHasNoUnexplainedHole
    /\ NoFallbackTenant /\ NeverFabricated
    /\ ToldPageIsLive /\ RoutedPageCanAnswer
    /\ ShownChallengeIsStored /\ LatestMailFits /\ SpentCodeIsSaid /\ OneSignupOneWorkspace
    /\ OnboardedIsSubmitted /\ RefusalIsBrief

\* What holds of every tenant service in every state: its types, and its own invariants under overlap
\* and failure.
TenantInvariant == TenantTypeOK /\ OverlapLosesNothing /\ FailureIsContained

\* No step reaches over to another tenant: escalations are changed with access and stay with their
\* client, and a page that answers for one workspace is not taken by another.
TenantsStayApart == ClientsStayApart /\ ChangedWithAccess /\ PageStaysWithItsWorkspace
=============================================================================
