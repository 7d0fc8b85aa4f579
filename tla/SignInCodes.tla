------------------------------ MODULE SignInCodes ------------------------------
(***************************************************************************)
(* Signing in to a client workspace with a mailed code: ClientAuthService  *)
(* (apps/hono-api/src/services/auth.ts and its NestJS twin client-auth.    *)
(* service.ts, which also refuses inactive workspaces), the delivery of    *)
(* the code, the login page and the signup page of apps/web.  A challenge  *)
(* is read, compared and consumed in separate statements, an answer may be *)
(* lost, and the page judges the expiry by its own clock.                  *)
(***************************************************************************)
EXTENDS Naturals, Sequences, FiniteSets

CONSTANTS
    LoginTabs,    \* browser tabs at the login page
    SignupTabs,   \* browser tabs at the signup page
    CodeLife,     \* life of a code (600 s in the code)
    MaxSignClock, \* bound: time that passes
    MaxCodes,     \* bound: challenges
    MaxSignOps    \* bound: clicks

Tabs == LoginTabs \cup SignupTabs
ASSUME SignAssumption ==
    /\ {CodeLife, MaxSignClock, MaxCodes, MaxSignOps} \subseteq Nat
    /\ LoginTabs \cap SignupTabs = {}

VARIABLES
    codes,        \* client_auth_challenges, in the order they are stored
    spaces,       \* number of workspaces; the first is there from the start
    inactive,     \* the first workspace is inactive
    tab,          \* what each tab shows
    calls,        \* the request each tab has under way
    unheard,      \* tabs of which an answer was lost
    signClock,
    signOps

signVars == <<codes, spaces, inactive, tab, calls, unheard, signClock, signOps>>

Fake == MaxCodes + 1               \* the random id answered for an unknown identifier
Modes == {"sent", "skipped", "dry-run"}
CodeRow == [tab : Tabs, space : 1..(1 + MaxSignOps), expires : 0..(MaxSignClock + CodeLife),
            mailed : BOOLEAN, spent : BOOLEAN]
\* space: the workspace the page named (0: an unknown identifier).
NoTab == [code |-> 0, space |-> 0, error |-> FALSE, expires |-> 0, opened |-> FALSE]
NoCall == [pc |-> "none"]
ReadyToAsk(t) == calls[t] = NoCall /\ ~tab[t].opened

SignTypeOK ==
    /\ codes \in Seq(CodeRow) /\ Len(codes) <= MaxCodes
    /\ spaces \in 1..(1 + MaxSignOps) /\ inactive \in BOOLEAN
    /\ tab \in [Tabs -> [code : 0..Fake, space : 0..spaces, error : BOOLEAN,
                         expires : 0..(MaxSignClock + CodeLife), opened : BOOLEAN]]
    /\ \A t \in Tabs :
         \/ calls[t] \in {NoCall, [pc |-> "signup"], [pc |-> "failed"], [pc |-> "opening"]}
         \/ calls[t] \in [pc : {"request"}, space : 0..spaces]
         \/ calls[t] \in [pc : {"deliver"}, space : 1..spaces, code : DOMAIN codes]
         \/ calls[t] \in [pc : {"answer"}, space : 0..spaces, code : 1..Fake, mode : Modes,
                          expires : 0..(MaxSignClock + CodeLife)]
         \/ calls[t] \in [pc : {"verify"}, code : 1..Fake, right : BOOLEAN]
         \/ calls[t] \in [pc : {"consume", "open"}, code : DOMAIN codes]
    /\ unheard \subseteq Tabs /\ signClock \in 0..MaxSignClock /\ signOps \in 0..MaxSignOps

SignInit ==
    /\ codes = <<>> /\ spaces = 1 /\ inactive = FALSE
    /\ tab = [t \in Tabs |-> NoTab] /\ calls = [t \in Tabs |-> NoCall] /\ unheard = {}
    /\ signClock = 0 /\ signOps = 0

SignClick == signOps < MaxSignOps /\ signOps' = signOps + 1
Call(t, c) == calls' = [calls EXCEPT ![t] = c]

TimePasses ==
    /\ signClock < MaxSignClock /\ signClock' = signClock + 1
    /\ UNCHANGED <<codes, spaces, inactive, tab, calls, unheard, signOps>>

Deactivated ==
    /\ SignClick /\ ~inactive /\ inactive' = TRUE
    /\ UNCHANGED <<codes, spaces, tab, calls, unheard, signClock>>

-----------------------------------------------------------------------------
\* The login page.
\* requestCode: the form, which is shown until there is a challenge.
SubmitIdentifier(t, space) ==
    /\ SignClick /\ t \in LoginTabs /\ ReadyToAsk(t) /\ tab[t].code = 0 /\ space \in {0, 1}
    /\ tab' = [tab EXCEPT ![t].error = FALSE] /\ Call(t, [pc |-> "request", space |-> space])
    /\ UNCHANGED <<codes, spaces, inactive, unheard, signClock>>

\* requestNewCode asks again for what the last answered request named; the button
\* is there after an error and once the code has expired.
RequestNewCode(t) ==
    /\ SignClick /\ t \in LoginTabs /\ ReadyToAsk(t) /\ tab[t].code # 0
    /\ tab[t].error \/ tab[t].expires <= signClock
    /\ tab' = [tab EXCEPT ![t].error = FALSE]
    /\ Call(t, [pc |-> "request", space |-> tab[t].space])
    /\ UNCHANGED <<codes, spaces, inactive, unheard, signClock>>

-----------------------------------------------------------------------------
\* The signup page.
\* Mutant: the form stays until the code has been sent.
SubmitAgain(t) ==
    /\ SignClick /\ t \in SignupTabs /\ ReadyToAsk(t) /\ tab[t].code = 0
    /\ tab' = [tab EXCEPT ![t].error = FALSE] /\ Call(t, [pc |-> "signup"])
    /\ UNCHANGED <<codes, spaces, inactive, unheard, signClock>>
\* handleSubmit: signupClient ...
HandleSubmit(t) ==
    /\ SignClick /\ t \in SignupTabs /\ ReadyToAsk(t) /\ tab[t].space = 0
    /\ tab' = [tab EXCEPT ![t].error = FALSE] /\ Call(t, [pc |-> "signup"])
    /\ UNCHANGED <<codes, spaces, inactive, unheard, signClock>>

\* ... inserts a workspace (ClientService.create); the page keeps it and asks for
\* a code for it.
SignupCreates(t) ==
    /\ calls[t] = [pc |-> "signup"]
    /\ spaces' = spaces + 1 /\ tab' = [tab EXCEPT ![t].space = spaces + 1]
    /\ Call(t, [pc |-> "request", space |-> spaces + 1])
    /\ UNCHANGED <<codes, inactive, unheard, signClock, signOps>>

\* The workspace is there, the answer does not arrive: "Workspace was not created".
SignupUnheard(t) ==
    /\ calls[t] = [pc |-> "signup"] /\ spaces' = spaces + 1
    /\ unheard' = unheard \cup {t} /\ Call(t, [pc |-> "failed"])
    /\ UNCHANGED <<codes, inactive, tab, signClock, signOps>>

\* resendCode, at any time the page is idle, for the workspace it created.
ResendCode(t) ==
    /\ SignClick /\ t \in SignupTabs /\ ReadyToAsk(t) /\ tab[t].space # 0
    /\ tab' = [tab EXCEPT ![t].error = FALSE]
    /\ Call(t, [pc |-> "request", space |-> tab[t].space])
    /\ UNCHANGED <<codes, spaces, inactive, unheard, signClock>>

-----------------------------------------------------------------------------
\* requestCode of the service: an unknown identifier is answered like a known one,
\* with nothing stored; a known one gets a challenge ...
UnknownIdentifier(t) ==
    /\ calls[t].pc = "request" /\ calls[t].space = 0
    /\ Call(t, [pc |-> "answer", space |-> 0, code |-> Fake, mode |-> "dry-run",
                expires |-> signClock + CodeLife])
    /\ UNCHANGED <<codes, spaces, inactive, tab, unheard, signClock, signOps>>

StoreChallenge(t) ==
    /\ calls[t].pc = "request" /\ calls[t].space # 0 /\ Len(codes) < MaxCodes
    /\ codes' = Append(codes, [tab |-> t, space |-> calls[t].space,
                               expires |-> signClock + CodeLife, mailed |-> FALSE,
                               spent |-> FALSE])
    /\ Call(t, [pc |-> "deliver", space |-> calls[t].space, code |-> Len(codes) + 1])

\* The service in use does not look at the status,
RequestCode(t) ==
    /\ StoreChallenge(t)
    /\ UNCHANGED <<spaces, inactive, tab, unheard, signClock, signOps>>
\* its predecessor refuses an inactive workspace.
RequestCodeRefused(t) ==
    /\ calls[t].pc = "request" /\ calls[t].space = 1 /\ inactive /\ Call(t, [pc |-> "failed"])
    /\ UNCHANGED <<codes, spaces, inactive, tab, unheard, signClock, signOps>>

\* ... which is then mailed ("sent"), shown instead ("skipped", while the mail
\* account is not approved), or neither ("dry-run", without a provider).
SendCode(t, mode) ==
    LET c == calls[t].code IN
    /\ calls[t].pc = "deliver"
    /\ codes' = [codes EXCEPT ![c].mailed = (mode # "dry-run")]
    /\ Call(t, [pc |-> "answer", space |-> calls[t].space, code |-> c, mode |-> mode,
                expires |-> codes[c].expires])
    /\ UNCHANGED <<spaces, inactive, tab, unheard, signClock, signOps>>

\* A delivery that fails leaves the challenge behind.
SendFails(t) ==
    /\ calls[t].pc = "deliver" /\ Call(t, [pc |-> "failed"])
    /\ UNCHANGED <<codes, spaces, inactive, tab, unheard, signClock, signOps>>

\* The pages take the challenge of the answer, unless it is one nobody can have
\* received: a dry run without a code to show is an error.
ShowChallenge(t) ==
    /\ calls[t].pc = "answer" /\ calls[t].mode # "dry-run"
    /\ tab' = [tab EXCEPT ![t].code = calls[t].code, ![t].space = calls[t].space,
                          ![t].expires = calls[t].expires]
    /\ Call(t, NoCall)
    /\ UNCHANGED <<codes, spaces, inactive, unheard, signClock, signOps>>

DeliveryIssue(t) ==
    /\ calls[t].pc = "answer" /\ calls[t].mode = "dry-run" /\ Call(t, [pc |-> "failed"])
    /\ UNCHANGED <<codes, spaces, inactive, tab, unheard, signClock, signOps>>

AnswerLost(t) ==
    /\ calls[t].pc \in {"answer", "open"} /\ Call(t, [pc |-> "failed"])
    /\ unheard' = unheard \cup {t}
    /\ UNCHANGED <<codes, spaces, inactive, tab, signClock, signOps>>

ShowFailure(t) ==
    /\ calls[t] = [pc |-> "failed"] /\ tab' = [tab EXCEPT ![t].error = TRUE] /\ Call(t, NoCall)
    /\ UNCHANGED <<codes, spaces, inactive, unheard, signClock, signOps>>

-----------------------------------------------------------------------------
\* verifyCode of the pages.  The login page stops at what its clock calls expired.
VerifyClick(t, right) ==
    /\ SignClick /\ ReadyToAsk(t) /\ tab[t].code # 0
    /\ t \in LoginTabs => tab[t].expires > signClock
    /\ tab' = [tab EXCEPT ![t].error = FALSE]
    /\ Call(t, [pc |-> "verify", code |-> tab[t].code, right |-> right])
    /\ UNCHANGED <<codes, spaces, inactive, unheard, signClock>>

\* verifyCode of the service: read, compare ...
VerifyCode(t) ==
    LET c == calls[t].code
        fits == /\ c \in DOMAIN codes /\ calls[t].right
                /\ ~codes[c].spent /\ codes[c].expires > signClock IN
    /\ calls[t].pc = "verify"
    /\ Call(t, IF fits THEN [pc |-> "consume", code |-> c] ELSE [pc |-> "failed"])
    /\ UNCHANGED <<codes, spaces, inactive, tab, unheard, signClock, signOps>>

\* ... and consume, whatever became of the challenge meanwhile.
ConsumeChallenge(t) ==
    LET c == calls[t].code IN
    /\ calls[t].pc = "consume" /\ codes' = [codes EXCEPT ![c].spent = TRUE]
    /\ Call(t, [pc |-> "open", code |-> c])
    /\ UNCHANGED <<spaces, inactive, tab, unheard, signClock, signOps>>

\* The predecessor refuses the inactive workspace only now: the code is spent.
InactiveRefused(t) ==
    /\ calls[t].pc = "open" /\ inactive /\ codes[calls[t].code].space = 1
    /\ Call(t, [pc |-> "failed"])
    /\ UNCHANGED <<codes, spaces, inactive, tab, unheard, signClock, signOps>>

\* Signed in: the page leaves for the dashboard, or for the onboarding.
OpenWorkspace(t) ==
    /\ calls[t].pc = "open" /\ tab' = [tab EXCEPT ![t].opened = TRUE]
    /\ Call(t, [pc |-> "opening"])
    /\ UNCHANGED <<codes, spaces, inactive, unheard, signClock, signOps>>

SignNext ==
    \/ TimePasses \/ Deactivated
    \/ \E t \in Tabs :
         \/ \E space \in {0, 1} : SubmitIdentifier(t, space)
         \/ RequestNewCode(t) \/ HandleSubmit(t) \/ SignupCreates(t) \/ SignupUnheard(t)
         \/ ResendCode(t) \/ UnknownIdentifier(t) \/ RequestCode(t) \/ RequestCodeRefused(t)
         \/ SendFails(t) \/ ShowChallenge(t) \/ DeliveryIssue(t) \/ AnswerLost(t)
         \/ \E mode \in Modes : SendCode(t, mode)
         \/ ShowFailure(t) \/ VerifyCode(t) \/ ConsumeChallenge(t) \/ InactiveRefused(t)
         \/ OpenWorkspace(t) \/ \E right \in BOOLEAN : VerifyClick(t, right)

SignSpec == SignInit /\ [][SignNext]_signVars

-----------------------------------------------------------------------------
\* The challenge a page shows is stored, and with the expiry it shows; also when
\* the identifier was not known, and after deliveries that failed.
ShownChallengeIsStored ==
    \A t \in Tabs : tab[t].code # 0 =>
        tab[t].code \in DOMAIN codes /\ codes[tab[t].code].expires = tab[t].expires

\* A tab that heard every answer and is idle shows the latest code it had mailed
\* ("enter the latest 6-digit code").
LatestMailFits ==
    \A t \in Tabs \ unheard : ReadyToAsk(t) =>
        \A c \in DOMAIN codes : codes[c].tab = t /\ codes[c].mailed => c <= tab[t].code

\* A page that is idle, not signed in, and whose code is spent says an error; the
\* login page offers a new code then.
SpentCodeIsSaid ==
    \A t \in Tabs : ReadyToAsk(t) /\ tab[t].code \in DOMAIN codes /\ codes[tab[t].code].spent
        => tab[t].error

\* A tab that heard every answer created one workspace at most.
OneSignupOneWorkspace ==
    SignupTabs \cap unheard = {} =>
        spaces - 1 <= Cardinality({t \in SignupTabs : tab[t].space # 0})
=============================================================================
