---------------------------- MODULE WorkspaceSetup ----------------------------
(***************************************************************************)
(* The profile of a client workspace and the three places that write it:   *)
(* the onboarding page of the seller (apps/web client/onboarding), the     *)
(* onboarding review of the internal team (internal/onboarding) and the    *)
(* client routes.  ClientService (apps/hono-api/src/services/clients.ts)   *)
(* sets columns alone, but the onboarding profile is a JSON document that  *)
(* is read, merged and written back in two statements.                     *)
(***************************************************************************)
EXTENDS Naturals, FiniteSets

CONSTANTS
    Sellers,      \* client workspaces
    Newcomer,     \* the one whose seller is onboarding
    MaxSetupOps   \* bound: clicks and calls

ASSUME SetupAssumption == Newcomer \in Sellers /\ MaxSetupOps \in Nat

VARIABLES
    setupProfiles,     \* the clients table
    patches,      \* the update each writer has under way
    askedFor,     \* the last value each key was given by an acknowledged update
    crossed,      \* workspaces of which two updates overlapped
    guide,        \* the seller's onboarding page
    requests,     \* change requests it submitted
    review,       \* the review screen
    setupOps

setupVars == <<setupProfiles, patches, askedFor, crossed, guide, requests, review, setupOps>>

Unset == 0
Skip == 2                        \* of whatsappSetup
Fields == {"category", "poc", "status", "focus", "whatsapp"}
Document == {"focus", "whatsapp"}     \* the keys of onboardingProfile
Blank == [f \in Fields |-> Unset]
SetupStatus == 0..3              \* signup_started, profile_, channels_, onboarding_complete
Value(f) == CASE f = "status" -> SetupStatus [] OTHER -> 0..2
ProfileRow == [Fields -> 0..3]
Writers == {"seller", "review", "team"}
NoPatch == [pc |-> "none"]

SetupRows == [Sellers -> ProfileRow]
Guide == [step : {"profile", "channels", "knowledge", "left"}, typed : BOOLEAN,
          pc : {"idle", "patch", "submit"}, retried : BOOLEAN, steered : BOOLEAN]
Review == [space : Sellers, form : [{"category", "focus"} -> 0..2], edited : BOOLEAN,
           listed : SetupRows, switched : BOOLEAN]

SetupTypeOK ==
    /\ setupProfiles \in SetupRows /\ askedFor \in SetupRows
    /\ \A w \in Writers :
         \/ patches[w] = NoPatch
         \/ patches[w] \in [pc : {"read", "done", "failed"}, space : Sellers, patch : ProfileRow]
         \/ patches[w] \in [pc : {"write"}, space : Sellers, patch : ProfileRow,
                            base : [Document -> 0..2]]
    /\ crossed \subseteq Sellers
    /\ guide \in Guide
    /\ requests \in 0..MaxSetupOps
    /\ review \in Review
    /\ setupOps \in 0..MaxSetupOps

FormFromClient(row) == [f \in {"category", "focus"} |-> row[f]]
SetupInit ==
    /\ setupProfiles = [w \in Sellers |-> Blank] /\ askedFor = setupProfiles /\ crossed = {}
    /\ patches = [w \in Writers |-> NoPatch] /\ requests = 0
    /\ guide = [step |-> "profile", typed |-> FALSE, pc |-> "idle", retried |-> FALSE,
                steered |-> FALSE]
    /\ review = [space |-> Newcomer, form |-> FormFromClient(Blank), edited |-> FALSE,
                 listed |-> setupProfiles, switched |-> FALSE]
    /\ setupOps = 0

SetupClick == setupOps < MaxSetupOps /\ setupOps' = setupOps + 1
Begin(w, space, patch) ==
    /\ patches[w] = NoPatch
    /\ patches' = [patches EXCEPT ![w] = [pc |-> "read", space |-> space, patch |-> patch]]

-----------------------------------------------------------------------------
\* updateProfile and updateOnboarding: the row is read ...
ReadProfile(w) ==
    LET space == patches[w].space IN
    /\ patches[w].pc = "read"
    /\ patches' = [patches EXCEPT ![w] = [pc |-> "write", space |-> space, patch |-> @.patch,
                                          base |-> [f \in Document |-> setupProfiles[space][f]]]]
    /\ crossed' = (IF \E v \in Writers : patches[v].pc = "write" /\ patches[v].space = space
                   THEN crossed \cup {space} ELSE crossed)
    /\ UNCHANGED <<setupProfiles, askedFor, guide, requests, review, setupOps>>

Given(patch) == {f \in Fields : patch[f] # Unset}
Acknowledge(w) ==
    LET p == patches[w] IN
    /\ askedFor' = [askedFor EXCEPT ![p.space] =
         [f \in Fields |-> IF f \in Given(p.patch) THEN p.patch[f] ELSE @[f]]]
    /\ guide' = [guide EXCEPT !.steered = @ \/ (w # "seller" /\ "status" \in Given(p.patch))]
    /\ patches' = [patches EXCEPT ![w] = [pc |-> "done", space |-> p.space, patch |-> p.patch]]

\* Mutant: the document is replaced by the part that was sent.
ReplaceProfile(w) ==
    LET p == patches[w] IN
    /\ p.pc = "write" /\ Acknowledge(w)
    /\ setupProfiles' = [setupProfiles EXCEPT ![p.space] =
         [f \in Fields |-> IF f \in Given(p.patch) \/ (f \in Document /\ Document \cap Given(p.patch) # {})
                           THEN p.patch[f] ELSE @[f]]]
    /\ UNCHANGED <<crossed, requests, review, setupOps>>
\* ... and written: columns that are given, and the document of the read merged with
\* the part that is given, if one is.
WriteProfile(w) ==
    LET p == patches[w] IN
    /\ p.pc = "write" /\ Acknowledge(w)
    /\ setupProfiles' = [setupProfiles EXCEPT ![p.space] =
         [f \in Fields |-> IF f \in Given(p.patch) THEN p.patch[f]
                           ELSE IF f \in Document /\ Document \cap Given(p.patch) # {}
                                THEN p.base[f] ELSE @[f]]]
    /\ UNCHANGED <<crossed, requests, review, setupOps>>

PatchFails(w) ==
    /\ patches[w].pc \in {"read", "write"}
    /\ patches' = [patches EXCEPT ![w] = [pc |-> "failed", space |-> @.space, patch |-> @.patch]]
    /\ UNCHANGED <<setupProfiles, askedFor, crossed, guide, requests, review, setupOps>>

\* The routes of the team: the client form, with any of the fields ...
UpdateProfile(space, f, v) ==
    /\ SetupClick /\ v \in Value(f) \ {Unset}
    /\ Begin("team", space, [Blank EXCEPT ![f] = v])
    /\ UNCHANGED <<setupProfiles, askedFor, crossed, guide, requests, review>>
\* ... and disconnectWhatsApp, which also empties the number: here in the write.
DisconnectWhatsApp ==
    LET p == patches["team"] IN
    /\ p.pc = "write" /\ p.patch["whatsapp"] = Skip
    /\ setupProfiles' = [setupProfiles EXCEPT ![p.space] =
         [f \in Fields |-> CASE f = "poc" -> Unset [] f = "whatsapp" -> Skip
                             [] f = "focus" -> p.base[f] [] OTHER -> @[f]]]
    /\ askedFor' = [askedFor EXCEPT ![p.space]["poc"] = Unset, ![p.space]["whatsapp"] = Skip]
    /\ patches' = [patches EXCEPT !["team"] = NoPatch]
    /\ UNCHANGED <<crossed, guide, requests, review, setupOps>>
TeamAnswered ==
    /\ patches["team"].pc \in {"done", "failed"} /\ patches' = [patches EXCEPT !["team"] = NoPatch]
    /\ UNCHANGED <<setupProfiles, askedFor, crossed, guide, requests, review, setupOps>>

-----------------------------------------------------------------------------
\* The seller's page: saveProfile, then saveChannels or skipChannels (which send the
\* same), each moving on when the answer has come.
Send(patch) ==
    /\ SetupClick /\ guide.pc = "idle" /\ guide' = [guide EXCEPT !.pc = "patch"]
    /\ Begin("seller", Newcomer, patch)
    /\ UNCHANGED <<setupProfiles, askedFor, crossed, requests, review>>
SaveProfile(c) ==
    /\ guide.step = "profile"
    /\ Send([Blank EXCEPT !["category"] = c, !["focus"] = 1, !["status"] = 1])
SaveChannels == guide.step = "channels" /\ Send([Blank EXCEPT !["status"] = 2])

\* finishOnboarding: first the change request, if something was typed, ...
FinishOnboarding(typed) ==
    /\ SetupClick /\ guide.step = "knowledge" /\ guide.pc = "idle"
    /\ guide' = [guide EXCEPT !.pc = IF typed THEN "submit" ELSE "patch", !.typed = typed]
    /\ IF typed THEN UNCHANGED patches
       ELSE Begin("seller", Newcomer, [Blank EXCEPT !["status"] = 3])
    /\ UNCHANGED <<setupProfiles, askedFor, crossed, requests, review>>

\* ... then the status.
SubmitRequest ==
    /\ guide.pc = "submit" /\ requests' = requests + 1 /\ guide' = [guide EXCEPT !.pc = "patch"]
    /\ Begin("seller", Newcomer, [Blank EXCEPT !["status"] = 3])
    /\ UNCHANGED <<setupProfiles, askedFor, crossed, review, setupOps>>
SubmitFails ==
    /\ guide.pc = "submit" /\ guide' = [guide EXCEPT !.pc = "idle"]
    /\ UNCHANGED <<setupProfiles, patches, askedFor, crossed, requests, review, setupOps>>

AfterStep == [profile |-> "channels", channels |-> "knowledge", knowledge |-> "left"]
StepDone ==
    /\ patches["seller"].pc = "done" /\ patches' = [patches EXCEPT !["seller"] = NoPatch]
    /\ guide' = [guide EXCEPT !.pc = "idle", !.step = AfterStep[guide.step]]
    /\ UNCHANGED <<setupProfiles, askedFor, crossed, requests, review, setupOps>>

\* The step stays, with an error: a request that was submitted is submitted again
\* by the next try.
StepFails ==
    /\ patches["seller"].pc = "failed" /\ patches' = [patches EXCEPT !["seller"] = NoPatch]
    /\ guide' = [guide EXCEPT !.pc = "idle", !.retried = @ \/ guide.typed]
    /\ UNCHANGED <<setupProfiles, askedFor, crossed, requests, review, setupOps>>

-----------------------------------------------------------------------------
\* The review screen: one client at a time, chosen from the list that was loaded.
Saving == patches["review"] # NoPatch

\* selectClient, also while a form is being saved.
SelectClient(w) ==
    /\ SetupClick /\ w # review.space
    /\ review' = [review EXCEPT !.space = w, !.form = FormFromClient(review.listed[w]),
                                !.edited = FALSE, !.switched = Saving]
    /\ UNCHANGED <<setupProfiles, patches, askedFor, crossed, guide, requests>>

EditForm(f, v) ==
    /\ SetupClick /\ review.form[f] # v
    /\ review' = [review EXCEPT !.form[f] = v, !.edited = TRUE]
    /\ UNCHANGED <<setupProfiles, patches, askedFor, crossed, guide, requests>>

\* handleSubmit sends the form as updateClientOnboarding; what is empty in it is left
\* out, and the route refuses a profile without a channel.
SaveReview ==
    /\ SetupClick /\ ~Saving
    /\ patches' = [patches EXCEPT !["review"] =
         [pc |-> IF review.form["focus"] = Unset THEN "failed" ELSE "read", space |-> review.space,
          patch |-> [f \in Fields |-> IF f \in DOMAIN review.form THEN review.form[f] ELSE Unset]]]
    /\ UNCHANGED <<setupProfiles, askedFor, crossed, guide, requests, review>>

\* The answer is the row as stored; it goes into the list and into the form.
ShowSaved ==
    LET space == patches["review"].space IN
    /\ patches["review"].pc = "done" /\ patches' = [patches EXCEPT !["review"] = NoPatch]
    /\ review' = [review EXCEPT !.listed[space] = setupProfiles[space],
                                !.form = FormFromClient(setupProfiles[space]), !.edited = FALSE,
                                !.switched = (space # review.space)]
    /\ UNCHANGED <<setupProfiles, askedFor, crossed, guide, requests, setupOps>>
SaveFails ==
    /\ patches["review"].pc = "failed" /\ patches' = [patches EXCEPT !["review"] = NoPatch]
    /\ UNCHANGED <<setupProfiles, askedFor, crossed, guide, requests, review, setupOps>>

SetupNext ==
    \/ \E w \in Writers : ReadProfile(w) \/ WriteProfile(w) \/ PatchFails(w)
    \/ \E w \in Sellers, f \in Fields, v \in 1..3 : UpdateProfile(w, f, v)
    \/ DisconnectWhatsApp \/ TeamAnswered
    \/ \E c \in 1..2 : SaveProfile(c)
    \/ SaveChannels \/ \E typed \in BOOLEAN : FinishOnboarding(typed)
    \/ SubmitRequest \/ SubmitFails \/ StepDone \/ StepFails
    \/ \E w \in Sellers : SelectClient(w)
    \/ \E f \in {"category", "focus"}, v \in 0..1 : EditForm(f, v)
    \/ SaveReview \/ ShowSaved \/ SaveFails

SetupSpec == SetupInit /\ [][SetupNext]_setupVars

-----------------------------------------------------------------------------
\* Every field holds what it was last given by an update that was acknowledged,
\* whoever else wrote other fields since, unless two updates overlapped.
AcknowledgedIsKept ==
    \A w \in Sellers \ crossed : setupProfiles[w] = askedFor[w]

\* A seller whose page has left is complete, unless the team set the status since,
\* and what the seller typed has been submitted, once unless a try failed.
OnboardedIsSubmitted ==
    guide.step = "left" =>
        /\ guide.steered \/ askedFor[Newcomer]["status"] = 3
        /\ guide.typed => requests > 0
        /\ ~guide.retried => requests <= 1

\* A form without edits shows the client that is selected, as listed, unless the
\* selection was changed during a save.
FormIsOfSelected ==
    ~review.edited /\ ~review.switched =>
        review.form = FormFromClient(review.listed[review.space])

=============================================================================
