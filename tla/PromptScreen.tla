----------------------------- MODULE PromptScreen -----------------------------
(***************************************************************************)
(* The console page where the prompts of the tenants are written, published *)
(* and restored (apps/web internal/agent-config/page.tsx) against the       *)
(* prompt routes.  Lists and histories are loaded in slots that overlap;    *)
(* the editor is a form of uncontrolled fields: a field that was typed in   *)
(* keeps what was typed until another prompt is selected.  How the service  *)
(* writes a prompt and its versions is the subject of PromptProfiles.       *)
(***************************************************************************)
EXTENDS Naturals, FiniteSets

CONSTANTS
    PromptShops,          \* tenants
    Prompts,        \* prompts, the ones still to be created included
    NoPrompt,
    OwnedAtFirst,   \* the prompts there are at first, and their tenants
    PromptLoads,    \* loads that can be under way at once
    MaxPromptOps    \* bound: clicks and keys

ASSUME PromptScreenAssumption ==
    /\ NoPrompt \notin Prompts /\ MaxPromptOps \in Nat
    /\ DOMAIN OwnedAtFirst \subseteq Prompts /\ \A p \in DOMAIN OwnedAtFirst : OwnedAtFirst[p] \in PromptShops

VARIABLES
    promptRows,         \* the prompts stored
    pastPrompts,         \* the versions recorded
    shop,         \* the tenant chosen
    statusShown,  \* the status chosen
    listedPrompts,       \* the prompts on the screen
    pickedPrompt,       \* the prompt in the editor, as it was loaded
    editor,       \* what was typed into its fields
    draft,        \* what was typed for a new prompt
    history,      \* the versions on the screen
    loads,        \* loads under way
    deed,         \* the request under way
    said,         \* the notice: what was done, to which prompt
    unsettled,    \* loads overlapped or failed, or a choice changed during a request
    promptOps

promptScreenVars == <<promptRows, pastPrompts, shop, statusShown, listedPrompts, pickedPrompt, editor, draft, history, loads, deed,
                said, unsettled, promptOps>>
store == <<promptRows, pastPrompts>>
page == <<listedPrompts, pickedPrompt, editor, draft, history>>
choices == <<shop, statusShown>>

PromptStatuses == {"draft", "active", "archived"}
Texts == {"old", "new"}
Models == {"blank", "slug"}              \* blank: the default of the environment
Untyped == [text |-> "untouched", model |-> "untouched"]
Absent == [status |-> "absent"]
NoPick == [id |-> NoPrompt]
EditorResting == [pc |-> "idle"]
NothingSaid == [kind |-> "none"]
PromptRow == [shop : PromptShops, text : Texts, model : Models, status : PromptStatuses]
Copies == [id : Prompts, text : Texts, model : Models, status : PromptStatuses]
PastVersions == [of : Prompts, text : Texts, model : Models]
Deeds == {"create", "save", "active", "archived", "rollback"}

PromptScreenTypeOK ==
    /\ promptRows \in [Prompts -> PromptRow \cup {Absent}] /\ pastPrompts \subseteq PastVersions
    /\ shop \in PromptShops /\ statusShown \in PromptStatuses \cup {"all"}
    /\ listedPrompts \subseteq Copies /\ pickedPrompt \in Copies \cup {NoPick}
    /\ editor \in [text : Texts \cup {"untouched"}, model : Models \cup {"untouched"}]
    /\ draft \in Texts \cup {"untouched"} /\ history \subseteq PastVersions
    /\ \A l \in PromptLoads :
         /\ loads[l].pc \in {"idle", "asked", "listed", "versions"}
         /\ loads[l].pc # "idle" => loads[l].shop \in PromptShops
    /\ deed.pc \in {"idle", "sent", "done", "reloading"} /\ said.kind \in {"none"} \cup Deeds
    /\ unsettled \in BOOLEAN /\ promptOps \in 0..MaxPromptOps

PromptScreenInit ==
    /\ promptRows = [p \in Prompts |->
                 IF p \in DOMAIN OwnedAtFirst
                 THEN [shop |-> OwnedAtFirst[p], text |-> "old", model |-> "slug", status |-> "active"]
                 ELSE Absent]
    /\ pastPrompts = {[of |-> p, text |-> "old", model |-> "slug"] : p \in DOMAIN OwnedAtFirst}
    /\ shop \in PromptShops /\ statusShown = "all"
    /\ listedPrompts = {} /\ pickedPrompt = NoPick /\ editor = Untyped
    /\ draft = "untouched" /\ history = {}
    /\ \E l \in PromptLoads :
         loads = [m \in PromptLoads |->
                    IF m = l THEN [pc |-> "asked", shop |-> shop, status |-> "all", want |-> NoPrompt]
                    ELSE EditorResting]
    /\ deed = EditorResting /\ said = NothingSaid /\ unsettled = FALSE /\ promptOps = 0

PromptOp == promptOps < MaxPromptOps /\ promptOps' = promptOps + 1
LoadUnderWay == \E l \in PromptLoads : loads[l].pc # "idle"

-----------------------------------------------------------------------------
\* Choosing.
\* loadProfiles in a free slot.
LoadProfiles(l, s, status, want) ==
    /\ loads[l].pc = "idle"
    /\ loads' = [loads EXCEPT ![l] = [pc |-> "asked", shop |-> s, status |-> status, want |-> want]]

\* Another tenant: the editor and the history are emptied, its prompts are loaded.
SwitchShop(l, s) ==
    /\ PromptOp /\ s # shop /\ shop' = s /\ LoadProfiles(l, s, statusShown, NoPrompt)
    /\ pickedPrompt' = NoPick /\ editor' = Untyped /\ history' = {} /\ said' = NothingSaid
    /\ unsettled' = (unsettled \/ LoadUnderWay \/ deed.pc # "idle")
    /\ UNCHANGED <<store, statusShown, listedPrompts, draft, deed>>

SetPromptFilter(l, f) ==
    /\ PromptOp /\ f # statusShown /\ statusShown' = f /\ LoadProfiles(l, shop, f, pickedPrompt.id)
    /\ unsettled' = (unsettled \/ LoadUnderWay \/ deed.pc # "idle")
    /\ UNCHANGED <<store, shop, page, deed, said>>

\* selectProfile: of the prompts on the screen; its versions are loaded for the tenant
\* that is chosen.
SelectProfile(l, c) ==
    /\ PromptOp /\ c \in listedPrompts /\ loads[l].pc = "idle"
    /\ pickedPrompt' = c /\ editor' = IF c.id = pickedPrompt.id THEN editor ELSE Untyped
    /\ said' = NothingSaid
    /\ loads' = [loads EXCEPT ![l] = [pc |-> "versions", shop |-> shop, want |-> c.id]]
    /\ unsettled' = (unsettled \/ LoadUnderWay)
    /\ UNCHANGED <<store, choices, listedPrompts, draft, history, deed>>

\* The editor: a key in a field of the selected prompt.
TypeText(w) ==
    /\ PromptOp /\ pickedPrompt # NoPick /\ editor.text # w /\ editor' = [editor EXCEPT !.text = w]
    /\ UNCHANGED <<store, choices, listedPrompts, pickedPrompt, draft, history, loads, deed, said, unsettled>>
TypeModel(m) ==
    /\ PromptOp /\ pickedPrompt # NoPick /\ editor.model # m /\ editor' = [editor EXCEPT !.model = m]
    /\ UNCHANGED <<store, choices, listedPrompts, pickedPrompt, draft, history, loads, deed, said, unsettled>>

\* The form of a new prompt, filled with the active prompt on the screen, if there is one.
TypeDraft(w) ==
    /\ PromptOp /\ draft # w /\ draft' = w
    /\ UNCHANGED <<store, choices, listedPrompts, pickedPrompt, editor, history, loads, deed, said, unsettled>>
ActiveIn(list) == {c \in list : c.status = "active"}
ActiveId(list) == {c.id : c \in ActiveIn(list)}
\* The form starts afresh when another prompt is the active one on the screen, or none.
DraftAfter(list) == IF ActiveId(list) = ActiveId(listedPrompts) THEN draft ELSE "untouched"

-----------------------------------------------------------------------------
\* Requests, one at a time, for the tenant and the prompt at the time of the click.
Send(d) ==
    /\ PromptOp /\ deed.pc = "idle" /\ deed' = d /\ said' = NothingSaid
    /\ UNCHANGED <<store, choices, page, loads, unsettled>>
InEditor(f) == IF editor[f] = "untouched" THEN pickedPrompt[f] ELSE editor[f]

\* profileFromForm leaves out a model that is blank.
HandleSave ==
    /\ pickedPrompt # NoPick
    /\ Send([pc |-> "sent", kind |-> "save", shop |-> shop, status |-> statusShown, prompt |-> pickedPrompt.id,
             text |-> InEditor("text"), model |-> InEditor("model")])
\* Refused in the page when there is nothing in the form.
HandleCreate ==
    \E f \in IF ActiveIn(listedPrompts) = {} THEN {[text |-> "untouched", model |-> "blank"]} ELSE ActiveIn(listedPrompts) :
       LET w == IF draft = "untouched" THEN f.text ELSE draft
       IN  /\ w # "untouched"
           /\ Send([pc |-> "sent", kind |-> "create", shop |-> shop, status |-> statusShown,
                    prompt |-> NoPrompt, text |-> w, model |-> f.model])
ChangePromptStatus(next) ==
    /\ pickedPrompt # NoPick
    /\ Send([pc |-> "sent", kind |-> next, shop |-> shop, status |-> statusShown, prompt |-> pickedPrompt.id])
\* rollback: to a version on the screen, of whatever prompt.
RollbackTo(v) ==
    /\ pickedPrompt # NoPick /\ v \in history
    /\ Send([pc |-> "sent", kind |-> "rollback", shop |-> shop, status |-> statusShown,
             prompt |-> pickedPrompt.id, version |-> v])

Found(p, s) == promptRows[p] # Absent /\ promptRows[p].shop = s

Record(p) == pastPrompts' = pastPrompts \cup {[of |-> p, text |-> promptRows'[p].text, model |-> promptRows'[p].model]}
Done(p) ==
    /\ deed' = [deed EXCEPT !.pc = "done", !.prompt = p]
    /\ UNCHANGED <<choices, page, loads, said, unsettled, promptOps>>

StoreSave ==
    /\ deed.pc = "sent" /\ deed.kind = "save" /\ Found(deed.prompt, deed.shop)
    /\ promptRows' = [promptRows EXCEPT ![deed.prompt] =
                  [@ EXCEPT !.text = deed.text, !.status = "draft",
                            !.model = IF deed.model = "blank" THEN promptRows[deed.prompt].model
                                      ELSE deed.model]]
    /\ Record(deed.prompt) /\ Done(deed.prompt)
StoreCreate(p) ==
    /\ deed.pc = "sent" /\ deed.kind = "create" /\ promptRows[p] = Absent
    /\ promptRows' = [promptRows EXCEPT ![p] = [shop |-> deed.shop, text |-> deed.text, model |-> deed.model,
                                    status |-> "draft"]]
    /\ Record(p) /\ Done(p)
\* Publication archives the other active prompts of the tenant.
StoreStatus ==
    /\ deed.pc = "sent" /\ deed.kind \in {"active", "archived"} /\ Found(deed.prompt, deed.shop)
    /\ promptRows' = [p \in Prompts |->
                  IF p = deed.prompt THEN [promptRows[p] EXCEPT !.status = deed.kind]
                  ELSE IF /\ deed.kind = "active" /\ promptRows[p].status = "active"
                          /\ promptRows[p].shop = deed.shop
                  THEN [promptRows[p] EXCEPT !.status = "archived"]
                  ELSE promptRows[p]]
    /\ Record(deed.prompt) /\ Done(deed.prompt)
\* Mutant: a version is found by its id alone.
RestoreAny ==
    /\ deed.pc = "sent" /\ deed.kind = "rollback" /\ Found(deed.prompt, deed.shop)
    /\ promptRows' = [promptRows EXCEPT ![deed.prompt] = [@ EXCEPT !.text = deed.version.text, !.status = "draft",
                                                       !.model = deed.version.model]]
    /\ Record(deed.prompt) /\ Done(deed.prompt)
StoreRollback ==
    /\ deed.pc = "sent" /\ deed.kind = "rollback" /\ Found(deed.prompt, deed.shop)
    /\ deed.version.of = deed.prompt
    /\ promptRows' = [promptRows EXCEPT ![deed.prompt] = [@ EXCEPT !.text = deed.version.text, !.status = "draft",
                                                       !.model = deed.version.model]]
    /\ Record(deed.prompt) /\ Done(deed.prompt)

\* The request failed or was refused: the page says so and keeps what it shows.
DeedFails ==
    /\ deed.pc = "sent" /\ deed' = EditorResting
    /\ UNCHANGED <<store, choices, page, loads, said, unsettled, promptOps>>

\* The notice, and a load for the tenant and the status of the time of the click.
SayDone(l) ==
    /\ deed.pc = "done" /\ said' = [kind |-> deed.kind, prompt |-> deed.prompt]
    /\ LoadProfiles(l, deed.shop, deed.status, deed.prompt)
    /\ deed' = [pc |-> "reloading", by |-> l]
    /\ unsettled' = (unsettled \/ LoadUnderWay)
    /\ draft' = IF deed.kind = "create" THEN "untouched" ELSE draft
    /\ UNCHANGED <<store, choices, listedPrompts, pickedPrompt, editor, history, promptOps>>

-----------------------------------------------------------------------------
\* Loads.
CopyOf(p) == [id |-> p, text |-> promptRows[p].text, model |-> promptRows[p].model, status |-> promptRows[p].status]
ListOf(s, f) == {CopyOf(p) : p \in {q \in Prompts : Found(q, s) /\ f \in {"all", promptRows[q].status}}}
AnswerPromptList(l) ==
    /\ loads[l].pc = "asked"
    /\ loads' = [loads EXCEPT ![l] = [pc |-> "listed", shop |-> @.shop, want |-> @.want,
                                      list |-> ListOf(@.shop, @.status)]]
    /\ UNCHANGED <<store, choices, page, deed, said, unsettled, promptOps>>

Ended(l) == deed' = IF deed = [pc |-> "reloading", by |-> l] THEN EditorResting ELSE deed

\* The prompt that was wanted, else the first of the list, which is ordered by status.
Before(a, b) == a.status = b.status \/ a.status = "active" \/ b.status = "draft"
FirstOf(list) == {c \in list : \A b \in list : Before(c, b)}
Selection(l) ==
    LET wanted == {c \in loads[l].list : c.id = loads[l].want}
    IN  IF wanted # {} THEN wanted ELSE FirstOf(loads[l].list)

\* The list is shown and one is selected; its versions are asked for.
ShowProfiles(l) ==
    /\ loads[l].pc = "listed" /\ listedPrompts' = loads[l].list /\ draft' = DraftAfter(loads[l].list)
    /\ IF loads[l].list = {}
       THEN /\ pickedPrompt' = NoPick /\ editor' = Untyped /\ history' = {}
            /\ loads' = [loads EXCEPT ![l] = EditorResting] /\ Ended(l)
       ELSE \E c \in Selection(l) :
            /\ pickedPrompt' = c /\ editor' = IF c.id = pickedPrompt.id THEN editor ELSE Untyped
            /\ loads' = [loads EXCEPT ![l] = [pc |-> "versions", shop |-> @.shop, want |-> c.id]]
            /\ UNCHANGED <<history, deed>>
    /\ UNCHANGED <<store, choices, said, unsettled, promptOps>>

\* The versions of the prompt that was selected then are shown, whichever is now.
\* Versions are only ever added, so they are read when they are shown.
ShowVersions(l) ==
    /\ loads[l].pc = "versions"
    /\ history' = {v \in pastPrompts : v.of = loads[l].want /\ Found(v.of, loads[l].shop)}
    /\ loads' = [loads EXCEPT ![l] = EditorResting] /\ Ended(l)
    /\ UNCHANGED <<store, choices, listedPrompts, pickedPrompt, editor, draft, said, unsettled, promptOps>>
PromptLoadFails(l) ==
    /\ loads[l].pc # "idle" /\ loads' = [loads EXCEPT ![l] = EditorResting] /\ Ended(l)
    /\ unsettled' = TRUE
    /\ UNCHANGED <<store, choices, page, said, promptOps>>

PromptScreenNext ==
    \/ \E w \in Texts : TypeText(w) \/ TypeDraft(w)
    \/ \E m \in Models : TypeModel(m)
    \/ \E next \in {"active", "archived"} : ChangePromptStatus(next)
    \/ \E v \in history : RollbackTo(v)
    \/ \E p \in Prompts : StoreCreate(p)
    \/ HandleSave \/ HandleCreate \/ StoreSave \/ StoreStatus \/ StoreRollback \/ DeedFails
    \/ \E l \in PromptLoads :
         \/ \E s \in PromptShops : SwitchShop(l, s)
         \/ \E f \in {"all", "draft"} : SetPromptFilter(l, f)
         \/ \E c \in listedPrompts : SelectProfile(l, c)
         \/ SayDone(l) \/ AnswerPromptList(l) \/ ShowProfiles(l) \/ ShowVersions(l) \/ PromptLoadFails(l)

PromptScreenSpec == PromptScreenInit /\ [][PromptScreenNext]_promptScreenVars

-----------------------------------------------------------------------------
\* A prompt changes only by a request made while its own tenant was chosen, although
\* the list of another tenant can be on the screen when loads overlap.
ChangesStayWithTheShop ==
    [][\A p \in Prompts : promptRows[p] # Absent /\ promptRows'[p] # promptRows[p] => promptRows[p].shop = deed.shop]_promptScreenVars

\* A prompt is restored to a version of its own, although the versions of another can
\* be on the screen.
RestoredIsItsOwn ==
    deed.pc = "done" /\ deed.kind = "rollback" => deed.version.of = deed.prompt

\* While the page says that a prompt was published, archived, saved, created or
\* restored, it has the status that goes with it, until the next request is sent.
NoticeFits ==
    said.kind # "none" /\ deed.pc \in {"idle", "reloading"} =>
        promptRows[said.prompt].status = IF said.kind \in {"active", "archived"} THEN said.kind ELSE "draft"

EditorAtRest == ~LoadUnderWay /\ deed.pc = "idle" /\ ~unsettled
\* At rest the screen shows the prompts of the tenant that is chosen, the one in the
\* editor as it is stored, and versions of that one.
ListIsCurrent == EditorAtRest => listedPrompts = ListOf(shop, statusShown)
EditorIsCurrent == EditorAtRest /\ pickedPrompt # NoPick => pickedPrompt = CopyOf(pickedPrompt.id)
VersionsAreOfTheSelected == EditorAtRest => \A v \in history : v.of = pickedPrompt.id

\* What was typed for a new prompt stays while lists come and requests fail: it goes
\* when a prompt was created, or another one is the active one on the screen.
DraftStays ==
    [][draft # "untouched" /\ draft' = "untouched" =>
         \/ deed.pc = "done" /\ deed.kind = "create"
         \/ ActiveId(listedPrompts') # ActiveId(listedPrompts)]_promptScreenVars

=============================================================================
