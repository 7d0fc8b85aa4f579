---------------------------- MODULE ClientsScreen ----------------------------
(***************************************************************************)
(* The console screen of the client workspaces (apps/web/src/app/internal/ *)
(* clients): the directory, onboarding a client, its profile, agreement    *)
(* (DPA), retention and account status.  The forms hold copies of what was *)
(* loaded; an effect refills them all whenever the workspace looked at, or *)
(* its loaded record, becomes another.                                     *)
(***************************************************************************)
EXTENDS Naturals, FiniteSets

CONSTANTS
    Shops,       \* the clients, onboarded and to be
    MaxRecord,   \* bound: versions of a client's record
    MaxDrafts,   \* bound: onboarding forms opened
    NoShop       \* none

ASSUME ShopAssumption == MaxRecord \in Nat \ {0} /\ MaxDrafts \in Nat /\ NoShop \notin Shops

VARIABLES
    shopRecord,  \* the server's records: their version, 0 before there is one
    typedFor,    \* the client in whose form the last stored change was typed
    directory,   \* the records as loaded, or NoShop
    refreshing,  \* the load of the refresh button
    selected,    \* selectedClientId
    formMode,    \* "edit" or "create"
    info,        \* the profile form: whose it is, the version it was filled from, dirty
    terms,       \* the agreement and retention forms, likewise
    errand,      \* the command under way, and the load that follows it
    drafts,      \* onboarding forms opened so far
    onboarded,   \* those a client was made from
    made,        \* the clients that were made from them
    mishap       \* what went wrong on the way: "load", "answer", "twice", "crossed"

shopVars == <<shopRecord, typedFor, directory, refreshing, selected, formMode, info, terms, errand,
              drafts, onboarded, made, mishap>>

NoErrand == [pc |-> "nothing"]
FilledFrom(of, ver) == [of |-> of, ver |-> ver, dirty |-> FALSE]
Blank == FilledFrom(NoShop, 0)
Records == [Shops -> 0..MaxRecord]
Forms == [of : Shops \cup {NoShop}, ver : 0..MaxRecord, dirty : BOOLEAN]
ShopsLoad == [pc : {"asked"}] \cup [pc : {"served"}, got : Records]

ShopsTypeOK ==
    /\ shopRecord \in Records /\ typedFor \in [Shops -> Shops \cup {NoShop}]
    /\ (directory = NoShop \/ directory \in Records)
    /\ refreshing \in {NoErrand} \cup ShopsLoad
    /\ selected \in Shops \cup {NoShop} /\ formMode \in {"edit", "create"}
    /\ info \in Forms /\ terms \in Forms
    /\ (formMode = "create" => info.of = NoShop)
    /\ \/ errand \in {NoErrand} \cup ShopsLoad
       \/ errand \in [pc : {"create"}, draft : 1..MaxDrafts]
       \/ errand \in [pc : {"update", "terms", "status", "preview"}, at : Shops, of : Shops]
       \/ errand \in [pc : {"done"}, kind : {"create", "update", "terms", "status", "preview"},
                      at : Shops, ver : 1..MaxRecord]
    /\ drafts \in 0..MaxDrafts /\ onboarded \subseteq 1..MaxDrafts /\ made \subseteq Shops
    /\ mishap \subseteq {"load", "answer", "twice", "crossed"}

ShopsInit ==
    /\ \E known \in SUBSET Shops \ {{}} : shopRecord = [c \in Shops |-> IF c \in known THEN 1 ELSE 0]
    /\ typedFor = [c \in Shops |-> NoShop]
    /\ directory = NoShop /\ refreshing = [pc |-> "asked"] /\ selected = NoShop
    /\ formMode = "edit" /\ info = Blank /\ terms = Blank
    /\ errand = NoErrand /\ drafts = 0 /\ onboarded = {} /\ made = {} /\ mishap = {}

Onboarded(list) == {c \in Shops : list[c] # 0}

\* selectedClient: the one selected when the directory has it, else the first it has.
LookedAt(list, sel, first) == IF sel \in Onboarded(list) THEN sel ELSE first

\* The effect: in edit mode all forms are filled from the loaded record of the
\* client looked at, when that record is another than before; else, and with no
\* client loaded, they are as the handler left them.
Refill(mode, sel, list, form, side, changed) ==
    IF list = NoShop \/ mode = "create" \/ ~changed
    THEN info' = form /\ terms' = side
    ELSE \E first \in Onboarded(list) :
            LET c == LookedAt(list, sel, first) IN
            info' = FilledFrom(c, list[c]) /\ terms' = FilledFrom(c, list[c])

ShopsLoading == refreshing # NoErrand \/ errand.pc \in {"asked", "served"}

RefreshShops == /\ ~ShopsLoading /\ refreshing' = [pc |-> "asked"]
                /\ UNCHANGED <<shopRecord, typedFor, directory, selected, formMode, info, terms, errand,
                               drafts, onboarded, made, mishap>>

ShopsServed == /\ \/ /\ refreshing.pc = "asked" /\ UNCHANGED errand
                     /\ refreshing' = [pc |-> "served", got |-> shopRecord]
                  \/ /\ errand.pc = "asked" /\ UNCHANGED refreshing
                     /\ errand' = [pc |-> "served", got |-> shopRecord]
               /\ UNCHANGED <<shopRecord, typedFor, directory, selected, formMode, info, terms, drafts,
                              onboarded, made, mishap>>

\* The records arrive; the first is selected when none is.
ShowDirectory(got) ==
    /\ directory' = got
    /\ selected' \in (IF selected = NoShop THEN Onboarded(got) ELSE {selected})
    /\ Refill(formMode, selected', got, info, terms, TRUE)
    /\ UNCHANGED <<shopRecord, typedFor, formMode, drafts, onboarded, made, mishap>>

ShopsShown == \/ /\ refreshing.pc = "served" /\ ShowDirectory(refreshing.got)
                 /\ refreshing' = NoErrand /\ UNCHANGED errand
              \/ /\ errand.pc = "served" /\ ShowDirectory(errand.got)
                 /\ errand' = NoErrand /\ UNCHANGED refreshing

ShopsLost == /\ \/ refreshing.pc = "asked" /\ refreshing' = NoErrand /\ UNCHANGED errand
                \/ errand.pc = "asked" /\ errand' = NoErrand /\ UNCHANGED refreshing
             /\ mishap' = mishap \cup {"load"}
             /\ UNCHANGED <<shopRecord, typedFor, directory, selected, formMode, info, terms, drafts,
                            onboarded, made>>

\* Mutant: another client keeps the profile form.
EditOnly(c) == /\ directory # NoShop /\ c \in Onboarded(directory)
               /\ formMode' = "edit" /\ selected' = c /\ info' = [info EXCEPT !.of = IF @ = NoShop THEN c ELSE @]
               /\ terms' = FilledFrom(c, directory[c])
               /\ UNCHANGED <<shopRecord, typedFor, directory, refreshing, errand, drafts, onboarded, made,
                              mishap>>
\* A client chosen in the directory: every form is filled from its record.
StartEdit(c) == /\ directory # NoShop /\ c \in Onboarded(directory)
                /\ formMode' = "edit" /\ selected' = c
                /\ info' = FilledFrom(c, directory[c]) /\ terms' = FilledFrom(c, directory[c])
                /\ UNCHANGED <<shopRecord, typedFor, directory, refreshing, errand, drafts, onboarded, made,
                               mishap>>

\* Onboarding a client: empty forms, and nothing selected.
StartCreate == /\ drafts < MaxDrafts /\ drafts' = drafts + 1
               /\ formMode' = "create" /\ selected' = NoShop /\ info' = Blank /\ terms' = Blank
               /\ UNCHANGED <<shopRecord, typedFor, directory, refreshing, errand, onboarded, made, mishap>>

FormIsShown == formMode = "create" \/ directory # NoShop

TypeIn(form) == [form EXCEPT !.dirty = TRUE]
EditInfo == /\ FormIsShown /\ info' = TypeIn(info)
            /\ UNCHANGED <<shopRecord, typedFor, directory, refreshing, selected, formMode, terms,
                           errand, drafts, onboarded, made, mishap>>
EditTerms == /\ formMode = "edit" /\ directory # NoShop /\ terms' = TypeIn(terms)
             /\ UNCHANGED <<shopRecord, typedFor, directory, refreshing, selected, formMode, info,
                            errand, drafts, onboarded, made, mishap>>
Discard == /\ errand = NoErrand /\ info' = [info EXCEPT !.dirty = FALSE]
           /\ UNCHANGED <<shopRecord, typedFor, directory, refreshing, selected, formMode, terms,
                          errand, drafts, onboarded, made, mishap>>

\* One command at a time; what it is about is fixed when it is given.
Order(job) == /\ errand = NoErrand /\ errand' = job
              /\ mishap' = IF ShopsLoading THEN mishap \cup {"crossed"} ELSE mishap
              /\ UNCHANGED <<shopRecord, typedFor, directory, refreshing, selected, formMode, info,
                             terms, drafts, onboarded, made>>

\* Saving the profile form: a new client in create mode, otherwise the one selected.
SaveClient ==
    /\ info.dirty /\ FormIsShown
    /\ Order(IF formMode = "create" THEN [pc |-> "create", draft |-> drafts]
            ELSE [pc |-> "update", at |-> selected, of |-> info.of])

OnSelected(kind, of) == /\ formMode = "edit" /\ directory # NoShop /\ selected # NoShop
                        /\ Order([pc |-> kind, at |-> selected, of |-> of])

SaveDpaProfile == terms.dirty /\ OnSelected("terms", terms.of)
ChangeStatus == OnSelected("status", selected)
\* The cleanup and its preview are offered for a stored, unedited policy.
PreviewRetention == ~terms.dirty /\ OnSelected("preview", selected)
RunRetention == ~terms.dirty /\ OnSelected("status", selected)

StoreFor(c, of) == /\ shopRecord[c] < MaxRecord /\ shopRecord' = [shopRecord EXCEPT ![c] = @ + 1]
                  /\ typedFor' = [typedFor EXCEPT ![c] = of]

\* The server carries the command out.
ErrandServed ==
    /\ \/ /\ errand.pc = "create"
          /\ \E c \in Shops \ Onboarded(shopRecord) :
                /\ StoreFor(c, c) /\ errand' = [pc |-> "done", kind |-> "create", at |-> c, ver |-> 1]
                /\ made' = made \cup {c}
          /\ onboarded' = onboarded \cup {errand.draft}
          /\ mishap' = IF errand.draft \in onboarded THEN mishap \cup {"twice"} ELSE mishap
       \/ /\ errand.pc \in {"update", "terms", "status"}
          /\ StoreFor(errand.at, errand.of)
          /\ errand' = [pc |-> "done", kind |-> errand.pc, at |-> errand.at,
                        ver |-> shopRecord[errand.at] + 1]
          /\ UNCHANGED <<onboarded, made, mishap>>
       \/ /\ errand.pc = "preview"
          /\ errand' = [pc |-> "done", kind |-> "preview", at |-> errand.at,
                        ver |-> shopRecord[errand.at]]
          /\ UNCHANGED <<shopRecord, typedFor, onboarded, made, mishap>>
    /\ UNCHANGED <<directory, refreshing, selected, formMode, info, terms, drafts>>

\* The server refuses, or the answer is lost.
ErrandFails == /\ errand.pc \notin {"nothing", "asked", "served"}
               /\ mishap' = IF errand.pc = "done" THEN mishap \cup {"answer"} ELSE mishap
               /\ errand' = NoErrand
               /\ UNCHANGED <<shopRecord, typedFor, directory, refreshing, selected, formMode, info,
                              terms, drafts, onboarded, made>>

\* Saving the profile always leads to editing what was saved.
ModeAfter(kind) == IF kind \in {"create", "update"} THEN "edit" ELSE formMode

\* The answer: its client is selected, whatever was selected meanwhile, and the
\* form of the command filled from it; then the directory is loaded again. A
\* client the directory does not have yet leaves the effect looking at the first.
ErrandAnswered ==
    /\ errand.pc = "done" /\ errand.kind # "preview"
    /\ LET c == errand.at
           mode == ModeAfter(errand.kind)
           filled == FilledFrom(c, errand.ver) IN
       /\ formMode' = mode /\ selected' = c
       /\ Refill(mode, c, directory,
                 IF errand.kind \in {"create", "update"} /\ mode = "edit" THEN filled ELSE info,
                 IF errand.kind = "terms" THEN filled ELSE terms,
                 c # selected \/ mode # formMode)
    /\ errand' = [pc |-> "asked"]
    /\ mishap' = IF ShopsLoading THEN mishap \cup {"crossed"} ELSE mishap
    /\ UNCHANGED <<shopRecord, typedFor, directory, refreshing, drafts, onboarded, made>>

PreviewAnswered == /\ errand.pc = "done" /\ errand.kind = "preview" /\ errand' = NoErrand
                   /\ UNCHANGED <<shopRecord, typedFor, directory, refreshing, selected, formMode, info,
                                  terms, drafts, onboarded, made, mishap>>

ShopsNext ==
    \/ RefreshShops \/ ShopsServed \/ ShopsShown \/ ShopsLost
    \/ StartCreate \/ EditInfo \/ EditTerms \/ Discard
    \/ SaveClient \/ SaveDpaProfile \/ ChangeStatus \/ PreviewRetention \/ RunRetention
    \/ ErrandServed \/ ErrandFails \/ ErrandAnswered \/ PreviewAnswered
    \/ \E c \in Shops : StartEdit(c)

ShopsSpec == ShopsInit /\ [][ShopsNext]_shopVars

-----------------------------------------------------------------------------
Calm == mishap \cap {"load", "crossed"} = {}

\* What is stored for a client was typed in a form filled from that client. Only one that was onboarded
\* here may get what was typed for another: when the load after its command failed, or two loads crossed,
\* it is selected without being listed, and the forms show the first client of the list.
StoredIsTypedForIt == \A c \in Shops : typedFor[c] \in {c, NoShop} \/ (c \in made /\ ~Calm)

\* One onboarding form makes one client, unless its answer was lost.
OneClientPerDraft == "twice" \in mishap => "answer" \in mishap

\* With nothing under way, the forms are of the client that is selected, whatever was lost, unless that one
\* was onboarded here; and without mishaps an untouched form shows its record as the server has it (only
\* this screen changes records here).
FormsAreCurrent ==
    errand = NoErrand /\ refreshing = NoErrand /\ formMode = "edit" /\ directory # NoShop
    => \A form \in {info, terms} :
         /\ selected \notin made => form.of = selected
         /\ Calm /\ "answer" \notin mishap /\ ~form.dirty =>
              form.of = selected /\ form.ver = shopRecord[selected]
=============================================================================
