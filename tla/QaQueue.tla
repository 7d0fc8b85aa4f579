-------------------------------- MODULE QaQueue --------------------------------
(***************************************************************************)
(* The calibration queue: conversations ranked for manual review           *)
(* (hono services/conversations.ts) and the console page that shows them   *)
(* under a filter and grades them (apps/web internal/page.tsx and           *)
(* _components/QaReview.tsx).  Colleagues grade too, and automatic checks   *)
(* run with every reply.  The score of an automatic check is taken to go   *)
(* with its grade, and the escalation filter with the hallucination one.   *)
(***************************************************************************)
EXTENDS Naturals, Sequences, FiniteSets

CONSTANTS
    Chats,         \* conversations
    QueueLimit,    \* how many the queue holds
    QueueLoads,    \* loads that can be under way at once
    MaxQaOps       \* bound: clicks, and what others do

ASSUME QaAssumption == IsFiniteSet(Chats) /\ QueueLimit \in Nat \ {0} /\ MaxQaOps \in Nat

VARIABLES
    chats,         \* grade, hallucination flag and automatic check of each conversation
    newest,        \* the conversations, last updated first
    qaFilter,      \* the filter chosen
    queued,        \* the copies of conversations shown
    queueLoads,    \* loads under way
    grading,       \* the grade being saved
    graded,        \* "Conversation grading saved.": of which, as what
    qaError,       \* the page shows an error
    cut,           \* a load left out conversations that match, for the limit
    qaCrossed,       \* a load overlapped with another or with a grade, or failed
    outdated,      \* others changed conversations: since the last answer, or before it
    qaOps

qaVars == <<chats, newest, qaFilter, queued, queueLoads, grading, graded, qaError, cut, qaCrossed,
            outdated, qaOps>>
qaShown == <<qaFilter, queued, graded, qaError>>

QaFilters == {"needs_review", "failed", "hallucination", "ungraded", "all"}
Grades == {"none", "good", "bad"}
Autos == {"none", "review", "fail"}
Reviewed == [grade : Grades, flag : BOOLEAN, auto : Autos, risk : BOOLEAN]
QaCopies == [id : Chats, grade : Grades, flag : BOOLEAN, auto : Autos, risk : BOOLEAN]
NotLoading == [pc |-> "idle"]
NotGrading == [pc |-> "idle"]
NoneGraded == [saved |-> FALSE]

QaTypeOK ==
    /\ chats \in [Chats -> Reviewed] /\ qaFilter \in QaFilters /\ queued \subseteq QaCopies
    /\ Len(newest) = Cardinality(Chats) /\ \A c \in Chats : \E i \in DOMAIN newest : newest[i] = c
    /\ \A l \in QueueLoads :
         \/ queueLoads[l] = NotLoading
         \/ queueLoads[l] \in [pc : {"asked"}, filter : QaFilters]
         \/ /\ queueLoads[l].pc = "answered" /\ queueLoads[l].list \subseteq QaCopies
            /\ Cardinality(queueLoads[l].list) <= QueueLimit
    /\ grading = NotGrading
       \/ grading \in [pc : {"sent", "stored"}, id : Chats, grade : {"good", "bad"}, flag : BOOLEAN,
                       under : QaFilters]
    /\ {qaError, cut, qaCrossed} \subseteq BOOLEAN /\ outdated \in {"no", "since", "before"}
    /\ qaOps \in 0..MaxQaOps

-----------------------------------------------------------------------------
\* The service.
Ungraded(c) == chats[c].grade = "none"
NeedsReview(c) == Ungraded(c) /\ (chats[c].auto \in {"fail", "review"} \/ chats[c].risk)

\* matchesCalibrationFilter
Matches(c, f) ==
    CASE f = "all" -> TRUE
      [] f = "ungraded" -> Ungraded(c)
      [] f = "failed" -> Ungraded(c) /\ chats[c].auto = "fail"
      [] f = "hallucination" -> Ungraded(c) /\ (chats[c].risk \/ chats[c].flag)
      [] f = "needs_review" -> NeedsReview(c)

CalibrationPriority(c) ==
    (IF Ungraded(c) THEN 100 ELSE 0)
    + (IF chats[c].auto = "fail" THEN 80 ELSE IF chats[c].auto = "review" THEN 45 ELSE 0)
    + (IF chats[c].risk THEN 35 ELSE 0)

At(c) == CHOOSE i \in DOMAIN newest : newest[i] = c
\* The sort is stable, so of equals the one updated last comes first.
Above(c, d) ==
    \/ CalibrationPriority(c) > CalibrationPriority(d)
    \/ CalibrationPriority(c) = CalibrationPriority(d) /\ At(c) < At(d)
First(S) == {c \in S : Cardinality({d \in S : Above(d, c)}) < QueueLimit}
Matching(f) == {c \in Chats : Matches(c, f)}
Queue(f) == First(Matching(f))

QaCopy(c) == [id |-> c, grade |-> chats[c].grade, flag |-> chats[c].flag, auto |-> chats[c].auto,
              risk |-> chats[c].risk]
\* c moves to the front, and what was above it one down.
Touch(c) == newest' = [i \in DOMAIN newest |-> IF i = 1 THEN c ELSE IF i <= At(c) THEN newest[i - 1]
                                                ELSE newest[i]]

-----------------------------------------------------------------------------
\* The page.
QaInit ==
    /\ chats \in [Chats -> [grade : {"none"}, flag : {FALSE}, auto : Autos, risk : BOOLEAN]]
    /\ newest \in {s \in [1..Cardinality(Chats) -> Chats] : \A c \in Chats : \E i \in DOMAIN s : s[i] = c}
    /\ qaFilter = "all" /\ queued = {} /\ grading = NotGrading /\ graded = NoneGraded
    /\ \E l \in QueueLoads :
         queueLoads = [m \in QueueLoads |-> IF m = l THEN [pc |-> "asked", filter |-> "all"]
                                            ELSE NotLoading]
    /\ qaError = FALSE /\ cut = FALSE /\ qaCrossed = FALSE /\ outdated = "no" /\ qaOps = 0

QaOp == qaOps < MaxQaOps /\ qaOps' = qaOps + 1
QueueLoading == \E l \in QueueLoads : queueLoads[l] # NotLoading

\* loadCalibrationQueuePanel, by the button or with another filter.
LoadQueue(l, f) ==
    /\ QaOp /\ queueLoads[l] = NotLoading /\ (f = qaFilter => ~QueueLoading)
    /\ qaFilter' = f /\ qaError' = FALSE
    /\ queueLoads' = [queueLoads EXCEPT ![l] = [pc |-> "asked", filter |-> f]]
    /\ qaCrossed' = (qaCrossed \/ QueueLoading \/ grading # NotGrading)
    /\ UNCHANGED <<chats, newest, queued, grading, graded, cut, outdated>>
AnswerQueue(l) ==
    /\ queueLoads[l].pc = "asked"
    /\ queueLoads' = [queueLoads EXCEPT ![l] = [pc |-> "answered",
                                                list |-> {QaCopy(c) : c \in Queue(@.filter)}]]
    /\ cut' = (Cardinality(Matching(queueLoads[l].filter)) > QueueLimit)
    /\ outdated' = IF outdated = "no" THEN "no" ELSE "before"
    /\ UNCHANGED <<chats, newest, qaShown, grading, qaCrossed, qaOps>>
ShowQueue(l) ==
    /\ queueLoads[l].pc = "answered" /\ queued' = queueLoads[l].list
    /\ queueLoads' = [queueLoads EXCEPT ![l] = NotLoading]
    /\ UNCHANGED <<chats, newest, qaFilter, grading, graded, qaError, cut, qaCrossed, outdated, qaOps>>
\* The list of before stays, under the error.
QueueFails(l) ==
    /\ queueLoads[l] # NotLoading /\ queueLoads' = [queueLoads EXCEPT ![l] = NotLoading]
    /\ qaError' = TRUE /\ qaCrossed' = TRUE
    /\ UNCHANGED <<chats, newest, qaFilter, queued, grading, graded, cut, outdated, qaOps>>

\* The buttons of a row: good, bad, or the hallucination flag turned over as it is shown.
GradesOf(c) == {<<"good", FALSE>>, <<"bad", FALSE>>, <<"bad", ~c.flag>>}
HandleGrade(c, g) ==
    /\ QaOp /\ c \in queued /\ grading = NotGrading /\ g \in GradesOf(c)
    /\ grading' = [pc |-> "sent", id |-> c.id, grade |-> g[1], flag |-> g[2], under |-> qaFilter]
    /\ graded' = NoneGraded /\ qaError' = FALSE /\ qaCrossed' = (qaCrossed \/ QueueLoading)
    /\ UNCHANGED <<chats, newest, qaFilter, queued, queueLoads, cut, outdated>>
StoreGrade ==
    /\ grading.pc = "sent" /\ grading' = [grading EXCEPT !.pc = "stored"] /\ Touch(grading.id)
    /\ chats' = [chats EXCEPT ![grading.id].grade = grading.grade, ![grading.id].flag = grading.flag]
    /\ UNCHANGED <<qaShown, queueLoads, cut, qaCrossed, outdated, qaOps>>

Updated == {IF c.id = grading.id THEN [c EXCEPT !.grade = grading.grade, !.flag = grading.flag] ELSE c :
              c \in queued}
\* Mutant: what was graded stays on the list.
StayUpdated(f) == Updated
StillShown(f) == {c \in Updated : f = "all" \/ c.grade = "none"}
\* The answer replaces the copy; under a filter of its own, of the time of the click,
\* what is graded leaves the list.
ShowGrade ==
    /\ grading.pc = "stored" /\ grading' = NotGrading
    /\ queued' = StillShown(grading.under)
    /\ graded' = [saved |-> TRUE, id |-> grading.id, grade |-> grading.grade, flag |-> grading.flag]
    /\ UNCHANGED <<chats, newest, qaFilter, queueLoads, qaError, cut, qaCrossed, outdated, qaOps>>
GradeFails ==
    /\ grading.pc = "sent" /\ grading' = NotGrading /\ qaError' = TRUE
    /\ UNCHANGED <<chats, newest, qaFilter, queued, queueLoads, graded, cut, qaCrossed, outdated, qaOps>>

\* A colleague grades a conversation, a new reply is checked.
ColleagueGrades(c, g) ==
    /\ QaOp /\ chats' = [chats EXCEPT ![c].grade = g] /\ chats' # chats /\ Touch(c) /\ outdated' = "since"
    /\ UNCHANGED <<qaShown, queueLoads, grading, cut, qaCrossed>>
AutoQa(c, a, r) ==
    /\ QaOp /\ chats' = [chats EXCEPT ![c].auto = a, ![c].risk = r] /\ chats' # chats
    /\ Touch(c) /\ outdated' = "since"
    /\ UNCHANGED <<qaShown, queueLoads, grading, cut, qaCrossed>>

QaNext ==
    \/ StoreGrade \/ ShowGrade \/ GradeFails
    \/ \E c \in queued : \E g \in GradesOf(c) : HandleGrade(c, g)
    \/ \E c \in Chats : \/ \E g \in {"good", "bad"} : ColleagueGrades(c, g)
                        \/ \E a \in Autos \ {"none"}, r \in BOOLEAN : AutoQa(c, a, r)
    \/ \E l \in QueueLoads : \/ AnswerQueue(l) \/ ShowQueue(l) \/ QueueFails(l)
                             \/ \E f \in QaFilters : LoadQueue(l, f)

QaSpec == QaInit /\ [][QaNext]_qaVars

-----------------------------------------------------------------------------
QaSettled == ~QueueLoading /\ grading = NotGrading /\ ~qaCrossed

\* A conversation that was graded is off the list of every filter but "all", unless a
\* load overlapped with the grading or with another load.
GradedLeavesTheQueue == QaSettled /\ qaFilter # "all" => \A c \in queued : c.grade = "none"

\* "The calibration queue is clear for this filter." is true when the page at rest shows
\* it, except for conversations the limit had left out and what others have done since.
ClearIsClear ==
    QaSettled /\ ~qaError /\ ~cut /\ outdated # "since" /\ queued = {} => Matching(qaFilter) = {}

\* While "Conversation grading saved." is on the screen the conversation has that grade,
\* unless others have worked on it since.
SavedIsStored ==
    graded.saved /\ outdated = "no" /\ grading = NotGrading /\ ~qaCrossed =>
        chats[graded.id].grade = graded.grade /\ chats[graded.id].flag = graded.flag

\* The queue never holds a conversation that was graded while it leaves out one that
\* was not, if the automatic check found the same in both.
UngradedBeforeItsLike ==
    \A c \in Queue("all"), d \in Chats \ Queue("all") :
        chats[c].auto = chats[d].auto /\ chats[c].risk = chats[d].risk /\ Ungraded(d) => Ungraded(c)
=============================================================================
