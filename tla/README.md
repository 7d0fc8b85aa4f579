# Verification of the Daemion AI front desk

TLA+ models of the AI front desk in this repository, TLC configurations that check them on
small instances, and TLAPS proofs about its core for every instance. The models follow the
deployed backend `apps/hono-api` (a Cloudflare Worker over Postgres), the voice runtime
`voice-agent`, the NestJS predecessor `apps/api`, which works on the same schema, and the
screens of `apps/web`. File names below are relative to `apps/hono-api/src` unless they start
with another directory.

One fact shapes everything: **the backend uses no database transaction**. A request is a
series of awaited statements; between any two of them other requests run, and after any
of them the request may throw or its isolate may die. So an action of a model is one
statement (or one network call), a request is a small record with a program counter, and
what a request has read and still holds is part of that record. A `Crash` or `Fail`
action ends a request between two statements. The screens are the same in small: an async
handler is cut at its awaits, and answers arrive in any order or not at all.

## Inventory

| Part | State it keeps | Operations | Hard behaviour | What makes it correct |
|---|---|---|---|---|
| Message intake (`routes/channels.ts`, `services/conversations.ts`) | conversation, message and ticket rows, link conversation → ticket | webhook batch, duplicate check, AI reply, ticket creation, alert, send, CSAT, manual takeover | at-least-once webhooks, overlapping deliveries, crash between reply row and ticket, race for a new conversation row | links point to real tickets of the same conversation; an escalation has a ticket; what was answered is not answered again; a batch settles in the end |
| Ticket desk (`services/conversations.ts`, `services/clients.ts`) | ticket row with version, comments, events | read, status, owner, comment, from two consoles | optimistic lock that only some callers use; comment stored before the bump; event after the write | no unseen overwrite; status and harvested drafts are explained by the audit trail |
| Knowledge base (`services/knowledge.ts`) | entries, version history, search index, change requests, their audit events | create, update, roll back, activate, archive, reindex, submit, review, publish | five statements per publication, overtaking jobs, stale snapshots, half-done publications | a version number names one content; history and audit are complete; what is published is what was decided |
| Outbound actions (`services/action-governance.ts`, `services/connectors.ts`) | action rows, policy, connector write queue | submit, approve, reject, write, queue, replay, set policy | two deciders, two replays, a timeout that hides an effect | money moves only if sanctioned; "executed" and "replayed" are true; no undisturbed double effect |
| Voice calls (`voice-agent/`, `routes/voice.ts`, `services/call-persistence.ts`, `interaction-scoring.ts`, `escalation.ts`) | slots, session, timers, call row, transcript, scores | offer, negotiate, connect, turn, barge-in, hang up, time out | callbacks of one call interleave; every backend request may fail or lose its answer | slots are counted and returned; the transcript keeps its order; scored calls are ended |
| Call widget (`apps/web` `widget/_lib/use-voice-call.ts`) | refs of the hook, panel status, connections | call, end, unmount, callbacks | refs read after an await; a second press over an unfinished one | a call is closed once, turns keep their index, microphone and connection are released |
| Caller threads (`services/telephony.ts`, `thread-state.ts`, `qualification.ts`, `read-lookup.ts`) | numbers, threads with a state document, verdicts | resolve, start, patch, look up, qualify | read, merge, write of one document | overlapping patches add up; nothing is fabricated |
| Escalations and console (`services/escalation.ts`, `anchor-console.ts`, `operator-access.ts`) | escalation rows, access grants, the console's queue | list, take, resolve, grant, revoke | access revoked between load and click; a load for the client left behind | changes happen with access and stay with their client |
| Prompt profiles (`services/prompts.ts`, `apps/api` twin) | profiles, versions, variants | draft, publish, archive, roll back, choose a variant | two services on one table, one with and one without transactions | a version names one wording; one active profile unless publications overlap |
| Sign-in codes (`services/auth.ts`, twin, two pages) | challenges, mails, pages | request, resend, verify, sign up | lost answers, expiry by two clocks | the shown challenge is stored, one sign-up makes one workspace |
| Meta OAuth (`services/meta-oauth.ts`, twin) | sessions, pages, channels, subscription | start, call back, select, disconnect | three writes and an external call | a page said to be live is live; a page stays with its workspace |
| Channel rules (`services/channel-admin.ts`, `apps/api` auto-reply) | rules, their activity | seed, edit, answer | two services seed and edit the same rows | seeded once, edits are kept |
| Workspace set-up (`services/clients.ts`, two pages) | client row with the onboarding document | submit, review, patch | JSON document read, merged and written back | what was acknowledged is kept |
| Request limits (`packages/shared/src/rate-limit.ts`) | windows in Redis and in memory | check, fall back, restart | counted in Redis, answer lost | the limit holds in every window |
| Legacy NestJS API (`apps/api/src`) | same tables, sheet cache | sync, webhook, publish, import, mark, link, compliance | other order of statements, some transactions | see the table of modules |
| Screens (`apps/web/src/app`) | React state and requests under way | load, select, edit, send | answers in any order, selection changed meanwhile | what is shown and sent is about the thing selected |
| Answer generation, audit sink, tenant secrets, delivery, parked telephony, importers | – | – | – | not modelled, see below |

Interactions. Intake creates the tickets the desk works on, by inserting rows; a ticket that
is resolved becomes a knowledge draft (`Harvest` in TicketDesk is `CreateDraft` in
KnowledgeBase); active entries and prompt profiles feed the model call of intake, which is an
arbitrary outcome there; voice calls raise escalations, which the console takes, and submit
actions, which the inbox decides; the page connected by OAuth is the one the webhooks route
by; rate limits stand in front of every route; the screens call the routes. The components
meet only through rows written by one and read by another, never in one step, so each has a
module of its own, and the composed runs explore them side by side.

## Modules

Core, each with its proofs in a module `...Proofs` (the intake and both ends of a call in
`CustomerContactProofs`):

| Module | Models |
|---|---|
| `MessageIntake` | one action per statement of `handleIncomingMessage`, of the webhook loop and of the takeover |
| `IntakeContract` | the abstract promise for one message: admissions, answer, tickets, sends; `MessageIntake` implements it (`ImplementsContract`) |
| `TicketDesk` | one ticket and several people |
| `KnowledgeBase` | entries and change requests of one tenant |
| `OutboundActions` | governance gate, approvals inbox, connector, write queue |
| `VoiceCalls` | admission, session, callbacks, backend rows |
| `WidgetCall` | the hook behind the call button of the widget |

Tenant services, composed in `MCTenantServices`: `PromptProfiles` (two services on two
tables), `AnchorConsole` (escalations, access, console page), `CallerThreads` (numbers,
thread documents, lookups, verdicts), `PageConnection` (OAuth), `SignInCodes`,
`WorkspaceSetup`, `ChannelAdmin` (rules of automatic replies), `RateLimits`.

NestJS API, composed in `MCLegacyApi`: `ExternalData` (sheet synchronisation in READ
COMMITTED transactions whose statements interleave), `LegacyInbox` (webhooks and web chat),
`LegacyKnowledge` (change requests in several transactions; entries by import, template and
harvest, with their reindexing), `SenderMarks` (blocking, with the screen that shows it),
`LegacyClients` (channels and the primary page), `LegacyCompliance` (agreement, retention,
clean-up).

Screens: `TicketScreen` (composed with the desk in `MCTicketDesk`), and in `MCWebApp`
`ClientDesk`, `KbReviewScreen`, `KnowledgeScreen`, `ConversationScreen`, `ClientsScreen`,
`AlertCenter`, `ClientKnowledge`, `PromptScreen`, `QaQueue`.

`MCMessageIntake`, `MCOutboundActions`, `MCLiveness` give constants, symmetry and scenarios to
TLC. `PROJECT.json` maps every definition to the lines it stands
for. Definitions whose comment begins with "Mutant" are seeded bugs: each property of a
passing run is broken by one of them, which shows that the property depends on the code it
is about.

### MessageIntake

`run[h]` is one webhook request: its batch, the position in it, and the locals
`alreadyProcessed`, the model's outcome and the ticket. `conv`, `inbound`, `reply`,
`tickets`, `pinged` are the tables; `reply[m]` is the row `reply:<message id>` that doubles
as duplicate marker. Messenger and WhatsApp webhooks work through a batch in order; a thrown
error leaves the rest of the batch undone and the platform delivers the whole batch again
(`Deliver`), and may repeat a batch needlessly (`Duplicate`). The model call is a choice from
`Outcomes`: answer, or escalate with a priority. A new conversation is looked up and then
inserted; the unique index refuses the second of two racing inserts and the request throws.
An entry whose page is unknown throws before the handler (`AtRoute`). The takeover reads the
conversation, inserts a ticket, its event and the link, in steps of its own (`desk[o]`).

### TicketDesk

`actor[a]` holds the page a person has open (`seen`, `seenComments`) and the request in
progress. A write may or may not carry `expectedVersion`. The audit event's key contains
the value and the millisecond, hence `clock` and `lostEvents`.

### KnowledgeBase

`job[w]` is one HTTP request: the row its last `RETURNING` gave it, what reindex still has
to do, the change request it serves. A publication is `BeginPublish` (checks),
`PublishDraft`, `WriteEmbedding`, `RecordVersion`, `Activate`, `RecordVersion`, `Close`,
`RecordEvent`. Title, answer and keywords are one `content`. `disturbed`, `contested`,
`reopened` and `source` are history variables that let the properties say when nobody
else was at work.

### OutboundActions

`agent[a]` is the request that carries action `a` to the gate, `decision[p]` an approver's
request, `replay[w]` a replay. A connector write has three outcomes: effect and answer, no
effect, effect without answer (`timeouts`). An action that names no connector (`Named`) is not
carried out: its row says "failed". `applied` is the tenant's own system. `raced`,
`highest` and `sanctioned` are history variables: decisions or replays overlapped, the
highest threshold ever in force, what was within a policy or approved.

### VoiceCalls and WidgetCall

The browser's offer is checked against the ceiling, negotiated, and only then counted.
Each live call has a connect handler, a disconnect handler, a duration timer if its session has
a time limit (`Timed`) and at most one turn being stored, all of them separate tasks. A backend request is carried out and
answered, fails, or is carried out without its answer arriving. In the widget every press of
Call and of End is an execution of its own (`startAt`, `endAt`); the refs are shared; a
finalize request in flight is a member of `posts`; `pressedOver` remembers that a press came
over an unfinished one. The call is live as soon as the transport says so (`TransportLive`), while
`connect()` is still awaited: it resolves later (`TransportReady`) or rejects after all
(`StartFails`).

### AlertCenter and ClientsScreen

`seenRef` is the set of ids of one page, in the order of insertion; `seenIds` is what the browser
stores of it: the latest `Kept` of them (200 in the code), or what was there before when the write
is refused, which the code ignores. A page opened again reads `seenIds`, or nothing when the read
throws; `forgotten` collects what the page before knew and this one does not. So a ticket may be
announced again: `AnnouncedOnce` says that only a forgotten one is, and that none is forgotten
before there were more urgent tickets than are kept, unless the browser refused. Two pages that are
open at once and write over each other's ids are not modelled.

`made` are the clients that were onboarded on the screen, `mishap` says what went wrong: a load or
an answer was lost, a command crossed a load. After a command the client of its answer is selected
while the directory is still to be loaded. A new client is not listed until then; if that load fails
the forms show the first client of the list, and Save stores them for the new one.
`StoredIsTypedForIt` and `FormsAreCurrent` allow exactly this case (a client in `made`, after a lost
or crossed load) and forbid it for every other client, whatever is lost or crossed.

### LegacyClients and LegacyInbox

A change of a channel is up to five statements without a transaction; any of them may fail
(`StatementFails`), which leaves the earlier ones and marks the client `loose`. A new channel may be
disabled. The reopening of a ticket may fail while its version is still current (`ReopenFails`); the
error is caught and the delivery goes on.

## Runs: what they ask and what they show

| Run | Question | Instance |
|---|---|---|
| IntakeRaces | Do tickets, links, replies and sends stay consistent under every interleaving, and is the contract implemented? | two requests, two batches (one of three entries: a text, a rating, a page nobody knows), one operator, one crash, one needless delivery |
| TicketDesk | Do the version and the audit trail account for every write, and does the screen act on what it shows? | two people, versions up to 3, two milliseconds, one crash; screen: two tickets, one detail request, two changes by colleagues |
| Knowledge | Do history, index, audit and publication stay consistent? | four requests, two at a time, three entries, two contents, one change request, one crash |
| Outbound | Are "executed" and "replayed" backed, every spend sanctioned, every decision final? | three scenarios: a refund, a booking and its repetition under one key, two replays, a crash; a refund and a credit of unknown size, two approvers, a lost answer, a policy raised and lowered between 0 and 2 at any time; a lookup, and a lookup and a refund that name no connector |
| VoiceCalls | Are ceiling, transcript and close-out right? | two calls, one slot, two turns each, two failed or unanswered requests |
| Widget | Is a call closed once and everything released, whatever is pressed when? | two presses of Call, one of End, unmounting, two turns |
| Liveness | Does every batch settle although another payload keeps failing? Is every slot given back? | two requests, no operator, one crash, one needless delivery; two calls, of which one has a time limit, one slot, one failure |
| TenantServices | Do the eight services keep what they acknowledged, and tenants apart? | per service two overlapping requests, one or two failures, two tenants where tenants meet |
| LegacyApi | Do the seven NestJS services keep their tables consistent and finished work done? | per service two overlapping jobs and one that dies |
| WebApp | Do the nine screens show and send one thing? | per screen two or three things to select, requests answered in any order, one failing; records stored twice; three urgent tickets of which two are kept, three polls and a reload, or the reverse |
| IntakeLostTicket | expected to fail, below | as IntakeRaces, no needless delivery |
| VoiceCeiling | expected to fail, below | as VoiceCalls |

Why these bounds are enough to be interesting: every race in this code is between two
requests (two deliveries, two deciders, two replays, an edit and a publication, two answers
to one screen), so two of each kind meet every pair of statements; one crash separates any
two statements and, with the redelivery or the second request, reaches every repair path; one
needless delivery or lost answer reaches every duplicate. The theorems below hold without
the bounds.

How the composed runs stay small. Components that share no row commute, so exploring their
product shows nothing: a behaviour of a composed run picks one component (`focus`) and explores
it completely, while the others rest at their initial states. Interchangeable things of
different components (`e1`, `e2`, `w1`, `w2`) are members of one pool and permuted together.
`MCOutboundActions!Within` splits the gate into three scenarios (a queue with a crash, a
spend with an unanswered write and a changing policy, actions without a connector); `MCLegacyApi!SheetBound` and `InboxBound` bound how many
jobs start. In `MCWebApp`, `OneMishap` lets one thing go wrong among the clients, `LastPollIsAlone`
keeps the last poll of the alerts from overlapping another and the tickets from moving after it,
`RefusesOnce` lets the browser refuse the ids once, `TwoReviewCalls` and `TwoPromptCalls` allow two
requests of those screens at a time, the conversation updated last carries no risk at first, and
initial states that differ only by a name are left out. Symmetry is
used only for sets whose members no definition distinguishes, and never in a run with a
liveness property. `CHECK_DEADLOCK FALSE` everywhere: a system that has used up its bounds, or handled
all its messages, stops.

### Disagreements with the repository's own statements

Two are runs that are expected to fail, with the quotation in PROJECT.json.

| Run | Statement | What the code does |
|---|---|---|
| IntakeLostTicket | README.md:15: create a ticket when escalation is detected | the reply row is stored before the ticket (conversations.ts:545); a crash in between makes the redelivery a "duplicate" |
| VoiceCeiling | widget_server.py:43: "Hard ceiling on simultaneous calls" | the slot is taken after the negotiation |

The models have further behaviours that differ from what the repository says. They have no
run; each was seen in a TLC trace while the model was written:

* two overlapping deliveries of one message both pass the duplicate check (conversations.ts:517)
  and the customer is answered twice, against "duplicate-webhook idempotency"
  (DEVELOPMENT_STATUS.md:38); `CleanDeliveryIsExact` is what holds without needless deliveries;
* "rejection closes it" (action-governance.ts:106), but an approval that overlaps the
  rejection executes the action all the same; `DecidedIsFinal` is what holds without overlap;
* "`approved`: publish exactly as submitted" (docs/client-knowledge-approval-scope.md:55), but
  an edit between draft and activation goes live instead (knowledge.ts:497);
  `PublicationGoesLive` says when the decided content does;
* every console resolution of a ticket harvests one more draft (knowledge.ts:212), while
  TODO.md:150 calls the hook idempotent; `DraftsAreEarned` is the bound that does hold;
* the console offers "Unassigned" as an owner, but updateTicketAssignee leaves the column out of
  the UPDATE (conversations.ts:206) and only the audit event says so;
* two overlapping approvals of one change request both publish it (knowledge.ts:478);
  `RequestCreatesOnce` holds without overlap;
* the review page compares with the entry as it was at submission (knowledge.ts:350), not with
  "current published content";
* two overlapping replays apply one queued write twice (connectors.ts:246), although the
  "idempotency key prevents double-apply on replay"; `AtMostOnceUndisturbed` is what holds;
* a completed call whose finalize answer was lost, or whose score request failed, is never scored
  (pipeline.py:307), although interaction-scoring.ts:10 says "EVERY completed call";
* two pages of the console use `event.currentTarget` after an await, when it is null
  (apps/web knowledge/page.tsx:278, team/page.tsx:46), so the form is not reset and the
  error shown is not the request's.

## Fairness

* `MessageIntake!Fairness`: weak fairness on the steps of a started request (the Worker
  runs it to its end or it dies, which `Fail` bounds), strong fairness on the delivery of a
  batch that was not answered 200 (platforms repeat it; the Worker has no limit like
  `Handlers`, so a delivery must not starve because both modelled slots are taken whenever
  it comes).
* `VoiceCalls!VoiceFairness`: weak fairness on steps that a timer or a request timeout drives:
  negotiation, `start_session` (httpx has a ten second timeout), the duration timer of a
  call that has one, the library's idle timeout, close-out, end of the pipeline. Nothing is assumed
  of the visitor: a connected call without a time limit lasts as long as its visitor stays, and
  `SlotReturned` says so.
* `WidgetCall!WidgetFairness`: weak fairness on answers to finalize requests (the browser
  reports a response or an error) and on the function that waits for them.

`MCLiveness` assumes of a behaviour the fairness of the component it explores. No other module
states a liveness property: approvals, reviews and replays happen only when a person asks for
them.

## Proofs

TLC checks every property before it is proved. The theorems hold for any sets of people,
requests, messages, calls and so on, and any bounds; each proof module rests on the named
assumptions of its components, which TLC evaluates in the components' runs.

**TicketDeskProofs**, from `DeskAssumption` (the null owner is not an operator, "open" and
"resolved" are statuses, bounds are numbers), and for the ticket screen from
`ScreenAssumption` ("resolved" is offered, bounds are numbers) and `NothingAssumption`
("nothing" is not a ticket, a row or an answer).

* `TypeCorrect` (`TypeOK`).
* `NoUnseenOverwrite` (`VersionDeterminesRow`): a view that still carries the row's version
  shows the row. Not inductive alone: a view from a later version could meet the row when it
  gets there. `ViewInv` adds `ViewsLagBehind`. Every action either leaves the row or raises its
  version by one, and changes at most one view, to the current row (`ViewsKept`).
* `MissingCommentsAreInFlight` (`UnseenCommentsInFlight`), `VersionsAreAccountedFor`,
  `EveryDraftIsEarned` (`DraftsAreEarned`), `TrailExplainsStatus` (`StatusIsAudited`): all from
  `BooksInv`, which counts: the version is the number of events stored, pending and lost plus
  the bumped comments (`VersionAccounting`), every counted set is finite (`CountsAreFinite`, so
  that cardinalities change by one), and the status is that of an event stored, pending or lost
  (`StatusTraced`).
* `PanelShowsItsCase` (`PanelIsOfItsCase`) and `ChangesActOnWhatIsShown` (the action property
  `ActsOnWhatItShows`), of the composed specification, from `PanelInv`. The screen holds copies
  of rows in seven places (queue, panel, requests, changes under way): every copy is behind the
  server's row, and is that row when it has its version (`CopiesLag`); that is why a version the
  server accepts stands for everything the operator saw. The panel shows the selected ticket or
  a request for it is under way (`PanelIsAsked`), and the history asked for is that of the case
  shown (`PastIsOfCase`).

**KnowledgeBaseProofs**, from `KnowledgeAssumption` (entry ids are positive and 1 is one of
them, some content exists, bounds are numbers).

* `TypeCorrect` (`TypeOK`).
* `VersionsNameContent` (`VersionNamesContent`). History rows are written late, by jobs that may
  have been overtaken, so the property says too little about rows still in a job's hands. The
  invariant `KInv` extends it to `Held` rows (`RowsAgree`: no held row is ahead of its entry, equal
  versions have equal contents) and adds what a job must have read by each of its steps
  (`JobShape`) and when an entry has a content (`EntryShape`).
* `NoStateIsForgotten` (`HistoryComplete`): without a crash a state is in the history or in the
  hands of the job that will record it (`Duties`).
* `IndexFollowsEntries` (`IndexCurrent`): what each job has yet to index (`IndexAhead`), for
  entries nobody disturbed (`Exclusive`).
* `AuditFollowsRequests` (`RequestAudited`), `OneEntryPerRequest` (`RequestCreatesOnce`, with
  `OneJob` and `OneEntry`: one job serves an uncontested request, and has created at most one
  entry), `PublishedGoesLive` (the action property `PublicationGoesLive`) and
  `PublicationIsBacked`, from the trail of what a publication has already written (`Trail`,
  `Backed`).

**OutboundActionsProofs**, from `OutboundAssumption` (an unknown amount is not a number, "no
key" is not a key, thresholds and bounds are numbers).

* `TypeCorrect` (`TypeOK`).
* `RecordsHold` (`RecordsAreBacked`) and `SpendSanctioned` (`SpendIsSanctioned`) from `Kept`:
  what a request knows at each of its steps is in the rows (`AgentForm`, `DecisionForm`), a queue entry that is settled has been
  applied (`Promised`, `Settling`), also when a retry met the entry of its first attempt
  under the same key (`Keyed`).
* `NothingHappensTwice` (`AtMostOnceUndisturbed`) from `Apart` and `Once`: undisturbed, the
  requests, decisions and replays that could still apply an action exclude each other.
* `DecisionsAreFinal`, the action property `DecidedIsFinal`.

**CustomerContactProofs**, voice calls: of the runtime from `VoiceAssumption` (bounds are numbers), of the widget from
`WidgetAssumption` ("no call" is neither a press nor a record; presses of Call, of End and the
closing of the page are distinct).

* `VoiceTypeCorrect` (`VoiceTypeOK`).
* `CeilingHolds` (`CeilingWithoutOverlap`): `Slots` counts the active calls and the ones under
  negotiation; it needs the finiteness of the active calls, which is proved on the way, so the
  set of all calls may be infinite.
* `ScoresAreFinal`, `CleanCallsAreComplete` (`CleanCallIsComplete`), `TranscriptsGrow` (the
  action property `TranscriptKeepsTurns`) from `Closed` (a finalized call is closed in the
  backend unless its request failed), `Clean`, and `Numbered` (indices are taken in order,
  and only the one being stored may be missing).
* `WidgetIsSound` (`WidgetInvariant`) from `WidgetInv`: a record is made by the start it is named
  after (`RecordsAreMadeOnce`); a record in use whose flag is clear has not been closed, and a
  set flag has its request in flight (`ClosingIsFlagged`), which is what keeps two ways of
  ending a call from closing it twice; the index counts what was sent (`IndexCountsTurns`); and
  while no press came over an unfinished one, one function at most is at work (`Calm`, with what
  each holds at its awaits).

**CustomerContactProofs**, intake: from `IntakeAssumption` (batches are non-empty sequences of messages,
kinds and outcomes are those of the code, "takeover" is not a message id, bounds are numbers).

* `TypeCorrect` (`TypeOK`), `LinksAreSound` (`LinkSound`), `TicketsHaveRecords`
  (`TicketHasRecord`) from `IntakeInv`: the type, `RunForm` and `DeskForm` (what a request or a
  takeover knows at each step is in the rows, so that the step that writes a ticket finds its
  conversation, and the step that writes a link finds its ticket), and that only stored tickets
  are announced.
* `NoTicketIsOrphaned` (`NoOrphanTicket`) and `EscalationsAreRaised` (`EscalationRaised`), for
  behaviours without a crash: every ticket is linked or somebody is on the way to link one
  (`Cared`), every escalating reply has its ticket or a request about to insert it
  (`Raising`). With a crash the second is false, see IntakeLostTicket.
* `ContractIsImplemented` (`ImplementsContract`): the refinement, step by step. A step of the
  pipeline maps to the contract's step for the message it is about, or to a stutter. The
  inequality sends ≤ admissions is not inductive, because several requests may be past
  admission: `Credited` strengthens it to sends + requests past admission that have not sent
  ≤ admissions, and the same for tickets. The requests counted are finite in number, which is
  proved inductively, so `Handlers` need not be finite.
* `CleanDeliveries` (`CleanDeliveryIsExact`), under the hypothesis `ItemsAreDistinct` (no
  message id is in two batches or twice in one; platforms assign them): with no crash and no
  needless delivery one request at most works on a batch, what lies behind its position is
  done, exactly once, and what lies ahead is untouched (`Exact`).

**PromptProfilesProofs**, from `PromptAssumption` (there is a bucket and a version, weights are
numbers, the default profile is no variant of an experiment).

* `ProfilesAreSound`, and with it the part of `TenantInvariant` about prompts, from `PromptInv`.
  Two services write two tables, each request in several statements. `StepInv` says what a request
  holds at each of them (rows it has locked, history rows it has not stored yet), `OwnersInv` that
  a row is held by one transaction. A version names one wording when the history is read together
  with the rows those requests are about to store (`KnownEntries`). `ActiveInv`: a publication that
  overlapped nothing runs alone and has archived what its profile displaces; with `ClockInv` (active
  rows were activated at different times) one profile is active or one experiment is. That the
  weights of its variants fill the buckets is a lemma on the fold that adds them, by a smallest set
  of variants for which it would fail.

**TenantServicesProofs**, of the composed specification, on top of PromptProfilesProofs. It uses
`AnchorAssumption` and `OauthAssumption` (roles and owners of escalations are those of the code,
"nobody" and "nothing" are no operator, client, workspace or page), `CallerAssumption`,
`SetupAssumption` and `SignAssumption` (bounds are numbers, no tab serves sign-in and sign-up),
`RuleAssumption` (the operators are finite in number) and `RateAssumption` (limits are positive,
the requests are finite in number, the sign-in of the console names no tenant and is no webhook).

* `TenantsAreApart` (the action property `TenantsStayApart`). `ActsInv`: a request that passed
  the check was sent by somebody who may write for its client, or whose access was revoked
  since (`CheckedMayWrite`). `ConnectionInv`: unless sessions overlapped, one of them at most is
  between its check and its last write (`OneSelects`), and a page that passed the check belongs
  to that session's workspace or to nobody until it is linked (`CheckedIsFree`). Without
  `OneSelects` the second is not inductive: the other session would link the page in between.
* `ServicesAreSound` (`TenantInvariant`, all that the run checks in every state) from `TenantInv`,
  the conjunction of one inductive invariant per service:
  - `AnchorInv`: a row of a queue, or of an act made from one, is older than the escalation or
    shows it open (`SeenOpen`); an operator who did not change the client while a list was on its
    way has one load, for the client selected (`QueueInv`).
  - `PagesInv`: how far a selection came (`SelectionStands`), that a page which routes has a channel
    with a token of its workspace (`RoutesToItsOwn`), and what a workspace was told (`ToldStands`).
  - `CallerInv`: what a request knows of number, thread and rules (`JobOK`). Ownership only grows in
    the sets of what was ever true, so other requests do not disturb it (`JobsStay`).
  - `RuleInv`: of a rule whose edits do not overlap one edit is between its read and its write, and
    it read the rule as it is (`RowsInv`); batches of default rules and those about to seed are no
    more than the operators (`SeedInv`), a count that is inductive while "at most one batch" is not.
  - `SetupInv`: the same for the document of a workspace (`DocumentInv`), and where the guide stands
    with its patch under way (`GuideInv`).
  - `SignInv`: there are no more workspaces than clicks, nor than tabs that show one unless an answer
    was lost (`SpacesAreCounted`); a challenge is newer than what its tab shows (`Shows`).
  - `RateInv`: what a window of Redis let pass plus the checks it counted and has not answered stays
    within the limit (`PassedAreCounted`); the limit alone is not inductive, because a check is counted
    in one step and answered in a later one.
  - `PromptInv`, above.

**LegacyApiProofs**, of the composed specification, for any number of jobs, rows and clients,
from the assumptions of the seven services: batches are non-empty sequences of messages, a
review does not set "published", batches of makers are sets of origins, the retention periods
have a longest one (the default), a query is about products or orders, the rows a table can
hold are finite in number, bounds are numbers, and "no row", "no list", "no page", "none" are
no row, list, page or message.

* `JobsKnowTheirRows`: the inductive invariant `LegacyInv`, with one part or more per service.
  - `InboxInv`: a delivery that holds a ticket to reopen, with the version it read still current,
    holds a resolved one (`HookSound`; every change of a ticket outdates the versions read of it).
  - `IntakeInv`: what a delivery has behind it at each statement (`MessageTells`: the messages
    before the one at hand are stored and answered; alone on a message, nobody else has answered
    it or made its ticket), where an unlinked ticket or an urgent one without a ping is being
    cared for (`TicketsInv`), and that the grade recorded is that of the reply recorded last
    (`GradesInv`). "Alone" are messages and conversations no two deliveries worked on at once.
  - `LkInv`, `AnswersInv`: a publication knows a request and an entry that exist and fit
    (`PublicationKnows`); a request that no two jobs worked on and none left half-way has an
    answer only when it is published or while its one publication is past the draft, and its
    last event is recorded or about to be (`AskIsAccounted`).
  - `EntriesInv`, `MadeInv`: what a maker was given is left, being made or made (`DoneIsMade`), and
    what one maker at a time handles has one entry, none while it is being made.
  - `SheetInv`: alone on its source a synchronisation deletes exactly the rows that are there
    (`SyncKnows`), and the rows, the status and the time of a source are those of one run
    (`SourceKnows`). Rows carry times, and a reply must still be within the minute in which it
    found the cache fresh (`AnswersKnow`).
  - `MarksInv`: a list on the screen is the service's once the change under way is worked into it
    (`ListsAgree`), also the list that is on its way to the screen.
  - `LinksInv`: as long as no two requests overlapped, what a request knows at each of its ten
    statements (`Knows`), one primary channel per kind, and the client's page that of the primary
    one once the request is over. A channel with the lowest number exists because the numbers are
    well-founded.
  - `ComplianceInv`: what a request read is the document unless it is marked stale (`ReadIsKnown`),
    and the row was dated when its stage changed, or later, which is what makes the item "live"
    earned.
* `ServicesKeepTheirWord` (`LegacyInvariant`, all that the run checks in every state) follows from
  `LegacyInv`.
* `FinishedWorkStays` (the action property `WorkIsNotUndone`): each of its four parts from the
  invariant of its service and the action that could break it.

**WebAppProofs**, of the composed specification, from the assumptions of the nine screens: "nothing",
"none" and "no row" are no row, client, ticket or entry, sets that are counted are finite, a stack
and a queue have room for one, bounds are numbers.

* `SubjectsAreKept` (the action property `ScreensKeepTheirSubject`). A ticket has copies of its
  status and version in the list and the detail of the client's page, in up to five answers
  under way and in the status change under way; `PortalInv` says of each that it is behind the
  ticket or shows it (`Fits`), and where the page is in the reloads that follow a change. The
  store accepts a change by the version alone; the invariant is what makes the status the
  client saw follow from it. For the prompts only the store's own look at the tenant is needed,
  and that the editor's draft is emptied by nothing else.
* `ScreensAreSound` (`ScreenInvariant`, all that the run checks in every state). The invariant of a
  screen has three layers: the shape of what is shown and under way; what holds whatever happens; and
  what holds as long as nothing overlapped or failed, which says what is under way and for which
  selection. The third is what the properties lack: they speak of a screen at rest.
  - `DeskInv` (with `PortalInv`): every version of a ticket is paid for by a click, so versions are
    bounded; without a clash one load of a kind is under way, of the ticket picked or delegated
    (`OneAtATime`, `SubjectsInv`); the copies of the ticket delegated last are current once the
    reload after the change has answered (`ShownInv`).
  - `EditorInv`: a list is current unless a request was stored and the load after it is still to
    come; while a request is under way nothing is said of the one before (`NoticeInv`).
  - `ReviewInv`, `LibraryInv`: a request that nothing overlapped works with the tab, or the client
    and entry, on the screen (`CallFits`, `RequestFits`).
  - `TalksInv`: a search that nothing outran waits in the field's timer, is under way alone, or is
    shown (`OneSearch`).
  - `ClientsInv`: a later list has every client that an earlier one has, so a selected client stays on
    the list; the forms are filled from the list except between an answer and the list after it. Whatever
    was lost, a client that was not made here is in every list, and the forms are of it while it is
    selected (`StrayInv`).
  - `AlertInv`: the stack holds no ticket twice; while the browser refused nothing it has the latest of
    the page's ids (`IdsInv`), so what a page opened again does not know was among more than are kept;
    and what was announced the page has seen, or it was forgotten (`ToldInv`).
  - `ClientInv`: a submission that is stored is the last request, with the words of the form; unless
    the form was used meanwhile it holds what is submitted (`FormInv`).
  - `QaInv`: a list has exactly the conversations that match, but for those the limit left out and
    what others did since (`QueueFits`). It rests on lemmas about any finite set with a ranking: those
    with fewer than n above them are at most n (`TopsAreFew`), all of the set if it has no more
    (`TopsAreAll`), and above all others (`TopsAreOver`).

### What is only model-checked

* Liveness (`EveryBatchSettles`, `SlotReturned`, `EndingEnds`): fairness and ENABLED are
  outside the prover's fragment.
* The two runs that are expected to fail: TLC's trace is the evidence.

Every safety invariant and every action property that a passing run checks is stated by a theorem.

## Not modelled

Reasons per component are in PROJECT.json. In short: text (answers, prompts, ranking, importers)
is data without control; the audit sink, tenant secrets, internal users and delivery are
single statements without interleaving of their own; the parked telephony entry points
start the pipeline that is modelled. Tenants: every query is scoped by client, and modelled
operations of two tenants share no row except in `AnchorConsole`, `PageConnection`,
`CallerThreads` and the screens, which have two; the other modules have one. Latency, payload
sizes, tokens and cookies are outside all models. A modelled statement either happens or does
not; a statement that is still executed after its request was given up on is covered in
VoiceCalls, WidgetCall, OutboundActions and RateLimits, where callers have timeouts, and
nowhere else.

## Plan

1. A composition of intake and desk, in which a ticket is taken over, resolved and reopened
   while messages of its conversation arrive.
