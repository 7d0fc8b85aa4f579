------------------------------ MODULE VoiceCalls ------------------------------
(***************************************************************************)
(* Web voice calls: the widget runtime that admits them (widget_server.py),*)
(* the per-call session with its callbacks (pipeline.py) and what the      *)
(* backend stores of them (routes/voice.ts, services/telephony.ts,         *)
(* call-persistence.ts, interaction-scoring.ts, escalation.ts).            *)
(*                                                                         *)
(* The connect and disconnect handlers, the duration timer and the turn in *)
(* progress are separate tasks of one call; each request to the backend    *)
(* may fail, or be carried out although its answer is lost.                *)
(***************************************************************************)
EXTENDS Integers, FiniteSets

CONSTANTS
  Calls,              \* offers posted by browsers
  Timed,              \* those whose session sets a maximum duration
  MAX_CONCURRENT_CALLS,
  MaxTurns,           \* bound on the turns of a call
  MaxOutages         \* bound on failed requests, lost answers and crashes

ASSUME VoiceAssumption ==
  /\ Timed \subseteq Calls
  /\ MAX_CONCURRENT_CALLS \in Nat \ {0}
  /\ MaxTurns \in Nat /\ MaxOutages \in Nat

VARIABLES
  phase,       \* the offer and its pipeline task
  active,      \* _active_calls
  connect,     \* on_client_connected: "no", "posting", "done"
  hangup,      \* on_client_disconnected: "no" or the step it is at
  drained,     \* calls whose pipeline was told to end
  callId,      \* calls whose session knows its call id
  turn,        \* session["turn"], the index of the next turn
  said,        \* history: turns reported so far
  saying,      \* the turn being reported: utterance, index, step
  row,         \* the Call row's status
  segments,    \* call -> turn index -> utterance (0: no row)
  escalations, \* call -> escalations raised
  scores,      \* call -> score rows
  early,       \* history: calls hung up before their connect handler was done
  cut,         \* history: calls that lost a turn to barge-in
  overlapped,  \* history: an offer was admitted while another was negotiating
  outages

voiceVars == <<phase, active, connect, hangup, drained, callId, turn, said, saying, row,
          segments, escalations, scores, early, cut, overlapped, outages>>
runtime == <<phase, active, overlapped>>
handlers == <<connect, hangup, drained, callId, early>>
reporting == <<turn, said, saying, cut>>
backend == <<row, segments, escalations, scores>>

Indices == 0..(MaxTurns - 1)
Silent == [utterance |-> 0, index |-> 0, step |-> "none", ask |-> FALSE]

VoiceTypeOK ==
  /\ phase \in [Calls -> {"new", "negotiating", "live", "over", "rejected"}]
  /\ active \subseteq Calls
  /\ connect \in [Calls -> {"no", "posting", "done"}]
  /\ hangup \in [Calls -> {"no", "finalize", "score", "cancel"}]
  /\ drained \subseteq Calls
  /\ callId \subseteq Calls
  /\ turn \in [Calls -> 0..MaxTurns]
  /\ said \in [Calls -> 0..MaxTurns]
  /\ saying \in [Calls -> [utterance : 0..MaxTurns, index : 0..MaxTurns,
                           step : {"none", "persist", "escalate"}, ask : BOOLEAN]]
  /\ row \in [Calls -> {"none", "active", "ended"}]
  /\ segments \in [Calls -> [Indices -> 0..MaxTurns]]
  /\ escalations \in [Calls -> 0..MaxTurns]
  /\ scores \in [Calls -> 0..1]
  /\ early \subseteq Calls
  /\ cut \subseteq Calls
  /\ overlapped \in BOOLEAN
  /\ outages \in 0..MaxOutages

VoiceInit ==
  /\ phase = [c \in Calls |-> "new"]
  /\ active = {}
  /\ connect = [c \in Calls |-> "no"]
  /\ hangup = [c \in Calls |-> "no"]
  /\ drained = {}
  /\ callId = {}
  /\ turn = [c \in Calls |-> 0]
  /\ said = [c \in Calls |-> 0]
  /\ saying = [c \in Calls |-> Silent]
  /\ row = [c \in Calls |-> "none"]
  /\ segments = [c \in Calls |-> [i \in Indices |-> 0]]
  /\ escalations = [c \in Calls |-> 0]
  /\ scores = [c \in Calls |-> 0]
  /\ early = {}
  /\ cut = {}
  /\ overlapped = FALSE
  /\ outages = 0

-----------------------------------------------------------------------------
(* A POST of backend_client.py: done, done with the answer lost, not done.  *)

Ok(done) == done /\ UNCHANGED outages
Lost(done) == done /\ outages < MaxOutages /\ outages' = outages + 1
Failed(same) == same /\ outages < MaxOutages /\ outages' = outages + 1

\* What the backend does with each of them.
StartSession(c) == row' = [row EXCEPT ![c] = "active"]
StoreTurn(c, index, utterance) == segments' = [segments EXCEPT ![c][index] = utterance]
RaiseEscalation(c) == escalations' = [escalations EXCEPT ![c] = @ + 1]
Finalize(c) == row' = [row EXCEPT ![c] = "ended"]
ScoreCall(c) == scores' = [scores EXCEPT ![c] = @ + 1]

-----------------------------------------------------------------------------
(* Admission: POST /api/offer.                                             *)

\* Mutant: one call too many.
AtCapacityOffByOne == Cardinality(active) > MAX_CONCURRENT_CALLS

AtCapacity == Cardinality(active) >= MAX_CONCURRENT_CALLS

Negotiating == {c \in Calls : phase[c] = "negotiating"}

\* The slot is counted here and taken only in start_call, after the negotiation.
Offer(c) ==
  /\ phase[c] = "new"
  /\ phase' = [phase EXCEPT ![c] = IF AtCapacity THEN "rejected" ELSE "negotiating"]
  /\ overlapped' = (overlapped \/ (~AtCapacity /\ Negotiating # {}))
  /\ UNCHANGED <<active, handlers, reporting, backend, outages>>

\* start_call: the session becomes a task of its own.
StartCall(c) ==
  /\ phase[c] = "negotiating"
  /\ phase' = [phase EXCEPT ![c] = "live"]
  /\ active' = active \union {c}
  /\ UNCHANGED <<overlapped, handlers, reporting, backend, outages>>

RefuseCall(c) ==
  /\ phase[c] = "negotiating"
  /\ phase' = [phase EXCEPT ![c] = "rejected"]
  /\ UNCHANGED <<active, overlapped, handlers, reporting, backend, outages>>

-----------------------------------------------------------------------------
(* The connect handler.                                                    *)

OnClientConnected(c) ==
  /\ phase[c] = "live"
  /\ connect[c] = "no"
  /\ connect' = [connect EXCEPT ![c] = "posting"]
  /\ UNCHANGED <<runtime, hangup, drained, callId, early, reporting, backend, outages>>

\* startSession stores an active call; only an answer that arrives tells the
\* session its id.  The timer, if there is one, starts in any case.
SessionOpened(c) ==
  /\ phase[c] = "live"
  /\ connect[c] = "posting"
  /\ connect' = [connect EXCEPT ![c] = "done"]
  /\ \/ Ok(StartSession(c)) /\ callId' = callId \union {c}
     \/ Lost(StartSession(c)) /\ UNCHANGED callId
     \/ Failed(UNCHANGED row) /\ UNCHANGED callId
  /\ UNCHANGED <<runtime, hangup, drained, early, reporting, segments, escalations, scores>>

\* Mutant: the timer starts only with a stored call.
ArmedWithCall(c) == c \in callId /\ hangup[c] = "no"

\* enforce_max_duration, if there is a maximum; cancelled by the disconnect handler if it
\* was running.
TimerArmed(c) == c \in Timed /\ connect[c] = "done" /\ (hangup[c] = "no" \/ c \in early)

MaxDurationReached(c) ==
  /\ phase[c] = "live"
  /\ TimerArmed(c)
  /\ c \notin drained
  /\ drained' = drained \union {c}
  /\ UNCHANGED <<runtime, connect, hangup, callId, early, reporting, backend, outages>>

\* External: a pipeline nobody ever connects to is ended by the library.
IdleTimeout(c) ==
  /\ phase[c] = "live"
  /\ connect[c] = "no"
  /\ c \notin drained
  /\ drained' = drained \union {c}
  /\ UNCHANGED <<runtime, connect, hangup, callId, early, reporting, backend, outages>>

-----------------------------------------------------------------------------
(* Turns: on_turn, at most one in progress in the recorder.                *)

\* Mutant: the index does not advance before the request.
SameIndex(c) == turn[c]

NextIndex(c) == turn[c] + 1

\* Without a call id a turn is ignored.
OnTurn(c, ask) ==
  /\ phase[c] = "live"
  /\ c \in callId
  /\ saying[c] = Silent
  /\ said[c] < MaxTurns
  /\ said' = [said EXCEPT ![c] = @ + 1]
  /\ saying' = [saying EXCEPT ![c] =
       [utterance |-> said[c] + 1, index |-> turn[c], step |-> "persist", ask |-> ask]]
  /\ turn' = [turn EXCEPT ![c] = NextIndex(c)]
  /\ UNCHANGED <<runtime, handlers, cut, backend, outages>>

\* persistTurn upserts on call and index; a failure is logged and forgotten.
PersistTurn(c) ==
  /\ saying[c].step = "persist"
  /\ LET stored == StoreTurn(c, saying[c].index, saying[c].utterance) IN
       Ok(stored) \/ Lost(stored) \/ Failed(UNCHANGED segments)
  /\ saying' = [saying EXCEPT ![c] =
       IF saying[c].ask THEN [saying[c] EXCEPT !.step = "escalate"] ELSE Silent]
  /\ UNCHANGED <<runtime, handlers, turn, said, cut, row, escalations, scores>>

\* The caller asked for a human: raise stores an escalation row every time.
Escalate(c) ==
  /\ saying[c].step = "escalate"
  /\ Ok(RaiseEscalation(c)) \/ Lost(RaiseEscalation(c)) \/ Failed(UNCHANGED escalations)
  /\ saying' = [saying EXCEPT ![c] = Silent]
  /\ UNCHANGED <<runtime, handlers, turn, said, cut, row, segments, scores>>

\* External: barge-in cancels the recorder's task wherever it waits.
Interrupt(c) ==
  /\ phase[c] = "live"
  /\ saying[c] # Silent
  /\ saying' = [saying EXCEPT ![c] = Silent]
  /\ cut' = cut \union {c}
  /\ UNCHANGED <<runtime, handlers, turn, said, backend, outages>>

-----------------------------------------------------------------------------
(* The end of a call.                                                      *)

\* on_client_disconnected: the visitor hangs up, or the library reports the end of
\* a drained pipeline.  An id that arrives later is not waited for.
OnClientDisconnected(c) ==
  /\ phase[c] = "live"
  /\ connect[c] # "no"
  /\ hangup[c] = "no"
  /\ hangup' = [hangup EXCEPT ![c] = IF c \in callId THEN "finalize" ELSE "cancel"]
  /\ early' = IF connect[c] = "posting" THEN early \union {c} ELSE early
  /\ UNCHANGED <<runtime, connect, drained, callId, reporting, backend, outages>>

\* Mutant: a score whose answer is lost is requested again.
RepeatsScore(c) ==
  \/ /\ hangup[c] = "finalize"
     /\ Ok(Finalize(c))
     /\ hangup' = [hangup EXCEPT ![c] = "score"]
     /\ UNCHANGED scores
  \/ /\ hangup[c] = "score"
     /\ \/ Ok(ScoreCall(c)) /\ hangup' = [hangup EXCEPT ![c] = "cancel"]
        \/ Lost(ScoreCall(c)) /\ UNCHANGED hangup
     /\ UNCHANGED row

\* finalize, then score; an error in the first skips the second.
CloseOut(c) ==
  \/ /\ hangup[c] = "finalize"
     /\ \/ Ok(Finalize(c)) /\ hangup' = [hangup EXCEPT ![c] = "score"]
        \/ /\ Lost(Finalize(c)) \/ Failed(UNCHANGED row)
           /\ hangup' = [hangup EXCEPT ![c] = "cancel"]
     /\ UNCHANGED scores
  \/ /\ hangup[c] = "score"
     /\ Ok(ScoreCall(c)) \/ Lost(ScoreCall(c)) \/ Failed(UNCHANGED scores)
     /\ hangup' = [hangup EXCEPT ![c] = "cancel"]
     /\ UNCHANGED row

Closing(c) ==
  /\ phase[c] = "live"
  /\ hangup[c] \in {"finalize", "score"}
  /\ CloseOut(c)
  /\ UNCHANGED <<runtime, connect, drained, callId, early, reporting, segments, escalations>>

\* The pipeline task is done: handlers and turn in progress go with it, and the
\* done callback gives the slot back.
Over(c) ==
  /\ phase' = [phase EXCEPT ![c] = "over"]
  /\ active' = active \ {c}
  /\ saying' = [saying EXCEPT ![c] = Silent]
  /\ UNCHANGED <<overlapped, handlers, turn, said, cut, backend>>

EndOfPipeline(c) ==
  /\ phase[c] = "live"
  /\ hangup[c] = "cancel" \/ c \in drained
  /\ Over(c)
  /\ UNCHANGED outages

\* The pipeline throws, or the server shuts down.
Crash(c) ==
  /\ phase[c] = "live"
  /\ outages < MaxOutages
  /\ outages' = outages + 1
  /\ Over(c)

-----------------------------------------------------------------------------
Session(c) ==
  \/ StartCall(c) \/ RefuseCall(c)
  \/ SessionOpened(c) \/ MaxDurationReached(c) \/ IdleTimeout(c)
  \/ PersistTurn(c) \/ Escalate(c)
  \/ Closing(c) \/ EndOfPipeline(c)

VoiceNext ==
  \E c \in Calls :
    \/ Offer(c) \/ Session(c)
    \/ OnClientConnected(c) \/ OnClientDisconnected(c)
    \/ \E ask \in BOOLEAN : OnTurn(c, ask)
    \/ Interrupt(c) \/ Crash(c)

VoiceSpec == VoiceInit /\ [][VoiceNext]_voiceVars

\* Requests have timeouts, timers fire and a drained pipeline ends.  Nothing is
\* assumed of the visitor, who may never connect, speak or hang up.
VoiceFairness ==
  \A c \in Calls :
    /\ WF_voiceVars(StartCall(c) \/ RefuseCall(c))
    /\ WF_voiceVars(SessionOpened(c))
    /\ WF_voiceVars(MaxDurationReached(c))
    /\ WF_voiceVars(IdleTimeout(c))
    /\ WF_voiceVars(Closing(c))
    /\ WF_voiceVars(EndOfPipeline(c))

VoiceFairSpec == VoiceSpec /\ VoiceFairness

-----------------------------------------------------------------------------
(* Properties.                                                             *)

Stored(c) == {segments[c][i] : i \in Indices} \ {0}

\* The ceiling holds as long as no offer is admitted during another one's
\* negotiation: slots are counted and given back exactly.
CeilingWithoutOverlap == ~overlapped => Cardinality(active) <= MAX_CONCURRENT_CALLS

\* Only a call that was closed is scored: a failed or unanswered finalize, an
\* early hang-up or a crash never leaves a score on an open call.
ScoredIsEnded == \A c \in Calls : scores[c] > 0 => row[c] = "ended"

\* Without failed requests and barge-in, a call the visitor ends after it was
\* opened is ended, scored, and missing at most the turn that was being stored.
CleanCallIsComplete ==
  outages = 0 =>
    \A c \in Calls :
      phase[c] = "over" /\ hangup[c] = "cancel" /\ c \notin early /\ c \notin cut =>
        /\ row[c] = "ended" /\ scores[c] = 1
        /\ 1..(said[c] - 1) \subseteq Stored(c)

\* The transcript only grows: no retry, lost answer or interruption lets a later
\* turn take the place of an earlier one, and turns stay in spoken order.
TranscriptKeepsTurns ==
  [][\A c \in Calls :
       /\ \A i \in Indices : segments[c][i] # 0 => segments'[c][i] = segments[c][i]
       /\ \A i, j \in Indices : i < j /\ segments'[c][i] # 0 /\ segments'[c][j] # 0 =>
            segments'[c][i] < segments'[c][j]]_voiceVars

\* A slot is given back in the end, even if the backend never answered, nobody ever
\* connected, or the visitor never hangs up; only in a call without a maximum duration
\* is the visitor waited for.
SlotReturned ==
  \A c \in Calls :
    c \in active ~> c \notin active \/ (c \notin Timed /\ connect[c] = "done" /\ hangup[c] = "no")

\* widget_server.py: "Hard ceiling on simultaneous calls."
HardCeiling == Cardinality(active) <= MAX_CONCURRENT_CALLS
=============================================================================
