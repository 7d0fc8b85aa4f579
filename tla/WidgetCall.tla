----------------------------- MODULE WidgetCall -----------------------------
(* One visitor's voice call in the web widget: the hook useVoiceCall of      *)
(* apps/web widget/_lib/use-voice-call.ts and the buttons of widget/page.tsx *)
(* that drive it.  JavaScript runs one callback at a time; an async function *)
(* is cut at its awaits, and the refs it reads after one may have changed.   *)
EXTENDS Naturals, FiniteSets

CONSTANTS
    WidgetCalls,       \* presses of the Call button, each an execution of startCall
    Ends,        \* presses of the End button, each an execution of endCall
    ClosingLine,     \* the execution of teardown when the widget is unmounted
    MaxWidgetTurns,    \* bound: turns the widget records in all
    NoCall

ASSUME WidgetAssumption ==
    /\ MaxWidgetTurns \in Nat
    /\ WidgetCalls \cap Ends = {}
    /\ ClosingLine \notin WidgetCalls \cup Ends
    /\ NoCall \notin WidgetCalls \cup (WidgetCalls \X {"call", "demo"})

VARIABLES
    status,      \* what the panel shows
    callIdRef,   \* callIdRef.current: the call record in use
    finalizedRef,
    turnIndexRef,
    clientRef,   \* clientRef.current: the start whose Pipecat client is in use
    demoOn,      \* demoActiveRef: the browser's speech recognition runs
    startAt,     \* start -> where that startCall stands
    link,        \* start -> its WebRTC connection, kept by the browser whatever the refs say
    endAt,       \* end or unmount -> where that endCall / teardown stands
    posts,       \* finalize requests in flight: [by, call]
    created,     \* call records the API made for this widget
    closed,      \* call record -> finalize requests sent for it
    turns,       \* [call, index] sent to the API
    overwritten, \* history: a turn was sent under an index already used
    pressedOver      \* history: a button was pressed while an earlier press was still at work,
                 \* or an error was reported before the call came up

refs == <<callIdRef, finalizedRef, turnIndexRef, clientRef, demoOn>>
server == <<created, closed, turns, overwritten>>
widgetVars == <<status, refs, startAt, link, endAt, posts, server, pressedOver>>

Executions == WidgetCalls \cup Ends \cup {ClosingLine}
CallRecords == WidgetCalls \X {"call", "demo"}
Mounted == endAt[ClosingLine] = "ready"
IsCallActive == status \notin {"idle", "error"}

StartRuns(s) == startAt[s] \notin {"ready", "done"}
EndRuns(e) == endAt[e] \notin {"ready", "done"}
AtWork == (\E s \in WidgetCalls : StartRuns(s)) \/ (\E e \in Ends \cup {ClosingLine} : EndRuns(e)) \/ posts # {}

WidgetInit ==
    /\ status = "idle"
    /\ callIdRef = NoCall
    /\ finalizedRef = FALSE
    /\ turnIndexRef = 0
    /\ clientRef = NoCall
    /\ demoOn = FALSE
    /\ startAt = [s \in WidgetCalls |-> "ready"]
    /\ link = [s \in WidgetCalls |-> "none"]
    /\ endAt = [e \in Ends \cup {ClosingLine} |-> "ready"]
    /\ posts = {}
    /\ created = {}
    /\ closed = [c \in CallRecords |-> 0]
    /\ turns = {}
    /\ overwritten = FALSE
    /\ pressedOver = FALSE
-----------------------------------------------------------------------------
\* finalizeTrackedCall does something only once per record.
Finalizes == callIdRef # NoCall /\ ~finalizedRef
\* Its synchronous part: the flag is set and the request leaves; the refs clear when it is answered.
WidgetFinalize(by) ==
    IF Finalizes
    THEN /\ finalizedRef' = TRUE
         /\ posts' = posts \cup {[by |-> by, call |-> callIdRef]}
         /\ closed' = [closed EXCEPT ![callIdRef] = @ + 1]
    ELSE UNCHANGED <<finalizedRef, posts, closed>>

\* The request is answered or fails: either way the finally block forgets the current record.
FinalizeAnswered(m) ==
    /\ m \in posts
    /\ posts' = posts \ {m}
    /\ callIdRef' = NoCall
    /\ UNCHANGED <<status, finalizedRef, turnIndexRef, clientRef, demoOn, startAt, link, endAt, server, pressedOver>>

Awaits(x) == \E m \in posts : m.by = x

\* startTrackedCall when a record is in use: it is returned as it is.
ReuseRecord == UNCHANGED <<callIdRef, finalizedRef, turnIndexRef>>
\* startTrackedCall when the API has made a record.
AdoptRecord(c) ==
    /\ created' = created \cup {c}
    /\ callIdRef' = c
    /\ turnIndexRef' = 0
    /\ finalizedRef' = FALSE
-----------------------------------------------------------------------------
\* The Call button is shown while no call is active; startCall returns when a client is in use.
PressCall(s) ==
    /\ startAt[s] = "ready"
    /\ Mounted
    /\ ~IsCallActive
    /\ IF clientRef # NoCall
       THEN /\ startAt' = [startAt EXCEPT ![s] = "done"]
            /\ UNCHANGED <<status, pressedOver>>
       ELSE /\ startAt' = [startAt EXCEPT ![s] = "mic"]
            /\ status' = "requesting-mic"
            /\ pressedOver' = (pressedOver \/ AtWork)
    /\ UNCHANGED <<refs, link, endAt, posts, server>>

MicRefused(s) ==
    /\ startAt[s] = "mic"
    /\ startAt' = [startAt EXCEPT ![s] = "done"]
    /\ status' = "error"
    /\ UNCHANGED <<refs, link, endAt, posts, server, pressedOver>>

MicGranted(s) ==
    /\ startAt[s] = "mic"
    /\ status' = "connecting"
    /\ startAt' = [startAt EXCEPT ![s] = IF callIdRef = NoCall THEN "track" ELSE "mint"]
    /\ IF callIdRef = NoCall THEN UNCHANGED <<callIdRef, finalizedRef, turnIndexRef>> ELSE ReuseRecord
    /\ UNCHANGED <<clientRef, demoOn, link, endAt, posts, server, pressedOver>>

\* The record of the call: made for the call itself, or again for the browser demo.
TrackAnswered(s) ==
    /\ startAt[s] \in {"track", "demo-track"}
    /\ AdoptRecord(<<s, IF startAt[s] = "track" THEN "call" ELSE "demo">>)
    /\ startAt' = [startAt EXCEPT ![s] = IF @ = "track" THEN "mint" ELSE "demo"]
    /\ UNCHANGED <<status, clientRef, demoOn, link, endAt, posts, closed, turns, overwritten, pressedOver>>

TrackFails(s) ==
    /\ startAt[s] \in {"track", "demo-track"}
    /\ startAt' = [startAt EXCEPT ![s] = "done"]
    /\ status' = "error"
    /\ UNCHANGED <<refs, link, endAt, posts, server, pressedOver>>

\* The session grant: given, refused with 503 (browser demo instead), or not given.
MintAnswered(s) ==
    /\ startAt[s] = "mint"
    /\ startAt' = [startAt EXCEPT ![s] = "sdk"]
    /\ UNCHANGED <<status, refs, link, endAt, posts, server, pressedOver>>

MintUnavailable(s) ==
    /\ startAt[s] = "mint"
    /\ startAt' = [startAt EXCEPT ![s] = IF callIdRef = NoCall THEN "demo-track" ELSE "demo"]
    /\ IF callIdRef = NoCall THEN UNCHANGED <<callIdRef, finalizedRef, turnIndexRef>> ELSE ReuseRecord
    /\ UNCHANGED <<status, clientRef, demoOn, link, endAt, posts, server, pressedOver>>

\* Mutant: a failed start is shown but its record is left open.
StartFailsUnclosed(s) ==
    /\ startAt[s] \in {"mint", "sdk", "demo", "connect"}
    /\ startAt' = [startAt EXCEPT ![s] = "failing"]
    /\ clientRef' = IF startAt[s] = "connect" THEN NoCall ELSE clientRef
    /\ link' = IF startAt[s] = "connect" THEN [link EXCEPT ![s] = "gone"] ELSE link
    /\ UNCHANGED <<status, callIdRef, finalizedRef, turnIndexRef, demoOn, endAt, posts, server, pressedOver>>
\* The mint, the SDK or the connection fails, or the browser has no speech recognition: finalize, then error.
StartFails(s) ==
    /\ startAt[s] \in {"mint", "sdk", "demo", "connect"}
    /\ WidgetFinalize(s)
    /\ startAt' = [startAt EXCEPT ![s] = "failing"]
    /\ clientRef' = IF startAt[s] = "connect" THEN NoCall ELSE clientRef
    /\ link' = IF startAt[s] = "connect" THEN [link EXCEPT ![s] = "gone"] ELSE link
    /\ UNCHANGED <<status, callIdRef, turnIndexRef, demoOn, endAt, created, turns, overwritten, pressedOver>>

ShowFailure(s) ==
    /\ startAt[s] = "failing"
    /\ ~Awaits(s)
    /\ startAt' = [startAt EXCEPT ![s] = "done"]
    /\ status' = "error"
    /\ UNCHANGED <<refs, link, endAt, posts, server, pressedOver>>

SdkLoaded(s) ==
    /\ startAt[s] = "sdk"
    /\ startAt' = [startAt EXCEPT ![s] = "connect"]
    /\ clientRef' = s
    /\ link' = [link EXCEPT ![s] = "dialling"]
    /\ UNCHANGED <<status, callIdRef, finalizedRef, turnIndexRef, demoOn, endAt, posts, server, pressedOver>>

\* onTransportStateChanged with a live state, "connected" ...
TransportLive(s) ==
    /\ link[s] = "dialling"
    /\ link' = [link EXCEPT ![s] = "up"]
    /\ status' = "live"
    /\ UNCHANGED <<refs, startAt, endAt, posts, server, pressedOver>>

\* ... and "ready", with which client.connect() resolves unless it failed before.
TransportReady(s) ==
    /\ startAt[s] = "connect" /\ link[s] = "up"
    /\ startAt' = [startAt EXCEPT ![s] = "done"]
    /\ status' = "live"
    /\ UNCHANGED <<refs, link, endAt, posts, server, pressedOver>>

\* startBrowserVoiceDemo with speech recognition: live, without a connection.
DemoStarts(s) ==
    /\ startAt[s] = "demo"
    /\ startAt' = [startAt EXCEPT ![s] = "done"]
    /\ demoOn' = TRUE
    /\ status' = "live"
    /\ UNCHANGED <<callIdRef, finalizedRef, turnIndexRef, clientRef, link, endAt, posts, server, pressedOver>>
-----------------------------------------------------------------------------
\* The runtime hangs up, or our own disconnect() did: nothing awaits the finalize request.
Disconnected(s) ==
    /\ WidgetFinalize("callback")
    /\ link' = [link EXCEPT ![s] = "gone"]
    /\ clientRef' = NoCall
    /\ status' = "idle"

OnDisconnected(s) ==
    /\ link[s] = "up"
    /\ Disconnected(s)
    /\ UNCHANGED <<callIdRef, turnIndexRef, demoOn, startAt, endAt, created, turns, overwritten, pressedOver>>

\* onError, then the transport is gone; or the demo's recognition is not allowed the microphone.
OnError(s) ==
    /\ link[s] \in {"dialling", "up"}
    /\ WidgetFinalize("callback")
    /\ status' = "error"
    /\ pressedOver' = (pressedOver \/ startAt[s] = "connect")
    /\ UNCHANGED <<callIdRef, turnIndexRef, clientRef, demoOn, startAt, link, endAt, created, turns, overwritten>>

DemoBlocked ==
    /\ demoOn
    /\ WidgetFinalize("callback")
    /\ demoOn' = FALSE
    /\ status' = "error"
    /\ UNCHANGED <<callIdRef, turnIndexRef, clientRef, startAt, link, endAt, created, turns, overwritten, pressedOver>>

\* persistVoiceTurn: from the transport, the demo, or a typed message and its late reply.
RecordTurn ==
    /\ callIdRef # NoCall
    /\ Cardinality(turns) < MaxWidgetTurns
    /\ turns' = turns \cup {[call |-> callIdRef, index |-> turnIndexRef]}
    /\ overwritten' = (overwritten \/ [call |-> callIdRef, index |-> turnIndexRef] \in turns)
    /\ turnIndexRef' = turnIndexRef + 1
    /\ UNCHANGED <<status, callIdRef, finalizedRef, clientRef, demoOn, startAt, link, endAt, posts, created, closed, pressedOver>>
-----------------------------------------------------------------------------
\* endCall: finalize and wait, then teardown.
PressEnd(e) ==
    /\ e \in Ends
    /\ endAt[e] = "ready"
    /\ Mounted
    /\ IsCallActive
    /\ status' = "ending"
    /\ WidgetFinalize(e)
    /\ endAt' = [endAt EXCEPT ![e] = "finalize"]
    /\ pressedOver' = (pressedOver \/ AtWork)
    /\ UNCHANGED <<callIdRef, turnIndexRef, clientRef, demoOn, startAt, link, created, turns, overwritten>>

\* The effect cleanup when the widget goes away runs teardown alone.
Unmount ==
    /\ Mounted
    /\ WidgetFinalize(ClosingLine)
    /\ endAt' = [endAt EXCEPT ![ClosingLine] = "teardown"]
    /\ pressedOver' = (pressedOver \/ AtWork)
    /\ UNCHANGED <<status, callIdRef, turnIndexRef, clientRef, demoOn, startAt, link, created, turns, overwritten>>

\* teardown calls finalizeTrackedCall again, for a record adopted in the meantime.
BeginTeardown(e) ==
    /\ endAt[e] = "finalize"
    /\ ~Awaits(e)
    /\ WidgetFinalize(e)
    /\ endAt' = [endAt EXCEPT ![e] = "teardown"]
    /\ UNCHANGED <<status, callIdRef, turnIndexRef, clientRef, demoOn, startAt, link, created, turns, overwritten, pressedOver>>

\* The rest of teardown: recognition aborted, the client in use disconnected (its callback runs).
DropClient(e) ==
    /\ endAt[e] = "teardown"
    /\ ~Awaits(e)
    /\ demoOn' = FALSE
    /\ endAt' = [endAt EXCEPT ![e] = "settle"]
    /\ IF clientRef # NoCall /\ link[clientRef] = "up"
       THEN Disconnected(clientRef)
       ELSE /\ clientRef' = NoCall
            /\ link' = [s \in WidgetCalls |-> IF s = clientRef /\ link[s] = "dialling" THEN "gone" ELSE link[s]]
            /\ UNCHANGED <<status, finalizedRef, posts, closed>>
    /\ UNCHANGED <<callIdRef, turnIndexRef, startAt, created, turns, overwritten, pressedOver>>

\* Mutant: the panel is reset only while a client is in use.
SettleWithClient(e) ==
    /\ endAt[e] = "settle"
    /\ endAt' = [endAt EXCEPT ![e] = "done"]
    /\ status' = IF e = ClosingLine \/ clientRef = NoCall THEN status ELSE "idle"
    /\ UNCHANGED <<refs, startAt, link, posts, server, pressedOver>>
Settle(e) ==
    /\ endAt[e] = "settle"
    /\ endAt' = [endAt EXCEPT ![e] = "done"]
    /\ status' = IF e = ClosingLine THEN status ELSE "idle"
    /\ UNCHANGED <<refs, startAt, link, posts, server, pressedOver>>

StartStep(s) ==
    \/ MicRefused(s) \/ MicGranted(s)
    \/ TrackAnswered(s) \/ TrackFails(s)
    \/ MintAnswered(s) \/ MintUnavailable(s)
    \/ StartFails(s) \/ ShowFailure(s)
    \/ SdkLoaded(s) \/ TransportLive(s) \/ TransportReady(s) \/ DemoStarts(s)
EndStep(e) == BeginTeardown(e) \/ DropClient(e) \/ Settle(e)
SomeAnswer == \E m \in posts : FinalizeAnswered(m)

WidgetNext ==
    \/ \E s \in WidgetCalls : PressCall(s) \/ StartStep(s) \/ OnDisconnected(s) \/ OnError(s)
    \/ \E e \in Ends \cup {ClosingLine} : PressEnd(e) \/ EndStep(e)
    \/ Unmount
    \/ DemoBlocked
    \/ RecordTurn
    \/ SomeAnswer

WidgetSpec == WidgetInit /\ [][WidgetNext]_widgetVars

\* The browser answers every request sooner or later, with a response or an error, and runs the
\* function that waits for it.
WidgetFairness ==
    /\ WF_widgetVars(SomeAnswer)
    /\ \A e \in Ends \cup {ClosingLine} : WF_widgetVars(EndStep(e))
WidgetFairSpec == WidgetSpec /\ WidgetFairness
-----------------------------------------------------------------------------
(* Properties.                                                               *)

\* The refs name calls of this widget and the functions stand at one of their awaits.
WidgetTypeOK ==
    /\ status \in {"idle", "requesting-mic", "connecting", "live", "ending", "error"}
    /\ callIdRef \in CallRecords \cup {NoCall}
    /\ clientRef \in WidgetCalls \cup {NoCall}
    /\ turnIndexRef \in 0..MaxWidgetTurns
    /\ startAt \in [WidgetCalls -> {"ready", "mic", "track", "mint", "sdk", "connect", "demo-track", "demo",
                              "failing", "done"}]
    /\ link \in [WidgetCalls -> {"none", "dialling", "up", "gone"}]
    /\ endAt \in [Ends \cup {ClosingLine} -> {"ready", "finalize", "teardown", "settle", "done"}]
    /\ \A m \in posts : m.call \in created

\* However the visitor's clicks, the callbacks and the answers interleave, a call record is closed by
\* at most one finalize request: the first reason reported for the end is the one that stays.
ClosedAtMostOnce == \A c \in CallRecords : closed[c] <= 1

\* No two turns of a record are sent under one index: the API upserts by index, and a reused one
\* would erase what was said before.
TurnsKeepTheirIndex == ~overwritten

\* When no button was pressed over an unfinished press, a widget at rest is clean: without a call it has
\* closed every call record it was given; a call shown live has an open record for its turns; and a
\* widget that shows no call, or is gone, holds no connection and no microphone.
RestIsClean ==
    ~pressedOver /\ ~AtWork =>
        /\ ~demoOn /\ (\A s \in WidgetCalls : link[s] # "up") => \A c \in created : closed[c] = 1
        /\ Mounted /\ status = "live" => callIdRef # NoCall /\ ~finalizedRef
        /\ status = "idle" \/ ~Mounted => ~demoOn /\ \A s \in WidgetCalls : link[s] # "up"

\* What holds of the widget in every state.
WidgetInvariant == WidgetTypeOK /\ ClosedAtMostOnce /\ TurnsKeepTheirIndex /\ RestIsClean

\* A press of End does not leave the panel at "ending".
EndingEnds == status = "ending" ~> status # "ending"
=============================================================================
