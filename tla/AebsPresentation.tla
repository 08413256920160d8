-------------------------- MODULE AebsPresentation --------------------------
(***************************************************************************)
(* The way of the AEBS state to the display: the bridge node that          *)
(* assembles frames of what it has seen of the coordinator, the ingress    *)
(* that lets valid frames into the vehicle, and the display, whose frames  *)
(* are reduced on the UI thread while a ticker on a thread of its own      *)
(* watches for silence.  Both read and write the reducer without a lock,   *)
(* one access a step here, and the ticker's results reach the screen       *)
(* through the queue of the UI thread.                                     *)
(*                                                                         *)
(* Sequence numbers are kept as the distance that the bridge's are behind  *)
(* those the display has accepted: none, but after the bridge restarts.    *)
(***************************************************************************)
EXTENDS AebsLifecycle, Integers, Sequences

CONSTANTS
    RestoreFrames, \* RESTORE_CONSECUTIVE_FRAMES
    StaleAfter,    \* the silence after which the ticker calls the stream stale
    RestoredHold,  \* RESTORED_HOLD_MS
    Topics,        \* bound: what is published to the bridge
    MaxBehind,     \* bound: the frames that a restarted bridge is behind
    MaxQueue,      \* bound: the queue of the UI thread
    MaxFaults      \* bound: restarts of the bridge and failures of a read

ASSUME PresentationAssumption ==
    /\ RestoreFrames \in Nat \ {0} /\ StaleAfter \in Nat /\ RestoredHold \in Nat
    /\ RestoredHold >= StaleAfter
    /\ Topics \subseteq {"lifecycle", "warning", "native", "braking"}
    /\ MaxBehind \in Nat \ {0} /\ MaxQueue \in Nat \ {0} /\ MaxFaults \in Nat

Never == -1
Live == {"MONITORING", "WARNING", "INTERVENTION", "RELEASED"}
Degraded == {"UNAVAILABLE", "STALE", "INVALID"}
Dispositions == Live \cup Degraded \cup {"RESTORED"}

VARIABLES
    seen,        \* FrameAssembler.state
    behind,      \* how far the sequence is behind lastSequence
    uiQueue,     \* what waits for the UI thread
    uiAt,        \* where the UI thread is
    frame,       \* the frame it has at hand
    disposition, \* VisualizationStateReducer.disposition
    validStreak, \* validStreak, which is compared with RestoreFrames only
    hold,        \* what is left until restoredUntilElapsed
    quiet,       \* the time since lastFrameElapsedMs, Never: 0
    ticker,      \* where the ticker is
    result,      \* the disposition that it has to post
    rendered,    \* the disposition on the screen
    released,    \* history: a release has been reduced
    faults       \* bound: the faults so far

bridge == <<seen, behind>>
uiThread == <<uiAt, frame>>
tickerThread == <<ticker, result>>
reducer == <<disposition, validStreak, hold>>
screen == <<uiQueue, rendered>>
ghosts == <<released, faults>>
displayVars ==
    <<lifecycleVars, bridge, uiThread, tickerThread, reducer, screen, quiet, ghosts>>

NothingSeen == [lifecycle |-> "none", warning |-> FALSE, native |-> FALSE, braking |-> FALSE]
NoFrame == [replayed |-> FALSE, view |-> "UNAVAILABLE"]

DisplayInit ==
    /\ LifecycleInit
    /\ seen = NothingSeen
    /\ behind = 0
    /\ uiQueue = << >>
    /\ uiAt = "idle" /\ frame = NoFrame
    /\ disposition = "UNAVAILABLE" /\ rendered = "UNAVAILABLE"
    /\ validStreak = 0
    /\ hold = 0
    /\ quiet = Never
    /\ ticker = "idle" /\ result = "UNAVAILABLE"
    /\ released = FALSE /\ faults = 0

-----------------------------------------------------------------------------
(* The coordinator, as it promises to be.                                  *)

Coordinate ==
    /\ LifecycleNext
    /\ UNCHANGED <<bridge, uiThread, tickerThread, reducer, screen, quiet, ghosts>>

-----------------------------------------------------------------------------
(* The bridge.  Each topic comes on its own; the braking request is only   *)
(* ever published to brake.                                                *)

Observe(topic, fields) ==
    /\ topic \in Topics
    /\ seen' = fields
    /\ UNCHANGED <<lifecycleVars, behind, uiThread, tickerThread, reducer, screen, quiet, ghosts>>

OnLifecycle == Observe("lifecycle", [seen EXCEPT !.lifecycle = lifecycle])
OnWarning == Observe("warning", [seen EXCEPT !.warning = warning])
OnDiagnostics(native) == Observe("native", [seen EXCEPT !.native = native])
OnBraking == lifecycle = "braking_latched" /\ Observe("braking", [seen EXCEPT !.braking = TRUE])

\* Mutant: the end of braking is taken for the release.
InferRelease(data) ==
    IF data.lifecycle = "released_verified_stop" \/ (data.braking /\ ~data.native)
    THEN "RELEASED"
    ELSE IF data.native \/ data.braking THEN "INTERVENTION"
    ELSE IF data.warning THEN "WARNING" ELSE "MONITORING"

\* Mutant: what brakes is looked at first.
BrakingFirst(data) ==
    IF data.native \/ data.braking THEN "INTERVENTION"
    ELSE IF data.lifecycle = "released_verified_stop" THEN "RELEASED"
    ELSE IF data.warning THEN "WARNING" ELSE "MONITORING"

(* What the display makes of a frame; one without a lifecycle is armed.    *)
LiveView(data) ==
    IF data.lifecycle = "released_verified_stop" THEN "RELEASED"
    ELSE IF data.native \/ data.braking THEN "INTERVENTION"
    ELSE IF data.warning THEN "WARNING" ELSE "MONITORING"

(* A bearing to the right is negative, and no number may be.               *)
validate_frame(target) == target # "right"

(* Ten times a second: a frame is numbered, whether or not anybody reads   *)
(* it, and comes to the UI thread if the ingress runs and finds it valid   *)
(* and none of the queues between has lost it.  The target is the closest  *)
(* point of the last obstacle cloud, or none when that is too old.         *)
PublishFrame(target, delivered) ==
    /\ behind' = IF behind = 0 THEN 0 ELSE behind - 1
    /\ delivered => validate_frame(target) /\ Len(uiQueue) < MaxQueue
    /\ uiQueue' = IF delivered
                  THEN Append(uiQueue, [kind |-> "frame", replayed |-> behind > 0,
                                        view |-> LiveView(seen)])
                  ELSE uiQueue
    /\ UNCHANGED <<lifecycleVars, seen, uiThread, tickerThread, reducer, rendered, quiet, ghosts>>

(* A restarted bridge has seen nothing and numbers its frames from 1; the  *)
(* ingress ends with the stream and takes any number when started again.   *)
RestartBridge ==
    /\ faults < MaxFaults
    /\ faults' = faults + 1
    /\ seen' = NothingSeen
    /\ behind' \in IF quiet = Never /\ uiQueue = << >> THEN {0} ELSE 1 .. MaxBehind
    /\ UNCHANGED <<lifecycleVars, uiThread, tickerThread, reducer, screen, quiet, released>>

-----------------------------------------------------------------------------
(* The UI thread runs what is in its queue.  A frame: its time is taken,   *)
(* then the reducer judges it, and what comes of it is rendered at once.   *)

TakeFrame ==
    /\ uiAt = "idle"
    /\ uiQueue # << >> /\ Head(uiQueue).kind = "frame"
    /\ uiQueue' = Tail(uiQueue)
    /\ frame' = [replayed |-> Head(uiQueue).replayed, view |-> Head(uiQueue).view]
    /\ quiet' = 0
    /\ uiAt' = "onFrame"
    /\ UNCHANGED <<lifecycleVars, bridge, tickerThread, reducer, rendered, ghosts>>

Longer == IF validStreak < RestoreFrames THEN validStreak + 1 ELSE validStreak

(* The time is taken again; a frame that was replayed does not count.      *)
BeginOnFrame ==
    /\ uiAt = "onFrame"
    /\ quiet' = 0
    /\ uiAt' = IF frame.replayed THEN "refuse" ELSE "judge"
    /\ validStreak' = IF frame.replayed THEN validStreak ELSE Longer
    /\ UNCHANGED <<lifecycleVars, bridge, frame, tickerThread, disposition, hold, screen, ghosts>>

(* The end of onFrame: what it returns is rendered.                        *)
Render(shown) ==
    /\ rendered' = shown
    /\ uiAt' = "idle" /\ frame' = NoFrame

RefuseReplay ==
    /\ uiAt = "refuse"
    /\ disposition' = "INVALID"
    /\ Render("INVALID")
    /\ UNCHANGED <<lifecycleVars, bridge, tickerThread, validStreak, hold, uiQueue, quiet, ghosts>>

\* Mutant: a frame that does not yet restore begins the streak again.
HoldBackAndForget ==
    /\ uiAt' = IF validStreak < RestoreFrames THEN "return" ELSE "restore"
    /\ validStreak' = IF validStreak < RestoreFrames THEN 0 ELSE validStreak

(* A degraded display is restored by the streak.                           *)
HoldBack ==
    /\ uiAt' = IF validStreak < RestoreFrames THEN "return" ELSE "restore"
    /\ UNCHANGED validStreak

(* The disposition is read three times.  The reads for UNAVAILABLE and for *)
(* STALE are one step: nobody but this thread writes the former.  Between  *)
(* them and the last the ticker can put STALE in the place of INVALID.     *)
Judge ==
    /\ uiAt = "judge"
    /\ IF disposition \in {"UNAVAILABLE", "STALE"}
       THEN HoldBack
       ELSE uiAt' = "judgeInvalid" /\ UNCHANGED validStreak
    /\ UNCHANGED <<lifecycleVars, bridge, frame, tickerThread, disposition, hold, screen, quiet,
                   ghosts>>

JudgeInvalid ==
    /\ uiAt = "judgeInvalid"
    /\ IF disposition = "INVALID"
       THEN HoldBack
       ELSE uiAt' = "live" /\ UNCHANGED validStreak
    /\ UNCHANGED <<lifecycleVars, bridge, frame, tickerThread, disposition, hold, screen, quiet,
                   ghosts>>

(* A display that is not degraded shows the live state of the frame.       *)
ShowLive ==
    /\ uiAt = "live"
    /\ disposition' = frame.view
    /\ released' = (released \/ frame.view = "RELEASED")
    /\ Render(frame.view)
    /\ UNCHANGED <<lifecycleVars, bridge, tickerThread, validStreak, hold, uiQueue, quiet, faults>>

Restore ==
    /\ uiAt = "restore"
    /\ validStreak' = 0
    /\ disposition' = "RESTORED"
    /\ uiAt' = "hold"
    /\ UNCHANGED <<lifecycleVars, bridge, frame, tickerThread, hold, screen, quiet, ghosts>>

(* The hold is reckoned from the time of the frame; what is left of it is  *)
(* known as long as the silence since is.                                  *)
BeginHold ==
    /\ uiAt = "hold"
    /\ hold' \in {left \in 0 .. RestoredHold : left + quiet = RestoredHold \/ quiet > StaleAfter}
    /\ uiAt' = "return"
    /\ UNCHANGED <<lifecycleVars, bridge, frame, tickerThread, disposition, validStreak, screen,
                   quiet, ghosts>>

(* The disposition is read again to be returned.                           *)
ReturnFromFrame ==
    /\ uiAt = "return"
    /\ Render(disposition)
    /\ UNCHANGED <<lifecycleVars, bridge, tickerThread, reducer, uiQueue, quiet, ghosts>>

(* What the ticker had come to when it was posted.                         *)
RenderPosted ==
    /\ uiAt = "idle"
    /\ uiQueue # << >> /\ Head(uiQueue).kind = "show"
    /\ uiQueue' = Tail(uiQueue)
    /\ rendered' = Head(uiQueue).view
    /\ UNCHANGED <<lifecycleVars, bridge, uiThread, tickerThread, reducer, quiet, ghosts>>

OnInvalid ==
    /\ uiAt = "idle"
    /\ uiQueue # << >> /\ Head(uiQueue).kind = "invalid"
    /\ uiQueue' = Tail(uiQueue)
    /\ validStreak' = 0
    /\ disposition' = "INVALID" /\ rendered' = "INVALID"
    /\ UNCHANGED <<lifecycleVars, bridge, uiThread, tickerThread, hold, quiet, ghosts>>

Post(kind, shown) ==
    /\ Len(uiQueue) < MaxQueue
    /\ uiQueue' = Append(uiQueue, [kind |-> kind, replayed |-> FALSE, view |-> shown])

(* The subscriber's thread: a read of the subscription fails.              *)
FailRead ==
    /\ faults < MaxFaults
    /\ faults' = faults + 1
    /\ Post("invalid", "INVALID")
    /\ UNCHANGED <<lifecycleVars, bridge, uiThread, tickerThread, reducer, rendered, quiet, released>>

-----------------------------------------------------------------------------
(* The ticker's thread: it reads how long the stream has been silent, then *)
(* writes the reducer and posts what came of it; then it reads the         *)
(* disposition, and may write over what has been reduced since.            *)

TickBegin ==
    /\ ticker = "idle"
    /\ ticker' = IF quiet > StaleAfter THEN "onStale" ELSE "onTick"
    /\ UNCHANGED <<lifecycleVars, bridge, uiThread, result, reducer, screen, quiet, ghosts>>

OnStale ==
    /\ ticker = "onStale"
    /\ disposition' = "STALE"
    /\ ticker' = "postStale"
    /\ UNCHANGED <<lifecycleVars, bridge, uiThread, result, validStreak, hold, screen, quiet, ghosts>>

PostStale ==
    /\ ticker = "postStale"
    /\ Post("show", "STALE")
    /\ ticker' = "onTick"
    /\ UNCHANGED <<lifecycleVars, bridge, uiThread, result, reducer, rendered, quiet, ghosts>>

(* The restored indication is not shown for ever.  Of the hold, the time   *)
(* of the check is taken, a moment after that of the tick.                 *)
OnTick ==
    /\ ticker = "onTick"
    /\ ticker' = IF disposition = "RESTORED" /\ hold = 0 THEN "expire" ELSE "return"
    /\ UNCHANGED <<lifecycleVars, bridge, uiThread, result, reducer, screen, quiet, ghosts>>

Expire ==
    /\ ticker = "expire"
    /\ disposition' = "MONITORING" /\ result' = "MONITORING"
    /\ ticker' = "post"
    /\ UNCHANGED <<lifecycleVars, bridge, uiThread, validStreak, hold, screen, quiet, ghosts>>

ReturnFromTick ==
    /\ ticker = "return"
    /\ result' = disposition
    /\ ticker' = "post"
    /\ UNCHANGED <<lifecycleVars, bridge, uiThread, reducer, screen, quiet, ghosts>>

\* Mutant: the ticker is not started again once the display is degraded.
PostTickUntilDegraded ==
    /\ ticker = "post"
    /\ Post("show", result)
    /\ ticker' = IF result \in Degraded THEN "stopped" ELSE "idle"
    /\ result' = "UNAVAILABLE"
    /\ UNCHANGED <<lifecycleVars, bridge, uiThread, reducer, rendered, quiet, ghosts>>

PostTick ==
    /\ ticker = "post"
    /\ Post("show", result)
    /\ ticker' = "idle"
    /\ result' = "UNAVAILABLE"
    /\ UNCHANGED <<lifecycleVars, bridge, uiThread, reducer, rendered, quiet, ghosts>>

(* Time: the silence and the hold go on.                                   *)
Pass ==
    /\ quiet' = IF quiet \in {Never, StaleAfter + 1} THEN quiet ELSE quiet + 1
    /\ hold' = IF hold = 0 THEN 0 ELSE hold - 1
    /\ UNCHANGED <<lifecycleVars, bridge, uiThread, tickerThread, disposition, validStreak, screen,
                   ghosts>>

Ticker == TickBegin \/ OnStale \/ PostStale \/ OnTick \/ Expire \/ ReturnFromTick \/ PostTick
ReduceFrame ==
    \/ BeginOnFrame \/ RefuseReplay \/ Judge \/ JudgeInvalid \/ ShowLive
    \/ Restore \/ BeginHold \/ ReturnFromFrame
UiThread == TakeFrame \/ ReduceFrame \/ RenderPosted \/ OnInvalid

DisplayNext ==
    \/ Coordinate
    \/ OnLifecycle \/ OnWarning \/ OnBraking
    \/ \E native \in BOOLEAN : OnDiagnostics(native)
    \/ \E target \in {"none", "left", "right"}, delivered \in BOOLEAN :
           PublishFrame(target, delivered)
    \/ RestartBridge
    \/ UiThread \/ FailRead
    \/ Ticker
    \/ Pass

DisplaySpec == DisplayInit /\ [][DisplayNext]_displayVars

(* The topics and the threads of the display go on; that frames flow is    *)
(* left to the properties.  Strong only because the queue is bounded.      *)
FairDisplaySpec ==
    /\ DisplaySpec
    /\ WF_displayVars(OnLifecycle)
    /\ WF_displayVars(UiThread)
    /\ SF_displayVars(Ticker)

-----------------------------------------------------------------------------
(* Properties.                                                             *)

Item == [kind : {"frame", "show", "invalid"}, replayed : BOOLEAN, view : Dispositions]

(* The state has its shape, and a live display has had a frame.            *)
DisplayTypeOK ==
    /\ lifecycle \in Lifecycles /\ warning \in BOOLEAN
    /\ seen \in [lifecycle : Lifecycles \cup {"none"}, warning : BOOLEAN, native : BOOLEAN,
                 braking : BOOLEAN]
    /\ behind \in 0 .. MaxBehind
    /\ \A i \in DOMAIN uiQueue : uiQueue[i] \in Item
    /\ uiAt \in {"idle", "onFrame", "refuse", "judge", "judgeInvalid", "live", "restore", "hold",
                 "return"}
    /\ frame \in [replayed : BOOLEAN, view : Dispositions]
    /\ disposition \in Dispositions /\ rendered \in Dispositions
    /\ validStreak \in 0 .. RestoreFrames
    /\ hold \in 0 .. RestoredHold
    /\ quiet \in Never .. StaleAfter + 1
    /\ ticker \in {"idle", "onStale", "postStale", "onTick", "expire", "return", "post"}
    /\ result \in Dispositions
    /\ released \in BOOLEAN
    /\ disposition \in Live => quiet # Never

(* The display does not invent a release: when it shows one, the           *)
(* coordinator has verified the stop.                                      *)
ReleasedIsReal ==
    "RELEASED" \in {disposition, rendered} => lifecycle = "released_verified_stop"

(* The braking request stays on when braking has ended: after the release  *)
(* the display goes back to neither intervention nor warning, as long as   *)
(* the bridge lives that has seen the release.  Monitoring comes from the  *)
(* ticker alone, when it ends a restored indication that it saw.           *)
ReleaseIsNotForgotten ==
    [][(released /\ faults = 0)
        => \/ disposition' \in Degraded \cup {"RESTORED", "RELEASED", disposition}
           \/ Expire]_displayVars

(* The state machine that the reducer says it mirrors leaves the release   *)
(* for a degraded state only.  The ticker can have seen RESTORED before    *)
(* the release came, and writes MONITORING over it.                        *)
ReleaseIsNotUndone ==
    [][disposition = "RELEASED" => disposition' \in Degraded \cup {"RELEASED"}]_displayVars

(* When frames stop coming the screen says so, whatever it showed.         *)
SilenceIsShown == (quiet > StaleAfter) ~> (rendered \in Degraded \/ quiet <= StaleAfter)

(* As long as frames flow, a release is shown in the end and stays, also   *)
(* after the bridge was restarted, its frames were taken for replays, or   *)
(* the ticker wrote over it.                                               *)
FramesFlow == <>[](quiet <= StaleAfter) /\ []<><<TakeFrame>>_displayVars
ReleaseIsShown ==
    (FramesFlow /\ <>(lifecycle = "released_verified_stop")) => <>[](rendered = "RELEASED")
=============================================================================
