-------------------------- MODULE AebsCoordinator --------------------------
(***************************************************************************)
(* The AEBS coordinator of the Autoware benches: a node whose callbacks    *)
(* run one at a time, in any order the topics bring them, and whose timer  *)
(* publishes what it decided.                                              *)
(*                                                                         *)
(* Time is counted in ticks; a stamp of 0 is one that is not set.  The     *)
(* distances are whole numbers of the bumper gap.                          *)
(***************************************************************************)
EXTENDS AebsLifecycle, Integers

CONSTANTS
    OverrideMaxAge, \* override_max_age_s
    OdometryMaxAge, \* odometry_max_age_s, and the age of the geometry
    StopHold,       \* stop_hold_s
    WarningMargin,  \* warning_margin_m
    RssDistances,   \* the values of the native RSS distance
    PointDistances, \* the values of the distance of the closest point
    MaxTime         \* bound: the clock

ASSUME CoordinatorAssumption ==
    /\ OverrideMaxAge \in Nat \ {0} /\ OdometryMaxAge \in Nat \ {0} /\ StopHold \in Nat \ {0}
    /\ WarningMargin \in Nat
    /\ RssDistances \subseteq Nat /\ PointDistances \subseteq Nat
    /\ MaxTime \in Nat

None == -1
Times == 0 .. MaxTime
NoSample == [value |-> None, at |-> 0]
NoOverride == [given |-> FALSE, value |-> FALSE, source |-> 0]

Nothing == [value |-> FALSE, age |-> None]

VARIABLES
    now,          \* the clock
    nominal,      \* a nominal command has been received
    override,     \* the driver's override: its value and its source stamp
    rss,          \* the RSS distance and when it was received
    distance,     \* the point distance and when it was received
    stoppedSince, \* _stopped_since_s, None: not stopped
    lastStop,     \* _last_stop_sample_s
    command,      \* the last command published
    suppressed,   \* history: the last intervention that an override suppressed
    samples       \* history: the odometry of late that was used while braking

inputs == <<override, rss, distance>>
latch == <<lifecycle, stoppedSince, lastStop>>
outputs == <<command, suppressed>>
vars == <<now, nominal, override, rss, distance, lifecycle, warning, stoppedSince, lastStop,
          command, suppressed, samples>>

Init ==
    /\ now = 1
    /\ nominal = FALSE
    /\ override = NoOverride
    /\ rss = NoSample
    /\ distance = NoSample
    /\ lifecycle = "armed"
    /\ warning = FALSE
    /\ stoppedSince = None
    /\ lastStop = None
    /\ command = "none"
    /\ suppressed = Nothing
    /\ samples = {}

-----------------------------------------------------------------------------
(* The decisions.                                                          *)

classify_override_source(stamp) ==
    LET age == stamp - override.source
    IN  IF ~override.given THEN "inconclusive_missing_source"
        ELSE IF override.source <= 0 \/ stamp <= 0 THEN "error_malformed_source"
        ELSE IF age < 0 THEN "error_future_source"
        ELSE IF age > OverrideMaxAge THEN "degraded_stale_source"
        ELSE IF override.value THEN "conscious_override" ELSE "control_clear"

braking_authorized(stamp) == classify_override_source(stamp) # "conscious_override"

FreshSample(sample) == sample.value # None /\ now - sample.at <= OdometryMaxAge

geometry_is_fresh == FreshSample(rss) /\ FreshSample(distance)

warning_requested == distance.value <= rss.value + WarningMargin

\* Mutant: a warning may begin in any state.
WarningInAnyState == warning \/ (geometry_is_fresh /\ warning_requested)

(* A warning is latched; it begins only before braking does.               *)
next_warning_state ==
    \/ warning
    \/ geometry_is_fresh /\ lifecycle = "armed" /\ warning_requested

-----------------------------------------------------------------------------
(* The callbacks.                                                          *)

OnNominal ==
    /\ nominal' = TRUE
    /\ UNCHANGED <<now, inputs, latch, warning, outputs, samples>>

OnOverride(value, source) ==
    /\ override' = [given |-> TRUE, value |-> value, source |-> source]
    /\ UNCHANGED <<now, nominal, rss, distance, latch, warning, outputs, samples>>

Sample(value) == IF value = None THEN NoSample ELSE [value |-> value, at |-> now]

(* A value that is no distance empties the cache.                          *)
OnRss(value) ==
    /\ rss' = Sample(value)
    /\ UNCHANGED <<now, nominal, override, distance, latch, warning, outputs, samples>>

(* So does a cloud without a point ahead; one without coordinates is let   *)
(* go, and leaves everything as it was.                                    *)
OnCloud(value) ==
    /\ distance' = Sample(value)
    /\ UNCHANGED <<now, nominal, override, rss, latch, warning, outputs, samples>>

Suppression(stamp) == [value |-> override.value,
                       age |-> IF override.source = 0 \/ stamp = 0 THEN None
                               ELSE stamp - override.source]

\* Mutant: braking is latched before the warning is looked at.
LatchBeforeWarning(stamp) ==
    /\ IF lifecycle = "armed" /\ braking_authorized(stamp)
       THEN lifecycle' = "braking_latched" /\ UNCHANGED <<warning, suppressed>>
       ELSE /\ warning' = next_warning_state
            /\ suppressed' = IF lifecycle = "armed" THEN Suppression(stamp)
                             ELSE suppressed
            /\ UNCHANGED lifecycle
    /\ UNCHANGED <<now, nominal, inputs, stoppedSince, lastStop, command, samples>>

(* A native intervention; the warning is evaluated in the state before it. *)
(* Other diagnostics change nothing.                                       *)
OnIntervention(stamp) ==
    /\ warning' = next_warning_state
    /\ IF lifecycle = "armed" /\ braking_authorized(stamp)
       THEN lifecycle' = "braking_latched" /\ stoppedSince' = None /\ suppressed' = Nothing
       ELSE /\ suppressed' = IF lifecycle = "armed" THEN Suppression(stamp)
                             ELSE suppressed
            /\ UNCHANGED <<lifecycle, stoppedSince>>
    /\ UNCHANGED <<now, nominal, inputs, lastStop, command, samples>>

Used(moving) == samples' = samples \cup {[at |-> now, moving |-> moving]}

\* Mutant: a gap in the odometry counts as time at rest.
HoldFromFirst == IF stoppedSince = None THEN now ELSE stoppedSince

(* A gap in the samples begins the hold again.                             *)
HoldFrom ==
    IF stoppedSince = None \/ (lastStop # None /\ now - lastStop > OdometryMaxAge)
    THEN now ELSE stoppedSince

(* A sample too old or of another frame is not used.                       *)
OnMovingOdometry ==
    /\ lifecycle = "braking_latched"
    /\ stoppedSince' = None
    /\ lastStop' = None
    /\ Used(TRUE)
    /\ UNCHANGED <<now, nominal, inputs, lifecycle, warning, outputs>>

OnStoppedOdometry ==
    /\ lifecycle = "braking_latched"
    /\ stoppedSince' = HoldFrom
    /\ lastStop' = now
    /\ IF now - HoldFrom >= StopHold
       THEN lifecycle' = "released_verified_stop" /\ warning' = FALSE
       ELSE UNCHANGED <<lifecycle, warning>>
    /\ Used(FALSE)
    /\ UNCHANGED <<now, nominal, inputs, outputs>>

(* The timer: nothing at all is published before a nominal command came;   *)
(* then the last one, or braking in its place.                             *)
Publish ==
    /\ nominal
    /\ warning' = next_warning_state
    /\ command' = IF lifecycle = "braking_latched" THEN "brake" ELSE "nominal"
    /\ UNCHANGED <<now, nominal, inputs, latch, suppressed, samples>>

(* The samples of before the last hold no longer matter.                   *)
Tick ==
    /\ now < MaxTime
    /\ now' = now + 1
    /\ samples' = {s \in samples : s.at >= now' - StopHold - OdometryMaxAge}
    /\ UNCHANGED <<nominal, inputs, latch, warning, outputs>>

(* A stamp is of any time, past or to come, or is not set.                 *)
Next ==
    \/ OnNominal
    \/ \E value \in BOOLEAN, source \in Times : OnOverride(value, source)
    \/ \E value \in RssDistances \cup {None} : OnRss(value)
    \/ \E value \in PointDistances \cup {None} : OnCloud(value)
    \/ \E stamp \in Times : OnIntervention(stamp)
    \/ OnMovingOdometry
    \/ OnStoppedOdometry
    \/ Publish
    \/ Tick

Spec == Init /\ [][Next]_vars

-----------------------------------------------------------------------------
(* Properties.                                                             *)

Sampled(sample, values) == sample.value \in values \cup {None} /\ sample.at \in 0 .. now

Override(o) == o.given \in BOOLEAN /\ o.value \in BOOLEAN /\ o.source \in Times

(* The state has its shape: nothing was received after now, and the hold   *)
(* lies between its first sample and its last.                             *)
TypeOK ==
    /\ now \in Times
    /\ nominal \in BOOLEAN
    /\ Override(override)
    /\ Sampled(rss, RssDistances)
    /\ Sampled(distance, PointDistances)
    /\ lifecycle \in {"armed", "braking_latched", "released_verified_stop"}
    /\ warning \in BOOLEAN
    /\ stoppedSince \in {None} \cup 1 .. now /\ lastStop \in {None} \cup stoppedSince .. now
    /\ (stoppedSince = None) <=> (lastStop = None)
    /\ suppressed.value \in BOOLEAN /\ suppressed.age \in None .. MaxTime
    /\ command \in {"none", "nominal", "brake"}

(* What the coordinator promises of its state.                             *)
ImplementsLifecycle == LifecycleSpec

(* As long as the coordinator has not braked, each intervention it was     *)
(* told of was suppressed by an override of the driver that was fresh when *)
(* the intervention was: a source that is silent, missing, malformed or    *)
(* ahead of its time suppresses nothing.                                   *)
SuppressedOnlyByTheDriver ==
    suppressed # Nothing => suppressed.value /\ suppressed.age \in 0 .. OverrideMaxAge

(* A risk that fresh geometry shows when braking begins is warned of: the  *)
(* warning is not lost between two ticks of the timer.                     *)
Risky ==
    /\ rss.value # None /\ now - rss.at <= OdometryMaxAge
    /\ distance.value # None /\ now - distance.at <= OdometryMaxAge
    /\ distance.value <= rss.value + WarningMargin
WarningIsNotLost ==
    [][(lifecycle = "armed" /\ lifecycle' = "braking_latched" /\ Risky) => warning']_vars

(* A warning begins on fresh geometry only.                                *)
WarningNeedsRisk == [][(~warning /\ warning') => Risky]_vars

(* Braking is released after a stop that was seen for the whole hold: no   *)
(* sample in it was of a moving car, and none came too late after another. *)
ReleasedAtStandstill ==
    [][(lifecycle = "braking_latched" /\ lifecycle' = "released_verified_stop") =>
        \E stop \in samples' :
            /\ now - stop.at >= StopHold
            /\ \A s \in samples' : s.at > stop.at => ~s.moving
            /\ \A time \in stop.at .. (now - OdometryMaxAge) :
                   \E s \in samples' : s.at \in (time + 1) .. (time + OdometryMaxAge)]_vars
=============================================================================
