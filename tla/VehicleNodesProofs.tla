------------------------- MODULE VehicleNodesProofs -------------------------
(***************************************************************************)
(* What four parts of the vehicle promise, for every value of their        *)
(* constants: the coordinator, the display, and the two paths of the       *)
(* S-CORE adapter.                                                         *)
(*                                                                         *)
(* The coordinator.  The lifecycle is one of its states and the warning a  *)
(* Boolean, so that a warning that is latched is kept or raised.  No stamp *)
(* is ahead of the clock (StampsOK), and since the hold began each sample  *)
(* was of a stop and none came too late after another (StandstillInv).     *)
(*                                                                         *)
(* The display.  On its way to the screen a release is in what the bridge  *)
(* has seen, in the queue, in the hands of a thread or in the reducer, and *)
(* in none of them before the coordinator released (NoInventedRelease); as *)
(* long as the bridge lives, every frame behind one that shows a release   *)
(* shows a release too, the one at hand included (ReleaseStays).           *)
(*                                                                         *)
(* The speed path.  An entry into a subscription happens only after the    *)
(* handler of the leave before it has run, so that a read whose epoch      *)
(* stands has stayed in one subscription (PhaseInv); a discard that ended  *)
(* has taken all that was sent before the entry, so that what a later read *)
(* of the epoch returns is newer than the entry and than all that was      *)
(* published (BufferInv).                                                  *)
(*                                                                         *)
(* The frame path.  The splitter's buffers are the bytes received of the   *)
(* frame under way, or it counts those that are left to skip               *)
(* (SplitterFollows): so the sample it hands on is the frame as sent.      *)
(***************************************************************************)
EXTENDS AebsCoordinator, AebsPresentation, SpeedPath, FramePath, FiniteSetTheorems,
        SequenceTheorems, TLAPS

-----------------------------------------------------------------------------
(* The coordinator.                                                        *)

LifecycleOK ==
    /\ lifecycle \in {"armed", "braking_latched", "released_verified_stop"}
    /\ warning \in BOOLEAN

(* The actions that leave the lifecycle and the warning alone.             *)
Elsewhere ==
    \/ OnNominal
    \/ \E value \in BOOLEAN, source \in Times : OnOverride(value, source)
    \/ \E value \in RssDistances \cup {None} : OnRss(value)
    \/ \E value \in PointDistances \cup {None} : OnCloud(value)
    \/ OnMovingOdometry
    \/ Tick

(* The warning that next_warning_state gives is the old one or a new one.  *)
LEMMA WarningIsLatched ==
    ASSUME LifecycleOK
    PROVE  /\ next_warning_state \in BOOLEAN
           /\ warning => next_warning_state
           /\ (next_warning_state # warning) => lifecycle = "armed" /\ ~warning /\ next_warning_state
<1> DEFINE risk == geometry_is_fresh /\ lifecycle = "armed" /\ warning_requested
<1>1. next_warning_state <=> (warning \/ risk)
  BY DEF next_warning_state
<1>2. next_warning_state \in BOOLEAN
  BY DEF next_warning_state
<1>3. risk => lifecycle = "armed"
  OBVIOUS
<1> HIDE DEF risk
<1> QED
  BY <1>1, <1>2, <1>3 DEF LifecycleOK

(* What a step does to the lifecycle and the warning.                      *)
LEMMA StepCases ==
    ASSUME LifecycleOK, [Next]_vars
    PROVE  \/ UNCHANGED <<lifecycle, warning>>
           \/ /\ warning' = next_warning_state
              /\ \/ lifecycle' = lifecycle
                 \/ lifecycle = "armed" /\ lifecycle' = "braking_latched"
           \/ /\ lifecycle = "braking_latched" /\ lifecycle' = "released_verified_stop"
              /\ warning' = FALSE
<1>1. CASE Elsewhere
  BY <1>1 DEF Elsewhere, OnNominal, OnOverride, OnRss, OnCloud, OnMovingOdometry, Tick, latch
<1>2. CASE \E stamp \in Times : OnIntervention(stamp)
  BY <1>2 DEF OnIntervention
<1>3. CASE OnStoppedOdometry
  BY <1>3 DEF OnStoppedOdometry
<1>4. CASE Publish
  BY <1>4 DEF Publish, latch
<1>5. CASE UNCHANGED vars
  BY <1>5 DEF vars
<1> QED
  BY <1>1, <1>2, <1>3, <1>4, <1>5 DEF Next, Elsewhere

LEMMA LifecycleInductive == Spec => []LifecycleOK
<1>1. Init => LifecycleOK
  BY DEF Init, LifecycleOK
<1>2. LifecycleOK /\ [Next]_vars => LifecycleOK'
  <2> SUFFICES ASSUME LifecycleOK, [Next]_vars PROVE LifecycleOK'
    OBVIOUS
  <2> QED
    BY WarningIsLatched, StepCases DEF LifecycleOK
<1> QED
  BY <1>1, <1>2, PTL DEF Spec

(* The coordinator keeps its promise: there is one intervention, released  *)
(* once, and a warning only ends with the intervention.                    *)
THEOREM CoordinatorImplementsLifecycle == Spec => ImplementsLifecycle
<1>1. Init => LifecycleInit
  BY DEF Init, LifecycleInit
<1>2. LifecycleOK /\ [Next]_vars => [LifecycleNext]_(lifecycleVars)
  <2> SUFFICES ASSUME LifecycleOK, [Next]_vars
               PROVE  [LifecycleNext]_(lifecycleVars)
    OBVIOUS
  <2>1. CASE UNCHANGED <<lifecycle, warning>>
    BY <2>1 DEF lifecycleVars
  <2>2. CASE warning' = next_warning_state /\ lifecycle' = lifecycle
    <3>1. CASE next_warning_state = warning
      BY <2>2, <3>1 DEF lifecycleVars
    <3>2. CASE next_warning_state # warning
      <4>1. lifecycle = "armed" /\ ~warning /\ next_warning_state
        BY <3>2, WarningIsLatched
      <4>2. warning' = TRUE
        BY <2>2, <4>1, WarningIsLatched
      <4> QED
        BY <2>2, <4>1, <4>2 DEF LifecycleNext, Warn
    <3> QED
      BY <3>1, <3>2
  <2>3. CASE /\ warning' = next_warning_state
             /\ lifecycle = "armed" /\ lifecycle' = "braking_latched"
    <3>1. warning' \in {warning, TRUE}
      BY <2>3, WarningIsLatched
    <3> QED
      BY <2>3, <3>1 DEF LifecycleNext, Brake
  <2>4. CASE /\ lifecycle = "braking_latched" /\ lifecycle' = "released_verified_stop"
             /\ warning' = FALSE
    BY <2>4 DEF LifecycleNext, Release
  <2> QED
    BY <2>1, <2>2, <2>3, <2>4, StepCases
<1> QED
  BY <1>1, <1>2, LifecycleInductive, PTL
     DEF Spec, ImplementsLifecycle, LifecycleSpec

(* A warning begins on fresh geometry only.                                *)
THEOREM WarningsNeedRisk == Spec => WarningNeedsRisk
<1>1. LifecycleOK /\ [Next]_vars => [(~warning /\ warning') => Risky]_vars
  <2> SUFFICES ASSUME LifecycleOK, [Next]_vars, ~warning, warning' PROVE Risky
    OBVIOUS
  <2>1. next_warning_state
    BY StepCases DEF LifecycleOK
  <2> QED
    BY <2>1 DEF next_warning_state, geometry_is_fresh, FreshSample, warning_requested, Risky
<1> QED
  BY <1>1, LifecycleInductive, PTL DEF Spec, WarningNeedsRisk

(* A risk that fresh geometry shows when braking begins is warned of.      *)
THEOREM WarningsAreNotLost == Spec => WarningIsNotLost
<1>1. LifecycleOK /\ [Next]_vars
      => [(lifecycle = "armed" /\ lifecycle' = "braking_latched" /\ Risky) => warning']_vars
  <2> SUFFICES ASSUME LifecycleOK, [Next]_vars,
                      lifecycle = "armed", lifecycle' = "braking_latched", Risky
               PROVE  warning'
    OBVIOUS
  <2>1. next_warning_state
    BY DEF next_warning_state, geometry_is_fresh, FreshSample, warning_requested, Risky
  <2> QED
    BY <2>1, StepCases
<1> QED
  BY <1>1, LifecycleInductive, PTL DEF Spec, WarningIsNotLost

-----------------------------------------------------------------------------
(* The override.                                                           *)

(* What the decision on an override is kept from.                         *)
StampsOK ==
    /\ now \in Nat
    /\ override \in [given : BOOLEAN, value : BOOLEAN, source : Nat]

(* Every step keeps the stamps, and only an intervention that is not       *)
(* acted on changes what was suppressed.                                   *)
LEMMA SuppressionCases ==
    ASSUME StampsOK, [Next]_vars
    PROVE  /\ StampsOK'
           /\ \/ suppressed' = suppressed
              \/ suppressed' = Nothing
              \/ \E stamp \in Times :
                     ~braking_authorized(stamp) /\ suppressed' = Suppression(stamp)
<1>1. CASE OnNominal \/ OnMovingOdometry \/ OnStoppedOdometry \/ Publish
  BY <1>1 DEF OnNominal, OnMovingOdometry, OnStoppedOdometry, Publish, inputs, outputs, latch,
              StampsOK
<1>2. ASSUME NEW value \in BOOLEAN, NEW source \in Times,
             OnOverride(value, source)
      PROVE  StampsOK' /\ suppressed' = suppressed
  <2>1. source \in Nat
    BY <1>2 DEF Times
  <2> QED
    BY <1>2, <2>1 DEF OnOverride, outputs, StampsOK
<1>3. CASE \E value \in RssDistances \cup {None} : OnRss(value)
  BY <1>3 DEF OnRss, outputs, StampsOK
<1>4. CASE \E value \in PointDistances \cup {None} : OnCloud(value)
  BY <1>4 DEF OnCloud, outputs, StampsOK
<1>5. ASSUME NEW stamp \in Times, OnIntervention(stamp)
      PROVE  /\ StampsOK'
             /\ \/ suppressed' \in {suppressed, Nothing}
                \/ ~braking_authorized(stamp) /\ suppressed' = Suppression(stamp)
  <2>1. StampsOK'
    BY <1>5 DEF OnIntervention, inputs, StampsOK
  <2>2. CASE lifecycle = "armed" /\ braking_authorized(stamp)
    BY <1>5, <2>1, <2>2 DEF OnIntervention
  <2>3. CASE lifecycle = "armed" /\ ~braking_authorized(stamp)
    BY <1>5, <2>1, <2>3 DEF OnIntervention
  <2>4. CASE lifecycle # "armed"
    BY <1>5, <2>1, <2>4 DEF OnIntervention
  <2> QED
    BY <2>2, <2>3, <2>4
<1>6. CASE Tick
  BY <1>6 DEF Tick, inputs, outputs, StampsOK
<1>7. CASE UNCHANGED vars
  BY <1>7 DEF vars, inputs, outputs, StampsOK
<1> QED
  BY <1>1, <1>2, <1>3, <1>4, <1>5, <1>6, <1>7 DEF Next

(* An override that is not overruled is the driver's, and fresh.           *)
LEMMA OnlyConsciousSuppresses ==
    ASSUME StampsOK, NEW stamp \in Times, ~braking_authorized(stamp)
    PROVE  Suppression(stamp).value /\ Suppression(stamp).age \in 0 .. OverrideMaxAge
<1>1. classify_override_source(stamp) = "conscious_override"
  BY DEF braking_authorized
<1>2. override.source \in Nat /\ stamp \in Nat /\ override.value \in BOOLEAN
  BY DEF StampsOK, Times
<1>3. override.given
  BY <1>1 DEF classify_override_source
<1>4. ~(override.source <= 0 \/ stamp <= 0)
  BY <1>1, <1>3 DEF classify_override_source
<1>5. ~(stamp - override.source < 0)
  BY <1>1, <1>3, <1>4 DEF classify_override_source
<1>6. ~(stamp - override.source > OverrideMaxAge)
  BY <1>1, <1>3, <1>4, <1>5 DEF classify_override_source
<1>7. override.value
  BY <1>1, <1>3, <1>4, <1>5, <1>6 DEF classify_override_source
<1>8. Suppression(stamp).value = override.value
  BY DEF Suppression
<1>9. override.source # 0 /\ stamp # 0
  BY <1>2, <1>4
<1>10. Suppression(stamp).age = stamp - override.source
  BY <1>9 DEF Suppression
<1>11. stamp - override.source \in 0 .. OverrideMaxAge
  BY <1>2, <1>5, <1>6, CoordinatorAssumption
<1> QED
  BY <1>7, <1>8, <1>10, <1>11

(* Nothing but a fresh override of the driver suppresses an intervention.  *)
THEOREM SuppressionCorrect == Spec => []SuppressedOnlyByTheDriver
<1> DEFINE Inv == StampsOK /\ SuppressedOnlyByTheDriver
<1>1. Init => Inv
  BY DEF Init, StampsOK, NoOverride, SuppressedOnlyByTheDriver
<1>2. Inv /\ [Next]_vars => Inv'
  <2> SUFFICES ASSUME Inv, [Next]_vars PROVE Inv'
    OBVIOUS
  <2>1. CASE suppressed' = suppressed \/ suppressed' = Nothing
    BY <2>1, SuppressionCases DEF SuppressedOnlyByTheDriver, Nothing
  <2>2. ASSUME NEW stamp \in Times, ~braking_authorized(stamp),
               suppressed' = Suppression(stamp)
        PROVE  SuppressedOnlyByTheDriver'
    BY <2>2, OnlyConsciousSuppresses DEF SuppressedOnlyByTheDriver
  <2> QED
    BY <2>1, <2>2, SuppressionCases
<1> QED
  BY <1>1, <1>2, PTL DEF Spec

-----------------------------------------------------------------------------
(* The release.                                                            *)

(* The samples are of the past.                                            *)
SamplesOK ==
    /\ now \in Nat
    /\ samples \subseteq [at : Nat, moving : BOOLEAN]
    /\ \A s \in samples : s.at <= now

(* Nothing moved after the time, in the samples that were kept.            *)
StillSince(time, kept) == \A s \in kept : s.at > time => ~s.moving

(* No two samples from the one time to the other are too far apart.        *)
Covered(first, last, kept) ==
    \A time \in first .. (last - 1) :
        \E s \in kept : s.at \in (time + 1) .. (time + OdometryMaxAge)

(* The hold: the samples from its first to its last are still there, as    *)
(* long as the last is not too old for the hold to go on.                  *)
HoldOK ==
    (lifecycle = "braking_latched" /\ stoppedSince # None) =>
        /\ stoppedSince \in Nat /\ lastStop \in Nat
        /\ stoppedSince <= lastStop /\ lastStop <= now
        /\ lastStop - stoppedSince < StopHold
        /\ now - lastStop <= OdometryMaxAge =>
              /\ [at |-> stoppedSince, moving |-> FALSE] \in samples
              /\ StillSince(stoppedSince, samples)
              /\ Covered(stoppedSince, lastStop, samples)

StandstillInv == SamplesOK /\ HoldOK

(* The actions that leave the hold and the samples alone.                  *)
HoldUntouched ==
    /\ now' = now /\ samples' = samples
    /\ lastStop' = lastStop
    /\ \/ lifecycle' = lifecycle /\ stoppedSince' = stoppedSince
       \/ lifecycle' = "braking_latched" /\ stoppedSince' = None

LEMMA HoldCases ==
    ASSUME [Next]_vars
    PROVE  HoldUntouched \/ OnMovingOdometry \/ OnStoppedOdometry \/ Tick
<1>1. CASE OnNominal
  BY <1>1 DEF OnNominal, latch, HoldUntouched
<1>2. CASE \E value \in BOOLEAN, source \in Times : OnOverride(value, source)
  BY <1>2 DEF OnOverride, latch, HoldUntouched
<1>3. CASE \E value \in RssDistances \cup {None} : OnRss(value)
  BY <1>3 DEF OnRss, latch, HoldUntouched
<1>4. CASE \E value \in PointDistances \cup {None} : OnCloud(value)
  BY <1>4 DEF OnCloud, latch, HoldUntouched
<1>5. CASE \E stamp \in Times : OnIntervention(stamp)
  BY <1>5 DEF OnIntervention, HoldUntouched
<1>6. CASE Publish
  BY <1>6 DEF Publish, latch, HoldUntouched
<1>7. CASE UNCHANGED vars
  BY <1>7 DEF vars, HoldUntouched
<1> QED
  BY <1>1, <1>2, <1>3, <1>4, <1>5, <1>6, <1>7 DEF Next

(* A stopped sample in time goes on with the hold, and its coverage.       *)
LEMMA HoldGoesOn ==
    ASSUME StandstillInv, lifecycle = "braking_latched", stoppedSince # None,
           now - lastStop <= OdometryMaxAge,
           NEW kept, kept = samples \cup {[at |-> now, moving |-> FALSE]}
    PROVE  /\ [at |-> stoppedSince, moving |-> FALSE] \in kept
           /\ StillSince(stoppedSince, kept)
           /\ Covered(stoppedSince, now, kept)
<1>1. /\ stoppedSince \in Nat /\ lastStop \in Nat /\ now \in Nat
      /\ stoppedSince <= lastStop /\ lastStop <= now
      /\ [at |-> stoppedSince, moving |-> FALSE] \in samples
      /\ StillSince(stoppedSince, samples)
      /\ Covered(stoppedSince, lastStop, samples)
  BY DEF StandstillInv, SamplesOK, HoldOK
<1>2. StillSince(stoppedSince, kept)
  BY <1>1 DEF StillSince
<1>3. Covered(stoppedSince, now, kept)
  <2> SUFFICES ASSUME NEW time \in stoppedSince .. (now - 1)
               PROVE  \E s \in kept : s.at \in (time + 1) .. (time + OdometryMaxAge)
    BY DEF Covered
  <2>1. time \in Int /\ stoppedSince <= time /\ time <= now - 1
    BY <1>1
  <2>2. CASE time < lastStop
    <3>1. time \in stoppedSince .. (lastStop - 1)
      BY <1>1, <2>1, <2>2
    <3> QED
      BY <1>1, <3>1 DEF Covered
  <2>3. CASE time >= lastStop
    <3> DEFINE last == [at |-> now, moving |-> FALSE]
    <3>1. last \in kept /\ last.at = now
      OBVIOUS
    <3>2. now \in (time + 1) .. (time + OdometryMaxAge)
      BY <1>1, <2>1, <2>3, CoordinatorAssumption
    <3> QED
      BY <3>1, <3>2
  <2> QED
    BY <1>1, <2>1, <2>2, <2>3
<1> QED
  BY <1>1, <1>2, <1>3

LEMMA OneMoreSample ==
    ASSUME SamplesOK, NEW moved \in BOOLEAN, now' = now,
           samples' = samples \cup {[at |-> now, moving |-> moved]}
    PROVE  SamplesOK'
<1>1. [at |-> now, moving |-> moved] \in [at : Nat, moving : BOOLEAN]
  BY DEF SamplesOK
<1>2. \A s \in samples' : s.at <= now
  BY DEF SamplesOK
<1> QED
  BY <1>1, <1>2 DEF SamplesOK

LEMMA SamplesKept ==
    ASSUME SamplesOK, [Next]_vars
    PROVE  SamplesOK'
<1>1. CASE HoldUntouched
  BY <1>1 DEF HoldUntouched, SamplesOK
<1>2. CASE OnMovingOdometry
  <2>1. now' = now /\ samples' = samples \cup {[at |-> now, moving |-> TRUE]}
    BY <1>2 DEF OnMovingOdometry, Used
  <2> QED
    BY <2>1, OneMoreSample
<1>3. CASE OnStoppedOdometry
  <2>1. now' = now /\ samples' = samples \cup {[at |-> now, moving |-> FALSE]}
    BY <1>3 DEF OnStoppedOdometry, Used
  <2> QED
    BY <2>1, OneMoreSample
<1>4. CASE Tick
  BY <1>4 DEF Tick, SamplesOK
<1> QED
  BY <1>1, <1>2, <1>3, <1>4, HoldCases

LEMMA HoldKept ==
    ASSUME StandstillInv, [Next]_vars
    PROVE  HoldOK'
<1> USE DEF StandstillInv
<1>1. CASE HoldUntouched
  <2>1. CASE lifecycle' = lifecycle /\ stoppedSince' = stoppedSince
    BY <1>1, <2>1 DEF HoldUntouched, HoldOK
  <2>2. CASE stoppedSince' = None
    BY <2>2 DEF HoldOK
  <2> QED
    BY <1>1, <2>1, <2>2 DEF HoldUntouched
<1>2. CASE OnMovingOdometry
  BY <1>2 DEF OnMovingOdometry, HoldOK
<1>3. CASE OnStoppedOdometry
  <2> SUFFICES ASSUME lifecycle' = "braking_latched"
               PROVE  /\ stoppedSince' \in Nat /\ lastStop' \in Nat
                      /\ stoppedSince' <= lastStop' /\ lastStop' <= now'
                      /\ lastStop' - stoppedSince' < StopHold
                      /\ [at |-> stoppedSince', moving |-> FALSE] \in samples'
                      /\ StillSince(stoppedSince', samples')
                      /\ Covered(stoppedSince', lastStop', samples')
    BY DEF HoldOK
  <2>1. /\ lifecycle = "braking_latched"
        /\ now \in Nat /\ now' = now /\ lastStop' = now /\ stoppedSince' = HoldFrom
        /\ samples' = samples \cup {[at |-> now, moving |-> FALSE]}
        /\ ~(now - HoldFrom >= StopHold)
    BY <1>3 DEF OnStoppedOdometry, Used, SamplesOK
  <2>2. CASE stoppedSince # None /\ now - lastStop <= OdometryMaxAge
    <3>1. stoppedSince \in Nat /\ lastStop \in Nat /\ stoppedSince <= lastStop /\ lastStop <= now
      BY <2>1, <2>2 DEF HoldOK
    <3>2. HoldFrom = stoppedSince
      BY <2>1, <2>2, <3>1, CoordinatorAssumption DEF HoldFrom
    <3>3. /\ [at |-> stoppedSince, moving |-> FALSE] \in samples'
          /\ StillSince(stoppedSince, samples')
          /\ Covered(stoppedSince, now, samples')
      BY <2>1, <2>2, HoldGoesOn
    <3>4. now - stoppedSince < StopHold
      BY <2>1, <3>1, <3>2, CoordinatorAssumption
    <3> QED
      BY <2>1, <3>1, <3>2, <3>3, <3>4
  <2>3. CASE ~(stoppedSince # None /\ now - lastStop <= OdometryMaxAge)
    <3>1. HoldFrom = now
      BY <2>1, <2>3, CoordinatorAssumption DEF HoldFrom, HoldOK, None
    <3>2. StillSince(now, samples')
      BY <2>1 DEF StillSince, SamplesOK
    <3>3. Covered(now, now, samples')
      BY <2>1 DEF Covered
    <3> QED
      BY <2>1, <3>1, <3>2, <3>3, CoordinatorAssumption
  <2> QED
    BY <2>2, <2>3
<1>4. CASE Tick
  <2> SUFFICES ASSUME lifecycle = "braking_latched", stoppedSince # None
               PROVE  /\ stoppedSince \in Nat /\ lastStop \in Nat
                      /\ stoppedSince <= lastStop /\ lastStop <= now'
                      /\ lastStop - stoppedSince < StopHold
                      /\ now' - lastStop <= OdometryMaxAge =>
                            /\ [at |-> stoppedSince, moving |-> FALSE] \in samples'
                            /\ StillSince(stoppedSince, samples')
                            /\ Covered(stoppedSince, lastStop, samples')
    BY <1>4 DEF Tick, latch, HoldOK
  <2>1. /\ now \in Nat /\ now' = now + 1
        /\ samples' = {s \in samples : s.at >= now' - StopHold - OdometryMaxAge}
    BY <1>4 DEF Tick, SamplesOK
  <2>2. /\ stoppedSince \in Nat /\ lastStop \in Nat
        /\ stoppedSince <= lastStop /\ lastStop <= now
        /\ lastStop - stoppedSince < StopHold
    BY DEF HoldOK
  <2>3. ASSUME now' - lastStop <= OdometryMaxAge
        PROVE  /\ [at |-> stoppedSince, moving |-> FALSE] \in samples'
               /\ StillSince(stoppedSince, samples')
               /\ Covered(stoppedSince, lastStop, samples')
    <3>1. now - lastStop <= OdometryMaxAge
      BY <2>1, <2>2, <2>3, CoordinatorAssumption
    <3>2. /\ [at |-> stoppedSince, moving |-> FALSE] \in samples
          /\ StillSince(stoppedSince, samples)
          /\ Covered(stoppedSince, lastStop, samples)
      BY <3>1 DEF HoldOK
    <3>3. ASSUME NEW s \in samples, s.at >= stoppedSince
          PROVE  s \in samples'
      <4>1. s.at \in Nat
        BY DEF SamplesOK
      <4> QED
        BY <2>1, <2>2, <2>3, <3>3, <4>1, CoordinatorAssumption
    <3>4. [at |-> stoppedSince, moving |-> FALSE] \in samples'
      BY <2>2, <3>2, <3>3
    <3>5. StillSince(stoppedSince, samples')
      BY <2>1, <3>2 DEF StillSince
    <3>6. Covered(stoppedSince, lastStop, samples')
      <4> SUFFICES ASSUME NEW time \in stoppedSince .. (lastStop - 1)
                   PROVE  \E s \in samples' : s.at \in (time + 1) .. (time + OdometryMaxAge)
        BY DEF Covered
      <4>1. PICK s \in samples : s.at \in (time + 1) .. (time + OdometryMaxAge)
        BY <3>2 DEF Covered
      <4>2. s.at >= stoppedSince
        BY <2>2, <4>1, CoordinatorAssumption
      <4> QED
        BY <3>3, <4>1, <4>2
    <3> QED
      BY <3>4, <3>5, <3>6
  <2> QED
    BY <2>1, <2>2, <2>3
<1> QED
  BY <1>1, <1>2, <1>3, <1>4, HoldCases

LEMMA StandstillInductive == Spec => []StandstillInv
<1>1. Init => StandstillInv
  BY DEF Init, StandstillInv, SamplesOK, HoldOK
<1>2. StandstillInv /\ [Next]_vars => StandstillInv'
  BY SamplesKept, HoldKept DEF StandstillInv
<1> QED
  BY <1>1, <1>2, PTL DEF Spec

(* What the release is given.                                              *)
Standstill ==
    \E stop \in samples' :
        /\ now - stop.at >= StopHold
        /\ \A s \in samples' : s.at > stop.at => ~s.moving
        /\ \A time \in stop.at .. (now - OdometryMaxAge) :
               \E s \in samples' : s.at \in (time + 1) .. (time + OdometryMaxAge)

LEMMA ReleaseNeedsStandstill ==
    ASSUME StandstillInv, [Next]_vars,
           lifecycle = "braking_latched", lifecycle' = "released_verified_stop"
    PROVE  Standstill
<1>1. OnStoppedOdometry
  BY HoldCases DEF HoldUntouched, OnMovingOdometry, Tick, latch
<1>2. /\ now \in Nat /\ now - HoldFrom >= StopHold
      /\ samples' = samples \cup {[at |-> now, moving |-> FALSE]}
  BY <1>1 DEF OnStoppedOdometry, Used, StandstillInv, SamplesOK
<1>3. stoppedSince # None /\ HoldFrom = stoppedSince
  BY <1>2, CoordinatorAssumption DEF HoldFrom
<1>4. stoppedSince \in Nat /\ lastStop \in Nat /\ stoppedSince <= lastStop /\ lastStop <= now
  BY <1>3 DEF StandstillInv, HoldOK
<1>5. now - lastStop <= OdometryMaxAge
  BY <1>2, <1>3, <1>4, CoordinatorAssumption DEF HoldFrom, None
<1>6. /\ [at |-> stoppedSince, moving |-> FALSE] \in samples'
      /\ StillSince(stoppedSince, samples')
      /\ Covered(stoppedSince, now, samples')
  BY <1>2, <1>3, <1>5, HoldGoesOn
<1>7. ASSUME NEW time \in stoppedSince .. (now - OdometryMaxAge)
      PROVE  \E s \in samples' : s.at \in (time + 1) .. (time + OdometryMaxAge)
  <2>1. time \in stoppedSince .. (now - 1)
    BY <1>2, <1>4, CoordinatorAssumption
  <2> QED
    BY <1>6, <2>1 DEF Covered
<1> DEFINE stop == [at |-> stoppedSince, moving |-> FALSE]
<1>8. stop \in samples' /\ stop.at = stoppedSince
  BY <1>6
<1>9. now - stop.at >= StopHold
  BY <1>2, <1>3, <1>8
<1> QED
  BY <1>6, <1>7, <1>8, <1>9 DEF Standstill, StillSince

(* Braking is released after a stop that was seen for the whole hold.      *)
THEOREM ReleaseCorrect == Spec => ReleasedAtStandstill
<1>1. StandstillInv /\ [Next]_vars
      => [(lifecycle = "braking_latched" /\ lifecycle' = "released_verified_stop")
          => Standstill]_vars
  BY ReleaseNeedsStandstill
<1> QED
  BY <1>1, StandstillInductive, PTL DEF Spec, ReleasedAtStandstill, Standstill

-----------------------------------------------------------------------------
(* The display.                                                            *)

IsReleased == lifecycle = "released_verified_stop"
SeenRelease == seen.lifecycle = "released_verified_stop"

(* Every place on the way of a release to the screen.                      *)
ReleaseIsOnTheWay ==
    \/ SeenRelease
    \/ \E i \in DOMAIN uiQueue : uiQueue[i].view = "RELEASED"
    \/ "RELEASED" \in {frame.view, disposition, result, rendered}

(* The types, the queue being a sequence of items.                         *)
Shape ==
    /\ lifecycle \in Lifecycles /\ warning \in BOOLEAN
    /\ seen \in [lifecycle : Lifecycles \cup {"none"}, warning : BOOLEAN, native : BOOLEAN,
                 braking : BOOLEAN]
    /\ behind \in 0 .. MaxBehind
    /\ uiQueue \in Seq(Item)
    /\ uiAt \in {"idle", "onFrame", "refuse", "judge", "judgeInvalid", "live", "restore", "hold",
                 "return"}
    /\ frame \in [replayed : BOOLEAN, view : Dispositions]
    /\ disposition \in Dispositions /\ rendered \in Dispositions
    /\ validStreak \in 0 .. RestoreFrames
    /\ hold \in 0 .. RestoredHold
    /\ quiet \in Never .. StaleAfter + 1
    /\ ticker \in {"idle", "onStale", "postStale", "onTick", "expire", "return", "post"}
    /\ result \in Dispositions
    /\ released \in BOOLEAN
    /\ faults \in Nat

(* A frame is at hand, is shown, or was when the ticker looked.            *)
NeedsAFrame == disposition \notin Degraded \/ uiAt # "idle" \/ ticker = "expire"
LiveHadAFrame == NeedsAFrame => quiet # Never

NoInventedRelease == ReleaseIsOnTheWay => IsReleased

(* While the bridge lives: what comes after a release is a release.        *)
Frame(i) == uiQueue[i].kind = "frame"
Reached == released \/ frame.view = "RELEASED"
ReleaseStays ==
    faults = 0 =>
        /\ Reached =>
               /\ SeenRelease
               /\ \A i \in DOMAIN uiQueue : Frame(i) => uiQueue[i].view = "RELEASED"
        /\ released /\ uiAt # "idle" => frame.view = "RELEASED"
        /\ \A i \in DOMAIN uiQueue :
               Frame(i) /\ uiQueue[i].view = "RELEASED" =>
                   /\ SeenRelease
                   /\ \A j \in DOMAIN uiQueue : j > i /\ Frame(j) => uiQueue[j].view = "RELEASED"

DisplayInv == Shape /\ LiveHadAFrame /\ NoInventedRelease /\ ReleaseStays

LEMMA ViewOfAFrame ==
    ASSUME NEW data
    PROVE  /\ LiveView(data) \in Dispositions
           /\ LiveView(data) = "RELEASED" <=> data.lifecycle = "released_verified_stop"
  BY DEF LiveView, Dispositions, Live

(* One more item in the queue.                                             *)
LEMMA Queued ==
    ASSUME uiQueue \in Seq(Item), NEW x \in Item, uiQueue' = Append(uiQueue, x)
    PROVE  /\ uiQueue' \in Seq(Item)
           /\ \A i \in DOMAIN uiQueue' :
                  \/ i \in DOMAIN uiQueue /\ uiQueue'[i] = uiQueue[i]
                  \/ uiQueue'[i] = x /\ \A j \in DOMAIN uiQueue' : ~(j > i)
<1>1. /\ uiQueue' \in Seq(Item) /\ Len(uiQueue) \in Nat /\ Len(uiQueue') = Len(uiQueue) + 1
      /\ DOMAIN uiQueue = 1 .. Len(uiQueue) /\ DOMAIN uiQueue' = 1 .. Len(uiQueue')
      /\ \A i \in 1 .. Len(uiQueue) : uiQueue'[i] = uiQueue[i]
      /\ uiQueue'[Len(uiQueue) + 1] = x
  BY AppendProperties, LenProperties
<1> QED
  BY <1>1

(* One item less.                                                          *)
LEMMA Unqueued ==
    ASSUME uiQueue \in Seq(Item), uiQueue # << >>, uiQueue' = Tail(uiQueue)
    PROVE  /\ uiQueue' \in Seq(Item)
           /\ Head(uiQueue) = uiQueue[1] /\ 1 \in DOMAIN uiQueue /\ Head(uiQueue) \in Item
           /\ \A i \in DOMAIN uiQueue' : /\ i + 1 \in DOMAIN uiQueue /\ i + 1 > 1
                                         /\ uiQueue'[i] = uiQueue[i + 1]
                                         /\ \A j \in DOMAIN uiQueue' : j > i => j + 1 > i + 1
<1>1. /\ uiQueue' \in Seq(Item) /\ Len(uiQueue) \in Nat \ {0} /\ Len(uiQueue') = Len(uiQueue) - 1
      /\ DOMAIN uiQueue = 1 .. Len(uiQueue) /\ DOMAIN uiQueue' = 1 .. Len(uiQueue')
      /\ \A i \in 1 .. Len(uiQueue') : uiQueue'[i] = uiQueue[i + 1]
      /\ Head(uiQueue) = uiQueue[1] /\ uiQueue[1] \in Item
  BY HeadTailProperties, LenProperties, ElementOfSeq, EmptySeq
<1> QED
  BY <1>1

LEMMA InvInit ==
    ASSUME PresentationAssumption, DisplayInit
    PROVE  DisplayInv
<1>1. uiQueue = << >> /\ DOMAIN uiQueue = {}
  BY DEF DisplayInit
<1>2. /\ seen.lifecycle = "none" /\ frame.view = "UNAVAILABLE" /\ uiAt = "idle" /\ ticker = "idle"
      /\ disposition = "UNAVAILABLE" /\ rendered = "UNAVAILABLE" /\ result = "UNAVAILABLE"
      /\ released = FALSE
  BY DEF DisplayInit, NothingSeen, NoFrame
<1>3. Shape
  <2>1. lifecycle \in Lifecycles /\ warning \in BOOLEAN
    BY DEF DisplayInit, LifecycleInit, Lifecycles
  <2>2. /\ seen \in [lifecycle : Lifecycles \cup {"none"}, warning : BOOLEAN, native : BOOLEAN,
                     braking : BOOLEAN]
        /\ frame \in [replayed : BOOLEAN, view : Dispositions]
    BY DEF DisplayInit, NothingSeen, NoFrame, Dispositions, Degraded
  <2>3. /\ behind \in 0 .. MaxBehind /\ validStreak \in 0 .. RestoreFrames
        /\ hold \in 0 .. RestoredHold /\ quiet \in Never .. StaleAfter + 1 /\ faults \in Nat
    BY DEF DisplayInit, PresentationAssumption, Never
  <2>4. uiQueue \in Seq(Item)
    BY DEF DisplayInit
  <2>5. disposition \in Dispositions /\ rendered \in Dispositions /\ result \in Dispositions
    BY <1>2 DEF Dispositions, Degraded
  <2> QED
    BY <1>2, <2>1, <2>2, <2>3, <2>4, <2>5 DEF Shape
<1>4. LiveHadAFrame
  BY <1>2 DEF LiveHadAFrame, NeedsAFrame, Degraded
<1>5. NoInventedRelease
  BY <1>1, <1>2 DEF NoInventedRelease, ReleaseIsOnTheWay, SeenRelease
<1>6. ReleaseStays
  BY <1>1, <1>2 DEF ReleaseStays, Reached
<1> QED
  BY <1>3, <1>4, <1>5, <1>6 DEF DisplayInv

-----------------------------------------------------------------------------
(* What a step has to show besides its types, by what it does to the queue *)
(* of the UI thread: nothing, an item more, or an item less.               *)

LEMMA QueueUntouched ==
    ASSUME DisplayInv, Shape', UNCHANGED uiQueue,
           NeedsAFrame' => NeedsAFrame, quiet # Never => quiet' # Never,
           IsReleased => IsReleased', ReleaseIsOnTheWay' => IsReleased',
           faults' = 0 => faults = 0 /\ (SeenRelease => SeenRelease'),
           Reached' => Reached,
           uiAt' # "idle" => uiAt # "idle" /\ frame' = frame /\ released' = released
    PROVE  DisplayInv'
<1>1. LiveHadAFrame' /\ NoInventedRelease'
  BY DEF DisplayInv, LiveHadAFrame, NoInventedRelease
<1>2. ReleaseStays'
  <2>1. SUFFICES ASSUME faults' = 0
                 PROVE  ReleaseStays'
    BY DEF ReleaseStays
  <2>2. faults = 0 /\ ReleaseStays /\ (SeenRelease => SeenRelease') /\ \A i : Frame(i)' = Frame(i)
    BY <2>1 DEF DisplayInv, Frame
  <2>3. released' /\ uiAt' # "idle" => frame'.view = "RELEASED"
    BY <2>2 DEF ReleaseStays
  <2>4. Reached' =>
            /\ SeenRelease'
            /\ \A i \in DOMAIN uiQueue' : Frame(i)' => uiQueue'[i].view = "RELEASED"
    BY <2>2 DEF ReleaseStays
  <2>5. ASSUME NEW i \in DOMAIN uiQueue', Frame(i)', uiQueue'[i].view = "RELEASED"
        PROVE  /\ SeenRelease'
               /\ \A j \in DOMAIN uiQueue' : j > i /\ Frame(j)' => uiQueue'[j].view = "RELEASED"
    BY <2>2, <2>5 DEF ReleaseStays
  <2> QED
    BY <2>3, <2>4, <2>5, Zenon DEF ReleaseStays, Frame
<1> QED
  BY <1>1, <1>2 DEF DisplayInv

LEMMA ItemQueued ==
    ASSUME DisplayInv, NEW x \in Item, uiQueue' = Append(uiQueue, x),
           uiQueue' \in Seq(Item) => Shape',
           UNCHANGED <<lifecycle, seen, uiAt, frame, disposition, rendered, released, quiet>>,
           result' \in {result, "UNAVAILABLE"}, ticker' = "expire" => ticker = "expire",
           faults' = 0 => faults = 0,
           x.kind = "frame" => (x.view = "RELEASED" <=> SeenRelease),
           x.view = "RELEASED" => SeenRelease \/ result = "RELEASED"
    PROVE  DisplayInv'
<1>1. Shape /\ LiveHadAFrame /\ NoInventedRelease /\ ReleaseStays
  BY DEF DisplayInv
<1>2. /\ uiQueue' \in Seq(Item)
      /\ \A i \in DOMAIN uiQueue' :
             \/ i \in DOMAIN uiQueue /\ uiQueue'[i] = uiQueue[i]
             \/ uiQueue'[i] = x /\ \A j \in DOMAIN uiQueue' : ~(j > i)
  BY <1>1, Queued DEF Shape
<1>3. LiveHadAFrame'
  BY <1>1 DEF LiveHadAFrame, NeedsAFrame
<1>4. IsReleased' = IsReleased /\ SeenRelease' = SeenRelease /\ Reached' = Reached
  BY DEF IsReleased, SeenRelease, Reached
<1>5. NoInventedRelease'
  BY <1>1, <1>2, <1>4 DEF NoInventedRelease, ReleaseIsOnTheWay
<1>6. ReleaseStays'
  <2>1. SUFFICES ASSUME faults' = 0
                 PROVE  ReleaseStays'
    BY DEF ReleaseStays
  <2>2. faults = 0
    BY <2>1
  <2>3. Reached' =>
            /\ SeenRelease'
            /\ \A i \in DOMAIN uiQueue' : Frame(i)' => uiQueue'[i].view = "RELEASED"
    BY <1>1, <1>2, <1>4, <2>2 DEF ReleaseStays, Frame
  <2>4. released' /\ uiAt' # "idle" => frame'.view = "RELEASED"
    BY <1>1, <2>2 DEF ReleaseStays
  <2>5. ASSUME NEW i \in DOMAIN uiQueue', Frame(i)', uiQueue'[i].view = "RELEASED"
        PROVE  /\ SeenRelease'
               /\ \A j \in DOMAIN uiQueue' : j > i /\ Frame(j)' => uiQueue'[j].view = "RELEASED"
    BY <1>1, <1>2, <1>4, <2>2, <2>5 DEF ReleaseStays, Frame
  <2> QED
    BY <2>3, <2>4, <2>5, Zenon DEF ReleaseStays, Frame
<1> QED
  BY <1>2, <1>3, <1>5, <1>6 DEF DisplayInv

LEMMA ItemTaken ==
    ASSUME DisplayInv, uiQueue # << >>, uiQueue' = Tail(uiQueue),
           uiQueue' \in Seq(Item) /\ Head(uiQueue) \in Item => Shape',
           UNCHANGED <<lifecycle, seen, ticker, result, released, faults>>,
           quiet # Never => quiet' # Never,
           NeedsAFrame' => NeedsAFrame \/ quiet' # Never,
           disposition' \in {disposition, "INVALID"},
           rendered' \in {rendered, Head(uiQueue).view, "INVALID"},
           \/ Head(uiQueue).kind = "frame" /\ frame'.view = Head(uiQueue).view
           \/ uiAt' = "idle" /\ frame' = frame
    PROVE  DisplayInv'
<1>1. Shape /\ LiveHadAFrame /\ NoInventedRelease /\ ReleaseStays
  BY DEF DisplayInv
<1> DEFINE head == Head(uiQueue)
<1>2. /\ uiQueue' \in Seq(Item) /\ head = uiQueue[1] /\ 1 \in DOMAIN uiQueue /\ head \in Item
      /\ \A i \in DOMAIN uiQueue' : /\ i + 1 \in DOMAIN uiQueue /\ i + 1 > 1
                                    /\ uiQueue'[i] = uiQueue[i + 1]
                                    /\ \A j \in DOMAIN uiQueue' : j > i => j + 1 > i + 1
  BY <1>1, Unqueued DEF Shape
<1>3. Shape'
  BY <1>2
<1>4. /\ rendered' \in {rendered, head.view, "INVALID"}
      /\ \/ head.kind = "frame" /\ frame'.view = head.view
         \/ uiAt' = "idle" /\ frame' = frame
  OBVIOUS
<1> HIDE DEF head
<1>5. LiveHadAFrame'
  BY <1>1 DEF LiveHadAFrame
<1>6. IsReleased' = IsReleased /\ SeenRelease' = SeenRelease
  BY DEF IsReleased, SeenRelease
<1>7. NoInventedRelease'
  <2>1. (head.view = "RELEASED" \/ \E i \in DOMAIN uiQueue' : uiQueue'[i].view = "RELEASED")
            => ReleaseIsOnTheWay
    BY <1>2 DEF ReleaseIsOnTheWay
  <2>2. frame'.view = "RELEASED" => frame.view = "RELEASED" \/ head.view = "RELEASED"
    BY <1>4
  <2>3. ReleaseIsOnTheWay' => ReleaseIsOnTheWay
    BY <1>4, <1>6, <2>1, <2>2 DEF ReleaseIsOnTheWay
  <2> QED
    BY <1>1, <1>6, <2>3 DEF NoInventedRelease
<1>8. ReleaseStays'
  <2>1. SUFFICES ASSUME faults = 0
                 PROVE  ReleaseStays'
    BY DEF ReleaseStays
  <2>2. \A i \in DOMAIN uiQueue' : Frame(i)' = Frame(i + 1)
    BY <1>2 DEF Frame
  <2>3. head.kind = "frame" <=> Frame(1)
    BY <1>2 DEF Frame
  <2>4. ASSUME Reached'
        PROVE  /\ SeenRelease'
               /\ \A i \in DOMAIN uiQueue' : Frame(i)' => uiQueue'[i].view = "RELEASED"
    <3>1. CASE Reached
      BY <1>1, <1>2, <1>6, <2>1, <2>2, <3>1 DEF ReleaseStays
    <3>2. CASE ~Reached
      <4>1. Frame(1) /\ uiQueue[1].view = "RELEASED"
        BY <1>2, <1>4, <2>3, <2>4, <3>2 DEF Reached
      <4>2. /\ SeenRelease
            /\ \A j \in DOMAIN uiQueue : j > 1 /\ Frame(j) => uiQueue[j].view = "RELEASED"
        BY <1>1, <1>2, <2>1, <4>1 DEF ReleaseStays
      <4> QED
        BY <1>2, <1>6, <2>2, <4>2
    <3> QED
      BY <3>1, <3>2
  <2>5. released' /\ uiAt' # "idle" => frame'.view = "RELEASED"
    BY <1>1, <1>2, <1>4, <2>1, <2>3 DEF ReleaseStays, Reached
  <2>6. ASSUME NEW i \in DOMAIN uiQueue', Frame(i)', uiQueue'[i].view = "RELEASED"
        PROVE  /\ SeenRelease'
               /\ \A j \in DOMAIN uiQueue' : j > i /\ Frame(j)' => uiQueue'[j].view = "RELEASED"
    <3>1. i + 1 \in DOMAIN uiQueue /\ Frame(i + 1) /\ uiQueue[i + 1].view = "RELEASED"
      BY <1>2, <2>2, <2>6
    <3>2. /\ SeenRelease
          /\ \A j \in DOMAIN uiQueue : j > i + 1 /\ Frame(j) => uiQueue[j].view = "RELEASED"
      BY <1>1, <2>1, <3>1 DEF ReleaseStays
    <3> QED
      BY <1>2, <1>6, <2>2, <3>2
  <2> QED
    BY <2>4, <2>5, <2>6, Zenon DEF ReleaseStays, Frame
<1> QED
  BY <1>3, <1>5, <1>7, <1>8 DEF DisplayInv

-----------------------------------------------------------------------------
(* The steps.                                                              *)

LEMMA CoordinateKeeps ==
    ASSUME DisplayInv, Coordinate
    PROVE  DisplayInv'
<1>1. Shape /\ NoInventedRelease
  BY DEF DisplayInv
<1>2. UNCHANGED <<bridge, uiThread, tickerThread, reducer, screen, quiet, ghosts>>
  BY DEF Coordinate
<1>3. lifecycle' \in Lifecycles /\ warning' \in BOOLEAN /\ (IsReleased => IsReleased')
  BY <1>1 DEF Coordinate, LifecycleNext, Warn, Brake, Release, Shape, Lifecycles, IsReleased
<1>4. Shape'
  BY <1>1, <1>2, <1>3 DEF Shape, bridge, uiThread, tickerThread, reducer, screen, ghosts
<1>5. /\ NeedsAFrame' = NeedsAFrame /\ ReleaseIsOnTheWay' = ReleaseIsOnTheWay
      /\ SeenRelease' = SeenRelease /\ Reached' = Reached
      /\ UNCHANGED <<uiQueue, quiet, faults, uiAt, frame, released>>
  BY <1>2 DEF NeedsAFrame, ReleaseIsOnTheWay, SeenRelease, Reached, bridge, uiThread, tickerThread,
       reducer, screen, ghosts
<1> QED
  BY <1>1, <1>3, <1>4, <1>5, QueueUntouched DEF NoInventedRelease

LEMMA ObserveKeeps ==
    ASSUME DisplayInv, OnLifecycle \/ OnWarning \/ OnBraking \/ \E native \in BOOLEAN : OnDiagnostics(native)
    PROVE  DisplayInv'
<1>1. Shape /\ NoInventedRelease
  BY DEF DisplayInv
<1>2. UNCHANGED <<lifecycleVars, behind, uiThread, tickerThread, reducer, screen, quiet, ghosts>>
  BY DEF OnLifecycle, OnWarning, OnBraking, OnDiagnostics, Observe
<1>3. seen' \in [lifecycle : Lifecycles \cup {"none"}, warning : BOOLEAN, native : BOOLEAN,
                 braking : BOOLEAN]
  BY <1>1 DEF OnLifecycle, OnWarning, OnBraking, OnDiagnostics, Observe, Shape
<1>4. seen'.lifecycle = seen.lifecycle \/ seen'.lifecycle = lifecycle
  BY <1>1 DEF OnLifecycle, OnWarning, OnBraking, OnDiagnostics, Observe, Shape
<1>5. IsReleased' = IsReleased
  BY <1>2 DEF IsReleased, lifecycleVars
<1>6. Shape'
  BY <1>1, <1>2, <1>3 DEF Shape, lifecycleVars, uiThread, tickerThread, reducer, screen, ghosts
<1>7. /\ NeedsAFrame' = NeedsAFrame /\ Reached' = Reached
      /\ UNCHANGED <<uiQueue, quiet, faults, uiAt, frame, released>>
  BY <1>2 DEF NeedsAFrame, Reached, uiThread, tickerThread, reducer, screen, ghosts
<1>8. SeenRelease => IsReleased
  BY <1>1 DEF NoInventedRelease, ReleaseIsOnTheWay
<1>9. SeenRelease' => IsReleased
  BY <1>4, <1>8 DEF SeenRelease, IsReleased
<1>10. SeenRelease => SeenRelease'
  BY <1>4, <1>8 DEF SeenRelease, IsReleased
<1>11. ReleaseIsOnTheWay' => IsReleased'
  BY <1>1, <1>2, <1>5, <1>7, <1>9 DEF ReleaseIsOnTheWay, NoInventedRelease, tickerThread, reducer,
       screen
<1> QED
  BY <1>5, <1>6, <1>7, <1>10, <1>11, QueueUntouched

LEMMA RestartBridgeKeeps ==
    ASSUME PresentationAssumption, DisplayInv, RestartBridge
    PROVE  DisplayInv'
<1>1. Shape /\ NoInventedRelease
  BY DEF DisplayInv
<1>2. /\ faults' = faults + 1 /\ seen' = NothingSeen
      /\ UNCHANGED <<lifecycleVars, uiThread, tickerThread, reducer, screen, quiet, released>>
  BY DEF RestartBridge
<1>3. /\ seen' \in [lifecycle : Lifecycles \cup {"none"}, warning : BOOLEAN, native : BOOLEAN,
                    braking : BOOLEAN]
      /\ seen'.lifecycle = "none"
  BY <1>2 DEF NothingSeen
<1>4. behind' \in 0 .. MaxBehind
  BY DEF RestartBridge, PresentationAssumption
<1>5. Shape'
  BY <1>1, <1>2, <1>3, <1>4 DEF Shape, lifecycleVars, uiThread, tickerThread, reducer, screen
<1>6. /\ NeedsAFrame' = NeedsAFrame /\ Reached' = Reached /\ IsReleased' = IsReleased
      /\ UNCHANGED <<uiQueue, quiet, uiAt, frame, released>>
  BY <1>2 DEF NeedsAFrame, Reached, IsReleased, lifecycleVars, uiThread, tickerThread, reducer, screen
<1>7. ReleaseIsOnTheWay' => IsReleased'
  BY <1>1, <1>2, <1>3, <1>6 DEF ReleaseIsOnTheWay, SeenRelease, NoInventedRelease, tickerThread,
       reducer, screen
<1>8. faults' # 0
  BY <1>1, <1>2 DEF Shape
<1> QED
  BY <1>5, <1>6, <1>7, <1>8, QueueUntouched

LEMMA PublishFrameKeeps ==
    ASSUME PresentationAssumption, DisplayInv, NEW target, NEW delivered \in BOOLEAN,
           PublishFrame(target, delivered)
    PROVE  DisplayInv'
<1>1. Shape /\ NoInventedRelease
  BY DEF DisplayInv
<1>2. /\ UNCHANGED <<lifecycleVars, seen, uiThread, tickerThread, reducer, rendered, quiet, ghosts>>
      /\ behind' = IF behind = 0 THEN 0 ELSE behind - 1
  BY DEF PublishFrame
<1>3. behind' \in 0 .. MaxBehind
  BY <1>1, <1>2 DEF Shape, PresentationAssumption
<1>4. UNCHANGED <<lifecycle, seen, uiAt, frame, disposition, rendered, released, quiet, faults,
                  result, ticker>>
  BY <1>2 DEF lifecycleVars, uiThread, tickerThread, reducer, ghosts
<1>5. uiQueue' \in Seq(Item) => Shape'
  BY <1>1, <1>2, <1>3 DEF Shape, lifecycleVars, uiThread, tickerThread, reducer, ghosts
<1>6. CASE ~delivered
  <2>1. uiQueue' = uiQueue
    BY <1>6 DEF PublishFrame
  <2>2. Shape'
    BY <1>1, <1>5, <2>1 DEF Shape
  <2>3. /\ NeedsAFrame' = NeedsAFrame /\ Reached' = Reached /\ IsReleased' = IsReleased
        /\ SeenRelease' = SeenRelease /\ ReleaseIsOnTheWay' = ReleaseIsOnTheWay
    BY <1>4, <2>1 DEF NeedsAFrame, Reached, IsReleased, SeenRelease, ReleaseIsOnTheWay
  <2> QED
    BY <1>1, <1>4, <2>1, <2>2, <2>3, QueueUntouched DEF NoInventedRelease
<1>7. CASE delivered
  <2> DEFINE x == [kind |-> "frame", replayed |-> behind > 0, view |-> LiveView(seen)]
  <2>1. uiQueue' = Append(uiQueue, x)
    BY <1>7 DEF PublishFrame
  <2>2. x \in Item /\ x.view = LiveView(seen)
    BY ViewOfAFrame DEF Item
  <2> HIDE DEF x
  <2>3. x.view = "RELEASED" <=> SeenRelease
    BY <2>2, ViewOfAFrame DEF SeenRelease
  <2> QED
    BY <1>4, <1>5, <2>1, <2>2, <2>3, ItemQueued
<1> QED
  BY <1>6, <1>7

(* What is posted: an invalid read, or what the ticker has come to.        *)
LEMMA PostKeeps ==
    ASSUME PresentationAssumption, DisplayInv, FailRead \/ PostStale \/ PostTick
    PROVE  DisplayInv' /\ disposition' = disposition
<1>1. Shape
  BY DEF DisplayInv
<1>2. PICK kind \in {"show", "invalid"}, shown \in {"INVALID", "STALE", result} :
          uiQueue' = Append(uiQueue, [kind |-> kind, replayed |-> FALSE, view |-> shown])
  BY DEF FailRead, PostStale, PostTick, Post
<1> DEFINE x == [kind |-> kind, replayed |-> FALSE, view |-> shown]
<1>3. x \in Item /\ x.kind # "frame" /\ (x.view = "RELEASED" => result = "RELEASED")
  BY <1>1 DEF Item, Shape, Dispositions, Degraded
<1>4. uiQueue' = Append(uiQueue, x)
  BY <1>2
<1> HIDE DEF x
<1>5. /\ UNCHANGED <<lifecycle, warning, seen, behind, uiAt, frame, disposition, validStreak, hold,
                     rendered, released, quiet>>
      /\ ticker' \in {ticker, "idle", "onTick"}
      /\ result' \in {result, "UNAVAILABLE"}
      /\ faults' \in {faults, faults + 1}
  BY DEF FailRead, PostStale, PostTick, lifecycleVars, bridge, uiThread, tickerThread, reducer, ghosts
<1>6. uiQueue' \in Seq(Item) => Shape'
  BY <1>1, <1>5 DEF Shape, Dispositions, Degraded
<1>7. faults' = 0 => faults = 0
  BY <1>1, <1>5 DEF Shape
<1> QED
  BY <1>3, <1>4, <1>5, <1>6, <1>7, ItemQueued

LEMMA TakeKeeps ==
    ASSUME PresentationAssumption, DisplayInv, TakeFrame \/ RenderPosted \/ OnInvalid
    PROVE  DisplayInv' /\ disposition' \in {disposition, "INVALID"}
<1>1. Shape
  BY DEF DisplayInv
<1>2. /\ uiQueue # << >> /\ uiQueue' = Tail(uiQueue) /\ uiAt = "idle"
      /\ UNCHANGED <<lifecycle, warning, seen, behind, hold, ticker, result, released, faults>>
      /\ disposition' \in {disposition, "INVALID"} /\ validStreak' \in {validStreak, 0}
      /\ rendered' \in {rendered, Head(uiQueue).view, "INVALID"}
      /\ quiet' \in {quiet, 0}
  BY DEF TakeFrame, RenderPosted, OnInvalid, lifecycleVars, bridge, uiThread, tickerThread, reducer,
       ghosts
<1>3. \/ /\ Head(uiQueue).kind = "frame" /\ uiAt' = "onFrame" /\ quiet' = 0
         /\ frame' = [replayed |-> Head(uiQueue).replayed, view |-> Head(uiQueue).view]
      \/ uiAt' = "idle" /\ frame' = frame
  BY DEF TakeFrame, RenderPosted, OnInvalid, uiThread
<1>4. "INVALID" \in Degraded /\ "INVALID" \in Dispositions
  BY DEF Degraded, Dispositions
<1>5. /\ 0 \in 0 .. RestoreFrames /\ 0 \in Never .. StaleAfter + 1 /\ 0 # Never
  BY DEF PresentationAssumption, Never
<1>6. ASSUME uiQueue' \in Seq(Item), Head(uiQueue) \in Item
      PROVE  Shape'
  <2>1. Head(uiQueue).view \in Dispositions /\ Head(uiQueue).replayed \in BOOLEAN
    BY <1>6 DEF Item
  <2>2. frame' \in [replayed : BOOLEAN, view : Dispositions]
    BY <1>1, <1>3, <2>1 DEF Shape
  <2>3. uiAt' \in {"idle", "onFrame"}
    BY <1>3
  <2>4. rendered' \in Dispositions /\ disposition' \in Dispositions
    BY <1>1, <1>2, <1>4, <2>1 DEF Shape
  <2>5. validStreak' \in 0 .. RestoreFrames /\ quiet' \in Never .. StaleAfter + 1
    BY <1>1, <1>2, <1>5 DEF Shape
  <2> QED
    BY <1>1, <1>2, <1>6, <2>2, <2>3, <2>4, <2>5 DEF Shape
<1>7. NeedsAFrame' => NeedsAFrame \/ quiet' # Never
  BY <1>2, <1>3, <1>4, <1>5 DEF NeedsAFrame
<1>8. \/ Head(uiQueue).kind = "frame" /\ frame'.view = Head(uiQueue).view
      \/ uiAt' = "idle" /\ frame' = frame
  BY <1>3
<1>9. quiet # Never => quiet' # Never
  BY <1>2, <1>5
<1> QED
  BY <1>2, <1>6, <1>7, <1>8, <1>9, ItemTaken

(* What a step of onFrame can write.                                       *)
FrameStep ==
    /\ uiAt # "idle"
    /\ UNCHANGED <<lifecycle, warning, seen, behind, uiQueue, ticker, result, faults>>
    /\ disposition' \in {disposition, "INVALID", "RESTORED", frame.view}
    /\ rendered' \in {rendered, "INVALID", frame.view, disposition}
    /\ quiet' \in {quiet, 0}
    /\ validStreak' \in {validStreak, 0, Longer}
    /\ hold' \in {hold} \cup 0 .. RestoredHold
    /\ \/ uiAt' = "idle" /\ frame' = NoFrame /\ released' \in {released, released \/ frame.view = "RELEASED"}
       \/ /\ uiAt' \in {"refuse", "judge", "judgeInvalid", "live", "restore", "hold", "return"}
          /\ frame' = frame /\ released' = released

LEMMA OnFrameCases == ReduceFrame => FrameStep
<1> USE DEF FrameStep, lifecycleVars, bridge, uiThread, tickerThread, reducer, screen, ghosts
<1>1. BeginOnFrame => FrameStep
  BY DEF BeginOnFrame
<1>2. RefuseReplay => FrameStep
  BY DEF RefuseReplay, Render
<1>3. Judge => FrameStep
  BY DEF Judge, HoldBack
<1>4. JudgeInvalid => FrameStep
  BY DEF JudgeInvalid, HoldBack
<1>5. ShowLive => FrameStep
  BY DEF ShowLive, Render
<1>6. Restore => FrameStep
  BY DEF Restore
<1>7. BeginHold => FrameStep
  BY DEF BeginHold
<1>8. ReturnFromFrame => FrameStep
  BY DEF ReturnFromFrame, Render
<1> QED
  BY <1>1, <1>2, <1>3, <1>4, <1>5, <1>6, <1>7, <1>8 DEF ReduceFrame

LEMMA OnFrameKeeps ==
    ASSUME PresentationAssumption, DisplayInv, ReduceFrame
    PROVE  /\ DisplayInv'
           /\ released /\ faults = 0 => disposition' \in {disposition, "INVALID", "RESTORED", "RELEASED"}
<1>1. Shape /\ LiveHadAFrame /\ NoInventedRelease /\ ReleaseStays
  BY DEF DisplayInv
<1>2. /\ uiAt # "idle"
      /\ UNCHANGED <<lifecycle, warning, seen, behind, uiQueue, ticker, result, faults>>
      /\ disposition' \in {disposition, "INVALID", "RESTORED", frame.view}
      /\ rendered' \in {rendered, "INVALID", frame.view, disposition}
      /\ quiet' \in {quiet, 0}
      /\ \/ uiAt' = "idle" /\ frame' = NoFrame /\ (released' => released \/ frame.view = "RELEASED")
         \/ uiAt' # "idle" /\ frame' = frame /\ released' = released
  BY OnFrameCases DEF FrameStep
<1>3. /\ uiAt' \in {"idle", "refuse", "judge", "judgeInvalid", "live", "restore", "hold", "return"}
      /\ validStreak' \in {validStreak, 0, Longer} /\ released' \in BOOLEAN
  BY <1>1, OnFrameCases DEF FrameStep, Shape
<1>4. hold' \in 0 .. RestoredHold
  BY <1>1, OnFrameCases DEF FrameStep, Shape
<1>5. validStreak' \in 0 .. RestoreFrames
  BY <1>1, <1>3 DEF Shape, Longer, PresentationAssumption
<1>6. quiet # Never /\ quiet' # Never /\ quiet' \in Never .. StaleAfter + 1
  BY <1>1, <1>2 DEF LiveHadAFrame, NeedsAFrame, Shape, Never, PresentationAssumption
<1>7. /\ NoFrame \in [replayed : BOOLEAN, view : Dispositions] /\ NoFrame.view # "RELEASED"
      /\ "INVALID" \in Dispositions /\ "RESTORED" \in Dispositions
  BY DEF NoFrame, Dispositions, Degraded
<1>8. frame.view \in Dispositions
  BY <1>1 DEF Shape
<1>9. frame' \in [replayed : BOOLEAN, view : Dispositions]
  BY <1>1, <1>2, <1>7 DEF Shape
<1>10. Shape'
  BY <1>1, <1>2, <1>3, <1>4, <1>5, <1>6, <1>7, <1>8, <1>9 DEF Shape
<1>11. /\ IsReleased' = IsReleased /\ SeenRelease' = SeenRelease /\ NeedsAFrame
       /\ (Reached' => Reached)
  BY <1>2, <1>7 DEF IsReleased, SeenRelease, Reached, NeedsAFrame
<1>12. ReleaseIsOnTheWay' => ReleaseIsOnTheWay
  BY <1>2, <1>7, <1>11 DEF ReleaseIsOnTheWay
<1>13. DisplayInv'
  BY <1>1, <1>2, <1>6, <1>10, <1>11, <1>12, QueueUntouched DEF NoInventedRelease
<1>14. released /\ faults = 0 => frame.view = "RELEASED"
  BY <1>1, <1>2 DEF ReleaseStays
<1> QED
  BY <1>2, <1>13, <1>14

(* The ticker's reads and writes, and the time.                            *)
LEMMA TickerKeeps ==
    ASSUME PresentationAssumption, DisplayInv,
           TickBegin \/ OnStale \/ OnTick \/ Expire \/ ReturnFromTick \/ Pass
    PROVE  DisplayInv' /\ (disposition' \in {disposition, "STALE"} \/ Expire)
<1>1. Shape /\ LiveHadAFrame /\ NoInventedRelease
  BY DEF DisplayInv
<1>2. /\ UNCHANGED <<lifecycle, warning, seen, behind, uiQueue, uiAt, frame, validStreak, rendered,
                     released, faults>>
      /\ \/ disposition' = disposition /\ (ticker' = "expire" => NeedsAFrame)
         \/ disposition' = "STALE" /\ ticker' # "expire"
         \/ disposition' = "MONITORING" /\ ticker' # "expire" /\ Expire
      /\ result' \in {result, disposition, "MONITORING"}
      /\ ticker' \in {"idle", "onStale", "postStale", "onTick", "expire", "return", "post"}
      /\ (Expire => NeedsAFrame)
  BY <1>1 DEF TickBegin, OnStale, OnTick, Expire, ReturnFromTick, Pass, lifecycleVars, bridge,
       uiThread, tickerThread, reducer, screen, ghosts, NeedsAFrame, Degraded, Shape
<1>3. /\ hold' \in 0 .. RestoredHold
      /\ quiet' \in Never .. StaleAfter + 1 /\ (quiet # Never => quiet' # Never)
  BY <1>1 DEF TickBegin, OnStale, OnTick, Expire, ReturnFromTick, Pass, reducer, Shape,
       PresentationAssumption, Never
<1>4. "STALE" \in Degraded /\ {"STALE", "MONITORING"} \subseteq Dispositions
  BY DEF Degraded, Dispositions, Live
<1>5. Shape'
  BY <1>1, <1>2, <1>3, <1>4 DEF Shape
<1>6. NeedsAFrame' => NeedsAFrame
  BY <1>2, <1>4 DEF NeedsAFrame
<1>7. /\ IsReleased' = IsReleased /\ SeenRelease' = SeenRelease /\ Reached' = Reached
      /\ (ReleaseIsOnTheWay' => ReleaseIsOnTheWay)
  BY <1>2 DEF IsReleased, SeenRelease, Reached, ReleaseIsOnTheWay
<1> QED
  BY <1>1, <1>2, <1>3, <1>5, <1>6, <1>7, QueueUntouched DEF NoInventedRelease

LEMMA StutterKeeps ==
    ASSUME DisplayInv, UNCHANGED displayVars
    PROVE  DisplayInv'
  BY DEF displayVars, lifecycleVars, bridge, uiThread, tickerThread, reducer, screen, ghosts,
       DisplayInv, Shape, LiveHadAFrame, NeedsAFrame, NoInventedRelease, ReleaseIsOnTheWay,
       IsReleased, SeenRelease, ReleaseStays, Reached, Frame

LEMMA StepKeeps ==
    ASSUME PresentationAssumption, DisplayInv, [DisplayNext]_displayVars
    PROVE  /\ DisplayInv'
           /\ released /\ faults = 0 =>
                  \/ disposition' \in Degraded \cup {"RESTORED", "RELEASED", disposition}
                  \/ Expire
<1>1. "INVALID" \in Degraded /\ "STALE" \in Degraded
  BY DEF Degraded
<1>2. CASE Coordinate
  <2>1. disposition' = disposition
    BY <1>2 DEF Coordinate, reducer
  <2> QED
    BY <1>2, <2>1, CoordinateKeeps
<1>3. CASE OnLifecycle \/ OnWarning \/ OnBraking \/ \E native \in BOOLEAN : OnDiagnostics(native)
  <2>1. disposition' = disposition
    BY <1>3 DEF OnLifecycle, OnWarning, OnBraking, OnDiagnostics, Observe, reducer
  <2> QED
    BY <1>3, <2>1, ObserveKeeps
<1>4. ASSUME NEW target \in {"none", "left", "right"}, NEW delivered \in BOOLEAN,
             PublishFrame(target, delivered)
      PROVE  DisplayInv' /\ disposition' = disposition
  <2>1. disposition' = disposition
    BY <1>4 DEF PublishFrame, reducer
  <2> QED
    BY <1>4, <2>1, PublishFrameKeeps
<1>5. CASE RestartBridge
  <2>1. disposition' = disposition
    BY <1>5 DEF RestartBridge, reducer
  <2> QED
    BY <1>5, <2>1, RestartBridgeKeeps
<1>6. CASE TakeFrame \/ RenderPosted \/ OnInvalid
  BY <1>1, <1>6, TakeKeeps
<1>7. CASE ReduceFrame
  BY <1>1, <1>7, OnFrameKeeps
<1>8. CASE FailRead \/ PostStale \/ PostTick
  BY <1>8, PostKeeps
<1>9. CASE TickBegin \/ OnStale \/ OnTick \/ Expire \/ ReturnFromTick \/ Pass
  BY <1>1, <1>9, TickerKeeps
<1>10. CASE UNCHANGED displayVars
  <2>1. disposition' = disposition
    BY <1>10 DEF displayVars, reducer
  <2> QED
    BY <1>10, <2>1, StutterKeeps
<1> QED
  BY <1>2, <1>3, <1>4, <1>5, <1>6, <1>7, <1>8, <1>9, <1>10 DEF DisplayNext, UiThread, Ticker

LEMMA InvHolds == DisplaySpec => []DisplayInv
<1>1. DisplayInit => DisplayInv
  BY PresentationAssumption, InvInit
<1>2. DisplayInv /\ [DisplayNext]_displayVars => DisplayInv'
  BY PresentationAssumption, StepKeeps
<1> QED
  BY <1>1, <1>2, PTL DEF DisplaySpec

(* The variables have their types, and a live display has had a frame.     *)
THEOREM PresentationTypeCorrect == DisplaySpec => []DisplayTypeOK
<1>1. DisplayInv => DisplayTypeOK
  <2>1. SUFFICES ASSUME DisplayInv
                 PROVE  DisplayTypeOK
    OBVIOUS
  <2>2. disposition \in Live => quiet # Never
    BY <2>1 DEF DisplayInv, LiveHadAFrame, NeedsAFrame, Live, Degraded
  <2>3. \A i \in DOMAIN uiQueue : uiQueue[i] \in Item
    BY <2>1, ElementOfSeq, LenProperties DEF DisplayInv, Shape
  <2> QED
    BY <2>1, <2>2, <2>3 DEF DisplayInv, Shape, DisplayTypeOK
<1> QED
  BY <1>1, InvHolds, PTL

(* The display shows a release only when the coordinator has verified the  *)
(* stop, however frames, the ticker's reads and writes, silence, failed    *)
(* reads and restarts of the bridge come in between.                       *)
THEOREM ReleasedIsRealCorrect == DisplaySpec => []ReleasedIsReal
<1>1. DisplayInv => ReleasedIsReal
  BY DEF DisplayInv, NoInventedRelease, ReleaseIsOnTheWay, ReleasedIsReal, IsReleased
<1> QED
  BY <1>1, InvHolds, PTL

(* After a release the display returns to neither intervention nor         *)
(* warning, as long as the bridge lives, and monitoring is what the ticker *)
(* writes late at the most, whatever is in the queue and at hand.          *)
THEOREM ReleaseIsNotForgottenCorrect == DisplaySpec => ReleaseIsNotForgotten
<1>1. DisplayInv /\ [DisplayNext]_displayVars =>
        [(released /\ faults = 0)
          => \/ disposition' \in Degraded \cup {"RESTORED", "RELEASED", disposition}
             \/ Expire]_displayVars
  BY PresentationAssumption, StepKeeps
<1> QED
  BY <1>1, InvHolds, PTL DEF DisplaySpec, ReleaseIsNotForgotten

-----------------------------------------------------------------------------
(* The speed path of the adapter.                                          *)

(* In a subscription, up to the handler of the leave that ends it.         *)
InPhase == state = "subscribed" \/ calling

PhaseInv ==
    /\ proxy = "none" => state = "not subscribed" /\ ~calling
    /\ ~InPhase => discarded < epoch
    /\ main \in {"read", "check again", "load again"} /\ before = epoch => InPhase

UpTo(n) == \A i \in DOMAIN published : published[i].sample <= n

BufferInv ==
    /\ discarded = epoch /\ InPhase => taken >= entered
    /\ UpTo(entered) \/ UpTo(taken)
    /\ main \in {"check again", "load again"} /\ before = epoch =>
           /\ since = entered /\ hi <= taken
           /\ ~Full => taken >= entered
           /\ discarded = before => lo >= entered /\ UpTo(lo)
    /\ main = "publish" => lo >= since /\ UpTo(lo) /\ (hi <= entered \/ hi <= taken)

(* A read returns the samples after lo', as many as there are or may be.   *)
LEMMA ReadReturns ==
    ASSUME Counted, ReadNewSamples
    PROVE  /\ lo' \in Nat /\ hi' \in Nat
           /\ taken <= lo' /\ lo' <= hi' /\ hi' <= sent
           /\ Full' \/ hi' = sent
<1>1. sent \in Nat /\ taken \in Nat /\ taken <= sent
  BY DEF Counted
<1>2. MaxSamples \in Nat /\ MaxSamples > 0
  BY SpeedAssumption
<1>3. CASE hi' = sent /\ lo' = IF sent - taken > MaxSamples THEN sent - MaxSamples ELSE taken
  BY <1>1, <1>2, <1>3 DEF Full
<1>4. CASE lo' = taken /\ hi' = IF sent - taken > MaxSamples THEN taken + MaxSamples ELSE sent
  BY <1>1, <1>2, <1>4 DEF Full
<1> QED
  BY <1>3, <1>4 DEF ReadNewSamples

LEMMA EnterTakes ==
    ASSUME Counted, EnterSubscribed
    PROVE  state' = "subscribed" /\ entered' = sent /\ taken' \in Nat /\ taken' <= sent
BY DEF Counted, EnterSubscribed

(* What Subscribe does to the numbers.                                     *)
LEMMA SubscribeTakes ==
    ASSUME Counted, Subscribe
    PROVE  /\ taken' \in Nat /\ entered' \in Nat /\ taken' <= sent /\ entered' <= sent
           /\ \/ entered' = entered /\ taken' = taken
              \/ entered' = sent
<1>1. CASE UNCHANGED <<taken, entered>>
  BY <1>1 DEF Counted
<1>2. CASE EnterSubscribed
  BY <1>2, EnterTakes DEF Counted
<1> QED
  BY <1>1, <1>2 DEF Subscribe

(* The steps of the main thread that leave the numbers alone.              *)
Still ==
    \/ CheckState \/ ReadFails \/ CheckAgain \/ DropUnstable \/ Accept \/ EndRead \/ BeginRound
    \/ SubscribeRefused \/ Stop \/ Unsubscribe \/ DestroyProxy \/ StillSubscribed \/ EndProcess
    \/ StopSignal

numbers == <<sent, taken, entered, epoch, before, lo, hi, since, discarded, published>>

LEMMA StillStep ==
    ASSUME Still
    PROVE  UNCHANGED numbers /\ UNCHANGED <<state, calling>>
<1> USE DEF binding, round, numbers
<1>1. CASE CheckState \/ ReadFails \/ CheckAgain \/ DropUnstable
  BY <1>1 DEF CheckState, ReadFails, CheckAgain, DropUnstable
<1>2. CASE Accept \/ EndRead \/ BeginRound \/ SubscribeRefused
  BY <1>2 DEF Accept, EndRead, BeginRound, SubscribeRefused
<1>3. CASE Stop \/ Unsubscribe \/ DestroyProxy
  BY <1>3 DEF Stop, Unsubscribe, DestroyProxy
<1>4. CASE StillSubscribed \/ EndProcess \/ StopSignal
  BY <1>4 DEF StillSubscribed, EndProcess, StopSignal
<1> QED
  BY <1>1, <1>2, <1>3, <1>4 DEF Still

LEMMA NextCases ==
    ASSUME [SpeedNext]_speedVars
    PROVE  \/ Send \/ Enter \/ Leave \/ Withdraw \/ OnSubscriptionStateChanged
           \/ Subscribe \/ LoadEpoch \/ ReadNewSamples \/ Discard \/ PublishOrWithhold
           \/ Still \/ UNCHANGED speedVars
BY DEF SpeedNext, Outside, Binding, Main, Still

LEMMA CountedStep ==
    ASSUME Counted, [SpeedNext]_speedVars
    PROVE  Counted'
<1>1. CASE Send
  BY <1>1 DEF Send, round, Counted
<1>2. CASE Enter
  BY <1>2, EnterTakes DEF Enter, round, Counted
<1>3. CASE Leave \/ Withdraw
  BY <1>3 DEF Leave, Withdraw, round, Counted
<1>4. CASE OnSubscriptionStateChanged
  BY <1>4 DEF OnSubscriptionStateChanged, LeaveEpoch, round, Counted
<1>5. CASE Subscribe
  <2>1. UNCHANGED <<sent, epoch, before, lo, hi, since, discarded>>
    BY <1>5 DEF Subscribe
  <2> QED
    BY <1>5, <2>1, SubscribeTakes DEF Counted
<1>6. CASE LoadEpoch
  <2>1. UNCHANGED <<sent, taken, entered, epoch, lo, hi, since, discarded>> /\ before' = epoch
    BY <1>6 DEF LoadEpoch, binding
  <2> QED
    BY <2>1 DEF Counted
<1>7. CASE ReadNewSamples
  <2>1. UNCHANGED <<sent, entered, epoch, before, discarded>> /\ taken' = hi' /\ since' = entered
    BY <1>7 DEF ReadNewSamples
  <2> QED
    BY <1>7, <2>1, ReadReturns DEF Counted
<1>8. CASE Discard
  BY <1>8 DEF Discard, binding, Counted
<1>9. CASE PublishOrWithhold
  BY <1>9 DEF PublishOrWithhold, binding, Counted
<1>10. CASE Still \/ UNCHANGED speedVars
  BY <1>10, StillStep DEF numbers, speedVars, Counted
<1> QED
  BY <1>1, <1>2, <1>3, <1>4, <1>5, <1>6, <1>7, <1>8, <1>9, <1>10, NextCases

LEMMA ShapedStep ==
    ASSUME Counted, Shaped, [SpeedNext]_speedVars
    PROVE  Shaped'
<1> USE DEF Shaped, Places, At
<1>1. CASE Send
  BY <1>1 DEF Send, round
<1>2. CASE Enter
  BY <1>2 DEF Enter, EnterSubscribed, round
<1>3. CASE Leave \/ Withdraw
  BY <1>3 DEF Leave, Withdraw, round
<1>4. CASE OnSubscriptionStateChanged
  BY <1>4 DEF OnSubscriptionStateChanged, round
<1>5. CASE Subscribe
  BY <1>5 DEF Subscribe, EnterSubscribed
<1>6. CASE LoadEpoch \/ BeginRound
  BY <1>6 DEF LoadEpoch, BeginRound, binding
<1>7. CASE ReadNewSamples
  BY <1>7 DEF ReadNewSamples
<1>8. CASE Discard
  BY <1>8 DEF Discard, NextRead, binding
<1>9. CASE PublishOrWithhold
  BY <1>9 DEF PublishOrWithhold, binding
<1>10. CASE EndRead
  BY <1>10 DEF EndRead, NextRead, binding
<1>11. CASE CheckState \/ ReadFails \/ CheckAgain \/ DropUnstable
  BY <1>11 DEF CheckState, ReadFails, CheckAgain, DropUnstable, binding, round
<1>12. CASE Accept
  <2>1. Full \in BOOLEAN
    <3>1. hi \in Nat /\ lo \in Nat /\ MaxSamples \in Nat
      BY SpeedAssumption DEF Counted
    <3> HIDE DEF Shaped, Places, At
    <3> QED
      BY <3>1 DEF Full
  <2>2. more' \in BOOLEAN
    BY <1>12, <2>1, Zenon DEF Accept
  <2> QED
    BY <1>12, <2>2 DEF Accept, binding
<1>13. CASE Stop \/ Unsubscribe \/ SubscribeRefused
  BY <1>13 DEF Stop, Unsubscribe, SubscribeRefused, binding, round
<1>14. CASE DestroyProxy \/ StillSubscribed \/ EndProcess \/ StopSignal
  BY <1>14 DEF DestroyProxy, StillSubscribed, EndProcess, StopSignal, binding, round
<1>15. CASE UNCHANGED speedVars
  BY <1>15 DEF speedVars
<1> QED
  BY <1>1, <1>2, <1>3, <1>4, <1>5, <1>6, <1>7, <1>8, <1>9, <1>10, <1>11, <1>12, <1>13, <1>14,
     <1>15, NextCases DEF Still

LEMMA PublishedStep ==
    ASSUME Counted, published \in Seq(Published), [SpeedNext]_speedVars
    PROVE  published' \in Seq(Published)
<1>1. CASE PublishOrWithhold
  <2>1. [sample |-> lo + 1, since |-> since] \in Published
    BY DEF Counted, Published
  <2> QED
    BY <1>1, <2>1 DEF PublishOrWithhold
<1>2. CASE Still \/ UNCHANGED speedVars
  BY <1>2, StillStep DEF numbers, speedVars
<1>3. CASE Send \/ Enter \/ Leave \/ Withdraw \/ OnSubscriptionStateChanged
  BY <1>3 DEF Send, Enter, Leave, Withdraw, OnSubscriptionStateChanged, round
<1>4. CASE Subscribe \/ LoadEpoch \/ ReadNewSamples \/ Discard
  BY <1>4 DEF Subscribe, LoadEpoch, ReadNewSamples, Discard
<1> QED
  BY <1>1, <1>2, <1>3, <1>4, NextCases

LEMMA SpeedTypeInit == SpeedInit => SpeedTypeOK
<1>1. SpeedInit => Counted
  <2>1. SUFFICES ASSUME SpeedInit PROVE Counted
    OBVIOUS
  <2>2. sent = 0 /\ taken = 0 /\ entered = 0 /\ epoch = 1 /\ before = 0 /\ lo = 0 /\ hi = 0
        /\ since = 0 /\ discarded = 0
    BY <2>1 DEF SpeedInit
  <2> QED
    BY <2>2 DEF Counted
<1>2. SpeedInit => Shaped
  BY DEF SpeedInit, Shaped, Places
<1>3. SpeedInit => published \in Seq(Published)
  <2>1. SUFFICES ASSUME SpeedInit PROVE published \in Seq(Published)
    OBVIOUS
  <2>2. published = <<>>
    BY <2>1 DEF SpeedInit
  <2> QED
    BY <2>2
<1> QED
  BY <1>1, <1>2, <1>3 DEF SpeedTypeOK

(* Every variable keeps its type.                                          *)
THEOREM SpeedTypeCorrect == SpeedSpec => []SpeedTypeOK
<1>1. SpeedInit => SpeedTypeOK
  BY SpeedTypeInit
<1>2. SpeedTypeOK /\ [SpeedNext]_speedVars => SpeedTypeOK'
  BY CountedStep, ShapedStep, PublishedStep DEF SpeedTypeOK
<1> QED
  BY <1>1, <1>2, PTL DEF SpeedSpec

(* A read whose epoch stands was made in one subscription.                 *)
LEMMA PhaseStep ==
    ASSUME Counted, Shaped, PhaseInv, [SpeedNext]_speedVars
    PROVE  PhaseInv'
<1> USE DEF PhaseInv, InPhase, At
<1>1. CASE Send
  BY <1>1 DEF Send, round
<1>2. CASE Enter
  BY <1>2 DEF Enter, EnterSubscribed, round
<1>3. CASE Leave \/ Withdraw
  BY <1>3 DEF Leave, Withdraw, round
<1>4. CASE OnSubscriptionStateChanged
  <2>1. UNCHANGED <<state, main, proxy, before, discarded>> /\ epoch' = LeaveEpoch /\ ~calling'
        /\ calling
    BY <1>4 DEF OnSubscriptionStateChanged, round
  <2>2. CASE state = "subscribed"
    BY <2>1, <2>2
  <2>3. CASE state # "subscribed"
    <3>1. epoch' = epoch + 1 /\ before' = before /\ discarded' = discarded
      BY <2>1, <2>3 DEF LeaveEpoch
    <3>2. epoch \in Nat /\ before \in Nat /\ discarded \in Nat /\ before <= epoch
          /\ discarded <= epoch
      BY DEF Counted
    <3> HIDE DEF PhaseInv, InPhase, At
    <3>3. discarded' < epoch'
      BY <3>1, <3>2
    <3>4. before' # epoch'
      BY <3>1, <3>2
    <3> QED
      BY <2>1, <3>3, <3>4 DEF PhaseInv, InPhase
  <2> QED
    BY <2>2, <2>3
<1>5. CASE Subscribe
  BY <1>5 DEF Subscribe
<1>6. CASE LoadEpoch \/ BeginRound
  <2>1. UNCHANGED <<state, calling, proxy, epoch, discarded>>
        /\ main' \in {"load epoch", "check state"}
    BY <1>6 DEF LoadEpoch, BeginRound, binding
  <2> QED
    BY <2>1
<1>7. CASE ReadNewSamples
  BY <1>7 DEF ReadNewSamples
<1>8. CASE Discard
  <2>1. InPhase /\ InPhase'
    BY <1>8 DEF Discard, Stable, binding
  <2> QED
    BY <1>8, <2>1 DEF Discard, NextRead, binding
<1>9. CASE PublishOrWithhold
  BY <1>9 DEF PublishOrWithhold, binding
<1>10. CASE EndRead
  BY <1>10 DEF EndRead, NextRead, binding
<1>11. CASE CheckState
  <2>1. UNCHANGED <<state, calling, proxy, epoch, discarded, before>>
        /\ (main' = IF state = "subscribed" THEN "read" ELSE "loop")
    BY <1>11 DEF CheckState, binding, round
  <2> QED
    BY <2>1
<1>12. CASE CheckAgain
  <2>1. UNCHANGED <<state, calling, proxy, epoch, discarded, before>>
        /\ (main' = IF state = "subscribed" THEN "load again" ELSE "loop")
    BY <1>12 DEF CheckAgain, binding, round
  <2> QED
    BY <2>1
<1>13. CASE ReadFails \/ DropUnstable \/ Accept \/ Stop \/ EndProcess \/ StillSubscribed \/ Unsubscribe
  <2>1. UNCHANGED <<state, calling, proxy, epoch, discarded, before>>
        /\ main' \in {"loop", "publish", "shut down", "end", "wait", "ended"}
    <3>1. CASE ReadFails \/ DropUnstable \/ Accept
      BY <3>1 DEF ReadFails, DropUnstable, Accept, binding, round
    <3>2. CASE Stop \/ EndProcess \/ StillSubscribed
      BY <3>2 DEF Stop, EndProcess, StillSubscribed, binding, round
    <3>3. CASE Unsubscribe
      BY <3>3 DEF Unsubscribe, binding, round
    <3> QED
      BY <1>13, <3>1, <3>2, <3>3
  <2> QED
    BY <2>1
<1>14. CASE SubscribeRefused \/ DestroyProxy
  <2>1. UNCHANGED <<state, calling, epoch, discarded, before>>
        /\ main' \in {"shut down", "end"} /\ proxy' # "none"
    BY <1>14 DEF SubscribeRefused, DestroyProxy, binding, round
  <2> QED
    BY <2>1
<1>15. CASE StopSignal \/ UNCHANGED speedVars
  <2>1. UNCHANGED <<state, calling, proxy, epoch, discarded, before, main>>
    BY <1>15 DEF StopSignal, speedVars, binding, round
  <2> QED
    BY <2>1
<1> QED
  BY <1>1, <1>2, <1>3, <1>4, <1>5, <1>6, <1>7, <1>8, <1>9, <1>10, <1>11, <1>12, <1>13, <1>14,
     <1>15, NextCases DEF Still

(* What was published stays below a bound that is raised.                  *)
LEMMA UpToRises ==
    ASSUME published \in Seq(Published), NEW m \in Nat, NEW n \in Nat, m <= n, UpTo(m)
    PROVE  UpTo(n)
<1>1. SUFFICES ASSUME NEW i \in DOMAIN published PROVE published[i].sample <= n
  BY DEF UpTo
<1>2. published[i] \in Published
  OBVIOUS
<1>3. published[i].sample \in Nat /\ published[i].sample <= m
  BY <1>2 DEF Published, UpTo
<1> QED
  BY <1>3

(* What a sample that is published adds to the ones before it.             *)
LEMMA PublishAdds ==
    ASSUME lo \in Nat, since \in Nat, published \in Seq(Published), NewSamplesOnce, UpTo(lo),
           lo >= since, PublishOrWithhold
    PROVE  NewSamplesOnce' /\ UpTo(lo)' /\ lo' = lo + 1
<1> DEFINE new == [sample |-> lo + 1, since |-> since]
           last == Len(published) + 1
<1>1. lo' = lo + 1
  BY DEF PublishOrWithhold
<1>2. /\ Len(published) \in Nat
      /\ DOMAIN published = 1 .. Len(published)
      /\ \A i \in 1 .. Len(published) : /\ published[i].sample \in Nat
                                        /\ published[i].since \in Nat
                                        /\ published[i].sample <= lo
  <2>1. Len(published) \in Nat /\ DOMAIN published = 1 .. Len(published)
    OBVIOUS
  <2>2. ASSUME NEW i \in 1 .. Len(published) PROVE published[i] \in Published
    BY <2>2
  <2> QED
    BY <2>1, <2>2 DEF Published, UpTo
<1>3. CASE lo + 1 \in Withheld
  <2>1. published' = published
    BY <1>3 DEF PublishOrWithhold
  <2>2. UpTo(lo)'
    BY <1>1, <1>2, <2>1 DEF UpTo
  <2> QED
    BY <1>1, <2>1, <2>2 DEF NewSamplesOnce
<1>4. CASE lo + 1 \notin Withheld
  <2>1. published' = Append(published, new)
    BY <1>4 DEF PublishOrWithhold
  <2>2. /\ DOMAIN published' = 1 .. last
        /\ \A i \in 1 .. Len(published) : published'[i] = published[i]
        /\ published'[last] = new
    BY <2>1, <1>2
  <2>3. new.sample = lo + 1 /\ new.since = since
    OBVIOUS
  <2>4. \A i \in DOMAIN published' : i \in 1 .. Len(published) \/ i = last
    BY <2>2, <1>2
  <2>5. \A i \in DOMAIN published' : published'[i].sample > published'[i].since
    BY <1>2, <2>2, <2>3, <2>4 DEF NewSamplesOnce
  <2>6. \A i, j \in DOMAIN published' : i < j => published'[i].sample < published'[j].sample
    BY <1>2, <2>2, <2>3, <2>4 DEF NewSamplesOnce
  <2>7. UpTo(lo)'
    BY <1>1, <1>2, <2>2, <2>3, <2>4 DEF UpTo
  <2> QED
    BY <1>1, <2>5, <2>6, <2>7 DEF NewSamplesOnce
<1> QED
  BY <1>3, <1>4

(* What a read has taken of the epoch is newer than the epoch.             *)
LEMMA BufferStep ==
    ASSUME Counted, calling \in BOOLEAN, published \in Seq(Published), PhaseInv, BufferInv,
           NewSamplesOnce, [SpeedNext]_speedVars
    PROVE  BufferInv' /\ NewSamplesOnce'
<1> DEFINE Reading == main \in {"check again", "load again"}
<1>1. CASE Send
  <2>1. UNCHANGED <<taken, entered, state, calling, epoch, main, before, lo, hi, since, discarded,
                    published>>
    BY <1>1 DEF Send, round
  <2> QED
    BY <2>1 DEF BufferInv, InPhase, UpTo, Full, NewSamplesOnce
<1>2. CASE Enter
  <2>1. /\ UNCHANGED <<epoch, main, before, lo, hi, since, discarded, published>>
        /\ ~InPhase /\ entered' = sent
    BY <1>2, EnterTakes DEF Enter, round, InPhase
  <2>2. discarded' # epoch' /\ hi <= entered'
    <3>1. discarded < epoch
      BY <2>1 DEF PhaseInv
    <3>2. discarded \in Nat /\ epoch \in Nat /\ hi <= sent
      BY DEF Counted
    <3> QED
      BY <2>1, <3>1, <3>2
  <2>3. UpTo(entered)' 
    <3>1. UpTo(sent)
      BY UpToRises DEF BufferInv, Counted
    <3> QED
      BY <2>1, <3>1 DEF UpTo
  <2>4. ~(Reading' /\ before' = epoch')
    BY <2>1 DEF PhaseInv
  <2> QED
    BY <2>1, <2>2, <2>3, <2>4 DEF BufferInv, UpTo, NewSamplesOnce
<1>3. CASE Leave \/ Withdraw
  <2>1. UNCHANGED <<taken, entered, epoch, main, before, lo, hi, since, discarded, published>>
    BY <1>3 DEF Leave, Withdraw, round
  <2>2. discarded = epoch => InPhase
    <3>1. discarded \in Nat /\ epoch \in Nat
      BY DEF Counted
    <3>2. ~(discarded < epoch) => InPhase
      BY DEF PhaseInv
    <3> QED
      BY <3>1, <3>2
  <2> QED
    BY <2>1, <2>2 DEF BufferInv, UpTo, Full, NewSamplesOnce
<1>4. CASE OnSubscriptionStateChanged
  <2>1. /\ UNCHANGED <<taken, entered, state, main, before, lo, hi, since, discarded, published>>
        /\ calling /\ epoch' = LeaveEpoch
    BY <1>4 DEF OnSubscriptionStateChanged, round
  <2>2. CASE state = "subscribed"
    <3>1. epoch' = epoch /\ InPhase
      BY <2>1, <2>2 DEF LeaveEpoch, InPhase
    <3> QED
      BY <2>1, <3>1 DEF BufferInv, UpTo, Full, NewSamplesOnce
  <2>3. CASE state # "subscribed"
    <3>1. epoch' = epoch + 1 /\ before' = before /\ discarded' = discarded
      BY <2>1, <2>3 DEF LeaveEpoch
    <3>2. epoch' # discarded' /\ epoch' # before'
      BY <3>1 DEF Counted
    <3> QED
      BY <2>1, <3>2 DEF BufferInv, UpTo, NewSamplesOnce
  <2> QED
    BY <2>2, <2>3
<1>5. CASE Subscribe
  <2>1. /\ UNCHANGED <<epoch, discarded, published>>
        /\ ~InPhase /\ main' = "load epoch"
    BY <1>5 DEF Subscribe, At, PhaseInv, InPhase
  <2>2. discarded' # epoch'
    <3>1. discarded < epoch
      BY <2>1 DEF PhaseInv
    <3>2. discarded \in Nat /\ epoch \in Nat
      BY DEF Counted
    <3>3. discarded' = discarded /\ epoch' = epoch
      BY <2>1
    <3> QED
      BY <3>1, <3>2, <3>3
  <2>3. (UpTo(entered) \/ UpTo(taken))'
    <3>1. CASE entered' = entered /\ taken' = taken
      BY <2>1, <3>1 DEF BufferInv, UpTo
    <3>2. CASE entered' = sent
      <4>1. UpTo(sent)
        BY UpToRises DEF BufferInv, Counted
      <4> QED
        BY <2>1, <3>2, <4>1 DEF UpTo
    <3> QED
      BY <1>5, <3>1, <3>2, SubscribeTakes
  <2> QED
    BY <2>1, <2>2, <2>3 DEF BufferInv, NewSamplesOnce
<1>6. CASE LoadEpoch
  <2>1. UNCHANGED <<taken, entered, state, calling, epoch, discarded, published>>
        /\ main' = "check state"
    BY <1>6 DEF LoadEpoch, binding, At
  <2> QED
    BY <2>1 DEF BufferInv, InPhase, UpTo, NewSamplesOnce
<1>7. CASE ReadNewSamples
  <2>1. /\ UNCHANGED <<sent, entered, state, calling, epoch, before, discarded, published>>
        /\ main = "read" /\ main' = "check again" /\ taken' = hi' /\ since' = entered
    BY <1>7 DEF ReadNewSamples, At
  <2>2. /\ lo' \in Nat /\ hi' \in Nat /\ taken <= lo' /\ lo' <= hi' /\ hi' <= sent
        /\ Full' \/ hi' = sent
    BY <1>7, ReadReturns
  <2>3. entered \in Nat /\ taken \in Nat /\ sent \in Nat /\ entered <= sent
    BY DEF Counted
  <2>4. taken' >= taken /\ (~Full' => taken' >= entered)
    <3>1. taken' = hi'
      BY <2>1
    <3>2. taken' >= taken
      BY <3>1, <2>2, <2>3
    <3>3. ~Full' => taken' = sent
      BY <3>1, <2>2
    <3> QED
      BY <3>2, <3>3, <2>3
  <2>5. (discarded = epoch /\ InPhase => taken >= entered)'
    <3>1. taken >= entered => taken' >= entered'
      <4>1. entered' = entered /\ taken' = hi'
        BY <2>1
      <4> QED
        BY <4>1, <2>2, <2>3
    <3> QED
      BY <2>1, <3>1 DEF BufferInv, InPhase
  <2>6. (UpTo(entered) \/ UpTo(taken))'
    <3>1. UpTo(entered) \/ UpTo(taken')
      BY <2>1, <2>2, <2>3, UpToRises DEF BufferInv
    <3> QED
      BY <2>1, <3>1 DEF UpTo
  <2>7. ASSUME before = epoch, discarded = before PROVE lo' >= entered /\ UpTo(lo)'
    <3>1. InPhase
      BY <2>1, <2>7 DEF PhaseInv
    <3>2. lo' >= entered
      <4>1. taken >= entered
        BY <2>7, <3>1 DEF BufferInv
      <4> QED
        BY <4>1, <2>2, <2>3
    <3>3. UpTo(lo')
      BY <2>2, <2>3, <3>2, UpToRises DEF BufferInv
    <3> QED
      BY <2>1, <3>2, <3>3 DEF UpTo
  <2>8. (Reading /\ before = epoch =>
            /\ since = entered /\ hi <= taken
            /\ ~Full => taken >= entered
            /\ discarded = before => lo >= entered /\ UpTo(lo))'
    <3>1. hi' <= taken'
      <4>1. taken' = hi'
        BY <2>1
      <4> QED
        BY <4>1, <2>2
    <3> QED
      BY <2>1, <2>4, <2>7, <3>1
  <2>9. main' # "publish"
    BY <2>1
  <2>10. NewSamplesOnce'
    BY <2>1 DEF NewSamplesOnce
  <2> QED
    BY <2>5, <2>6, <2>8, <2>9, <2>10 DEF BufferInv
<1>8. CASE Discard
  <2>1. /\ UNCHANGED <<taken, entered, state, calling, epoch, published>>
        /\ main = "load again" /\ epoch = before /\ discarded # before
        /\ discarded' = IF ~Full THEN before ELSE discarded
    BY <1>8 DEF Discard, binding, Stable, DiscardEnds
  <2>2. main' \in {"loop", "load epoch"}
    BY <1>8 DEF Discard, NextRead
  <2>3. ~Full => taken >= entered
    BY <2>1 DEF BufferInv
  <2> QED
    BY <2>1, <2>2, <2>3 DEF BufferInv, UpTo, NewSamplesOnce
<1>9. CASE PublishOrWithhold
  <2>1. /\ UNCHANGED <<taken, entered, state, calling, epoch, discarded, main, hi, since>>
        /\ main = "publish" /\ lo < hi
    BY <1>9 DEF PublishOrWithhold, binding
  <2>2. lo >= since /\ UpTo(lo) /\ (hi <= entered \/ hi <= taken)
    BY <2>1 DEF BufferInv
  <2>3. lo \in Nat /\ hi \in Nat /\ since \in Nat /\ entered \in Nat /\ taken \in Nat
    BY DEF Counted
  <2>4. NewSamplesOnce' /\ UpTo(lo)' /\ lo' = lo + 1
    BY <1>9, <2>2, <2>3, PublishAdds
  <2>5. (UpTo(entered) \/ UpTo(taken))'
    <3>1. published' \in Seq(Published)
      BY PublishedStep
    <3>2. lo' \in Nat /\ (lo' <= entered \/ lo' <= taken)
      BY <2>1, <2>2, <2>3, <2>4
    <3>3. \A i \in DOMAIN published' : published'[i].sample \in Nat /\ published'[i].sample <= lo'
      <4>1. ASSUME NEW i \in DOMAIN published' PROVE published'[i] \in Published
        BY <3>1, <4>1
      <4> QED
        BY <2>4, <4>1 DEF UpTo, Published
    <3>4. (\A i \in DOMAIN published' : published'[i].sample <= entered)
          \/ (\A i \in DOMAIN published' : published'[i].sample <= taken)
      BY <2>3, <3>2, <3>3
    <3> QED
      BY <2>1, <3>4 DEF UpTo
  <2>6. (discarded = epoch /\ InPhase => taken >= entered)'
    BY <2>1 DEF BufferInv, InPhase
  <2>7. lo' >= since
    BY <2>2, <2>3, <2>4
  <2> QED
    BY <2>1, <2>2, <2>4, <2>5, <2>6, <2>7 DEF BufferInv
<1>10. CASE Still
  <2>1. UNCHANGED <<taken, entered, epoch, before, lo, hi, since, discarded, published>>
        /\ UNCHANGED <<state, calling>>
    BY <1>10, StillStep DEF numbers
  <2>2. (discarded = epoch /\ InPhase => taken >= entered)' /\ (UpTo(entered) \/ UpTo(taken))'
        /\ NewSamplesOnce'
    BY <2>1 DEF BufferInv, InPhase, UpTo, NewSamplesOnce
  <2>3. Reading' => Reading
    BY <1>10 DEF Still, At, CheckState, ReadFails, CheckAgain, DropUnstable, Accept, EndRead,
         NextRead, BeginRound, SubscribeRefused, Stop, Unsubscribe, DestroyProxy,
         StillSubscribed, EndProcess, StopSignal
  <2>4. main' = "publish" => \/ main = "publish"
                             \/ main = "load again" /\ epoch = before /\ discarded = before
    BY <1>10 DEF Still, At, CheckState, ReadFails, CheckAgain, DropUnstable, Accept, EndRead,
         NextRead, BeginRound, SubscribeRefused, Stop, Unsubscribe, DestroyProxy,
         StillSubscribed, EndProcess, StopSignal, Stable
  <2>5. (Reading /\ before = epoch =>
            /\ since = entered /\ hi <= taken
            /\ ~Full => taken >= entered
            /\ discarded = before => lo >= entered /\ UpTo(lo))'
    BY <2>1, <2>3 DEF BufferInv, UpTo, Full
  <2>6. (main = "publish" => lo >= since /\ UpTo(lo) /\ (hi <= entered \/ hi <= taken))'
    BY <2>1, <2>4 DEF BufferInv, UpTo
  <2> QED
    BY <2>2, <2>5, <2>6 DEF BufferInv
<1>11. CASE UNCHANGED speedVars
  BY <1>11 DEF speedVars, BufferInv, InPhase, UpTo, Full, NewSamplesOnce
<1> QED
  BY <1>1, <1>2, <1>3, <1>4, <1>5, <1>6, <1>7, <1>8, <1>9, <1>10, <1>11, NextCases

(* Rule 1: what is published was sent after the subscription it was read   *)
(* in began, once and in order, whatever the binding does meanwhile.       *)
THEOREM NewSamplesArePublishedOnce == SpeedSpec => []NewSamplesOnce
<1> DEFINE IInv == SpeedTypeOK /\ PhaseInv /\ BufferInv /\ NewSamplesOnce
<1>1. SpeedInit => IInv
  <2>1. SUFFICES ASSUME SpeedInit PROVE IInv
    OBVIOUS
  <2>2. SpeedTypeOK
    BY <2>1, SpeedTypeInit
  <2>3. main = "loop" /\ state = "not subscribed" /\ calling = FALSE /\ published = <<>>
    BY <2>1 DEF SpeedInit
  <2>4. discarded < epoch /\ discarded # epoch
    <3>1. discarded = 0 /\ epoch = 1
      BY <2>1 DEF SpeedInit
    <3> QED
      BY <3>1
  <2>5. PhaseInv
    BY <2>3, <2>4 DEF PhaseInv, InPhase
  <2>6. DOMAIN published = {}
    <3>1. Len(published) = 0
      BY <2>3
    <3>2. DOMAIN published = 1 .. Len(published)
      BY <2>2 DEF SpeedTypeOK
    <3> QED
      BY <3>1, <3>2
  <2>7. BufferInv /\ NewSamplesOnce
    BY <2>3, <2>4, <2>6 DEF BufferInv, UpTo, NewSamplesOnce
  <2> QED
    BY <2>2, <2>5, <2>7
<1>2. IInv /\ [SpeedNext]_speedVars => IInv'
  <2>1. SUFFICES ASSUME IInv, [SpeedNext]_speedVars PROVE IInv'
    OBVIOUS
  <2>2. SpeedTypeOK'
    BY <2>1, CountedStep, ShapedStep, PublishedStep DEF SpeedTypeOK
  <2>3. PhaseInv'
    BY <2>1, PhaseStep DEF SpeedTypeOK
  <2>4. calling \in BOOLEAN
    BY <2>1 DEF SpeedTypeOK, Shaped
  <2>5. BufferInv' /\ NewSamplesOnce'
    BY <2>1, <2>4, BufferStep DEF SpeedTypeOK
  <2> QED
    BY <2>2, <2>3, <2>5
<1> QED
  BY <1>1, <1>2, PTL DEF SpeedSpec

(* Where the proxy is, at the end of the process.                          *)
EndInv ==
    /\ proxy \in {"none", "created", "destroyed"}
    /\ proxy = "destroyed" => main \in {"end", "ended"}
    /\ main = "wait" => proxy = "created"
    /\ main = "end" => proxy # "created"
    /\ main # "ended" => code # kStillSubscribed

(* Rule 2: no step destroys the proxy, or follows its destruction, with a  *)
(* subscription or a handler left, and the code of the process tells.      *)
THEOREM ProxyIsKeptWhileSubscribed == SpeedSpec => []SubscribedProxyIsKept
<1> DEFINE IInv == EndInv /\ SubscribedProxyIsKept
<1> USE DEF EndInv, SubscribedProxyIsKept, kStillSubscribed, kSpeedSubscribeFailed
<1>1. SpeedInit => IInv
  <2>1. SpeedInit => main = "loop" /\ proxy = "none" /\ code = 0
    BY DEF SpeedInit
  <2> QED
    BY <2>1
<1>2. IInv /\ [SpeedNext]_speedVars => IInv'
  <2> SUFFICES ASSUME IInv, [SpeedNext]_speedVars PROVE IInv'
    OBVIOUS
  <2> USE DEF At
  <2>1. CASE main # "ended" /\ Outside
    <3>1. UNCHANGED <<main, proxy, code>> /\ main # "ended"
      BY <2>1 DEF Outside, Binding, Send, Enter, Leave, Withdraw, OnSubscriptionStateChanged,
           StopSignal
    <3>2. proxy = "destroyed" => UNCHANGED <<state, calling>>
      BY <2>1 DEF Outside, Binding, Send, Enter, Leave, Withdraw, OnSubscriptionStateChanged,
           StopSignal, binding
    <3>3. EndInv'
      BY <3>1
    <3>4. proxy' = "destroyed" => state' = "not subscribed" /\ ~calling'
      BY <3>1, <3>2
    <3>5. main' # "ended"
      BY <3>1
    <3> QED
      BY <3>3, <3>4, <3>5
  <2>2. CASE Subscribe
    BY <2>2 DEF Subscribe
  <2>3. CASE SubscribeRefused
    <3>1. main' = "shut down" /\ proxy' = "created" /\ code' = 5
      BY <2>3 DEF SubscribeRefused
    <3>2. code' # 3
      <4>1. code' = 5
        BY <3>1
      <4> HIDE DEF EndInv, SubscribedProxyIsKept, IInv, At
      <4> QED
        BY <4>1
    <3>3. EndInv'
      BY <3>1, <3>2
    <3>4. SubscribedProxyIsKept'
      BY <3>1
    <3> QED
      BY <3>3, <3>4
  <2>4. CASE BeginRound \/ LoadEpoch \/ ReadNewSamples \/ ReadFails \/ DropUnstable \/ Accept
             \/ PublishOrWithhold \/ Stop
    <3>1. /\ UNCHANGED <<proxy, code>> /\ main \notin {"wait", "end", "ended"}
          /\ main' \notin {"wait", "end", "ended"}
      BY <2>4 DEF BeginRound, LoadEpoch, ReadNewSamples, ReadFails, DropUnstable, Accept,
           PublishOrWithhold, Stop
    <3> QED
      BY <3>1
  <2>5. CASE CheckState \/ CheckAgain \/ Discard \/ EndRead
    <3>1. /\ UNCHANGED <<proxy, code>> /\ main \notin {"wait", "end", "ended"}
          /\ main' \notin {"wait", "end", "ended"}
      BY <2>5 DEF CheckState, CheckAgain, Discard, EndRead, NextRead
    <3> QED
      BY <3>1
  <2>6. CASE Unsubscribe
    <3>1. UNCHANGED <<proxy, code>> /\ main = "shut down"
          /\ IF proxy = "none" THEN main' = "end" ELSE main' = "wait"
      BY <2>6 DEF Unsubscribe
    <3>2. proxy # "destroyed"
      BY <3>1
    <3>3. proxy' \in {"none", "created"}
      BY <2>6, <3>2 DEF Unsubscribe
    <3>4. main' \in {"end", "wait"} /\ code' # 3
      BY <3>1
    <3>5. EndInv'
      BY <3>1, <3>3, <3>4
    <3>6. SubscribedProxyIsKept'
      BY <3>3, <3>4
    <3> QED
      BY <3>5, <3>6
  <2>7. CASE DestroyProxy
    BY <2>7 DEF DestroyProxy, Gone, binding
  <2>8. CASE StillSubscribed
    BY <2>8 DEF StillSubscribed
  <2>9. CASE EndProcess
    BY <2>9 DEF EndProcess, binding
  <2>10. CASE UNCHANGED speedVars
    BY <2>10 DEF speedVars
  <2> QED
    BY <2>1, <2>2, <2>3, <2>4, <2>5, <2>6, <2>7, <2>8, <2>9, <2>10 DEF SpeedNext, Main
<1> QED
  BY <1>1, <1>2, PTL DEF SpeedSpec

-----------------------------------------------------------------------------
(* The frame path of the adapter.                                          *)

(* The first n bytes of frame f.                                           *)
Part(f, n) == [k \in 1 .. n |-> [frame |-> f, k |-> k]]

AnyByte == [frame : Nat, k : Nat]

LEMMA PartIsSeq ==
    ASSUME NEW f \in Nat, NEW n \in Nat
    PROVE  Part(f, n) \in Seq(AnyByte) /\ Len(Part(f, n)) = n
<1>1. Part(f, n) \in [1 .. n -> AnyByte]
  BY DEF Part, AnyByte
<1>2. Part(f, n) \in Seq(AnyByte)
  BY <1>1
<1>3. DOMAIN Part(f, n) = 1 .. n
  BY DEF Part
<1> QED
  BY <1>2, <1>3, LenProperties

LEMMA PartGrows ==
    ASSUME NEW f \in Nat, NEW n \in Nat
    PROVE  Append(Part(f, n), [frame |-> f, k |-> n + 1]) = Part(f, n + 1)
<1>1. Part(f, n) \in Seq(AnyByte) /\ Len(Part(f, n)) = n /\ [frame |-> f, k |-> n + 1] \in AnyByte
  BY PartIsSeq DEF AnyByte
<1>2. Part(f, n + 1) \in Seq(AnyByte) /\ Len(Part(f, n + 1)) = n + 1
  BY PartIsSeq
<1>3. Append(Part(f, n), [frame |-> f, k |-> n + 1]) \in Seq(AnyByte)
      /\ Len(Append(Part(f, n), [frame |-> f, k |-> n + 1])) = n + 1
      /\ \A i \in 1 .. n : Append(Part(f, n), [frame |-> f, k |-> n + 1])[i] = Part(f, n)[i]
      /\ Append(Part(f, n), [frame |-> f, k |-> n + 1])[n + 1] = [frame |-> f, k |-> n + 1]
  BY <1>1, AppendProperties
<1>4. \A i \in 1 .. n + 1 : Append(Part(f, n), [frame |-> f, k |-> n + 1])[i] = Part(f, n + 1)[i]
  BY <1>3 DEF Part
<1> QED
  BY <1>2, <1>3, <1>4, SeqEqual

LEMMA PartsOfAFrame ==
    ASSUME FrameAssumption, NEW f \in Nat, length[f] \in Nat
    PROVE  /\ Bytes(f) = Part(f, PrefixBytes + length[f])
           /\ SubSeq(Bytes(f), 1, PrefixBytes) = Part(f, PrefixBytes)
           /\ Part(f, 0) = <<>>
<1>1. PrefixBytes \in Nat \ {0} /\ PrefixBytes + length[f] \in Nat
  BY DEF FrameAssumption
<1>2. Bytes(f) = Part(f, PrefixBytes + length[f])
  BY DEF Bytes, Part
<1> DEFINE p == Part(f, PrefixBytes)  b == Part(f, PrefixBytes + length[f])
           c == SubSeq(b, 1, PrefixBytes)
<1>3. p \in Seq(AnyByte) /\ Len(p) = PrefixBytes /\ b \in Seq(AnyByte)
      /\ Len(b) = PrefixBytes + length[f]
  BY <1>1, PartIsSeq
<1>4. c \in Seq(AnyByte) /\ Len(c) = PrefixBytes /\ \A i \in 1 .. PrefixBytes : c[i] = b[i]
  <2> HIDE DEF b
  <2>1. 1 \in 1 .. Len(b) + 1 /\ PrefixBytes \in 0 .. Len(b) /\ 1 <= PrefixBytes + 1
    BY <1>1, <1>3
  <2> QED
    BY <1>1, <1>3, <2>1, SubSeqProperties
<1>5. \A i \in 1 .. PrefixBytes : c[i] = p[i]
  <2>1. \A i \in 1 .. PrefixBytes : b[i] = p[i]
    BY <1>1 DEF Part
  <2> QED
    BY <2>1, <1>4
<1>6. c = p
  <2> HIDE DEF c, p
  <2> QED
    BY <1>3, <1>4, <1>5, SeqEqual
<1>7. Part(f, 0) = <<>>
  <2>1. Part(f, 0) \in Seq(AnyByte) /\ Len(Part(f, 0)) = 0
    BY PartIsSeq
  <2> QED
    BY <2>1, EmptySeq
<1> QED
  BY <1>2, <1>6, <1>7

Rec(s, p, m, e, k) == [state |-> s, prefix |-> p, sample |-> m, expected |-> e, skip |-> k]

LEMMA RecFields ==
    ASSUME NEW s, NEW p, NEW m, NEW e, NEW k
    PROVE  /\ Rec(s, p, m, e, k).state = s /\ Rec(s, p, m, e, k).prefix = p
           /\ Rec(s, p, m, e, k).sample = m /\ Rec(s, p, m, e, k).expected = e
           /\ Rec(s, p, m, e, k).skip = k
  BY Zenon DEF Rec

LEMMA RecClear == Clear = Rec("prefix", <<>>, <<>>, 0, 0)
  BY Zenon DEF Rec, Clear

LEMMA RecStartSkip ==
    ASSUME NEW q, NEW x, q = [Clear EXCEPT !.state = "skip", !.skip = x]
    PROVE  q = Rec("skip", <<>>, <<>>, 0, x)
  BY Zenon DEF Rec, Clear

LEMMA RecStartFrame ==
    ASSUME NEW q, NEW x, NEW y,
           q = [Clear EXCEPT !.state = "frame", !.sample = x, !.expected = y]
    PROVE  q = Rec("frame", <<>>, x, y, 0)
  BY Zenon DEF Rec, Clear

-----------------------------------------------------------------------------
(* The inductive invariant.                                                *)

Total == PrefixBytes + length[Last]
FrameSample == [sample : Seq(AnyByte), offered : BOOLEAN]

FrameBasics ==
    /\ client \in {"connect", "stream", "ended"} /\ connections \in 0 .. MaxConnections
    /\ length \in Seq(Lengths) /\ Last \in Nat /\ Last <= MaxFrames
    /\ place \in Nat /\ offered \in BOOLEAN /\ frameStop \in BOOLEAN
    /\ received \subseteq 1 .. Last
    /\ forwarded \in Seq(FrameSample)

(* A frame under way belongs to the stream that is open.                   *)
UnderWay ==
    /\ Last > 0 => length[Last] \in Nat /\ place <= Total
    /\ Begun => client = "stream" /\ Last \notin received
    /\ client # "ended" => offered

(* The splitter holds the bytes of the frame under way that were received, *)
(* or their number when they are skipped; and nothing between two frames.  *)
SplitterFollows ==
    /\ ~Begun => splitter = Rec("prefix", <<>>, <<>>, 0, 0)
    /\ Begun /\ place < PrefixBytes => splitter = Rec("prefix", Part(Last, place), <<>>, 0, 0)
    /\ Begun /\ place >= PrefixBytes /\ Total > SampleBytes
       => splitter = Rec("skip", <<>>, <<>>, 0, Total - place)
    /\ Begun /\ place >= PrefixBytes /\ Total <= SampleBytes
       => splitter = Rec("frame", <<>>, Part(Last, place), Total, 0)

FrameInv == FrameBasics /\ UnderWay /\ SplitterFollows /\ ForwardedAsSent

(* What one received byte does.                                            *)
Goes == 
    /\ place' < Total
    /\ UNCHANGED <<forwarded, received>>
    /\ place' < PrefixBytes => splitter' = Rec("prefix", Part(Last, place'), <<>>, 0, 0)
    /\ place' >= PrefixBytes /\ Total > SampleBytes
       => splitter' = Rec("skip", <<>>, <<>>, 0, Total - place')
    /\ place' >= PrefixBytes /\ Total <= SampleBytes
       => splitter' = Rec("frame", <<>>, Part(Last, place'), Total, 0)

Completes ==
    /\ place' = Total /\ Total <= SampleBytes
    /\ splitter' = Rec("prefix", <<>>, <<>>, 0, 0)
    /\ forwarded' = Append(forwarded, [sample |-> Bytes(Last), offered |-> offered])
    /\ received' = received \cup {Last}

Skips ==
    /\ place' = Total /\ Total > SampleBytes
    /\ splitter' = Rec("prefix", <<>>, <<>>, 0, 0)
    /\ forwarded' = forwarded
    /\ received' = received \cup {Last}

LEMMA ReceiveMoves ==
    ASSUME FrameAssumption, FrameBasics, UnderWay, SplitterFollows, Receive
    PROVE  Goes \/ Completes \/ Skips
<1>1. /\ Begun /\ Last \in Nat /\ Last > 0 /\ place \in Nat /\ Total \in Nat /\ length[Last] \in Nat
      /\ place' = place + 1 /\ place < Total /\ place' <= Total
      /\ received' = IF place' = Total THEN received \cup {Last} ELSE received
  BY DEF FrameAssumption, FrameBasics, UnderWay, Receive, Begun, Total
<1>2. PrefixBytes \in Nat \ {0} /\ SampleBytes \in Nat /\ SampleBytes >= PrefixBytes
  BY DEF FrameAssumption
<1>3. Total = PrefixBytes + length[Last]
  BY DEF Total
<1> DEFINE b == Bytes(Last)[place']
<1>4. b = [frame |-> Last, k |-> place + 1]
  BY <1>1, <1>3 DEF Bytes
<1>5. Feed(b)
  BY DEF Receive
<1>6. /\ Bytes(Last) = Part(Last, Total)
      /\ SubSeq(Bytes(Last), 1, PrefixBytes) = Part(Last, PrefixBytes)
      /\ Part(Last, 0) = <<>>
  BY <1>1, <1>3, PartsOfAFrame
<1>7. Append(Part(Last, place), b) = Part(Last, place')
  BY <1>1, <1>4, PartGrows
<1>8. Len(Part(Last, place')) = place'
  BY <1>1, PartIsSeq
<1>9. "prefix" # "frame" /\ "prefix" # "skip" /\ "frame" # "skip"
  OBVIOUS
<1> HIDE DEF b
<1>a. CASE place < PrefixBytes
  <2> DEFINE q == Rec("prefix", Part(Last, place), <<>>, 0, 0)
  <2>1. splitter = q
    BY <1>1, <1>a DEF SplitterFollows
  <2>2. splitter.state = "prefix" /\ splitter.prefix = Part(Last, place)
    BY <2>1, RecFields
  <2>3. FeedPrefix(b)
    BY <1>5, <1>9, <2>2 DEF Feed, FeedFrame, FeedSkip
  <2>4. CASE place' < PrefixBytes
    <3>1. splitter' = [splitter EXCEPT !.prefix = Part(Last, place')] /\ UNCHANGED forwarded
      BY <1>7, <1>8, <2>2, <2>3, <2>4 DEF FeedPrefix
    <3>2. splitter' = Rec("prefix", Part(Last, place'), <<>>, 0, 0)
      BY <2>1, <3>1, Zenon DEF Rec
    <3> QED
      BY <1>1, <1>2, <1>3, <2>4, <3>1, <3>2 DEF Goes
  <2>5. CASE ~(place' < PrefixBytes)
    <3>1. place' = PrefixBytes
      BY <1>1, <1>2, <1>a, <2>5
    <3>2. PICK said \in Said(Part(Last, PrefixBytes)) : StartFrame(Part(Last, PrefixBytes), said)
      BY <1>7, <1>8, <2>2, <2>3, <2>5, <3>1 DEF FeedPrefix
    <3>3. said = length[Last]
      <4>1. Part(Last, PrefixBytes)[1].frame = Last
        BY <1>2 DEF Part
      <4>2. Said(Part(Last, PrefixBytes)) = {length[Last]}
        <5>1. \E f \in 1 .. Last : Part(Last, PrefixBytes) = SubSeq(Bytes(f), 1, PrefixBytes)
          <6>1. Last \in 1 .. Last
            BY <1>1
          <6> QED
            BY <1>6, <6>1
        <5> QED
          BY <4>1, <5>1, Zenon DEF Said
      <4> QED
        BY <3>2, <4>2
    <3>4. CASE Total > SampleBytes
      <4>1. TooLarge(PrefixBytes + said)
        BY <1>3, <3>3, <3>4 DEF TooLarge
      <4>2. splitter' = [Clear EXCEPT !.state = "skip", !.skip = said] /\ UNCHANGED forwarded
        BY <3>2, <4>1 DEF StartFrame
      <4>3. splitter' = Rec("skip", <<>>, <<>>, 0, said)
        BY <4>2, RecStartSkip
      <4>4. place' < Total /\ said = Total - place'
        BY <1>1, <1>2, <1>3, <3>1, <3>3, <3>4
      <4> QED
        BY <1>1, <1>2, <3>1, <3>4, <4>2, <4>3, <4>4 DEF Goes
    <3>5. CASE Total <= SampleBytes /\ said = 0
      <4>1. ~TooLarge(PrefixBytes + said)
        BY <1>1, <1>2, <1>3, <3>3, <3>5 DEF TooLarge
      <4>2. splitter' = Clear /\ OnFrame(Part(Last, PrefixBytes))
        BY <3>2, <3>5, <4>1 DEF StartFrame
      <4>3. place' = Total
        BY <1>1, <1>2, <1>3, <3>1, <3>3, <3>5
      <4>4. splitter' = Rec("prefix", <<>>, <<>>, 0, 0)
        BY <4>2, RecClear
      <4>5. Part(Last, PrefixBytes) = Bytes(Last)
        BY <1>6, <3>1, <4>3
      <4> QED
        BY <1>1, <3>5, <4>2, <4>3, <4>4, <4>5 DEF Completes, OnFrame
    <3>6. CASE Total <= SampleBytes /\ said # 0
      <4>1. ~TooLarge(PrefixBytes + said)
        BY <1>1, <1>2, <1>3, <3>3, <3>6 DEF TooLarge
      <4>2. /\ splitter' = [Clear EXCEPT !.state = "frame", !.sample = Part(Last, PrefixBytes),
                                         !.expected = PrefixBytes + said]
            /\ UNCHANGED forwarded
        BY <3>2, <3>6, <4>1 DEF StartFrame
      <4>3. splitter' = Rec("frame", <<>>, Part(Last, place'), Total, 0)
        BY <1>3, <3>1, <3>3, <4>2, RecStartFrame, Zenon
      <4>4. place' < Total
        BY <1>1, <1>2, <1>3, <3>1, <3>3, <3>6
      <4> QED
        BY <1>1, <1>2, <3>1, <3>6, <4>2, <4>3, <4>4 DEF Goes
    <3> QED
      BY <1>1, <1>2, <3>4, <3>5, <3>6
  <2> QED
    BY <2>4, <2>5
<1>b. CASE place >= PrefixBytes /\ Total > SampleBytes
  <2>1. splitter = Rec("skip", <<>>, <<>>, 0, Total - place)
    BY <1>1, <1>b DEF SplitterFollows
  <2>2. splitter.state = "skip" /\ splitter.skip = Total - place
    BY <2>1, RecFields
  <2>3. FeedSkip
    BY <1>5, <1>9, <2>2 DEF Feed, FeedFrame, FeedPrefix
  <2>4. CASE place' = Total
    <3>1. splitter.skip = 1
      BY <1>1, <2>2, <2>4
    <3>2. splitter' = Clear /\ UNCHANGED forwarded
      BY <2>3, <3>1 DEF FeedSkip
    <3>3. splitter' = Rec("prefix", <<>>, <<>>, 0, 0)
      BY <3>2, RecClear
    <3> QED
      BY <1>1, <1>b, <2>4, <3>2, <3>3 DEF Skips
  <2>5. CASE place' # Total
    <3>1. splitter.skip # 1
      BY <1>1, <2>2, <2>5
    <3>2. splitter' = [splitter EXCEPT !.skip = @ - 1] /\ UNCHANGED forwarded
      BY <2>3, <3>1 DEF FeedSkip
    <3>3. splitter' = Rec("skip", <<>>, <<>>, 0, (Total - place) - 1)
      BY <2>1, <3>2, Zenon DEF Rec
    <3>4. place' < Total /\ (Total - place) - 1 = Total - place' /\ place' >= PrefixBytes
      BY <1>1, <1>2, <1>b, <2>5
    <3> QED
      BY <1>1, <1>2, <1>b, <3>2, <3>3, <3>4 DEF Goes
  <2> QED
    BY <2>4, <2>5
<1>c. CASE place >= PrefixBytes /\ Total <= SampleBytes
  <2>1. splitter = Rec("frame", <<>>, Part(Last, place), Total, 0)
    BY <1>1, <1>c DEF SplitterFollows
  <2>2. splitter.state = "frame" /\ splitter.sample = Part(Last, place) /\ splitter.expected = Total
    BY <2>1, RecFields
  <2>3. FeedFrame(b)
    BY <1>5, <1>9, <2>2 DEF Feed, FeedSkip, FeedPrefix
  <2>. DEFINE sample == Append(splitter.sample, b)
  <2>6. sample = Part(Last, place') /\ Len(sample) = place'
    BY <1>7, <1>8, <2>2
  <2>7. IF Len(sample) < splitter.expected
        THEN splitter' = [splitter EXCEPT !.sample = sample] /\ UNCHANGED forwarded
        ELSE splitter' = Clear /\ OnFrame(sample)
    BY <2>3, Zenon DEF FeedFrame
  <2> HIDE DEF sample
  <2>4. CASE place' = Total
    <3>1. splitter' = Clear /\ OnFrame(Part(Last, place'))
      BY <1>1, <2>2, <2>4, <2>6, <2>7
    <3>3. splitter' = Rec("prefix", <<>>, <<>>, 0, 0)
      BY <3>1, RecClear
    <3> QED
      BY <1>1, <1>6, <1>c, <2>4, <3>1, <3>3 DEF Completes, OnFrame
  <2>5. CASE place' # Total
    <3>2. splitter' = [splitter EXCEPT !.sample = Part(Last, place')] /\ UNCHANGED forwarded
      BY <1>1, <2>2, <2>5, <2>6, <2>7
    <3>3. splitter' = Rec("frame", <<>>, Part(Last, place'), Total, 0)
      BY <2>1, <3>2, Zenon DEF Rec
    <3>4. place' < Total /\ place' >= PrefixBytes
      BY <1>1, <1>2, <1>c, <2>5
    <3> QED
      BY <1>1, <1>2, <1>c, <3>2, <3>3, <3>4 DEF Goes
  <2> QED
    BY <2>4, <2>5
<1> QED
  BY <1>1, <1>2, <1>a, <1>b, <1>c

-----------------------------------------------------------------------------
(* What was handed on.                                                     *)

Fitting == {f \in received : Fits(f)}

LEMMA FittingIsFinite ==
    ASSUME FrameBasics
    PROVE  /\ IsFiniteSet(Fitting) /\ Cardinality(Fitting) \in Nat
           /\ \A f \in Fitting : f \in 1 .. Last
<1>1. Fitting \subseteq 1 .. Last
  BY DEF Fitting, FrameBasics
<1>2. IsFiniteSet(1 .. Last)
  BY FS_Interval DEF FrameBasics
<1>3. IsFiniteSet(Fitting)
  BY <1>1, <1>2, FS_Subset
<1> QED
  BY <1>1, <1>3, FS_CardinalityType

LEMMA ForwardedOnes ==
    ForwardedAsSent
    <=> /\ Len(forwarded) = Cardinality(Fitting)
        /\ \A i \in DOMAIN forwarded :
               /\ forwarded[i].offered
               /\ \E f \in Fitting :
                      /\ forwarded[i].sample = Bytes(f)
                      /\ i = Cardinality({g \in Fitting : g <= f})
  BY Zenon DEF ForwardedAsSent, Fitting

(* A step that hands nothing on, and completes no frame that fits.         *)
LEMMA NothingHandedOn ==
    ASSUME ForwardedAsSent, forwarded' = forwarded, Fitting' = Fitting,
           \A f \in Fitting : Bytes(f)' = Bytes(f)
    PROVE  ForwardedAsSent'
<1>1. /\ Len(forwarded) = Cardinality(Fitting)
      /\ \A i \in DOMAIN forwarded :
             /\ forwarded[i].offered
             /\ \E f \in Fitting :
                    /\ forwarded[i].sample = Bytes(f)
                    /\ i = Cardinality({g \in Fitting : g <= f})
  BY ForwardedOnes
<1>2. /\ Len(forwarded') = Cardinality(Fitting')
      /\ \A i \in DOMAIN forwarded' :
             /\ forwarded'[i].offered
             /\ \E f \in Fitting' :
                    /\ forwarded'[i].sample = Bytes(f)'
                    /\ i = Cardinality({g \in Fitting' : g <= f})
  BY <1>1, Zenon
<1> QED
  BY <1>2, Zenon DEF ForwardedAsSent, Fitting

LEMMA FrameHandedOn ==
    ASSUME FrameAssumption, FrameBasics, UnderWay, Begun, ForwardedAsSent, Completes,
           UNCHANGED length
    PROVE  ForwardedAsSent'
<1>1. /\ Len(forwarded) = Cardinality(Fitting)
      /\ \A i \in DOMAIN forwarded :
             /\ forwarded[i].offered
             /\ \E f \in Fitting :
                    /\ forwarded[i].sample = Bytes(f)
                    /\ i = Cardinality({g \in Fitting : g <= f})
  BY ForwardedOnes
<1>2. Last \notin Fitting /\ Last \in Nat /\ offered = TRUE
  BY DEF UnderWay, Fitting, FrameBasics
<1>3. Fitting' = Fitting \cup {Last}
  <2>1. Fits(Last)
    BY DEF Completes, Total, Fits
  <2>2. \A f : Fits(f)' <=> Fits(f)
    BY DEF Fits
  <2>3. received' = received \cup {Last}
    BY DEF Completes
  <2> QED
    BY <2>1, <2>2, <2>3 DEF Fitting
<1>4. IsFiniteSet(Fitting) /\ Cardinality(Fitting) \in Nat /\ \A f \in Fitting : f \in 1 .. Last
  BY FittingIsFinite
<1>5. Cardinality(Fitting') = Cardinality(Fitting) + 1
  BY <1>2, <1>3, <1>4, FS_AddElement
<1>6. \A f : Bytes(f)' = Bytes(f)
  BY DEF Bytes
<1> DEFINE new == [sample |-> Bytes(Last), offered |-> offered]
           n == Len(forwarded)
<1>7. forwarded' = Append(forwarded, new)
  BY DEF Completes
<1>8. new \in FrameSample
  <2>2. /\ length[Last] \in Nat /\ PrefixBytes + length[Last] \in Nat
        /\ Bytes(Last) = Part(Last, PrefixBytes + length[Last])
    BY DEF Bytes, Part, UnderWay, Begun, Completes, Total, FrameBasics, FrameAssumption
  <2>3. Bytes(Last) \in Seq(AnyByte)
    BY <1>2, <2>2, PartIsSeq
  <2> QED
    BY <1>2, <2>3 DEF FrameSample
<1>9. /\ n \in Nat /\ Len(forwarded') = n + 1 /\ DOMAIN forwarded = 1 .. n
      /\ DOMAIN forwarded' = 1 .. n + 1
      /\ \A i \in 1 .. n : forwarded'[i] = forwarded[i]
      /\ forwarded'[n + 1] = new
  <2>1. forwarded \in Seq(FrameSample)
    BY DEF FrameBasics
  <2> HIDE DEF new
  <2>2. forwarded' \in Seq(FrameSample)
    BY <1>7, <1>8, <2>1, AppendProperties
  <2> QED
    BY <1>7, <1>8, <2>1, <2>2, AppendProperties, LenProperties
<1>10. ASSUME NEW i \in DOMAIN forwarded'
       PROVE  /\ forwarded'[i].offered
              /\ \E f \in Fitting' : /\ forwarded'[i].sample = Bytes(f)'
                                     /\ i = Cardinality({g \in Fitting' : g <= f})
  <2>1. CASE i = n + 1
    <3>1. {g \in Fitting' : g <= Last} = Fitting'
      BY <1>2, <1>3, <1>4
    <3>2. forwarded'[i].sample = Bytes(Last) /\ forwarded'[i].offered
      BY <1>2, <1>9, <2>1
    <3> QED
      BY <1>1, <1>3, <1>5, <1>6, <2>1, <3>1, <3>2, Zenon
  <2>2. CASE i \in 1 .. n
    <3>1. i \in DOMAIN forwarded /\ forwarded'[i] = forwarded[i]
      BY <1>9, <2>2
    <3>2. PICK f \in Fitting : /\ forwarded[i].sample = Bytes(f)
                               /\ i = Cardinality({g \in Fitting : g <= f})
      BY <1>1, <3>1
    <3>3. {g \in Fitting' : g <= f} = {g \in Fitting : g <= f}
      BY <1>2, <1>3, <1>4, <3>2
    <3>4. f \in Fitting'
      BY <1>3
    <3>5. forwarded'[i].sample = Bytes(f)' /\ i = Cardinality({g \in Fitting' : g <= f})
      BY <1>6, <3>1, <3>2, <3>3
    <3>6. forwarded'[i].offered
      BY <1>1, <3>1
    <3> QED
      BY <3>4, <3>5, <3>6, Zenon
  <2>3. i \in 1 .. n + 1 /\ n \in Nat
    BY <1>9
  <2> HIDE DEF n
  <2> QED
    BY <2>1, <2>2, <2>3
<1>11. Len(forwarded') = Cardinality(Fitting')
  BY <1>1, <1>5, <1>9
<1> QED
  BY <1>10, <1>11, Zenon DEF ForwardedAsSent, Fitting

-----------------------------------------------------------------------------
(* The steps.                                                              *)

LEMMA FrameInvInit ==
    ASSUME FrameAssumption, FrameInit
    PROVE  FrameInv
<1>1. FrameBasics
  <2>1. /\ length \in Seq(Lengths) /\ Last = 0
        /\ forwarded \in Seq(FrameSample)
    BY DEF FrameInit, Last
  <2>2. client \in {"connect", "stream", "ended"} /\ connections \in 0 .. MaxConnections
    BY DEF FrameInit, FrameAssumption
  <2>3. place \in Nat /\ received \subseteq 1 .. Last /\ Last <= MaxFrames
    BY <2>1 DEF FrameInit, FrameAssumption
  <2>4. offered \in BOOLEAN /\ frameStop \in BOOLEAN
    BY DEF FrameInit
  <2> QED
    BY <2>1, <2>2, <2>3, <2>4 DEF FrameBasics
<1>2. Last = 0 /\ ~Begun
  BY DEF FrameInit, Begun, Last
<1>3. UnderWay /\ SplitterFollows
  BY <1>2, RecClear DEF FrameInit, UnderWay, SplitterFollows
<1>4. Fitting = {}
  BY DEF FrameInit, Fitting
<1>5. Len(forwarded) = Cardinality(Fitting) /\ DOMAIN forwarded = {}
  BY <1>4, FS_EmptySet DEF FrameInit
<1>6. ForwardedAsSent
  BY <1>5, ForwardedOnes, Zenon
<1> QED
  BY <1>1, <1>3, <1>6 DEF FrameInv

LEMMA ReceiveKeeps ==
    ASSUME FrameAssumption, FrameInv, Receive
    PROVE  FrameInv'
<1>1. FrameBasics /\ UnderWay /\ SplitterFollows /\ ForwardedAsSent
  BY DEF FrameInv
<1>2. /\ Begun /\ client = "stream" /\ place' = place + 1
      /\ client' = client /\ connections' = connections /\ length' = length
      /\ offered' = offered /\ frameStop' = frameStop
  BY DEF Receive
<1>3. /\ Last \in Nat /\ Last > 0 /\ place \in Nat /\ Total \in Nat /\ length[Last] \in Nat
      /\ place < Total /\ Last \notin received /\ offered = TRUE
  BY <1>1, <1>2 DEF FrameAssumption, FrameBasics, UnderWay, Begun, Total
<1>4. Last' = Last /\ Total' = Total
  BY <1>2 DEF Total, Last
<1>5. Goes \/ Completes \/ Skips
  BY <1>1, ReceiveMoves
<1>6. Begun' <=> place' < Total
  BY <1>3, <1>4 DEF Begun, Total
<1>7. \A f \in Fitting : Bytes(f)' = Bytes(f)
  BY <1>2 DEF Bytes
<1>8. \A f : Fits(f)' <=> Fits(f)
  BY <1>2 DEF Fits
<1>a. CASE Goes
  <2>1. FrameBasics'
    BY <1>1, <1>2, <1>a DEF FrameBasics, Goes, Last
  <2>2. UnderWay'
    BY <1>1, <1>2, <1>3, <1>4, <1>a DEF UnderWay, Goes
  <2>3. SplitterFollows'
    BY <1>3, <1>4, <1>6, <1>a DEF SplitterFollows, Goes
  <2>4. Fitting' = Fitting
    BY <1>8, <1>a DEF Fitting, Goes
  <2>5. ForwardedAsSent'
    BY <1>1, <1>7, <1>a, <2>4, NothingHandedOn DEF Goes
  <2> QED
    BY <2>1, <2>2, <2>3, <2>5 DEF FrameInv
<1>b. CASE Completes
  <2>0. [sample |-> Bytes(Last), offered |-> offered] \in FrameSample
    <3>1. /\ PrefixBytes + length[Last] \in Nat
          /\ Bytes(Last) = Part(Last, PrefixBytes + length[Last])
      BY <1>3 DEF Bytes, Part, Total
    <3>2. Bytes(Last) \in Seq(AnyByte)
      BY <1>3, <3>1, PartIsSeq
    <3> QED
      BY <1>3, <3>2 DEF FrameSample
  <2>1. FrameBasics'
    <3>1. forwarded' \in Seq(FrameSample)
      BY <1>1, <1>b, <2>0, AppendProperties DEF FrameBasics, Completes
    <3>2. received' \subseteq 1 .. Last'
      BY <1>1, <1>3, <1>4, <1>b DEF FrameBasics, Completes
    <3> QED
      BY <1>1, <1>2, <3>1, <3>2 DEF FrameBasics, Last
  <2>2. ~Begun' /\ place' = Total'
    BY <1>3, <1>4, <1>6, <1>b DEF Completes
  <2>3. UnderWay'
    BY <1>1, <1>2, <1>3, <1>4, <2>2 DEF UnderWay
  <2>4. SplitterFollows'
    BY <1>b, <2>2 DEF SplitterFollows, Completes
  <2>5. ForwardedAsSent'
    BY <1>1, <1>2, <1>b, FrameHandedOn
  <2> QED
    BY <2>1, <2>3, <2>4, <2>5 DEF FrameInv
<1>c. CASE Skips
  <2>1. FrameBasics'
    <3>2. received' \subseteq 1 .. Last'
      BY <1>1, <1>3, <1>4, <1>c DEF FrameBasics, Skips
    <3> QED
      BY <1>1, <1>2, <1>c, <3>2 DEF FrameBasics, Skips, Last
  <2>2. ~Begun' /\ place' = Total'
    BY <1>3, <1>4, <1>6, <1>c DEF Skips
  <2>3. UnderWay'
    BY <1>1, <1>2, <1>3, <1>4, <2>2 DEF UnderWay
  <2>4. SplitterFollows'
    BY <1>c, <2>2 DEF SplitterFollows, Skips
  <2>5. ~Fits(Last)
    BY <1>3, <1>c DEF Skips, Total, Fits, FrameAssumption
  <2>6. Fitting' = Fitting
    BY <1>8, <1>c, <2>5 DEF Fitting, Skips
  <2>7. ForwardedAsSent'
    BY <1>1, <1>7, <1>c, <2>6, NothingHandedOn DEF Skips
  <2> QED
    BY <2>1, <2>3, <2>4, <2>7 DEF FrameInv
<1> QED
  BY <1>5, <1>a, <1>b, <1>c

LEMMA BeginFrameKeeps ==
    ASSUME FrameAssumption, FrameInv, NEW n \in Lengths, BeginFrame(n)
    PROVE  FrameInv'
<1>1. FrameBasics /\ UnderWay /\ SplitterFollows /\ ForwardedAsSent
  BY DEF FrameInv
<1>2. /\ client = "stream" /\ ~Begun /\ Last < MaxFrames /\ length' = Append(length, n)
      /\ place' = 0 /\ client' = client /\ connections' = connections /\ splitter' = splitter
      /\ offered' = offered /\ frameStop' = frameStop /\ forwarded' = forwarded
      /\ received' = received
  BY DEF BeginFrame
<1>3. /\ Last \in Nat /\ length \in Seq(Lengths) /\ n \in Nat /\ PrefixBytes \in Nat \ {0}
      /\ received \subseteq 1 .. Last /\ MaxFrames \in Nat
  BY <1>1 DEF FrameBasics, FrameAssumption
<1>4. /\ length' \in Seq(Lengths) /\ Last' = Last + 1 /\ length'[Last + 1] = n
      /\ \A f \in 1 .. Last : length'[f] = length[f]
  BY <1>2, <1>3, AppendProperties DEF Last
<1>5. Total' = PrefixBytes + n
  BY <1>4 DEF Total
<1>6. Begun' /\ place' < PrefixBytes
  BY <1>2, <1>3, <1>4 DEF Begun
<1>7. FrameBasics'
  <2>1. Last' \in Nat /\ Last' <= MaxFrames /\ received' \subseteq 1 .. Last'
    BY <1>2, <1>3, <1>4
  <2> QED
    BY <1>1, <1>2, <1>4, <2>1 DEF FrameBasics
<1>8. UnderWay'
  <2>1. Last' \notin received' /\ length'[Last'] \in Nat /\ place' <= Total'
    BY <1>2, <1>3, <1>4, <1>5
  <2> QED
    BY <1>1, <1>2, <2>1 DEF UnderWay
<1>9. SplitterFollows'
  <2>1. Part(Last', 0) = <<>>
    <3>1. Part(Last', 0) \in Seq(AnyByte) /\ Len(Part(Last', 0)) = 0
      BY <1>3, <1>4, PartIsSeq
    <3> QED
      BY <3>1, EmptySeq
  <2>2. splitter' = Rec("prefix", Part(Last', place'), <<>>, 0, 0)
    BY <1>1, <1>2, <2>1 DEF SplitterFollows
  <2> QED
    BY <1>2, <1>3, <1>6, <2>2 DEF SplitterFollows
<1>10. \A f \in 1 .. Last : Bytes(f)' = Bytes(f) /\ (Fits(f)' <=> Fits(f))
  BY <1>4 DEF Bytes, Fits
<1>11. Fitting' = Fitting
  BY <1>2, <1>3, <1>10 DEF Fitting
<1>12. \A f \in Fitting : Bytes(f)' = Bytes(f)
  BY <1>3, <1>10 DEF Fitting
<1>13. ForwardedAsSent'
  BY <1>1, <1>2, <1>11, <1>12, NothingHandedOn
<1> QED
  BY <1>7, <1>8, <1>9, <1>13 DEF FrameInv

(* A step that leaves the frames alone, but for the end of a stream.       *)
LEMMA OthersKeep ==
    ASSUME FrameAssumption, FrameInv,
           Connect \/ EndStream \/ EndThread \/ StopFrames \/ DestroySkeleton
    PROVE  FrameInv'
<1>1. FrameBasics /\ UnderWay /\ SplitterFollows /\ ForwardedAsSent
  BY DEF FrameInv
<1>2. length' = length /\ forwarded' = forwarded /\ received' = received
  BY DEF Connect, EndStream, EndThread, StopFrames, DestroySkeleton, stream
<1>3. Last' = Last /\ Total' = Total
  BY <1>2 DEF Total, Last
<1>4. FrameBasics'
  <2>1. /\ client' \in {"connect", "stream", "ended"} /\ connections' \in 0 .. MaxConnections
        /\ offered' \in BOOLEAN /\ frameStop' \in BOOLEAN
    <3>1. /\ client \in {"connect", "stream", "ended"} /\ connections \in 0 .. MaxConnections
          /\ offered \in BOOLEAN /\ frameStop \in BOOLEAN
      BY <1>1 DEF FrameBasics
    <3>2. client' \in {"connect", "stream", "ended"}
      BY <3>1 DEF Connect, EndStream, EndThread, StopFrames, DestroySkeleton
    <3>3. connections' \in 0 .. MaxConnections
      BY <3>1 DEF Connect, EndStream, EndThread, StopFrames, DestroySkeleton, stream,
                  FrameAssumption
    <3>4. /\ offered' = offered \/ offered' = FALSE
          /\ frameStop' = frameStop \/ frameStop' = TRUE
      BY Zenon DEF Connect, EndStream, EndThread, StopFrames, DestroySkeleton
    <3>5. offered' \in BOOLEAN /\ frameStop' \in BOOLEAN
      BY <3>1, <3>4
    <3> QED
      BY <3>2, <3>3, <3>5
  <2>2. place' \in Nat
    BY <1>1 DEF FrameBasics, FrameAssumption, Connect, EndStream, EndThread, StopFrames,
                DestroySkeleton, stream, UnderWay, Begun
  <2> QED
    BY <1>1, <1>2, <2>1, <2>2 DEF FrameBasics, Last
<1>5. \A f \in Fitting : Bytes(f)' = Bytes(f)
  BY <1>2 DEF Bytes
<1>6. Fitting' = Fitting
  BY <1>2 DEF Fitting, Fits
<1>7. ForwardedAsSent'
  BY <1>1, <1>2, <1>5, <1>6, NothingHandedOn
<1>8. UnderWay' /\ SplitterFollows'
  <2>1. CASE EndStream
    <3>1. place' = (IF Begun THEN Total ELSE place) /\ splitter' = Rec("prefix", <<>>, <<>>, 0, 0)
      BY <2>1, RecClear DEF EndStream, Reset, Total
    <3>2. Last \in Nat /\ place \in Nat
      BY <1>1 DEF FrameBasics
    <3>3. Last > 0 => length[Last] \in Nat /\ Total \in Nat /\ place <= Total
      BY <1>1 DEF UnderWay, Total, FrameAssumption
    <3>4. ~Begun'
      BY <1>3, <3>1, <3>2, <3>3 DEF Begun, Total
    <3>5. offered' = offered /\ offered
      BY <1>1, <2>1 DEF EndStream, UnderWay
    <3> QED
      BY <1>1, <1>2, <1>3, <3>1, <3>3, <3>4, <3>5 DEF UnderWay, SplitterFollows
  <2>2. CASE Connect \/ EndThread \/ StopFrames \/ DestroySkeleton
    <3>1. place' = place /\ splitter' = splitter
      BY <2>2 DEF Connect, EndThread, StopFrames, DestroySkeleton, stream
    <3>2. Begun' = Begun
      BY <1>2, <3>1 DEF Begun, Last
    <3>3. /\ client = "stream" => client' = "stream"
          /\ client' # "ended" => offered'
      BY <1>1, <2>2 DEF Connect, EndThread, StopFrames, DestroySkeleton, stream, UnderWay, Joined
    <3>4. UnderWay'
      BY <1>1, <1>2, <1>3, <3>1, <3>2, <3>3 DEF UnderWay
    <3>5. SplitterFollows'
      BY <1>1, <1>3, <3>1, <3>2 DEF SplitterFollows
    <3> QED
      BY <3>4, <3>5
  <2> QED
    BY <2>1, <2>2
<1> QED
  BY <1>4, <1>7, <1>8 DEF FrameInv

LEMMA FrameInvStep ==
    ASSUME FrameAssumption, FrameInv, [FrameNext]_frameVars
    PROVE  FrameInv'
<1>1. CASE UNCHANGED frameVars
  <2>1. FrameBasics'
    BY <1>1 DEF frameVars, FrameInv, FrameBasics, Last
  <2>2. UnderWay'
    BY <1>1 DEF frameVars, FrameInv, UnderWay, Begun, Total, Last
  <2>3. SplitterFollows'
    BY <1>1 DEF frameVars, FrameInv, SplitterFollows, Begun, Total, Last
  <2>4. Fitting' = Fitting /\ \A f \in Fitting : Bytes(f)' = Bytes(f)
    BY <1>1 DEF frameVars, Fitting, Fits, Bytes
  <2>5. ForwardedAsSent'
    BY <1>1, <2>4, NothingHandedOn DEF frameVars, FrameInv
  <2> QED
    BY <2>1, <2>2, <2>3, <2>5 DEF FrameInv
<1>2. CASE FrameNext
  BY <1>2, ReceiveKeeps, BeginFrameKeeps, OthersKeep DEF FrameNext
<1> QED
  BY <1>1, <1>2

LEMMA FrameInvImplies ==
    ASSUME FrameAssumption, FrameInv
    PROVE  FrameTypeOK /\ ForwardedAsSent
<1>1. FrameBasics /\ UnderWay /\ SplitterFollows /\ ForwardedAsSent
  BY DEF FrameInv
<1>2. /\ Last \in Nat /\ Last <= MaxFrames /\ MaxFrames \in Nat /\ place \in Nat
      /\ PrefixBytes \in Nat /\ SampleBytes \in Nat
  BY <1>1 DEF FrameBasics, FrameAssumption
<1>3. Begun => Last \in 1 .. MaxFrames /\ place < Total /\ Total \in Nat
  BY <1>1, <1>2 DEF Begun, UnderWay, Total
<1>4. Begun => Part(Last, place) \in Seq(ByteSet)
  <2>1. SUFFICES ASSUME Begun
                 PROVE  Part(Last, place) \in Seq(ByteSet)
    OBVIOUS
  <2>2. Part(Last, place) \in [1 .. place -> ByteSet]
    BY <1>2, <1>3, <2>1 DEF Part, ByteSet
  <2> QED
    BY <1>2, <2>2
<1>5. <<>> \in Seq(ByteSet)
  OBVIOUS
<1>6. PICK s \in {"prefix", "frame", "skip"}, p \in Seq(ByteSet), m \in Seq(ByteSet),
           e \in Nat, k \in Nat : splitter = Rec(s, p, m, e, k)
  <2>1. CASE ~Begun
    BY <1>1, <1>5, <2>1 DEF SplitterFollows
  <2>2. CASE Begun /\ place < PrefixBytes
    BY <1>1, <1>4, <1>5, <2>2 DEF SplitterFollows
  <2>3. CASE Begun /\ place >= PrefixBytes /\ Total > SampleBytes
    <3>1. Total - place \in Nat
      BY <1>2, <1>3, <2>3
    <3> QED
      BY <1>1, <1>5, <2>3, <3>1 DEF SplitterFollows
  <2>4. CASE Begun /\ place >= PrefixBytes /\ Total <= SampleBytes
    BY <1>1, <1>3, <1>4, <1>5, <2>4 DEF SplitterFollows
  <2> QED
    BY <1>2, <1>3, <2>1, <2>2, <2>3, <2>4
<1>7. /\ splitter.state \in {"prefix", "frame", "skip"}
      /\ splitter.prefix \in Seq(ByteSet) /\ splitter.sample \in Seq(ByteSet)
      /\ splitter.expected \in Nat /\ splitter.skip \in Nat
  BY <1>6, RecFields
<1>8. received \subseteq 1 .. MaxFrames
  BY <1>1, <1>2 DEF FrameBasics
<1> QED
  BY <1>1, <1>7, <1>8 DEF FrameTypeOK, FrameBasics

LEMMA FrameInvHolds == FrameSpec => []FrameInv
<1>1. FrameInit => FrameInv
  BY FrameAssumption, FrameInvInit
<1>2. FrameInv /\ [FrameNext]_frameVars => FrameInv'
  BY FrameAssumption, FrameInvStep
<1> QED
  BY <1>1, <1>2, PTL DEF FrameSpec

(* The splitter's state is that of a frame of this stream, and no buffer is *)
(* longer than what it is for.                                             *)
THEOREM FrameTypeCorrect == FrameSpec => []FrameTypeOK
<1>1. FrameInv => FrameTypeOK
  BY FrameAssumption, FrameInvImplies
<1> QED
  BY <1>1, FrameInvHolds, PTL

(* Every sample handed on is one frame, whole and in order, of one stream, *)
(* and every frame that fits is handed on once, for any length of the      *)
(* prefix, of the samples and of the frames, and any division into reads.  *)
THEOREM ForwardedAsSentCorrect == FrameSpec => []ForwardedAsSent
<1>1. FrameInv => ForwardedAsSent
  BY FrameAssumption, FrameInvImplies
<1> QED
  BY <1>1, FrameInvHolds, PTL
=============================================================================
