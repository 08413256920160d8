-------------------------- MODULE RelayCoreProofs --------------------------
(***************************************************************************)
(* Proofs about RelayCore for every value of its constants.                *)
(***************************************************************************)
EXTENDS RelayCore, SequenceTheorems, TLAPS

-----------------------------------------------------------------------------
(* Types.                                                                  *)

\* The verdict on a slot is a drop reason, and only a frame is delivered.
LEMMA VerdictType ==
  ASSUME NEW slot \in Slots
  PROVE  /\ Verdict(slot) \in DropReasons \cup {"deliver"}
         /\ Verdict(slot) = "deliver" => slot \in Frames /\ in_phase
BY CoreAssumption DEF Verdict, Admit, DropReasons, Slots

\* The copy memory stays a sequence of frames.
LEMMA RememberType ==
  ASSUME served \in Seq(Frames), NEW f \in Frames
  PROVE  Remember(f) \in Seq(Frames)
<1>1. CASE Len(served) < CopyMemoryFrames
  BY <1>1 DEF Remember
<1>2. CASE ~(Len(served) < CopyMemoryFrames)
  <2>1. served # <<>>
    BY <1>2, CoreAssumption
  <2>2. Tail(served) \in Seq(Frames)
    BY <2>1
  <2>3. QED
    BY <1>2, <2>2 DEF Remember
<1>3. QED
  BY <1>1, <1>2

\* A drop counts the slot and its reason.
LEMMA DropType ==
  ASSUME drops \in [DropReasons -> Nat], NEW reason \in DropReasons, Drop(reason)
  PROVE  drops' \in [DropReasons -> Nat]
BY DEF Drop

\* Every step keeps the flags Boolean.
LEMMA StepFlags == FlagTypes /\ [Next]_coreVars => FlagTypes'
<1> SUFFICES ASSUME FlagTypes, [Next]_coreVars
             PROVE  FlagTypes'
  OBVIOUS
<1> USE DEF FlagTypes, subVars, clientVars, phaseVars, triggerVars, frameVars,
            UpdatePhase, StartPhase, EndPhase, LoseClient
<1>1. CASE OnListening
  BY <1>1 DEF OnListening
<1>2. ASSUME NEW at \in Times, OnClientAccepted(at)
      PROVE  FlagTypes'
  BY <1>2 DEF OnClientAccepted
<1>3. CASE OnClientRefused
  BY <1>3 DEF OnClientRefused
<1>4. CASE OnClientDisconnected
  BY <1>4 DEF OnClientDisconnected
<1>5. ASSUME NEW elapsed \in BOOLEAN, OnTick(elapsed)
      PROVE  FlagTypes'
  BY <1>5 DEF OnTick
<1>6. CASE Stop
  BY <1>6 DEF Stop
<1>7. ASSUME NEW n \in 1 .. MaxSubscriptions, NEW at \in Times, OnSubscribed(n, at)
      PROVE  FlagTypes'
  BY <1>7 DEF OnSubscribed
<1>8. ASSUME NEW n \in 1 .. MaxSubscriptions, NEW end \in SubscriptionEnds,
             OnSubscriptionEnded(n, end)
      PROVE  FlagTypes'
  BY <1>8 DEF OnSubscriptionEnded
<1>9. CASE OnClientLost
  BY <1>9 DEF OnClientLost
<1>10. ASSUME NEW slot \in Slots, DropSlot(slot)
       PROVE  FlagTypes'
  BY <1>10 DEF DropSlot
<1>11. ASSUME NEW slot \in Slots, ServeSlot(slot)
       PROVE  FlagTypes'
  BY <1>11 DEF ServeSlot
<1>12. ASSUME NEW slot \in Slots, WriteFailed(slot)
       PROVE  FlagTypes'
  BY <1>12 DEF WriteFailed, RearmIngressTrigger
<1>13. ASSUME NEW slot \in Slots, WriteStopped(slot)
       PROVE  FlagTypes'
  BY <1>13 DEF WriteStopped
<1>14. CASE UNCHANGED coreVars
  BY <1>14 DEF coreVars
<1>15. QED
  BY <1>1, <1>2, <1>3, <1>4, <1>5, <1>6, <1>7, <1>8, <1>9, <1>10, <1>11, <1>12,
     <1>13, <1>14
     DEF Next, SocketEvent, WorkerEvent, OnMessage

\* Every step keeps the numbers natural.
LEMMA StepNumbers == NumberTypes /\ [Next]_coreVars => NumberTypes'
<1> SUFFICES ASSUME NumberTypes, [Next]_coreVars
             PROVE  NumberTypes'
  OBVIOUS
<1> USE CoreAssumption
        DEF NumberTypes, subVars, clientVars, phaseVars, phaseCounts, triggerVars,
            frameVars, UpdatePhase, StartPhase, EndPhase, LaterOf, LoseClient, Drop
<1>1. CASE OnListening
  BY <1>1 DEF OnListening
<1>2. ASSUME NEW at \in Times, OnClientAccepted(at)
      PROVE  NumberTypes'
  BY <1>2 DEF OnClientAccepted
<1>3. CASE OnClientRefused
  BY <1>3 DEF OnClientRefused
<1>4. CASE OnClientDisconnected
  BY <1>4 DEF OnClientDisconnected
<1>5. ASSUME NEW elapsed \in BOOLEAN, OnTick(elapsed)
      PROVE  NumberTypes'
  BY <1>5 DEF OnTick, RetriggersLeft
<1>6. CASE Stop
  BY <1>6 DEF Stop
<1>7. ASSUME NEW n \in 1 .. MaxSubscriptions, NEW at \in Times, OnSubscribed(n, at)
      PROVE  NumberTypes'
  BY <1>7 DEF OnSubscribed
<1>8. ASSUME NEW n \in 1 .. MaxSubscriptions, NEW end \in SubscriptionEnds,
             OnSubscriptionEnded(n, end)
      PROVE  NumberTypes'
  BY <1>8 DEF OnSubscriptionEnded
<1>9. CASE OnClientLost
  BY <1>9 DEF OnClientLost
<1>10. ASSUME NEW slot \in Slots, DropSlot(slot)
       PROVE  NumberTypes'
  BY <1>10 DEF DropSlot
<1>11. ASSUME NEW slot \in Slots, ServeSlot(slot)
       PROVE  NumberTypes'
  BY <1>11 DEF ServeSlot
<1>12. ASSUME NEW slot \in Slots, WriteFailed(slot)
       PROVE  NumberTypes'
  BY <1>12 DEF WriteFailed, RearmIngressTrigger
<1>13. ASSUME NEW slot \in Slots, WriteStopped(slot)
       PROVE  NumberTypes'
  BY <1>13 DEF WriteStopped
<1>14. CASE UNCHANGED coreVars
  BY <1>14 DEF coreVars
<1>15. QED
  BY <1>1, <1>2, <1>3, <1>4, <1>5, <1>6, <1>7, <1>8, <1>9, <1>10, <1>11, <1>12,
     <1>13, <1>14
     DEF Next, SocketEvent, WorkerEvent, OnMessage

\* Every step keeps the copy memory and the history sequences of frames.
LEMMA StepFrames == FrameTypes /\ [Next]_coreVars => FrameTypes'
<1> SUFFICES ASSUME FrameTypes, [Next]_coreVars
             PROVE  FrameTypes'
  OBVIOUS
<1> USE DEF FrameTypes, subVars, clientVars, phaseVars, triggerVars, frameVars
<1>a. <<>> \in Seq(Frames)
  OBVIOUS
<1>b. ASSUME NEW b, UpdatePhase(b)
      PROVE  served' \in Seq(Frames) /\ phase_log' \in Seq(Frames)
  BY <1>a, <1>b DEF UpdatePhase, StartPhase, EndPhase
<1>1. CASE OnListening
  BY <1>1 DEF OnListening
<1>2. ASSUME NEW at \in Times, OnClientAccepted(at)
      PROVE  FrameTypes'
  BY <1>2, <1>b DEF OnClientAccepted
<1>3. CASE OnClientRefused
  BY <1>3 DEF OnClientRefused
<1>4. CASE OnClientDisconnected
  BY <1>4, <1>b DEF OnClientDisconnected, LoseClient
<1>5. ASSUME NEW elapsed \in BOOLEAN, OnTick(elapsed)
      PROVE  FrameTypes'
  BY <1>5 DEF OnTick
<1>6. CASE Stop
  BY <1>6, <1>b DEF Stop
<1>7. ASSUME NEW n \in 1 .. MaxSubscriptions, NEW at \in Times, OnSubscribed(n, at)
      PROVE  FrameTypes'
  BY <1>7, <1>b DEF OnSubscribed
<1>8. ASSUME NEW n \in 1 .. MaxSubscriptions, NEW end \in SubscriptionEnds,
             OnSubscriptionEnded(n, end)
      PROVE  FrameTypes'
  BY <1>8, <1>b DEF OnSubscriptionEnded
<1>9. CASE OnClientLost
  BY <1>9, <1>b DEF OnClientLost
<1>10. ASSUME NEW slot \in Slots, DropSlot(slot)
       PROVE  FrameTypes'
  BY <1>10, VerdictType, DropType DEF DropSlot
<1>11. ASSUME NEW slot \in Slots, ServeSlot(slot)
       PROVE  FrameTypes'
  <2>1. slot \in Frames
    BY <1>11, VerdictType DEF ServeSlot
  <2>2. QED
    BY <1>11, <2>1, RememberType DEF ServeSlot
<1>12. ASSUME NEW slot \in Slots, WriteFailed(slot)
       PROVE  FrameTypes'
  BY <1>12, <1>b, DropType DEF WriteFailed, LoseClient, DropReasons
<1>13. ASSUME NEW slot \in Slots, WriteStopped(slot)
       PROVE  FrameTypes'
  BY <1>13, <1>b, DropType DEF WriteStopped, LoseClient, DropReasons
<1>14. CASE UNCHANGED coreVars
  BY <1>14 DEF coreVars
<1>15. QED
  BY <1>1, <1>2, <1>3, <1>4, <1>5, <1>6, <1>7, <1>8, <1>9, <1>10, <1>11, <1>12,
     <1>13, <1>14
     DEF Next, SocketEvent, WorkerEvent, OnMessage

\* The initial state is well typed.
LEMMA InitType == Init => TypeOK
<1>1. Init => FlagTypes
  BY DEF Init, FlagTypes
<1>2. Init => NumberTypes
  BY CoreAssumption DEF Init, NumberTypes
<1>3. Init => FrameTypes
  BY DEF Init, FrameTypes
<1>4. QED
  BY <1>1, <1>2, <1>3 DEF TypeOK

\* Every reachable state of the core is well typed, for every order of worker
\* events, clock readings and write outcomes.
THEOREM TypeCorrect == Spec => []TypeOK
<1>1. TypeOK /\ [Next]_coreVars => TypeOK'
  BY StepFlags, StepNumbers, StepFrames DEF TypeOK
<1>2. QED
  BY InitType, <1>1, PTL DEF Spec

-----------------------------------------------------------------------------
(* The phase.                                                              *)

\* A step updates the phase, serves a frame, or leaves the phase and its two
\* conditions alone.
LEMMA PhaseSteps ==
  ASSUME [Next]_coreVars
  PROVE  \/ \E b : UpdatePhase(b)
         \/ \E slot \in Slots : ServeSlot(slot)
         \/ UNCHANGED <<subVars, client_connected, client_since, phaseVars>>
<1> USE DEF clientVars
<1>1. CASE OnListening
  BY <1>1 DEF OnListening
<1>2. ASSUME NEW at \in Times, OnClientAccepted(at)
      PROVE  UpdatePhase(FALSE)
  BY <1>2 DEF OnClientAccepted
<1>3. CASE OnClientRefused
  BY <1>3 DEF OnClientRefused
<1>4. CASE OnClientDisconnected
  BY <1>4 DEF OnClientDisconnected, LoseClient
<1>5. ASSUME NEW elapsed \in BOOLEAN, OnTick(elapsed)
      PROVE  UNCHANGED <<subVars, client_connected, client_since, phaseVars>>
  BY <1>5 DEF OnTick
<1>6. CASE Stop
  BY <1>6 DEF Stop
<1>7. ASSUME NEW n \in 1 .. MaxSubscriptions, NEW at \in Times, OnSubscribed(n, at)
      PROVE  UpdatePhase(FALSE)
  BY <1>7 DEF OnSubscribed
<1>8. ASSUME NEW n \in 1 .. MaxSubscriptions, NEW end \in SubscriptionEnds,
             OnSubscriptionEnded(n, end)
      PROVE  \/ \E b : UpdatePhase(b)
             \/ UNCHANGED <<subVars, client_connected, client_since, phaseVars>>
  BY <1>8 DEF OnSubscriptionEnded
<1>9. CASE OnClientLost
  BY <1>9 DEF OnClientLost
<1>10. ASSUME NEW slot \in Slots, DropSlot(slot)
       PROVE  UNCHANGED <<subVars, client_connected, client_since, phaseVars>>
  BY <1>10 DEF DropSlot
<1>11. ASSUME NEW slot \in Slots, WriteFailed(slot)
       PROVE  UpdatePhase(FALSE)
  BY <1>11 DEF WriteFailed, LoseClient
<1>12. ASSUME NEW slot \in Slots, WriteStopped(slot)
       PROVE  UpdatePhase(FALSE)
  BY <1>12 DEF WriteStopped, LoseClient
<1>13. CASE UNCHANGED coreVars
  BY <1>13 DEF coreVars
<1>14. QED
  BY <1>1, <1>2, <1>3, <1>4, <1>5, <1>6, <1>7, <1>8, <1>9, <1>10, <1>11, <1>12,
     <1>13
     DEF Next, SocketEvent, WorkerEvent, OnMessage

\* Every step leaves the phase in agreement with its two conditions.
LEMMA PhaseStep ==
  TypeOK /\ TypeOK' /\ PhaseHoldsBothConditions /\ [Next]_coreVars
    => PhaseHoldsBothConditions'
<1> SUFFICES ASSUME TypeOK, TypeOK', PhaseHoldsBothConditions, [Next]_coreVars
             PROVE  PhaseHoldsBothConditions'
  OBVIOUS
<1> USE DEF TypeOK, FlagTypes, PhaseHoldsBothConditions, PhaseHolds
<1>1. ASSUME NEW b, UpdatePhase(b)
      PROVE  PhaseHoldsBothConditions'
  BY <1>1 DEF UpdatePhase, StartPhase, EndPhase, phaseVars
<1>2. ASSUME NEW slot \in Slots, ServeSlot(slot)
      PROVE  PhaseHoldsBothConditions'
  BY <1>2 DEF ServeSlot, subVars, clientVars
<1>3. CASE UNCHANGED <<subVars, client_connected, client_since, phaseVars>>
  BY <1>3 DEF subVars, phaseVars
<1>4. QED
  BY <1>1, <1>2, <1>3, PhaseSteps

\* The subscription phase holds exactly while the relay holds a subscription and
\* the ingress is its client.
THEOREM PhaseCorrect == Spec => []PhaseHoldsBothConditions
<1>1. Init => PhaseHoldsBothConditions
  BY DEF Init, PhaseHoldsBothConditions, PhaseHolds
<1>2. QED
  BY TypeCorrect, <1>1, PhaseStep, PTL DEF Spec

-----------------------------------------------------------------------------
(* The counters.                                                           *)

\* A drop adds one to the sum of the drops, whatever its reason.
LEMMA DropAddsOne ==
  ASSUME drops \in [DropReasons -> Nat], NEW reason \in DropReasons, Drop(reason)
  PROVE  FramesDropped' = FramesDropped + 1
<1>1. /\ drops["malformed"] \in Nat /\ drops["not_subscribed"] \in Nat
      /\ drops["no_client"] \in Nat /\ drops["field_not_positive"] \in Nat
      /\ drops["older_than_phase"] \in Nat /\ drops["copy_in_phase"] \in Nat
      /\ drops["client_write_failed"] \in Nat /\ drops["relay_stop"] \in Nat
  BY DEF DropReasons
<1>2. drops' = [drops EXCEPT ![reason] = drops[reason] + 1]
  BY DEF Drop
<1>3. \A r \in DropReasons : drops'[r] = IF r = reason THEN drops[r] + 1 ELSE drops[r]
  BY <1>2
<1>4. QED
  BY <1>1, <1>3 DEF FramesDropped, DropReasons

\* A step that handles a slot counts the slot and one outcome; no other step
\* touches the three counters.
LEMMA OutcomeSteps ==
  ASSUME [Next]_coreVars
  PROVE  \/ \E reason \in DropReasons : Drop(reason)
         \/ \E slot \in Slots : ServeSlot(slot)
         \/ UNCHANGED frameVars
<1>1. CASE OnListening
  BY <1>1 DEF OnListening
<1>2. ASSUME NEW at \in Times, OnClientAccepted(at)
      PROVE  UNCHANGED frameVars
  BY <1>2 DEF OnClientAccepted
<1>3. CASE OnClientRefused
  BY <1>3 DEF OnClientRefused
<1>4. CASE OnClientDisconnected
  BY <1>4 DEF OnClientDisconnected
<1>5. ASSUME NEW elapsed \in BOOLEAN, OnTick(elapsed)
      PROVE  UNCHANGED frameVars
  BY <1>5 DEF OnTick
<1>6. CASE Stop
  BY <1>6 DEF Stop
<1>7. ASSUME NEW n \in 1 .. MaxSubscriptions, NEW at \in Times, OnSubscribed(n, at)
      PROVE  UNCHANGED frameVars
  BY <1>7 DEF OnSubscribed
<1>8. ASSUME NEW n \in 1 .. MaxSubscriptions, NEW end \in SubscriptionEnds,
             OnSubscriptionEnded(n, end)
      PROVE  UNCHANGED frameVars
  BY <1>8 DEF OnSubscriptionEnded
<1>9. CASE OnClientLost
  BY <1>9 DEF OnClientLost
<1>10. ASSUME NEW slot \in Slots, DropSlot(slot)
       PROVE  \E reason \in DropReasons : Drop(reason)
  BY <1>10, VerdictType DEF DropSlot
<1>11. ASSUME NEW slot \in Slots, WriteFailed(slot)
       PROVE  Drop("client_write_failed")
  BY <1>11 DEF WriteFailed
<1>12. ASSUME NEW slot \in Slots, WriteStopped(slot)
       PROVE  Drop("relay_stop")
  BY <1>12 DEF WriteStopped
<1>13. CASE UNCHANGED coreVars
  BY <1>13 DEF coreVars
<1>14. "client_write_failed" \in DropReasons /\ "relay_stop" \in DropReasons
  BY DEF DropReasons
<1>15. QED
  BY <1>1, <1>2, <1>3, <1>4, <1>5, <1>6, <1>7, <1>8, <1>9, <1>10, <1>11, <1>12,
     <1>13, <1>14
     DEF Next, SocketEvent, WorkerEvent, OnMessage

\* Every step keeps the slots read equal to the outcomes.
LEMMA OutcomeStep ==
  TypeOK /\ EverySlotOneOutcome /\ [Next]_coreVars => EverySlotOneOutcome'
<1> SUFFICES ASSUME TypeOK, EverySlotOneOutcome, [Next]_coreVars
             PROVE  EverySlotOneOutcome'
  OBVIOUS
<1>1. /\ messages_read \in Nat /\ frames_delivered \in Nat
      /\ drops \in [DropReasons -> Nat]
  BY DEF TypeOK, NumberTypes, FrameTypes
<1>2. FramesDropped \in Nat
  BY <1>1 DEF FramesDropped, DropReasons
<1>3. ASSUME NEW reason \in DropReasons, Drop(reason)
      PROVE  EverySlotOneOutcome'
  <2>1. FramesDropped' = FramesDropped + 1
    BY <1>1, <1>3, DropAddsOne
  <2>2. messages_read' = messages_read + 1 /\ frames_delivered' = frames_delivered
    BY <1>3 DEF Drop
  <2>3. QED
    BY <1>1, <1>2, <2>1, <2>2 DEF EverySlotOneOutcome
<1>4. ASSUME NEW slot \in Slots, ServeSlot(slot)
      PROVE  EverySlotOneOutcome'
  <2>1. FramesDropped' = FramesDropped
    BY <1>4 DEF ServeSlot, FramesDropped
  <2>2. /\ messages_read' = messages_read + 1
        /\ frames_delivered' = frames_delivered + 1
    BY <1>4 DEF ServeSlot
  <2>3. QED
    BY <1>1, <1>2, <2>1, <2>2 DEF EverySlotOneOutcome
<1>5. CASE UNCHANGED frameVars
  BY <1>5 DEF frameVars, EverySlotOneOutcome, FramesDropped
<1>6. QED
  BY <1>3, <1>4, <1>5, OutcomeSteps

\* Every slot the relay reads is delivered once or dropped with one reason.
THEOREM OutcomesCorrect == Spec => []EverySlotOneOutcome
<1>1. Init => EverySlotOneOutcome
  BY DEF Init, EverySlotOneOutcome, FramesDropped, DropReasons
<1>2. QED
  BY TypeCorrect, <1>1, OutcomeStep, PTL DEF Spec

\* An update of the phase keeps the starts and the ends of phases in step.
LEMMA UpdateCounts ==
  ASSUME TypeOK, NEW b \in BOOLEAN, UpdatePhase(b), PhaseHolds' \in BOOLEAN,
         phases_started = phases_ended + IF in_phase THEN 1 ELSE 0,
         phases_ended_by_layer <= phases_ended
  PROVE  /\ phases_started' = phases_ended' + IF in_phase' THEN 1 ELSE 0
         /\ phases_ended_by_layer' <= phases_ended'
<1> USE DEF TypeOK, FlagTypes, NumberTypes
<1>1. CASE ~in_phase /\ StartPhase
  BY <1>1 DEF StartPhase
<1>2. CASE in_phase /\ EndPhase(b)
  BY <1>2 DEF EndPhase
<1>3. CASE UNCHANGED phaseVars
  BY <1>3 DEF phaseVars, phaseCounts
<1>4. QED
  BY <1>1, <1>2, <1>3 DEF UpdatePhase

\* Accepted and lost clients stay in step with the connection.
LEMMA ClientCounts ==
  ASSUME TypeOK, PhaseHoldsBothConditions, [Next]_coreVars,
         clients_accepted = clients_lost + IF client_connected THEN 1 ELSE 0
  PROVE  clients_accepted' = clients_lost' + IF client_connected' THEN 1 ELSE 0
<1> USE DEF TypeOK, FlagTypes, NumberTypes, clientVars
<1>a. ASSUME LoseClient, client_connected
      PROVE  clients_accepted' = clients_lost' + IF client_connected' THEN 1 ELSE 0
  BY <1>a DEF LoseClient
<1>b. ASSUME NEW slot \in Slots, Verdict(slot) = "deliver"
      PROVE  client_connected
  BY <1>b, VerdictType DEF PhaseHoldsBothConditions, PhaseHolds
<1>1. CASE OnListening
  BY <1>1 DEF OnListening
<1>2. ASSUME NEW at \in Times, OnClientAccepted(at)
      PROVE  clients_accepted' = clients_lost' + IF client_connected' THEN 1 ELSE 0
  BY <1>2 DEF OnClientAccepted
<1>3. CASE OnClientRefused
  BY <1>3 DEF OnClientRefused
<1>4. CASE OnClientDisconnected
  BY <1>4, <1>a DEF OnClientDisconnected
<1>5. ASSUME NEW elapsed \in BOOLEAN, OnTick(elapsed)
      PROVE  UNCHANGED clientVars
  BY <1>5 DEF OnTick
<1>6. ASSUME Stop
      PROVE  UNCHANGED clientVars
  BY <1>6 DEF Stop
<1>7. ASSUME NEW n \in 1 .. MaxSubscriptions, NEW at \in Times, OnSubscribed(n, at)
      PROVE  UNCHANGED clientVars
  BY <1>7 DEF OnSubscribed
<1>8. ASSUME NEW n \in 1 .. MaxSubscriptions, NEW end \in SubscriptionEnds,
             OnSubscriptionEnded(n, end)
      PROVE  UNCHANGED clientVars
  BY <1>8 DEF OnSubscriptionEnded
<1>9. CASE OnClientLost
  BY <1>9 DEF OnClientLost
<1>10. ASSUME NEW slot \in Slots, DropSlot(slot)
       PROVE  UNCHANGED clientVars
  BY <1>10 DEF DropSlot
<1>11. ASSUME NEW slot \in Slots, ServeSlot(slot)
       PROVE  UNCHANGED clientVars
  BY <1>11 DEF ServeSlot
<1>12. ASSUME NEW slot \in Slots, WriteFailed(slot)
       PROVE  clients_accepted' = clients_lost' + IF client_connected' THEN 1 ELSE 0
  BY <1>12, <1>a, <1>b DEF WriteFailed
<1>13. ASSUME NEW slot \in Slots, WriteStopped(slot)
       PROVE  clients_accepted' = clients_lost' + IF client_connected' THEN 1 ELSE 0
  BY <1>13, <1>a, <1>b DEF WriteStopped
<1>14. CASE UNCHANGED coreVars
  BY <1>14 DEF coreVars
<1>15. QED
  BY <1>1, <1>2, <1>3, <1>4, <1>5, <1>6, <1>7, <1>8, <1>9, <1>10, <1>11, <1>12,
     <1>13, <1>14
     DEF Next, SocketEvent, WorkerEvent, OnMessage

\* Every step keeps both pairs of counters in step.
LEMMA CountersStep ==
  TypeOK /\ TypeOK' /\ PhaseHoldsBothConditions /\ CountersMatchState /\ [Next]_coreVars
    => CountersMatchState'
<1> SUFFICES ASSUME TypeOK, TypeOK', PhaseHoldsBothConditions, CountersMatchState,
                    [Next]_coreVars
             PROVE  CountersMatchState'
  OBVIOUS
<1>1. clients_accepted' = clients_lost' + IF client_connected' THEN 1 ELSE 0
  BY ClientCounts DEF CountersMatchState
<1>2. ASSUME NEW b, UpdatePhase(b)
      PROVE  /\ phases_started' = phases_ended' + IF in_phase' THEN 1 ELSE 0
             /\ phases_ended_by_layer' <= phases_ended'
  <2>1. PhaseHolds' \in BOOLEAN
    BY DEF TypeOK, FlagTypes, PhaseHolds
  <2>2. PICK c \in BOOLEAN : UpdatePhase(c)
    BY <1>2 DEF UpdatePhase, EndPhase
  <2>3. QED
    BY <2>1, <2>2, UpdateCounts DEF CountersMatchState
<1>3. CASE UNCHANGED <<in_phase, phaseCounts>>
  BY <1>1, <1>3 DEF CountersMatchState, phaseCounts
<1>4. CASE \E slot \in Slots : ServeSlot(slot)
  BY <1>3, <1>4 DEF ServeSlot
<1>5. CASE UNCHANGED <<subVars, client_connected, client_since, phaseVars>>
  BY <1>3, <1>5 DEF phaseVars
<1>6. QED
  BY <1>1, <1>2, <1>4, <1>5, PhaseSteps DEF CountersMatchState

\* Each phase start has one end and each accepted client one loss.
THEOREM CountersCorrect == Spec => []CountersMatchState
<1>1. Init => CountersMatchState
  BY DEF Init, CountersMatchState
<1>2. QED
  BY TypeCorrect, PhaseCorrect, <1>1, CountersStep, PTL DEF Spec

-----------------------------------------------------------------------------
(* The ingress trigger.                                                    *)

\* While a repeat is left, the trigger has not used up what the budget grants
\* for it.
BudgetInv ==
  /\ listening => ingress_triggers > 0
  /\ ingress_triggers = 0 => ingress_retriggers = 0
  /\ ingress_triggers > 0 =>
       ingress_triggers + RetriggerLimit
         <= ingress_retriggers + (1 + RetriggerLimit) * (1 + drops["client_write_failed"])

\* The one nonlinear fact: a failure more adds one trigger and its repeats.
LEMMA OneMoreFailure ==
  ASSUME NEW limit \in Nat, NEW failed \in Nat
  PROVE  (1 + limit) * (1 + (failed + 1)) = (1 + limit) * (1 + failed) + (1 + limit)
OBVIOUS

\* A failed write grants one more trigger with its repeats.
LEMMA FailureBudget ==
  ASSUME TypeOK, BudgetInv, Drop("client_write_failed"), RearmIngressTrigger,
         ingress_triggers > 0
  PROVE  BudgetInv'
<1> DEFINE failed == drops["client_write_failed"]
<1>1. failed \in Nat /\ failed' = failed + 1
  BY DEF TypeOK, FrameTypes, Drop, DropReasons
<1>2. RetriggerLimit \in Nat
  BY CoreAssumption
<1>3. (1 + RetriggerLimit) * (1 + failed')
        = (1 + RetriggerLimit) * (1 + failed) + (1 + RetriggerLimit)
  BY <1>1, <1>2, OneMoreFailure
<1>4. (1 + RetriggerLimit) * (1 + failed) \in Nat
  BY <1>1, <1>2
<1> HIDE DEF failed
<1>5. ingress_triggers + RetriggerLimit
        <= ingress_retriggers + (1 + RetriggerLimit) * (1 + failed)
  BY DEF BudgetInv, failed
<1>6. /\ ingress_triggers \in Nat /\ ingress_retriggers \in Nat
      /\ ingress_retriggers <= RetriggerLimit
  BY DEF TypeOK, NumberTypes
<1>7. CASE ~listening
  <2>1. UNCHANGED <<listening, ingress_triggers, ingress_retriggers>>
    BY <1>7 DEF RearmIngressTrigger
  <2>2. ingress_triggers' + RetriggerLimit
          <= ingress_retriggers' + (1 + RetriggerLimit) * (1 + failed')
    BY <2>1, <1>2, <1>3, <1>4, <1>5, <1>6
  <2>3. QED
    BY <2>1, <2>2, <1>6 DEF BudgetInv, failed
<1>8. CASE listening
  <2>1. ingress_triggers' = ingress_triggers + 1 /\ ingress_retriggers' = 0
    BY <1>8 DEF RearmIngressTrigger
  <2>2. ingress_triggers' + RetriggerLimit
          <= ingress_retriggers' + (1 + RetriggerLimit) * (1 + failed')
    BY <2>1, <1>2, <1>3, <1>4, <1>5, <1>6
  <2>3. QED
    BY <2>1, <2>2, <1>6 DEF BudgetInv, failed
<1>9. QED
  BY <1>7, <1>8

\* A drop for another reason leaves the count of failed writes alone.
LEMMA DropKeepsOthers ==
  ASSUME TypeOK, NEW reason \in DropReasons \ {"client_write_failed"}, Drop(reason)
  PROVE  drops'["client_write_failed"] = drops["client_write_failed"]
BY DEF TypeOK, FrameTypes, Drop, DropReasons

\* Every step keeps the triggers within the budget invariant.
LEMMA BudgetStep == TypeOK /\ BudgetInv /\ [Next]_coreVars => BudgetInv'
<1> SUFFICES ASSUME TypeOK, BudgetInv, [Next]_coreVars
             PROVE  BudgetInv'
  OBVIOUS
<1> USE DEF triggerVars, frameVars
<1>a. ASSUME UNCHANGED <<ingress_triggers, ingress_retriggers>>,
             drops'["client_write_failed"] = drops["client_write_failed"],
             listening' => listening
      PROVE  BudgetInv'
  BY <1>a DEF BudgetInv
<1>b. drops["client_write_failed"] \in Nat /\ RetriggerLimit \in Nat
  BY CoreAssumption DEF TypeOK, FrameTypes, DropReasons
<1>c. (1 + RetriggerLimit) * (1 + drops["client_write_failed"]) >= 1 + RetriggerLimit
  BY <1>b
<1>1. ASSUME NotYetListening, OnListening
      PROVE  BudgetInv'
  <2>1. ingress_triggers' = 1 /\ ingress_retriggers' = 0 /\ drops' = drops
    BY <1>1 DEF OnListening, NotYetListening, BudgetInv
  <2>2. QED
    BY <2>1, <1>b, <1>c DEF BudgetInv
<1>2. ASSUME NEW at \in Times, OnClientAccepted(at)
      PROVE  BudgetInv'
  BY <1>2, <1>a DEF OnClientAccepted
<1>3. CASE OnClientRefused
  BY <1>3, <1>a DEF OnClientRefused
<1>4. CASE OnClientDisconnected
  BY <1>4, <1>a DEF OnClientDisconnected
<1>5. ASSUME NEW elapsed \in BOOLEAN, OnTick(elapsed), listening
      PROVE  BudgetInv'
  <2>1. /\ ingress_triggers \in Nat /\ ingress_retriggers \in Nat
        /\ ingress_triggers > 0
    BY <1>5 DEF TypeOK, NumberTypes, BudgetInv
  <2>2. drops' = drops /\ listening' = listening
    BY <1>5 DEF OnTick
  <2>3. CASE UNCHANGED <<ingress_triggers, ingress_retriggers>>
    BY <2>2, <2>3, <1>a
  <2>4. CASE /\ ingress_triggers' = ingress_triggers + 1
             /\ ingress_retriggers' = ingress_retriggers + 1
    <3> DEFINE granted == (1 + RetriggerLimit) * (1 + drops["client_write_failed"])
    <3>1. granted \in Nat
      BY <1>b
    <3>2. ingress_triggers + RetriggerLimit <= ingress_retriggers + granted
      BY <2>1 DEF BudgetInv
    <3> HIDE DEF granted
    <3>3. ingress_triggers' + RetriggerLimit <= ingress_retriggers' + granted
      BY <2>1, <2>4, <3>1, <3>2, <1>b
    <3>4. QED
      BY <2>1, <2>2, <2>4, <3>3 DEF BudgetInv, granted
  <2>5. QED
    BY <1>5, <2>3, <2>4 DEF OnTick
<1>6. CASE Stop
  BY <1>6, <1>a DEF Stop
<1>7. ASSUME NEW n \in 1 .. MaxSubscriptions, NEW at \in Times, OnSubscribed(n, at)
      PROVE  BudgetInv'
  BY <1>7, <1>a DEF OnSubscribed
<1>8. ASSUME NEW n \in 1 .. MaxSubscriptions, NEW end \in SubscriptionEnds,
             OnSubscriptionEnded(n, end)
      PROVE  BudgetInv'
  BY <1>8, <1>a DEF OnSubscriptionEnded
<1>9. CASE OnClientLost
  BY <1>9, <1>a DEF OnClientLost
<1>10. ASSUME NEW slot \in Slots, DropSlot(slot)
       PROVE  BudgetInv'
  <2>1. Verdict(slot) \in DropReasons \ {"client_write_failed"}
    BY <1>10, VerdictType DEF DropSlot, Verdict, Admit
  <2>2. QED
    BY <1>10, <2>1, <1>a, DropKeepsOthers DEF DropSlot
<1>11. ASSUME NEW slot \in Slots, ServeSlot(slot)
       PROVE  BudgetInv'
  BY <1>11, <1>a DEF ServeSlot
<1>12. ASSUME NEW slot \in Slots, WriteFailed(slot), ~NotYetListening
       PROVE  BudgetInv'
  <2>1. ingress_triggers > 0
    BY <1>12 DEF NotYetListening, TypeOK, NumberTypes
  <2>2. QED
    BY <1>12, <2>1, FailureBudget DEF WriteFailed
<1>13. ASSUME NEW slot \in Slots, WriteStopped(slot)
       PROVE  BudgetInv'
  <2>1. "relay_stop" \in DropReasons \ {"client_write_failed"}
    BY DEF DropReasons
  <2>2. QED
    BY <1>13, <2>1, <1>a, DropKeepsOthers DEF WriteStopped
<1>14. CASE UNCHANGED coreVars
  BY <1>14, <1>a DEF coreVars
<1>15. QED
  BY <1>1, <1>2, <1>3, <1>4, <1>5, <1>6, <1>7, <1>8, <1>9, <1>10, <1>11, <1>12,
     <1>13, <1>14
     DEF Next, SocketEvent, WorkerEvent, OnMessage

\* The budget invariant, as a result of its own.
LEMMA BudgetCorrect == Spec => []BudgetInv
<1>1. Init => BudgetInv
  BY DEF Init, BudgetInv
<1>2. QED
  BY TypeCorrect, <1>1, BudgetStep, PTL DEF Spec

\* Each start of the relay, and each stream it closed itself, grants one trigger
\* and RetriggerLimit repeats.
THEOREM TriggersBounded == Spec => []TriggerBudget
<1>1. TypeOK /\ BudgetInv => TriggerBudget
  <2> SUFFICES ASSUME TypeOK, BudgetInv
               PROVE  TriggerBudget
    OBVIOUS
  <2> DEFINE granted == (1 + RetriggerLimit) * (1 + drops["client_write_failed"])
  <2>1. /\ ingress_triggers \in Nat /\ ingress_retriggers \in Nat
        /\ ingress_retriggers <= RetriggerLimit /\ RetriggerLimit \in Nat
        /\ drops["client_write_failed"] \in Nat
    BY CoreAssumption DEF TypeOK, NumberTypes, FrameTypes, DropReasons
  <2>2. granted \in Nat
    BY <2>1
  <2>3. ingress_triggers > 0 => ingress_triggers + RetriggerLimit <= ingress_retriggers + granted
    BY DEF BudgetInv
  <2> HIDE DEF granted
  <2>4. ingress_triggers <= granted
    BY <2>1, <2>2, <2>3
  <2>5. QED
    BY <2>4 DEF TriggerBudget, granted
<1>2. QED
  BY TypeCorrect, BudgetCorrect, <1>1, PTL

-----------------------------------------------------------------------------
(* The copy memory.                                                        *)

\* The copy memory is the end of the log of the phase: all of it while the ring
\* has room, its last CopyMemoryFrames frames afterwards.
MemoryIsEndOfLog ==
  /\ ~in_phase => served = <<>> /\ phase_log = <<>>
  /\ Len(served) <= CopyMemoryFrames
  /\ Len(served) <= Len(phase_log)
  /\ Len(served) < CopyMemoryFrames => Len(served) = Len(phase_log)
  /\ \A k \in 1 .. Len(served) :
       served[k] = phase_log[Len(phase_log) - Len(served) + k]

\* A frame that is not in the memory is none of the frames served last.
LEMMA FreshFrame ==
  ASSUME TypeOK, MemoryIsEndOfLog, NEW f, ~InMemory(f)
  PROVE  \A i \in DOMAIN phase_log :
           i + CopyMemoryFrames > Len(phase_log) => phase_log[i] # f
<1> SUFFICES ASSUME NEW i \in DOMAIN phase_log, i + CopyMemoryFrames > Len(phase_log)
             PROVE  phase_log[i] # f
  OBVIOUS
<1>1. /\ phase_log \in Seq(Frames) /\ served \in Seq(Frames)
      /\ CopyMemoryFrames \in Nat
  BY CoreAssumption DEF TypeOK, FrameTypes
<1>2. i \in 1 .. Len(phase_log) /\ Len(phase_log) \in Nat /\ Len(served) \in Nat
  BY <1>1
<1> DEFINE k == i - (Len(phase_log) - Len(served))
<1>3. k \in 1 .. Len(served)
  BY <1>1, <1>2 DEF MemoryIsEndOfLog
<1>4. Len(phase_log) - Len(served) + k = i
  BY <1>2
<1>5. served[k] = phase_log[i]
  BY <1>3, <1>4 DEF MemoryIsEndOfLog
<1>6. k \in DOMAIN served
  BY <1>1, <1>3
<1>7. QED
  BY <1>5, <1>6 DEF InMemory

\* Serving a frame keeps the memory the end of the log.
LEMMA ServeMemory ==
  ASSUME TypeOK, MemoryIsEndOfLog, NEW slot \in Slots, ServeSlot(slot)
  PROVE  MemoryIsEndOfLog'
<1>1. slot \in Frames /\ in_phase
  BY VerdictType DEF ServeSlot
<1>2. /\ phase_log \in Seq(Frames) /\ served \in Seq(Frames)
      /\ CopyMemoryFrames \in Nat \ {0}
  BY CoreAssumption DEF TypeOK, FrameTypes
<1>3. /\ Len(phase_log) \in Nat /\ Len(served) \in Nat
      /\ Len(served) <= CopyMemoryFrames /\ Len(served) <= Len(phase_log)
  BY <1>2 DEF MemoryIsEndOfLog
<1>4. in_phase' = in_phase /\ served' = Remember(slot)
  BY DEF ServeSlot
<1>5. /\ phase_log' = Append(phase_log, slot)
      /\ Len(phase_log') = Len(phase_log) + 1
      /\ \A m \in 1 .. Len(phase_log) : phase_log'[m] = phase_log[m]
      /\ phase_log'[Len(phase_log) + 1] = slot
  BY <1>1, <1>2 DEF ServeSlot
<1>6. CASE Len(served) < CopyMemoryFrames
  <2>1. /\ Len(served') = Len(served) + 1
        /\ \A m \in 1 .. Len(served) : served'[m] = served[m]
        /\ served'[Len(served) + 1] = slot
    BY <1>1, <1>2, <1>4, <1>6 DEF Remember
  <2>2. Len(served) = Len(phase_log)
    BY <1>6 DEF MemoryIsEndOfLog
  <2>3. ASSUME NEW k \in 1 .. Len(served')
        PROVE  served'[k] = phase_log'[Len(phase_log') - Len(served') + k]
    <3>1. Len(phase_log') - Len(served') + k = k
      BY <1>3, <1>5, <2>1, <2>2
    <3>2. CASE k \in 1 .. Len(served)
      <4>1. served[k] = phase_log[Len(phase_log) - Len(served) + k]
        BY <3>2 DEF MemoryIsEndOfLog
      <4>2. Len(phase_log) - Len(served) + k = k
        BY <1>3, <2>2
      <4>3. QED
        BY <1>5, <2>1, <2>2, <3>1, <3>2, <4>1, <4>2
    <3>3. CASE k = Len(served) + 1
      BY <1>5, <2>1, <2>2, <3>1, <3>3
    <3>4. QED
      BY <1>3, <2>1, <3>2, <3>3
  <2>4. QED
    BY <1>1, <1>2, <1>3, <1>4, <1>5, <1>6, <2>1, <2>2, <2>3 DEF MemoryIsEndOfLog
<1>7. CASE ~(Len(served) < CopyMemoryFrames)
  <2>1. Len(served) = CopyMemoryFrames /\ served # <<>>
    BY <1>2, <1>3, <1>7
  <2>2. /\ Tail(served) \in Seq(Frames) /\ Len(Tail(served)) = Len(served) - 1
        /\ \A m \in 1 .. Len(served) - 1 : Tail(served)[m] = served[m + 1]
    BY <1>2, <2>1
  <2>3. /\ Len(served') = Len(served)
        /\ \A m \in 1 .. Len(served) - 1 : served'[m] = served[m + 1]
        /\ served'[Len(served)] = slot
    BY <1>1, <1>2, <1>4, <1>7, <2>2 DEF Remember
  <2>4. ASSUME NEW k \in 1 .. Len(served')
        PROVE  served'[k] = phase_log'[Len(phase_log') - Len(served') + k]
    <3> DEFINE m == Len(phase_log) - Len(served) + (k + 1)
    <3>1. Len(phase_log') - Len(served') + k = m
      BY <1>3, <1>5, <2>3
    <3>2. CASE k \in 1 .. Len(served) - 1
      <4>1. k + 1 \in 1 .. Len(served) /\ m \in 1 .. Len(phase_log)
        BY <1>3, <3>2
      <4>2. served[k + 1] = phase_log[m]
        BY <4>1 DEF MemoryIsEndOfLog
      <4>3. QED
        BY <1>5, <2>3, <3>1, <3>2, <4>1, <4>2
    <3>3. CASE k = Len(served)
      <4>1. m = Len(phase_log) + 1
        BY <1>3, <3>3
      <4>2. QED
        BY <1>5, <2>3, <3>1, <3>3, <4>1
    <3>4. QED
      BY <1>3, <2>3, <3>2, <3>3
  <2>5. /\ Len(served') = CopyMemoryFrames
        /\ Len(served') <= Len(phase_log')
    BY <1>2, <1>3, <1>5, <2>1, <2>3
  <2>6. in_phase'
    BY <1>1, <1>4
  <2>7. QED
    BY <1>2, <2>4, <2>5, <2>6 DEF MemoryIsEndOfLog
<1>8. QED
  BY <1>6, <1>7

\* Every step keeps the copy memory the end of the log.
LEMMA MemoryStep ==
  TypeOK /\ MemoryIsEndOfLog /\ [Next]_coreVars => MemoryIsEndOfLog'
<1> SUFFICES ASSUME TypeOK, MemoryIsEndOfLog, [Next]_coreVars
             PROVE  MemoryIsEndOfLog'
  OBVIOUS
<1>1. ASSUME NEW b, UpdatePhase(b)
      PROVE  MemoryIsEndOfLog'
  <2>1. CASE served' = <<>> /\ phase_log' = <<>>
    BY <2>1, CoreAssumption DEF MemoryIsEndOfLog
  <2>2. CASE UNCHANGED phaseVars
    BY <2>2 DEF phaseVars, MemoryIsEndOfLog
  <2>3. QED
    BY <1>1, <2>1, <2>2 DEF UpdatePhase, StartPhase, EndPhase
<1>2. CASE UNCHANGED <<subVars, client_connected, client_since, phaseVars>>
  BY <1>2 DEF phaseVars, MemoryIsEndOfLog
<1>3. QED
  BY <1>1, <1>2, ServeMemory, PhaseSteps

\* The copy memory is always the end of the log of the phase.
THEOREM MemoryCorrect == Spec => []MemoryIsEndOfLog
<1>1. Init => MemoryIsEndOfLog
  BY CoreAssumption DEF Init, MemoryIsEndOfLog
<1>2. QED
  BY TypeCorrect, <1>1, MemoryStep, PTL DEF Spec

\* Every step keeps two copies of a frame apart in the log.
LEMMA CopyStep ==
  TypeOK /\ MemoryIsEndOfLog /\ NoRecentCopy /\ [Next]_coreVars => NoRecentCopy'
<1> SUFFICES ASSUME TypeOK, MemoryIsEndOfLog, NoRecentCopy, [Next]_coreVars
             PROVE  NoRecentCopy'
  OBVIOUS
<1>1. CASE phase_log' = <<>>
  BY <1>1 DEF NoRecentCopy
<1>2. CASE phase_log' = phase_log
  BY <1>2 DEF NoRecentCopy
<1>3. ASSUME NEW slot \in Slots, ServeSlot(slot)
      PROVE  NoRecentCopy'
  <2>1. slot \in Frames /\ ~InMemory(slot)
    BY <1>3, VerdictType DEF ServeSlot, Verdict, Admit
  <2>2. phase_log \in Seq(Frames) /\ CopyMemoryFrames \in Nat
    BY CoreAssumption DEF TypeOK, FrameTypes
  <2>3. /\ DOMAIN phase_log' = 1 .. Len(phase_log) + 1
        /\ \A m \in 1 .. Len(phase_log) : phase_log'[m] = phase_log[m]
        /\ phase_log'[Len(phase_log) + 1] = slot
    BY <1>3, <2>1, <2>2 DEF ServeSlot
  <2>4. ASSUME NEW i \in DOMAIN phase_log', NEW j \in DOMAIN phase_log',
               i < j, phase_log'[i] = phase_log'[j]
        PROVE  j - i > CopyMemoryFrames
    <3>1. CASE j \in 1 .. Len(phase_log)
      BY <2>2, <2>3, <2>4, <3>1 DEF NoRecentCopy
    <3>2. CASE j = Len(phase_log) + 1
      <4>1. i \in DOMAIN phase_log /\ phase_log[i] = slot
        BY <2>2, <2>3, <2>4, <3>2
      <4>2. ~(i + CopyMemoryFrames > Len(phase_log))
        BY <2>1, <4>1, FreshFrame
      <4>3. QED
        BY <2>2, <3>2, <4>1, <4>2
    <3>3. QED
      BY <2>2, <2>3, <3>1, <3>2
  <2>5. QED
    BY <2>4 DEF NoRecentCopy
<1>4. QED
  BY <1>1, <1>2, <1>3, PhaseSteps
     DEF UpdatePhase, StartPhase, EndPhase, phaseVars

\* Two copies of a frame reach the client in one phase only with at least
\* CopyMemoryFrames other frames between them.
THEOREM CopiesCorrect == Spec => []NoRecentCopy
<1>1. Init => NoRecentCopy
  BY DEF Init, NoRecentCopy
<1>2. QED
  BY TypeCorrect, MemoryCorrect, <1>1, CopyStep, PTL DEF Spec

-----------------------------------------------------------------------------
(* The core implements SubscriptionPhase.                                  *)

\* The times a phase start is taken from are clock readings.
SinceKnown ==
  /\ subscribed => subscribed_since \in Times
  /\ client_connected => client_since \in Times

\* The times since which a condition holds are readings of the clock.
LEMMA SinceStep == FlagTypes /\ SinceKnown /\ [Next]_coreVars => SinceKnown'
<1> SUFFICES ASSUME FlagTypes, SinceKnown, [Next]_coreVars
             PROVE  SinceKnown'
  OBVIOUS
<1> USE DEF FlagTypes, SinceKnown, subVars, clientVars
<1>1. CASE OnListening
  BY <1>1 DEF OnListening
<1>2. ASSUME NEW at \in Times, OnClientAccepted(at)
      PROVE  SinceKnown'
  BY <1>2 DEF OnClientAccepted
<1>3. CASE OnClientRefused
  BY <1>3 DEF OnClientRefused
<1>4. CASE OnClientDisconnected
  BY <1>4 DEF OnClientDisconnected, LoseClient
<1>5. ASSUME NEW elapsed \in BOOLEAN, OnTick(elapsed)
      PROVE  SinceKnown'
  BY <1>5 DEF OnTick
<1>6. ASSUME Stop
      PROVE  SinceKnown'
  <2>1. UNCHANGED clientVars /\ UNCHANGED subscribed_since
    BY <1>6 DEF Stop
  <2>2. subscribed' => subscribed
    BY <1>6 DEF Stop
  <2>3. QED
    BY <2>1, <2>2
<1>7. ASSUME NEW n \in 1 .. MaxSubscriptions, NEW at \in Times, OnSubscribed(n, at)
      PROVE  SinceKnown'
  BY <1>7 DEF OnSubscribed
<1>8. ASSUME NEW n \in 1 .. MaxSubscriptions, NEW end \in SubscriptionEnds,
             OnSubscriptionEnded(n, end)
      PROVE  SinceKnown'
  BY <1>8 DEF OnSubscriptionEnded
<1>9. CASE OnClientLost
  BY <1>9 DEF OnClientLost
<1>10. ASSUME NEW slot \in Slots, DropSlot(slot)
       PROVE  SinceKnown'
  BY <1>10 DEF DropSlot
<1>11. ASSUME NEW slot \in Slots, ServeSlot(slot)
       PROVE  SinceKnown'
  BY <1>11 DEF ServeSlot
<1>12. ASSUME NEW slot \in Slots, WriteFailed(slot)
       PROVE  SinceKnown'
  BY <1>12 DEF WriteFailed, LoseClient
<1>13. ASSUME NEW slot \in Slots, WriteStopped(slot)
       PROVE  SinceKnown'
  BY <1>13 DEF WriteStopped, LoseClient
<1>14. CASE UNCHANGED coreVars
  BY <1>14 DEF coreVars
<1>15. QED
  BY <1>1, <1>2, <1>3, <1>4, <1>5, <1>6, <1>7, <1>8, <1>9, <1>10, <1>11, <1>12,
     <1>13, <1>14
     DEF Next, SocketEvent, WorkerEvent, OnMessage

\* So both conditions of a phase always have a clock reading.
LEMMA SinceCorrect == Spec => []SinceKnown
<1>1. Init => SinceKnown
  BY DEF Init, SinceKnown
<1>2. TypeOK => FlagTypes
  BY DEF TypeOK
<1>3. QED
  BY TypeCorrect, <1>1, <1>2, SinceStep, PTL DEF Spec

\* A step of the core is a step of the abstract phase, or leaves it alone.
LEMMA PhaseRefinementStep ==
  TypeOK /\ SinceKnown' /\ MemoryIsEndOfLog /\ [Next]_coreVars
    => [Phase!Next]_(Phase!pvars)
<1> SUFFICES ASSUME TypeOK, SinceKnown', MemoryIsEndOfLog, [Next]_coreVars
             PROVE  [Phase!Next]_(Phase!pvars)
  OBVIOUS
<1>1. ASSUME NEW b, UpdatePhase(b)
      PROVE  [Phase!Next]_(Phase!pvars)
  <2>1. CASE PhaseHolds' /\ ~in_phase /\ StartPhase
    <3>1. phase_start' \in Times
      BY <2>1 DEF StartPhase, LaterOf, PhaseHolds, SinceKnown
    <3>2. Phase!Begin(phase_start')
      BY <2>1 DEF StartPhase, Phase!Begin
    <3>3. QED
      BY <3>1, <3>2 DEF Phase!Next
  <2>2. CASE in_phase /\ EndPhase(b)
    <3>1. Phase!End
      BY <2>2 DEF EndPhase, Phase!End
    <3>2. QED
      BY <3>1 DEF Phase!Next
  <2>3. CASE UNCHANGED phaseVars
    BY <2>3 DEF phaseVars, Phase!pvars
  <2>4. QED
    BY <1>1, <2>1, <2>2, <2>3 DEF UpdatePhase
<1>2. ASSUME NEW slot \in Slots, ServeSlot(slot)
      PROVE  [Phase!Next]_(Phase!pvars)
  <2>1. slot \in Frames /\ in_phase
    BY <1>2, VerdictType DEF ServeSlot
  <2>2. /\ slot.sequence # 0 /\ slot.ts # 0
        /\ ~(slot.ts + Margin < phase_start)
        /\ ~InMemory(slot)
    BY <1>2, <2>1 DEF ServeSlot, Verdict, Admit
  <2>3. slot.sequence \in Nat /\ slot.ts \in Nat /\ Margin \in Nat /\ phase_start \in Nat
    BY <2>1, CoreAssumption DEF Frames, TypeOK, NumberTypes
  <2>4. Phase!Positive(slot) /\ Phase!NotBefore(slot, phase_start)
    BY <2>2, <2>3 DEF Phase!Positive, Phase!NotBefore
  <2>5. Phase!NotServedLately(slot)
    BY <2>2, FreshFrame DEF Phase!NotServedLately
  <2>6. Phase!Serve(slot)
    BY <1>2, <2>1, <2>4, <2>5 DEF ServeSlot, Phase!Serve
  <2>7. QED
    BY <2>1, <2>6 DEF Phase!Next
<1>3. CASE UNCHANGED <<subVars, client_connected, client_since, phaseVars>>
  BY <1>3 DEF phaseVars, Phase!pvars
<1>4. QED
  BY <1>1, <1>2, <1>3, PhaseSteps

\* What reaches the HMI application is what SubscriptionPhase allows: no frame
\* outside a phase, none older than it, no copy of a frame served lately.
THEOREM CoreImplementsPhase == Spec => ImplementsSubscriptionPhase
<1>1. Init => Phase!Init
  BY DEF Init, Phase!Init
<1>2. QED
  BY TypeCorrect, SinceCorrect, MemoryCorrect, <1>1, PhaseRefinementStep, PTL
     DEF Spec, ImplementsSubscriptionPhase, Phase!Spec

-----------------------------------------------------------------------------
(* What a step may do.                                                     *)

AttributedStep ==
  phases_ended' > phases_ended =>
    LET by_layer == phases_ended_by_layer' > phases_ended_by_layer
    IN  /\ by_layer => client_connected'
        /\ client_connected' /\ listening' => by_layer

\* An end without the layer's doing is counted without it.
LEMMA UnattributedEnd ==
  ASSUME TypeOK, UpdatePhase(FALSE)
  PROVE  /\ phases_ended_by_layer' = phases_ended_by_layer
         /\ phases_ended' > phases_ended => in_phase /\ ~PhaseHolds'
<1> USE DEF TypeOK, NumberTypes, FlagTypes
<1>1. CASE StartPhase
  BY <1>1 DEF StartPhase
<1>2. CASE in_phase /\ ~PhaseHolds' /\ EndPhase(FALSE)
  BY <1>2 DEF EndPhase
<1>3. CASE UNCHANGED phaseVars
  BY <1>3 DEF phaseVars, phaseCounts
<1>4. QED
  BY <1>1, <1>2, <1>3 DEF UpdatePhase

\* An end by the layer is counted as one.
LEMMA AttributedEnd ==
  ASSUME TypeOK, UpdatePhase(TRUE), phases_ended' > phases_ended
  PROVE  phases_ended_by_layer' > phases_ended_by_layer
<1> USE DEF TypeOK, NumberTypes
<1>1. CASE StartPhase
  BY <1>1 DEF StartPhase
<1>2. CASE EndPhase(TRUE)
  BY <1>2 DEF EndPhase
<1>3. CASE UNCHANGED phaseVars
  BY <1>3 DEF phaseVars, phaseCounts
<1>4. QED
  BY <1>1, <1>2, <1>3 DEF UpdatePhase

\* Every end of a phase is put down to the layer as the property asks.
LEMMA AttributionStep ==
  TypeOK /\ TypeOK' /\ PhaseHoldsBothConditions /\ [Next]_coreVars => AttributedStep
<1> SUFFICES ASSUME TypeOK, TypeOK', PhaseHoldsBothConditions, [Next]_coreVars,
                    phases_ended' > phases_ended
             PROVE  LET by_layer == phases_ended_by_layer' > phases_ended_by_layer
                    IN  /\ by_layer => client_connected'
                        /\ client_connected' /\ listening' => by_layer
  BY DEF AttributedStep
<1> DEFINE by_layer == phases_ended_by_layer' > phases_ended_by_layer
           Goal == (by_layer => client_connected')
                   /\ (client_connected' /\ listening' => by_layer)
<1>n. /\ phases_ended \in Nat /\ phases_ended_by_layer \in Nat
      /\ phases_ended' \in Nat /\ phases_ended_by_layer' \in Nat
  BY DEF TypeOK, NumberTypes
<1>f. /\ in_phase \in BOOLEAN /\ client_connected \in BOOLEAN
      /\ subscribed \in BOOLEAN /\ listening \in BOOLEAN
      /\ client_connected' \in BOOLEAN /\ listening' \in BOOLEAN
  BY DEF TypeOK, FlagTypes
<1>h. in_phase <=> (subscribed /\ client_connected)
  BY DEF PhaseHoldsBothConditions, PhaseHolds
<1>i. PhaseHolds' = (subscribed' /\ client_connected')
  BY DEF PhaseHolds
<1>u. ASSUME UpdatePhase(FALSE)
      PROVE  ~by_layer /\ in_phase /\ ~(subscribed' /\ client_connected')
  <2>1. phases_ended_by_layer' = phases_ended_by_layer
    BY <1>u, UnattributedEnd
  <2>2. in_phase /\ ~PhaseHolds'
    BY <1>u, UnattributedEnd
  <2>3. ~by_layer
    BY <2>1, <1>n
  <2>4. QED
    BY <2>2, <2>3 DEF PhaseHolds
<1>s. ASSUME UNCHANGED phaseVars
      PROVE  FALSE
  BY <1>s, <1>n DEF phaseVars, phaseCounts
<1>1. CASE OnListening
  BY <1>1, <1>s DEF OnListening
<1>2. ASSUME NEW at \in Times, OnClientAccepted(at)
      PROVE  Goal
  BY <1>2, <1>u, <1>h DEF OnClientAccepted
<1>3. CASE OnClientRefused
  BY <1>3, <1>s DEF OnClientRefused
<1>4. ASSUME LoseClient
      PROVE  Goal
  BY <1>4, <1>u DEF LoseClient
<1>5. ASSUME NEW elapsed \in BOOLEAN, OnTick(elapsed)
      PROVE  Goal
  BY <1>5, <1>s DEF OnTick
<1>6. CASE Stop
  <2>1. ~listening'
    BY <1>6 DEF Stop
  <2>2. ~by_layer
    BY <1>6, <1>u, <1>s DEF Stop
  <2>3. QED
    BY <2>1, <2>2
<1>7. ASSUME NEW n \in 1 .. MaxSubscriptions, NEW at \in Times, OnSubscribed(n, at)
      PROVE  Goal
  <2>1. ~(subscribed' /\ client_connected') /\ in_phase
    BY <1>7, <1>u DEF OnSubscribed
  <2>2. subscribed' /\ client_connected' = client_connected
    BY <1>7 DEF OnSubscribed, clientVars
  <2>3. QED
    BY <2>1, <2>2, <1>h
<1>8. ASSUME NEW n \in 1 .. MaxSubscriptions, NEW end \in SubscriptionEnds,
             end = "relay_stop" => ~listening, OnSubscriptionEnded(n, end)
      PROVE  Goal
  <2>1. client_connected' = client_connected /\ listening' = listening
    BY <1>8 DEF OnSubscriptionEnded, clientVars, triggerVars
  <2>2. UpdatePhase(end \in LayerEnds /\ client_connected /\ in_phase)
    BY <1>8, <1>s DEF OnSubscriptionEnded
  <2>3. CASE end \in LayerEnds /\ client_connected /\ in_phase
    <3>1. UpdatePhase(TRUE)
      BY <2>2, <2>3 DEF UpdatePhase, EndPhase
    <3>2. by_layer
      BY <3>1, AttributedEnd
    <3>3. QED
      BY <2>1, <2>3, <3>2
  <2>4. CASE ~(end \in LayerEnds /\ client_connected /\ in_phase)
    <3>1. UpdatePhase(FALSE)
      BY <2>2, <2>4 DEF UpdatePhase, EndPhase
    <3>2. ~by_layer /\ in_phase
      BY <3>1, <1>u
    <3>3. end = "relay_stop"
      BY <2>4, <3>2, <1>h DEF SubscriptionEnds
    <3>4. QED
      BY <1>8, <2>1, <3>2, <3>3
  <2>5. QED
    BY <2>3, <2>4
<1>9. CASE OnClientLost
  <2>1. client_connected' = client_connected
    BY <1>9 DEF OnClientLost, clientVars
  <2>2. UpdatePhase(client_connected /\ in_phase)
    BY <1>9, <1>s DEF OnClientLost
  <2>3. CASE client_connected /\ in_phase
    <3>1. UpdatePhase(TRUE)
      BY <2>2, <2>3 DEF UpdatePhase, EndPhase
    <3>2. by_layer
      BY <3>1, AttributedEnd
    <3>3. QED
      BY <2>1, <2>3, <3>2
  <2>4. CASE ~(client_connected /\ in_phase)
    <3>1. UpdatePhase(FALSE)
      BY <2>2, <2>4 DEF UpdatePhase, EndPhase
    <3>2. QED
      BY <2>4, <3>1, <1>u, <1>h
  <2>5. QED
    BY <2>3, <2>4
<1>10. ASSUME NEW slot \in Slots, DropSlot(slot) \/ ServeSlot(slot)
       PROVE  FALSE
  BY <1>10, <1>n DEF DropSlot, ServeSlot, phaseVars, phaseCounts
<1>11. CASE UNCHANGED coreVars
  BY <1>11, <1>s DEF coreVars
<1>12. QED
  BY <1>1, <1>2, <1>3, <1>4, <1>5, <1>6, <1>7, <1>8, <1>9, <1>10, <1>11
     DEF Next, SocketEvent, WorkerEvent, OnMessage, OnClientDisconnected,
         WriteFailed, WriteStopped

\* A phase end is put down to the layer exactly when the ingress was still the
\* client and the relay was not stopping.
THEOREM LayerEndsCorrect == Spec => LayerEndsAttributed
<1>1. TypeOK /\ TypeOK' /\ PhaseHoldsBothConditions /\ [Next]_coreVars
        => [AttributedStep]_coreVars
  BY AttributionStep
<1>2. QED
  BY TypeCorrect, PhaseCorrect, <1>1, PTL DEF Spec, LayerEndsAttributed, AttributedStep

\* A connected client was seen since the last trigger.
ClientSeen ==
  /\ client_connected => first_client_seen
  /\ client_connected \/ first_client_seen => ~NotYetListening

TriggerStep ==
  ingress_triggers' > ingress_triggers =>
    /\ ~client_connected'
    /\ first_client_seen =>
         drops'["client_write_failed"] > drops["client_write_failed"]

\* Every step that triggers the ingress finds it unconnected, and a client
\* that was seen stays seen unless a write failed.
LEMMA SeenAndTriggerSteps ==
  TypeOK /\ TypeOK' /\ BudgetInv /\ ClientSeen /\ [Next]_coreVars
    => ClientSeen' /\ TriggerStep
<1> SUFFICES ASSUME TypeOK, TypeOK', BudgetInv, ClientSeen, [Next]_coreVars
             PROVE  ClientSeen' /\ TriggerStep
  OBVIOUS
<1>n. ingress_triggers \in Nat /\ ingress_triggers' \in Nat
  BY DEF TypeOK, NumberTypes
<1>f. /\ client_connected \in BOOLEAN /\ first_client_seen \in BOOLEAN
      /\ client_connected' \in BOOLEAN /\ first_client_seen' \in BOOLEAN
      /\ listening \in BOOLEAN
  BY DEF TypeOK, FlagTypes
<1>l. listening => ~NotYetListening
  BY <1>n DEF BudgetInv, NotYetListening
<1>t. ASSUME ingress_triggers' = ingress_triggers
      PROVE  TriggerStep /\ (NotYetListening' <=> NotYetListening)
  BY <1>t, <1>n DEF TriggerStep, NotYetListening
<1>m. ASSUME ingress_triggers' = ingress_triggers + 1
      PROVE  ~NotYetListening'
  BY <1>m, <1>n DEF NotYetListening
<1>1. ASSUME NotYetListening, OnListening
      PROVE  ClientSeen' /\ TriggerStep
  <2>1. ~client_connected /\ ~first_client_seen
    BY <1>1, <1>f DEF ClientSeen
  <2>2. UNCHANGED <<client_connected, first_client_seen>>
    BY <1>1 DEF OnListening, clientVars
  <2>3. QED
    BY <2>1, <2>2 DEF ClientSeen, TriggerStep
<1>2. ASSUME NEW at \in Times, OnClientAccepted(at), listening
      PROVE  ClientSeen' /\ TriggerStep
  <2>1. ingress_triggers' = ingress_triggers /\ first_client_seen'
    BY <1>2 DEF OnClientAccepted
  <2>2. QED
    BY <1>2, <2>1, <1>l, <1>t DEF ClientSeen
<1>a. ASSUME UNCHANGED triggerVars, client_connected' => client_connected
      PROVE  ClientSeen' /\ TriggerStep
  <2>1. UNCHANGED <<ingress_triggers, first_client_seen>>
    BY <1>a DEF triggerVars
  <2>2. QED
    BY <1>a, <2>1, <1>t DEF ClientSeen
<1>3. CASE OnClientRefused
  BY <1>3, <1>a DEF OnClientRefused
<1>4. CASE OnClientDisconnected
  BY <1>4, <1>a DEF OnClientDisconnected, LoseClient
<1>5. ASSUME NEW elapsed \in BOOLEAN, OnTick(elapsed), listening
      PROVE  ClientSeen' /\ TriggerStep
  <2>1. UNCHANGED <<client_connected, first_client_seen>>
    BY <1>5 DEF OnTick, clientVars
  <2>2. CASE ingress_triggers' = ingress_triggers
    BY <2>1, <2>2, <1>t DEF ClientSeen
  <2>3. CASE IngressTriggerDue /\ ingress_triggers' = ingress_triggers + 1
    <3>1. ~first_client_seen /\ ~client_connected
      BY <2>3, <1>f DEF IngressTriggerDue, ClientSeen
    <3>2. QED
      BY <2>1, <2>3, <3>1, <1>m DEF ClientSeen, TriggerStep
  <2>4. QED
    BY <1>5, <2>2, <2>3 DEF OnTick
<1>6. ASSUME Stop
      PROVE  ClientSeen' /\ TriggerStep
  <2>1. UNCHANGED <<ingress_triggers, first_client_seen>>
    BY <1>6 DEF Stop
  <2>2. client_connected' = client_connected
    BY <1>6 DEF Stop, clientVars
  <2>3. QED
    BY <2>1, <2>2, <1>t DEF ClientSeen
<1>7. ASSUME NEW n \in 1 .. MaxSubscriptions, NEW at \in Times, OnSubscribed(n, at)
      PROVE  ClientSeen' /\ TriggerStep
  BY <1>7, <1>a DEF OnSubscribed, clientVars
<1>8. ASSUME NEW n \in 1 .. MaxSubscriptions, NEW end \in SubscriptionEnds,
             OnSubscriptionEnded(n, end)
      PROVE  ClientSeen' /\ TriggerStep
  BY <1>8, <1>a DEF OnSubscriptionEnded, clientVars
<1>9. ASSUME OnClientLost
      PROVE  ClientSeen' /\ TriggerStep
  <2>1. client_connected' = client_connected /\ UNCHANGED triggerVars
    BY <1>9 DEF OnClientLost, clientVars
  <2>2. QED
    BY <2>1, <1>a
<1>10. ASSUME NEW slot \in Slots, DropSlot(slot) \/ ServeSlot(slot)
       PROVE  ClientSeen' /\ TriggerStep
  BY <1>10, <1>a DEF DropSlot, ServeSlot, clientVars
<1>11. ASSUME NEW slot \in Slots, WriteFailed(slot)
       PROVE  ClientSeen' /\ TriggerStep
  <2>1. ~client_connected'
    BY <1>11 DEF WriteFailed, LoseClient
  <2>2. CASE ~listening
    <3>1. UNCHANGED <<ingress_triggers, first_client_seen>>
      BY <1>11, <2>2 DEF WriteFailed, RearmIngressTrigger
    <3>2. QED
      BY <2>1, <3>1, <1>t DEF ClientSeen
  <2>3. CASE listening
    <3>1. ~first_client_seen' /\ ingress_triggers' = ingress_triggers + 1
      BY <1>11, <2>3 DEF WriteFailed, RearmIngressTrigger
    <3>2. drops'["client_write_failed"] = drops["client_write_failed"] + 1
      BY <1>11 DEF WriteFailed, Drop, TypeOK, FrameTypes, DropReasons
    <3>3. drops["client_write_failed"] \in Nat
      BY DEF TypeOK, FrameTypes, DropReasons
    <3>4. drops'["client_write_failed"] > drops["client_write_failed"]
      BY <3>2, <3>3
    <3>5. QED
      BY <2>1, <3>1, <3>4, <1>m DEF ClientSeen, TriggerStep
  <2>4. QED
    BY <2>2, <2>3
<1>12. ASSUME NEW slot \in Slots, WriteStopped(slot)
       PROVE  ClientSeen' /\ TriggerStep
  BY <1>12, <1>a DEF WriteStopped, LoseClient
<1>13. CASE UNCHANGED coreVars
  BY <1>13, <1>a DEF coreVars, clientVars
<1>14. QED
  BY <1>1, <1>2, <1>3, <1>4, <1>5, <1>6, <1>7, <1>8, <1>9, <1>10, <1>11, <1>12,
     <1>13
     DEF Next, SocketEvent, WorkerEvent, OnMessage

\* The ingress is triggered only while it is not connected, and after a client
\* was seen only by a failed write.
THEOREM TriggersCorrect == Spec => TriggersOnlyForAnIngressTheRelayLacks
<1>1. Init => ClientSeen
  BY DEF Init, ClientSeen
<1>2. TypeOK /\ TypeOK' /\ BudgetInv /\ ClientSeen /\ [Next]_coreVars
        => ClientSeen' /\ [TriggerStep]_coreVars
  BY SeenAndTriggerSteps
<1>3. QED
  BY TypeCorrect, BudgetCorrect, <1>1, <1>2, PTL
     DEF Spec, TriggersOnlyForAnIngressTheRelayLacks, TriggerStep

=============================================================================
