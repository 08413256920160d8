----------------------------- MODULE RelayCore -----------------------------
(***************************************************************************)
(* The pure core of the IVI frame relay (relay_core.cpp) with its discard  *)
(* policy (discard_policy.cpp): the subscription phase, the one loopback   *)
(* client, the drop reasons, the ingress trigger and the counters.         *)
(*                                                                         *)
(* Every handler of the core is an action.  The events come from an open   *)
(* environment: any worker event in any order, any reading of the realtime *)
(* clock (it may be stepped), any outcome of a write.  IviFrameRelay feeds *)
(* the same actions from the worker's mailbox and the loopback socket.     *)
(*                                                                         *)
(* Left out: the log lines, the start diagnostic and the counters that     *)
(* only a log line reads.  The wrapper, prefix and field checks of a slot  *)
(* are one verdict: a slot is a frame or Malformed.  The policy's own      *)
(* in_phase_ and phase_start_realtime_ns_ are set where the core's are, so *)
(* one variable stands for both.                                           *)
(***************************************************************************)
EXTENDS Naturals, Sequences

CONSTANTS
  SeqNumbers,         \* sequence numbers of frames; 0 is not positive
  Times,              \* readings of CLOCK_REALTIME and frame timestamps
  Margin,             \* kPhaseStartMarginNs
  CopyMemoryFrames,   \* kCopyMemoryFrames
  RetriggerLimit,     \* kIngressRetriggerLimit
  Malformed,          \* a slot that fails one of the slot checks
  MaxSubscriptions,   \* bound: subscription numbers
  MaxMessages,        \* bound: slots read
  MaxClients,         \* bound: loopback clients accepted
  MaxPhases           \* bound: subscription phases

Frames == [sequence : SeqNumbers, ts : Times]

ASSUME CoreAssumption ==
  /\ SeqNumbers \subseteq Nat
  /\ Times \subseteq Nat
  /\ Margin \in Nat
  /\ CopyMemoryFrames \in Nat \ {0}
  /\ RetriggerLimit \in Nat
  /\ MaxSubscriptions \in Nat
  /\ MaxMessages \in Nat
  /\ MaxClients \in Nat
  /\ MaxPhases \in Nat
  /\ Malformed \notin Frames

Slots == Frames \cup {Malformed}

\* SubscriptionEnd, and those of them that EndedByLayer accepts.
LayerEnds == {"publication_destroyed", "disconnected", "silence_timeout"}
SubscriptionEnds == LayerEnds \cup {"relay_stop"}

ForwardResults == {"written", "failed", "stopped"}

DropReasons ==
  {"malformed", "not_subscribed", "no_client", "field_not_positive",
   "older_than_phase", "copy_in_phase", "client_write_failed", "relay_stop"}

VARIABLES
  subscribed, subscription, subscribed_since,
  client_connected, client_since,
  in_phase, phase_start,
  served,                     \* the copy memory, oldest first
  listening, first_client_seen, ingress_retriggers, ingress_trigger_gave_up,
  exit_requested,
  messages_read, frames_delivered, drops,
  phases_started, phases_ended, phases_ended_by_layer,
  clients_accepted, clients_refused, clients_lost,
  ingress_triggers,
  phase_log                   \* history: the frames written in this phase

subVars     == <<subscribed, subscription, subscribed_since>>
clientVars  == <<client_connected, client_since,
                 clients_accepted, clients_refused, clients_lost>>
phaseCounts == <<phases_started, phases_ended, phases_ended_by_layer>>
phaseVars   == <<in_phase, phase_start, served, phaseCounts, phase_log>>
triggerVars == <<listening, first_client_seen, ingress_retriggers,
                 ingress_trigger_gave_up, ingress_triggers>>
frameVars   == <<messages_read, frames_delivered, drops>>
coreVars    == <<subVars, clientVars, phaseVars, triggerVars, frameVars,
                 exit_requested>>

Init ==
  /\ subscribed = FALSE /\ subscription = 0 /\ subscribed_since = 0
  /\ client_connected = FALSE /\ client_since = 0
  /\ in_phase = FALSE /\ phase_start = 0 /\ served = <<>>
  /\ listening = FALSE /\ first_client_seen = FALSE
  /\ ingress_retriggers = 0 /\ ingress_trigger_gave_up = FALSE
  /\ exit_requested = FALSE
  /\ messages_read = 0 /\ frames_delivered = 0
  /\ drops = [r \in DropReasons |-> 0]
  /\ phases_started = 0 /\ phases_ended = 0 /\ phases_ended_by_layer = 0
  /\ clients_accepted = 0 /\ clients_refused = 0 /\ clients_lost = 0
  /\ ingress_triggers = 0
  /\ phase_log = <<>>

-----------------------------------------------------------------------------
(* The phase.  A handler assigns the two conditions, then updates it.      *)

PhaseHolds == subscribed /\ client_connected

LaterOf(s, t) == IF s >= t THEN s ELSE t

StartPhase ==
  /\ in_phase' = TRUE
  /\ phase_start' = LaterOf(subscribed_since', client_since')
  /\ phases_started' = phases_started + 1
  /\ served' = <<>>
  /\ phase_log' = <<>>
  /\ UNCHANGED <<phases_ended, phases_ended_by_layer>>

EndPhase(layer_caused) ==
  /\ in_phase' = FALSE
  /\ phases_ended' = phases_ended + 1
  /\ phases_ended_by_layer' =
       phases_ended_by_layer + IF layer_caused THEN 1 ELSE 0
  /\ served' = <<>>
  /\ phase_log' = <<>>
  /\ UNCHANGED <<phase_start, phases_started>>

UpdatePhase(layer_caused) ==
  \/ PhaseHolds' /\ ~in_phase /\ StartPhase
  \/ ~PhaseHolds' /\ in_phase /\ EndPhase(layer_caused)
  \/ PhaseHolds' = in_phase /\ UNCHANGED phaseVars

-----------------------------------------------------------------------------
(* The ingress trigger: the start property of the HMI ingress, 0 then 1.   *)

OnListening ==
  /\ listening' = TRUE
  /\ ingress_triggers' = ingress_triggers + 1
  /\ UNCHANGED <<first_client_seen, ingress_retriggers,
                 ingress_trigger_gave_up, subVars, clientVars, phaseVars,
                 frameVars, exit_requested>>

\* Mutant: a client that was seen does not end the triggering.
IngressTriggerDueAfterClient == listening /\ ~ingress_trigger_gave_up

IngressTriggerDue ==
  listening /\ ~first_client_seen /\ ~ingress_trigger_gave_up

RetriggersLeft == ingress_retriggers < RetriggerLimit

\* elapsed: the retrigger period has passed since the last trigger.
OnTick(elapsed) ==
  /\ \/ /\ IngressTriggerDue /\ elapsed /\ RetriggersLeft
        /\ ingress_retriggers' = ingress_retriggers + 1
        /\ ingress_triggers' = ingress_triggers + 1
        /\ UNCHANGED ingress_trigger_gave_up
     \/ /\ IngressTriggerDue /\ elapsed /\ ~RetriggersLeft
        /\ ingress_trigger_gave_up' = TRUE
        /\ UNCHANGED <<ingress_retriggers, ingress_triggers>>
     \/ /\ ~(IngressTriggerDue /\ elapsed)
        /\ UNCHANGED <<ingress_retriggers, ingress_triggers,
                       ingress_trigger_gave_up>>
  /\ UNCHANGED <<listening, first_client_seen, subVars, clientVars, phaseVars,
                 frameVars, exit_requested>>

RearmIngressTrigger ==
  /\ \/ /\ listening
        /\ first_client_seen' = FALSE
        /\ ingress_trigger_gave_up' = FALSE
        /\ ingress_retriggers' = 0
        /\ ingress_triggers' = ingress_triggers + 1
     \/ /\ ~listening
        /\ UNCHANGED <<first_client_seen, ingress_trigger_gave_up,
                       ingress_retriggers, ingress_triggers>>
  /\ UNCHANGED listening

-----------------------------------------------------------------------------
(* The loopback client.                                                    *)

OnClientAccepted(at) ==
  /\ ~client_connected
  /\ client_connected' = TRUE
  /\ client_since' = at
  /\ first_client_seen' = TRUE
  /\ clients_accepted' = clients_accepted + 1
  /\ UNCHANGED <<subVars, clients_refused, clients_lost>>
  /\ UpdatePhase(FALSE)
  /\ UNCHANGED <<listening, ingress_retriggers, ingress_trigger_gave_up,
                 ingress_triggers, frameVars, exit_requested>>

OnClientRefused ==
  /\ client_connected
  /\ clients_refused' = clients_refused + 1
  /\ UNCHANGED <<client_connected, client_since, clients_accepted,
                 clients_lost, subVars, phaseVars, triggerVars, frameVars,
                 exit_requested>>

LoseClient ==
  /\ client_connected' = FALSE
  /\ clients_lost' = clients_lost + 1
  /\ UNCHANGED <<client_since, clients_accepted, clients_refused, subVars>>
  /\ UpdatePhase(FALSE)

OnClientDisconnected ==
  /\ client_connected
  /\ LoseClient
  /\ UNCHANGED <<triggerVars, frameVars, exit_requested>>

-----------------------------------------------------------------------------
(* The worker's events that change the state of the core.                  *)

OnSubscribed(n, at) ==
  /\ subscribed' = TRUE
  /\ subscription' = n
  /\ subscribed_since' = at
  /\ UNCHANGED clientVars
  /\ UpdatePhase(FALSE)
  /\ UNCHANGED <<triggerVars, frameVars, exit_requested>>

OnSubscriptionEnded(n, end) ==
  /\ \/ /\ subscribed /\ subscription = n
        /\ subscribed' = FALSE
        /\ UNCHANGED <<subscription, subscribed_since, clientVars>>
        /\ UpdatePhase(end \in LayerEnds /\ client_connected /\ in_phase)
     \/ /\ ~(subscribed /\ subscription = n)
        /\ UNCHANGED <<subVars, clientVars, phaseVars>>
  /\ UNCHANGED <<triggerVars, frameVars, exit_requested>>

\* kClientLost: the gateway client is lost for this process.
OnClientLost ==
  /\ \/ /\ subscribed
        /\ subscribed' = FALSE
        /\ UNCHANGED <<subscription, subscribed_since, clientVars>>
        /\ UpdatePhase(client_connected /\ in_phase)
     \/ /\ ~subscribed
        /\ UNCHANGED <<subVars, clientVars, phaseVars>>
  /\ exit_requested' = TRUE
  /\ UNCHANGED <<triggerVars, frameVars>>

-----------------------------------------------------------------------------
(* One slot: dropped with one reason, or written to the client.            *)

InMemory(f) == \E i \in DOMAIN served : served[i] = f

\* Mutant: a frame older than the phase is admitted.
AdmitAnyAge(f) ==
  IF f.sequence = 0 \/ f.ts = 0 THEN "field_not_positive"
  ELSE IF InMemory(f) THEN "copy_in_phase"
  ELSE "deliver"

Admit(f) ==
  IF f.sequence = 0 \/ f.ts = 0 THEN "field_not_positive"
  ELSE IF f.ts + Margin < phase_start THEN "older_than_phase"
  ELSE IF InMemory(f) THEN "copy_in_phase"
  ELSE "deliver"

Verdict(slot) ==
  IF slot = Malformed THEN "malformed"
  ELSE IF ~in_phase THEN IF subscribed THEN "no_client" ELSE "not_subscribed"
  ELSE Admit(slot)

\* The ring forgets the oldest served frame.
Remember(f) ==
  IF Len(served) < CopyMemoryFrames THEN Append(served, f)
                                    ELSE Append(Tail(served), f)

Drop(reason) ==
  /\ messages_read' = messages_read + 1
  /\ drops' = [drops EXCEPT ![reason] = @ + 1]
  /\ UNCHANGED frames_delivered

DropSlot(slot) ==
  /\ Verdict(slot) # "deliver"
  /\ Drop(Verdict(slot))
  /\ UNCHANGED <<subVars, clientVars, phaseVars, triggerVars, exit_requested>>

ServeSlot(slot) ==
  /\ Verdict(slot) = "deliver"
  /\ messages_read' = messages_read + 1
  /\ frames_delivered' = frames_delivered + 1
  /\ served' = Remember(slot)
  /\ phase_log' = Append(phase_log, slot)
  /\ UNCHANGED <<in_phase, phase_start, phaseCounts, drops, subVars,
                 clientVars, triggerVars, exit_requested>>

\* The shell has closed the client: the write failed or stalled.
WriteFailed(slot) ==
  /\ Verdict(slot) = "deliver"
  /\ Drop("client_write_failed")
  /\ LoseClient
  /\ RearmIngressTrigger
  /\ UNCHANGED exit_requested

\* A stop request ended a blocked write; the shell has closed the client.
WriteStopped(slot) ==
  /\ Verdict(slot) = "deliver"
  /\ Drop("relay_stop")
  /\ LoseClient
  /\ UNCHANGED <<triggerVars, exit_requested>>

OnMessage(slot, result) ==
  \/ DropSlot(slot)
  \/ result = "written" /\ ServeSlot(slot)
  \/ result = "failed" /\ WriteFailed(slot)
  \/ result = "stopped" /\ WriteStopped(slot)

-----------------------------------------------------------------------------
Stop ==
  /\ listening' = FALSE
  /\ \/ /\ in_phase
        /\ subscribed' = FALSE
        /\ UNCHANGED <<subscription, subscribed_since, clientVars>>
        /\ UpdatePhase(FALSE)
     \/ /\ ~in_phase
        /\ UNCHANGED <<subVars, clientVars, phaseVars>>
  /\ UNCHANGED <<first_client_seen, ingress_retriggers,
                 ingress_trigger_gave_up, ingress_triggers, frameVars,
                 exit_requested>>

-----------------------------------------------------------------------------
(* The environment.  The shell calls OnListening once, then the socket and *)
(* tick handlers until it calls Stop, and hands on worker events all the   *)
(* time.  The worker ends a subscription for relay_stop only after Stop.   *)

NotYetListening == ingress_triggers = 0

SocketEvent ==
  /\ listening
  /\ \/ /\ clients_accepted < MaxClients /\ phases_started < MaxPhases
        /\ \E at \in Times : OnClientAccepted(at)
     \/ /\ clients_refused < MaxClients
        /\ OnClientRefused
     \/ OnClientDisconnected
     \/ \E elapsed \in BOOLEAN : OnTick(elapsed)
     \/ Stop

WorkerEvent ==
  /\ ~NotYetListening
  /\ \/ /\ phases_started < MaxPhases
        /\ \E n \in 1 .. MaxSubscriptions, at \in Times : OnSubscribed(n, at)
     \/ \E n \in 1 .. MaxSubscriptions, end \in SubscriptionEnds :
          /\ end = "relay_stop" => ~listening
          /\ OnSubscriptionEnded(n, end)
     \/ OnClientLost
     \/ /\ messages_read < MaxMessages
        /\ \E slot \in Slots, result \in ForwardResults : OnMessage(slot, result)

Next ==
  \/ NotYetListening /\ OnListening
  \/ SocketEvent
  \/ WorkerEvent

Spec == Init /\ [][Next]_coreVars

-----------------------------------------------------------------------------
(* Properties.                                                             *)

FlagTypes ==
  /\ subscribed \in BOOLEAN
  /\ client_connected \in BOOLEAN
  /\ in_phase \in BOOLEAN
  /\ listening \in BOOLEAN
  /\ first_client_seen \in BOOLEAN
  /\ ingress_trigger_gave_up \in BOOLEAN
  /\ exit_requested \in BOOLEAN

NumberTypes ==
  /\ subscription \in Nat /\ subscribed_since \in Nat
  /\ client_since \in Nat /\ phase_start \in Nat
  /\ ingress_retriggers \in Nat /\ ingress_retriggers <= RetriggerLimit
  /\ ingress_triggers \in Nat
  /\ messages_read \in Nat /\ frames_delivered \in Nat
  /\ phases_started \in Nat /\ phases_ended \in Nat
  /\ phases_ended_by_layer \in Nat
  /\ clients_accepted \in Nat /\ clients_refused \in Nat /\ clients_lost \in Nat

FrameTypes ==
  /\ served \in Seq(Frames)
  /\ phase_log \in Seq(Frames)
  /\ drops \in [DropReasons -> Nat]

\* Every variable has its type, and the trigger is repeated at most
\* RetriggerLimit times before a client is seen or the relay gives up (OnTick).
TypeOK == FlagTypes /\ NumberTypes /\ FrameTypes

FramesDropped ==
  drops["malformed"] + drops["not_subscribed"] + drops["no_client"]
  + drops["field_not_positive"] + drops["older_than_phase"]
  + drops["copy_in_phase"] + drops["client_write_failed"] + drops["relay_stop"]

\* The phase holds exactly while the relay holds a subscription and the
\* ingress is its client, whichever handler changed one of the two last: a
\* subscription end, a lost client, a failed write, a stop (UpdatePhase).
PhaseHoldsBothConditions == in_phase <=> PhaseHolds

\* Every slot ends in exactly one outcome: messages_read equals
\* frames_delivered plus the sum of the drops, also when the write of an
\* admitted frame fails and takes the client and the phase with it.
EverySlotOneOutcome == messages_read = frames_delivered + FramesDropped

\* Each start of a phase is matched by one end, and each accepted client by one
\* loss, so a phase or client that two handlers both end is counted once.
CountersMatchState ==
  /\ phases_started = phases_ended + IF in_phase THEN 1 ELSE 0
  /\ clients_accepted = clients_lost + IF client_connected THEN 1 ELSE 0
  /\ phases_ended_by_layer <= phases_ended

\* Within a phase, two copies of a frame reach the client only with at least
\* CopyMemoryFrames other frames between them: the ring of the discard policy
\* wraps, and is cleared at each phase start, without forgetting too early.
NoRecentCopy ==
  \A i, j \in DOMAIN phase_log :
    i < j /\ phase_log[i] = phase_log[j] => j - i > CopyMemoryFrames

\* A phase end is put down to the layer only while the ingress stays connected,
\* and every end of a running relay with the ingress connected is: such an end
\* is a delivery failure, not an unsubscription of the HMI application.
LayerEndsAttributed ==
  [][phases_ended' > phases_ended =>
       LET by_layer == phases_ended_by_layer' > phases_ended_by_layer
       IN  /\ by_layer => client_connected'
           /\ client_connected' /\ listening' => by_layer]_coreVars

\* Each start of the relay, and each stream the relay itself closed, gives the
\* ingress one trigger and at most RetriggerLimit repeats.
TriggerBudget ==
  ingress_triggers <= (1 + RetriggerLimit) * (1 + drops["client_write_failed"])

\* The ingress is never triggered while it is connected; and once a client was
\* seen, only the relay's own closing of the stream triggers it again: an
\* ingress that exits by itself or is stopped on purpose stays down.
TriggersOnlyForAnIngressTheRelayLacks ==
  [][ingress_triggers' > ingress_triggers =>
       /\ ~client_connected'
       /\ first_client_seen =>
            drops'["client_write_failed"] > drops["client_write_failed"]]_coreVars

\* The core implements what the relay promises the HMI application.
Phase == INSTANCE SubscriptionPhase
           WITH open <- in_phase, start <- phase_start, log <- phase_log
ImplementsSubscriptionPhase == Phase!Spec

=============================================================================
