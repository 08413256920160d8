------------------------- MODULE IviFrameRelayProofs -------------------------
(***************************************************************************)
(* What the frame relay promises as a process, for any capacity of the     *)
(* mailbox, any number of subscriptions, messages and clients, and every   *)
(* interleaving of its two threads, the gateway library, the ingress and   *)
(* the stop signal.                                                        *)
(*                                                                         *)
(* The process runs the worker (every step is a step of GatewayWorker), so *)
(* the theorems about the worker hold in it.  The heart is PipelineInv: the*)
(* events between the threads, those taken and those still in the mailbox, *)
(* replay from what the core has been told to what the worker has posted.  *)
(* With it every event finds the core in a state that RelayCore allows, so *)
(* the process runs the core too, and the theorems about the core hold.    *)
(*                                                                         *)
(* The last two parts are about the two small machines of the worker that  *)
(* IviFrameRelay leaves out.  The call monitor, for any number of calls and*)
(* any interleaving: what is in the slot has ended and was not reported    *)
(* before.  The retry schedule, for all periods in the order that the code *)
(* gives them, any clock and any lateness of calls and attempts: the place *)
(* of the worker tells what it has been through, and the counter of silent *)
(* subscriptions is at least as long as the silence it stands for.         *)
(***************************************************************************)
EXTENDS IviFrameRelay, GatewayCallMonitor, RetrySchedule, SequenceTheorems, TLAPS

CoreProofs   == INSTANCE RelayCoreProofs
WorkerProofs == INSTANCE GatewayWorkerProofs

(* The theorems about the core and about the worker may be used here.      *)
LEMMA PartAssumptions == CoreProofs!CoreAssumption /\ WorkerProofs!WorkerAssumption
  BY RelayAssumption
     DEF Core!CoreAssumption, Core!Frames, CoreProofs!Frames, Worker!WorkerAssumption

LEMMA SameCore ==
    /\ Core!Init <=> CoreProofs!Init
    /\ [Core!Next]_Core!coreVars <=> [CoreProofs!Next]_CoreProofs!coreVars
  BY      DEF Core!Frames, CoreProofs!Frames, Core!Slots, CoreProofs!Slots, Core!LayerEnds,
         CoreProofs!LayerEnds, Core!SubscriptionEnds, CoreProofs!SubscriptionEnds,
         Core!ForwardResults, CoreProofs!ForwardResults, Core!DropReasons,
         CoreProofs!DropReasons, Core!subVars, CoreProofs!subVars, Core!clientVars,
         CoreProofs!clientVars, Core!phaseCounts, CoreProofs!phaseCounts,
         Core!phaseVars, CoreProofs!phaseVars, Core!triggerVars, CoreProofs!triggerVars,
         Core!frameVars, CoreProofs!frameVars, Core!coreVars, CoreProofs!coreVars,
         Core!Init, CoreProofs!Init, Core!PhaseHolds, CoreProofs!PhaseHolds,
         Core!LaterOf, CoreProofs!LaterOf, Core!StartPhase, CoreProofs!StartPhase,
         Core!EndPhase, CoreProofs!EndPhase, Core!UpdatePhase, CoreProofs!UpdatePhase,
         Core!OnListening, CoreProofs!OnListening, Core!IngressTriggerDue,
         CoreProofs!IngressTriggerDue, Core!RetriggersLeft, CoreProofs!RetriggersLeft,
         Core!OnTick, CoreProofs!OnTick, Core!RearmIngressTrigger,
         CoreProofs!RearmIngressTrigger, Core!OnClientAccepted,
         CoreProofs!OnClientAccepted, Core!OnClientRefused, CoreProofs!OnClientRefused,
         Core!LoseClient, CoreProofs!LoseClient, Core!OnClientDisconnected,
         CoreProofs!OnClientDisconnected, Core!OnSubscribed, CoreProofs!OnSubscribed,
         Core!OnSubscriptionEnded, CoreProofs!OnSubscriptionEnded, Core!OnClientLost,
         CoreProofs!OnClientLost, Core!InMemory, CoreProofs!InMemory, Core!Admit,
         CoreProofs!Admit, Core!Verdict, CoreProofs!Verdict, Core!Remember,
         CoreProofs!Remember, Core!Drop, CoreProofs!Drop, Core!DropSlot,
         CoreProofs!DropSlot, Core!ServeSlot, CoreProofs!ServeSlot, Core!WriteFailed,
         CoreProofs!WriteFailed, Core!WriteStopped, CoreProofs!WriteStopped,
         Core!OnMessage, CoreProofs!OnMessage, Core!Stop, CoreProofs!Stop,
         Core!NotYetListening, CoreProofs!NotYetListening, Core!SocketEvent,
         CoreProofs!SocketEvent, Core!WorkerEvent, CoreProofs!WorkerEvent, Core!Next,
         CoreProofs!Next, Core!FlagTypes, CoreProofs!FlagTypes, Core!NumberTypes,
         CoreProofs!NumberTypes, Core!FrameTypes, CoreProofs!FrameTypes, Core!TypeOK,
         CoreProofs!TypeOK

LEMMA SameWorker ==
    /\ Worker!Init <=> WorkerProofs!Init
    /\ Worker!Turn <=> WorkerProofs!Turn
    /\ Worker!CallReturns <=> WorkerProofs!CallReturns
    /\ Worker!Post <=> WorkerProofs!Post
    /\ Worker!LibraryStep <=> WorkerProofs!LibraryStep
    /\ Worker!Arrival <=> WorkerProofs!Arrival
    /\ Worker!RequestStop <=> WorkerProofs!RequestStop
  BY      DEF Worker!controlVars, WorkerProofs!controlVars, Worker!inboxVars,
         WorkerProofs!inboxVars, Worker!clientVars, WorkerProofs!clientVars,
         Worker!subVars, WorkerProofs!subVars, Worker!libVars, WorkerProofs!libVars,
         Worker!feedVars, WorkerProofs!feedVars, Worker!workerVars,
         WorkerProofs!workerVars, Worker!InCall, WorkerProofs!InCall, Worker!Subscribed,
         WorkerProofs!Subscribed, Worker!Message, WorkerProofs!Message, Worker!Ended,
         WorkerProofs!Ended, Worker!Lost, WorkerProofs!Lost, Worker!Other,
         WorkerProofs!Other, Worker!Disconnected, WorkerProofs!Disconnected,
         Worker!Destroyed, WorkerProofs!Destroyed, Worker!Unacted, WorkerProofs!Unacted,
         Worker!Init, WorkerProofs!Init, Worker!Notify, WorkerProofs!Notify,
         Worker!RequestStop, WorkerProofs!RequestStop, Worker!LibraryDisconnects,
         WorkerProofs!LibraryDisconnects, Worker!PublicationGoes,
         WorkerProofs!PublicationGoes, Worker!NotificationArrives,
         WorkerProofs!NotificationArrives, Worker!OtherArrives,
         WorkerProofs!OtherArrives, Worker!ClientExists, WorkerProofs!ClientExists,
         Worker!SubscriptionExists, WorkerProofs!SubscriptionExists,
         Worker!EndSubscription, WorkerProofs!EndSubscription, Worker!LoseClient,
         WorkerProofs!LoseClient, Worker!UnsubscribeReturns,
         WorkerProofs!UnsubscribeReturns, Worker!TakeInbox, WorkerProofs!TakeInbox,
         Worker!OfCurrentClient, WorkerProofs!OfCurrentClient,
         Worker!OfCurrentSubscription, WorkerProofs!OfCurrentSubscription,
         Worker!HandleDisconnected, WorkerProofs!HandleDisconnected,
         Worker!HandleDestroyed, WorkerProofs!HandleDestroyed,
         Worker!IgnoreNotification, WorkerProofs!IgnoreNotification,
         Worker!HandleNotification, WorkerProofs!HandleNotification, Worker!BatchDone,
         WorkerProofs!BatchDone, Worker!NothingDue, WorkerProofs!NothingDue,
         Worker!MayCall, WorkerProofs!MayCall, Worker!BeginClientNew,
         WorkerProofs!BeginClientNew, Worker!BeginSubscribe,
         WorkerProofs!BeginSubscribe, Worker!BeginRead, WorkerProofs!BeginRead,
         Worker!Silent, WorkerProofs!Silent, Worker!ClientNewFails,
         WorkerProofs!ClientNewFails, Worker!ClientNewReturns,
         WorkerProofs!ClientNewReturns, Worker!ClientNewReturnsWithoutCallback,
         WorkerProofs!ClientNewReturnsWithoutCallback, Worker!InitCommsReturns,
         WorkerProofs!InitCommsReturns, Worker!InitCommsFails,
         WorkerProofs!InitCommsFails, Worker!SubscribeReturns,
         WorkerProofs!SubscribeReturns, Worker!SubscribeFails,
         WorkerProofs!SubscribeFails, Worker!MetadataRefused,
         WorkerProofs!MetadataRefused, Worker!RefusedUnsubscribeReturns,
         WorkerProofs!RefusedUnsubscribeReturns, Worker!ReadReturnsMessages,
         WorkerProofs!ReadReturnsMessages, Worker!ReadReturnsGap,
         WorkerProofs!ReadReturnsGap, Worker!ReadReturnsNothing,
         WorkerProofs!ReadReturnsNothing, Worker!ReadEndsSilent,
         WorkerProofs!ReadEndsSilent, Worker!BeginFinish, WorkerProofs!BeginFinish,
         Worker!OwesDestroy, WorkerProofs!OwesDestroy, Worker!FinishClient,
         WorkerProofs!FinishClient, Worker!DestroyReturns, WorkerProofs!DestroyReturns,
         Worker!WorkerDone, WorkerProofs!WorkerDone, Worker!Post, WorkerProofs!Post,
         Worker!CallReturns, WorkerProofs!CallReturns, Worker!Turn, WorkerProofs!Turn,
         Worker!LibraryStep, WorkerProofs!LibraryStep, Worker!Arrival,
         WorkerProofs!Arrival, Worker!Next, WorkerProofs!Next

-----------------------------------------------------------------------------
(* The inductive invariant.                                                *)

Serving  == {"turn", "drain", "handle", "accept", "read", "tick"}
Stopping == {"wait", "wait_handle", "join", "last_handle", "final", "exited"}

(* The place of the main thread, and what it says.                         *)
PlaceInv ==
    /\ main \in {"start"} \cup Serving \cup Stopping
    /\ main \in Handlers <=> taken # <<>>
    /\ listening <=> main \in Serving
    /\ ingress_triggers = 0 <=> main = "start"
    /\ main = "start" => queue = <<>> /\ fed = 0
    /\ worker_stop_requested \in BOOLEAN
    /\ worker_stop_requested <=> main \in Stopping

(* The mailbox closes only when the worker is left behind, and a worker    *)
(* that was joined has nothing left to say.                                *)
EndInv ==
    /\ closed \in BOOLEAN /\ worker_joined \in BOOLEAN /\ mailbox_dropped \in Nat
    /\ main \notin {"final", "exited"} => ~closed /\ worker_joined
    /\ closed => ~worker_joined
    /\ mailbox_dropped > 0 => closed
    /\ main = "last_handle" \/ (main \in {"final", "exited"} /\ worker_joined) =>
           worker_pc = "done" /\ queue = <<>>

(* The relay has a client exactly while the core has one.                  *)
SocketInv ==
    /\ client_open \in BOOLEAN
    /\ main # "exited" => (client_open <=> client_connected)
    /\ connects \in 0 .. MaxClients
    /\ clients_accepted + clients_refused + (IF backlog = "none" THEN 0 ELSE 1) <= connects

(* Before the stop, nothing has ended for relay_stop.                      *)
Allowed ==
    {e \in Events : e.kind = "ended" /\ e.end = "relay_stop" => worker_stop_requested}

EventsInv ==
    /\ taken \in Seq(Allowed) /\ Len(taken) <= MailboxCapacity
    /\ queue \in Seq(Allowed) /\ Len(queue) <= MailboxCapacity

(* What the core has been told: the subscription that is open, and how many*)
(* messages and subscriptions there were.                                  *)
Views == [open : Nat, messages : Nat, subscribed : Nat]

IsOne(event, kind) == IF event.kind = kind THEN 1 ELSE 0

Fits(view, event) ==
    /\ event.kind \in {"message", "ended"} => view.open = event.n
    /\ event.kind \in {"subscribed", "lost"} => view.open = 0

Told(view, event) ==
    [open       |-> IF event.kind = "subscribed" THEN event.n
                    ELSE IF event.kind = "ended" THEN 0 ELSE view.open,
     messages   |-> view.messages + IsOne(event, "message"),
     subscribed |-> view.subscribed + IsOne(event, "subscribed")]

(* views[i] is the view after the first i events of s.                     *)
Replays(views, s) ==
    /\ views \in [0 .. Len(s) -> Views]
    /\ \A i \in 1 .. Len(s) :
           Fits(views[i - 1], s[i]) /\ views[i] = Told(views[i - 1], s[i])
    /\ \A i \in 0 .. Len(s) :
           /\ views[i].messages <= views[Len(s)].messages
           /\ views[i].subscribed <= views[Len(s)].subscribed

CoreMatches(view) ==
    /\ view.messages = messages_read
    /\ phases_started <= clients_accepted + view.subscribed
    /\ subscribed => view.open = subscription /\ subscription > 0
    /\ listening /\ ~subscribed => view.open = 0

WorkerMatches(view) ==
    /\ view.open = fed
    /\ view.messages + WorkerProofs!MessagesLeft <= lib_messages
    /\ view.subscribed + WorkerProofs!SubscriptionsLeft <= subscriptions

(* The events between the two threads lead from what the core was told to  *)
(* what the worker has posted.                                             *)
PipelineInv ==
    ~closed =>
        \E views : /\ Replays(views, taken \o queue)
                   /\ CoreMatches(views[0])
                   /\ WorkerMatches(views[Len(taken \o queue)])

ProcessInv == PlaceInv /\ EndInv /\ SocketInv /\ EventsInv /\ PipelineInv

-----------------------------------------------------------------------------
(* The events, and their replay.                                           *)

LEMMA EventFields ==
    ASSUME NEW e \in Events
    PROVE  /\ e.kind \in {"subscribed", "message", "ended", "lost", "other"}
           /\ e.kind \in {"subscribed", "message", "ended"} => e.n \in 1 .. MaxSubscriptions
           /\ e.kind = "message" => e.slot \in Core!Slots
           /\ e.kind = "ended" => e.end \in Worker!Ends
<1>1. CASE e \in {Worker!Other, Worker!Lost}
  BY <1>1 DEF Worker!Other, Worker!Lost
<1>2. CASE \E n \in 1 .. MaxSubscriptions : e = Worker!Subscribed(n)
  BY <1>2 DEF Worker!Subscribed
<1>3. CASE \E n \in 1 .. MaxSubscriptions, s \in Core!Slots : e = Worker!Message(n, s)
  BY <1>3 DEF Worker!Message
<1>4. CASE \E n \in 1 .. MaxSubscriptions, end \in Worker!Ends : e = Worker!Ended(n, end)
  BY <1>4 DEF Worker!Ended
<1> QED
  BY <1>1, <1>2, <1>3, <1>4 DEF Events

(* What is told is a view again, and the counts only grow.                 *)
LEMMA ToldIsAView ==
    ASSUME NEW view \in Views, NEW e \in Events
    PROVE  /\ Told(view, e) \in Views
           /\ Told(view, e).messages = view.messages + IsOne(e, "message")
           /\ Told(view, e).subscribed = view.subscribed + IsOne(e, "subscribed")
           /\ Told(view, e).open = IF e.kind = "subscribed" THEN e.n
                                   ELSE IF e.kind = "ended" THEN 0 ELSE view.open
           /\ IsOne(e, "message") \in {0, 1} /\ IsOne(e, "subscribed") \in {0, 1}
<1>1. e.kind = "subscribed" => e.n \in Nat
  BY EventFields, PartAssumptions DEF WorkerProofs!WorkerAssumption
<1>2. IsOne(e, "message") \in {0, 1} /\ IsOne(e, "subscribed") \in {0, 1}
  BY DEF IsOne
<1> QED
  BY <1>1, <1>2 DEF Views, Told

LEMMA ReplayOfAPost ==
    ASSUME NEW s \in Seq(Events), NEW e \in Events, NEW views, Replays(views, s),
           Fits(views[Len(s)], e)
    PROVE  \E more : /\ Replays(more, Append(s, e))
                     /\ more[0] = views[0]
                     /\ more[Len(Append(s, e))] = Told(views[Len(s)], e)
<1> DEFINE n == Len(s)
           t == Append(s, e)
           more == [i \in 0 .. n + 1 |-> IF i = n + 1 THEN Told(views[n], e) ELSE views[i]]
<1>1. /\ n \in Nat /\ Len(t) = n + 1
      /\ \A i \in 1 .. n : t[i] = s[i]
      /\ t[n + 1] = e
  BY AppendProperties, LenProperties
<1>2. views \in [0 .. n -> Views] /\ views[n] \in Views
  BY <1>1 DEF Replays
<1>3. more[n + 1] = Told(views[n], e) /\ \A i \in 0 .. n : more[i] = views[i]
  BY <1>1
<1>4. more \in [0 .. n + 1 -> Views]
  BY <1>1, <1>2, ToldIsAView
<1>5. ASSUME NEW i \in 1 .. n + 1
      PROVE  Fits(more[i - 1], t[i]) /\ more[i] = Told(more[i - 1], t[i])
  <2>1. CASE i = n + 1
    BY <1>1, <1>3, <2>1
  <2>2. CASE i \in 1 .. n
    <3>1. Fits(views[i - 1], s[i]) /\ views[i] = Told(views[i - 1], s[i])
      BY <2>2 DEF Replays
    <3> QED
      BY <1>1, <1>3, <2>2, <3>1
  <2> QED
    BY <1>1, <2>1, <2>2
<1>6. ASSUME NEW i \in 0 .. n + 1
      PROVE  /\ more[i].messages <= more[n + 1].messages
             /\ more[i].subscribed <= more[n + 1].subscribed
  <2> DEFINE new == Told(views[n], e)
  <2>1. /\ new \in Views
        /\ views[n].messages <= new.messages /\ views[n].subscribed <= new.subscribed
    <3>1. views[n].messages \in Nat /\ views[n].subscribed \in Nat
      BY <1>2 DEF Views
    <3>2. /\ new \in Views
          /\ new.messages = views[n].messages + IsOne(e, "message")
          /\ new.subscribed = views[n].subscribed + IsOne(e, "subscribed")
          /\ IsOne(e, "message") \in {0, 1} /\ IsOne(e, "subscribed") \in {0, 1}
      BY <1>2, ToldIsAView
    <3> HIDE DEF new
    <3> QED
      BY <3>1, <3>2
  <2>2. CASE i = n + 1
    BY <1>3, <2>1, <2>2 DEF Views
  <2>3. CASE i \in 0 .. n
    <3>1. views[i].messages <= views[n].messages /\ views[i].subscribed <= views[n].subscribed
      BY <2>3 DEF Replays
    <3>2. views[i] \in Views
      BY <1>2, <2>3
    <3> HIDE DEF new
    <3> QED
      BY <1>2, <1>3, <2>1, <2>3, <3>1, <3>2 DEF Views, new
  <2> QED
    BY <1>1, <2>2, <2>3
<1> HIDE DEF more, t, n
<1>7. Replays(more, t)
  BY <1>1, <1>4, <1>5, <1>6 DEF Replays
<1>8. more[0] = views[0] /\ more[Len(t)] = Told(views[n], e)
  BY <1>1, <1>3
<1> QED
  BY <1>7, <1>8 DEF t, n

LEMMA ReplayOfTheRest ==
    ASSUME NEW s \in Seq(Events), s # <<>>, NEW views, Replays(views, s)
    PROVE  /\ Fits(views[0], Head(s)) /\ views[0] \in Views
           /\ views[0].messages + IsOne(Head(s), "message") <= views[Len(s)].messages
           /\ views[0].subscribed + IsOne(Head(s), "subscribed") <= views[Len(s)].subscribed
           /\ \E rest : /\ Replays(rest, Tail(s))
                        /\ rest[0] = Told(views[0], Head(s))
                        /\ rest[Len(Tail(s))] = views[Len(s)]
<1> DEFINE n == Len(s)
           t == Tail(s)
           rest == [i \in 0 .. n - 1 |-> views[i + 1]]
<1>1. /\ n \in Nat \ {0} /\ Len(t) = n - 1 /\ Head(s) = s[1] /\ s[1] \in Events
      /\ \A i \in 1 .. n - 1 : t[i] = s[i + 1]
  BY HeadTailProperties, LenProperties, EmptySeq
<1>2. views \in [0 .. n -> Views]
  BY DEF Replays
<1>3. \A i \in 0 .. n - 1 : rest[i] = views[i + 1]
  OBVIOUS
<1>4. rest \in [0 .. n - 1 -> Views]
  BY <1>1, <1>2
<1>5. Fits(views[0], s[1]) /\ views[1] = Told(views[0], s[1])
  <2>1. Fits(views[1 - 1], s[1]) /\ views[1] = Told(views[1 - 1], s[1])
    BY <1>1 DEF Replays
  <2> QED
    BY <2>1
<1>6. ASSUME NEW i \in 1 .. n - 1
      PROVE  Fits(rest[i - 1], t[i]) /\ rest[i] = Told(rest[i - 1], t[i])
  <2>1. Fits(views[(i + 1) - 1], s[i + 1]) /\ views[i + 1] = Told(views[(i + 1) - 1], s[i + 1])
    BY <1>1 DEF Replays
  <2>2. (i + 1) - 1 = i /\ i - 1 \in 0 .. n - 1 /\ i \in 0 .. n - 1 /\ (i - 1) + 1 = i
    BY <1>1
  <2>3. rest[i - 1] = views[i] /\ rest[i] = views[i + 1]
    BY <1>3, <2>2
  <2> QED
    BY <1>1, <2>1, <2>2, <2>3
<1>7. ASSUME NEW i \in 0 .. n - 1
      PROVE  /\ rest[i].messages <= rest[n - 1].messages
             /\ rest[i].subscribed <= rest[n - 1].subscribed
  <2>1. views[i + 1].messages <= views[n].messages /\ views[i + 1].subscribed <= views[n].subscribed
    BY <1>1 DEF Replays
  <2>2. rest[i] = views[i + 1] /\ rest[n - 1] = views[n]
    BY <1>1, <1>3
  <2> QED
    BY <2>1, <2>2
<1>8. views[1].messages <= views[n].messages /\ views[1].subscribed <= views[n].subscribed
  BY <1>1 DEF Replays
<1>9. views[0] \in Views
  BY <1>1, <1>2
<1> HIDE DEF rest, t, n
<1>10. Replays(rest, t)
  BY <1>1, <1>4, <1>6, <1>7 DEF Replays
<1>11. rest[0] = Told(views[0], Head(s)) /\ rest[Len(t)] = views[n]
  BY <1>1, <1>3, <1>5
<1>12. /\ views[0].messages + IsOne(Head(s), "message") <= views[n].messages
       /\ views[0].subscribed + IsOne(Head(s), "subscribed") <= views[n].subscribed
  BY <1>1, <1>5, <1>8, <1>9, ToldIsAView
<1> QED
  BY <1>1, <1>5, <1>9, <1>10, <1>11, <1>12 DEF t, n

-----------------------------------------------------------------------------
(* The process runs the worker.                                            *)

LEMMA WorkOfTheWorker ==
    ASSUME Worker!Turn \/ Worker!CallReturns
    PROVE  /\ outbox = <<>> /\ worker_pc # "done"
           /\ UNCHANGED <<worker_stop_requested, fed, fed_lost>>
BY SameWorker, PartAssumptions, WorkerProofs!WorkKeeps

LEMMA PostOfTheWorker ==
    ASSUME Worker!Post
    PROVE  /\ outbox # <<>> /\ outbox' = Tail(outbox)
           /\ fed' = IF Head(outbox).kind = "subscribed" THEN Head(outbox).n
                     ELSE IF Head(outbox).kind = "ended" THEN 0 ELSE fed
           /\ UNCHANGED <<worker_pc, worker_stop_requested, worker_subscribed, subscriptions,
                          lib_messages>>
BY SameWorker, PartAssumptions, WorkerProofs!PostKeeps

LEMMA StepOfTheLibrary ==
    ASSUME Worker!LibraryStep \/ Worker!Arrival
    PROVE  UNCHANGED <<worker_pc, worker_stop_requested, worker_subscribed, subscriptions,
                       outbox, fed, fed_lost, lib_messages>>
BY SameWorker, PartAssumptions, WorkerProofs!LibraryKeeps

(* The main thread leaves the worker alone, but for the stop request.      *)
LEMMA MainLeavesTheWorker ==
    ASSUME MainStep, ~BeginStop
    PROVE  UNCHANGED workerVars
BY DEF MainStep, Listen, Poll, Drain, Handle, Accept, ReadClient, Tick, WaitForWorker, WaitEnds,
       Join, LeaveBehind, Exit, TakeEvents

LEMMA EnvironmentLeavesTheWorker ==
    ASSUME IngressConnects \/ IngressGoes \/ StopSignal
    PROVE  UNCHANGED workerVars
BY DEF IngressConnects, IngressGoes, StopSignal

(* The stop is requested once, where the main thread leaves its loop.      *)
StopInv ==
    /\ worker_stop_requested \in BOOLEAN
    /\ worker_stop_requested => main \in Stopping

LEMMA StopCorrect == Spec => []StopInv
<1>1. Init => StopInv
  BY DEF Init, Worker!Init, StopInv
<1>2. StopInv /\ [Next]_vars => StopInv'
  <2> SUFFICES ASSUME StopInv, [Next]_vars PROVE StopInv'
    OBVIOUS
  <2>1. CASE WorkerStep \/ WorkerPosts \/ LibraryStep
    <3>1. UNCHANGED <<worker_stop_requested, main>>
      BY <2>1, WorkOfTheWorker, PostOfTheWorker, StepOfTheLibrary
         DEF WorkerStep, WorkerPosts, LibraryStep, mainVars
    <3> QED
      BY <3>1 DEF StopInv
  <2>2. CASE IngressConnects \/ IngressGoes \/ StopSignal \/ UNCHANGED vars
    <3>1. UNCHANGED <<worker_stop_requested, main>>
      BY <2>2 DEF IngressConnects, IngressGoes, StopSignal, vars, workerVars, mainVars
    <3> QED
      BY <3>1 DEF StopInv
  <2>3. CASE BeginStop
    BY <2>3 DEF BeginStop, Worker!RequestStop, StopInv, Stopping
  <2>4. CASE MainStep /\ ~BeginStop
    <3>1. UNCHANGED worker_stop_requested
      BY <2>4, MainLeavesTheWorker DEF workerVars
    <3>2. main \in Stopping => main' \in Stopping
      BY <2>4 DEF MainStep, Listen, Poll, Drain, Handle, Accept, ReadClient, Tick, WaitForWorker,
             WaitEnds, Join, LeaveBehind, Exit, TakeEvents, AfterEvents, Handlers, Stopping
    <3> QED
      BY <3>1, <3>2 DEF StopInv
  <2> QED
    BY <2>1, <2>2, <2>3, <2>4 DEF Next
<1> QED
  BY <1>1, <1>2, PTL DEF Spec

(* Every step of the process is a step of the worker or leaves it alone.   *)
LEMMA StepOfTheWorker ==
    ASSUME StopInv, [Next]_vars
    PROVE  [Worker!Next]_Worker!workerVars
<1>1. UNCHANGED workerVars => UNCHANGED Worker!workerVars
  BY DEF workerVars, Worker!workerVars, Worker!controlVars, Worker!inboxVars, Worker!clientVars,
         Worker!subVars, Worker!libVars, Worker!feedVars
<1>2. CASE WorkerStep \/ WorkerPosts \/ LibraryStep
  BY <1>2 DEF WorkerStep, WorkerPosts, LibraryStep, Worker!Next
<1>3. CASE BeginStop
  <2>1. ~worker_stop_requested
    BY <1>3 DEF BeginStop, StopInv, Stopping
  <2> QED
    BY <1>3, <2>1 DEF BeginStop, Worker!Next
<1>4. CASE (MainStep /\ ~BeginStop) \/ IngressConnects \/ IngressGoes \/ StopSignal
  BY <1>1, <1>4, MainLeavesTheWorker, EnvironmentLeavesTheWorker
<1>5. CASE UNCHANGED vars
  BY <1>1, <1>5 DEF vars
<1> QED
  BY <1>2, <1>3, <1>4, <1>5 DEF Next

(* The theorems about the worker hold in the process.                      *)
THEOREM ProcessRunsTheWorker == Spec => Worker!Spec
<1>1. Init => Worker!Init
  BY DEF Init
<1>2. StopInv /\ [Next]_vars => [Worker!Next]_Worker!workerVars
  BY StepOfTheWorker
<1> QED
  BY <1>1, <1>2, StopCorrect, PTL DEF Spec, Worker!Spec

WorkerInv ==
    /\ WorkerProofs!CallInv /\ WorkerProofs!NumberInv /\ WorkerProofs!FeedInv
    /\ WorkerProofs!QuietInv

LEMMA WorkerInvCorrect == Spec => []WorkerInv
<1>1. Init => WorkerProofs!Init
  BY SameWorker DEF Init
<1>2. StopInv /\ [Next]_vars => [WorkerProofs!Next]_WorkerProofs!workerVars
  <2> SUFFICES ASSUME StopInv, [Next]_vars PROVE [WorkerProofs!Next]_WorkerProofs!workerVars
    OBVIOUS
  <2>1. [Worker!Next]_Worker!workerVars
    BY StepOfTheWorker
  <2>2. Worker!Next => WorkerProofs!Next
    BY SameWorker, Zenon DEF Worker!Next, WorkerProofs!Next
  <2>3. UNCHANGED Worker!workerVars => UNCHANGED WorkerProofs!workerVars
    BY DEF Worker!workerVars, WorkerProofs!workerVars, Worker!controlVars,
           WorkerProofs!controlVars, Worker!inboxVars, WorkerProofs!inboxVars,
           Worker!clientVars, WorkerProofs!clientVars, Worker!subVars, WorkerProofs!subVars,
           Worker!libVars, WorkerProofs!libVars, Worker!feedVars, WorkerProofs!feedVars
  <2> QED
    BY <2>1, <2>2, <2>3
<1>3. Spec => WorkerProofs!Spec
  BY <1>1, <1>2, StopCorrect, PTL DEF Spec, WorkerProofs!Spec
<1>4. WorkerProofs!Spec => []WorkerProofs!CallInv
  BY WorkerProofs!CallsCorrect, PartAssumptions, PTL
<1>5. WorkerProofs!Spec => []WorkerProofs!FeedInv
  BY WorkerProofs!FeedCorrect, PartAssumptions, PTL
<1>6. WorkerProofs!Spec => [](WorkerProofs!NumberInv /\ WorkerProofs!NotificationInv)
  BY WorkerProofs!NotificationsCorrect, PartAssumptions, PTL
<1>7. WorkerProofs!Spec => []WorkerProofs!QuietInv
  BY WorkerProofs!QuietCorrect, PartAssumptions, PTL
<1> QED
  BY <1>3, <1>4, <1>5, <1>6, <1>7, PTL DEF WorkerInv

-----------------------------------------------------------------------------
(* What the core does with what it is told.                                *)

CoreInv == CoreProofs!TypeOK /\ CoreProofs!PhaseHoldsBothConditions

LEMMA CoreFacts ==
    ASSUME CoreInv
    PROVE  /\ subscribed \in BOOLEAN /\ client_connected \in BOOLEAN /\ in_phase \in BOOLEAN
           /\ listening \in BOOLEAN
           /\ in_phase <=> subscribed /\ client_connected
           /\ ingress_triggers \in Nat /\ messages_read \in Nat /\ phases_started \in Nat
           /\ clients_accepted \in Nat /\ clients_refused \in Nat /\ frames_delivered \in Nat
BY DEF CoreInv, CoreProofs!TypeOK, CoreProofs!FlagTypes, CoreProofs!NumberTypes,
       CoreProofs!PhaseHoldsBothConditions, CoreProofs!PhaseHolds

(* A phase starts only where both conditions hold.                         *)
LEMMA PhasesStarted ==
    ASSUME CoreInv, NEW caused, Core!UpdatePhase(caused)
    PROVE  /\ phases_started' \in {phases_started, phases_started + 1}
           /\ ~(subscribed' /\ client_connected') => phases_started' = phases_started
BY DEF Core!UpdatePhase, Core!PhaseHolds, Core!StartPhase, Core!EndPhase, Core!phaseVars,
       Core!phaseCounts

LEMMA ListeningEffect ==
    ASSUME CoreInv, Core!OnListening
    PROVE  /\ listening' = TRUE /\ ingress_triggers' = ingress_triggers + 1
           /\ UNCHANGED <<subscribed, subscription, client_connected, clients_accepted,
                          clients_refused, phases_started, messages_read>>
BY DEF Core!OnListening, Core!subVars, Core!clientVars, Core!phaseVars, Core!phaseCounts,
       Core!frameVars

LEMMA TickEffect ==
    ASSUME CoreInv, NEW elapsed, Core!OnTick(elapsed)
    PROVE  /\ ingress_triggers' \in {ingress_triggers, ingress_triggers + 1}
           /\ UNCHANGED <<listening, subscribed, subscription, client_connected,
                          clients_accepted, clients_refused, phases_started, messages_read>>
BY DEF Core!OnTick, Core!subVars, Core!clientVars, Core!phaseVars, Core!phaseCounts,
       Core!frameVars

LEMMA AcceptEffect ==
    ASSUME CoreInv, NEW at, Core!OnClientAccepted(at)
    PROVE  /\ ~client_connected /\ client_connected' = TRUE
           /\ clients_accepted' = clients_accepted + 1
           /\ phases_started' \in {phases_started, phases_started + 1}
           /\ UNCHANGED <<listening, ingress_triggers, subscribed, subscription,
                          clients_refused, messages_read>>
BY PhasesStarted DEF Core!OnClientAccepted, Core!subVars, Core!frameVars

LEMMA RefuseEffect ==
    ASSUME CoreInv, Core!OnClientRefused
    PROVE  /\ clients_refused' = clients_refused + 1
           /\ UNCHANGED <<listening, ingress_triggers, subscribed, subscription,
                          client_connected, clients_accepted, phases_started, messages_read>>
BY DEF Core!OnClientRefused, Core!subVars, Core!phaseVars, Core!phaseCounts, Core!triggerVars,
       Core!frameVars

LEMMA LoseEffect ==
    ASSUME CoreInv, Core!LoseClient
    PROVE  /\ client_connected' = FALSE
           /\ UNCHANGED <<subscribed, subscription, clients_accepted, clients_refused,
                          phases_started>>
BY PhasesStarted DEF Core!LoseClient, Core!subVars

LEMMA DisconnectEffect ==
    ASSUME CoreInv, Core!OnClientDisconnected
    PROVE  /\ client_connected' = FALSE
           /\ UNCHANGED <<listening, ingress_triggers, subscribed, subscription,
                          clients_accepted, clients_refused, phases_started, messages_read>>
BY LoseEffect DEF Core!OnClientDisconnected, Core!triggerVars, Core!frameVars

LEMMA StopEffect ==
    ASSUME CoreInv, Core!Stop
    PROVE  /\ listening' = FALSE
           /\ subscribed' => subscribed
           /\ UNCHANGED <<ingress_triggers, subscription, client_connected, clients_accepted,
                          clients_refused, phases_started, messages_read>>
<1>1. CASE in_phase
  BY <1>1, PhasesStarted DEF Core!Stop, Core!clientVars, Core!frameVars
<1>2. CASE ~in_phase
  <2>1. /\ listening' = FALSE
        /\ UNCHANGED <<subscribed, ingress_triggers, subscription, client_connected,
                       clients_accepted, clients_refused, phases_started, messages_read>>
    BY <1>2 DEF Core!Stop, Core!subVars, Core!clientVars, Core!phaseVars, Core!phaseCounts,
           Core!frameVars
  <2> QED
    BY <2>1, CoreFacts
<1> QED
  BY <1>1, <1>2

(* One event: what it does to the subscription, the counts and the client. *)
EventEffects(event) ==
    /\ messages_read' = messages_read + IsOne(event, "message")
    /\ phases_started' \in Nat
    /\ phases_started' <= phases_started + IsOne(event, "subscribed")
    /\ event.kind = "subscribed" => subscribed' = TRUE /\ subscription' = event.n
    /\ event.kind = "ended" =>
           /\ subscription' = subscription
           /\ subscribed' => subscribed /\ subscription # event.n
    /\ event.kind = "lost" => subscribed' = FALSE
    /\ event.kind \in {"message", "other"} => UNCHANGED <<subscribed, subscription>>
    /\ ingress_triggers' \in {ingress_triggers, ingress_triggers + 1}
    /\ UNCHANGED <<listening, clients_accepted, clients_refused, connects, backlog>>
    /\ client_open' \in BOOLEAN
    /\ client_open' <=> client_connected'

LEMMA SubscriptionEffect ==
    ASSUME CoreInv, NEW event \in Events, event.kind \in {"subscribed", "ended", "lost"},
           HandleEvent(event), client_open \in BOOLEAN, client_open <=> client_connected
    PROVE  EventEffects(event)
<1> USE DEF IsOne, Core!subVars, Core!clientVars, Core!phaseVars, Core!phaseCounts,
            Core!triggerVars, Core!frameVars, socketVars
<1>1. phases_started \in Nat /\ messages_read \in Nat
  BY CoreFacts
<1>2. CASE event.kind = "subscribed"
  <2>1. PICK at \in Times : Core!OnSubscribed(event.n, at) /\ UNCHANGED socketVars
    BY <1>2 DEF HandleEvent
  <2>2. /\ subscribed' = TRUE /\ subscription' = event.n
        /\ phases_started' \in {phases_started, phases_started + 1}
        /\ UNCHANGED <<messages_read, ingress_triggers, listening, clients_accepted,
                       clients_refused, connects, backlog, client_open, client_connected>>
    BY <2>1, PhasesStarted DEF Core!OnSubscribed
  <2> QED
    BY <1>1, <1>2, <2>2, CoreFacts DEF EventEffects
<1>3. CASE event.kind = "ended"
  <2>1. Core!OnSubscriptionEnded(event.n, event.end) /\ UNCHANGED socketVars
    BY <1>3 DEF HandleEvent
  <2> QED
    BY <1>1, <1>3, <2>1, PhasesStarted DEF Core!OnSubscriptionEnded, EventEffects
<1>4. CASE event.kind = "lost"
  <2>1. Core!OnClientLost /\ UNCHANGED socketVars
    BY <1>4 DEF HandleEvent
  <2>2. subscribed' = FALSE
    BY <2>1, CoreFacts, Zenon DEF Core!OnClientLost
  <2>3. phases_started' = phases_started
    BY <2>1, <2>2, PhasesStarted DEF Core!OnClientLost
  <2>4. UNCHANGED <<messages_read, ingress_triggers, listening, clients_accepted,
                    clients_refused, connects, backlog, client_open, client_connected>>
    BY <2>1 DEF Core!OnClientLost
  <2> QED
    BY <1>1, <1>4, <2>2, <2>3, <2>4, CoreFacts DEF EventEffects
<1> QED
  BY <1>2, <1>3, <1>4

LEMMA MessageEffect ==
    ASSUME CoreInv, NEW event \in Events, event.kind \in {"message", "other"},
           HandleEvent(event), client_open \in BOOLEAN, client_open <=> client_connected
    PROVE  EventEffects(event)
<1> USE DEF IsOne, Core!subVars, Core!clientVars, Core!phaseVars, Core!phaseCounts,
            Core!triggerVars, Core!frameVars, socketVars
<1>1. phases_started \in Nat /\ messages_read \in Nat /\ ingress_triggers \in Nat
  BY CoreFacts
<1>2. CASE event.kind = "other"
  BY <1>1, <1>2 DEF HandleEvent, EventEffects, coreVars
<1>3. CASE event.kind = "message"
  <2>1. ForwardSlot(event.slot)
    BY <1>3 DEF HandleEvent
  <2>2. CASE Core!DropSlot(event.slot) /\ UNCHANGED socketVars
    BY <1>1, <1>3, <2>2 DEF Core!DropSlot, Core!Drop, EventEffects
  <2>3. CASE Core!ServeSlot(event.slot) /\ UNCHANGED socketVars
    BY <1>1, <1>3, <2>3 DEF Core!ServeSlot, EventEffects
  <2>4. CASE Core!WriteFailed(event.slot) /\ CloseClient
    <3>1. /\ client_open' = FALSE /\ client_connected' = FALSE
          /\ UNCHANGED <<subscribed, subscription, clients_accepted, clients_refused,
                         phases_started, connects, backlog>>
      BY <2>4, LoseEffect DEF Core!WriteFailed, CloseClient
    <3>2. messages_read' = messages_read + 1 /\ UNCHANGED listening
      BY <2>4 DEF Core!WriteFailed, Core!Drop, Core!RearmIngressTrigger
    <3>3. ingress_triggers' \in {ingress_triggers, ingress_triggers + 1}
      BY <2>4 DEF Core!WriteFailed, Core!RearmIngressTrigger
    <3>4. client_open' \in BOOLEAN /\ (client_open' <=> client_connected')
      BY <3>1
    <3> QED
      BY <1>1, <1>3, <3>1, <3>2, <3>3, <3>4 DEF EventEffects
  <2>5. CASE Core!WriteStopped(event.slot) /\ CloseClient
    <3>1. /\ client_open' = FALSE /\ client_connected' = FALSE
          /\ UNCHANGED <<subscribed, subscription, clients_accepted, clients_refused,
                         phases_started, connects, backlog>>
      BY <2>5, LoseEffect DEF Core!WriteStopped, CloseClient
    <3>2. messages_read' = messages_read + 1 /\ UNCHANGED <<listening, ingress_triggers>>
      BY <2>5 DEF Core!WriteStopped, Core!Drop
    <3>4. client_open' \in BOOLEAN /\ (client_open' <=> client_connected')
      BY <3>1
    <3> QED
      BY <1>1, <1>3, <3>1, <3>2, <3>4 DEF EventEffects
  <2> QED
    BY <2>1, <2>2, <2>3, <2>4, <2>5 DEF ForwardSlot
<1> QED
  BY <1>2, <1>3

-----------------------------------------------------------------------------
(* The place of the main thread.                                           *)

LEMMA HandlersAre ==
    /\ Handlers = {"handle", "wait_handle", "last_handle"}
    /\ AfterEvents["handle"] = "accept" /\ AfterEvents["wait_handle"] = "wait"
    /\ AfterEvents["last_handle"] = "final"
BY DEF Handlers, AfterEvents

(* The steps that are not of the main thread.                              *)
OtherThreads == WorkerStep \/ WorkerPosts \/ LibraryStep
Environment  == IngressConnects \/ IngressGoes \/ StopSignal

LEMMA OtherThreadsLeave ==
    ASSUME OtherThreads
    PROVE  /\ Started
           /\ UNCHANGED <<coreVars, main, taken, worker_joined, exit_code, client_open,
                          connects, backlog, worker_stop_requested>>
BY WorkOfTheWorker, PostOfTheWorker, StepOfTheLibrary
   DEF OtherThreads, WorkerStep, WorkerPosts, LibraryStep, mainVars, exitVars, socketVars

LEMMA EnvironmentLeaves ==
    ASSUME Environment \/ UNCHANGED vars
    PROVE  UNCHANGED <<coreVars, workerVars, mailboxVars, main, taken, worker_joined, exit_code,
                       client_open>>
BY DEF Environment, IngressConnects, IngressGoes, StopSignal, vars, mainVars, exitVars,
       socketVars

(* Every step of a process that is in place.                               *)
LEMMA StepCases ==
    ASSUME [Next]_vars
    PROVE  OtherThreads \/ Environment \/ UNCHANGED vars \/ MainStep
BY DEF Next, OtherThreads, Environment

LEMMA TakeEventsEffect ==
    ASSUME NEW handler \in {"handle", "wait_handle", "last_handle"}, TakeEvents(handler)
    PROVE  /\ taken' = queue /\ queue' = <<>>
           /\ main' = IF queue = <<>> THEN AfterEvents[handler] ELSE handler
           /\ UNCHANGED <<coreVars, workerVars, closed, mailbox_dropped, client_open, connects,
                          backlog, worker_joined, exit_code>>
BY DEF TakeEvents, Mailbox!TakeAll, socketVars, exitVars

LEMMA HandleEffect ==
    ASSUME CoreInv, PlaceInv, SocketInv, EventsInv, Handle
    PROVE  /\ taken # <<>> /\ Head(taken) \in Allowed /\ Head(taken) \in Events
           /\ main \in Handlers /\ taken' = Tail(taken)
           /\ main' = IF taken' = <<>> THEN AfterEvents[main] ELSE main
           /\ EventEffects(Head(taken))
           /\ UNCHANGED <<workerVars, mailboxVars, worker_joined, exit_code>>
<1>1. /\ main \in Handlers /\ taken' = Tail(taken) /\ HandleEvent(Head(taken))
      /\ main' = IF taken' = <<>> THEN AfterEvents[main] ELSE main
      /\ UNCHANGED <<workerVars, mailboxVars, worker_joined, exit_code>>
  BY DEF Handle, exitVars
<1>2. taken # <<>>
  BY <1>1 DEF PlaceInv
<1>3. Head(taken) \in Allowed /\ Head(taken) \in Events
  BY <1>2, HeadTailProperties DEF EventsInv, Allowed
<1>4. Head(taken).kind \in {"subscribed", "message", "ended", "lost", "other"}
  BY <1>3, EventFields
<1>5. client_open \in BOOLEAN /\ (client_open <=> client_connected)
  BY <1>1, HandlersAre DEF SocketInv
<1> QED
  BY <1>1, <1>2, <1>3, <1>4, <1>5, SubscriptionEffect, MessageEffect

LEMMA PlaceStep ==
    ASSUME CoreInv, PlaceInv, SocketInv, EventsInv, [Next]_vars
    PROVE  PlaceInv'
<1> USE HandlersAre DEF Serving, Stopping
<1>1. CASE OtherThreads
  <2>1. /\ main \notin {"start", "exited"}
        /\ UNCHANGED <<main, taken, listening, ingress_triggers, worker_stop_requested>>
    BY <1>1, OtherThreadsLeave DEF Started, coreVars
  <2> QED
    BY <2>1 DEF PlaceInv
<1>2. CASE Environment \/ UNCHANGED vars
  <2>1. UNCHANGED <<main, taken, listening, ingress_triggers, worker_stop_requested, queue, fed>>
    BY <1>2, EnvironmentLeaves DEF coreVars, workerVars, mailboxVars
  <2> QED
    BY <2>1 DEF PlaceInv
<1>3. CASE Listen
  <2>1. /\ main = "start" /\ main' = "turn" /\ UNCHANGED <<taken, worker_stop_requested>>
        /\ listening' = TRUE /\ ingress_triggers' = ingress_triggers + 1
    BY <1>3, ListeningEffect DEF Listen, workerVars
  <2> QED
    BY <2>1, CoreFacts DEF PlaceInv
<1>4. CASE Poll
  <2>1. /\ main = "turn" /\ main' \in {"drain", "accept"}
        /\ UNCHANGED <<taken, listening, ingress_triggers, worker_stop_requested>>
    BY <1>4 DEF Poll, coreVars, workerVars
  <2> QED
    BY <2>1 DEF PlaceInv
<1>5. ASSUME NEW handler \in Handlers, TakeEvents(handler),
             <<main, handler>> \in {<<"drain", "handle">>, <<"wait", "wait_handle">>,
                                    <<"join", "last_handle">>}
      PROVE  PlaceInv'
  <2>1. /\ taken' = queue
        /\ main' = IF queue = <<>> THEN AfterEvents[handler] ELSE handler
        /\ UNCHANGED <<listening, ingress_triggers, worker_stop_requested>>
    BY <1>5, TakeEventsEffect DEF coreVars, workerVars
  <2> QED
    BY <1>5, <2>1 DEF PlaceInv
<1>6. CASE Handle
  <2>1. /\ main \in Handlers
        /\ main' = IF taken' = <<>> THEN AfterEvents[main] ELSE main
        /\ UNCHANGED worker_stop_requested
    BY <1>6, HandleEffect DEF workerVars
  <2>2. UNCHANGED listening /\ ingress_triggers' \in {ingress_triggers, ingress_triggers + 1}
    BY <1>6, HandleEffect DEF EventEffects
  <2> QED
    BY <2>1, <2>2, CoreFacts DEF PlaceInv
<1>7. CASE Accept
  <2>1. main = "accept" /\ main' = "read" /\ UNCHANGED <<taken, worker_stop_requested>>
    BY <1>7 DEF Accept, workerVars
  <2>2. UNCHANGED <<listening, ingress_triggers>>
    BY <1>7, AcceptEffect, RefuseEffect DEF Accept, coreVars
  <2> QED
    BY <2>1, <2>2 DEF PlaceInv
<1>8. CASE ReadClient
  <2>1. main = "read" /\ main' = "tick" /\ UNCHANGED <<taken, worker_stop_requested>>
    BY <1>8 DEF ReadClient, workerVars
  <2>2. UNCHANGED <<listening, ingress_triggers>>
    BY <1>8, DisconnectEffect DEF ReadClient, coreVars
  <2> QED
    BY <2>1, <2>2 DEF PlaceInv
<1>9. CASE Tick
  <2>1. main = "tick" /\ main' = "turn" /\ UNCHANGED <<taken, worker_stop_requested>>
    BY <1>9 DEF Tick, workerVars
  <2>2. UNCHANGED listening /\ ingress_triggers' \in {ingress_triggers, ingress_triggers + 1}
    BY <1>9, TickEffect DEF Tick
  <2> QED
    BY <2>1, <2>2, CoreFacts DEF PlaceInv
<1>10. CASE BeginStop
  <2>1. main = "turn" /\ main' = "wait" /\ UNCHANGED taken /\ worker_stop_requested' = TRUE
    BY <1>10 DEF BeginStop, Worker!RequestStop
  <2>2. listening' = FALSE /\ UNCHANGED ingress_triggers
    BY <1>10, StopEffect DEF BeginStop
  <2> QED
    BY <2>1, <2>2 DEF PlaceInv
<1>11. CASE WaitEnds \/ LeaveBehind \/ Exit
  <2>1. /\ main \in {"wait", "join", "final"} /\ main' \in {"join", "final", "exited"}
        /\ UNCHANGED <<taken, listening, ingress_triggers, worker_stop_requested>>
    BY <1>11 DEF WaitEnds, LeaveBehind, Exit, coreVars, workerVars
  <2> QED
    BY <2>1 DEF PlaceInv
<1>12. CASE Drain \/ WaitForWorker \/ Join
  BY <1>5, <1>12 DEF Drain, WaitForWorker, Join
<1> QED
  BY <1>1, <1>2, <1>3, <1>4, <1>6, <1>7, <1>8, <1>9, <1>10, <1>11, <1>12, StepCases DEF MainStep

(* The mailbox closes when the worker is left behind, and not before.      *)
LEMMA EndStep ==
    ASSUME CoreInv, WorkerInv, PlaceInv, SocketInv, EventsInv, EndInv, [Next]_vars
    PROVE  EndInv'
<1> USE HandlersAre
<1> DEFINE Last == main = "last_handle" \/ (main \in {"final", "exited"} /\ worker_joined)
<1>1. ASSUME UNCHANGED <<closed, worker_joined, mailbox_dropped>>,
             main \in {"final", "exited"} => main' \in {"final", "exited"},
             ~Last'
      PROVE  EndInv'
  BY <1>1 DEF EndInv
<1>2. CASE WorkerStep
  <2>1. ~Last /\ UNCHANGED <<main, worker_joined>>
    BY <1>2, WorkOfTheWorker, OtherThreadsLeave DEF WorkerStep, EndInv, OtherThreads
  <2>2. UNCHANGED <<closed, mailbox_dropped>>
    BY <1>2 DEF WorkerStep, Mailbox!Wake, mailboxVars
  <2> QED
    BY <1>1, <2>1, <2>2
<1>3. CASE WorkerPosts
  <2>1. UNCHANGED <<main, worker_joined>>
    BY <1>3, OtherThreadsLeave DEF OtherThreads
  <2>2. ~Last
    BY <1>3, PostOfTheWorker DEF WorkerPosts, EndInv, WorkerInv, WorkerProofs!QuietInv
  <2>3. UNCHANGED closed
    BY <1>3 DEF WorkerPosts, Mailbox!Post
  <2>4. mailbox_dropped' \in Nat /\ (mailbox_dropped' > 0 => closed)
    BY <1>3 DEF WorkerPosts, Mailbox!Post, EndInv
  <2> QED
    BY <2>1, <2>2, <2>3, <2>4 DEF EndInv
<1>4. CASE LibraryStep
  <2>1. UNCHANGED <<main, worker_joined, worker_pc, closed, queue, mailbox_dropped>>
    BY <1>4, OtherThreadsLeave, StepOfTheLibrary DEF LibraryStep, OtherThreads, mailboxVars
  <2> QED
    BY <2>1 DEF EndInv
<1>5. CASE Environment \/ UNCHANGED vars
  <2>1. UNCHANGED <<main, worker_joined, worker_pc, closed, queue, mailbox_dropped>>
    BY <1>5, EnvironmentLeaves DEF workerVars, mailboxVars
  <2> QED
    BY <2>1 DEF EndInv
<1>6. CASE Listen \/ Poll \/ Accept \/ ReadClient \/ Tick \/ BeginStop \/ WaitEnds
  <2>1. /\ main' \in {"turn", "drain", "accept", "read", "tick", "wait", "join"}
        /\ main \notin {"final", "exited"}
        /\ UNCHANGED <<closed, worker_joined, mailbox_dropped>>
    BY <1>6 DEF Listen, Poll, Accept, ReadClient, Tick, BeginStop, WaitEnds, mailboxVars, exitVars
  <2> QED
    BY <1>1, <2>1
<1>7. CASE Drain \/ WaitForWorker
  <2>1. /\ main' \in {"handle", "accept", "wait_handle", "wait"}
        /\ main \notin {"final", "exited"}
        /\ UNCHANGED <<closed, worker_joined, mailbox_dropped>>
    BY <1>7, TakeEventsEffect DEF Drain, WaitForWorker
  <2> QED
    BY <1>1, <2>1
<1>8. CASE Join
  <2>1. /\ main = "join" /\ main' \in {"last_handle", "final"} /\ queue' = <<>>
        /\ worker_pc = "done"
        /\ UNCHANGED <<closed, worker_joined, mailbox_dropped, worker_pc>>
    BY <1>8, TakeEventsEffect DEF Join, worker_done, workerVars
  <2> QED
    BY <2>1 DEF EndInv
<1>9. CASE Handle
  <2>1. /\ main \in Handlers
        /\ main' = IF taken' = <<>> THEN AfterEvents[main] ELSE main
        /\ UNCHANGED <<closed, worker_joined, mailbox_dropped, worker_pc, queue>>
    BY <1>9, HandleEffect DEF workerVars, mailboxVars
  <2>2. CASE main = "last_handle"
    BY <2>1, <2>2 DEF EndInv
  <2>3. CASE main \in {"handle", "wait_handle"}
    <3>1. main' \in {"handle", "wait_handle", "accept", "wait"}
      BY <2>1, <2>3
    <3> QED
      BY <1>1, <2>1, <3>1
  <2> QED
    BY <2>1, <2>2, <2>3
<1>10. CASE LeaveBehind
  <2>1. /\ main' = "final" /\ closed' = TRUE /\ worker_joined' = FALSE
        /\ UNCHANGED mailbox_dropped
    BY <1>10 DEF LeaveBehind, Mailbox!Close
  <2> QED
    BY <2>1 DEF EndInv
<1>11. CASE Exit
  <2>1. /\ main = "final" /\ main' = "exited"
        /\ UNCHANGED <<closed, worker_joined, mailbox_dropped, worker_pc, queue>>
    BY <1>11 DEF Exit, workerVars, mailboxVars, exitVars
  <2> QED
    BY <2>1 DEF EndInv
<1> QED
  BY <1>2, <1>3, <1>4, <1>5, <1>6, <1>7, <1>8, <1>9, <1>10, <1>11, StepCases
     DEF MainStep, OtherThreads

(* Every connection is counted once: waiting, accepted or refused.         *)
LEMMA SocketStep ==
    ASSUME CoreInv, PlaceInv, SocketInv, EventsInv, [Next]_vars
    PROVE  SocketInv'
<1> USE HandlersAre
<1>0. clients_accepted \in Nat /\ clients_refused \in Nat /\ client_connected \in BOOLEAN
  BY CoreFacts
<1>1. ASSUME UNCHANGED <<client_open, client_connected, connects, backlog, clients_accepted,
                         clients_refused>>,
             main' = "exited" \/ main # "exited"
      PROVE  SocketInv'
  BY <1>1 DEF SocketInv
<1>2. CASE OtherThreads
  BY <1>1, <1>2, OtherThreadsLeave DEF coreVars, Started
<1>3. CASE StopSignal \/ UNCHANGED vars
  <2>1. UNCHANGED <<main, client_open, client_connected, connects, backlog, clients_accepted,
                    clients_refused>>
    BY <1>3 DEF StopSignal, vars, coreVars, socketVars, mainVars
  <2> QED
    BY <2>1 DEF SocketInv
<1>4. CASE IngressConnects
  <2>1. /\ backlog = "none" /\ backlog' = "up" /\ connects < MaxClients
        /\ connects' = connects + 1
        /\ UNCHANGED <<main, client_open, client_connected, clients_accepted, clients_refused>>
    BY <1>4 DEF IngressConnects, coreVars, mainVars
  <2>2. MaxClients \in Nat
    BY PartAssumptions DEF CoreProofs!CoreAssumption
  <2> QED
    BY <1>0, <2>1, <2>2 DEF SocketInv
<1>5. CASE IngressGoes
  <2>1. /\ backlog' = backlog \/ (backlog = "up" /\ backlog' = "gone")
        /\ UNCHANGED <<main, client_open, client_connected, connects, clients_accepted,
                       clients_refused>>
    BY <1>5 DEF IngressGoes, coreVars, mainVars
  <2> QED
    BY <1>0, <2>1 DEF SocketInv
<1>6. CASE Listen
  <2>1. /\ main = "start"
        /\ UNCHANGED <<client_open, client_connected, connects, backlog, clients_accepted,
                       clients_refused>>
    BY <1>6, ListeningEffect DEF Listen, socketVars
  <2> QED
    BY <1>1, <2>1
<1>7. CASE Poll \/ WaitEnds \/ LeaveBehind
  <2>1. /\ main # "exited"
        /\ UNCHANGED <<client_open, client_connected, connects, backlog, clients_accepted,
                       clients_refused>>
    BY <1>7 DEF Poll, WaitEnds, LeaveBehind, coreVars, socketVars
  <2> QED
    BY <1>1, <2>1
<1>8. CASE Drain \/ WaitForWorker \/ Join
  <2>1. /\ main # "exited"
        /\ UNCHANGED <<client_open, client_connected, connects, backlog, clients_accepted,
                       clients_refused>>
    BY <1>8, TakeEventsEffect DEF Drain, WaitForWorker, Join, coreVars
  <2> QED
    BY <1>1, <2>1
<1>9. CASE Handle
  <2>1. /\ client_open' \in BOOLEAN /\ (client_open' <=> client_connected')
        /\ UNCHANGED <<connects, backlog, clients_accepted, clients_refused>>
    BY <1>9, HandleEffect DEF EventEffects
  <2> QED
    BY <2>1 DEF SocketInv
<1>10. CASE Accept
  <2>0. main = "accept" /\ main' = "read" /\ client_open \in BOOLEAN
        /\ (client_open <=> client_connected)
    BY <1>10 DEF Accept, SocketInv
  <2>1. CASE \E at \in Times : /\ Core!OnClientAccepted(at) /\ client_open' = TRUE
                               /\ backlog # "none" /\ backlog' = "none" /\ connects' = connects
    <3>1. client_connected' = TRUE /\ clients_accepted' = clients_accepted + 1
          /\ clients_refused' = clients_refused
      BY <2>1, AcceptEffect
    <3>2. /\ client_open' = TRUE /\ backlog # "none" /\ backlog' = "none"
          /\ connects' = connects
      BY <2>1
    <3> QED
      BY <1>0, <3>1, <3>2 DEF SocketInv
  <2>2. CASE /\ Core!OnClientRefused /\ UNCHANGED client_open
             /\ backlog # "none" /\ backlog' = "none" /\ connects' = connects
    <3>1. UNCHANGED <<client_connected, clients_accepted>>
          /\ clients_refused' = clients_refused + 1
      BY <2>2, RefuseEffect
    <3>2. client_open' \in BOOLEAN /\ (client_open' <=> client_connected')
      BY <2>0, <2>2, <3>1
    <3> QED
      BY <1>0, <2>2, <3>1, <3>2 DEF SocketInv
  <2>3. CASE UNCHANGED <<coreVars, socketVars>>
    BY <1>1, <2>0, <2>3 DEF coreVars, socketVars
  <2> QED
    BY <1>10, <2>1, <2>2, <2>3 DEF Accept
<1>11. CASE ReadClient
  <2>0. main = "read"
    BY <1>11 DEF ReadClient
  <2>1. CASE CloseClient /\ Core!OnClientDisconnected
    <3>1. /\ client_open' = FALSE /\ client_connected' = FALSE
          /\ UNCHANGED <<connects, backlog, clients_accepted, clients_refused>>
      BY <2>1, DisconnectEffect DEF CloseClient
    <3> QED
      BY <3>1 DEF SocketInv
  <2>2. CASE UNCHANGED <<coreVars, socketVars>>
    BY <1>1, <2>0, <2>2 DEF coreVars, socketVars
  <2> QED
    BY <1>11, <2>1, <2>2 DEF ReadClient
<1>12. CASE Tick
  <2>1. /\ main = "tick"
        /\ UNCHANGED <<client_open, client_connected, connects, backlog, clients_accepted,
                       clients_refused>>
    BY <1>12, TickEffect DEF Tick, socketVars
  <2> QED
    BY <1>1, <2>1
<1>13. CASE BeginStop
  <2>1. /\ main = "turn"
        /\ UNCHANGED <<client_open, client_connected, connects, backlog, clients_accepted,
                       clients_refused>>
    BY <1>13, StopEffect DEF BeginStop, socketVars
  <2> QED
    BY <1>1, <2>1
<1>14. CASE Exit
  <2>1. /\ main' = "exited" /\ client_open' = FALSE
        /\ UNCHANGED <<connects, backlog, clients_accepted, clients_refused>>
    BY <1>14 DEF Exit, coreVars
  <2> QED
    BY <2>1 DEF SocketInv
<1> QED
  BY <1>2, <1>3, <1>4, <1>5, <1>6, <1>7, <1>8, <1>9, <1>10, <1>11, <1>12, <1>13, <1>14, StepCases
     DEF MainStep, Environment

-----------------------------------------------------------------------------
(* The events on their way.                                                *)

LEMMA RequestStays ==
    ASSUME PlaceInv, [Next]_vars
    PROVE  /\ Allowed \subseteq Allowed'
           /\ UNCHANGED worker_stop_requested \/ worker_stop_requested' = TRUE
<1>1. UNCHANGED worker_stop_requested \/ worker_stop_requested' = TRUE
  <2>1. CASE OtherThreads
    BY <2>1, OtherThreadsLeave
  <2>2. CASE Environment \/ UNCHANGED vars
    BY <2>2, EnvironmentLeaves DEF workerVars
  <2>3. CASE BeginStop
    BY <2>3 DEF BeginStop, Worker!RequestStop
  <2>4. CASE MainStep /\ ~BeginStop
    BY <2>4, MainLeavesTheWorker DEF workerVars
  <2> QED
    BY <2>1, <2>2, <2>3, <2>4, StepCases
<1>2. ASSUME NEW e \in Allowed PROVE e \in Allowed'
  BY <1>1 DEF Allowed, PlaceInv
<1> QED
  BY <1>1, <1>2

(* What the worker posts next may be posted.                               *)
LEMMA NextIsAllowed ==
    ASSUME WorkerInv, outbox # <<>>
    PROVE  Head(outbox) \in Allowed
<1>1. WorkerProofs!Posted = Events
  BY RelayAssumption
     DEF WorkerProofs!Posted, Events, WorkerProofs!Other, Worker!Other, WorkerProofs!Lost,
         Worker!Lost, WorkerProofs!Subscribed, Worker!Subscribed, WorkerProofs!Message,
         Worker!Message, WorkerProofs!Ended, Worker!Ended, WorkerProofs!Ends, Worker!Ends
<1>2. /\ Head(outbox) \in WorkerProofs!Posted
      /\ Head(outbox).kind = "ended" /\ Head(outbox).end = "relay_stop" => worker_stop_requested
  BY PartAssumptions, WorkerProofs!FirstIsPosted DEF WorkerInv
<1> QED
  BY <1>1, <1>2 DEF Allowed

LEMMA EventsStep ==
    ASSUME CoreInv, WorkerInv, PlaceInv, SocketInv, EventsInv, [Next]_vars
    PROVE  EventsInv'
<1> USE HandlersAre
<1>0. \A s \in Seq(Allowed) : s \in Seq(Allowed')
  BY RequestStays, SeqMonotonic
<1>1. ASSUME UNCHANGED <<taken, queue>> PROVE EventsInv'
  BY <1>0, <1>1 DEF EventsInv
<1>2. CASE WorkerStep \/ LibraryStep
  <2>1. UNCHANGED <<taken, queue>>
    BY <1>2 DEF WorkerStep, LibraryStep, Mailbox!Wake, mailboxVars, mainVars
  <2> QED
    BY <1>1, <2>1
<1>3. CASE WorkerPosts
  <2>1. outbox # <<>> /\ UNCHANGED taken
    BY <1>3, PostOfTheWorker, OtherThreadsLeave DEF WorkerPosts, OtherThreads
  <2>2. CASE /\ Len(queue) < MailboxCapacity
             /\ queue' = Append(queue, Head(outbox))
    <3>1. queue' \in Seq(Allowed) /\ Len(queue') = Len(queue) + 1
      BY <2>1, <2>2, NextIsAllowed, AppendProperties DEF EventsInv
    <3>2. Len(queue) \in Nat /\ MailboxCapacity \in Nat
      BY RelayAssumption, LenProperties DEF EventsInv
    <3>3. Len(queue') <= MailboxCapacity
      BY <2>2, <3>1, <3>2
    <3> QED
      BY <1>0, <2>1, <3>1, <3>3 DEF EventsInv
  <2>3. CASE UNCHANGED queue
    BY <1>1, <2>1, <2>3
  <2>4. Len(queue) \in Nat /\ MailboxCapacity \in Nat
    BY RelayAssumption, LenProperties DEF EventsInv
  <2> QED
    BY <1>3, <2>2, <2>3, <2>4 DEF WorkerPosts, Mailbox!Post, Mailbox!Full
<1>4. CASE Environment \/ UNCHANGED vars
  <2>1. UNCHANGED <<taken, queue>>
    BY <1>4, EnvironmentLeaves DEF mailboxVars
  <2> QED
    BY <1>1, <2>1
<1>5. CASE \/ Listen \/ Poll \/ Accept \/ ReadClient \/ Tick \/ BeginStop \/ WaitEnds
           \/ LeaveBehind \/ Exit
  <2>1. UNCHANGED <<taken, queue>>
    BY <1>5 DEF Listen, Poll, Accept, ReadClient, Tick, BeginStop, WaitEnds, LeaveBehind, Exit,
           Mailbox!Close, mailboxVars
  <2> QED
    BY <1>1, <2>1
<1>6. CASE Drain \/ WaitForWorker \/ Join
  <2>1. taken' = queue /\ queue' = <<>>
    BY <1>6, TakeEventsEffect DEF Drain, WaitForWorker, Join
  <2>2. Len(<<>>) <= MailboxCapacity /\ <<>> \in Seq(Allowed')
    BY RelayAssumption, EmptySeq
  <2> QED
    BY <1>0, <2>1, <2>2 DEF EventsInv
<1>7. CASE Handle
  <2>1. taken # <<>> /\ taken' = Tail(taken) /\ UNCHANGED queue
    BY <1>7, HandleEffect DEF mailboxVars
  <2>2. Tail(taken) \in Seq(Allowed) /\ Len(Tail(taken)) = Len(taken) - 1
    BY <2>1, HeadTailProperties DEF EventsInv
  <2>3. Len(taken) \in Nat /\ MailboxCapacity \in Nat
    BY RelayAssumption, LenProperties DEF EventsInv
  <2> QED
    BY <1>0, <2>1, <2>2, <2>3 DEF EventsInv
<1> QED
  BY <1>2, <1>3, <1>4, <1>5, <1>6, <1>7, StepCases DEF MainStep, OtherThreads

-----------------------------------------------------------------------------
(* The events between the two threads.                                     *)

LEMMA PipelineTypes ==
    ASSUME EventsInv
    PROVE  /\ taken \in Seq(Events) /\ queue \in Seq(Events)
           /\ taken \o queue \in Seq(Events)
           /\ Len(taken \o queue) \in Nat
           /\ <<>> \o queue = queue /\ queue \o <<>> = queue
<1>1. taken \in Seq(Events) /\ queue \in Seq(Events)
  BY SeqMonotonic DEF EventsInv, Allowed
<1> QED
  BY <1>1, ConcatProperties, ConcatEmptySeq, LenProperties

(* The views of a replay are views.                                        *)
LEMMA ViewsOfAReplay ==
    ASSUME NEW s \in Seq(Events), NEW views, Replays(views, s)
    PROVE  views[0] \in Views /\ views[Len(s)] \in Views
BY LenProperties DEF Replays

(* A step that leaves the events where they are.                           *)
LEMMA PipelineKept ==
    ASSUME PipelineInv, EventsInv, closed' = closed, taken' \o queue' = taken \o queue,
           \A view \in Views : CoreMatches(view) => CoreMatches(view)',
           \A view \in Views : WorkerMatches(view) => WorkerMatches(view)'
    PROVE  PipelineInv'
<1>1. CASE closed
  BY <1>1 DEF PipelineInv
<1>2. CASE ~closed
  <2>1. PICK views : /\ Replays(views, taken \o queue)
                     /\ CoreMatches(views[0])
                     /\ WorkerMatches(views[Len(taken \o queue)])
    BY <1>2 DEF PipelineInv
  <2>2. views[0] \in Views /\ views[Len(taken \o queue)] \in Views
    BY <2>1, PipelineTypes, ViewsOfAReplay
  <2>3. CoreMatches(views[0])' /\ WorkerMatches(views[Len(taken \o queue)])'
    BY <2>1, <2>2
  <2>5. Replays(views, taken' \o queue')
    BY <2>1
  <2> QED
    BY <2>3, <2>5 DEF PipelineInv
<1> QED
  BY <1>1, <1>2

(* What the core is told keeps the core in step.                           *)
LEMMA CoreIsTold ==
    ASSUME CoreInv, NEW view \in Views, NEW event \in Events, Fits(view, event),
           EventEffects(event), CoreMatches(view)
    PROVE  CoreMatches(Told(view, event))'
<1> DEFINE told == Told(view, event)
<1>0. /\ told.messages = view.messages + IsOne(event, "message")
      /\ told.subscribed = view.subscribed + IsOne(event, "subscribed")
      /\ told.open = IF event.kind = "subscribed" THEN event.n
                     ELSE IF event.kind = "ended" THEN 0 ELSE view.open
      /\ IsOne(event, "subscribed") \in {0, 1}
      /\ view.subscribed \in Nat
  BY ToldIsAView DEF Views
<1>1. /\ event.kind \in {"subscribed", "message", "ended", "lost", "other"}
      /\ event.kind = "subscribed" => event.n > 0
  BY EventFields, PartAssumptions DEF CoreProofs!CoreAssumption
<1>2. told.messages = messages_read'
  BY <1>0 DEF CoreMatches, EventEffects
<1>3. phases_started' <= clients_accepted' + told.subscribed
  <2>1. /\ phases_started' <= phases_started + IsOne(event, "subscribed")
        /\ clients_accepted' = clients_accepted
        /\ phases_started <= clients_accepted + view.subscribed
    BY DEF CoreMatches, EventEffects
  <2> QED
    BY <1>0, <2>1, CoreFacts DEF EventEffects
<1>4. /\ subscribed' => told.open = subscription' /\ subscription' > 0
      /\ listening' /\ ~subscribed' => told.open = 0
  <2>0. listening' = listening
    BY DEF EventEffects
  <2>1. CASE event.kind = "subscribed"
    BY <1>0, <1>1, <2>1 DEF EventEffects
  <2>2. CASE event.kind = "ended"
    BY <1>0, <2>2 DEF EventEffects, CoreMatches, Fits
  <2>3. CASE event.kind = "lost"
    BY <1>0, <2>3 DEF EventEffects, CoreMatches, Fits
  <2>4. CASE event.kind \in {"message", "other"}
    BY <1>0, <2>0, <2>4 DEF EventEffects, CoreMatches
  <2> QED
    BY <1>1, <2>1, <2>2, <2>3, <2>4
<1> HIDE DEF told
<1>5. CoreMatches(told)'
  BY <1>2, <1>3, <1>4 DEF CoreMatches
<1> QED
  BY <1>5 DEF told

(* What the worker does keeps the end of the events in step with it.       *)
LEMMA WorkerWorks ==
    ASSUME WorkerInv, WorkerInv', Worker!Turn \/ Worker!CallReturns,
           NEW view \in Views, WorkerMatches(view)
    PROVE  WorkerMatches(view)'
<1>1. /\ WorkerProofs!MessagesLeft = 0 /\ WorkerProofs!MessagesLeft' \in Nat
      /\ WorkerProofs!SubscriptionsLeft = 0 /\ WorkerProofs!SubscriptionsLeft' \in Nat
      /\ WorkerProofs!MessagesLeft' + lib_messages <= lib_messages'
      /\ WorkerProofs!SubscriptionsLeft' + subscriptions <= subscriptions'
  BY SameWorker, PartAssumptions, WorkerProofs!WorkCounts DEF WorkerInv
<1>2. /\ lib_messages \in Nat /\ lib_messages' \in Nat
      /\ subscriptions \in Nat /\ subscriptions' \in Nat
  BY PartAssumptions
     DEF WorkerInv, WorkerProofs!QuietInv, WorkerProofs!CallInv, WorkerProofs!Shaped,
         WorkerProofs!WorkerAssumption
<1>3. view.messages \in Nat /\ view.subscribed \in Nat
  BY DEF Views
<1>4. /\ view.open = fed'
      /\ view.messages + 0 <= lib_messages
      /\ view.subscribed + 0 <= subscriptions
  BY <1>1, WorkOfTheWorker DEF WorkerMatches
<1>5. \A a, b, c, d \in Nat : a + 0 <= b /\ c + b <= d => a + c <= d
  OBVIOUS
<1>6. /\ view.messages + WorkerProofs!MessagesLeft' <= lib_messages'
      /\ view.subscribed + WorkerProofs!SubscriptionsLeft' <= subscriptions'
  BY <1>1, <1>2, <1>3, <1>4, <1>5
<1> QED
  BY <1>4, <1>6 DEF WorkerMatches

LEMMA WorkerTells ==
    ASSUME WorkerInv, Worker!Post, NEW event \in Events, event = Head(outbox),
           NEW view \in Views, WorkerMatches(view)
    PROVE  Fits(view, event) /\ WorkerMatches(Told(view, event))'
<1> DEFINE told == Told(view, event)
<1>1. /\ outbox # <<>>
      /\ fed' = IF event.kind = "subscribed" THEN event.n
                ELSE IF event.kind = "ended" THEN 0 ELSE fed
      /\ UNCHANGED <<subscriptions, lib_messages>>
  BY PostOfTheWorker
<1>2. /\ WorkerProofs!MessagesLeft' \in Nat /\ WorkerProofs!SubscriptionsLeft' \in Nat
      /\ WorkerProofs!MessagesLeft' + WorkerProofs!IsOne(event, "message")
           = WorkerProofs!MessagesLeft
      /\ WorkerProofs!SubscriptionsLeft' + WorkerProofs!IsOne(event, "subscribed")
           = WorkerProofs!SubscriptionsLeft
  BY SameWorker, PartAssumptions, WorkerProofs!PostCounts DEF WorkerInv
<1>3. /\ WorkerProofs!IsOne(event, "message") = IsOne(event, "message")
      /\ WorkerProofs!IsOne(event, "subscribed") = IsOne(event, "subscribed")
  BY DEF WorkerProofs!IsOne, IsOne
<1>4. /\ event.kind = "subscribed" => fed = 0
      /\ event.kind \in {"message", "ended"} => fed = event.n
      /\ event.kind = "lost" => fed = 0
  BY <1>1, PartAssumptions, WorkerProofs!FirstFits DEF WorkerInv
<1>5. Fits(view, event)
  BY <1>4 DEF Fits, WorkerMatches
<1>6. /\ told.messages = view.messages + IsOne(event, "message")
      /\ told.subscribed = view.subscribed + IsOne(event, "subscribed")
      /\ told.open = IF event.kind = "subscribed" THEN event.n
                     ELSE IF event.kind = "ended" THEN 0 ELSE view.open
      /\ IsOne(event, "message") \in {0, 1} /\ IsOne(event, "subscribed") \in {0, 1}
      /\ view.messages \in Nat /\ view.subscribed \in Nat
  BY ToldIsAView DEF Views
<1> HIDE DEF told
<1>7. told.open = fed'
  BY <1>1, <1>6 DEF WorkerMatches
<1>8. /\ told.messages + WorkerProofs!MessagesLeft'
           = view.messages + WorkerProofs!MessagesLeft
      /\ told.subscribed + WorkerProofs!SubscriptionsLeft'
           = view.subscribed + WorkerProofs!SubscriptionsLeft
  BY <1>2, <1>3, <1>6
<1>9. WorkerMatches(told)'
  BY <1>1, <1>7, <1>8 DEF WorkerMatches
<1> QED
  BY <1>5, <1>9 DEF told

(* A step that the core is not told of.                                    *)
LEMMA CoreKept ==
    ASSUME CoreInv, NEW view \in Views, CoreMatches(view),
           UNCHANGED <<messages_read, subscription>>,
           subscribed' => subscribed,
           listening' => listening /\ UNCHANGED subscribed,
           \/ UNCHANGED <<phases_started, clients_accepted>>
           \/ /\ clients_accepted' = clients_accepted + 1
              /\ phases_started' \in {phases_started, phases_started + 1}
    PROVE  CoreMatches(view)'
<1>1. phases_started' <= clients_accepted' + view.subscribed
  <2>1. phases_started <= clients_accepted + view.subscribed /\ view.subscribed \in Nat
    BY DEF CoreMatches, Views
  <2> QED
    BY <2>1, CoreFacts
<1>2. /\ subscribed' => view.open = subscription' /\ subscription' > 0
      /\ listening' /\ ~subscribed' => view.open = 0
  BY DEF CoreMatches
<1>3. view.messages = messages_read'
  BY DEF CoreMatches
<1> QED
  BY <1>1, <1>2, <1>3 DEF CoreMatches

(* The core goes on by itself, the events stay where they are.             *)
LEMMA PipelineOfTheCore ==
    ASSUME CoreInv, EventsInv, PipelineInv, UNCHANGED <<closed, taken, queue>>,
           UNCHANGED workerVars,
           UNCHANGED <<messages_read, subscription>>,
           subscribed' => subscribed,
           listening' => listening /\ UNCHANGED subscribed,
           \/ UNCHANGED <<phases_started, clients_accepted>>
           \/ /\ clients_accepted' = clients_accepted + 1
              /\ phases_started' \in {phases_started, phases_started + 1}
    PROVE  PipelineInv'
<1>1. ASSUME NEW view \in Views, CoreMatches(view) PROVE CoreMatches(view)'
  BY <1>1, CoreKept
<1>2. ASSUME NEW view \in Views, WorkerMatches(view) PROVE WorkerMatches(view)'
  BY <1>2 DEF WorkerMatches, WorkerProofs!MessagesLeft, WorkerProofs!SubscriptionsLeft,
         workerVars
<1> QED
  BY <1>1, <1>2, PipelineKept

(* The mailbox takes one event more.                                       *)
LEMMA PipelineOfAPost ==
    ASSUME WorkerInv, EventsInv, EndInv, PipelineInv, WorkerPosts
    PROVE  PipelineInv'
<1>1. /\ Worker!Post /\ UNCHANGED coreVars /\ UNCHANGED taken
  BY DEF WorkerPosts, mainVars
<1>2. outbox # <<>>
  BY <1>1, PostOfTheWorker
<1>3. CASE closed
  BY <1>3 DEF WorkerPosts, Mailbox!Post, PipelineInv, EndInv
<1>4. CASE ~closed
  <2>1. PICK event \in Events : event = Head(outbox)
    BY <1>2, NextIsAllowed DEF Allowed
  <2>2. queue' = Append(queue, event)
    BY <1>4, <2>1 DEF WorkerPosts, Mailbox!Post
  <2>3. taken' \o queue' = Append(taken \o queue, event)
    <3>1. <<event>> \in Seq(Events)
      BY AppendProperties, EmptySeq, AppendIsConcat, ConcatEmptySeq
    <3>2. Append(queue, event) = queue \o <<event>>
      BY PipelineTypes, AppendIsConcat
    <3>3. Append(taken \o queue, event) = (taken \o queue) \o <<event>>
      BY PipelineTypes, AppendIsConcat
    <3>4. (taken \o queue) \o <<event>> = taken \o (queue \o <<event>>)
      BY <3>1, PipelineTypes, ConcatAssociative
    <3> QED
      BY <1>1, <2>2, <3>2, <3>3, <3>4
  <2>4. PICK views : /\ Replays(views, taken \o queue)
                     /\ CoreMatches(views[0])
                     /\ WorkerMatches(views[Len(taken \o queue)])
    BY <1>4 DEF PipelineInv
  <2>5. PICK view \in Views : view = views[Len(taken \o queue)]
    BY <2>4, PipelineTypes, ViewsOfAReplay
  <2>6. Fits(view, event) /\ WorkerMatches(Told(view, event))'
    BY <1>1, <2>1, <2>4, <2>5, WorkerTells
  <2>7. PICK more : /\ Replays(more, Append(taken \o queue, event))
                    /\ more[0] = views[0]
                    /\ more[Len(Append(taken \o queue, event))] = Told(view, event)
    <3> DEFINE s == taken \o queue
    <3>1. s \in Seq(Events) /\ Replays(views, s)
      BY <2>4, PipelineTypes
    <3>2. Fits(views[Len(s)], event)
      BY <2>5, <2>6
    <3> HIDE DEF s
    <3>3. \E more : /\ Replays(more, Append(s, event))
                    /\ more[0] = views[0]
                    /\ more[Len(Append(s, event))] = Told(views[Len(s)], event)
      BY <3>1, <3>2, ReplayOfAPost
    <3> QED
      BY <2>5, <3>3 DEF s
  <2>8. CoreMatches(views[0])'
    BY <1>1, <2>4 DEF CoreMatches, coreVars
  <2>9. /\ Replays(more, taken' \o queue')
        /\ more[Len(taken' \o queue')] = Told(view, event)
    BY <2>3, <2>7
  <2>10. PICK last : last = Told(view, event)
    OBVIOUS
  <2>11. PICK first : first = views[0]
    OBVIOUS
  <2>12. WorkerMatches(last)' /\ CoreMatches(first)'
    BY <2>6, <2>8, <2>10, <2>11
  <2>13. more[0] = first /\ more[Len(taken' \o queue')] = last
    BY <2>7, <2>9, <2>10, <2>11
  <2> QED
    BY <2>9, <2>12, <2>13 DEF PipelineInv
<1> QED
  BY <1>3, <1>4

(* The first event taken is the first on the way.                          *)
LEMMA HeadOfBoth ==
    ASSUME NEW s \in Seq(Events), NEW q \in Seq(Events), s # <<>>
    PROVE  /\ s \o q \in Seq(Events) /\ s \o q # <<>>
           /\ Head(s \o q) = Head(s)
           /\ Tail(s \o q) = Tail(s) \o q
<1> DEFINE t == s \o q
           rest == Tail(s) \o q
<1>1. Len(s) \in Nat \ {0} /\ Len(q) \in Nat
  BY EmptySeq, LenProperties
<1>2. /\ t \in Seq(Events) /\ Len(t) = Len(s) + Len(q)
      /\ \A i \in 1 .. Len(s) + Len(q) : t[i] = IF i <= Len(s) THEN s[i] ELSE q[i - Len(s)]
  BY ConcatProperties
<1>3. /\ Tail(s) \in Seq(Events) /\ Len(Tail(s)) = Len(s) - 1
      /\ \A i \in 1 .. Len(s) - 1 : Tail(s)[i] = s[i + 1]
  BY <1>1, HeadTailProperties
<1>4. /\ rest \in Seq(Events) /\ Len(rest) = Len(s) - 1 + Len(q)
      /\ \A i \in 1 .. Len(s) - 1 + Len(q) :
             rest[i] = IF i <= Len(s) - 1 THEN Tail(s)[i] ELSE q[i - (Len(s) - 1)]
  BY <1>1, <1>3, ConcatProperties
<1> HIDE DEF t, rest
<1>5. t # <<>>
  BY <1>1, <1>2, EmptySeq
<1>6. Head(t) = Head(s)
  <2>1. t[1] = s[1]
    BY <1>1, <1>2
  <2>2. Head(t) = t[1] /\ Head(s) = s[1]
    BY <1>1, <1>2, <1>5
  <2> QED
    BY <2>1, <2>2
<1>7. /\ Tail(t) \in Seq(Events) /\ Len(Tail(t)) = Len(t) - 1
      /\ \A i \in 1 .. Len(t) - 1 : Tail(t)[i] = t[i + 1]
  BY <1>2, <1>5, HeadTailProperties
<1>8. ASSUME NEW i \in 1 .. Len(rest) PROVE Tail(t)[i] = rest[i]
  <2>1. CASE i <= Len(s) - 1
    BY <1>1, <1>2, <1>3, <1>4, <1>7, <2>1
  <2>2. CASE ~(i <= Len(s) - 1)
    <3>1. /\ i \in 1 .. Len(t) - 1 /\ i + 1 \in 1 .. Len(s) + Len(q)
          /\ ~(i + 1 <= Len(s)) /\ i + 1 - Len(s) = i - (Len(s) - 1)
      BY <1>1, <1>2, <1>4, <2>2
    <3>2. Tail(t)[i] = q[i + 1 - Len(s)]
      BY <1>2, <1>7, <3>1
    <3>3. rest[i] = q[i - (Len(s) - 1)]
      BY <1>4, <2>2
    <3> QED
      BY <3>1, <3>2, <3>3
  <2> QED
    BY <2>1, <2>2
<1>9. Len(Tail(t)) = Len(rest)
  BY <1>1, <1>2, <1>4, <1>7
<1>10. Tail(t) = rest
  BY <1>4, <1>7, <1>8, <1>9, SeqEqual
<1> QED
  BY <1>2, <1>5, <1>6, <1>10 DEF t, rest

(* The core is told of the first event.                                    *)
LEMMA PipelineOfAnEvent ==
    ASSUME CoreInv, PlaceInv, SocketInv, EventsInv, EndInv, PipelineInv, Handle
    PROVE  PipelineInv'
<1>1. /\ taken # <<>> /\ taken' = Tail(taken)
      /\ UNCHANGED <<workerVars, queue, closed>>
  BY HandleEffect DEF mailboxVars
<1>2. PICK event \in Events : event = Head(taken) /\ EventEffects(event)
  BY HandleEffect
<1>3. CASE closed
  BY <1>1, <1>3 DEF PipelineInv
<1>4. CASE ~closed
  <2> DEFINE s == taken \o queue
  <2>1. s \in Seq(Events) /\ s # <<>> /\ Head(s) = event /\ Tail(s) = taken' \o queue'
    BY <1>1, <1>2, PipelineTypes, HeadOfBoth
  <2>2. PICK views : /\ Replays(views, s)
                     /\ CoreMatches(views[0])
                     /\ WorkerMatches(views[Len(s)])
    BY <1>4 DEF PipelineInv
  <2> HIDE DEF s
  <2>3. /\ Fits(views[0], event) /\ views[0] \in Views
        /\ \E rest : /\ Replays(rest, Tail(s))
                     /\ rest[0] = Told(views[0], event)
                     /\ rest[Len(Tail(s))] = views[Len(s)]
    BY <2>1, <2>2, ReplayOfTheRest
  <2>4. PICK rest : /\ Replays(rest, Tail(s))
                    /\ rest[0] = Told(views[0], event)
                    /\ rest[Len(Tail(s))] = views[Len(s)]
    BY <2>3
  <2>5. CoreMatches(Told(views[0], event))'
    BY <1>2, <2>2, <2>3, CoreIsTold
  <2>6. PICK last : last = views[Len(s)]
    OBVIOUS
  <2>7. WorkerMatches(last)'
    BY <1>1, <2>2, <2>6
       DEF WorkerMatches, WorkerProofs!MessagesLeft, WorkerProofs!SubscriptionsLeft, workerVars
  <2>8. PICK first : first = Told(views[0], event)
    OBVIOUS
  <2>9. CoreMatches(first)'
    BY <2>5, <2>8
  <2>10. /\ Replays(rest, taken' \o queue')
         /\ rest[0] = first /\ rest[Len(taken' \o queue')] = last
    BY <2>1, <2>4, <2>6, <2>8
  <2> QED
    BY <2>7, <2>9, <2>10 DEF PipelineInv
<1> QED
  BY <1>3, <1>4

(* The worker has posted nothing before the process started.               *)
LEMMA PipelineOfTheStart ==
    ASSUME CoreInv, PlaceInv, EventsInv, EndInv, PipelineInv, Listen
    PROVE  PipelineInv'
<1>1. /\ main = "start" /\ queue = <<>> /\ fed = 0 /\ taken = <<>> /\ ~closed
      /\ UNCHANGED <<taken, queue, closed, workerVars>>
  BY HandlersAre DEF Listen, PlaceInv, EndInv, mailboxVars
<1>2. UNCHANGED <<subscribed, subscription, clients_accepted, phases_started, messages_read>>
  BY ListeningEffect DEF Listen
<1>3. PICK views : /\ Replays(views, taken \o queue)
                   /\ CoreMatches(views[0])
                   /\ WorkerMatches(views[Len(taken \o queue)])
  BY <1>1 DEF PipelineInv
<1>4. taken \o queue = <<>> /\ Len(taken \o queue) = 0 /\ taken' \o queue' = <<>>
  BY <1>1, PipelineTypes, EmptySeq
<1>5. PICK view : view = views[0]
  OBVIOUS
<1>6. WorkerMatches(view) /\ CoreMatches(view)
  BY <1>3, <1>4, <1>5
<1>7. view.open = 0
  BY <1>1, <1>6 DEF WorkerMatches
<1>8. CoreMatches(view)'
  BY <1>2, <1>6, <1>7 DEF CoreMatches
<1>9. WorkerMatches(view)'
  BY <1>1, <1>6 DEF WorkerMatches, WorkerProofs!MessagesLeft, WorkerProofs!SubscriptionsLeft,
         workerVars
<1>10. Replays(views, taken' \o queue')
  BY <1>1, <1>3
<1>11. views[Len(taken' \o queue')] = view
  BY <1>4, <1>5, EmptySeq
<1> QED
  BY <1>5, <1>8, <1>9, <1>10, <1>11 DEF PipelineInv

LEMMA PipelineStep ==
    ASSUME CoreInv, WorkerInv, WorkerInv', PlaceInv, SocketInv, EventsInv, EndInv, PipelineInv,
           [Next]_vars
    PROVE  PipelineInv'
<1> USE HandlersAre
<1>1. ASSUME UNCHANGED <<coreVars, workerVars, closed, taken, queue>> PROVE PipelineInv'
  BY <1>1, PipelineOfTheCore DEF coreVars
<1>2. CASE WorkerStep
  <2>1. /\ Worker!Turn \/ Worker!CallReturns
        /\ UNCHANGED <<coreVars, taken, queue, closed>>
    BY <1>2 DEF WorkerStep, Mailbox!Wake, mailboxVars, mainVars
  <2>2. ASSUME NEW view \in Views, CoreMatches(view) PROVE CoreMatches(view)'
    BY <2>1, <2>2 DEF CoreMatches, coreVars
  <2>3. ASSUME NEW view \in Views, WorkerMatches(view) PROVE WorkerMatches(view)'
    BY <2>1, <2>3, WorkerWorks
  <2> QED
    BY <2>1, <2>2, <2>3, PipelineKept
<1>3. CASE LibraryStep
  <2>1. UNCHANGED <<coreVars, taken, queue, closed>>
    BY <1>3 DEF LibraryStep, mailboxVars, mainVars
  <2>2. UNCHANGED <<outbox, fed, lib_messages, subscriptions>>
    BY <1>3, StepOfTheLibrary DEF LibraryStep
  <2>3. ASSUME NEW view \in Views, CoreMatches(view) PROVE CoreMatches(view)'
    BY <2>1, <2>3 DEF CoreMatches, coreVars
  <2>4. ASSUME NEW view \in Views, WorkerMatches(view) PROVE WorkerMatches(view)'
    BY <2>2, <2>4 DEF WorkerMatches, WorkerProofs!MessagesLeft, WorkerProofs!SubscriptionsLeft
  <2> QED
    BY <2>1, <2>3, <2>4, PipelineKept
<1>4. CASE WorkerPosts
  BY <1>4, PipelineOfAPost
<1>5. CASE Environment \/ UNCHANGED vars
  <2>1. UNCHANGED <<coreVars, workerVars, closed, taken, queue>>
    BY <1>5, EnvironmentLeaves DEF mailboxVars
  <2> QED
    BY <1>1, <2>1
<1>6. CASE Poll \/ WaitEnds \/ Exit
  <2>1. UNCHANGED <<coreVars, workerVars, closed, taken, queue>>
    BY <1>6 DEF Poll, WaitEnds, Exit, mailboxVars
  <2> QED
    BY <1>1, <2>1
<1>7. CASE LeaveBehind
  BY <1>7 DEF LeaveBehind, Mailbox!Close, PipelineInv
<1>8. CASE Drain \/ WaitForWorker \/ Join
  <2>1. /\ taken' = queue /\ queue' = <<>> /\ UNCHANGED <<coreVars, workerVars, closed>>
    BY <1>8, TakeEventsEffect DEF Drain, WaitForWorker, Join
  <2>2. taken = <<>>
    BY <1>8 DEF Drain, WaitForWorker, Join, PlaceInv
  <2>3. taken' \o queue' = taken \o queue
    BY <2>1, <2>2, PipelineTypes
  <2>4. ASSUME NEW view \in Views, CoreMatches(view) PROVE CoreMatches(view)'
    BY <2>1, <2>4 DEF CoreMatches, coreVars
  <2>5. ASSUME NEW view \in Views, WorkerMatches(view) PROVE WorkerMatches(view)'
    BY <2>1, <2>5 DEF WorkerMatches, WorkerProofs!MessagesLeft, WorkerProofs!SubscriptionsLeft,
           workerVars
  <2> QED
    BY <2>1, <2>3, <2>4, <2>5, PipelineKept
<1>9. CASE Listen
  BY <1>9, PipelineOfTheStart
<1>10. CASE Handle
  BY <1>10, PipelineOfAnEvent
<1>11. CASE Accept
  <2>1. UNCHANGED <<closed, taken, queue, workerVars>>
    BY <1>11 DEF Accept, mailboxVars
  <2>2. CASE \E at \in Times : Core!OnClientAccepted(at)
    BY <2>1, <2>2, AcceptEffect, PipelineOfTheCore
  <2>3. CASE Core!OnClientRefused
    BY <2>1, <2>3, RefuseEffect, PipelineOfTheCore
  <2>4. CASE UNCHANGED coreVars
    BY <1>1, <2>1, <2>4
  <2> QED
    BY <1>11, <2>2, <2>3, <2>4 DEF Accept
<1>12. CASE ReadClient
  <2>1. UNCHANGED <<closed, taken, queue, workerVars>>
    BY <1>12 DEF ReadClient, mailboxVars
  <2>2. CASE Core!OnClientDisconnected
    BY <2>1, <2>2, DisconnectEffect, PipelineOfTheCore
  <2>3. CASE UNCHANGED coreVars
    BY <1>1, <2>1, <2>3
  <2> QED
    BY <1>12, <2>2, <2>3 DEF ReadClient
<1>13. CASE Tick
  <2>1. UNCHANGED <<closed, taken, queue, workerVars>>
    BY <1>13 DEF Tick, mailboxVars
  <2>2. PICK elapsed \in BOOLEAN : Core!OnTick(elapsed)
    BY <1>13 DEF Tick
  <2> QED
    BY <2>1, <2>2, TickEffect, PipelineOfTheCore
<1>14. CASE BeginStop
  <2>1. Core!Stop /\ UNCHANGED <<closed, taken, queue>>
    BY <1>14 DEF BeginStop, mailboxVars
  <2>2. UNCHANGED <<outbox, fed, lib_messages, subscriptions>>
    BY <1>14 DEF BeginStop, Worker!RequestStop, Worker!controlVars, Worker!libVars,
           Worker!subVars, Worker!feedVars
  <2>3. ASSUME NEW view \in Views, CoreMatches(view) PROVE CoreMatches(view)'
    BY <2>1, <2>3, StopEffect, CoreKept
  <2>4. ASSUME NEW view \in Views, WorkerMatches(view) PROVE WorkerMatches(view)'
    BY <2>2, <2>4 DEF WorkerMatches, WorkerProofs!MessagesLeft, WorkerProofs!SubscriptionsLeft
  <2> QED
    BY <2>1, <2>3, <2>4, PipelineKept
<1> QED
  BY <1>2, <1>3, <1>4, <1>5, <1>6, <1>7, <1>8, <1>9, <1>10, <1>11, <1>12, <1>13, <1>14, StepCases
     DEF MainStep, OtherThreads

-----------------------------------------------------------------------------
(* The process runs the core.                                              *)

(* What the core can still be told: there is room for it in its bounds.    *)
LEMMA RoomForTheCore ==
    ASSUME CoreInv, WorkerInv, EventsInv, PipelineInv, ~closed
    PROVE  /\ phases_started <= clients_accepted + MaxSubscriptions
           /\ taken # <<>> =>
                LET event == Head(taken)
                IN  /\ event.kind = "subscribed" =>
                           phases_started + 1 <= clients_accepted + MaxSubscriptions
                    /\ event.kind = "message" =>
                           /\ messages_read + 1 <= MaxMessages
                           /\ subscribed => event.n = subscription
<1> DEFINE s == taken \o queue
<1>1. PICK views : Replays(views, s) /\ CoreMatches(views[0]) /\ WorkerMatches(views[Len(s)])
  BY DEF PipelineInv
<1>2. s \in Seq(Events)
  BY PipelineTypes
<1> HIDE DEF s
<1>3. PICK first \in Views : first = views[0]
  BY <1>1, <1>2, ViewsOfAReplay
<1>4. PICK last \in Views : last = views[Len(s)]
  BY <1>1, <1>2, ViewsOfAReplay
<1>5. first.subscribed <= last.subscribed
  BY <1>1, <1>2, <1>3, <1>4, LenProperties DEF Replays
<1>6. /\ last.subscribed <= MaxSubscriptions /\ last.messages <= MaxMessages
      /\ MaxSubscriptions \in Nat /\ MaxMessages \in Nat
  <2>1. /\ WorkerProofs!MessagesLeft \in Nat /\ WorkerProofs!SubscriptionsLeft \in Nat
    BY PartAssumptions, WorkerProofs!LeftIsCounted DEF WorkerInv
  <2>2. /\ last.messages + WorkerProofs!MessagesLeft <= lib_messages
        /\ last.subscribed + WorkerProofs!SubscriptionsLeft <= subscriptions
    BY <1>1, <1>4 DEF WorkerMatches
  <2>3. /\ lib_messages \in 0 .. MaxMessages /\ subscriptions \in 0 .. MaxSubscriptions
        /\ MaxSubscriptions \in Nat /\ MaxMessages \in Nat
    BY PartAssumptions
       DEF WorkerInv, WorkerProofs!QuietInv, WorkerProofs!NumberInv,
           WorkerProofs!WorkerAssumption
  <2>4. \A a, b, c, d \in Nat : a + b <= c /\ c <= d => a <= d
    OBVIOUS
  <2>5. last.messages \in Nat /\ last.subscribed \in Nat
    BY DEF Views
  <2>6. /\ lib_messages \in Nat /\ lib_messages <= MaxMessages
        /\ subscriptions \in Nat /\ subscriptions <= MaxSubscriptions
    BY <2>3
  <2>7. last.messages <= MaxMessages
    BY <2>1, <2>2, <2>3, <2>4, <2>5, <2>6
  <2>8. last.subscribed <= MaxSubscriptions
    BY <2>1, <2>2, <2>3, <2>4, <2>5, <2>6
  <2> QED
    BY <2>3, <2>7, <2>8
<1>7. /\ first.messages = messages_read
      /\ phases_started <= clients_accepted + first.subscribed
      /\ subscribed => first.open = subscription
  BY <1>1, <1>3 DEF CoreMatches
<1>8. phases_started <= clients_accepted + MaxSubscriptions
  BY <1>5, <1>6, <1>7, CoreFacts DEF Views
<1>9. ASSUME taken # <<>>, NEW event, event = Head(taken)
      PROVE  /\ event.kind = "subscribed" =>
                    phases_started + 1 <= clients_accepted + MaxSubscriptions
             /\ event.kind = "message" =>
                    /\ messages_read + 1 <= MaxMessages
                    /\ subscribed => event.n = subscription
  <2>1. s # <<>> /\ Head(s) = event
    BY <1>9, PipelineTypes, HeadOfBoth DEF s
  <2>2. /\ Fits(first, event)
        /\ first.messages + IsOne(event, "message") <= last.messages
        /\ first.subscribed + IsOne(event, "subscribed") <= last.subscribed
    BY <1>1, <1>2, <1>3, <1>4, <2>1, ReplayOfTheRest
  <2>3. CASE event.kind = "subscribed"
    <3>1. first.subscribed + 1 <= last.subscribed
      BY <2>2, <2>3 DEF IsOne
    <3> QED
      BY <1>6, <1>7, <2>3, <3>1, CoreFacts DEF Views
  <2>4. CASE event.kind = "message"
    <3>1. first.messages + 1 <= last.messages
      BY <2>2, <2>4 DEF IsOne
    <3>2. messages_read + 1 <= MaxMessages
      BY <1>6, <1>7, <3>1 DEF Views
    <3> QED
      BY <1>7, <2>2, <2>4, <3>2 DEF Fits
  <2> QED
    BY <2>3, <2>4
<1> QED
  BY <1>8, <1>9

LEMMA CoreLeft ==
    ASSUME UNCHANGED coreVars
    PROVE  UNCHANGED Core!coreVars
BY DEF coreVars, Core!coreVars, Core!subVars, Core!clientVars, Core!phaseVars, Core!phaseCounts,
       Core!triggerVars, Core!frameVars

(* An event is handed on while the core still takes events of its kind.    *)
LEMMA EventIsACoreStep ==
    ASSUME CoreInv, WorkerInv, PlaceInv, SocketInv, EventsInv, EndInv, PipelineInv, Handle
    PROVE  [Core!Next]_Core!coreVars
<1>1. PICK event \in Allowed : event = Head(taken) /\ HandleEvent(event)
  BY HandleEffect DEF Handle
<1>2. /\ event \in Events /\ taken # <<>> /\ main \in Handlers /\ ~closed
      /\ ingress_triggers # 0
  BY <1>1, HandleEffect, HandlersAre DEF Allowed, PlaceInv, EndInv
<1>3. clients_accepted <= MaxClients /\ MaxClients \in Nat
  BY CoreFacts, PartAssumptions DEF SocketInv, CoreProofs!CoreAssumption
<1>4. ~Core!NotYetListening
  BY <1>2 DEF Core!NotYetListening
<1>5. CASE event.kind = "subscribed"
  <2>1. PICK at \in Times : Core!OnSubscribed(event.n, at)
    BY <1>1, <1>5 DEF HandleEvent
  <2>2. phases_started + 1 <= clients_accepted + MaxSubscriptions
    BY <1>1, <1>2, <1>5, RoomForTheCore
  <2>3. phases_started < MaxPhases
    <3>1. /\ MaxClients + MaxSubscriptions <= MaxPhases /\ MaxPhases \in Nat
          /\ MaxSubscriptions \in Nat
      BY RelayAssumption, PartAssumptions DEF CoreProofs!CoreAssumption
    <3> QED
      BY <1>3, <2>2, <3>1, CoreFacts
  <2>4. event.n \in 1 .. MaxSubscriptions
    BY <1>2, <1>5, EventFields
  <2> QED
    BY <1>4, <2>1, <2>3, <2>4 DEF Core!WorkerEvent, Core!Next
<1>6. CASE event.kind = "ended"
  <2>1. Core!OnSubscriptionEnded(event.n, event.end)
    BY <1>1, <1>6 DEF HandleEvent
  <2>2. event.n \in 1 .. MaxSubscriptions /\ event.end \in Core!SubscriptionEnds
    BY <1>2, <1>6, EventFields DEF Worker!Ends, Core!SubscriptionEnds, Core!LayerEnds
  <2>3. event.end = "relay_stop" => ~listening
    BY <1>1, <1>6 DEF Allowed, PlaceInv, Stopping, Serving
  <2> QED
    BY <1>4, <2>1, <2>2, <2>3 DEF Core!WorkerEvent, Core!Next
<1>7. CASE event.kind = "lost"
  <2>1. Core!OnClientLost
    BY <1>1, <1>7 DEF HandleEvent
  <2> QED
    BY <1>4, <2>1 DEF Core!WorkerEvent, Core!Next
<1>8. CASE event.kind = "message"
  <2>1. ForwardSlot(event.slot)
    BY <1>1, <1>8 DEF HandleEvent
  <2>2. PICK result \in Core!ForwardResults : Core!OnMessage(event.slot, result)
    BY <2>1 DEF ForwardSlot, Core!OnMessage, Core!ForwardResults
  <2>3. event.slot \in Core!Slots
    BY <1>2, <1>8, EventFields
  <2>4. messages_read < MaxMessages
    <3>1. messages_read + 1 <= MaxMessages
      BY <1>1, <1>2, <1>8, RoomForTheCore
    <3>2. MaxMessages \in Nat
      BY PartAssumptions DEF CoreProofs!CoreAssumption
    <3> QED
      BY <3>1, <3>2, CoreFacts
  <2> QED
    BY <1>4, <2>2, <2>3, <2>4 DEF Core!WorkerEvent, Core!Next
<1>9. CASE event.kind = "other"
  BY <1>1, <1>9, CoreLeft DEF HandleEvent
<1> QED
  BY <1>2, <1>5, <1>6, <1>7, <1>8, <1>9, EventFields

(* The socket is looked at only while the core listens.                    *)
LEMMA SocketIsACoreStep ==
    ASSUME CoreInv, WorkerInv, PlaceInv, SocketInv, EventsInv, EndInv, PipelineInv,
           Accept \/ ReadClient \/ Tick \/ BeginStop
    PROVE  [Core!Next]_Core!coreVars
<1>1. main \in Serving /\ listening /\ ~closed
  BY HandlersAre DEF Accept, ReadClient, Tick, BeginStop, PlaceInv, Serving, EndInv
<1>2. CASE Accept /\ ~UNCHANGED coreVars
  <2>1. backlog # "none"
    BY <1>2 DEF Accept
  <2>2. clients_accepted < MaxClients /\ clients_refused < MaxClients /\ MaxClients \in Nat
    <3>1. MaxClients \in Nat /\ connects \in 0 .. MaxClients
          /\ clients_accepted + clients_refused + 1 <= connects
      BY <2>1, PartAssumptions DEF SocketInv, CoreProofs!CoreAssumption
    <3> QED
      BY <3>1, CoreFacts
  <2>3. CASE \E at \in Times : Core!OnClientAccepted(at)
    <3>1. phases_started < MaxPhases
      <4>1. /\ MaxClients + MaxSubscriptions <= MaxPhases /\ MaxPhases \in Nat
            /\ MaxSubscriptions \in Nat
        BY RelayAssumption, PartAssumptions DEF CoreProofs!CoreAssumption
      <4>2. phases_started <= clients_accepted + MaxSubscriptions
        BY <1>1, RoomForTheCore
      <4> QED
        BY <2>2, <4>1, <4>2, CoreFacts
    <3> QED
      BY <1>1, <2>2, <2>3, <3>1 DEF Core!SocketEvent, Core!Next
  <2>4. CASE Core!OnClientRefused
    BY <1>1, <2>2, <2>4 DEF Core!SocketEvent, Core!Next
  <2> QED
    BY <1>2, <2>3, <2>4 DEF Accept
<1>3. CASE UNCHANGED coreVars
  BY <1>3, CoreLeft
<1>4. CASE ReadClient /\ ~UNCHANGED coreVars
  BY <1>1, <1>4 DEF ReadClient, Core!SocketEvent, Core!Next
<1>5. CASE Tick
  BY <1>1, <1>5 DEF Tick, Core!SocketEvent, Core!Next
<1>6. CASE BeginStop
  BY <1>1, <1>6 DEF BeginStop, Core!SocketEvent, Core!Next
<1> QED
  BY <1>2, <1>3, <1>4, <1>5, <1>6

LEMMA StepOfTheCore ==
    ASSUME CoreInv, WorkerInv, PlaceInv, SocketInv, EventsInv, EndInv, PipelineInv, [Next]_vars
    PROVE  [Core!Next]_Core!coreVars
<1>1. CASE OtherThreads
  BY <1>1, OtherThreadsLeave, CoreLeft
<1>2. CASE Environment \/ UNCHANGED vars
  BY <1>2, EnvironmentLeaves, CoreLeft
<1>3. CASE Listen
  BY <1>3 DEF Listen, PlaceInv, Core!NotYetListening, Core!Next
<1>4. CASE Poll \/ WaitEnds \/ LeaveBehind \/ Exit
  BY <1>4, CoreLeft DEF Poll, WaitEnds, LeaveBehind, Exit
<1>5. CASE Drain \/ WaitForWorker \/ Join
  BY <1>5, TakeEventsEffect, CoreLeft DEF Drain, WaitForWorker, Join
<1>6. CASE Handle
  BY <1>6, EventIsACoreStep
<1>7. CASE Accept \/ ReadClient \/ Tick \/ BeginStop
  BY <1>7, SocketIsACoreStep
<1> QED
  BY <1>1, <1>2, <1>3, <1>4, <1>5, <1>6, <1>7, StepCases DEF MainStep

(* What the core keeps.                                                    *)
LEMMA CoreInvStep ==
    ASSUME CoreInv, [Core!Next]_Core!coreVars
    PROVE  CoreInv'
<1>1. [CoreProofs!Next]_CoreProofs!coreVars
  BY SameCore
<1>2. CoreProofs!TypeOK'
  BY <1>1, PartAssumptions, CoreProofs!StepFlags, CoreProofs!StepNumbers,
     CoreProofs!StepFrames DEF CoreInv, CoreProofs!TypeOK
<1>3. CoreProofs!PhaseHoldsBothConditions'
  BY <1>1, <1>2, PartAssumptions, CoreProofs!PhaseStep DEF CoreInv
<1> QED
  BY <1>2, <1>3 DEF CoreInv

-----------------------------------------------------------------------------
(* The invariant of the process.                                           *)

LEMMA InvInit == Init => CoreInv /\ ProcessInv
<1> SUFFICES ASSUME Init PROVE CoreInv /\ ProcessInv
  OBVIOUS
<1>1. CoreInv
  <2>1. CoreProofs!Init
    BY SameCore DEF Init
  <2>2. CoreProofs!TypeOK
    BY <2>1, PartAssumptions, CoreProofs!InitType
  <2>3. CoreProofs!PhaseHoldsBothConditions
    BY <2>1 DEF CoreProofs!Init, CoreProofs!PhaseHoldsBothConditions, CoreProofs!PhaseHolds
  <2> QED
    BY <2>2, <2>3 DEF CoreInv
<1>2. PlaceInv
  BY HandlersAre DEF Init, Core!Init, Worker!Init, Mailbox!Init, PlaceInv, Serving, Stopping
<1>3. EndInv
  <2>1. /\ main = "start" /\ closed = FALSE /\ worker_joined = TRUE /\ mailbox_dropped = 0
    BY DEF Init, Mailbox!Init
  <2>2. closed \in BOOLEAN /\ worker_joined \in BOOLEAN /\ ~closed /\ worker_joined
    BY <2>1
  <2>3. mailbox_dropped \in Nat /\ ~(mailbox_dropped > 0)
    BY <2>1
  <2>4. main \notin {"last_handle", "final", "exited"}
    BY <2>1
  <2> QED
    BY <2>2, <2>3, <2>4 DEF EndInv
<1>4. SocketInv
  <2>1. /\ client_open = FALSE /\ client_connected = FALSE /\ connects = 0 /\ backlog = "none"
        /\ clients_accepted = 0 /\ clients_refused = 0
    BY DEF Init, Core!Init
  <2>2. MaxClients \in Nat
    BY PartAssumptions DEF CoreProofs!CoreAssumption
  <2>3. client_open \in BOOLEAN /\ (client_open <=> client_connected)
    BY <2>1
  <2>4. /\ connects \in 0 .. MaxClients
        /\ clients_accepted + clients_refused + (IF backlog = "none" THEN 0 ELSE 1) <= connects
    BY <2>1, <2>2
  <2> QED
    BY <2>3, <2>4 DEF SocketInv
<1>5. EventsInv
  BY RelayAssumption, EmptySeq DEF Init, Mailbox!Init, EventsInv
<1>6. PipelineInv
  <2> DEFINE view == [open |-> 0, messages |-> 0, subscribed |-> 0]
             views == [i \in {0} |-> view]
  <2>1. taken \o queue = <<>> /\ Len(taken \o queue) = 0
    BY <1>5, PipelineTypes, EmptySeq DEF Init, Mailbox!Init
  <2>2. views[0] = view /\ 0 .. 0 = {0} /\ 1 .. 0 = {}
    OBVIOUS
  <2>3. view \in Views /\ view.messages = 0 /\ view.subscribed = 0 /\ view.open = 0
    BY DEF Views
  <2> HIDE DEF view
  <2>4. views \in [{0} -> Views]
    BY <2>3
  <2> HIDE DEF views
  <2>5. Replays(views, taken \o queue)
    BY <2>1, <2>2, <2>3, <2>4 DEF Replays
  <2>6. CoreMatches(view)
    BY <2>3 DEF Init, Core!Init, CoreMatches
  <2>7. WorkerMatches(view)
    BY <2>3 DEF Init, Worker!Init, WorkerMatches, WorkerProofs!MessagesLeft,
           WorkerProofs!SubscriptionsLeft
  <2> QED
    BY <2>1, <2>2, <2>5, <2>6, <2>7 DEF PipelineInv
<1> QED
  BY <1>1, <1>2, <1>3, <1>4, <1>5, <1>6 DEF ProcessInv

LEMMA InvStep ==
    CoreInv /\ ProcessInv /\ WorkerInv /\ WorkerInv' /\ [Next]_vars => CoreInv' /\ ProcessInv'
<1> SUFFICES ASSUME CoreInv, PlaceInv, EndInv, SocketInv, EventsInv, PipelineInv, WorkerInv,
                    WorkerInv', [Next]_vars
             PROVE  CoreInv' /\ ProcessInv'
  BY DEF ProcessInv
<1>1. CoreInv'
  BY StepOfTheCore, CoreInvStep
<1>2. PlaceInv' /\ EndInv' /\ SocketInv'
  BY PlaceStep, EndStep, SocketStep
<1>3. EventsInv' /\ PipelineInv'
  BY EventsStep, PipelineStep
<1> QED
  BY <1>1, <1>2, <1>3 DEF ProcessInv

LEMMA ProcessCorrect == Spec => [](CoreInv /\ ProcessInv)
BY InvInit, InvStep, WorkerInvCorrect, PTL DEF Spec

(* ImplementsRelayCore: what the core meets in the process is what         *)
(* RelayCore assumes of its environment, so the theorems about it hold.    *)
THEOREM ProcessRunsTheCore == Spec => ImplementsRelayCore
<1>1. Init => Core!Init
  BY DEF Init
<1>2. CoreInv /\ ProcessInv /\ WorkerInv /\ [Next]_vars => [Core!Next]_Core!coreVars
  BY StepOfTheCore DEF ProcessInv
<1> QED
  BY <1>1, <1>2, ProcessCorrect, WorkerInvCorrect, PTL DEF Spec, Core!Spec, ImplementsRelayCore

(* NoLostWakeup: an event that waits has its byte in the pipe.             *)
THEOREM WakeupsCorrect == Spec => []NoLostWakeup
<1> DEFINE Inv == ready \in BOOLEAN /\ NoLostWakeup
<1>1. Init => Inv
  BY DEF Init, Mailbox!Init, NoLostWakeup
<1>2. Inv /\ [Next]_vars => Inv'
  <2> SUFFICES ASSUME Inv, [Next]_vars PROVE Inv'
    OBVIOUS
  <2> USE DEF NoLostWakeup
  <2>1. CASE WorkerStep
    BY <2>1 DEF WorkerStep, Mailbox!Wake, mailboxVars
  <2>2. CASE WorkerPosts
    <3>1. CASE ready' = (ready \/ queue = <<>>)
      BY <3>1
    <3>2. CASE UNCHANGED <<queue, ready>>
      BY <3>2
    <3> QED
      BY <2>2, <3>1, <3>2 DEF WorkerPosts, Mailbox!Post
  <2>3. CASE LibraryStep
    BY <2>3 DEF LibraryStep, mailboxVars
  <2>4. CASE Environment \/ UNCHANGED vars
    BY <2>4, EnvironmentLeaves DEF mailboxVars
  <2>5. CASE Drain \/ WaitForWorker \/ Join
    BY <2>5 DEF Drain, WaitForWorker, Join, TakeEvents, Mailbox!TakeAll
  <2>6. CASE \/ Listen \/ Poll \/ Handle \/ Accept \/ ReadClient \/ Tick \/ BeginStop
             \/ WaitEnds \/ LeaveBehind \/ Exit
    BY <2>6 DEF Listen, Poll, Handle, Accept, ReadClient, Tick, BeginStop, WaitEnds, LeaveBehind,
           Exit, Mailbox!Close, mailboxVars
  <2> QED
    BY <2>1, <2>2, <2>3, <2>4, <2>5, <2>6, StepCases DEF OtherThreads, MainStep
<1> QED
  BY <1>1, <1>2, PTL DEF Spec

(* The two ends of the pipeline when it is empty.                          *)
LEMMA EmptyPipeline ==
    ASSUME CoreInv, WorkerInv, EventsInv, PipelineInv, ~closed, taken = <<>>, queue = <<>>,
           outbox = <<>>
    PROVE  /\ subscribed => worker_subscribed /\ subscription = subscriptions
           /\ listening /\ ~subscribed => ~worker_subscribed
<1>1. PICK views : /\ Replays(views, taken \o queue)
                   /\ CoreMatches(views[0])
                   /\ WorkerMatches(views[Len(taken \o queue)])
  BY DEF PipelineInv
<1>2. Len(taken \o queue) = 0
  BY PipelineTypes, EmptySeq
<1>3. PICK view : view = views[0]
  OBVIOUS
<1>4. CoreMatches(view) /\ WorkerMatches(view)
  BY <1>1, <1>2, <1>3
<1>5. /\ subscribed => fed = subscription /\ subscription > 0
      /\ listening /\ ~subscribed => fed = 0
  BY <1>4 DEF CoreMatches, WorkerMatches
<1>6. /\ worker_subscribed \in BOOLEAN
      /\ worker_subscribed => fed = subscriptions /\ subscriptions > 0
      /\ ~worker_subscribed => fed = 0
  <2>1. WorkerProofs!Settled
    <3>1. outbox \in {<<>>, <<WorkerProofs!Other>>} /\ WorkerProofs!Settled
      BY DEF WorkerInv, WorkerProofs!FeedInv, WorkerProofs!Opening, WorkerProofs!Reading,
             WorkerProofs!Closing, WorkerProofs!Losing
    <3> QED
      BY <3>1
  <2>2. /\ worker_subscribed \in BOOLEAN
        /\ worker_subscribed => subscriptions > 0
    BY DEF WorkerInv, WorkerProofs!CallInv, WorkerProofs!Shaped, WorkerProofs!SubscriptionInv
  <2> QED
    BY <2>1, <2>2 DEF WorkerProofs!Settled
<1>7. CoreInv /\ subscription \in Nat
  BY DEF CoreInv, CoreProofs!TypeOK, CoreProofs!NumberTypes
<1> QED
  BY <1>5, <1>6, <1>7

(* CoreFollowsTheWorker: with no event on its way, the core holds the      *)
(* subscription that the worker holds.                                     *)
THEOREM FollowingCorrect == Spec => []CoreFollowsTheWorker
<1>1. CoreInv /\ ProcessInv /\ WorkerInv => CoreFollowsTheWorker
  <2> SUFFICES ASSUME CoreInv, ProcessInv, WorkerInv, main \notin Handlers, listening,
                      outbox = <<>>, queue = <<>>
               PROVE  /\ subscribed = worker_subscribed
                      /\ subscribed => subscription = subscriptions
    BY DEF CoreFollowsTheWorker
  <2>1. taken = <<>> /\ ~closed
    BY DEF ProcessInv, PlaceInv, EndInv, Serving
  <2>2. /\ subscribed => worker_subscribed /\ subscription = subscriptions
        /\ ~subscribed => ~worker_subscribed
    BY <2>1, EmptyPipeline DEF ProcessInv
  <2>3. subscribed \in BOOLEAN /\ worker_subscribed \in BOOLEAN
    BY CoreFacts DEF WorkerInv, WorkerProofs!CallInv, WorkerProofs!Shaped
  <2> QED
    BY <2>2, <2>3
<1> QED
  BY <1>1, ProcessCorrect, WorkerInvCorrect, PTL

(* JoinedExitIsClean: a relay that joined its worker leaves nothing open.  *)
THEOREM JoinedExitCorrect == Spec => []JoinedExitIsClean
<1>1. CoreInv /\ ProcessInv /\ WorkerInv => JoinedExitIsClean
  <2> SUFFICES ASSUME CoreInv, ProcessInv, WorkerInv, main = "exited", worker_joined
               PROVE  /\ queue = <<>> /\ outbox = <<>> /\ mailbox_dropped = 0
                      /\ ~subscribed /\ ~in_phase
    BY DEF JoinedExitIsClean
  <2>1. worker_pc = "done" /\ queue = <<>> /\ ~closed /\ mailbox_dropped = 0
    BY DEF ProcessInv, EndInv
  <2>2. outbox = <<>>
    BY <2>1 DEF WorkerInv, WorkerProofs!QuietInv
  <2>3. taken = <<>>
    BY HandlersAre DEF ProcessInv, PlaceInv
  <2>4. ~worker_subscribed
    BY <2>1 DEF WorkerInv, WorkerProofs!CallInv, WorkerProofs!SubscriptionInv
  <2>5. ~subscribed
    BY <2>1, <2>2, <2>3, <2>4, EmptyPipeline DEF ProcessInv
  <2>6. ~in_phase
    BY <2>5, CoreFacts
  <2> QED
    BY <2>1, <2>2, <2>5, <2>6
<1> QED
  BY <1>1, ProcessCorrect, WorkerInvCorrect, PTL

(* Only a served slot is a delivery, in the subscription that is open.     *)
LEMMA ServedEvent ==
    ASSUME CoreInv, ProcessInv, WorkerInv, Handle, frames_delivered' > frames_delivered
    PROVE  Head(taken).n = subscription
<1> USE DEF Core!frameVars
<1>1. PICK event \in Events : event = Head(taken) /\ HandleEvent(event)
  BY HandleEffect DEF Handle, ProcessInv
<1>2. taken # <<>> /\ ~closed
  BY HandleEffect, HandlersAre DEF ProcessInv, PlaceInv, EndInv
<1>3. frames_delivered' # frames_delivered
  BY CoreFacts
<1>4. event.kind = "message" /\ ForwardSlot(event.slot)
  <2>1. CASE event.kind = "subscribed"
    BY <1>1, <1>3, <2>1 DEF HandleEvent, Core!OnSubscribed
  <2>2. CASE event.kind = "ended"
    BY <1>1, <1>3, <2>2 DEF HandleEvent, Core!OnSubscriptionEnded
  <2>3. CASE event.kind = "lost"
    BY <1>1, <1>3, <2>3 DEF HandleEvent, Core!OnClientLost
  <2>4. CASE event.kind = "other"
    BY <1>1, <1>3, <2>4 DEF HandleEvent, coreVars
  <2> QED
    BY <1>1, <2>1, <2>2, <2>3, <2>4, EventFields DEF HandleEvent
<1>5. Core!ServeSlot(event.slot)
  <2>1. CASE Core!DropSlot(event.slot)
    BY <1>3, <2>1 DEF Core!DropSlot, Core!Drop
  <2>2. CASE Core!WriteFailed(event.slot)
    BY <1>3, <2>2 DEF Core!WriteFailed, Core!Drop
  <2>3. CASE Core!WriteStopped(event.slot)
    BY <1>3, <2>3 DEF Core!WriteStopped, Core!Drop
  <2> QED
    BY <1>4, <2>1, <2>2, <2>3 DEF ForwardSlot
<1>6. subscribed
  BY <1>5, CoreFacts DEF Core!ServeSlot, Core!Verdict
<1> QED
  BY <1>1, <1>2, <1>4, <1>6, RoomForTheCore DEF ProcessInv

(* ServedFromTheCurrentSubscription: a frame that reaches the ingress was  *)
(* read in the subscription that the core holds.                           *)
THEOREM ServedCorrect == Spec => ServedFromTheCurrentSubscription
<1>1. CoreInv /\ ProcessInv /\ WorkerInv /\ [Next]_vars =>
          [frames_delivered' > frames_delivered => Head(taken).n = subscription]_vars
  <2> SUFFICES ASSUME CoreInv, ProcessInv, WorkerInv, [Next]_vars,
                      frames_delivered' > frames_delivered
               PROVE  Head(taken).n = subscription
    OBVIOUS
  <2> USE DEF Core!frameVars
  <2>1. frames_delivered' # frames_delivered
    BY CoreFacts
  <2>2. CASE Handle
    BY <2>2, ServedEvent
  <2>3. CASE OtherThreads \/ Environment \/ UNCHANGED vars
    BY <2>1, <2>3, OtherThreadsLeave, EnvironmentLeaves DEF coreVars
  <2>4. CASE Poll \/ WaitEnds \/ LeaveBehind \/ Exit
    BY <2>1, <2>4 DEF Poll, WaitEnds, LeaveBehind, Exit, coreVars
  <2>5. CASE Drain \/ WaitForWorker \/ Join
    BY <2>1, <2>5, TakeEventsEffect DEF Drain, WaitForWorker, Join, coreVars
  <2>6. CASE Listen
    BY <2>1, <2>6 DEF Listen, Core!OnListening
  <2>7. CASE Accept
    BY <2>1, <2>7 DEF Accept, Core!OnClientAccepted, Core!OnClientRefused, coreVars
  <2>8. CASE ReadClient
    BY <2>1, <2>8 DEF ReadClient, Core!OnClientDisconnected, coreVars
  <2>9. CASE Tick
    BY <2>1, <2>9 DEF Tick, Core!OnTick
  <2>10. CASE BeginStop
    BY <2>1, <2>10 DEF BeginStop, Core!Stop
  <2> QED
    BY <2>2, <2>3, <2>4, <2>5, <2>6, <2>7, <2>8, <2>9, <2>10, StepCases DEF MainStep
<1> QED
  BY <1>1, ProcessCorrect, WorkerInvCorrect, PTL DEF Spec, ServedFromTheCurrentSubscription

-----------------------------------------------------------------------------
(* The types.                                                              *)

FlagsInv ==
    /\ ready \in BOOLEAN /\ stop_signal \in BOOLEAN /\ peer_gone \in BOOLEAN
    /\ revents \subseteq {"listen", "client"}
    /\ backlog \in {"none", "up", "gone"}
    /\ exit_code \in {0, kExitGatewayClientLost}

LEMMA FlagsCorrect == Spec => []FlagsInv
<1>1. Init => FlagsInv
  BY DEF Init, Mailbox!Init, FlagsInv
<1>2. FlagsInv /\ [Next]_vars => FlagsInv'
  <2> SUFFICES ASSUME FlagsInv, [Next]_vars PROVE FlagsInv'
    OBVIOUS
  <2> USE DEF FlagsInv, mailboxVars, socketVars, exitVars, mainVars
  <2>1. CASE WorkerStep \/ WorkerPosts \/ LibraryStep
    BY <2>1 DEF WorkerStep, WorkerPosts, LibraryStep, Mailbox!Wake, Mailbox!Post
  <2>2. CASE IngressConnects \/ IngressGoes \/ StopSignal \/ UNCHANGED vars
    BY <2>2 DEF IngressConnects, IngressGoes, StopSignal, vars
  <2>3. CASE Listen \/ Tick \/ BeginStop
    BY <2>3 DEF Listen, Tick, BeginStop
  <2>4. CASE Poll
    BY <2>4 DEF Poll, Readable
  <2>5. CASE Drain \/ WaitForWorker \/ Join
    BY <2>5 DEF Drain, WaitForWorker, Join, TakeEvents, Mailbox!TakeAll
  <2>6. CASE Handle
    <3>1. PICK event : HandleEvent(event)
      BY <2>6 DEF Handle
    <3>2. peer_gone' \in BOOLEAN /\ UNCHANGED backlog
      BY <3>1 DEF HandleEvent, ForwardSlot, CloseClient
    <3> QED
      BY <2>6, <3>2 DEF Handle
  <2>7. CASE Accept
    <3>1. peer_gone' \in BOOLEAN /\ backlog' \in {"none", "up", "gone"}
      BY <2>7 DEF Accept
    <3> QED
      BY <2>7, <3>1 DEF Accept
  <2>8. CASE ReadClient
    BY <2>8 DEF ReadClient, CloseClient
  <2>9. CASE WaitEnds \/ LeaveBehind \/ Exit
    BY <2>9 DEF WaitEnds, LeaveBehind, Exit, Mailbox!Close
  <2> QED
    BY <2>1, <2>2, <2>3, <2>4, <2>5, <2>6, <2>7, <2>8, <2>9 DEF Next, MainStep
<1> QED
  BY <1>1, <1>2, PTL DEF Spec

(* TypeOK: the variables of the shell and the mailbox have their types, and*)
(* the mailbox never holds more than its capacity.                         *)
THEOREM ProcessTypeCorrect == Spec => []TypeOK
<1>1. ProcessInv /\ FlagsInv => TypeOK
  <2> SUFFICES ASSUME ProcessInv, FlagsInv PROVE TypeOK
    OBVIOUS
  <2>1. /\ main \in Handlers \cup {"start", "turn", "drain", "accept", "read", "tick",
                                  "wait", "join", "final", "exited"}
    BY HandlersAre DEF ProcessInv, PlaceInv, Serving, Stopping
  <2>2. /\ taken \in Seq(Events) /\ queue \in Seq(Events)
        /\ Len(queue) <= MailboxCapacity /\ Len(taken) <= MailboxCapacity
    BY PipelineTypes DEF ProcessInv, EventsInv
  <2>3. {closed, ready, stop_signal, client_open, peer_gone, worker_joined} \subseteq BOOLEAN
    BY DEF ProcessInv, EndInv, SocketInv, FlagsInv
  <2>4. mailbox_dropped \in Nat /\ connects \in 0 .. MaxClients
    BY DEF ProcessInv, EndInv, SocketInv
  <2> QED
    BY <2>1, <2>2, <2>3, <2>4 DEF TypeOK, FlagsInv
<1> QED
  BY <1>1, ProcessCorrect, FlagsCorrect, PTL

-----------------------------------------------------------------------------
(* The call monitor.                                                       *)

\* What is in the slot has ended and was not reported before.
SlotIsFresh == returned # NoCall => Ended(returned) /\ returned \notin returns

CallIsNumbered == in_call => number \in 1 .. MaxCalls

CallsInv ==
  /\ MonitorTypeOK
  /\ CallIsNumbered
  /\ MarkIsOfTheCall
  /\ ReturnsAreOfStalls
  /\ SlotIsFresh

\* The monitor starts with no call, no stall and an empty slot.
LEMMA CallInitInv == MonitorInit => CallsInv /\ ReturnsAreLostOnlyToLaterStalls
<1> SUFFICES ASSUME MonitorInit PROVE CallsInv /\ ReturnsAreLostOnlyToLaterStalls
  OBVIOUS
<1> USE DEF MonitorInit
<1>1. CallFlagTypes
  BY DEF CallFlagTypes
<1>2. CallNumberTypes
  BY MonitorAssumption DEF CallNumberTypes, NoCall
<1>3. CallIsNumbered /\ SlotIsFresh
  BY DEF CallIsNumbered, SlotIsFresh
<1>4. MarkIsOfTheCall
  BY DEF MarkIsOfTheCall
<1>5. ReturnsAreOfStalls /\ ReturnsAreLostOnlyToLaterStalls
  BY DEF ReturnsAreOfStalls, ReturnsAreLostOnlyToLaterStalls
<1> QED
  BY <1>1, <1>2, <1>3, <1>4, <1>5 DEF CallsInv, MonitorTypeOK

\* Every operation of the monitor keeps the flags Boolean.
LEMMA CallFlags == CallFlagTypes /\ [MonitorNext]_monitorVars => CallFlagTypes'
  BY DEF CallFlagTypes, MonitorNext, monitorVars, Begin, End, TakeNewStall, TakeReturnedStall

\* Every operation keeps the slot and the reports within the calls begun.
LEMMA CallNumbers == CallsInv /\ [MonitorNext]_monitorVars => CallNumberTypes' /\ CallIsNumbered'
<1> SUFFICES ASSUME CallsInv, [MonitorNext]_monitorVars PROVE CallNumberTypes' /\ CallIsNumbered'
  OBVIOUS
<1> USE MonitorAssumption DEF CallsInv, MonitorTypeOK, CallNumberTypes, CallIsNumbered
<1>1. CASE Begin
  BY <1>1 DEF Begin, NoCall
<1>2. CASE End
  <2>1. current_stalled => number \in stalls
    BY DEF MarkIsOfTheCall
  <2> QED
    BY <1>2, <2>1 DEF End
<1>3. ASSUME NEW long \in BOOLEAN, TakeNewStall(long)
      PROVE CallNumberTypes' /\ CallIsNumbered'
  <2>1. UNCHANGED <<in_call, number, returned, returns>>
    BY <1>3 DEF TakeNewStall
  <2>2. CASE in_call /\ stalls' = stalls \cup {number}
    BY <2>1, <2>2
  <2>3. CASE UNCHANGED stalls
    BY <2>1, <2>3
  <2> QED
    BY <1>3, <2>2, <2>3 DEF TakeNewStall
<1>4. CASE TakeReturnedStall
  BY <1>4 DEF TakeReturnedStall, NoCall
<1>5. CASE UNCHANGED monitorVars
  BY <1>5 DEF monitorVars
<1> QED
  BY <1>1, <1>2, <1>3, <1>4, <1>5 DEF MonitorNext

\* Every operation keeps the mark with the call in progress.
LEMMA StepMark == CallsInv /\ [MonitorNext]_monitorVars => MarkIsOfTheCall'
<1> SUFFICES ASSUME CallsInv, [MonitorNext]_monitorVars PROVE MarkIsOfTheCall'
  OBVIOUS
<1> USE DEF CallsInv, MarkIsOfTheCall
<1>1. CASE Begin
  <2>1. number' \notin stalls
    BY <1>1, MonitorAssumption DEF Begin, MonitorTypeOK, CallNumberTypes
  <2> QED
    BY <1>1, <2>1 DEF Begin
<1>2. CASE End
  BY <1>2 DEF End
<1>3. ASSUME NEW long \in BOOLEAN, TakeNewStall(long) PROVE MarkIsOfTheCall'
  BY <1>3 DEF TakeNewStall
<1>4. CASE TakeReturnedStall
  BY <1>4 DEF TakeReturnedStall
<1>5. CASE UNCHANGED monitorVars
  BY <1>5 DEF monitorVars
<1> QED
  BY <1>1, <1>2, <1>3, <1>4, <1>5 DEF MonitorNext

\* A call that has ended has ended for good.
LEMMA EndedStays ==
  ASSUME CallsInv, [MonitorNext]_monitorVars, NEW n \in 1 .. number, Ended(n)
  PROVE  Ended(n)'
<1> USE MonitorAssumption DEF CallsInv, MonitorTypeOK, CallNumberTypes, Ended
<1>1. CASE Begin
  BY <1>1 DEF Begin
<1>2. CASE End
  BY <1>2 DEF End
<1>3. CASE UNCHANGED <<in_call, number>>
  BY <1>3
<1> QED
  BY <1>1, <1>2, <1>3 DEF MonitorNext, TakeNewStall, TakeReturnedStall, monitorVars

\* Every operation keeps the reported returns and the slot to calls that were
\* reported as stalled and have ended.
LEMMA StepReturns == CallsInv /\ [MonitorNext]_monitorVars => ReturnsAreOfStalls' /\ SlotIsFresh'
<1> SUFFICES ASSUME CallsInv, [MonitorNext]_monitorVars PROVE ReturnsAreOfStalls' /\ SlotIsFresh'
  OBVIOUS
<1> USE DEF CallsInv, ReturnsAreOfStalls, SlotIsFresh
<1>1. \A n \in returns : n \in stalls /\ Ended(n)'
  BY EndedStays DEF MonitorTypeOK, CallNumberTypes
<1>2. returned # NoCall => returned \in stalls /\ Ended(returned)
                           /\ returned \in 1 .. number
  BY DEF MonitorTypeOK, CallNumberTypes
<1>3. ASSUME returned # NoCall, returned' = returned PROVE Ended(returned)'
  <2>1. PICK n \in 1 .. number : n = returned /\ Ended(n)
    BY <1>2, <1>3
  <2>2. Ended(n)'
    BY <2>1, EndedStays
  <2> QED
    BY <2>1, <2>2, <1>3 DEF Ended
<1>4. CASE Begin \/ UNCHANGED monitorVars
  BY <1>1, <1>3, <1>4 DEF Begin, monitorVars
<1>5. CASE End /\ current_stalled
  <2>1. number \in stalls /\ number \notin returns
    <3>1. ~Ended(number)
      BY <1>5, MonitorAssumption DEF End, Ended, MonitorTypeOK, CallNumberTypes
    <3> QED
      BY <1>5, <3>1 DEF MarkIsOfTheCall
  <2>2. Ended(number)'
    BY <1>5 DEF End, Ended
  <2> QED
    BY <1>1, <1>5, <2>1, <2>2 DEF End, Ended
<1>6. CASE End /\ ~current_stalled
  BY <1>1, <1>3, <1>6 DEF End
<1>7. ASSUME NEW long \in BOOLEAN, TakeNewStall(long)
      PROVE ReturnsAreOfStalls' /\ SlotIsFresh'
  BY <1>1, <1>3, <1>7 DEF TakeNewStall
<1>8. CASE TakeReturnedStall
  <2>2. \A n \in returns' : n \in stalls /\ Ended(n)'
    <3> SUFFICES ASSUME NEW n \in returns' PROVE n \in stalls /\ Ended(n)'
      OBVIOUS
    <3>1. CASE n \in returns
      BY <1>1, <3>1
    <3>2. CASE n = returned /\ returned # NoCall
      BY <1>2, <1>8, <3>2 DEF TakeReturnedStall, Ended
    <3> QED
      BY <1>8, <3>1, <3>2 DEF TakeReturnedStall
  <2> QED
    BY <1>8, <2>2 DEF TakeReturnedStall
<1> QED
  BY <1>4, <1>5, <1>6, <1>7, <1>8 DEF MonitorNext

\* Only the end of a later stalled call can push a return out of the slot.
LEMMA StepLost ==
  CallsInv /\ ReturnsAreLostOnlyToLaterStalls /\ [MonitorNext]_monitorVars
    => ReturnsAreLostOnlyToLaterStalls'
<1> SUFFICES ASSUME CallsInv, ReturnsAreLostOnlyToLaterStalls, [MonitorNext]_monitorVars,
                    NEW n \in stalls', Ended(n)'
             PROVE  \/ n \in returns' \cup {returned'}
                    \/ \E later \in stalls' : n < later /\ Ended(later)'
  BY DEF ReturnsAreLostOnlyToLaterStalls
<1>1. /\ stalls \subseteq stalls'
      /\ returns \subseteq returns'
      /\ stalls \subseteq 1 .. number
  BY DEF CallsInv, MonitorTypeOK, CallNumberTypes, MonitorNext, monitorVars, Begin, End, TakeNewStall,
     TakeReturnedStall
<1>2. ASSUME n \in stalls, Ended(n), n \notin returns \cup {returned}
      PROVE  \E later \in stalls' : n < later /\ Ended(later)'
  <2>1. PICK later \in stalls : n < later /\ Ended(later)
    BY <1>2 DEF ReturnsAreLostOnlyToLaterStalls
  <2>2. Ended(later)'
    BY <1>1, <2>1, EndedStays
  <2> QED
    BY <1>1, <2>1, <2>2
<1>3. ASSUME n \in stalls, Ended(n), n = returned, returned' # returned
      PROVE  \/ n \in returns'
             \/ \E later \in stalls' : n < later /\ Ended(later)'
  <2>1. CASE End
    <3>1. PICK later \in stalls : later = number /\ n < later
      BY <1>1, <1>3, <2>1, MonitorAssumption
         DEF End, Ended, CallsInv, MonitorTypeOK, CallNumberTypes, MarkIsOfTheCall
    <3>2. Ended(later)'
      BY <2>1, <3>1 DEF End, Ended
    <3> QED
      BY <1>1, <3>1, <3>2
  <2>2. CASE TakeReturnedStall
    BY <1>1, <1>3, <2>2 DEF TakeReturnedStall, NoCall
  <2> QED
    BY <1>3, <2>1, <2>2 DEF MonitorNext, monitorVars, Begin, TakeNewStall
<1>4. ASSUME n \in stalls, ~Ended(n) PROVE n = returned'
  <2>1. n = number /\ in_call
    BY <1>1, <1>4, MonitorAssumption DEF Ended, CallsInv, MonitorTypeOK, CallNumberTypes
  <2>2. End
    BY <1>4, <2>1, MonitorAssumption
       DEF Ended, MonitorNext, monitorVars, Begin, TakeNewStall, TakeReturnedStall
  <2> QED
    BY <1>4, <2>1, <2>2 DEF End, CallsInv, MarkIsOfTheCall
<1>5. n \in stalls
  <2> SUFFICES ASSUME n \notin stalls PROVE FALSE
    OBVIOUS
  <2>1. n = number /\ in_call /\ in_call' = in_call /\ number' = number
    BY DEF MonitorNext, monitorVars, Begin, End, TakeNewStall, TakeReturnedStall
  <2> QED
    BY <2>1, MonitorAssumption DEF Ended, CallsInv, MonitorTypeOK, CallNumberTypes
<1> QED
  BY <1>1, <1>2, <1>3, <1>4, <1>5

\* Both invariants hold in every behaviour of the monitor.
LEMMA CallInvCorrect == MonitorSpec => [](CallsInv /\ ReturnsAreLostOnlyToLaterStalls)
<1>1. MonitorInit => CallsInv /\ ReturnsAreLostOnlyToLaterStalls
  BY CallInitInv
<1>2. CallsInv /\ [MonitorNext]_monitorVars => CallsInv'
  BY CallFlags, CallNumbers, StepMark, StepReturns DEF CallsInv, MonitorTypeOK
<1> QED
  BY <1>1, <1>2, StepLost, PTL DEF MonitorSpec

\* The call monitor is well typed, for any number of calls.
THEOREM MonitorTypeCorrect == MonitorSpec => []MonitorTypeOK
<1>1. CallsInv => MonitorTypeOK
  BY DEF CallsInv
<1> QED
  BY <1>1, CallInvCorrect, PTL

\* The mark belongs to the call in progress: TakeNewStall reports a call once.
THEOREM MarkCorrect == MonitorSpec => []MarkIsOfTheCall
<1>1. CallsInv => MarkIsOfTheCall
  BY DEF CallsInv
<1> QED
  BY <1>1, CallInvCorrect, PTL

\* TakeReturnedStall gives only calls that were reported and have ended.
THEOREM ReturnsCorrect == MonitorSpec => []ReturnsAreOfStalls
<1>1. CallsInv => ReturnsAreOfStalls
  BY DEF CallsInv
<1> QED
  BY <1>1, CallInvCorrect, PTL

\* A report of a return is lost only to the end of a later stalled call.
THEOREM LossesCorrect == MonitorSpec => []ReturnsAreLostOnlyToLaterStalls
  BY CallInvCorrect, PTL

\* TakeReturnedStall gives a call at most once.
THEOREM ReturnedOnce == MonitorSpec => ReturnReportedOnce
<1>1. CallsInv /\ [MonitorNext]_monitorVars => [checking /\ ~checking' => returned \notin returns]_monitorVars
  <2> SUFFICES ASSUME CallsInv PROVE returned \notin returns
    OBVIOUS
  <2>1. CASE returned = NoCall
    BY <2>1 DEF CallsInv, MonitorTypeOK, CallNumberTypes, NoCall
  <2> QED
    BY <2>1 DEF CallsInv, SlotIsFresh
<1> QED
  BY <1>1, CallInvCorrect, PTL DEF MonitorSpec, ReturnReportedOnce

-----------------------------------------------------------------------------
(* The retry schedule.                                                     *)

\* What the places of the worker say of the schedule.
ModeInv ==
  /\ mode \in {"no_client", "client_new"} =>
       next_subscribe_attempt = 0 /\ ~ended /\ ~ever_subscribed
  /\ mode = "subscribed" => ever_subscribed /\ ~failing
  /\ mode = "subscribe" => last_end_at <= attempt_start
  /\ ended => ever_subscribed
  /\ ~ended => last_end = "relay_stop"

\* consecutive_silent counts the subscriptions without a message at the end.
CountInv ==
  /\ consecutive_silent <= Len(brought)
  /\ consecutive_silent < Len(brought) =>
       brought[Len(brought) - consecutive_silent]

\* A back-off is kept from the last end and from the last failed attempt.
BackOffInv ==
  mode = "unsubscribed" /\ BackingOff =>
    /\ next_subscribe_attempt >= last_end_at + SilentBackOff
    /\ failing => next_subscribe_attempt >= attempt_start + SilentBackOff

\* The schedule starts well typed, with no client and nothing counted.
LEMMA ScheduleInitInv ==
  ScheduleInit => /\ ScheduleTypeOK /\ ModeInv /\ CountInv /\ BackOffInv
          /\ WaitsAreBounded /\ DestroyedIsRetriedFast
<1> SUFFICES ASSUME ScheduleInit
             PROVE  /\ ScheduleTypeOK /\ ModeInv /\ CountInv /\ BackOffInv
                    /\ WaitsAreBounded /\ DestroyedIsRetriedFast
  OBVIOUS
<1> USE DEF ScheduleInit
<1>1. RetryFlagTypes
  BY DEF RetryFlagTypes
<1>2. RetryNumberTypes
  BY DEF RetryNumberTypes
<1>3. brought \in Seq(BOOLEAN)
  OBVIOUS
<1>4. ModeInv /\ BackOffInv /\ DestroyedIsRetriedFast
  BY DEF ModeInv, BackOffInv, DestroyedIsRetriedFast
<1>5. CountInv
  BY DEF CountInv
<1>6. WaitsAreBounded
  BY ScheduleAssumption DEF WaitsAreBounded
<1> QED
  BY <1>1, <1>2, <1>3, <1>4, <1>5, <1>6 DEF ScheduleTypeOK

\* Every step keeps the flags and places.
LEMMA StepFlags == RetryFlagTypes /\ [ScheduleNext]_retryVars => RetryFlagTypes'
<1> USE DEF RetryFlagTypes, retryVars, attemptVars, scheduleVars, retrySubVars, historyVars
<1> SUFFICES ASSUME RetryFlagTypes, [ScheduleNext]_retryVars PROVE RetryFlagTypes'
  OBVIOUS
<1>1. CASE SignOfLife
  BY <1>1 DEF SignOfLife
<1>2. CASE PublicationDestroyed \/ Silent
  BY <1>2 DEF PublicationDestroyed, Silent, EndSubscription, OnEnded
<1>3. CASE SubscribeReturns \/ SubscribeFails \/ BeginSubscribe
  BY <1>3 DEF SubscribeReturns, SubscribeFails, BeginSubscribe
<1>4. CASE BeginClientNew \/ ClientNewFails \/ InitCommsReturns
  BY <1>4 DEF BeginClientNew, ClientNewFails, InitCommsReturns
<1>5. CASE TimePasses \/ UNCHANGED retryVars
  BY <1>5 DEF TimePasses
<1> QED
  BY <1>1, <1>2, <1>3, <1>4, <1>5 DEF ScheduleNext

\* A period is at least the shortest and, by what is known of the past, at
\* most the slow one, or at most the back-off.
LEMMA PeriodBounds ==
  ASSUME ScheduleTypeOK, NEW at \in Nat
  PROVE  /\ SubscribePeriod(at) \in Nat
         /\ SubscribePeriod(at) <= SlowRetryPeriod
         /\ ever_subscribed => SubscribePeriod(at) <= SilentBackOff
         /\ ~ever_subscribed /\ at < StartDiagnostic =>
              SubscribePeriod(at) = RetryPeriod
         /\ ever_subscribed /\ JustDestroyed(at) =>
              SubscribePeriod(at) = DestroyedRetryPeriod
         /\ ever_subscribed /\ BackingOff =>
              SubscribePeriod(at) = SilentBackOff
  BY ScheduleAssumption DEF SubscribePeriod, JustDestroyed, BackingOff, ScheduleTypeOK,
     RetryFlagTypes

\* Every step keeps the numbers, and nothing is put in the future.
LEMMA StepNumbers == ScheduleTypeOK /\ [ScheduleNext]_retryVars => RetryNumberTypes'
<1> USE DEF ScheduleTypeOK, RetryNumberTypes, retryVars, attemptVars, scheduleVars, retrySubVars,
            historyVars
<1> SUFFICES ASSUME ScheduleTypeOK, [ScheduleNext]_retryVars PROVE RetryNumberTypes'
  OBVIOUS
<1>1. CASE SignOfLife
  BY <1>1 DEF SignOfLife
<1>2. CASE PublicationDestroyed \/ Silent
  <2>1. PICK end : EndSubscription(end)
    BY <1>2 DEF PublicationDestroyed, Silent
  <2>2. consecutive_silent' \in Nat /\ last_end_at' = now
    BY <2>1 DEF EndSubscription, OnEnded, CountSilent
  <2>3. next_subscribe_attempt' \in Nat
    BY <2>1, ScheduleAssumption DEF EndSubscription, FirstAttempt
  <2> QED
    BY <2>1, <2>2, <2>3 DEF EndSubscription
<1>3. CASE SubscribeReturns \/ BeginSubscribe
  BY <1>3 DEF SubscribeReturns, BeginSubscribe
<1>4. CASE SubscribeFails
  <2>1. SubscribePeriod(attempt_start) \in Nat
    BY PeriodBounds
  <2> QED
    BY <1>4, <2>1 DEF SubscribeFails, NextAttempt, LaterTime
<1>5. CASE BeginClientNew
  BY <1>5 DEF BeginClientNew
<1>6. CASE ClientNewFails
  BY <1>6, ScheduleAssumption DEF ClientNewFails, NextClientAttempt, LaterTime
<1>7. CASE InitCommsReturns
  BY <1>7, ScheduleAssumption DEF InitCommsReturns, FirstAttempt, LaterTime
<1>8. CASE TimePasses
  BY <1>8 DEF TimePasses
<1>9. CASE UNCHANGED retryVars
  BY <1>9
<1> QED
  BY <1>1, <1>2, <1>3, <1>4, <1>5, <1>6, <1>7, <1>8, <1>9 DEF ScheduleNext

\* Every step keeps the types.
LEMMA StepType == ScheduleTypeOK /\ [ScheduleNext]_retryVars => ScheduleTypeOK'
<1> SUFFICES ASSUME ScheduleTypeOK, [ScheduleNext]_retryVars PROVE (brought \in Seq(BOOLEAN))'
  BY StepFlags, StepNumbers DEF ScheduleTypeOK
<1>1. CASE UNCHANGED brought
  BY <1>1 DEF ScheduleTypeOK
<1>2. CASE brought' = Append(brought, messages)
  BY <1>2 DEF ScheduleTypeOK, RetryFlagTypes
<1> QED
  BY <1>1, <1>2 DEF ScheduleNext, retryVars, attemptVars, scheduleVars, retrySubVars,
     historyVars, TimePasses, BeginClientNew, ClientNewFails,
     InitCommsReturns, BeginSubscribe, SubscribeReturns, SubscribeFails,
     SignOfLife, PublicationDestroyed, Silent, EndSubscription

\* Every step keeps what the places say of the schedule.
LEMMA StepMode == ScheduleTypeOK /\ ModeInv /\ [ScheduleNext]_retryVars => ModeInv'
<1> USE DEF ModeInv, retryVars, attemptVars, scheduleVars, retrySubVars, historyVars
<1> SUFFICES ASSUME ScheduleTypeOK, ModeInv, [ScheduleNext]_retryVars PROVE ModeInv'
  OBVIOUS
<1>1. CASE SignOfLife
  BY <1>1 DEF SignOfLife
<1>6. CASE TimePasses
  BY <1>6 DEF TimePasses
<1>7. CASE UNCHANGED retryVars
  BY <1>7
<1>2. CASE PublicationDestroyed \/ Silent
  BY <1>2 DEF PublicationDestroyed, Silent, EndSubscription, OnEnded
<1>3. CASE SubscribeReturns \/ SubscribeFails
  BY <1>3 DEF SubscribeReturns, SubscribeFails
<1>4. CASE BeginSubscribe
  BY <1>4 DEF BeginSubscribe, ScheduleTypeOK, RetryNumberTypes
<1>5. CASE BeginClientNew \/ ClientNewFails \/ InitCommsReturns
  BY <1>5 DEF BeginClientNew, ClientNewFails, InitCommsReturns
<1> QED
  BY <1>1, <1>2, <1>3, <1>4, <1>5, <1>6, <1>7 DEF ScheduleNext

\* What a step does to the schedule: nothing, or the end of a subscription.
LEMMA EndSteps ==
  ASSUME ScheduleTypeOK, [ScheduleNext]_retryVars
  PROVE  \/ /\ UNCHANGED <<ended, last_end, last_end_at, consecutive_silent,
                           brought>>
            /\ ever_subscribed => ever_subscribed'
         \/ \E end \in {"publication_destroyed", "silence_timeout"} :
              EndSubscription(end)
  BY DEF ScheduleNext, retryVars, attemptVars, scheduleVars, retrySubVars,
     historyVars, TimePasses, BeginClientNew, ClientNewFails,
     InitCommsReturns, BeginSubscribe, SubscribeReturns, SubscribeFails,
     SignOfLife, PublicationDestroyed, Silent

\* Every step keeps the count of subscriptions without a message.
LEMMA StepCount == ScheduleTypeOK /\ CountInv /\ [ScheduleNext]_retryVars => CountInv'
<1> SUFFICES ASSUME ScheduleTypeOK, CountInv, [ScheduleNext]_retryVars PROVE CountInv'
  OBVIOUS
<1>1. CASE UNCHANGED <<consecutive_silent, brought>>
  BY <1>1 DEF CountInv
<1>2. ASSUME NEW end, EndSubscription(end) PROVE CountInv'
  <2>1. /\ brought \in Seq(BOOLEAN) /\ messages \in BOOLEAN
        /\ consecutive_silent \in Nat
        /\ brought' = Append(brought, messages)
    BY <1>2 DEF ScheduleTypeOK, RetryFlagTypes, RetryNumberTypes, EndSubscription
  <2>2. /\ Len(brought') = Len(brought) + 1
        /\ \A i \in 1 .. Len(brought) : brought'[i] = brought[i]
        /\ brought'[Len(brought) + 1] = messages
    BY <2>1
  <2>3. CASE messages
    <3>1. consecutive_silent' = 0
      BY <1>2, <2>3 DEF EndSubscription, OnEnded, CountSilent
    <3>2. Len(brought') \in Nat /\ Len(brought') > 0
          /\ brought'[Len(brought') - 0] = messages
      BY <2>1, <2>2
    <3> QED
      BY <2>3, <3>1, <3>2 DEF CountInv
  <2>4. CASE ~messages
    <3>1. consecutive_silent' = consecutive_silent + 1
      BY <1>2, <2>4 DEF EndSubscription, OnEnded, CountSilent
    <3>2. Len(brought') - consecutive_silent'
            = Len(brought) - consecutive_silent
      BY <2>1, <2>2, <3>1
    <3>3. ASSUME consecutive_silent' < Len(brought')
          PROVE  brought'[Len(brought') - consecutive_silent']
      <4>1. Len(brought) - consecutive_silent \in 1 .. Len(brought)
        BY <2>1, <2>2, <3>1, <3>3
      <4>2. brought[Len(brought) - consecutive_silent]
        BY <2>1, <2>2, <3>1, <3>3 DEF CountInv
      <4> QED
        BY <2>2, <3>2, <4>1, <4>2
    <3>4. consecutive_silent' <= Len(brought')
      BY <2>1, <2>2, <3>1 DEF CountInv
    <3> QED
      BY <3>3, <3>4 DEF CountInv
  <2> QED
    BY <2>1, <2>3, <2>4
<1> QED
  BY <1>1, <1>2, EndSteps

\* Every step keeps the back-off.
LEMMA StepBackOff ==
  ScheduleTypeOK /\ ModeInv /\ BackOffInv /\ [ScheduleNext]_retryVars => BackOffInv'
<1> USE DEF retryVars, attemptVars, scheduleVars, retrySubVars, historyVars
<1> SUFFICES ASSUME ScheduleTypeOK, ModeInv, BackOffInv, [ScheduleNext]_retryVars,
                    mode' = "unsubscribed", BackingOff'
             PROVE  /\ next_subscribe_attempt' >= last_end_at' + SilentBackOff
                    /\ failing' => next_subscribe_attempt'
                                     >= attempt_start' + SilentBackOff
  BY DEF BackOffInv
<1>0. ASSUME UNCHANGED scheduleVars PROVE BackingOff
  BY <1>0 DEF BackingOff
<1>1. CASE TimePasses \/ UNCHANGED retryVars
  <2>1. UNCHANGED <<mode, attemptVars, scheduleVars, historyVars>>
    BY <1>1 DEF TimePasses
  <2>2. mode = "unsubscribed" /\ BackingOff
    BY <1>0, <2>1
  <2> QED
    BY <2>1, <2>2 DEF BackOffInv
<1>2. CASE PublicationDestroyed \/ Silent
  <2>1. PICK end : EndSubscription(end)
    BY <1>2 DEF PublicationDestroyed, Silent
  <2>2. next_subscribe_attempt' = now + SilentBackOff /\ last_end_at' = now
    BY <2>1 DEF EndSubscription, FirstAttempt, OnEnded
  <2>3. ~failing'
    BY <2>1 DEF EndSubscription, ModeInv
  <2> QED
    BY <2>2, <2>3, ScheduleAssumption DEF ScheduleTypeOK, RetryNumberTypes
<1>3. CASE SubscribeFails
  <2>1. BackingOff /\ ever_subscribed
    <3>1. BackingOff
      BY <1>0, <1>3 DEF SubscribeFails
    <3> QED
      BY <3>1 DEF BackingOff, ModeInv
  <2>2. SubscribePeriod(attempt_start) = SilentBackOff
    BY <2>1, PeriodBounds DEF ScheduleTypeOK, RetryNumberTypes
  <2>3. next_subscribe_attempt' >= attempt_start + SilentBackOff
    BY <1>3, <2>2, ScheduleAssumption
       DEF SubscribeFails, NextAttempt, LaterTime, ScheduleTypeOK, RetryNumberTypes
  <2>4. last_end_at <= attempt_start
    BY <1>3 DEF SubscribeFails, ModeInv
  <2>5. next_subscribe_attempt' \in Nat
    BY StepNumbers DEF RetryNumberTypes
  <2>6. attempt_start' = attempt_start /\ last_end_at' = last_end_at
    BY <1>3 DEF SubscribeFails
  <2> QED
    BY <2>3, <2>4, <2>5, <2>6, ScheduleAssumption DEF ScheduleTypeOK, RetryNumberTypes
<1>4. CASE InitCommsReturns
  BY <1>4 DEF InitCommsReturns, ModeInv, BackingOff
<1> QED
  BY <1>1, <1>2, <1>3, <1>4 DEF ScheduleNext, SignOfLife, SubscribeReturns,
     BeginSubscribe, BeginClientNew, ClientNewFails

\* Every step keeps the waits within their rules.
LEMMA StepWaits ==
  ScheduleTypeOK /\ ModeInv /\ WaitsAreBounded /\ [ScheduleNext]_retryVars => WaitsAreBounded'
<1> USE DEF retryVars, attemptVars, scheduleVars, retrySubVars, historyVars
<1> SUFFICES ASSUME ScheduleTypeOK, ModeInv, WaitsAreBounded, [ScheduleNext]_retryVars
             PROVE  WaitsAreBounded'
  OBVIOUS
<1>1. CASE TimePasses
  BY <1>1, ScheduleAssumption
     DEF TimePasses, WaitsAreBounded, ScheduleTypeOK, RetryNumberTypes
<1>2. CASE UNCHANGED retryVars
  BY <1>2 DEF WaitsAreBounded
<1>3. CASE PublicationDestroyed \/ Silent
  <2>1. PICK end : EndSubscription(end)
    BY <1>3 DEF PublicationDestroyed, Silent
  <2>2. /\ mode' = "unsubscribed" /\ now' = now
        /\ next_subscribe_attempt' \in {now, now + SilentBackOff}
        /\ ever_subscribed'
    BY <2>1 DEF EndSubscription, FirstAttempt, OnEnded, ModeInv
  <2> QED
    BY <2>2, ScheduleAssumption DEF WaitsAreBounded, ScheduleTypeOK, RetryNumberTypes
<1>4. CASE SubscribeFails
  <2> DEFINE period == SubscribePeriod(attempt_start)
  <2>1. /\ period \in Nat
        /\ period <= SlowRetryPeriod
        /\ ever_subscribed => period <= SilentBackOff
        /\ ~ever_subscribed /\ attempt_start < StartDiagnostic =>
             period = RetryPeriod
    BY PeriodBounds DEF ScheduleTypeOK, RetryNumberTypes
  <2>2. next_subscribe_attempt' = LaterTime(attempt_start + period, now)
    BY <1>4 DEF SubscribeFails, NextAttempt
  <2>3. /\ now' = now /\ mode' = "unsubscribed"
        /\ ever_subscribed' = ever_subscribed
    BY <1>4 DEF SubscribeFails
  <2> HIDE DEF period
  <2> QED
    BY <2>1, <2>2, <2>3, ScheduleAssumption
       DEF LaterTime, WaitsAreBounded, ScheduleTypeOK, RetryNumberTypes
<1>5. CASE ClientNewFails
  BY <1>5, ScheduleAssumption
     DEF ClientNewFails, NextClientAttempt, LaterTime, WaitsAreBounded, ScheduleTypeOK,
         RetryNumberTypes
<1>6. CASE InitCommsReturns
  <2>1. next_subscribe_attempt' = now /\ now' = now /\ mode' = "unsubscribed"
    BY <1>6 DEF InitCommsReturns, ModeInv, FirstAttempt, BackingOff, LaterTime,
       ScheduleTypeOK, RetryNumberTypes
  <2> QED
    BY <2>1, ScheduleAssumption DEF WaitsAreBounded, ScheduleTypeOK, RetryNumberTypes
<1>7. CASE BeginClientNew \/ BeginSubscribe \/ SubscribeReturns
  BY <1>7 DEF BeginClientNew, BeginSubscribe, SubscribeReturns, WaitsAreBounded
<1>8. CASE SignOfLife
  BY <1>8 DEF SignOfLife, WaitsAreBounded
<1> QED
  BY <1>1, <1>2, <1>3, <1>4, <1>5, <1>6, <1>7, <1>8 DEF ScheduleNext

\* Every step keeps the short wait after a destroyed publication.
LEMMA StepDestroyed ==
  ScheduleTypeOK /\ ModeInv /\ DestroyedIsRetriedFast /\ [ScheduleNext]_retryVars
    => DestroyedIsRetriedFast'
<1> USE DEF retryVars, attemptVars, scheduleVars, retrySubVars, historyVars
<1> SUFFICES ASSUME ScheduleTypeOK, ModeInv, DestroyedIsRetriedFast, [ScheduleNext]_retryVars,
                    mode' = "unsubscribed", JustDestroyed(now)'
             PROVE  next_subscribe_attempt' <= now' + DestroyedRetryPeriod
  BY DEF DestroyedIsRetriedFast
<1>0. ASSUME UNCHANGED scheduleVars
      PROVE  ended /\ last_end = "publication_destroyed"
             /\ now' < last_end_at + DestroyedFastWindow
  BY <1>0 DEF JustDestroyed
<1>1. CASE TimePasses \/ UNCHANGED retryVars
  <2>1. UNCHANGED <<mode, attemptVars, scheduleVars>> /\ now' \in {now, now + 1}
    BY <1>1 DEF TimePasses
  <2>2. JustDestroyed(now)
    BY <1>0, <2>1, ScheduleAssumption DEF JustDestroyed, ScheduleTypeOK, RetryNumberTypes
  <2>3. next_subscribe_attempt <= now + DestroyedRetryPeriod
    BY <2>1, <2>2 DEF DestroyedIsRetriedFast
  <2>4. /\ next_subscribe_attempt' = next_subscribe_attempt
        /\ now' = now \/ now' = now + 1
    BY <2>1
  <2> HIDE DEF retryVars, attemptVars, scheduleVars, retrySubVars, historyVars
  <2> QED
    BY <2>3, <2>4, ScheduleAssumption DEF ScheduleTypeOK, RetryNumberTypes
<1>2. CASE PublicationDestroyed \/ Silent
  <2>1. PICK end : EndSubscription(end)
    BY <1>2 DEF PublicationDestroyed, Silent
  <2>2. last_end' = "publication_destroyed"
    BY DEF JustDestroyed
  <2>3. next_subscribe_attempt' = now /\ now' = now
    BY <2>1, <2>2 DEF EndSubscription, FirstAttempt, BackingOff
  <2> QED
    BY <2>3, ScheduleAssumption DEF ScheduleTypeOK, RetryNumberTypes
<1>3. CASE SubscribeFails
  <2>1. now' = now /\ UNCHANGED scheduleVars
    BY <1>3 DEF SubscribeFails
  <2>2. ever_subscribed /\ JustDestroyed(attempt_start)
    BY <1>0, <2>1, ScheduleAssumption
       DEF ModeInv, JustDestroyed, ScheduleTypeOK, RetryNumberTypes
  <2>3. SubscribePeriod(attempt_start) = DestroyedRetryPeriod
    BY <2>2, PeriodBounds DEF ScheduleTypeOK, RetryNumberTypes
  <2>4. next_subscribe_attempt'
          = LaterTime(attempt_start + DestroyedRetryPeriod, now)
    BY <1>3, <2>3 DEF SubscribeFails, NextAttempt
  <2> QED
    BY <2>1, <2>4, ScheduleAssumption DEF LaterTime, ScheduleTypeOK, RetryNumberTypes
<1>4. CASE InitCommsReturns
  BY <1>0, <1>4 DEF InitCommsReturns, ModeInv
<1> QED
  BY <1>1, <1>2, <1>3, <1>4 DEF ScheduleNext, SignOfLife, SubscribeReturns,
     BeginSubscribe, BeginClientNew, ClientNewFails

\* The conjunction is inductive.
LEMMA ScheduleInvCorrect ==
  ScheduleSpec => [](/\ ScheduleTypeOK /\ ModeInv /\ CountInv /\ BackOffInv
             /\ WaitsAreBounded /\ DestroyedIsRetriedFast)
  BY ScheduleInitInv, StepType, StepMode, StepCount, StepBackOff, StepWaits,
     StepDestroyed, PTL DEF ScheduleSpec

\* The schedule is well typed and puts nothing in the future.
THEOREM ScheduleTypeCorrect == ScheduleSpec => []ScheduleTypeOK
  BY ScheduleInvCorrect, PTL

\* No wait is longer than its rule, however late calls and attempts are.
THEOREM WaitsCorrect == ScheduleSpec => []WaitsAreBounded
  BY ScheduleInvCorrect, PTL

\* A destroyed publication is looked for every DestroyedRetryPeriod.
THEOREM DestroyedCorrect == ScheduleSpec => []DestroyedIsRetriedFast
  BY ScheduleInvCorrect, PTL

\* Silent subscriptions in a row are counted, whatever ended the others.
LEMMA CountsBarren ==
  ASSUME ScheduleTypeOK, CountInv, LastBroughtNothing
  PROVE  consecutive_silent >= SilentSubscriptionsBeforeBackOff
<1> SUFFICES ASSUME consecutive_silent < SilentSubscriptionsBeforeBackOff
             PROVE  FALSE
  BY ScheduleAssumption DEF ScheduleTypeOK, RetryNumberTypes
<1> DEFINE i == Len(brought) - consecutive_silent
<1>1. brought \in Seq(BOOLEAN) /\ Len(brought) \in Nat
      /\ consecutive_silent \in Nat /\ DOMAIN brought = 1 .. Len(brought)
  BY DEF ScheduleTypeOK, RetryNumberTypes
<1>2. Len(brought) >= SilentSubscriptionsBeforeBackOff
  BY DEF LastBroughtNothing
<1>3. i \in DOMAIN brought
      /\ i + SilentSubscriptionsBeforeBackOff > Len(brought)
  BY <1>1, <1>2, ScheduleAssumption
<1>4. brought[i]
  BY <1>1, <1>2, ScheduleAssumption DEF CountInv
<1> QED
  BY <1>3, <1>4 DEF LastBroughtNothing

\* An attempt after silent subscriptions in a row comes after the back-off.
THEOREM BackOffCorrect == ScheduleSpec => SilentSubscriptionsBackOff
<1> DEFINE Kept == mode = "unsubscribed" /\ mode' = "subscribe"
                   /\ LastBroughtNothing /\ last_end = "silence_timeout" =>
                     /\ now >= last_end_at + SilentBackOff
                     /\ failing => now >= attempt_start + SilentBackOff
<1>1. ScheduleTypeOK /\ ModeInv /\ CountInv /\ BackOffInv /\ [ScheduleNext]_retryVars => [Kept]_retryVars
  <2> SUFFICES ASSUME ScheduleTypeOK, ModeInv, CountInv, BackOffInv, ScheduleNext,
                      mode = "unsubscribed", mode' = "subscribe",
                      LastBroughtNothing, last_end = "silence_timeout"
               PROVE  /\ now >= last_end_at + SilentBackOff
                      /\ failing => now >= attempt_start + SilentBackOff
    BY DEF retryVars
  <2>1. BeginSubscribe
    BY DEF ScheduleNext, TimePasses, BeginClientNew, ClientNewFails,
       InitCommsReturns, SubscribeReturns, SubscribeFails, SignOfLife,
       PublicationDestroyed, Silent, EndSubscription
  <2>2. BackingOff
    BY CountsBarren DEF BackingOff, ModeInv
  <2>3. now >= next_subscribe_attempt
    BY <2>1 DEF BeginSubscribe
  <2> QED
    BY <2>2, <2>3, ScheduleAssumption DEF BackOffInv, ScheduleTypeOK, RetryNumberTypes
<1> QED
  BY <1>1, ScheduleInvCorrect, PTL DEF ScheduleSpec, SilentSubscriptionsBackOff

=============================================================================
