------------------------ MODULE GatewayWorkerProofs ------------------------
(***************************************************************************)
(* The safety of the gateway worker, for every capacity of the inbox, any  *)
(* number of attempts, subscriptions and messages, and every slot.         *)
(*                                                                         *)
(* The argument for the rules of the library: a subscription lives in the  *)
(* library only while the worker is subscribed, is about to be, or is in   *)
(* the call that ends it, unless the client is lost (SubscriptionInv); and *)
(* the library has a client only after the one call that creates it        *)
(* (ClientInv).  For the feed: what has been posted, continued by what is  *)
(* left to post, is where the worker is (FeedInv).  A notification of a    *)
(* publication that goes is never ahead of it (NotificationInv).           *)
(***************************************************************************)
EXTENDS GatewayWorker, SequenceTheorems, TLAPS

-----------------------------------------------------------------------------
(* The calls of the library.                                               *)

EndingCalls == {"subscribe", "refuse", "unsubscribe"}

Shaped ==
    /\ worker_pc \in Calls \cup {"loop", "handle", "finish", "ending", "done"}
    /\ resume \in {"loop", "handle", "finish"}
    /\ client_created \in BOOLEAN /\ has_client \in BOOLEAN /\ client_lost \in BOOLEAN
    /\ worker_subscribed \in BOOLEAN /\ fed_lost \in BOOLEAN
    /\ worker_stop_requested \in BOOLEAN
    /\ lib_client \in {"none", "up", "down", "deleted"}
    /\ lib_clients \in Nat /\ client_generation \in Nat
    /\ subscriptions \in Nat /\ subscription_generation \in Nat
    /\ lib_subscriptions \subseteq {subscription_generation}

ClientInv ==
    /\ lib_clients <= 1 /\ (lib_client = "none" => lib_clients = 0)
    /\ ~client_created /\ worker_pc # "client_new" => lib_client = "none"
    /\ worker_pc = "client_new" => ~client_created
    /\ worker_subscribed \/ has_client \/ worker_pc \in {"init_comms", "subscribe", "refuse", "destroy"} =>
           client_created
    /\ client_lost => worker_pc \notin Calls /\ ~worker_subscribed
    /\ worker_pc \in {"ending", "done"} /\ ~client_lost => lib_client \in {"none", "deleted"}

SubscriptionInv ==
    /\ worker_subscribed =>
           /\ worker_pc \in {"loop", "handle", "read"}
           /\ subscriptions > 0
    /\ worker_pc = "read" => worker_subscribed
    /\ ~client_lost /\ ~worker_subscribed /\ worker_pc \notin EndingCalls =>
           lib_subscriptions = {}

CallInv == Shaped /\ ClientInv /\ SubscriptionInv

(* The library alone begins and ends no call of the worker.                *)
LEMMA LibraryKeepsCallInv ==
    ASSUME CallInv, LibraryStep \/ Arrival \/ RequestStop \/ Post \/ UNCHANGED workerVars
    PROVE  CallInv'
<1> USE DEF CallInv, Shaped, ClientInv, SubscriptionInv, EndingCalls, Calls, controlVars, clientVars,
            subVars, libVars, feedVars
<1>1. CASE LibraryDisconnects
  BY <1>1 DEF LibraryDisconnects
<1>2. CASE \E g \in lib_subscriptions : PublicationGoes(g)
  BY <1>2 DEF PublicationGoes
<1>3. CASE OtherArrives
  BY <1>3 DEF OtherArrives
<1>4. CASE ClientExists
  BY <1>4 DEF ClientExists, InCall
<1>5. CASE SubscriptionExists
  BY <1>5 DEF SubscriptionExists, InCall
<1>6. CASE Arrival
  BY <1>6 DEF Arrival, NotificationArrives
<1>7. CASE RequestStop
  BY <1>7 DEF RequestStop
<1>8. CASE Post
  BY <1>8 DEF Post
<1>9. CASE UNCHANGED workerVars
  BY <1>9 DEF workerVars
<1> QED
  BY <1>1, <1>2, <1>3, <1>4, <1>5, <1>6, <1>7, <1>8, <1>9 DEF LibraryStep

(* The thread enters a call only where the invariant allows the call.      *)
LEMMA TurnKeepsCallInv ==
    ASSUME CallInv, Turn
    PROVE  CallInv'
<1> USE DEF CallInv, Shaped, ClientInv, SubscriptionInv, EndingCalls, Calls, controlVars, clientVars,
            subVars, libVars, feedVars
<1>1. CASE TakeInbox
  BY <1>1 DEF TakeInbox
<1>2. CASE HandleNotification
  <2>1. CASE HandleDisconnected(Head(batch))
    BY <1>2, <2>1 DEF HandleNotification, HandleDisconnected, OfCurrentClient, LoseClient
  <2>2. CASE HandleDestroyed(Head(batch))
    BY <1>2, <2>2 DEF HandleNotification, HandleDestroyed, OfCurrentSubscription, EndSubscription
  <2>3. CASE IgnoreNotification(Head(batch))
    BY <1>2, <2>3 DEF HandleNotification, IgnoreNotification
  <2> QED
    BY <1>2, <2>1, <2>2, <2>3 DEF HandleNotification
<1>3. CASE NothingDue
  BY <1>3 DEF NothingDue, BatchDone
<1>4. CASE BeginClientNew
  BY <1>4 DEF BeginClientNew, MayCall, BatchDone
<1>5. CASE BeginSubscribe
  BY <1>5 DEF BeginSubscribe, MayCall, BatchDone
<1>6. CASE BeginRead
  BY <1>6 DEF BeginRead, MayCall, BatchDone
<1>7. CASE Silent
  BY <1>7 DEF Silent, MayCall, BatchDone, EndSubscription
<1>8. CASE BeginFinish
  <2>1. CASE worker_subscribed
    BY <1>8, <2>1 DEF BeginFinish, EndSubscription
  <2>2. CASE ~worker_subscribed
    BY <1>8, <2>2 DEF BeginFinish
  <2> QED
    BY <2>1, <2>2
<1>9. CASE FinishClient
  BY <1>9 DEF FinishClient, OwesDestroy
<1>10. CASE WorkerDone
  BY <1>10 DEF WorkerDone
<1> QED
  BY <1>1, <1>2, <1>3, <1>4, <1>5, <1>6, <1>7, <1>8, <1>9, <1>10 DEF Turn

(* A call that returns leaves the library as the thread then believes it.  *)
LEMMA ReturnKeepsCallInv ==
    ASSUME CallInv, CallReturns
    PROVE  CallInv'
<1> USE DEF CallInv, Shaped, ClientInv, SubscriptionInv, EndingCalls, Calls, InCall, controlVars,
            clientVars, subVars, libVars, feedVars
<1>1. CASE ClientNewFails
  BY <1>1 DEF ClientNewFails
<1>2. CASE ClientNewReturns
  BY <1>2 DEF ClientNewReturns
<1>3. CASE ClientNewReturnsWithoutCallback
  BY <1>3 DEF ClientNewReturnsWithoutCallback
<1>4. CASE InitCommsReturns
  BY <1>4 DEF InitCommsReturns
<1>5. CASE InitCommsFails
  BY <1>5 DEF InitCommsFails, LoseClient
<1>6. CASE SubscribeReturns
  BY <1>6 DEF SubscribeReturns
<1>7. CASE SubscribeFails
  BY <1>7 DEF SubscribeFails
<1>8. CASE MetadataRefused
  BY <1>8 DEF MetadataRefused
<1>9. CASE RefusedUnsubscribeReturns
  BY <1>9 DEF RefusedUnsubscribeReturns
<1>10. ASSUME NEW slots, ReadReturnsMessages(slots) PROVE CallInv'
  BY <1>10 DEF ReadReturnsMessages
<1>11. CASE ReadReturnsGap
  BY <1>11 DEF ReadReturnsGap
<1>12. CASE ReadReturnsNothing
  BY <1>12 DEF ReadReturnsNothing
<1>13. ASSUME NEW posts, ReadEndsSilent(posts) PROVE CallInv'
  <2>1. /\ worker_pc = "read" /\ worker_pc' = "unsubscribe" /\ resume' = "loop"
        /\ worker_subscribed' = FALSE
        /\ UNCHANGED <<subscriptions, subscription_generation, worker_stop_requested>>
        /\ UNCHANGED <<clientVars, libVars, feedVars>>
    BY <1>13 DEF ReadEndsSilent, EndSubscription
  <2> QED
    BY <2>1
<1>14. CASE UnsubscribeReturns
  BY <1>14 DEF UnsubscribeReturns
<1>15. CASE DestroyReturns
  BY <1>15 DEF DestroyReturns
<1> QED
  BY <1>1, <1>2, <1>3, <1>4, <1>5, <1>6, <1>7, <1>8, <1>9, <1>10, <1>11, <1>12, <1>13, <1>14, <1>15
     DEF CallReturns

(* The worker creates one client and holds one subscription at a time, and *)
(* calls the library only while its client is not lost.                    *)
THEOREM CallsCorrect == Spec => []CallInv
<1>1. Init => CallInv
  <2> SUFFICES ASSUME Init PROVE CallInv
    OBVIOUS
  <2>1. Shaped
    BY DEF Init, Shaped, Calls
  <2>2. ClientInv /\ SubscriptionInv
    BY DEF Init, ClientInv, SubscriptionInv
  <2> QED
    BY <2>1, <2>2 DEF CallInv
<1>2. CallInv /\ [Next]_workerVars => CallInv'
  BY LibraryKeepsCallInv, TurnKeepsCallInv, ReturnKeepsCallInv DEF Next
<1> QED
  BY <1>1, <1>2, PTL DEF Spec

(* The worker keeps the rules of the library.                              *)
THEOREM LibraryRulesCorrect == Spec => []LibraryRules
<1>1. CallInv => LibraryRules
  BY DEF CallInv, Shaped, ClientInv, SubscriptionInv, EndingCalls, LibraryRules
<1> QED
  BY <1>1, CallsCorrect, PTL

-----------------------------------------------------------------------------
(* What is posted.                                                         *)

Settled ==
    /\ fed = (IF worker_subscribed THEN subscriptions ELSE 0)
    /\ fed_lost = client_lost

(* What may be left to post, and where the feed then is.                   *)
Opening ==
    /\ outbox = <<Subscribed(subscriptions)>>
    /\ fed = 0 /\ worker_subscribed /\ ~fed_lost /\ ~client_lost

Reading ==
    /\ \/ \E s \in SlotValues : outbox = <<Message(subscriptions, s)>>
       \/ \E s, t \in SlotValues :
              outbox = <<Message(subscriptions, s), Message(subscriptions, t)>>
    /\ fed = subscriptions /\ worker_subscribed /\ ~fed_lost /\ ~client_lost

Closing ==
    /\ \/ \E end \in Ends : /\ outbox = <<Ended(subscriptions, end)>>
                            /\ end = "relay_stop" => worker_stop_requested
       \/ outbox = <<Other, Ended(subscriptions, "silence_timeout")>>
    /\ fed = subscriptions /\ subscriptions > 0 /\ ~worker_subscribed /\ ~fed_lost /\ ~client_lost

Losing ==
    /\ \/ /\ outbox = <<Ended(subscriptions, "disconnected"), Lost>>
          /\ fed = subscriptions /\ subscriptions > 0
       \/ outbox \in {<<Lost>>, <<Other, Lost>>} /\ fed = 0
    /\ ~worker_subscribed /\ ~fed_lost /\ client_lost

FeedInv ==
    \/ outbox \in {<<>>, <<Other>>} /\ Settled
    \/ Opening \/ Reading \/ Closing \/ Losing

(* What is posted in one call has at most two events.                      *)
LEMMA ShortSequences ==
    ASSUME NEW a, NEW b
    PROVE  /\ <<a>> # <<>> /\ <<a, b>> # <<>>
           /\ Head(<<a>>) = a /\ Tail(<<a>>) = <<>>
           /\ Head(<<a, b>>) = a /\ Tail(<<a, b>>) = <<b>>
           /\ <<>> \o <<a>> = <<a>> /\ <<a>> \o <<b>> = <<a, b>>
<1>1. <<a>> # <<>> /\ <<a, b>> # <<>>
  OBVIOUS
<1>2. Head(<<a>>) = a /\ Head(<<a, b>>) = a
  OBVIOUS
<1>3. Tail(<<a>>) = <<>>
  OBVIOUS
<1>4. Tail(<<a, b>>) = <<b>>
  OBVIOUS
<1>5. <<>> \o <<a>> = <<a>>
  OBVIOUS
<1>6. <<a>> \o <<b>> = <<a, b>>
  <2>1. <<a>> \in Seq({a, b}) /\ <<b>> \in Seq({a, b}) /\ <<a, b>> \in Seq({a, b})
    OBVIOUS
  <2>2. /\ <<a>> \o <<b>> \in Seq({a, b}) /\ Len(<<a>> \o <<b>>) = 2
        /\ (<<a>> \o <<b>>)[1] = a /\ (<<a>> \o <<b>>)[2] = b
    BY <2>1, ConcatProperties
  <2>3. ASSUME NEW s \in Seq({a, b}), Len(s) = 2, s[1] = a, s[2] = b
        PROVE  s = <<a, b>>
    <3>1. Len(<<a, b>>) = 2 /\ <<a, b>>[1] = a /\ <<a, b>>[2] = b
      OBVIOUS
    <3>2. \A i \in 1 .. Len(s) : s[i] = <<a, b>>[i]
      BY <2>3, <3>1
    <3> QED
      BY <2>1, <2>3, <3>1, <3>2, SeqEqual
  <2> QED
    BY <2>2, <2>3
<1> QED
  BY <1>1, <1>2, <1>3, <1>4, <1>5, <1>6

(* A worker with nothing left to post is where the feed is.                *)
LEMMA NothingLeft ==
    ASSUME FeedInv, outbox = <<>>
    PROVE  Settled
<1>1. ~Opening /\ ~Reading
  BY ShortSequences DEF Opening, Reading
<1>2. ~Closing
  BY ShortSequences DEF Closing
<1>3. ~Losing
  BY ShortSequences DEF Losing
<1>4. outbox # <<Other>>
  BY ShortSequences
<1> QED
  BY <1>1, <1>2, <1>3 DEF FeedInv

(* A post moves the first event from what is left to what was fed.         *)
LEMMA PostKeepsFeedInv ==
    ASSUME CallInv, FeedInv, Post
    PROVE  FeedInv'
<1>1. /\ outbox # <<>> /\ outbox' = Tail(outbox)
      /\ UNCHANGED <<worker_subscribed, client_lost, subscriptions>>
  BY DEF Post, clientVars, subVars
<1>2. fed' = CASE Head(outbox).kind = "subscribed" -> Head(outbox).n
               [] Head(outbox).kind = "ended" -> 0
               [] OTHER -> fed
  BY DEF Post
<1>3. fed_lost' = (fed_lost \/ Head(outbox).kind = "lost")
  BY DEF Post
<1>. client_lost \in BOOLEAN /\ fed_lost' \in BOOLEAN
  BY <1>3 DEF CallInv, Shaped
<1>4. CASE outbox = <<Other>> /\ Settled
  <2>1. outbox' = <<>> /\ Head(outbox).kind = "other"
    BY <1>1, <1>4 DEF Other
  <2> QED
    BY <1>1, <1>2, <1>3, <1>4, <2>1 DEF FeedInv, Settled, CallInv, Shaped
<1>5. CASE Opening
  <2>1. outbox' = <<>> /\ Head(outbox).kind = "subscribed" /\ Head(outbox).n = subscriptions
    BY <1>1, <1>5 DEF Opening, Subscribed
  <2> QED
    BY <1>1, <1>2, <1>3, <1>5, <2>1 DEF FeedInv, Settled, Opening
<1>6. CASE Reading
  <2>1. Head(outbox).kind = "message"
    BY <1>6 DEF Reading, Message
  <2>2. fed' = subscriptions' /\ worker_subscribed' /\ ~fed_lost' /\ ~client_lost'
    BY <1>1, <1>2, <1>3, <1>6, <2>1 DEF Reading
  <2>3. CASE \E s \in SlotValues : outbox = <<Message(subscriptions, s)>>
    <3>1. outbox' = <<>>
      BY <1>1, <2>3, ShortSequences
    <3> QED
      BY <1>1, <2>2, <3>1 DEF FeedInv, Settled
  <2>4. CASE \E s, t \in SlotValues :
               outbox = <<Message(subscriptions, s), Message(subscriptions, t)>>
    <3>1. PICK t \in SlotValues : outbox' = <<Message(subscriptions, t)>>
      BY <1>1, <2>4, ShortSequences
    <3>2. outbox' = <<Message(subscriptions', t)>>
      BY <1>1, <3>1
    <3>3. Reading'
      BY <2>2, <3>2 DEF Reading
    <3> QED
      BY <3>3 DEF FeedInv
  <2> QED
    BY <1>6, <2>3, <2>4 DEF Reading
<1>7. CASE Closing
  <2>1. CASE \E end \in Ends : outbox = <<Ended(subscriptions, end)>>
    <3>1. outbox' = <<>> /\ Head(outbox).kind = "ended"
      BY <1>1, <2>1 DEF Ended
    <3> QED
      BY <1>1, <1>2, <1>3, <1>7, <3>1 DEF FeedInv, Settled, Closing
  <2>2. CASE outbox = <<Other, Ended(subscriptions, "silence_timeout")>>
    <3>1. outbox' = <<Ended(subscriptions, "silence_timeout")>> /\ Head(outbox).kind = "other"
      BY <1>1, <2>2 DEF Other
    <3>2. "silence_timeout" \in Ends
      BY DEF Ends
    <3> QED
      BY <1>1, <1>2, <1>3, <1>7, <3>1, <3>2 DEF FeedInv, Closing, Ended
  <2>3. \/ \E end \in Ends : outbox = <<Ended(subscriptions, end)>>
        \/ outbox = <<Other, Ended(subscriptions, "silence_timeout")>>
    BY <1>7 DEF Closing
  <2> QED
    BY <2>1, <2>2, <2>3
<1>8. CASE Losing
  <2>1. CASE outbox = <<Ended(subscriptions, "disconnected"), Lost>>
    <3>1. outbox' = <<Lost>> /\ Head(outbox).kind = "ended"
      BY <1>1, <2>1 DEF Ended
    <3> QED
      BY <1>1, <1>2, <1>3, <1>8, <3>1 DEF FeedInv, Losing, Lost
  <2>2. CASE outbox = <<Other, Lost>>
    <3>1. outbox' = <<Lost>> /\ Head(outbox).kind = "other"
      BY <1>1, <2>2 DEF Other
    <3>2. fed = 0
      BY <1>8, <2>2 DEF Losing, Other, Ended
    <3> QED
      BY <1>1, <1>2, <1>3, <1>8, <3>1, <3>2 DEF FeedInv, Losing, Lost
  <2>3. CASE outbox = <<Lost>>
    <3>1. outbox' = <<>> /\ Head(outbox).kind = "lost"
      BY <1>1, <2>3 DEF Lost
    <3>2. fed = 0
      BY <1>8, <2>3 DEF Losing, Lost, Ended
    <3> QED
      BY <1>1, <1>2, <1>3, <1>8, <3>1, <3>2 DEF FeedInv, Settled, Losing
  <2> QED
    BY <1>8, <2>1, <2>2, <2>3 DEF Losing
<1> QED
  BY <1>1, <1>4, <1>5, <1>6, <1>7, <1>8 DEF FeedInv

(* A step that leaves the feed alone keeps its place.                      *)
LEMMA QuietKeepsFeedInv ==
    ASSUME FeedInv, worker_stop_requested => worker_stop_requested',
           UNCHANGED <<outbox, fed, fed_lost, worker_subscribed, client_lost, subscriptions>>
    PROVE  FeedInv'
BY DEF FeedInv, Settled, Opening, Reading, Closing, Losing, Subscribed, Message, Ended

(* Steps of the worker that leave its client and its subscription alone.   *)
LEMMA PlainTurnKeepsFeedInv ==
    ASSUME FeedInv, outbox = <<>>, outbox' \in {<<>>, <<Other>>},
           UNCHANGED <<fed, fed_lost, worker_subscribed, client_lost, subscriptions>>
    PROVE  FeedInv'
BY NothingLeft DEF FeedInv, Settled

(* The library posts nothing itself.                                       *)
LEMMA LibraryKeepsFeedInv ==
    ASSUME FeedInv, LibraryStep \/ Arrival \/ RequestStop \/ UNCHANGED workerVars
    PROVE  FeedInv'
<1>1. /\ worker_stop_requested => worker_stop_requested'
      /\ UNCHANGED <<outbox, fed, fed_lost, worker_subscribed, client_lost, subscriptions>>
  BY DEF LibraryStep, LibraryDisconnects, PublicationGoes, OtherArrives, ClientExists,
         SubscriptionExists, Arrival, NotificationArrives, RequestStop, workerVars, clientVars,
         subVars, feedVars
<1> QED
  BY <1>1, QuietKeepsFeedInv

(* EndSubscription posts the end of the subscription that is open.         *)
LEMMA EndKeepsFeedInv ==
    ASSUME CallInv, FeedInv, outbox = <<>>, worker_subscribed, ~client_lost,
           NEW end, NEW posts, NEW next, EndSubscription(end, posts, next),
           \/ posts = <<>> /\ end \in Ends
           \/ posts = <<Other>> /\ end = "silence_timeout",
           end = "relay_stop" => worker_stop_requested',
           UNCHANGED <<fed, fed_lost, client_lost>>
    PROVE  FeedInv'
<1>1. /\ subscriptions' = subscriptions /\ worker_subscribed' = FALSE
      /\ fed' = subscriptions /\ fed_lost' = client_lost /\ client_lost' = client_lost
  BY NothingLeft DEF Settled, EndSubscription
<1>2. \/ /\ outbox' = <<Ended(subscriptions', end)>> /\ end \in Ends
         /\ end = "relay_stop" => worker_stop_requested'
      \/ outbox' = <<Other, Ended(subscriptions', "silence_timeout")>>
  BY <1>1, ShortSequences DEF EndSubscription
<1>3. subscriptions > 0 /\ fed' = subscriptions' /\ ~fed_lost' /\ ~client_lost'
      /\ ~worker_subscribed'
  BY <1>1, NothingLeft DEF CallInv, SubscriptionInv, Settled
<1>4. subscriptions' > 0
  BY <1>1, <1>3
<1>5. Closing'
  BY <1>2, <1>3, <1>4 DEF Closing
<1> QED
  BY <1>5 DEF FeedInv

(* LoseClient posts the end, if one is owed, and then the loss.            *)
LEMMA LossKeepsFeedInv ==
    ASSUME CallInv, FeedInv, outbox = <<>>, ~client_lost, NEW posts, LoseClient(posts),
           \/ worker_subscribed /\ posts = <<Ended(subscriptions, "disconnected")>>
           \/ ~worker_subscribed /\ posts \in {<<>>, <<Other>>},
           worker_subscribed' = FALSE,
           UNCHANGED <<fed, fed_lost, subscriptions>>
    PROVE  FeedInv'
<1>1. /\ client_lost' /\ ~fed_lost' /\ ~worker_subscribed' /\ subscriptions' = subscriptions
      /\ fed' = IF worker_subscribed THEN subscriptions ELSE 0
  BY NothingLeft DEF Settled, LoseClient
<1>2. CASE worker_subscribed
  <2>1. outbox' = <<Ended(subscriptions', "disconnected"), Lost>>
    BY <1>1, <1>2, ShortSequences DEF LoseClient
  <2>2. subscriptions' > 0 /\ fed' = subscriptions'
    BY <1>1, <1>2 DEF CallInv, SubscriptionInv
  <2>3. Losing'
    BY <1>1, <2>1, <2>2 DEF Losing
  <2> QED
    BY <2>3 DEF FeedInv
<1>3. CASE ~worker_subscribed
  <2>1. outbox' \in {<<Lost>>, <<Other, Lost>>}
    BY <1>3, ShortSequences DEF LoseClient
  <2>2. Losing'
    BY <1>1, <1>3, <2>1 DEF Losing, Other, Lost
  <2> QED
    BY <2>2 DEF FeedInv
<1> QED
  BY <1>2, <1>3

(* Every step of the thread outside a call keeps the feed in its place.    *)
LEMMA TurnKeepsFeedInv ==
    ASSUME CallInv, FeedInv, Turn
    PROVE  FeedInv'
<1> USE DEF clientVars, subVars, feedVars
<1>1. CASE TakeInbox
  BY <1>1, PlainTurnKeepsFeedInv DEF TakeInbox
<1>2. CASE HandleNotification
  <2>1. outbox = <<>> /\ UNCHANGED <<fed, fed_lost>>
    BY <1>2 DEF HandleNotification
  <2>2. CASE HandleDisconnected(Head(batch))
    BY <2>1, <2>2, LossKeepsFeedInv DEF HandleDisconnected, OfCurrentClient
  <2>3. CASE HandleDestroyed(Head(batch))
    <3>1. worker_subscribed /\ ~client_lost /\ UNCHANGED client_lost
      BY <2>3 DEF HandleDestroyed, OfCurrentSubscription, CallInv, ClientInv
    <3>2. "publication_destroyed" \in Ends
      BY DEF Ends
    <3> QED
      BY <2>1, <2>3, <3>1, <3>2, EndKeepsFeedInv DEF HandleDestroyed
  <2>4. CASE IgnoreNotification(Head(batch))
    BY <2>1, <2>4, PlainTurnKeepsFeedInv DEF IgnoreNotification
  <2> QED
    BY <1>2, <2>2, <2>3, <2>4 DEF HandleNotification
<1>3. CASE NothingDue \/ BeginClientNew \/ BeginSubscribe \/ BeginRead \/ FinishClient \/ WorkerDone
  <2>1. UNCHANGED <<outbox, fed, fed_lost, worker_subscribed, client_lost, subscriptions,
                    worker_stop_requested>>
    BY <1>3 DEF NothingDue, BeginClientNew, BeginSubscribe, BeginRead, FinishClient, WorkerDone
  <2> QED
    BY <2>1, QuietKeepsFeedInv
<1>4. CASE Silent
  <2>1. "silence_timeout" \in Ends
    BY DEF Ends
  <2> QED
    BY <1>4, <2>1, EndKeepsFeedInv DEF Silent, MayCall, BatchDone
<1>5. CASE BeginFinish
  <2>1. CASE worker_subscribed
    <3>1. "relay_stop" \in Ends
      BY DEF Ends
    <3>2. ~client_lost
      BY <2>1 DEF CallInv, ClientInv
    <3> QED
      BY <1>5, <2>1, <3>1, <3>2, EndKeepsFeedInv DEF BeginFinish
  <2>2. CASE ~worker_subscribed
    BY <1>5, <2>2, QuietKeepsFeedInv DEF BeginFinish
  <2> QED
    BY <2>1, <2>2
<1> QED
  BY <1>1, <1>2, <1>3, <1>4, <1>5 DEF Turn

(* A worker in one of these calls has a client that was not lost.          *)
LEMMA InCallNotLost ==
    ASSUME CallInv, worker_pc \in Calls
    PROVE  /\ ~client_lost
           /\ worker_pc \in {"client_new", "init_comms", "subscribe"} => ~worker_subscribed
           /\ worker_pc = "read" => worker_subscribed
BY DEF CallInv, ClientInv, SubscriptionInv, Calls

(* A read posts one message for each slot it returned.                     *)
LEMMA SlotsArePosted ==
    ASSUME NEW n, NEW s, NEW t
    PROVE  /\ [i \in DOMAIN <<s>> |-> Message(n, <<s>>[i])] = <<Message(n, s)>>
           /\ [i \in DOMAIN <<s, t>> |-> Message(n, <<s, t>>[i])]
                  = <<Message(n, s), Message(n, t)>>
OBVIOUS

(* A read posts messages of the subscription that is open.                 *)
LEMMA ReadKeepsFeedInv ==
    ASSUME CallInv, FeedInv, NEW s \in SlotValues, NEW t \in SlotValues,
           NEW slots \in {<<s>>, <<s, t>>}, ReadReturnsMessages(slots)
    PROVE  FeedInv'
<1>1. /\ ~client_lost' /\ ~fed_lost' /\ worker_subscribed' /\ subscriptions' = subscriptions
      /\ fed' = subscriptions
  BY NothingLeft, InCallNotLost
     DEF ReadReturnsMessages, InCall, Settled, Calls, clientVars, subVars, feedVars
<1>2. outbox' \in {<<Message(subscriptions, s)>>,
                   <<Message(subscriptions, s), Message(subscriptions, t)>>}
  BY SlotsArePosted DEF ReadReturnsMessages
<1>3. outbox' \in {<<Message(subscriptions', s)>>,
                   <<Message(subscriptions', s), Message(subscriptions', t)>>}
  BY <1>1, <1>2
<1>4. Reading'
  BY <1>1, <1>3 DEF Reading
<1> QED
  BY <1>4 DEF FeedInv

(* Every return of a call keeps the feed in its place.                     *)
LEMMA ReturnKeepsFeedInv ==
    ASSUME CallInv, FeedInv, CallReturns
    PROVE  FeedInv'
<1> USE DEF clientVars, subVars, feedVars, InCall
<1>1. CASE \/ ClientNewFails \/ ClientNewReturns \/ InitCommsReturns \/ SubscribeFails
           \/ RefusedUnsubscribeReturns \/ ReadReturnsGap \/ UnsubscribeReturns \/ DestroyReturns
  <2>1. /\ outbox = <<>> /\ outbox' = <<Other>>
        /\ UNCHANGED <<fed, fed_lost, worker_subscribed, client_lost, subscriptions>>
    BY <1>1 DEF ClientNewFails, ClientNewReturns, InitCommsReturns, SubscribeFails,
           RefusedUnsubscribeReturns, ReadReturnsGap, UnsubscribeReturns, DestroyReturns
  <2> QED
    BY <2>1, PlainTurnKeepsFeedInv
<1>2. CASE MetadataRefused \/ ReadReturnsNothing
  <2>1. UNCHANGED <<outbox, fed, fed_lost, worker_subscribed, client_lost, subscriptions,
                    worker_stop_requested>>
    BY <1>2 DEF MetadataRefused, ReadReturnsNothing
  <2> QED
    BY <2>1, QuietKeepsFeedInv
<1>3. CASE ClientNewReturnsWithoutCallback
  <2>1. /\ client_lost' /\ outbox' = <<Other, Lost>>
        /\ ~worker_subscribed' /\ ~fed_lost' /\ fed' = 0
    BY <1>3, NothingLeft, InCallNotLost DEF ClientNewReturnsWithoutCallback, Settled, Calls
  <2>2. Losing'
    BY <2>1 DEF Losing, Other, Lost
  <2> QED
    BY <2>2 DEF FeedInv
<1>4. CASE InitCommsFails
  <2>1. ~client_lost /\ ~worker_subscribed /\ worker_subscribed' = FALSE
    BY <1>4, InCallNotLost DEF InitCommsFails, Calls, CallInv, Shaped
  <2> QED
    BY <1>4, <2>1, LossKeepsFeedInv DEF InitCommsFails
<1>5. CASE SubscribeReturns
  <2>1. /\ ~client_lost' /\ ~fed_lost' /\ fed' = 0 /\ worker_subscribed'
        /\ outbox' = <<Subscribed(subscriptions')>>
    BY <1>5, NothingLeft, InCallNotLost DEF SubscribeReturns, Settled, Calls
  <2>2. Opening'
    BY <2>1 DEF Opening, Subscribed
  <2> QED
    BY <2>2 DEF FeedInv
<1>6. CASE \/ \E s \in SlotValues : ReadReturnsMessages(<<s>>)
           \/ \E s, t \in SlotValues : ReadReturnsMessages(<<s, t>>)
  BY <1>6, ReadKeepsFeedInv
<1>7. CASE \E posts \in {<<>>, <<Other>>} : ReadEndsSilent(posts)
  <2>1. PICK posts \in {<<>>, <<Other>>} : ReadEndsSilent(posts)
    BY <1>7
  <2>2. ~client_lost /\ worker_subscribed /\ "silence_timeout" \in Ends
    BY <2>1, InCallNotLost DEF ReadEndsSilent, Calls, Ends
  <2> QED
    BY <2>1, <2>2, EndKeepsFeedInv DEF ReadEndsSilent
<1> QED
  BY <1>1, <1>2, <1>3, <1>4, <1>5, <1>6, <1>7 DEF CallReturns

(* What was posted, continued by what is left to post, is where the worker *)
(* is: Settled, Opening, Reading, Closing or Losing.                       *)
THEOREM FeedCorrect == Spec => []FeedInv
<1>1. Init => FeedInv
  BY DEF Init, FeedInv, Settled
<1>2. CallInv /\ FeedInv /\ [Next]_workerVars => FeedInv'
  BY LibraryKeepsFeedInv, TurnKeepsFeedInv, ReturnKeepsFeedInv, PostKeepsFeedInv DEF Next
<1> QED
  BY <1>1, <1>2, CallsCorrect, PTL DEF Spec

(* The event that is posted next fits what was posted.                     *)
LEMMA FirstFits ==
    ASSUME CallInv, FeedInv, outbox # <<>>
    PROVE  LET event == Head(outbox)
           IN  /\ event.kind = "subscribed" => fed = 0 /\ ~fed_lost
               /\ event.kind \in {"message", "ended"} => fed = event.n
               /\ event.kind = "lost" => fed = 0 /\ ~fed_lost
<1>1. CASE outbox = <<Other>>
  BY <1>1 DEF Other
<1>2. CASE Opening
  BY <1>2 DEF Opening, Subscribed
<1>3. CASE Reading
  <2>1. Head(outbox).kind = "message" /\ Head(outbox).n = subscriptions
    BY <1>3, ShortSequences DEF Reading, Message
  <2> QED
    BY <1>3, <2>1 DEF Reading
<1>4. CASE Closing
  <2>1. \/ Head(outbox).kind = "ended" /\ Head(outbox).n = subscriptions
        \/ Head(outbox).kind = "other"
    BY <1>4, ShortSequences DEF Closing, Ended, Other
  <2> QED
    BY <1>4, <2>1 DEF Closing
<1>5. CASE Losing
  <2>1. \/ Head(outbox).kind = "ended" /\ Head(outbox).n = subscriptions /\ fed = subscriptions
        \/ Head(outbox).kind \in {"lost", "other"} /\ fed = 0
    BY <1>5, ShortSequences DEF Losing, Ended, Other, Lost
  <2> QED
    BY <1>5, <2>1 DEF Losing
<1> QED
  BY <1>1, <1>2, <1>3, <1>4, <1>5 DEF FeedInv

(* What the worker hands on is in order.                                   *)
THEOREM FeedIsInOrder == Spec => FeedInOrder
<1>1. CallInv /\ FeedInv =>
          [outbox # <<>> /\ outbox' = Tail(outbox) =>
             LET event == Head(outbox)
             IN  /\ event.kind = "subscribed" => fed = 0 /\ ~fed_lost
                 /\ event.kind \in {"message", "ended"} => fed = event.n
                 /\ event.kind = "lost" => fed = 0 /\ ~fed_lost]_workerVars
  BY FirstFits
<1> QED
  BY <1>1, CallsCorrect, FeedCorrect, PTL DEF FeedInOrder

-----------------------------------------------------------------------------
(* What the worker is told.                                                *)

(* A notification that a publication has gone comes after it has.          *)
Told == {n \in Notifications : n.kind = "publication_destroyed" => n.generation \in lib_destroyed}

NumberInv ==
    /\ client_generation \in 0 .. MaxClientAttempts
    /\ subscription_generation \in 0 .. MaxSubscriptions
    /\ subscriptions \in 0 .. subscription_generation
    /\ worker_pc = "subscribe" => subscriptions < subscription_generation
    /\ lib_subscriptions \subseteq 1 .. MaxSubscriptions
    /\ lib_destroyed \subseteq 1 .. MaxSubscriptions
    /\ inbox_dropped \in Nat

NotificationInv ==
    /\ lib_in_flight \subseteq Told
    /\ inbox \in Seq(Told) /\ Len(inbox) <= InboxCapacity
    /\ batch \in Seq(Told) /\ Len(batch) <= InboxCapacity

(* The counters stay within their bounds.                                  *)
LEMMA NumbersStep ==
    ASSUME CallInv, NumberInv, [Next]_workerVars
    PROVE  NumberInv'
<1> USE WorkerAssumption DEF NumberInv, Shaped, CallInv, controlVars, clientVars, subVars, libVars,
            inboxVars
<1>1. CASE LibraryStep
  <2>1. CASE LibraryDisconnects \/ ClientExists
    BY <2>1 DEF LibraryDisconnects, ClientExists
  <2>2. CASE \E g \in lib_subscriptions : PublicationGoes(g)
    BY <2>2 DEF PublicationGoes
  <2>3. CASE OtherArrives
    BY <2>3 DEF OtherArrives, Notify
  <2>4. CASE SubscriptionExists
    <3>1. subscription_generation \in 1 .. MaxSubscriptions
      BY <2>4 DEF SubscriptionExists, InCall
    <3> QED
      BY <2>4, <3>1 DEF SubscriptionExists
  <2> QED
    BY <1>1, <2>1, <2>2, <2>3, <2>4 DEF LibraryStep
<1>2. CASE Arrival
  BY <1>2 DEF Arrival, NotificationArrives, Notify
<1>3. CASE RequestStop \/ Post \/ UNCHANGED workerVars
  BY <1>3 DEF RequestStop, Post, workerVars
<1>4. CASE TakeInbox
  BY <1>4 DEF TakeInbox
<1>5. CASE HandleNotification
  BY <1>5 DEF HandleNotification, HandleDisconnected, HandleDestroyed, IgnoreNotification,
              EndSubscription, LoseClient
<1>6. CASE NothingDue \/ BeginClientNew \/ BeginSubscribe \/ BeginRead
  <2>1. CASE NothingDue \/ BeginRead
    BY <2>1 DEF NothingDue, BeginRead
  <2>2. CASE BeginClientNew
    BY <2>2 DEF BeginClientNew
  <2>3. CASE BeginSubscribe
    BY <2>3 DEF BeginSubscribe
  <2> QED
    BY <1>6, <2>1, <2>2, <2>3
<1>7. CASE Silent \/ BeginFinish
  BY <1>7 DEF Silent, BeginFinish, EndSubscription
<1>8. CASE FinishClient \/ WorkerDone
  BY <1>8 DEF FinishClient, WorkerDone
<1>9. CASE \/ ClientNewFails \/ ClientNewReturns \/ ClientNewReturnsWithoutCallback
           \/ InitCommsReturns \/ SubscribeFails \/ MetadataRefused \/ ReadReturnsGap
           \/ ReadReturnsNothing \/ DestroyReturns
  BY <1>9 DEF ClientNewFails, ClientNewReturns, ClientNewReturnsWithoutCallback,
              InitCommsReturns, SubscribeFails, MetadataRefused, ReadReturnsGap,
              ReadReturnsNothing, DestroyReturns
<1>10. CASE InitCommsFails
  BY <1>10 DEF InitCommsFails, LoseClient
<1>11. CASE SubscribeReturns
  BY <1>11 DEF SubscribeReturns, InCall
<1>12. CASE RefusedUnsubscribeReturns \/ UnsubscribeReturns
  BY <1>12 DEF RefusedUnsubscribeReturns, UnsubscribeReturns
<1>13. ASSUME NEW slots, ReadReturnsMessages(slots) PROVE NumberInv'
  BY <1>13 DEF ReadReturnsMessages
<1>14. ASSUME NEW posts, ReadEndsSilent(posts) PROVE NumberInv'
  BY <1>14 DEF ReadEndsSilent, EndSubscription
<1> QED
  BY <1>1, <1>2, <1>3, <1>4, <1>5, <1>6, <1>7, <1>8, <1>9, <1>10, <1>11, <1>12, <1>13, <1>14
     DEF Next, Turn, CallReturns

(* Notify appends to the inbox, or drops when it is full.                  *)
LEMMA NotifyKeeps ==
    ASSUME NEW S, inbox \in Seq(S), Len(inbox) <= InboxCapacity, NEW n \in S, Notify(n)
    PROVE  inbox' \in Seq(S) /\ Len(inbox') <= InboxCapacity
BY WorkerAssumption, AppendProperties, LenProperties DEF Notify

(* Steps that neither tell the worker anything nor have it look.           *)
LEMMA UntoldKeeps ==
    ASSUME NotificationInv, UNCHANGED <<inbox, batch, lib_in_flight, lib_destroyed>>
    PROVE  NotificationInv'
BY DEF NotificationInv, Told

(* A publication is gone before anything tells of it.                      *)
LEMMA LibraryKeepsNotificationInv ==
    ASSUME CallInv, NumberInv, NotificationInv, LibraryStep \/ Arrival
    PROVE  NotificationInv'
<1> USE DEF NotificationInv, controlVars, inboxVars
<1>1. CASE LibraryDisconnects
  <2>1. Disconnected(client_generation) \in Told
    BY WorkerAssumption DEF Told, Disconnected, Notifications, NumberInv
  <2> QED
    BY <1>1, <2>1 DEF LibraryDisconnects, Told
<1>2. CASE \E g \in lib_subscriptions : PublicationGoes(g)
  <2>1. PICK g \in lib_subscriptions : PublicationGoes(g)
    BY <1>2
  <2>2. Told \subseteq Told'
    BY <2>1 DEF PublicationGoes, Told
  <2>3. g \in 0 .. MaxClientAttempts + MaxSubscriptions
    BY WorkerAssumption DEF NumberInv
  <2>4. Destroyed(g) \in Told'
    BY <2>1, <2>3 DEF PublicationGoes, Told, Destroyed, Notifications
  <2>5. inbox \in Seq(Told') /\ batch \in Seq(Told')
    BY <2>2, SeqMonotonic
  <2> QED
    BY <2>1, <2>2, <2>4, <2>5 DEF PublicationGoes
<1>3. CASE OtherArrives
  <2>1. Unacted \in Told
    BY WorkerAssumption DEF Told, Unacted, Notifications
  <2>2. inbox' \in Seq(Told) /\ Len(inbox') <= InboxCapacity
    BY <1>3, <2>1, NotifyKeeps DEF OtherArrives
  <2> QED
    BY <1>3, <2>2 DEF OtherArrives, Told
<1>4. CASE ClientExists \/ SubscriptionExists
  BY <1>4, UntoldKeeps DEF ClientExists, SubscriptionExists
<1>5. CASE Arrival
  <2>1. PICK n \in lib_in_flight : NotificationArrives(n)
    BY <1>5 DEF Arrival
  <2>2. inbox' \in Seq(Told) /\ Len(inbox') <= InboxCapacity
    BY <2>1, NotifyKeeps DEF NotificationArrives
  <2> QED
    BY <2>1, <2>2 DEF NotificationArrives, Told
<1> QED
  BY <1>1, <1>2, <1>3, <1>4, <1>5 DEF LibraryStep

(* The worker takes and handles what it was told and adds nothing.         *)
LEMMA WorkerKeepsNotificationInv ==
    ASSUME NotificationInv, Turn \/ CallReturns \/ Post \/ RequestStop \/ UNCHANGED workerVars
    PROVE  NotificationInv'
<1> USE DEF controlVars, inboxVars, libVars
<1>1. CASE TakeInbox
  <2>1. <<>> \in Seq(Told) /\ Len(<<>>) <= InboxCapacity
    BY WorkerAssumption, EmptySeq
  <2> QED
    BY <1>1, <2>1 DEF TakeInbox, NotificationInv, Told
<1>2. CASE HandleNotification
  <2>1. batch' \in Seq(Told) /\ Len(batch') <= InboxCapacity
    BY <1>2, HeadTailProperties, LenProperties, WorkerAssumption
       DEF HandleNotification, NotificationInv
  <2> QED
    BY <1>2, <2>1 DEF HandleNotification, NotificationInv, Told
<1>3. CASE NothingDue \/ BeginClientNew \/ BeginSubscribe \/ BeginRead \/ FinishClient \/ WorkerDone
  BY <1>3, UntoldKeeps DEF NothingDue, BeginClientNew, BeginSubscribe, BeginRead, FinishClient,
                           WorkerDone
<1>4. CASE Silent \/ BeginFinish
  BY <1>4, UntoldKeeps DEF Silent, BeginFinish
<1>5. CASE CallReturns
  BY <1>5, UntoldKeeps
     DEF CallReturns, ClientNewFails, ClientNewReturns, ClientNewReturnsWithoutCallback,
         InitCommsReturns, InitCommsFails, SubscribeReturns, SubscribeFails, MetadataRefused,
         RefusedUnsubscribeReturns, ReadReturnsMessages, ReadReturnsGap, ReadReturnsNothing,
         ReadEndsSilent, UnsubscribeReturns, DestroyReturns
<1>6. CASE Post \/ RequestStop \/ UNCHANGED workerVars
  BY <1>6, UntoldKeeps DEF Post, RequestStop, workerVars
<1> QED
  BY <1>1, <1>2, <1>3, <1>4, <1>5, <1>6 DEF Turn

(* No notification, in flight, in the inbox or taken from it, tells of a   *)
(* publication that has not gone, and neither queue exceeds the capacity.  *)
THEOREM NotificationsCorrect == Spec => [](NumberInv /\ NotificationInv)
<1>1. Init => NumberInv /\ NotificationInv
  <2> SUFFICES ASSUME Init PROVE NumberInv /\ NotificationInv
    OBVIOUS
  <2>1. NumberInv
    BY WorkerAssumption DEF Init, NumberInv
  <2>2. NotificationInv
    BY WorkerAssumption, EmptySeq DEF Init, NotificationInv
  <2> QED
    BY <2>1, <2>2
<1>2. CallInv /\ NumberInv /\ NotificationInv /\ [Next]_workerVars => NumberInv' /\ NotificationInv'
  BY NumbersStep, LibraryKeepsNotificationInv, WorkerKeepsNotificationInv DEF Next
<1> QED
  BY <1>1, <1>2, CallsCorrect, PTL DEF Spec

(* The type invariant; the inbox never exceeds its capacity.               *)
THEOREM WorkerTypeCorrect == Spec => []TypeOK
<1>1. CallInv /\ NumberInv /\ NotificationInv /\ FeedInv => TypeOK
  <2> SUFFICES ASSUME CallInv, NumberInv, NotificationInv, FeedInv PROVE TypeOK
    OBVIOUS
  <2>1. inbox \in Seq(Notifications) /\ batch \in Seq(Notifications)
    BY SeqMonotonic DEF NotificationInv, Told
  <2>2. lib_in_flight \subseteq Notifications
    BY DEF NotificationInv, Told
  <2>3. fed \in 0 .. subscriptions
    BY DEF FeedInv, Settled, Opening, Reading, Closing, Losing, NumberInv, CallInv, Shaped
  <2>4. {worker_stop_requested, client_created, has_client, client_lost, worker_subscribed,
         fed_lost} \subseteq BOOLEAN
    BY DEF CallInv, Shaped
  <2>5. /\ worker_pc \in Calls \cup {"loop", "handle", "finish", "ending", "done"}
        /\ resume \in {"loop", "handle", "finish"}
        /\ lib_client \in {"none", "up", "down", "deleted"}
    BY DEF CallInv, Shaped
  <2> QED
    BY <2>1, <2>2, <2>3, <2>4, <2>5 DEF TypeOK, NumberInv, NotificationInv
<1> QED
  BY <1>1, CallsCorrect, FeedCorrect, NotificationsCorrect, PTL

-----------------------------------------------------------------------------
(* Ends of a subscription for PublicationDestroyed.                        *)

(* An end for PublicationDestroyed is no other event.                      *)
LEMMA EventsDiffer ==
    ASSUME NEW n, NEW m, NEW s, NEW end
    PROVE  /\ <<Ended(n, end)>> # <<>> /\ <<Ended(n, end)>> # <<Other>>
           /\ <<Ended(n, end)>> # <<Lost>> /\ <<Ended(n, end)>> # <<Message(m, s)>>
           /\ <<Ended(n, end)>> # <<Subscribed(m)>>
           /\ end # "silence_timeout" => <<Ended(n, end)>> # <<Ended(m, "silence_timeout")>>
           /\ end # "relay_stop" => <<Ended(n, end)>> # <<Ended(m, "relay_stop")>>
<1>1. /\ Ended(n, end) # Other /\ Ended(n, end) # Lost
      /\ Ended(n, end) # Message(m, s) /\ Ended(n, end) # Subscribed(m)
      /\ end # "silence_timeout" => Ended(n, end) # Ended(m, "silence_timeout")
      /\ end # "relay_stop" => Ended(n, end) # Ended(m, "relay_stop")
  BY DEF Ended, Other, Lost, Message, Subscribed
<1> HIDE DEF Ended, Other, Lost, Message, Subscribed
<1> QED
  BY <1>1

(* What is left after a post is no such end: it is posted alone.           *)
LEMMA PostLeavesNone ==
    ASSUME FeedInv, Post, NEW n
    PROVE  outbox' # <<Ended(n, "publication_destroyed")>>
<1>1. outbox' = Tail(outbox) /\ outbox # <<>>
  BY DEF Post
<1>2. \/ outbox' = <<>> \/ outbox' = <<Lost>>
      \/ outbox' = <<Ended(subscriptions, "silence_timeout")>>
      \/ \E t \in SlotValues : outbox' = <<Message(subscriptions, t)>>
  <2>1. \A a : Tail(<<a>>) = <<>>
    BY ShortSequences
  <2>2. \A a, b : Tail(<<a, b>>) = <<b>>
    BY ShortSequences
  <2>3. CASE \E a : outbox = <<a>>
    BY <1>1, <2>1, <2>3
  <2>4. CASE \E s, t \in SlotValues :
                outbox = <<Message(subscriptions, s), Message(subscriptions, t)>>
    <3>1. PICK s \in SlotValues, t \in SlotValues :
                  outbox = <<Message(subscriptions, s), Message(subscriptions, t)>>
      BY <2>4
    <3>2. outbox' = <<Message(subscriptions, t)>>
      BY <1>1, <2>2, <3>1
    <3> QED
      BY <3>2
  <2>5. CASE \E a, b : outbox = <<a, b>> /\ b \in {Lost, Ended(subscriptions, "silence_timeout")}
    BY <1>1, <2>2, <2>5
  <2>6. CASE outbox \in {<<>>, <<Other>>}
    BY <1>1, <2>3, <2>6
  <2>7. CASE Opening
    BY <2>3, <2>7 DEF Opening
  <2>8. CASE Reading
    BY <2>3, <2>4, <2>8 DEF Reading
  <2>9. CASE Closing
    BY <2>3, <2>5, <2>9 DEF Closing
  <2>10. CASE Losing
    BY <2>3, <2>5, <2>10 DEF Losing
  <2> QED
    BY <2>6, <2>7, <2>8, <2>9, <2>10 DEF FeedInv
<1> QED
  BY <1>2, EventsDiffer

EndsOf(n) == outbox' # outbox /\ outbox' = <<Ended(n, "publication_destroyed")>>

(* A step that leaves only such an end to post acts on the publication     *)
(* that went.                                                              *)
LEMMA EndHasItsReason ==
    ASSUME CallInv, FeedInv, NotificationInv, [Next]_workerVars, NEW n, EndsOf(n)
    PROVE  subscription_generation \in lib_destroyed
<1> USE DEF EndsOf
<1>1. CASE LibraryStep \/ Arrival \/ RequestStop \/ UNCHANGED workerVars
  BY <1>1 DEF LibraryStep, LibraryDisconnects, PublicationGoes, OtherArrives, ClientExists,
              SubscriptionExists, Arrival, NotificationArrives, RequestStop, workerVars
<1>2. CASE Post
  BY <1>2, PostLeavesNone
<1>3. CASE TakeInbox
  BY <1>3, EventsDiffer DEF TakeInbox
<1>4. CASE HandleNotification
  <2>1. batch # <<>> /\ Head(batch) \in Told
    BY <1>4, HeadTailProperties DEF HandleNotification, NotificationInv
  <2>2. CASE HandleDisconnected(Head(batch))
    <3>1. \/ outbox' = <<Lost>>
          \/ outbox' = <<Ended(subscriptions, "disconnected"), Lost>>
      BY <2>2, ShortSequences DEF HandleDisconnected, LoseClient
    <3>2. <<Ended(subscriptions, "disconnected"), Lost>> # <<Ended(n, "publication_destroyed")>>
      <4>1. \A a, b, c : <<a, b>> # <<c>>
        OBVIOUS
      <4> QED
        BY <4>1
    <3> QED
      BY <3>1, <3>2, EventsDiffer
  <2>3. CASE HandleDestroyed(Head(batch))
    BY <2>1, <2>3 DEF HandleDestroyed, OfCurrentSubscription, Told
  <2>4. CASE IgnoreNotification(Head(batch))
    BY <2>4, EventsDiffer DEF IgnoreNotification
  <2> QED
    BY <1>4, <2>2, <2>3, <2>4 DEF HandleNotification
<1>5. CASE NothingDue \/ BeginClientNew \/ BeginSubscribe \/ BeginRead \/ FinishClient \/ WorkerDone
  BY <1>5 DEF NothingDue, BeginClientNew, BeginSubscribe, BeginRead, FinishClient, WorkerDone
<1>6. CASE Silent
  <2>1. outbox' = <<Ended(subscriptions, "silence_timeout")>>
    BY <1>6, ShortSequences DEF Silent, EndSubscription
  <2> QED
    BY <2>1, EventsDiffer
<1>7. CASE BeginFinish
  <2>1. outbox' = outbox \/ outbox' = <<Ended(subscriptions, "relay_stop")>>
    BY <1>7, ShortSequences DEF BeginFinish, EndSubscription
  <2> QED
    BY <2>1, EventsDiffer
<1>8. CASE CallReturns
  <2>1. outbox = <<>>
    BY <1>8 DEF CallReturns, ClientNewFails, ClientNewReturns, ClientNewReturnsWithoutCallback,
         InitCommsReturns, InitCommsFails, SubscribeReturns, SubscribeFails, MetadataRefused,
         RefusedUnsubscribeReturns, ReadReturnsMessages, ReadReturnsGap, ReadReturnsNothing,
         ReadEndsSilent, UnsubscribeReturns, DestroyReturns, InCall
  <2>2. \A a, b, c : <<a, b>> # <<c>>
    OBVIOUS
  <2>3. CASE \/ ClientNewFails \/ ClientNewReturns \/ InitCommsReturns \/ SubscribeFails
             \/ RefusedUnsubscribeReturns \/ ReadReturnsGap \/ UnsubscribeReturns \/ DestroyReturns
    BY <2>3, EventsDiffer
       DEF ClientNewFails, ClientNewReturns, InitCommsReturns, SubscribeFails,
           RefusedUnsubscribeReturns, ReadReturnsGap, UnsubscribeReturns, DestroyReturns
  <2>4. CASE MetadataRefused \/ ReadReturnsNothing
    BY <2>4 DEF MetadataRefused, ReadReturnsNothing
  <2>5. CASE ClientNewReturnsWithoutCallback
    BY <2>2, <2>5 DEF ClientNewReturnsWithoutCallback
  <2>6. CASE InitCommsFails
    BY <2>2, <2>6, ShortSequences DEF InitCommsFails, LoseClient
  <2>7. CASE SubscribeReturns
    BY <2>7, EventsDiffer DEF SubscribeReturns
  <2>8. CASE \/ \E s \in SlotValues : ReadReturnsMessages(<<s>>)
             \/ \E s, t \in SlotValues : ReadReturnsMessages(<<s, t>>)
    <3>1. \/ \E s \in SlotValues : outbox' = <<Message(subscriptions, s)>>
          \/ \E s, t \in SlotValues :
                 outbox' = <<Message(subscriptions, s), Message(subscriptions, t)>>
      <4>1. ASSUME NEW s, ReadReturnsMessages(<<s>>)
            PROVE  outbox' = <<Message(subscriptions, s)>>
        <5>1. outbox' = [i \in DOMAIN <<s>> |-> Message(subscriptions, <<s>>[i])]
          BY <4>1 DEF ReadReturnsMessages
        <5> QED
          BY <5>1, SlotsArePosted, Zenon
      <4>2. ASSUME NEW s, NEW t, ReadReturnsMessages(<<s, t>>)
            PROVE  outbox' = <<Message(subscriptions, s), Message(subscriptions, t)>>
        <5>1. outbox' = [i \in DOMAIN <<s, t>> |-> Message(subscriptions, <<s, t>>[i])]
          BY <4>2 DEF ReadReturnsMessages
        <5> QED
          BY <5>1, SlotsArePosted, Zenon
      <4> QED
        BY <2>8, <4>1, <4>2
    <3> QED
      BY <2>2, <3>1, EventsDiffer
  <2>9. CASE \E posts \in {<<>>, <<Other>>} : ReadEndsSilent(posts)
    <3>1. \/ outbox' = <<Ended(subscriptions, "silence_timeout")>>
          \/ outbox' = <<Other, Ended(subscriptions, "silence_timeout")>>
      BY <2>9, ShortSequences DEF ReadEndsSilent, EndSubscription
    <3> QED
      BY <2>2, <3>1, EventsDiffer
  <2> QED
    BY <1>8, <2>3, <2>4, <2>5, <2>6, <2>7, <2>8, <2>9 DEF CallReturns
<1> QED
  BY <1>1, <1>2, <1>3, <1>4, <1>5, <1>6, <1>7, <1>8 DEF Next, Turn

(* A subscription ends for PublicationDestroyed only when its publication  *)
(* has gone.                                                               *)
THEOREM EndsForItsOwn == Spec => EndsForItsOwnPublication
<1>1. CallInv /\ FeedInv /\ NotificationInv /\ [Next]_workerVars =>
          [\A n \in {subscriptions} :
             outbox' # outbox /\ outbox' = <<Ended(n, "publication_destroyed")>> =>
               subscription_generation \in lib_destroyed]_workerVars
  BY EndHasItsReason DEF EndsOf
<1> QED
  BY <1>1, CallsCorrect, FeedCorrect, NotificationsCorrect, PTL
     DEF Spec, EndsForItsOwnPublication

-----------------------------------------------------------------------------
(* What a thread that takes the posts can count on.                        *)

Posted ==
    {Other, Lost}
      \cup {Subscribed(n) : n \in 1 .. MaxSubscriptions}
      \cup {Message(n, s) : n \in 1 .. MaxSubscriptions, s \in SlotValues}
      \cup {Ended(n, e) : n \in 1 .. MaxSubscriptions, e \in Ends}

(* A read posts messages only, so the first event tells what is left.      *)
MessagesLeft == IF outbox # <<>> /\ Head(outbox).kind = "message" THEN Len(outbox) ELSE 0
SubscriptionsLeft == IF outbox # <<>> /\ Head(outbox).kind = "subscribed" THEN 1 ELSE 0

IsOne(event, kind) == IF event.kind = kind THEN 1 ELSE 0

QuietInv ==
    /\ lib_messages \in 0 .. MaxMessages
    /\ worker_pc = "done" => outbox = <<>>

(* Every event is of a subscription there was, and a subscription ends for *)
(* relay_stop only once the stop was requested.                            *)
LEMMA FirstIsPosted ==
    ASSUME CallInv, NumberInv, FeedInv, outbox # <<>>
    PROVE  /\ Head(outbox) \in Posted
           /\ Head(outbox).kind = "ended" /\ Head(outbox).end = "relay_stop" =>
                  worker_stop_requested
<1>1. subscriptions > 0 => subscriptions \in 1 .. MaxSubscriptions
  BY WorkerAssumption DEF NumberInv
<1>2. CASE outbox = <<Other>>
  BY <1>2 DEF Other, Posted
<1>3. CASE Opening
  <2>1. Head(outbox) = Subscribed(subscriptions) /\ subscriptions > 0
    BY <1>3, ShortSequences DEF Opening, CallInv, SubscriptionInv
  <2>2. Head(outbox) \in Posted
    BY <1>1, <2>1 DEF Posted
  <2>3. Head(outbox).kind = "subscribed"
    BY <2>1 DEF Subscribed
  <2> QED
    BY <2>2, <2>3
<1>4. CASE Reading
  <2>1. PICK s \in SlotValues : Head(outbox) = Message(subscriptions, s)
    BY <1>4, ShortSequences DEF Reading
  <2>2. subscriptions > 0
    BY <1>4 DEF Reading, CallInv, SubscriptionInv
  <2>3. Head(outbox) \in Posted
    BY <1>1, <2>1, <2>2 DEF Posted
  <2>4. Head(outbox).kind = "message"
    BY <2>1 DEF Message
  <2> QED
    BY <2>3, <2>4
<1>5. CASE Closing
  <2>1. CASE Head(outbox) = Other
    BY <2>1 DEF Posted, Other
  <2>2. CASE \E end \in Ends : /\ outbox = <<Ended(subscriptions, end)>>
                               /\ end = "relay_stop" => worker_stop_requested
    <3>1. PICK end \in Ends : /\ Head(outbox) = Ended(subscriptions, end)
                              /\ end = "relay_stop" => worker_stop_requested
      BY <2>2, ShortSequences
    <3>2. subscriptions > 0
      BY <1>5 DEF Closing
    <3>3. Head(outbox) \in Posted
      BY <1>1, <3>1, <3>2 DEF Posted
    <3>4. Head(outbox).end = end
      BY <3>1 DEF Ended
    <3> QED
      BY <3>1, <3>3, <3>4
  <2> QED
    BY <1>5, <2>1, <2>2, ShortSequences DEF Closing
<1>6. CASE Losing
  <2>1. \/ Head(outbox) = Ended(subscriptions, "disconnected") /\ subscriptions > 0
        \/ Head(outbox) \in {Other, Lost}
    BY <1>6, ShortSequences DEF Losing
  <2>2. CASE Head(outbox) = Ended(subscriptions, "disconnected") /\ subscriptions > 0
    <3>1. Head(outbox) \in Posted
      BY <1>1, <2>2 DEF Posted, Ends
    <3>2. Head(outbox).end = "disconnected"
      BY <2>2 DEF Ended
    <3> QED
      BY <3>1, <3>2
  <2> QED
    BY <2>1, <2>2 DEF Posted, Other, Lost
<1> QED
  BY <1>2, <1>3, <1>4, <1>5, <1>6 DEF FeedInv

LEMMA LeftIsCounted ==
    ASSUME FeedInv
    PROVE  MessagesLeft \in Nat /\ SubscriptionsLeft \in Nat
<1>1. (\A a : Len(<<a>>) = 1) /\ (\A a, b : Len(<<a, b>>) = 2) /\ Len(<<>>) = 0
  OBVIOUS
<1>2. Len(outbox) \in Nat
  BY <1>1 DEF FeedInv, Opening, Reading, Closing, Losing
<1> QED
  BY <1>2 DEF MessagesLeft, SubscriptionsLeft

(* A post takes its event from what is left.                               *)
LEMMA PostCounts ==
    ASSUME FeedInv, Post
    PROVE  /\ MessagesLeft' \in Nat /\ SubscriptionsLeft' \in Nat
           /\ MessagesLeft' + IsOne(Head(outbox), "message") = MessagesLeft
           /\ SubscriptionsLeft' + IsOne(Head(outbox), "subscribed") = SubscriptionsLeft
<1>1. outbox # <<>> /\ outbox' = Tail(outbox)
  BY DEF Post
<1>2. \A a : Len(<<a>>) = 1 /\ Tail(<<a>>) = <<>> /\ Head(<<a>>) = a
  BY ShortSequences
<1>3. \A a, b : Len(<<a, b>>) = 2 /\ Tail(<<a, b>>) = <<b>> /\ Head(<<a, b>>) = a
  <2>1. \A a, b : Len(<<a, b>>) = 2
    OBVIOUS
  <2>2. ASSUME NEW a, NEW b PROVE Tail(<<a, b>>) = <<b>> /\ Head(<<a, b>>) = a
    BY ShortSequences
  <2> QED
    BY <2>1, <2>2
<1>4. CASE \E a : outbox = <<a>>
  BY <1>1, <1>2, <1>4 DEF MessagesLeft, SubscriptionsLeft, IsOne
<1>5. CASE Reading
  <2>1. CASE \E s, t \in SlotValues :
                 outbox = <<Message(subscriptions, s), Message(subscriptions, t)>>
    <3>1. PICK s \in SlotValues, t \in SlotValues :
                  outbox = <<Message(subscriptions, s), Message(subscriptions, t)>>
      BY <2>1
    <3>2. /\ outbox' = <<Message(subscriptions, t)>> /\ Len(outbox) = 2 /\ Len(outbox') = 1
          /\ Head(outbox) = Message(subscriptions, s) /\ Head(outbox') = Message(subscriptions, t)
          /\ outbox' # <<>>
      BY <1>1, <1>2, <1>3, <3>1, ShortSequences
    <3>3. Head(outbox).kind = "message" /\ Head(outbox').kind = "message"
      BY <3>2 DEF Message
    <3> QED
      BY <1>1, <3>2, <3>3 DEF MessagesLeft, SubscriptionsLeft, IsOne
  <2> QED
    BY <1>4, <1>5, <2>1 DEF Reading
<1>6. CASE \E a, b : /\ outbox = <<a, b>> /\ a.kind \notin {"message", "subscribed"}
                     /\ b.kind \notin {"message", "subscribed"}
  <2>1. PICK a, b : /\ outbox = <<a, b>> /\ a.kind \notin {"message", "subscribed"}
                    /\ b.kind \notin {"message", "subscribed"}
    BY <1>6
  <2>2. Head(outbox) = a /\ outbox' = <<b>> /\ Head(outbox') = b
    BY <1>1, <1>2, <1>3, <2>1
  <2> QED
    BY <2>1, <2>2 DEF MessagesLeft, SubscriptionsLeft, IsOne
<1>7. /\ \A n, end : Ended(n, end).kind \notin {"message", "subscribed"}
      /\ Other.kind \notin {"message", "subscribed"} /\ Lost.kind \notin {"message", "subscribed"}
  BY DEF Ended, Other, Lost
<1>8. CASE Closing
  BY <1>4, <1>6, <1>7, <1>8 DEF Closing
<1>9. CASE Losing
  BY <1>4, <1>6, <1>7, <1>9 DEF Losing
<1> QED
  BY <1>1, <1>4, <1>5, <1>8, <1>9 DEF FeedInv, Opening

(* The thread has a stop request and the feed only looked at, outside of a *)
(* post, and works only while nothing is left to post and it is not done.  *)
LEMMA WorkKeeps ==
    ASSUME Turn \/ CallReturns
    PROVE  /\ outbox = <<>> /\ worker_pc # "done"
           /\ UNCHANGED <<worker_stop_requested, fed, fed_lost>>
BY DEF Turn, CallReturns, TakeInbox, HandleNotification, NothingDue, BeginClientNew,
       BeginSubscribe, BeginRead, Silent, MayCall, BatchDone, BeginFinish, FinishClient,
       WorkerDone, ClientNewFails, ClientNewReturns, ClientNewReturnsWithoutCallback,
       InitCommsReturns, InitCommsFails, SubscribeReturns, SubscribeFails, MetadataRefused,
       RefusedUnsubscribeReturns, ReadReturnsMessages, ReadReturnsGap, ReadReturnsNothing,
       ReadEndsSilent, UnsubscribeReturns, DestroyReturns, InCall, feedVars

LEMMA PostKeeps ==
    ASSUME Post
    PROVE  /\ outbox # <<>> /\ outbox' = Tail(outbox)
           /\ fed' = IF Head(outbox).kind = "subscribed" THEN Head(outbox).n
                     ELSE IF Head(outbox).kind = "ended" THEN 0 ELSE fed
           /\ UNCHANGED <<worker_pc, worker_stop_requested, worker_subscribed, subscriptions,
                          lib_messages>>
BY DEF Post, controlVars, subVars, libVars

LEMMA LibraryKeeps ==
    ASSUME LibraryStep \/ Arrival
    PROVE  UNCHANGED <<worker_pc, worker_stop_requested, worker_subscribed, subscriptions,
                       outbox, fed, fed_lost, lib_messages>>
BY DEF LibraryStep, LibraryDisconnects, PublicationGoes, OtherArrives, ClientExists,
       SubscriptionExists, Arrival, NotificationArrives, controlVars, subVars, feedVars

(* Every other step of the thread that leaves something to post counts it. *)
LEMMA WorkCounts ==
    ASSUME CallInv, QuietInv, Turn \/ CallReturns
    PROVE  /\ MessagesLeft = 0 /\ MessagesLeft' \in Nat
           /\ SubscriptionsLeft = 0 /\ SubscriptionsLeft' \in Nat
           /\ MessagesLeft' + lib_messages <= lib_messages'
           /\ SubscriptionsLeft' + subscriptions <= subscriptions'
           /\ QuietInv'
<1> USE DEF InCall, clientVars, subVars, libVars, feedVars
<1> DEFINE Bare(s) == s = <<>> \/ Head(s).kind \notin {"message", "subscribed"}
<1>1. MessagesLeft = 0 /\ SubscriptionsLeft = 0 /\ outbox = <<>> /\ worker_pc # "done"
  BY WorkKeeps DEF MessagesLeft, SubscriptionsLeft
<1>. SUFFICES /\ MessagesLeft' \in Nat /\ SubscriptionsLeft' \in Nat
              /\ MessagesLeft' + lib_messages <= lib_messages'
              /\ SubscriptionsLeft' + subscriptions <= subscriptions'
              /\ QuietInv'
  BY <1>1
<1>2. ASSUME Bare(outbox'), UNCHANGED <<lib_messages, subscriptions>>,
             worker_pc' = "done" => outbox' = <<>>
      PROVE  /\ MessagesLeft' \in Nat /\ SubscriptionsLeft' \in Nat
             /\ MessagesLeft' + lib_messages <= lib_messages'
             /\ SubscriptionsLeft' + subscriptions <= subscriptions'
             /\ QuietInv'
  BY <1>1, <1>2 DEF MessagesLeft, SubscriptionsLeft, QuietInv, CallInv, Shaped
<1>3. /\ Bare(<<>>) /\ Bare(<<Other>>) /\ Bare(<<Lost>>) /\ Bare(<<Other, Lost>>)
      /\ \A n, end : Bare(<<Ended(n, end)>>) /\ Bare(<<Ended(n, end), Lost>>)
                     /\ Bare(<<Other, Ended(n, end)>>)
  BY ShortSequences DEF Other, Lost, Ended
<1> HIDE DEF Bare
<1>4. CASE \/ NothingDue \/ BeginClientNew \/ BeginSubscribe \/ BeginRead \/ FinishClient
           \/ WorkerDone \/ MetadataRefused \/ ReadReturnsNothing
  <2>1. outbox' = <<>> /\ UNCHANGED <<lib_messages, subscriptions>>
    BY <1>1, <1>4 DEF NothingDue, BeginClientNew, BeginSubscribe, BeginRead, FinishClient,
           WorkerDone, MetadataRefused, ReadReturnsNothing
  <2> QED
    BY <1>2, <1>3, <2>1
<1>5. CASE \/ ClientNewFails \/ ClientNewReturns \/ InitCommsReturns \/ SubscribeFails
           \/ RefusedUnsubscribeReturns \/ ReadReturnsGap \/ UnsubscribeReturns \/ DestroyReturns
           \/ TakeInbox
  <2>1. outbox' \in {<<>>, <<Other>>} /\ UNCHANGED <<lib_messages, subscriptions>>
    BY <1>5 DEF ClientNewFails, ClientNewReturns, InitCommsReturns, SubscribeFails, TakeInbox,
           RefusedUnsubscribeReturns, ReadReturnsGap, UnsubscribeReturns, DestroyReturns
  <2>2. worker_pc' # "done"
    BY <1>5 DEF ClientNewFails, ClientNewReturns, InitCommsReturns, SubscribeFails, TakeInbox,
           RefusedUnsubscribeReturns, ReadReturnsGap, UnsubscribeReturns, DestroyReturns, CallInv,
           Shaped
  <2> QED
    BY <1>2, <1>3, <2>1, <2>2
<1>6. CASE HandleNotification
  <2>1. UNCHANGED <<lib_messages, subscriptions>> /\ worker_pc' # "done"
    BY <1>6 DEF HandleNotification, HandleDisconnected, HandleDestroyed, IgnoreNotification,
           EndSubscription
  <2>2. CASE HandleDisconnected(Head(batch))
    <3>1. outbox' \in {<<Lost>>, <<Ended(subscriptions, "disconnected"), Lost>>}
      BY <2>2, ShortSequences DEF HandleDisconnected, LoseClient
    <3> QED
      BY <1>2, <1>3, <2>1, <3>1
  <2>3. CASE HandleDestroyed(Head(batch))
    <3>1. outbox' = <<Ended(subscriptions, "publication_destroyed")>>
      BY <2>3, ShortSequences DEF HandleDestroyed, EndSubscription
    <3> QED
      BY <1>2, <1>3, <2>1, <3>1
  <2>4. CASE IgnoreNotification(Head(batch))
    BY <1>2, <1>3, <2>1, <2>4 DEF IgnoreNotification
  <2> QED
    BY <1>6, <2>2, <2>3, <2>4 DEF HandleNotification
<1>7. CASE Silent \/ \E posts \in {<<>>, <<Other>>} : ReadEndsSilent(posts)
  <2>1. outbox' \in {<<Ended(subscriptions, "silence_timeout")>>,
                     <<Other, Ended(subscriptions, "silence_timeout")>>}
    BY <1>7, ShortSequences DEF Silent, ReadEndsSilent, EndSubscription
  <2>2. UNCHANGED <<lib_messages, subscriptions>> /\ worker_pc' # "done"
    BY <1>7 DEF Silent, ReadEndsSilent, EndSubscription
  <2> QED
    BY <1>2, <1>3, <2>1, <2>2
<1>8. CASE BeginFinish
  <2>1. outbox' \in {<<>>, <<Ended(subscriptions, "relay_stop")>>}
    BY <1>1, <1>8, ShortSequences DEF BeginFinish, EndSubscription
  <2>2. UNCHANGED <<lib_messages, subscriptions>> /\ worker_pc' # "done"
    BY <1>8 DEF BeginFinish, EndSubscription
  <2> QED
    BY <1>2, <1>3, <2>1, <2>2
<1>9. CASE ClientNewReturnsWithoutCallback \/ InitCommsFails
  <2>1. outbox' = <<Other, Lost>>
    BY <1>9, ShortSequences DEF ClientNewReturnsWithoutCallback, InitCommsFails, LoseClient
  <2>2. UNCHANGED <<lib_messages, subscriptions>> /\ worker_pc' # "done"
    BY <1>9 DEF ClientNewReturnsWithoutCallback, InitCommsFails
  <2> QED
    BY <1>2, <1>3, <2>1, <2>2
<1>10. CASE SubscribeReturns
  <2>1. Head(outbox').kind = "subscribed" /\ worker_pc' = "loop" /\ lib_messages' = lib_messages
        /\ subscriptions' = subscriptions + 1
    BY <1>10, ShortSequences DEF SubscribeReturns, Subscribed
  <2> QED
    BY <1>1, <2>1 DEF MessagesLeft, SubscriptionsLeft, QuietInv, CallInv, Shaped
<1>11. ASSUME NEW s, NEW t, NEW slots \in {<<s>>, <<s, t>>}, ReadReturnsMessages(slots)
       PROVE  /\ MessagesLeft' \in Nat /\ SubscriptionsLeft' \in Nat
              /\ MessagesLeft' + lib_messages <= lib_messages'
              /\ SubscriptionsLeft' + subscriptions <= subscriptions'
              /\ QuietInv'
  <2>1. outbox' \in {<<Message(subscriptions, s)>>,
                     <<Message(subscriptions, s), Message(subscriptions, t)>>}
    BY <1>11, SlotsArePosted DEF ReadReturnsMessages
  <2>2. Head(outbox').kind = "message"
    BY <2>1, ShortSequences DEF Message
  <2>3. Len(outbox') = Len(slots) /\ Len(slots) \in {1, 2}
    BY <1>11, SlotsArePosted DEF ReadReturnsMessages
  <2>4. /\ lib_messages + Len(slots) <= MaxMessages /\ lib_messages' = lib_messages + Len(slots)
        /\ worker_pc' = "loop" /\ subscriptions' = subscriptions
    BY <1>11 DEF ReadReturnsMessages
  <2> QED
    BY <1>1, <2>2, <2>3, <2>4, WorkerAssumption
       DEF MessagesLeft, SubscriptionsLeft, QuietInv, CallInv, Shaped
<1> QED
  BY <1>1, <1>4, <1>5, <1>6, <1>7, <1>8, <1>9, <1>10, <1>11 DEF Turn, CallReturns

(* A thread that is done has nothing left to post.                         *)
THEOREM QuietCorrect == Spec => []QuietInv
<1>1. Init => QuietInv
  BY WorkerAssumption DEF Init, QuietInv
<1>2. CallInv /\ QuietInv /\ [Next]_workerVars => QuietInv'
  <2> SUFFICES ASSUME CallInv, QuietInv, [Next]_workerVars PROVE QuietInv'
    OBVIOUS
  <2>1. CASE Turn \/ CallReturns
    BY <2>1, WorkCounts
  <2>2. CASE Post
    BY <2>2 DEF Post, QuietInv, libVars, controlVars
  <2>3. CASE LibraryStep \/ Arrival \/ RequestStop \/ UNCHANGED workerVars
    <3>1. UNCHANGED <<outbox, worker_pc, lib_messages>>
      BY <2>3 DEF LibraryStep, LibraryDisconnects, PublicationGoes, OtherArrives, ClientExists,
             SubscriptionExists, Arrival, NotificationArrives, RequestStop, workerVars,
             controlVars, libVars
    <3> QED
      BY <3>1 DEF QuietInv
  <2> QED
    BY <2>1, <2>2, <2>3 DEF Next
<1> QED
  BY <1>1, <1>2, CallsCorrect, PTL DEF Spec

=============================================================================
