--------------------------- MODULE GatewayWorker ---------------------------
(***************************************************************************)
(* The worker thread of the IVI frame relay (gateway_worker.cpp) and the   *)
(* gateway library it calls (gateway_client.hpp).                          *)
(*                                                                         *)
(* The worker runs Step again and again until a stop is requested, then    *)
(* Finish.  Its code between two points another thread can see is one      *)
(* action: taking the inbox, beginning a call, the return of a call, one   *)
(* post.  A call is in progress while worker_pc names it and nothing is    *)
(* left to post.  The library's threads notify the worker at any time,     *)
(* also during a call, also late: after the client or the subscription has *)
(* gone.                                                                   *)
(*                                                                         *)
(* Time is abstracted: whether an attempt or a read is due, and whether 3 s*)
(* passed without a message, is a free choice.  DATA_AVAILABLE only makes  *)
(* a read due and is never queued, so it is left out.                      *)
(***************************************************************************)
EXTENDS Naturals, Sequences, FiniteSets

CONSTANTS
  SlotValues,            \* what a slot of a read can hold
  InboxCapacity,         \* kInboxCapacity
  MaxClientAttempts,     \* bound: calls of client_new
  MaxSubscriptions,      \* bound: calls of subscribe
  MaxMessages,           \* bound: slots the library hands out
  MaxOther               \* bound: notifications nobody acts on

ASSUME WorkerAssumption ==
  /\ InboxCapacity \in Nat \ {0}
  /\ MaxClientAttempts \in Nat
  /\ MaxSubscriptions \in Nat
  /\ MaxMessages \in Nat
  /\ MaxOther \in Nat

VARIABLES
  worker_pc,
  resume,                            \* where Unsubscribe returns to
  batch,                             \* the notifications Step has taken
  outbox,                            \* the events to post, in order
  inbox, inbox_dropped, worker_stop_requested,
  client_created, has_client, client_lost,
  worker_subscribed, subscription_generation, subscriptions,
  client_generation,
  lib_client,                        \* the client of the library
  lib_subscriptions,                 \* generations not yet unsubscribed
  lib_destroyed,                     \* generations whose publication has gone
  lib_in_flight,                     \* notifications on their way
  lib_clients, lib_messages, lib_other,
  fed, fed_lost                      \* history: what was posted

controlVars == <<worker_pc, resume, batch>>
inboxVars   == <<inbox, inbox_dropped>>
clientVars  == <<client_created, has_client, client_lost, client_generation>>
subVars     == <<worker_subscribed, subscription_generation, subscriptions>>
libVars     == <<lib_client, lib_subscriptions, lib_destroyed, lib_in_flight,
                 lib_clients, lib_messages, lib_other>>
feedVars    == <<fed, fed_lost>>
workerVars  == <<controlVars, outbox, inboxVars, worker_stop_requested,
                 clientVars, subVars, libVars, feedVars>>

Calls == {"client_new", "init_comms", "subscribe", "refuse", "read",
          "unsubscribe", "destroy"}

InCall(call) == worker_pc = call /\ outbox = <<>>

Ends == {"publication_destroyed", "disconnected", "silence_timeout", "relay_stop"}

\* The events of the worker; Other stands for those that the core only logs.
Subscribed(n)   == [kind |-> "subscribed", n |-> n]
Message(n, s)   == [kind |-> "message", n |-> n, slot |-> s]
Ended(n, end)   == [kind |-> "ended", n |-> n, end |-> end]
Lost            == [kind |-> "lost"]
Other           == [kind |-> "other"]

Disconnected(g) == [kind |-> "disconnected", generation |-> g]
Destroyed(g)    == [kind |-> "publication_destroyed", generation |-> g]
Unacted         == [kind |-> "other", generation |-> 0]

Init ==
  /\ worker_pc = "loop" /\ resume = "loop" /\ batch = <<>>
  /\ outbox = <<>>
  /\ inbox = <<>> /\ inbox_dropped = 0 /\ worker_stop_requested = FALSE
  /\ client_created = FALSE /\ has_client = FALSE /\ client_lost = FALSE
  /\ client_generation = 0
  /\ worker_subscribed = FALSE /\ subscription_generation = 0 /\ subscriptions = 0
  /\ lib_client = "none" /\ lib_subscriptions = {} /\ lib_destroyed = {}
  /\ lib_in_flight = {} /\ lib_clients = 0 /\ lib_messages = 0 /\ lib_other = 0
  /\ fed = 0 /\ fed_lost = FALSE

-----------------------------------------------------------------------------
(* Other threads.                                                          *)

Notify(notification) ==
  \/ /\ Len(inbox) < InboxCapacity
     /\ inbox' = Append(inbox, notification)
     /\ UNCHANGED inbox_dropped
  \/ /\ Len(inbox) >= InboxCapacity
     /\ inbox_dropped' = inbox_dropped + 1
     /\ UNCHANGED inbox

RequestStop ==
  /\ worker_stop_requested' = TRUE
  /\ UNCHANGED <<controlVars, outbox, inboxVars, clientVars, subVars, libVars,
                 feedVars>>

\* The library loses its server; each client hears of it once.
LibraryDisconnects ==
  /\ lib_client = "up"
  /\ lib_client' = "down"
  /\ lib_in_flight' = lib_in_flight \cup {Disconnected(client_generation)}
  /\ UNCHANGED <<controlVars, outbox, inboxVars, worker_stop_requested,
                 clientVars, subVars, lib_subscriptions, lib_destroyed,
                 lib_clients, lib_messages, lib_other, feedVars>>

PublicationGoes(g) ==
  /\ g \in lib_subscriptions \ lib_destroyed
  /\ lib_destroyed' = lib_destroyed \cup {g}
  /\ lib_in_flight' = lib_in_flight \cup {Destroyed(g)}
  /\ UNCHANGED <<controlVars, outbox, inboxVars, worker_stop_requested,
                 clientVars, subVars, lib_client, lib_subscriptions,
                 lib_clients, lib_messages, lib_other, feedVars>>

NotificationArrives(notification) ==
  /\ lib_in_flight' = lib_in_flight \ {notification}
  /\ Notify(notification)
  /\ UNCHANGED <<controlVars, outbox, worker_stop_requested, clientVars,
                 subVars, lib_client, lib_subscriptions, lib_destroyed,
                 lib_clients, lib_messages, lib_other, feedVars>>

OtherArrives ==
  /\ lib_client # "none" /\ lib_other < MaxOther
  /\ lib_other' = lib_other + 1
  /\ Notify(Unacted)
  /\ UNCHANGED <<controlVars, outbox, worker_stop_requested, clientVars,
                 subVars, lib_client, lib_subscriptions, lib_destroyed,
                 lib_in_flight, lib_clients, lib_messages, feedVars>>

\* A call takes effect in the library some time before it returns.
ClientExists ==
  /\ InCall("client_new") /\ lib_client = "none"
  /\ lib_client' = "up"
  /\ lib_clients' = lib_clients + 1
  /\ UNCHANGED <<controlVars, outbox, inboxVars, worker_stop_requested,
                 clientVars, subVars, lib_subscriptions, lib_destroyed,
                 lib_in_flight, lib_messages, lib_other, feedVars>>

SubscriptionExists ==
  /\ InCall("subscribe") /\ lib_client = "up"
  /\ subscription_generation \notin lib_subscriptions
  /\ lib_subscriptions' = lib_subscriptions \cup {subscription_generation}
  /\ UNCHANGED <<controlVars, outbox, inboxVars, worker_stop_requested,
                 clientVars, subVars, lib_client, lib_destroyed, lib_in_flight,
                 lib_clients, lib_messages, lib_other, feedVars>>

-----------------------------------------------------------------------------
(* The worker: the end of a subscription and of the client.                *)

\* Ends the subscription, posts it, and lets Unsubscribe follow.
EndSubscription(end, posts, next) ==
  /\ worker_subscribed' = FALSE
  /\ outbox' = posts \o <<Ended(subscriptions, end)>>
  /\ worker_pc' = "unsubscribe"
  /\ resume' = next
  /\ UNCHANGED <<subscription_generation, subscriptions>>

\* Mutant: the client of the process is created anew after its loss.
RecreateClient(posts) ==
  /\ client_created' = FALSE
  /\ has_client' = FALSE
  /\ outbox' = posts \o <<Lost>>
  /\ UNCHANGED <<client_lost, client_generation>>

LoseClient(posts) ==
  /\ client_lost' = TRUE
  /\ has_client' = FALSE
  /\ outbox' = posts \o <<Lost>>
  /\ UNCHANGED <<client_created, client_generation>>

\* The worker does not look at the result; the library is taken to succeed.
UnsubscribeReturns ==
  /\ InCall("unsubscribe")
  /\ lib_subscriptions' = lib_subscriptions \ {subscription_generation}
  /\ outbox' = <<Other>>
  /\ worker_pc' = resume
  /\ UNCHANGED <<resume, batch, inboxVars, worker_stop_requested, clientVars,
                 subVars, lib_client, lib_destroyed, lib_in_flight,
                 lib_clients, lib_messages, lib_other, feedVars>>

-----------------------------------------------------------------------------
(* The worker: one turn of Step.                                           *)

\* Mutant: the thread does not look at the stop request between two turns.
TakeInboxAlways ==
  /\ worker_pc = "loop" /\ outbox = <<>>
  /\ batch' = inbox
  /\ inbox' = <<>>
  /\ inbox_dropped' = 0
  /\ outbox' = IF inbox_dropped > 0 THEN <<Other>> ELSE <<>>
  /\ worker_pc' = "handle"
  /\ UNCHANGED <<resume, worker_stop_requested, clientVars, subVars, libVars,
                 feedVars>>

TakeInbox ==
  /\ worker_pc = "loop" /\ outbox = <<>>
  /\ ~worker_stop_requested
  /\ batch' = inbox
  /\ inbox' = <<>>
  /\ inbox_dropped' = 0
  /\ outbox' = IF inbox_dropped > 0 THEN <<Other>> ELSE <<>>
  /\ worker_pc' = "handle"
  /\ UNCHANGED <<resume, worker_stop_requested, clientVars, subVars, libVars,
                 feedVars>>

\* Mutant: Disconnected is acted on only while there is a subscription.
OfSubscribedClient(notification) ==
  /\ worker_subscribed
  /\ notification.generation = client_generation

OfCurrentClient(notification) ==
  /\ client_created /\ ~client_lost
  /\ notification.generation = client_generation

\* Mutant: a late notification of an old subscription is acted on.
OfAnySubscription(notification) == worker_subscribed

OfCurrentSubscription(notification) ==
  /\ worker_subscribed
  /\ notification.generation = subscription_generation

\* Mutant: the loss of the client does not end the subscription.
LostWhileSubscribed(notification) ==
  /\ notification.kind = "disconnected"
  /\ OfCurrentClient(notification)
  /\ LoseClient(<<>>)
  /\ UNCHANGED <<worker_pc, resume, subVars>>

HandleDisconnected(notification) ==
  /\ notification.kind = "disconnected"
  /\ OfCurrentClient(notification)
  /\ LoseClient(IF worker_subscribed
                  THEN <<Ended(subscriptions, "disconnected")>> ELSE <<>>)
  /\ worker_subscribed' = FALSE
  /\ UNCHANGED <<worker_pc, resume, subscription_generation, subscriptions>>

HandleDestroyed(notification) ==
  /\ notification.kind = "publication_destroyed"
  /\ OfCurrentSubscription(notification)
  /\ EndSubscription("publication_destroyed", <<>>, "handle")
  /\ UNCHANGED clientVars

IgnoreNotification(notification) ==
  /\ notification.kind = "disconnected" => ~OfCurrentClient(notification)
  /\ notification.kind = "publication_destroyed" =>
       ~OfCurrentSubscription(notification)
  /\ outbox' = <<Other>>
  /\ UNCHANGED <<worker_pc, resume, clientVars, subVars>>

HandleNotification ==
  /\ worker_pc = "handle" /\ outbox = <<>> /\ batch # <<>>
  /\ batch' = Tail(batch)
  /\ \/ HandleDisconnected(Head(batch))
     \/ HandleDestroyed(Head(batch))
     \/ IgnoreNotification(Head(batch))
  /\ UNCHANGED <<inboxVars, worker_stop_requested, libVars, feedVars>>

\* The end of Step: nothing is due, a call begins, or the subscription was
\* silent for 3 s with no read due.
BatchDone == worker_pc = "handle" /\ outbox = <<>> /\ batch = <<>>

NothingDue ==
  /\ BatchDone
  /\ worker_pc' = "loop"
  /\ UNCHANGED <<resume, batch, outbox, inboxVars, worker_stop_requested,
                 clientVars, subVars, libVars, feedVars>>

MayCall == BatchDone /\ ~worker_stop_requested /\ ~client_lost

BeginClientNew ==
  /\ MayCall /\ ~has_client /\ ~client_created
  /\ client_generation < MaxClientAttempts
  /\ client_generation' = client_generation + 1
  /\ worker_pc' = "client_new"
  /\ UNCHANGED <<resume, batch, outbox, inboxVars, worker_stop_requested,
                 client_created, has_client, client_lost, subVars, libVars,
                 feedVars>>

BeginSubscribe ==
  /\ MayCall /\ has_client /\ ~worker_subscribed
  /\ subscription_generation < MaxSubscriptions
  /\ subscription_generation' = subscription_generation + 1
  /\ worker_pc' = "subscribe"
  /\ UNCHANGED <<resume, batch, outbox, inboxVars, worker_stop_requested,
                 clientVars, worker_subscribed, subscriptions, libVars,
                 feedVars>>

BeginRead ==
  /\ MayCall /\ has_client /\ worker_subscribed
  /\ worker_pc' = "read"
  /\ UNCHANGED <<resume, batch, outbox, inboxVars, worker_stop_requested,
                 clientVars, subVars, libVars, feedVars>>

\* Mutant: a silent subscription is given up without Unsubscribe.
SilentWithoutUnsubscribe ==
  /\ MayCall /\ has_client /\ worker_subscribed
  /\ worker_subscribed' = FALSE
  /\ outbox' = <<Ended(subscriptions, "silence_timeout")>>
  /\ worker_pc' = "loop"
  /\ UNCHANGED <<resume, subscription_generation, subscriptions, batch,
                 inboxVars, worker_stop_requested, clientVars, libVars,
                 feedVars>>

Silent ==
  /\ MayCall /\ has_client /\ worker_subscribed
  /\ EndSubscription("silence_timeout", <<>>, "loop")
  /\ UNCHANGED <<batch, inboxVars, worker_stop_requested, clientVars, libVars,
                 feedVars>>

-----------------------------------------------------------------------------
(* The worker: the returns of its calls.                                   *)

\* No client was created: it is tried again later.
ClientNewFails ==
  /\ InCall("client_new") /\ lib_client = "none"
  /\ outbox' = <<Other>>
  /\ worker_pc' = "loop"
  /\ UNCHANGED <<resume, batch, inboxVars, worker_stop_requested, clientVars,
                 subVars, libVars, feedVars>>

ClientNewReturns ==
  /\ InCall("client_new") /\ lib_client # "none"
  /\ client_created' = TRUE
  /\ outbox' = <<Other>>
  /\ worker_pc' = "init_comms"
  /\ UNCHANGED <<resume, batch, inboxVars, worker_stop_requested, has_client,
                 client_lost, client_generation, subVars, libVars, feedVars>>

\* The client exists, but its notification callback could not be set.
ClientNewReturnsWithoutCallback ==
  /\ InCall("client_new") /\ lib_client = "up"
  /\ client_created' = TRUE
  /\ client_lost' = TRUE
  /\ has_client' = FALSE
  /\ outbox' = <<Other, Lost>>
  /\ worker_pc' = "loop"
  /\ UNCHANGED <<resume, batch, inboxVars, worker_stop_requested,
                 client_generation, subVars, libVars, feedVars>>

InitCommsReturns ==
  /\ InCall("init_comms")
  /\ has_client' = TRUE
  /\ outbox' = <<Other>>
  /\ worker_pc' = "loop"
  /\ UNCHANGED <<resume, batch, inboxVars, worker_stop_requested,
                 client_created, client_lost, client_generation, subVars,
                 libVars, feedVars>>

InitCommsFails ==
  /\ InCall("init_comms")
  /\ LoseClient(<<Other>>)
  /\ worker_pc' = "loop"
  /\ UNCHANGED <<resume, batch, inboxVars, worker_stop_requested, subVars,
                 libVars, feedVars>>

\* Mutant: the event takes the number before it is counted up.
SubscribedWithTheOldNumber ==
  /\ InCall("subscribe") /\ subscription_generation \in lib_subscriptions
  /\ worker_subscribed' = TRUE
  /\ subscriptions' = subscriptions + 1
  /\ outbox' = <<Subscribed(subscriptions)>>
  /\ worker_pc' = "loop"
  /\ UNCHANGED <<resume, batch, inboxVars, worker_stop_requested, clientVars,
                 subscription_generation, libVars, feedVars>>

SubscribeReturns ==
  /\ InCall("subscribe") /\ subscription_generation \in lib_subscriptions
  /\ worker_subscribed' = TRUE
  /\ subscriptions' = subscriptions + 1
  /\ outbox' = <<Subscribed(subscriptions + 1)>>
  /\ worker_pc' = "loop"
  /\ UNCHANGED <<resume, batch, inboxVars, worker_stop_requested, clientVars,
                 subscription_generation, libVars, feedVars>>

SubscribeFails ==
  /\ InCall("subscribe") /\ subscription_generation \notin lib_subscriptions
  /\ outbox' = <<Other>>
  /\ worker_pc' = "loop"
  /\ UNCHANGED <<resume, batch, inboxVars, worker_stop_requested, clientVars,
                 subVars, libVars, feedVars>>

\* Subscribed, but with a message size that the relay does not read.
MetadataRefused ==
  /\ InCall("subscribe") /\ subscription_generation \in lib_subscriptions
  /\ worker_pc' = "refuse"
  /\ UNCHANGED <<resume, batch, outbox, inboxVars, worker_stop_requested,
                 clientVars, subVars, libVars, feedVars>>

RefusedUnsubscribeReturns ==
  /\ InCall("refuse")
  /\ lib_subscriptions' = lib_subscriptions \ {subscription_generation}
  /\ outbox' = <<Other>>
  /\ worker_pc' = "loop"
  /\ UNCHANGED <<resume, batch, inboxVars, worker_stop_requested, clientVars,
                 subVars, lib_client, lib_destroyed, lib_in_flight,
                 lib_clients, lib_messages, lib_other, feedVars>>

\* One read hands on every slot it returned, in order.
ReadReturnsMessages(slots) ==
  /\ InCall("read")
  /\ lib_messages + Len(slots) <= MaxMessages
  /\ lib_messages' = lib_messages + Len(slots)
  /\ outbox' = [i \in DOMAIN slots |-> Message(subscriptions, slots[i])]
  /\ worker_pc' = "loop"
  /\ UNCHANGED <<resume, batch, inboxVars, worker_stop_requested, clientVars,
                 subVars, lib_client, lib_subscriptions, lib_destroyed,
                 lib_in_flight, lib_clients, lib_other, feedVars>>

\* DATA_LOSS (a sign of life), or a failed read before the 3 s are over.
ReadReturnsGap ==
  /\ InCall("read")
  /\ outbox' = <<Other>>
  /\ worker_pc' = "loop"
  /\ UNCHANGED <<resume, batch, inboxVars, worker_stop_requested, clientVars,
                 subVars, libVars, feedVars>>

ReadReturnsNothing ==
  /\ InCall("read")
  /\ worker_pc' = "loop"
  /\ UNCHANGED <<resume, batch, outbox, inboxVars, worker_stop_requested,
                 clientVars, subVars, libVars, feedVars>>

\* Nothing read (posts = <<>>) or a failed read, and the 3 s are over.
ReadEndsSilent(posts) ==
  /\ InCall("read")
  /\ EndSubscription("silence_timeout", posts, "loop")
  /\ UNCHANGED <<batch, inboxVars, worker_stop_requested, clientVars, libVars,
                 feedVars>>

-----------------------------------------------------------------------------
(* The worker: the stop.                                                   *)

\* Mutant: Finish leaves the subscription to the deletion of the client.
FinishSubscribed ==
  /\ worker_pc = "loop" /\ outbox = <<>>
  /\ worker_stop_requested
  /\ worker_pc' = "finish"
  /\ UNCHANGED <<resume, batch, outbox, inboxVars, worker_stop_requested,
                 clientVars, subVars, libVars, feedVars>>

BeginFinish ==
  /\ worker_pc = "loop" /\ outbox = <<>>
  /\ worker_stop_requested
  /\ \/ /\ worker_subscribed
        /\ EndSubscription("relay_stop", <<>>, "finish")
     \/ /\ ~worker_subscribed
        /\ worker_pc' = "finish"
        /\ UNCHANGED <<resume, outbox, subVars>>
  /\ UNCHANGED <<batch, inboxVars, worker_stop_requested, clientVars, libVars,
                 feedVars>>

\* Mutant: Finish deletes a client that was lost.
OwesDestroyAlsoLost == client_created

OwesDestroy == client_created /\ ~client_lost

FinishClient ==
  /\ worker_pc = "finish" /\ outbox = <<>>
  /\ worker_pc' = IF OwesDestroy THEN "destroy" ELSE "ending"
  /\ UNCHANGED <<resume, batch, outbox, inboxVars, worker_stop_requested,
                 clientVars, subVars, libVars, feedVars>>

DestroyReturns ==
  /\ InCall("destroy")
  /\ has_client' = FALSE
  /\ lib_client' = "deleted"
  /\ outbox' = <<Other>>
  /\ worker_pc' = "ending"
  /\ UNCHANGED <<resume, batch, inboxVars, worker_stop_requested,
                 client_created, client_lost, client_generation, subVars,
                 lib_subscriptions, lib_destroyed, lib_in_flight, lib_clients,
                 lib_messages, lib_other, feedVars>>

WorkerDone ==
  /\ worker_pc = "ending" /\ outbox = <<>>
  /\ worker_pc' = "done"
  /\ UNCHANGED <<resume, batch, outbox, inboxVars, worker_stop_requested,
                 clientVars, subVars, libVars, feedVars>>

-----------------------------------------------------------------------------
\* The sink takes the next event: the mailbox, when it has room.
Post ==
  /\ outbox # <<>>
  /\ outbox' = Tail(outbox)
  /\ fed' = CASE Head(outbox).kind = "subscribed" -> Head(outbox).n
              [] Head(outbox).kind = "ended" -> 0
              [] OTHER -> fed
  /\ fed_lost' = (fed_lost \/ Head(outbox).kind = "lost")
  /\ UNCHANGED <<controlVars, inboxVars, worker_stop_requested, clientVars,
                 subVars, libVars>>

CallReturns ==
  \/ ClientNewFails
  \/ ClientNewReturns
  \/ ClientNewReturnsWithoutCallback
  \/ InitCommsReturns
  \/ InitCommsFails
  \/ SubscribeReturns
  \/ SubscribeFails
  \/ MetadataRefused
  \/ RefusedUnsubscribeReturns
  \/ \E s \in SlotValues : ReadReturnsMessages(<<s>>)
  \/ \E s, t \in SlotValues : ReadReturnsMessages(<<s, t>>)
  \/ ReadReturnsGap
  \/ ReadReturnsNothing
  \/ \E posts \in {<<>>, <<Other>>} : ReadEndsSilent(posts)
  \/ UnsubscribeReturns
  \/ DestroyReturns

Turn ==
  \/ TakeInbox
  \/ HandleNotification
  \/ NothingDue
  \/ BeginClientNew
  \/ BeginSubscribe
  \/ BeginRead
  \/ Silent
  \/ BeginFinish
  \/ FinishClient
  \/ WorkerDone

LibraryStep ==
  \/ LibraryDisconnects
  \/ \E g \in lib_subscriptions : PublicationGoes(g)
  \/ OtherArrives
  \/ ClientExists
  \/ SubscriptionExists

Arrival == \E notification \in lib_in_flight : NotificationArrives(notification)

Next ==
  \/ Turn
  \/ CallReturns
  \/ Post
  \/ LibraryStep
  \/ Arrival
  \/ ~worker_stop_requested /\ RequestStop

Spec == Init /\ [][Next]_workerVars

\* The thread runs, every post finds room at last, every call returns, and
\* every notification arrives.
FairSpec ==
  /\ Spec
  /\ WF_workerVars(Turn)
  /\ WF_workerVars(CallReturns)
  /\ WF_workerVars(Post)
  /\ WF_workerVars(Arrival)

-----------------------------------------------------------------------------
(* Properties.                                                             *)

Notifications ==
  [kind : {"disconnected", "publication_destroyed", "other"},
   generation : 0 .. MaxClientAttempts + MaxSubscriptions]

\* Every variable has its type; the inbox never exceeds its capacity (Notify).
TypeOK ==
  /\ worker_pc \in Calls \cup {"loop", "handle", "finish", "ending", "done"}
  /\ resume \in {"loop", "handle", "finish"}
  /\ batch \in Seq(Notifications) /\ inbox \in Seq(Notifications)
  /\ Len(inbox) <= InboxCapacity /\ Len(batch) <= InboxCapacity
  /\ inbox_dropped \in Nat
  /\ {worker_stop_requested, client_created, has_client, client_lost,
      worker_subscribed, fed_lost} \subseteq BOOLEAN
  /\ client_generation \in 0 .. MaxClientAttempts
  /\ subscription_generation \in 0 .. MaxSubscriptions
  /\ subscriptions \in 0 .. subscription_generation
  /\ lib_client \in {"none", "up", "down", "deleted"}
  /\ lib_subscriptions \subseteq 1 .. MaxSubscriptions
  /\ lib_destroyed \subseteq 1 .. MaxSubscriptions
  /\ lib_in_flight \subseteq Notifications
  /\ fed \in 0 .. subscriptions

\* The rules of the gateway library, which it does not enforce: one client per
\* process, whatever was lost in between; no call once the client is lost, at the
\* stop neither; break before make, also after a late or a lost notification;
\* and a worker that has ended has unsubscribed and deleted its client, unless
\* that was lost.
LibraryRules ==
  /\ lib_clients <= 1
  /\ client_lost => worker_pc \notin Calls
  /\ worker_pc = "subscribe" =>
       lib_subscriptions \subseteq {subscription_generation}
  /\ worker_pc = "done" /\ ~client_lost =>
       lib_subscriptions = {} /\ lib_client \in {"none", "deleted"}

\* A subscription ends for PublicationDestroyed only when its own publication
\* has gone: a late notification of an earlier one changes nothing.
EndsForItsOwnPublication ==
  [][\A n \in {subscriptions} :
       outbox' # outbox /\ outbox' = <<Ended(n, "publication_destroyed")>> =>
         subscription_generation \in lib_destroyed]_workerVars

\* What the worker hands on is in order: subscriptions are numbered one by one,
\* each message and each end belongs to the one that is open, and the client is
\* lost only after its subscription has ended, with no subscription after it.
FeedInOrder ==
  [][outbox # <<>> /\ outbox' = Tail(outbox) =>
       LET event == Head(outbox)
       IN  /\ event.kind = "subscribed" => fed = 0 /\ ~fed_lost
           /\ event.kind \in {"message", "ended"} => fed = event.n
           /\ event.kind = "lost" => fed = 0 /\ ~fed_lost]_workerVars

\* A stop request ends the worker, if the calls return.
StopEndsTheWorker == worker_stop_requested ~> worker_pc = "done"

\* A Disconnected of the current client that found room in the inbox is acted
\* on: whatever the worker does when it comes, the client is lost, for good.
DisconnectedIsActedOn ==
  (\E i \in DOMAIN inbox : inbox[i] = Disconnected(client_generation))
    ~> client_lost \/ worker_stop_requested

=============================================================================
