--------------------------- MODULE IviFrameRelay ---------------------------
(***************************************************************************)
(* The IVI frame relay as a process (relay_shell.cpp, relay_main.cpp): the *)
(* main thread with the core (RelayCore) and the loopback socket, the      *)
(* worker thread (GatewayWorker), the mailbox between them (EventMailbox), *)
(* the ingress that connects and goes, and the stop signal.                *)
(*                                                                         *)
(* main is the place of the main thread in Run and Turn: it polls, drains  *)
(* the mailbox, handles the events one by one, accepts, reads its client,  *)
(* ticks.  revents is what poll reported: it can be stale when used.       *)
(***************************************************************************)
EXTENDS Naturals, Sequences, FiniteSets

CONSTANTS
  SeqNumbers, Times, Margin, CopyMemoryFrames, RetriggerLimit, Malformed,
  MaxSubscriptions, MaxMessages, MaxClients, MaxPhases,
  SlotValues, InboxCapacity, MaxClientAttempts, MaxOther, MailboxCapacity

\* The core.
VARIABLES
  subscribed, subscription, subscribed_since, client_connected, client_since,
  in_phase, phase_start, served, listening, first_client_seen,
  ingress_retriggers, ingress_trigger_gave_up, exit_requested, messages_read,
  frames_delivered, drops, phases_started, phases_ended, phases_ended_by_layer,
  clients_accepted, clients_refused, clients_lost, ingress_triggers, phase_log

\* The worker and the library.
VARIABLES
  worker_pc, resume, batch, outbox, inbox, inbox_dropped, worker_stop_requested,
  client_created, has_client, client_lost, worker_subscribed,
  subscription_generation, subscriptions, client_generation, lib_client,
  lib_subscriptions, lib_destroyed, lib_in_flight, lib_clients, lib_messages,
  lib_other, fed, fed_lost

\* The mailbox.
VARIABLES queue, closed, mailbox_dropped, ready

\* The shell and its sockets.
VARIABLES
  main,            \* the place of the main thread
  taken,           \* the events of the last TakeAll, still to handle
  revents,         \* the sockets poll reported
  stop_signal,     \* SIGTERM or SIGINT came
  client_open,     \* client_fd_ >= 0
  peer_gone,       \* the ingress behind client_fd_ has closed its end
  backlog,         \* a connection nobody has accepted: none, up or gone
  connects,        \* bound: connections the ingress made
  exit_code, worker_joined

Core    == INSTANCE RelayCore
Worker  == INSTANCE GatewayWorker
Mailbox == INSTANCE EventMailbox

ASSUME RelayAssumption ==
  /\ Core!CoreAssumption /\ Worker!WorkerAssumption
  /\ SlotValues = Core!Slots
  /\ MailboxCapacity \in Nat \ {0}
  /\ MaxClients + MaxSubscriptions <= MaxPhases

coreVars ==
  <<subscribed, subscription, subscribed_since, client_connected, client_since,
    in_phase, phase_start, served, listening, first_client_seen,
    ingress_retriggers, ingress_trigger_gave_up, exit_requested, messages_read,
    frames_delivered, drops, phases_started, phases_ended, phases_ended_by_layer,
    clients_accepted, clients_refused, clients_lost, ingress_triggers, phase_log>>
workerVars ==
  <<worker_pc, resume, batch, outbox, inbox, inbox_dropped, worker_stop_requested,
    client_created, has_client, client_lost, worker_subscribed,
    subscription_generation, subscriptions, client_generation, lib_client,
    lib_subscriptions, lib_destroyed, lib_in_flight, lib_clients, lib_messages,
    lib_other, fed, fed_lost>>
mailboxVars == <<queue, closed, mailbox_dropped, ready>>
socketVars  == <<client_open, peer_gone, backlog, connects>>
exitVars    == <<exit_code, worker_joined>>
mainVars    == <<main, taken, revents>>
vars == <<coreVars, workerVars, mailboxVars, socketVars, exitVars, mainVars,
          stop_signal>>

kExitGatewayClientLost == 4

Init ==
  /\ Core!Init
  /\ Worker!Init
  /\ Mailbox!Init
  /\ main = "start" /\ taken = <<>> /\ revents = {}
  /\ stop_signal = FALSE
  /\ client_open = FALSE /\ peer_gone = FALSE /\ backlog = "none" /\ connects = 0
  /\ exit_code = 0 /\ worker_joined = TRUE

Running == main # "exited"

-----------------------------------------------------------------------------
(* The environment of the process: the ingress and init.                   *)

IngressConnects ==
  /\ Running /\ backlog = "none" /\ connects < MaxClients
  /\ backlog' = "up"
  /\ connects' = connects + 1
  /\ UNCHANGED <<coreVars, workerVars, mailboxVars, client_open, peer_gone,
                 exitVars, mainVars, stop_signal>>

\* The ingress closes its connection, accepted or not.
IngressGoes ==
  /\ Running
  /\ \/ client_open /\ ~peer_gone /\ peer_gone' = TRUE /\ UNCHANGED backlog
     \/ backlog = "up" /\ backlog' = "gone" /\ UNCHANGED peer_gone
  /\ UNCHANGED <<coreVars, workerVars, mailboxVars, client_open, connects,
                 exitVars, mainVars, stop_signal>>

StopSignal ==
  /\ Running /\ ~stop_signal
  /\ stop_signal' = TRUE
  /\ UNCHANGED <<coreVars, workerVars, mailboxVars, socketVars, exitVars,
                 mainVars>>

-----------------------------------------------------------------------------
(* The worker thread and the threads of the library.                       *)

Started == main \notin {"start", "exited"}

\* The last turn of the worker wakes the main thread.
WorkerStep ==
  /\ Started
  /\ Worker!Turn \/ Worker!CallReturns
  /\ IF worker_pc' = "done" THEN Mailbox!Wake ELSE UNCHANGED mailboxVars
  /\ UNCHANGED <<coreVars, socketVars, exitVars, mainVars, stop_signal>>

WorkerPosts ==
  /\ Started
  /\ Worker!Post
  /\ Mailbox!Post(Head(outbox))
  /\ UNCHANGED <<coreVars, socketVars, exitVars, mainVars, stop_signal>>

LibraryStep ==
  /\ Started
  /\ Worker!LibraryStep \/ Worker!Arrival
  /\ UNCHANGED <<coreVars, mailboxVars, socketVars, exitVars, mainVars,
                 stop_signal>>

-----------------------------------------------------------------------------
(* The main thread: Run up to the loop, and one Turn.                      *)

\* Mutant: the core is not told that the server listens.
ListenUnannounced ==
  /\ main = "start"
  /\ main' = "turn"
  /\ UNCHANGED <<coreVars, workerVars, mailboxVars, socketVars, exitVars,
                 taken, revents, stop_signal>>

Listen ==
  /\ main = "start"
  /\ Core!OnListening
  /\ main' = "turn"
  /\ UNCHANGED <<workerVars, mailboxVars, socketVars, exitVars, taken, revents,
                 stop_signal>>

\* The sockets poll reports; the mailbox has its own place, "drain".
Readable ==
  (IF backlog # "none" THEN {"listen"} ELSE {})
    \cup (IF client_open /\ peer_gone THEN {"client"} ELSE {})

\* poll returns what is ready, at a deadline perhaps nothing.
Poll ==
  /\ main = "turn" /\ ~stop_signal /\ ~exit_requested
  /\ revents' = Readable
  /\ main' = IF ready THEN "drain" ELSE "accept"
  /\ UNCHANGED <<coreVars, workerVars, mailboxVars, socketVars, exitVars,
                 taken, stop_signal>>

\* DrainMailbox is called at three places; AfterEvents is where each goes on.
AfterEvents ==
  [handle |-> "accept", wait_handle |-> "wait", last_handle |-> "final"]
Handlers == DOMAIN AfterEvents

TakeEvents(handler) ==
  /\ taken' = queue
  /\ Mailbox!TakeAll
  /\ main' = IF queue = <<>> THEN AfterEvents[handler] ELSE handler
  /\ UNCHANGED <<coreVars, workerVars, socketVars, exitVars, revents,
                 stop_signal>>

Drain == main = "drain" /\ TakeEvents("handle")

-----------------------------------------------------------------------------
(* The main thread: one event of the worker.                               *)

CloseClient ==
  /\ client_open' = FALSE
  /\ peer_gone' = FALSE
  /\ UNCHANGED <<backlog, connects>>

\* Forward writes the slot; a stop signal ends a write that blocks.
ForwardSlot(slot) ==
  \/ Core!DropSlot(slot) /\ UNCHANGED socketVars
  \/ Core!ServeSlot(slot) /\ client_open /\ UNCHANGED socketVars
  \/ Core!WriteFailed(slot) /\ CloseClient
  \/ Core!WriteStopped(slot) /\ stop_signal /\ CloseClient

HandleEvent(event) ==
  \/ /\ event.kind = "subscribed"
     /\ \E at \in Times : Core!OnSubscribed(event.n, at)
     /\ UNCHANGED socketVars
  \/ /\ event.kind = "ended"
     /\ Core!OnSubscriptionEnded(event.n, event.end)
     /\ UNCHANGED socketVars
  \/ /\ event.kind = "lost"
     /\ Core!OnClientLost
     /\ UNCHANGED socketVars
  \/ /\ event.kind = "message"
     /\ ForwardSlot(event.slot)
  \/ /\ event.kind = "other"
     /\ UNCHANGED <<coreVars, socketVars>>

Handle ==
  /\ main \in Handlers
  /\ HandleEvent(Head(taken))
  /\ taken' = Tail(taken)
  /\ main' = IF taken' = <<>> THEN AfterEvents[main] ELSE main
  /\ UNCHANGED <<workerVars, mailboxVars, exitVars, revents, stop_signal>>

-----------------------------------------------------------------------------
(* The main thread: the socket and the tick.                               *)

\* A second client is refused while the core has one, and closed.
Accept ==
  /\ main = "accept"
  /\ main' = "read"
  /\ \/ /\ "listen" \in revents /\ backlog # "none"
        /\ \/ /\ \E at \in Times : Core!OnClientAccepted(at)
              /\ client_open' = TRUE
              /\ peer_gone' = (backlog = "gone")
           \/ Core!OnClientRefused /\ UNCHANGED <<client_open, peer_gone>>
        /\ backlog' = "none"
        /\ UNCHANGED connects
     \/ /\ "listen" \notin revents \/ backlog = "none"
        /\ UNCHANGED <<coreVars, socketVars>>
  /\ revents' = revents \ {"listen"}
  /\ UNCHANGED <<workerVars, mailboxVars, exitVars, taken, stop_signal>>

\* Mutant: what was polled is read, whether or not a write has closed it.
ReadPolledClient ==
  /\ main = "read"
  /\ main' = "tick"
  /\ IF "client" \in revents
     THEN /\ CloseClient
          /\ Core!LoseClient
          /\ UNCHANGED <<listening, first_client_seen, ingress_retriggers,
                         ingress_trigger_gave_up, ingress_triggers, messages_read,
                         frames_delivered, drops, exit_requested>>
     ELSE UNCHANGED <<coreVars, socketVars>>
  /\ revents' = {}
  /\ UNCHANGED <<workerVars, mailboxVars, exitVars, taken, stop_signal>>

\* The polled client, unless a failed write closed it since; a client that was
\* accepted since can have its descriptor.
ReadClient ==
  /\ main = "read"
  /\ main' = "tick"
  /\ \/ /\ "client" \in revents /\ client_open /\ peer_gone
        /\ CloseClient
        /\ Core!OnClientDisconnected
     \/ /\ ~("client" \in revents /\ client_open /\ peer_gone)
        /\ UNCHANGED <<coreVars, socketVars>>
  /\ revents' = {}
  /\ UNCHANGED <<workerVars, mailboxVars, exitVars, taken, stop_signal>>

Tick ==
  /\ main = "tick"
  /\ main' = "turn"
  /\ \E elapsed \in BOOLEAN : Core!OnTick(elapsed)
  /\ UNCHANGED <<workerVars, mailboxVars, socketVars, exitVars, taken, revents,
                 stop_signal>>

-----------------------------------------------------------------------------
(* The main thread: the stop.                                              *)

BeginStop ==
  /\ main = "turn"
  /\ stop_signal \/ exit_requested
  /\ Core!Stop
  /\ Worker!RequestStop
  /\ main' = "wait"
  /\ UNCHANGED <<mailboxVars, socketVars, exitVars, taken, revents,
                 stop_signal>>

\* worker_done_ is the last thing the worker sets.
worker_done == worker_pc = "done"

WaitForWorker ==
  /\ main = "wait" /\ ~worker_done
  /\ TakeEvents("wait_handle")

\* Mutant: the wait has no timeout.
WaitEndsWhenDone ==
  /\ main = "wait" /\ worker_done
  /\ exit_code' = IF exit_requested THEN kExitGatewayClientLost ELSE 0
  /\ main' = "join"
  /\ UNCHANGED <<coreVars, workerVars, mailboxVars, socketVars, worker_joined,
                 taken, revents, stop_signal>>

\* The wait ends, with the worker done or after stop_join_timeout_ns; the exit
\* code is read here.
WaitEnds ==
  /\ main = "wait"
  /\ exit_code' = IF exit_requested THEN kExitGatewayClientLost ELSE 0
  /\ main' = "join"
  /\ UNCHANGED <<coreVars, workerVars, mailboxVars, socketVars, worker_joined,
                 taken, revents, stop_signal>>

\* Mutant: a worker that is done is joined, and its last events are left.
JoinWithoutDrain ==
  /\ main = "join" /\ worker_done
  /\ main' = "final"
  /\ UNCHANGED <<coreVars, workerVars, mailboxVars, socketVars, exitVars,
                 taken, revents, stop_signal>>

Join ==
  /\ main = "join" /\ worker_done
  /\ TakeEvents("last_handle")

LeaveBehind ==
  /\ main = "join" /\ ~worker_done
  /\ Mailbox!Close
  /\ worker_joined' = FALSE
  /\ main' = "final"
  /\ UNCHANGED <<coreVars, workerVars, socketVars, exit_code, taken, revents,
                 stop_signal>>

Exit ==
  /\ main = "final"
  /\ main' = "exited"
  /\ client_open' = FALSE
  /\ UNCHANGED <<coreVars, workerVars, mailboxVars, peer_gone, backlog,
                 connects, exitVars, taken, revents, stop_signal>>

MainStep ==
  \/ Listen
  \/ Poll
  \/ Drain
  \/ Handle
  \/ Accept
  \/ ReadClient
  \/ Tick
  \/ BeginStop
  \/ WaitForWorker
  \/ WaitEnds
  \/ Join
  \/ LeaveBehind
  \/ Exit

Next ==
  \/ MainStep
  \/ WorkerStep
  \/ WorkerPosts
  \/ LibraryStep
  \/ IngressConnects
  \/ IngressGoes
  \/ StopSignal

Spec == Init /\ [][Next]_vars

\* The main thread runs and its waits end; the worker gets on with its posts.
\* A call of the library need not return.
FairSpec ==
  /\ Spec
  /\ WF_vars(MainStep)
  /\ SF_vars(WaitEnds)
  /\ WF_vars(WorkerPosts)

-----------------------------------------------------------------------------
(* Properties.                                                             *)

Events ==
  {Worker!Other, Worker!Lost}
    \cup {Worker!Subscribed(n) : n \in 1 .. MaxSubscriptions}
    \cup {Worker!Message(n, s) : n \in 1 .. MaxSubscriptions, s \in Core!Slots}
    \cup {Worker!Ended(n, e) : n \in 1 .. MaxSubscriptions, e \in Worker!Ends}

\* Every variable of the shell and the mailbox has its type, and the mailbox
\* never holds more than its capacity.
TypeOK ==
  /\ main \in Handlers \cup {"start", "turn", "drain", "accept", "read", "tick",
                            "wait", "join", "final", "exited"}
  /\ taken \in Seq(Events) /\ queue \in Seq(Events)
  /\ Len(queue) <= MailboxCapacity /\ Len(taken) <= MailboxCapacity
  /\ {closed, ready, stop_signal, client_open, peer_gone, worker_joined}
       \subseteq BOOLEAN
  /\ mailbox_dropped \in Nat
  /\ revents \subseteq {"listen", "client"}
  /\ backlog \in {"none", "up", "gone"}
  /\ connects \in 0 .. MaxClients
  /\ exit_code \in {0, kExitGatewayClientLost}

\* The main thread is never asleep on a full mailbox: when an event waits, the
\* byte that wakes it is in the pipe.
NoLostWakeup == queue # <<>> => ready

\* Once every event is handled, the core's view of the subscription is the
\* worker's, until the core stops: no event is lost, doubled or out of order.
CoreFollowsTheWorker ==
  main \notin Handlers /\ listening /\ outbox = <<>> /\ queue = <<>> =>
    /\ subscribed = worker_subscribed
    /\ subscribed => subscription = subscriptions

\* A frame that reaches the ingress was read in the subscription that the core
\* holds: the core itself does not compare the two.
ServedFromTheCurrentSubscription ==
  [][frames_delivered' > frames_delivered => Head(taken).n = subscription]_vars

\* A relay that joined its worker has seen all it did: no event is left or was
\* dropped, and neither a subscription nor a phase is still open.
JoinedExitIsClean ==
  main = "exited" /\ worker_joined =>
    /\ queue = <<>> /\ outbox = <<>> /\ mailbox_dropped = 0
    /\ ~subscribed /\ ~in_phase

\* What the core meets in the process is what RelayCore assumes of its
\* environment, so its theorems hold here.
ImplementsRelayCore == Core!Spec

\* The stop signal, or the loss of the gateway client, ends the process, also
\* while a gateway call is blocked or the mailbox is full.
StopOrLossEndsTheProcess == (stop_signal \/ client_lost) ~> main = "exited"

=============================================================================
