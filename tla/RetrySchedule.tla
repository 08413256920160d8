--------------------------- MODULE RetrySchedule ---------------------------
(***************************************************************************)
(* When the gateway worker of the IVI frame relay tries again              *)
(* (retry_schedule.cpp), with the attempts, reads and ends of the worker   *)
(* that ask it (gateway_worker.cpp), on a clock.                           *)
(*                                                                         *)
(* GatewayWorker leaves time out and this module leaves out what it keeps: *)
(* notifications in flight, posts, and the loss of the client, after which *)
(* nothing is scheduled.  Time passes at any place: in a call, between a   *)
(* deadline and the turn that acts on it, while a post waits.              *)
(***************************************************************************)
EXTENDS Naturals, Sequences

CONSTANTS
  DestroyedRetryPeriod, DestroyedFastWindow, RetryPeriod, SilenceTimeout,
  SilentSubscriptionsBeforeBackOff, SilentBackOff, StartDiagnostic,
  SlowRetryPeriod, ClientFastRetryWindow,
  MaxTime,            \* bound: the last reading of the clock
  MaxSucceeded        \* bound: subscriptions that succeed

\* The order of the periods is that of their values (retry_schedule.hpp).
ASSUME ScheduleAssumption ==
  /\ DestroyedRetryPeriod \in Nat /\ DestroyedFastWindow \in Nat
  /\ RetryPeriod \in Nat /\ SilenceTimeout \in Nat
  /\ SilentSubscriptionsBeforeBackOff \in Nat /\ SilentBackOff \in Nat
  /\ StartDiagnostic \in Nat /\ SlowRetryPeriod \in Nat
  /\ ClientFastRetryWindow \in Nat
  /\ MaxTime \in Nat /\ MaxSucceeded \in Nat
  /\ DestroyedRetryPeriod <= RetryPeriod
  /\ RetryPeriod <= SilentBackOff
  /\ SilentBackOff <= SlowRetryPeriod

VARIABLES
  now,                          \* CLOCK_MONOTONIC since the start
  mode,
  attempt_start,                \* of the attempt in progress or the last one
  next_client_attempt, next_subscribe_attempt,
  ever_subscribed, ended, last_end, last_end_at, consecutive_silent,
  messages,                     \* whether the subscription brought one
  last_message, succeeded,
  failing,                      \* history: the last attempt to subscribe failed
  brought                       \* history: messages of the subscriptions so far

attemptVars  == <<attempt_start, next_client_attempt, next_subscribe_attempt>>
scheduleVars == <<ever_subscribed, ended, last_end, last_end_at,
                  consecutive_silent>>
retrySubVars      == <<messages, last_message, succeeded>>
historyVars  == <<failing, brought>>
retryVars == <<now, mode, attemptVars, scheduleVars, retrySubVars, historyVars>>

ScheduleInit ==
  /\ now = 0 /\ mode = "no_client" /\ attempt_start = 0
  /\ next_client_attempt = 0 /\ next_subscribe_attempt = 0
  /\ ever_subscribed = FALSE /\ ended = FALSE
  /\ last_end = "relay_stop" /\ last_end_at = 0 /\ consecutive_silent = 0
  /\ messages = FALSE /\ last_message = 0 /\ succeeded = 0
  /\ failing = FALSE /\ brought = <<>>

-----------------------------------------------------------------------------
(* The schedule.                                                           *)

LaterTime(s, t) == IF s >= t THEN s ELSE t

BackingOff ==
  /\ ended /\ last_end = "silence_timeout"
  /\ consecutive_silent >= SilentSubscriptionsBeforeBackOff

JustDestroyed(at) ==
  /\ ended /\ last_end = "publication_destroyed"
  /\ at < last_end_at + DestroyedFastWindow

SubscribePeriod(at) ==
  IF ~ever_subscribed
    THEN IF at < StartDiagnostic THEN RetryPeriod ELSE SlowRetryPeriod
  ELSE IF JustDestroyed(at) THEN DestroyedRetryPeriod
  ELSE IF BackingOff THEN SilentBackOff ELSE RetryPeriod

FirstAttempt(at) == IF BackingOff THEN at + SilentBackOff ELSE at

NextAttempt(at) == LaterTime(at + SubscribePeriod(at), now)

NextClientAttempt(at) ==
  LaterTime(at + (IF at < ClientFastRetryWindow THEN RetryPeriod
                                              ELSE SlowRetryPeriod), now)

\* Mutant: an end by the publication does not count as a subscription.
CountSilenceOnly(end) ==
  IF end = "silence_timeout" /\ ~messages THEN consecutive_silent + 1 ELSE 0

CountSilent(end) == IF messages THEN 0 ELSE consecutive_silent + 1

OnEnded(end) ==
  /\ ended' = TRUE
  /\ last_end' = end
  /\ last_end_at' = now
  /\ consecutive_silent' = CountSilent(end)
  /\ UNCHANGED ever_subscribed

-----------------------------------------------------------------------------
(* The worker.                                                             *)

TimePasses ==
  /\ now < MaxTime
  /\ now' = now + 1
  /\ UNCHANGED <<mode, attemptVars, scheduleVars, retrySubVars, historyVars>>

BeginClientNew ==
  /\ mode = "no_client" /\ now >= next_client_attempt
  /\ mode' = "client_new"
  /\ attempt_start' = now
  /\ UNCHANGED <<now, next_client_attempt, next_subscribe_attempt,
                 scheduleVars, retrySubVars, historyVars>>

ClientNewFails ==
  /\ mode = "client_new"
  /\ mode' = "no_client"
  /\ next_client_attempt' = NextClientAttempt(attempt_start)
  /\ UNCHANGED <<now, attempt_start, next_subscribe_attempt, scheduleVars,
                 retrySubVars, historyVars>>

\* Client_new and then initComms succeed.
InitCommsReturns ==
  /\ mode = "client_new"
  /\ mode' = "unsubscribed"
  /\ next_subscribe_attempt' = LaterTime(next_subscribe_attempt, FirstAttempt(now))
  /\ UNCHANGED <<now, attempt_start, next_client_attempt, scheduleVars,
                 retrySubVars, historyVars>>

BeginSubscribe ==
  /\ mode = "unsubscribed" /\ now >= next_subscribe_attempt
  /\ mode' = "subscribe"
  /\ attempt_start' = now
  /\ UNCHANGED <<now, next_client_attempt, next_subscribe_attempt,
                 scheduleVars, retrySubVars, historyVars>>

SubscribeReturns ==
  /\ mode = "subscribe" /\ succeeded < MaxSucceeded
  /\ mode' = "subscribed"
  /\ succeeded' = succeeded + 1
  /\ messages' = FALSE
  /\ last_message' = now
  /\ ever_subscribed' = TRUE
  /\ failing' = FALSE
  /\ UNCHANGED <<now, attemptVars, ended, last_end, last_end_at,
                 consecutive_silent, brought>>

\* Failed, or refused for its message size and unsubscribed again.
SubscribeFails ==
  /\ mode = "subscribe"
  /\ mode' = "unsubscribed"
  /\ next_subscribe_attempt' = NextAttempt(attempt_start)
  /\ failing' = TRUE
  /\ UNCHANGED <<now, attempt_start, next_client_attempt, scheduleVars,
                 retrySubVars, brought>>

\* A read brought messages, or a DATA_LOSS, which is only a sign of life.
SignOfLife ==
  /\ mode = "subscribed"
  /\ last_message' = now
  /\ messages' \in {messages, TRUE}
  /\ UNCHANGED <<now, mode, attemptVars, scheduleVars, succeeded,
                 historyVars>>

EndSubscription(end) ==
  /\ mode = "subscribed"
  /\ mode' = "unsubscribed"
  /\ OnEnded(end)
  /\ UNCHANGED now
  /\ next_subscribe_attempt' = FirstAttempt(now)'
  /\ brought' = Append(brought, messages)
  /\ UNCHANGED <<attempt_start, next_client_attempt, retrySubVars, failing>>

PublicationDestroyed == EndSubscription("publication_destroyed")

Silent ==
  /\ now >= last_message + SilenceTimeout
  /\ EndSubscription("silence_timeout")

ScheduleNext ==
  \/ TimePasses
  \/ BeginClientNew
  \/ ClientNewFails
  \/ InitCommsReturns
  \/ BeginSubscribe
  \/ SubscribeReturns
  \/ SubscribeFails
  \/ SignOfLife
  \/ PublicationDestroyed
  \/ Silent

ScheduleSpec == ScheduleInit /\ [][ScheduleNext]_retryVars

-----------------------------------------------------------------------------
(* Properties.                                                             *)

RetryFlagTypes ==
  /\ mode \in {"no_client", "client_new", "unsubscribed", "subscribe",
               "subscribed"}
  /\ last_end \in {"publication_destroyed", "silence_timeout", "relay_stop"}
  /\ ever_subscribed \in BOOLEAN /\ ended \in BOOLEAN
  /\ messages \in BOOLEAN /\ failing \in BOOLEAN

RetryNumberTypes ==
  /\ now \in Nat
  /\ attempt_start \in Nat /\ attempt_start <= now
  /\ next_client_attempt \in Nat /\ next_subscribe_attempt \in Nat
  /\ last_end_at \in Nat /\ last_end_at <= now
  /\ last_message \in Nat /\ last_message <= now
  /\ consecutive_silent \in Nat /\ succeeded \in Nat

\* Every variable has its type; no attempt, end or message is in the future.
ScheduleTypeOK == RetryFlagTypes /\ RetryNumberTypes /\ brought \in Seq(BOOLEAN)

\* The relay never gives up and no wait is longer than its rule: 10 s for a
\* client or before a first subscription (1 s in the first 30 s), and 5 s after
\* one, however late attempts and calls were.
WaitsAreBounded ==
  /\ mode = "no_client" => next_client_attempt <= now + SlowRetryPeriod
  /\ mode = "unsubscribed" =>
       /\ next_subscribe_attempt <= now + SlowRetryPeriod
       /\ now < StartDiagnostic /\ ~ever_subscribed =>
            next_subscribe_attempt <= now + RetryPeriod
       /\ ever_subscribed => next_subscribe_attempt <= now + SilentBackOff

\* After a PublicationDestroyed the relay looks for the publication again every
\* 100 ms for 5 s, also after silent subscriptions in a row.
DestroyedIsRetriedFast ==
  mode = "unsubscribed" /\ JustDestroyed(now) =>
    next_subscribe_attempt <= now + DestroyedRetryPeriod

LastBroughtNothing ==
  /\ Len(brought) >= SilentSubscriptionsBeforeBackOff
  /\ \A i \in DOMAIN brought :
       i + SilentSubscriptionsBeforeBackOff > Len(brought) => ~brought[i]

\* After three subscriptions in a row that brought no message, the last ended
\* by the timeout, no attempt comes before 5 s from that end, nor from the
\* attempt before, if that one failed.
SilentSubscriptionsBackOff ==
  [][mode = "unsubscribed" /\ mode' = "subscribe"
     /\ LastBroughtNothing /\ last_end = "silence_timeout" =>
       /\ now >= last_end_at + SilentBackOff
       /\ failing => now >= attempt_start + SilentBackOff]_retryVars

=============================================================================
