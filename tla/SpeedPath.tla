----------------------------- MODULE SpeedPath -----------------------------
(***************************************************************************)
(* The speed path of the S-CORE adapter: the main thread finds the speed   *)
(* provider, subscribes, reads and publishes until it is told to stop; the *)
(* binding's thread moves the state of the subscription and tells the      *)
(* adapter of it a moment later.                                           *)
(*                                                                         *)
(* A sample is its place in the order in which the provider sent them.  A  *)
(* new subscription returns samples sent before it, some of which may have *)
(* been published already.                                                 *)
(***************************************************************************)
EXTENDS Integers, Sequences

CONSTANTS
    MaxSamples,      \* kSpeedMaxSamples: the most samples of one read
    MaxReadsPerCall, \* kMaxReadsPerCall: the most reads of one round
    Withheld,        \* the samples whose value is no float
    MaxSent,         \* bound: samples
    MaxLeaves        \* bound: times a subscription is left

ASSUME SpeedAssumption ==
    /\ MaxSamples \in Nat \ {0} /\ MaxReadsPerCall \in Nat \ {0}
    /\ Withheld \subseteq Nat
    /\ MaxSent \in Nat /\ MaxLeaves \in Nat

VARIABLES
    sent,       \* the samples the provider has sent: 1 .. sent
    taken,      \* the subscription returns what was sent after this one
    entered,    \* the samples sent when kSubscribed was last entered
    state,      \* the subscription's state, as State() gives it
    calling,    \* the state is stored, its handler has not run yet
    given,      \* Unsubscribe() was called
    leaves,     \* times the subscription was left
    epoch,      \* leave_epoch_
    main,       \* where the main thread is
    proxy,      \* the proxy: none, created, destroyed
    before,     \* epoch_before
    lo, hi,     \* buffer_: the samples after lo, up to hi
    since,      \* history: entered, when the buffer was read
    more,       \* more_may_wait
    reads,      \* the reads of this round
    discarded,  \* discarded_epoch_
    published,  \* history: the samples published, each with its since
    stopping,   \* g_stop_requested
    code        \* exit_status, and the code the process ended with

binding == <<sent, taken, entered, state, calling, leaves, epoch>>
round == <<before, lo, hi, since, more, reads, discarded, published>>
speedVars == <<sent, taken, entered, state, calling, given, leaves, epoch, main, proxy, before,
               lo, hi, since, more, reads, discarded, published, stopping, code>>

kSpeedSubscribeFailed == 5
kStillSubscribed == 3

SpeedInit ==
    /\ sent = 0
    /\ taken = 0 /\ entered = 0
    /\ state = "not subscribed" /\ calling = FALSE /\ given = FALSE /\ leaves = 0
    /\ epoch = 1 /\ discarded = 0
    /\ main = "loop" /\ proxy = "none"
    /\ before = 0 /\ lo = 0 /\ hi = 0 /\ since = 0 /\ more = FALSE /\ reads = 0
    /\ published = <<>>
    /\ stopping = FALSE /\ code = 0

-----------------------------------------------------------------------------
(* The provider, and the binding's thread.                                 *)

Send ==
    /\ sent < MaxSent
    /\ sent' = sent + 1
    /\ UNCHANGED <<taken, entered, state, calling, given, leaves, epoch, main, proxy, round,
                   stopping, code>>

(* The subscription begins; how much of what was sent is still stored is   *)
(* the provider's memory.                                                  *)
EnterSubscribed ==
    /\ state' = "subscribed"
    /\ entered' = sent
    /\ taken' \in 0 .. sent

(* The binding stores the new state, then calls the handler, and does not  *)
(* store another before the handler is done.                               *)
Enter ==
    /\ state = "pending" /\ ~calling /\ ~given
    /\ EnterSubscribed
    /\ calling' = TRUE
    /\ UNCHANGED <<sent, given, leaves, epoch, main, proxy, round, stopping, code>>

Leave ==
    /\ state = "subscribed" /\ ~calling
    /\ leaves < MaxLeaves
    /\ leaves' = leaves + 1
    /\ state' = "pending"
    /\ calling' = TRUE
    /\ UNCHANGED <<sent, taken, entered, given, epoch, main, proxy, round, stopping, code>>

(* Unsubscribe() takes effect, sooner or later or never.                   *)
Withdraw ==
    /\ given /\ state # "not subscribed" /\ ~calling
    /\ state' = "not subscribed"
    /\ calling' = TRUE
    /\ UNCHANGED <<sent, taken, entered, given, leaves, epoch, main, proxy, round, stopping, code>>

\* Mutant: an epoch is opened by the entry into a subscription.
NewEpoch == IF state = "subscribed" THEN epoch + 1 ELSE epoch

LeaveEpoch == IF state # "subscribed" THEN epoch + 1 ELSE epoch

OnSubscriptionStateChanged ==
    /\ calling
    /\ calling' = FALSE
    /\ epoch' = LeaveEpoch
    /\ UNCHANGED <<sent, taken, entered, state, given, leaves, main, proxy, round, stopping, code>>

Binding == Enter \/ Leave \/ Withdraw \/ OnSubscriptionStateChanged

-----------------------------------------------------------------------------
(* The main thread: find, subscribe, read.                                 *)

At(from, to) == main = from /\ main' = to

StopSignal ==
    /\ ~stopping
    /\ main # "ended"
    /\ stopping' = TRUE
    /\ UNCHANGED <<binding, given, main, proxy, round, code>>

(* The provider is found and mw::com accepts: the subscription waits for   *)
(* the provider, or has begun.                                             *)
Subscribe ==
    /\ ~stopping /\ proxy = "none"
    /\ At("loop", "load epoch")
    /\ proxy' = "created"
    /\ \/ state' = "pending" /\ UNCHANGED <<taken, entered>>
       \/ EnterSubscribed
    /\ calling' = TRUE
    /\ reads' = 0
    /\ UNCHANGED <<sent, given, leaves, epoch, before, lo, hi, since, more, discarded,
                   published, stopping, code>>

(* mw::com refuses a handler or the subscription.                          *)
SubscribeRefused ==
    /\ ~stopping /\ proxy = "none"
    /\ At("loop", "shut down")
    /\ proxy' = "created"
    /\ code' = kSpeedSubscribeFailed
    /\ UNCHANGED <<binding, given, round, stopping>>

BeginRound ==
    /\ ~stopping /\ proxy = "created"
    /\ At("loop", "load epoch")
    /\ reads' = 0
    /\ UNCHANGED <<binding, given, proxy, before, lo, hi, since, more, discarded, published,
                   stopping, code>>

LoadEpoch ==
    /\ At("load epoch", "check state")
    /\ before' = epoch
    /\ UNCHANGED <<binding, given, proxy, lo, hi, since, more, reads, discarded, published,
                   stopping, code>>

CheckState ==
    /\ At("check state", IF state = "subscribed" THEN "read" ELSE "loop")
    /\ UNCHANGED <<binding, given, proxy, round, stopping, code>>

(* At most MaxSamples samples, the newest or the oldest of the new ones;   *)
(* rule 1 does not depend on which.                                        *)
ReadNewSamples ==
    /\ At("read", "check again")
    /\ \/ hi' = sent /\ lo' = IF sent - taken > MaxSamples THEN sent - MaxSamples ELSE taken
       \/ lo' = taken /\ hi' = IF sent - taken > MaxSamples THEN taken + MaxSamples ELSE sent
    /\ taken' = hi'
    /\ since' = entered
    /\ UNCHANGED <<sent, entered, state, calling, leaves, epoch, given, proxy, before, more, reads,
                   discarded, published, stopping, code>>

ReadFails ==
    /\ At("read", "loop")
    /\ UNCHANGED <<binding, given, proxy, round, stopping, code>>

CheckAgain ==
    /\ At("check again", IF state = "subscribed" THEN "load again" ELSE "loop")
    /\ UNCHANGED <<binding, given, proxy, round, stopping, code>>

(* A full read is followed by another, up to the bound of a round.         *)
NextRead(full) ==
    IF full /\ reads + 1 < MaxReadsPerCall
    THEN main' = "load epoch" /\ reads' = reads + 1
    ELSE main' = "loop" /\ reads' = reads

Full == hi - lo >= MaxSamples

\* Mutant: the first read is the whole discard.
DiscardOnce == TRUE

DiscardEnds == ~Full

\* Mutant: only the state is looked at again.
StateOnly == TRUE

Stable == epoch = before

(* The read spanned a leave: its samples are dropped.                      *)
DropUnstable ==
    /\ main = "load again"
    /\ ~Stable
    /\ main' = "loop"
    /\ UNCHANGED <<binding, given, proxy, round, stopping, code>>

Discard ==
    /\ main = "load again"
    /\ Stable /\ discarded # before
    /\ discarded' = IF DiscardEnds THEN before ELSE discarded
    /\ NextRead(Full)
    /\ UNCHANGED <<binding, given, proxy, before, lo, hi, since, more, published, stopping, code>>

Accept ==
    /\ Stable /\ discarded = before
    /\ At("load again", "publish")
    /\ more' = Full
    /\ UNCHANGED <<binding, given, proxy, before, lo, hi, since, reads, discarded, published,
                   stopping, code>>

PublishOrWithhold ==
    /\ main = "publish" /\ lo < hi
    /\ lo' = lo + 1
    /\ published' = IF lo + 1 \in Withheld THEN published
                    ELSE Append(published, [sample |-> lo + 1, since |-> since])
    /\ UNCHANGED <<binding, given, main, proxy, before, hi, since, more, reads, discarded,
                   stopping, code>>

EndRead ==
    /\ main = "publish" /\ lo = hi
    /\ NextRead(more)
    /\ UNCHANGED <<binding, given, proxy, before, lo, hi, since, more, discarded, published,
                   stopping, code>>

-----------------------------------------------------------------------------
(* The main thread: rule 2.                                                *)

Stop ==
    /\ stopping
    /\ At("loop", "shut down")
    /\ UNCHANGED <<binding, given, proxy, round, stopping, code>>

Unsubscribe ==
    /\ main = "shut down"
    /\ IF proxy = "none" THEN main' = "end" /\ given' = given
       ELSE main' = "wait" /\ given' = TRUE
    /\ UNCHANGED <<binding, proxy, round, stopping, code>>

\* Mutant: the proxy goes without waiting for the subscription.
GoneAtOnce == TRUE

Gone == state = "not subscribed"

(* UnsetStateHandler waits for a handler that runs.                        *)
DestroyProxy ==
    /\ At("wait", "end")
    /\ Gone /\ ~calling
    /\ proxy' = "destroyed"
    /\ UNCHANGED <<binding, given, round, stopping, code>>

\* Mutant: the wait has no deadline.
WaitOn == FALSE /\ UNCHANGED speedVars

(* The deadline passes: the process ends as it is, without destructors.    *)
StillSubscribed ==
    /\ At("wait", "ended")
    /\ state # "not subscribed"
    /\ code' = kStillSubscribed
    /\ UNCHANGED <<binding, given, proxy, round, stopping>>

(* The frame path is stopped and joined, then main returns.                *)
EndProcess ==
    /\ At("end", "ended")
    /\ UNCHANGED <<binding, given, proxy, round, stopping, code>>

Main == Subscribe \/ SubscribeRefused \/ BeginRound \/ LoadEpoch \/ CheckState \/ ReadNewSamples
        \/ ReadFails \/ CheckAgain \/ DropUnstable \/ Discard \/ Accept \/ PublishOrWithhold
        \/ EndRead \/ Stop \/ Unsubscribe \/ DestroyProxy \/ StillSubscribed \/ EndProcess

Outside == Send \/ Binding \/ StopSignal

SpeedNext == (main # "ended" /\ Outside) \/ Main

SpeedSpec == SpeedInit /\ [][SpeedNext]_speedVars

(* What goes on by itself: a provider need not be found, but the wait of a *)
(* round ends; and a handler that was called returns.                      *)
MainGoesOn == Main /\ (stopping \/ proxy # "none")

-----------------------------------------------------------------------------
(* Properties.                                                             *)

Places == {"loop", "load epoch", "check state", "read", "check again", "load again", "publish",
           "shut down", "wait", "end", "ended"}
Published == [sample : Nat, since : Nat]

Counted ==
    /\ sent \in Nat /\ taken \in Nat /\ entered \in Nat /\ epoch \in Nat /\ before \in Nat
    /\ lo \in Nat /\ hi \in Nat /\ since \in Nat /\ discarded \in Nat
    /\ taken <= sent /\ entered <= sent /\ hi <= sent /\ lo <= hi
    /\ before <= epoch /\ discarded <= epoch

Shaped ==
    /\ state \in {"not subscribed", "pending", "subscribed"}
    /\ calling \in BOOLEAN /\ given \in BOOLEAN /\ more \in BOOLEAN /\ stopping \in BOOLEAN
    /\ main \in Places /\ proxy \in {"none", "created", "destroyed"}
    /\ code \in {0, kSpeedSubscribeFailed, kStillSubscribed}

SpeedTypeOK == Counted /\ Shaped /\ published \in Seq(Published)

(* Rule 1: a sample that was sent before the subscription in which it was  *)
(* read is not published, however the binding's steps fall between those   *)
(* of the read; and none is published twice or after a later one.          *)
NewSamplesOnce ==
    /\ \A i \in DOMAIN published : published[i].sample > published[i].since
    /\ \A i, j \in DOMAIN published : i < j => published[i].sample < published[j].sample

(* Rule 2: the proxy is destroyed only when the subscription is gone and   *)
(* no handler runs; the process says with its code when it could not be.   *)
SubscribedProxyIsKept ==
    /\ proxy = "destroyed" => state = "not subscribed" /\ ~calling
    /\ main = "ended" => (code = kStillSubscribed <=> proxy = "created")

(* A stop, or a subscription that is refused, ends the process, even when  *)
(* Unsubscribe() never takes effect.                                       *)
AdapterEnds == (stopping \/ code = kSpeedSubscribeFailed) ~> main = "ended"
=============================================================================
