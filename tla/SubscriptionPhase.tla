------------------------- MODULE SubscriptionPhase -------------------------
(***************************************************************************)
(* What the IVI frame relay promises the HMI application                   *)
(* (relaySubscriptionPhaseDiscardRule, discard_policy.hpp): frames reach   *)
(* it only while it counts as subscribed; none of them was produced before *)
(* the phase, up to the clock margin; and no copy of one of the            *)
(* CopyMemoryFrames frames served last is served again.                    *)
(*                                                                         *)
(* The module says nothing of threads, subscriptions, sockets or memory:   *)
(* RelayCore implements it.                                                *)
(***************************************************************************)
EXTENDS Naturals, Sequences

CONSTANTS
  Frames,             \* the frames a source can send: [sequence, ts]
  Times,              \* the readings of CLOCK_REALTIME
  Margin,             \* the bound on the offset of the two clocks
  CopyMemoryFrames    \* how many served frames a copy is compared with

VARIABLES
  open,               \* the HMI application counts as subscribed
  start,              \* when the phase began
  log                 \* the frames served in the phase, in order

pvars == <<open, start, log>>

Positive(f) == f.sequence > 0 /\ f.ts > 0

\* Not produced before the phase, as far as the two clocks can tell.
NotBefore(f, t) == f.ts + Margin >= t

\* f is none of the frames served last.
NotServedLately(f) ==
  \A i \in DOMAIN log : i + CopyMemoryFrames > Len(log) => log[i] # f

Init == ~open /\ start = 0 /\ log = <<>>

Begin(t) ==
  /\ ~open
  /\ open' = TRUE
  /\ start' = t
  /\ log' = <<>>

Serve(f) ==
  /\ open
  /\ Positive(f)
  /\ NotBefore(f, start)
  /\ NotServedLately(f)
  /\ log' = Append(log, f)
  /\ UNCHANGED <<open, start>>

End ==
  /\ open
  /\ open' = FALSE
  /\ log' = <<>>
  /\ UNCHANGED start

Next ==
  \/ \E t \in Times : Begin(t)
  \/ \E f \in Frames : Serve(f)
  \/ End

Spec == Init /\ [][Next]_pvars

=============================================================================
