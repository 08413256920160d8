------------------------- MODULE GatewayCallMonitor -------------------------
(***************************************************************************)
(* The gateway call in progress (GatewayCallMonitor of gateway_worker.cpp),*)
(* written by the worker and read by the main thread in each tick          *)
(* (RelayCore::CheckGatewayCalls).  Each operation holds the mutex and is  *)
(* one action; a tick is two of them.                                      *)
(*                                                                         *)
(* Time is left out: the main thread may be late for its tick by any time  *)
(* (it writes the frames of a whole mailbox between two), so a call can    *)
(* have run for the threshold at any tick.                                 *)
(***************************************************************************)
EXTENDS Naturals

CONSTANT MaxCalls     \* bound: calls

ASSUME MonitorAssumption == MaxCalls \in Nat

NoCall == 0

VARIABLES
  in_call, number,
  current_stalled,
  returned,           \* the number of the call in returned_, or NoCall
  checking,           \* the main thread is between the two reads of a tick
  stalls, returns     \* history: the calls reported as stalled, as returned

monitorVars == <<in_call, number, current_stalled, returned, checking, stalls, returns>>

MonitorInit ==
  /\ in_call = FALSE /\ number = 0 /\ current_stalled = FALSE
  /\ returned = NoCall /\ checking = FALSE
  /\ stalls = {} /\ returns = {}

-----------------------------------------------------------------------------
(* The worker.                                                             *)

Begin ==
  /\ ~in_call /\ number < MaxCalls
  /\ in_call' = TRUE
  /\ number' = number + 1
  /\ current_stalled' = FALSE
  /\ UNCHANGED <<returned, checking, stalls, returns>>

\* Mutant: any call that ends is kept for a report.
EndAlwaysReturned ==
  /\ in_call
  /\ in_call' = FALSE
  /\ returned' = number
  /\ current_stalled' = FALSE
  /\ UNCHANGED <<number, checking, stalls, returns>>

End ==
  /\ in_call
  /\ in_call' = FALSE
  /\ returned' = IF current_stalled THEN number ELSE returned
  /\ current_stalled' = FALSE
  /\ UNCHANGED <<number, checking, stalls, returns>>

-----------------------------------------------------------------------------
(* The main thread: one tick.                                              *)

\* long: the call has run for the threshold.
TakeNewStall(long) ==
  /\ ~checking
  /\ checking' = TRUE
  /\ \/ /\ in_call /\ ~current_stalled /\ long
        /\ current_stalled' = TRUE
        /\ stalls' = stalls \cup {number}
     \/ /\ ~(in_call /\ ~current_stalled /\ long)
        /\ UNCHANGED <<current_stalled, stalls>>
  /\ UNCHANGED <<in_call, number, returned, returns>>

TakeReturnedStall ==
  /\ checking
  /\ checking' = FALSE
  /\ returns' = returns \cup ({returned} \ {NoCall})
  /\ returned' = NoCall
  /\ UNCHANGED <<in_call, number, current_stalled, stalls>>

MonitorNext ==
  \/ Begin
  \/ End
  \/ \E long \in BOOLEAN : TakeNewStall(long)
  \/ TakeReturnedStall

MonitorSpec == MonitorInit /\ [][MonitorNext]_monitorVars

-----------------------------------------------------------------------------
(* Properties.                                                             *)

Ended(n) == n < number \/ (n = number /\ ~in_call)

CallFlagTypes ==
  /\ in_call \in BOOLEAN
  /\ current_stalled \in BOOLEAN
  /\ checking \in BOOLEAN

CallNumberTypes ==
  /\ number \in 0 .. MaxCalls
  /\ stalls \subseteq 1 .. number
  /\ returns \subseteq 1 .. number
  /\ returned \in stalls \cup {NoCall}

\* Every variable has its type; the slot holds a call that was reported.
MonitorTypeOK == CallFlagTypes /\ CallNumberTypes

\* A return is reported only of a call that was reported as stalled and that
\* has ended, also when the next call runs by then.
ReturnsAreOfStalls == \A n \in returns : n \in stalls /\ Ended(n)

\* A stall is reported once: the mark belongs to the call in progress and is
\* never left over from the call before it, nor taken back while it runs.
MarkIsOfTheCall ==
  current_stalled <=> in_call /\ number \in stalls

\* A return that was reported stays reported and is not reported again.
ReturnReportedOnce ==
  [][checking /\ ~checking' => returned \notin returns]_monitorVars

\* Only the stall of a later call can push out the return of an earlier one.
ReturnsAreLostOnlyToLaterStalls ==
  \A n \in stalls : Ended(n) =>
    \/ n \in returns \cup {returned}
    \/ \E later \in stalls : n < later /\ Ended(later)

=============================================================================
