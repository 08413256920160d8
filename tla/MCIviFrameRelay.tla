-------------------------- MODULE MCIviFrameRelay --------------------------
(* Small instances of the IVI frame relay.                                 *)
EXTENDS IviFrameRelay

MCOneSeqNumber == {1}
MCOneTime == {1}
MCSlots == [sequence : MCOneSeqNumber, ts : MCOneTime] \cup {Malformed}

\* A relay that runs on: no stop, and neither the gateway client nor the
\* ingress is lost.  (The writes to the ingress may fail.)
MCRunsOn ==
  /\ ~stop_signal
  /\ ~client_lost /\ lib_client # "down"
  /\ ~peer_gone /\ backlog # "gone"

\* Everything happens around the first subscription; a second one follows it
\* in a relay that runs on.
MCSecondRunsOn == subscription_generation > 1 => MCRunsOn

\* A second ingress connects in a relay that goes on, and in its first
\* subscription.
MCSecondClientRunsOn ==
  connects > 1 =>
    /\ ~stop_signal /\ ~client_lost /\ lib_client # "down"
    /\ subscription_generation <= 1

=============================================================================
