--------------------------- MODULE MCVehicleNodes ---------------------------
(* Small instances of two nodes of the vehicle: the AEBS coordinator and   *)
(* the two paths of the S-CORE adapter.  They share no state, so that a    *)
(* behaviour is one of one of them.                                        *)
EXTENDS AebsCoordinator, SpeedPath, FramePath

VARIABLE part \* what runs

MCInit ==
  /\ part \in {"coordinator", "speed", "frames"}
  /\ Init /\ SpeedInit /\ FrameInit

MCNext ==
  \/ part = "coordinator" /\ Next /\ UNCHANGED <<part, speedVars, frameVars>>
  \/ part = "speed" /\ SpeedNext /\ UNCHANGED <<part, vars, frameVars>>
  \/ part = "frames" /\ FrameNext /\ UNCHANGED <<part, vars, speedVars>>

(* The fairness of the part that runs.                                     *)
MCFairness ==
  /\ WF_speedVars(part = "speed" /\ MainGoesOn)
  /\ WF_speedVars(part = "speed" /\ OnSubscriptionStateChanged)

MCSpec == MCInit /\ [][MCNext]_<<part, vars, speedVars, frameVars>> /\ MCFairness

=============================================================================
