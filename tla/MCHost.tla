------------------------------- MODULE MCHost -------------------------------
(* Small instances of what runs on the viewer's host: the workflows that   *)
(* deploy to it, and the server of the viewer.  They share no state, so    *)
(* that a behaviour is one of one of them.                                 *)
EXTENDS Deployment, ViewerServer

VARIABLE part \* what runs

\* The third commit changes the governed model.
MCModel == <<"old model", "old model", "new model">>

\* The first run is of the first commit; the later ones are of any.
MCFirstCommitFirst == runs = 1 => run.rev \in {0, 1}

MCInit ==
  /\ part \in {"deployment", "server"}
  /\ Init /\ ViewerInit

MCNext ==
  \/ part = "deployment" /\ Next /\ UNCHANGED <<part, viewerVars>>
  \/ part = "server" /\ ViewerNext /\ UNCHANGED <<part, vars>>

(* The fairness of the part that runs.                                     *)
MCFairness ==
  /\ WF_vars(part = "deployment" /\ (ApiStep \/ AskStep \/ StepFails))
  /\ WF_vars(part = "deployment" /\ ViewerStep)
  /\ \A t \in Threads : SF_viewerVars(part = "server" /\ HandleStep(t))

MCSpec == MCInit /\ [][MCNext]_<<part, vars, viewerVars>> /\ MCFairness

=============================================================================
