---------------------------- MODULE MCRelayCore ----------------------------
(* Small instances of three parts of the relay: its core, the monitor of   *)
(* the worker's calls and the schedule of its attempts.  They share no     *)
(* state, so that a behaviour is one of one of them.                       *)
EXTENDS RelayCore, GatewayCallMonitor, RetrySchedule

VARIABLE part \* what runs

\* 0 is no positive timestamp; 1 is older than a phase that starts at 3.
MCTimes == {0, 1, 3}

MCTwoSeqNumbers == {1, 2}

MCInit ==
  /\ part \in {"core", "calls", "attempts"}
  /\ Init /\ MonitorInit /\ ScheduleInit

MCNext ==
  \/ part = "core" /\ Next /\ UNCHANGED <<part, monitorVars, retryVars>>
  \/ part = "calls" /\ MonitorNext /\ UNCHANGED <<part, coreVars, retryVars>>
  \/ part = "attempts" /\ ScheduleNext /\ UNCHANGED <<part, coreVars, monitorVars>>

MCSpec == MCInit /\ [][MCNext]_<<part, coreVars, monitorVars, retryVars>>

\* Either one phase of many frames, or two phases of few.
MCShortOrSimple ==
  \/ /\ subscription <= 1 /\ phases_started <= 1
     /\ clients_accepted <= 1 /\ ingress_retriggers = 0
  \/ messages_read <= 1

=============================================================================
