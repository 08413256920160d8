--------------------------- MODULE AebsLifecycle ---------------------------
(***************************************************************************)
(* What the AEBS coordinator promises of its state, as the observers and   *)
(* the display see it: one intervention, and a warning that only ends when *)
(* the intervention does.                                                  *)
(***************************************************************************)
VARIABLES
    lifecycle, \* InterventionLatch.state
    warning    \* the warning request

lifecycleVars == <<lifecycle, warning>>

Lifecycles == {"armed", "braking_latched", "released_verified_stop"}

LifecycleInit == lifecycle = "armed" /\ warning = FALSE

Warn ==
    /\ lifecycle = "armed" /\ ~warning
    /\ warning' = TRUE
    /\ UNCHANGED lifecycle

(* A risk that is there when braking begins is warned of.                  *)
Brake ==
    /\ lifecycle = "armed"
    /\ lifecycle' = "braking_latched"
    /\ warning' \in {warning, TRUE}

Release ==
    /\ lifecycle = "braking_latched"
    /\ lifecycle' = "released_verified_stop"
    /\ warning' = FALSE

LifecycleNext == Warn \/ Brake \/ Release

LifecycleSpec == LifecycleInit /\ [][LifecycleNext]_lifecycleVars
=============================================================================
