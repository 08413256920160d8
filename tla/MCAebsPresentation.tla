------------------------- MODULE MCAebsPresentation -------------------------
(* The display chain with a restore streak of two frames.                  *)
EXTENDS AebsPresentation

\* A fault comes once the coordinator brakes, and with the lifecycle alone.
MCFaultsOfTheLifecycle ==
    faults > 0 =>
        /\ lifecycle # "armed" /\ (lifecycle = "braking_latched" => warning)
        /\ ~seen.warning /\ ~seen.native /\ ~seen.braking

\* The other topics are seen raised by a display that is live and at rest but
\* for its frames: one at a time, and what brakes from the intervention on.
MCOneOtherTopic ==
    seen.warning \/ seen.native \/ seen.braking =>
        /\ quiet <= StaleAfter /\ disposition \in Live /\ ticker = "idle"
        /\ seen.warning => lifecycle = "armed" /\ ~seen.native /\ ~seen.braking
        /\ seen.native => ~seen.braking
        /\ seen.native \/ seen.braking => seen.lifecycle # "armed"
=============================================================================
