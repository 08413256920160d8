---------------------------- MODULE MCAskRuntime ----------------------------
(* The instance TLC checks: two question threads beside the warm-up.       *)
EXTENDS AskRuntime
=============================================================================
