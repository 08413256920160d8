-------------------------- MODULE MCGatewayWorker --------------------------
(* Small instances of the gateway worker.                                  *)
EXTENDS GatewayWorker

\* The worker does not look into a slot.
MCOneSlot == {"slot"}

=============================================================================
