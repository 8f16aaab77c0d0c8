---------------------------- MODULE MCTxEnvelope ----------------------------
(* Every action the client can queue, in one run. *)
EXTENDS TxEnvelope

MCActions == DOMAIN Enqueue

=============================================================================
