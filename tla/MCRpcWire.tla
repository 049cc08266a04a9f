------------------------------ MODULE MCRpcWire ------------------------------
(* One small instance of RpcWire. *)
EXTENDS RpcWire
=============================================================================
