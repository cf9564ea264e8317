---------------------------- MODULE MCRpcChannel ----------------------------
(* A small instance of RpcChannel: an ordinary call and a shutdown.        *)
EXTENDS RpcChannel

CONSTANTS r1, stop
=============================================================================
