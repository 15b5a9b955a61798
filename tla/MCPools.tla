------------------------------- MODULE MCPools -------------------------------
(* The instance of Pools that TLC checks; its constants are model values.    *)
EXTENDS Pools
=============================================================================
