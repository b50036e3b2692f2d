-------------------------- MODULE MCMcpOperations --------------------------
(***************************************************************************)
(* Small instances of McpOperations: calls that share idempotency keys.    *)
(***************************************************************************)
EXTENDS McpOperations
=============================================================================
