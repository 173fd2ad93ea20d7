---------------------------- MODULE MCMcpClient -----------------------------
(* A small instance of McpClient for TLC. *)
EXTENDS McpClient
=============================================================================
