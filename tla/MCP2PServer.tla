----------------------------- MODULE MCP2PServer -----------------------------
(* A server with two or three remote nodes for TLC; the configurations name them. *)
EXTENDS P2PServer
=============================================================================
