---------------------------- MODULE MCPipeServer ----------------------------
(* Instance of PipeServer for TLC. *)
EXTENDS PipeServer
=============================================================================
