---------------------------- MODULE MCPptServer -----------------------------
(* Instance of PptServer for TLC: clients are model values; a chunk is one   *)
(* command, one with its separator, or two.                                  *)
EXTENDS PptServer, TLC

MCChunks == {<<"text">>, <<"text", "sep">>, <<"text", "sep", "text">>}
=============================================================================
