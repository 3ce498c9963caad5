---------------------------- MODULE MCTcpServer -----------------------------
(***************************************************************************)
(* The echo server for TLC.  One client sends enough messages for one of   *)
(* them to come alone and the others in a burst; the other one connects and*)
(* goes at any time.                                                       *)
(***************************************************************************)
EXTENDS TcpServer

CONSTANTS c1, c2

MCMaxMessages == (c1 :> 3) @@ (c2 :> 0)
=============================================================================
