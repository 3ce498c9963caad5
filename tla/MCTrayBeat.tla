----------------------------- MODULE MCTrayBeat -----------------------------
\* The heartbeat for TLC; its constants are numbers and need no definitions.
EXTENDS TrayBeat
=============================================================================
