---------------------------- MODULE MCDispatcher ----------------------------
\* Model-checking instances of Dispatcher.  Its threads are model values; no
\* symmetry is declared, because the runs check liveness.
EXTENDS Dispatcher
=============================================================================
