----------------------------- MODULE MCTaskPoll -----------------------------
\* Model-checking instances of TaskPoll.  Its workers are model values; no
\* symmetry is declared, because the runs check liveness.
EXTENDS TaskPoll
=============================================================================
