------------------------------ MODULE Executor ------------------------------
(***************************************************************************)
(* What a work queue promises to the code that hands work to it.  Items    *)
(* are handed over one at a time; every item waits, then runs once, or is  *)
(* dropped without ever running; and once the queue has been closed no     *)
(* item is running and none will start.  Nothing is said about the order   *)
(* or about who runs an item.                                              *)
(*                                                                         *)
(* Both queues of the repository implement it: service::iocp_impl of       *)
(* fastnet (module Dispatcher) and TaskPoll of PPTServer (module TaskPoll).*)
(***************************************************************************)
CONSTANT Items          \* everything that may ever be handed over

VARIABLES pending,      \* handed over, not started
          running,      \* started, not finished
          finished,     \* ran to its end, or to an exception
          dropped,      \* will never run
          closed        \* the stop operation has returned

vars == <<pending, running, finished, dropped, closed>>

Fresh == Items \ (pending \cup running \cup finished \cup dropped)

Init ==
    /\ pending = {} /\ running = {} /\ finished = {} /\ dropped = {}
    /\ closed = FALSE

Submit(i) ==
    /\ i \in Fresh
    /\ pending' = pending \cup {i}
    /\ UNCHANGED <<running, finished, dropped, closed>>

Start(i) ==
    /\ ~closed
    /\ i \in pending
    /\ pending' = pending \ {i}
    /\ running' = running \cup {i}
    /\ UNCHANGED <<finished, dropped, closed>>

\* An item ends; when it ends by an exception others may be dropped with it.
Finish(i, D) ==
    /\ i \in running
    /\ D \subseteq pending
    /\ running' = running \ {i}
    /\ finished' = finished \cup {i}
    /\ pending' = pending \ D
    /\ dropped' = dropped \cup D
    /\ UNCHANGED closed

\* Items are discarded before they start: waiting ones, or one whose
\* hand-over fails.
Drop(D) ==
    /\ D \subseteq pending \cup Fresh
    /\ pending' = pending \ D
    /\ dropped' = dropped \cup D
    /\ UNCHANGED <<running, finished, closed>>

\* Closing may discard what still waits.
Close(D) ==
    /\ running = {}
    /\ D \subseteq pending
    /\ pending' = pending \ D
    /\ dropped' = dropped \cup D
    /\ closed' = TRUE
    /\ UNCHANGED <<running, finished>>

Next ==
    \/ \E i \in Items : Submit(i) \/ Start(i)
    \/ \E i \in Items, D \in SUBSET Items : Finish(i, D)
    \/ \E D \in SUBSET Items : Drop(D) \/ Close(D)

Spec == Init /\ [][Next]_vars
=============================================================================
