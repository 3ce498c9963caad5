----------------------------- MODULE Dispatcher -----------------------------
(***************************************************************************)
(* service::iocp_impl (fastnet/source/dispatcher/iocp_impl.cc): a pool of  *)
(* worker threads that take callbacks from one I/O completion port in      *)
(* batches and invoke them, stopped by queueing a user APC to every worker *)
(* and joining it.                                                         *)
(*                                                                         *)
(* A callback object is named by the number of the post() that made it, so *)
(* 1..posted are the objects ever made and the port's queue is a sequence  *)
(* of such numbers.  A completed overlapped operation queues its callback  *)
(* in the same way and is not told apart from post().                      *)
(***************************************************************************)
EXTENDS Integers, Sequences, SequencesExt

CONSTANTS Threads,      \* the worker threads
          BatchSize,    \* entries one get_status_ex may return (64)
          MaxPosts      \* bound: callbacks made in a behaviour

ASSUME DispatcherAssumption ==
    /\ BatchSize \in Nat \ {0}
    /\ MaxPosts \in Nat

VARIABLES
    posted,     \* callbacks made so far
    port,       \* the completion port's queue
    pc,         \* where each worker is in run()
    entrys,     \* the entries of its batch a worker has not finished with
    apc,        \* workers with a queued user APC
    missed,     \* workers that took their APC before their first wait
    freed,      \* callbacks invoked, and deleted by their unique_ptr
    leaked,     \* callbacks nobody will ever invoke or delete
    stop,       \* where ~iocp_impl() is
    todo        \* workers the loop of stop() it is in has yet to visit

vars == <<posted, port, pc, entrys, apc, missed, freed, leaked, stop, todo>>

Callbacks == 1..MaxPosts

Init ==
    /\ posted = 0 /\ port = <<>>
    /\ pc = [t \in Threads |-> "new"]
    /\ entrys = [t \in Threads |-> <<>>]
    /\ apc = {} /\ missed = {} /\ freed = {} /\ leaked = {}
    /\ stop = "live" /\ todo = {}

-----------------------------------------------------------------------------
(* post(), called by any thread, handlers included, while the object lives *)

\* Mutant: the pointer is not released, so the object is deleted on return.
Post_NotReleased ==
    /\ stop # "closed" /\ posted < MaxPosts
    /\ posted' = posted + 1
    /\ port' = Append(port, posted + 1)
    /\ freed' = freed \cup {posted + 1}
    /\ UNCHANGED <<pc, entrys, apc, missed, leaked, stop, todo>>

Post ==
    /\ stop # "closed" /\ posted < MaxPosts
    /\ posted' = posted + 1
    /\ port' = Append(port, posted + 1)
    /\ UNCHANGED <<pc, entrys, apc, missed, freed, leaked, stop, todo>>

\* PostQueuedCompletionStatus refuses the packet: its result is ignored and
\* the pointer released all the same.
PostFails ==
    /\ stop # "closed" /\ posted < MaxPosts
    /\ posted' = posted + 1
    /\ leaked' = leaked \cup {posted + 1}
    /\ UNCHANGED <<port, pc, entrys, apc, missed, freed, stop, todo>>

-----------------------------------------------------------------------------
(* run(), one worker *)

\* The thread starts.  Windows delivers an APC queued before that at once,
\* outside any alertable wait, so run() never sees WAIT_IO_COMPLETION for it.
Begin(t) ==
    /\ pc[t] = "new"
    /\ pc' = [pc EXCEPT ![t] = "wait"]
    /\ apc' = apc \ {t}
    /\ missed' = missed \cup (apc \cap {t})
    /\ UNCHANGED <<posted, port, entrys, freed, leaked, stop, todo>>

\* Mutant: the last queued entry is not seen.
Dequeue_LeavesLast(t) ==
    /\ pc[t] = "wait"
    /\ \E n \in 1..BatchSize :
          /\ n < Len(port)
          /\ entrys' = [entrys EXCEPT ![t] = SubSeq(port, 1, n)]
          /\ port' = SubSeq(port, n + 1, Len(port))
    /\ pc' = [pc EXCEPT ![t] = "loop"]
    /\ UNCHANGED <<posted, apc, missed, freed, leaked, stop, todo>>

\* get_status_ex returns entries.
Dequeue(t) ==
    /\ pc[t] = "wait"
    /\ \E n \in 1..BatchSize :
          /\ n <= Len(port)
          /\ entrys' = [entrys EXCEPT ![t] = SubSeq(port, 1, n)]
          /\ port' = SubSeq(port, n + 1, Len(port))
    /\ pc' = [pc EXCEPT ![t] = "loop"]
    /\ UNCHANGED <<posted, apc, missed, freed, leaked, stop, todo>>

\* Mutant: the wake-up is taken for a spurious one and the worker waits again.
Alerted_Continues(t) ==
    /\ pc[t] = "wait" /\ t \in apc
    /\ apc' = apc \ {t}
    /\ UNCHANGED <<posted, port, pc, entrys, missed, freed, leaked, stop, todo>>

\* get_status_ex returns WAIT_IO_COMPLETION: an APC was delivered.  Entries
\* may be queued at that moment too.
Alerted(t) ==
    /\ pc[t] = "wait" /\ t \in apc
    /\ apc' = apc \ {t}
    /\ pc' = [pc EXCEPT ![t] = "exit"]
    /\ UNCHANGED <<posted, port, entrys, missed, freed, leaked, stop, todo>>

\* handle_callback takes the object over and invokes the handler.
Invoke(t) ==
    /\ pc[t] = "loop"
    /\ pc' = [pc EXCEPT ![t] = "call"]
    /\ UNCHANGED <<posted, port, entrys, apc, missed, freed, leaked, stop, todo>>

\* Mutant: the batch is abandoned after its first entry.
Return_FirstOnly(t) ==
    /\ pc[t] = "call"
    /\ freed' = freed \cup {Head(entrys[t])}
    /\ entrys' = [entrys EXCEPT ![t] = Tail(@)]
    /\ pc' = [pc EXCEPT ![t] = "wait"]
    /\ UNCHANGED <<posted, port, apc, missed, leaked, stop, todo>>

\* The handler returns.
Return(t) ==
    /\ pc[t] = "call"
    /\ freed' = freed \cup {Head(entrys[t])}
    /\ entrys' = [entrys EXCEPT ![t] = Tail(@)]
    /\ pc' = [pc EXCEPT ![t] = IF Len(entrys[t]) = 1 THEN "wait" ELSE "loop"]
    /\ UNCHANGED <<posted, port, apc, missed, leaked, stop, todo>>

\* The handler throws a std::exception: its object is deleted during the
\* unwinding, the rest of the batch is forgotten and the worker ends.
Throw(t) ==
    /\ pc[t] = "call"
    /\ freed' = freed \cup {Head(entrys[t])}
    /\ leaked' = leaked \cup ToSet(Tail(entrys[t]))
    /\ entrys' = [entrys EXCEPT ![t] = <<>>]
    /\ pc' = [pc EXCEPT ![t] = "exit"]
    /\ UNCHANGED <<posted, port, apc, missed, stop, todo>>

-----------------------------------------------------------------------------
(* ~iocp_impl(), called once by the owner *)

Stop ==
    /\ stop = "live"
    /\ stop' = "signal" /\ todo' = Threads
    /\ UNCHANGED <<posted, port, pc, entrys, apc, missed, freed, leaked>>

\* Mutant: only workers that are waiting get an APC.
Signal_IdleOnly(t) ==
    /\ stop = "signal" /\ t \in todo
    /\ apc' = IF pc[t] = "wait" THEN apc \cup {t} ELSE apc
    /\ todo' = todo \ {t}
    /\ UNCHANGED <<posted, port, pc, entrys, missed, freed, leaked, stop>>

\* QueueUserAPC; it has no effect on a thread that has ended.
Signal(t) ==
    /\ stop = "signal" /\ t \in todo
    /\ apc' = IF pc[t] = "exit" THEN apc ELSE apc \cup {t}
    /\ todo' = todo \ {t}
    /\ UNCHANGED <<posted, port, pc, entrys, missed, freed, leaked, stop>>

Signalled ==
    /\ stop = "signal" /\ todo = {}
    /\ stop' = "join" /\ todo' = Threads
    /\ UNCHANGED <<posted, port, pc, entrys, apc, missed, freed, leaked>>

\* Mutant: a worker that has not begun is joined without waiting for it.
Join_NoWait(t) ==
    /\ stop = "join" /\ t \in todo
    /\ pc[t] \in {"new", "exit"}
    /\ todo' = todo \ {t}
    /\ UNCHANGED <<posted, port, pc, entrys, apc, missed, freed, leaked, stop>>

\* The joins happen in the order of threads_; which one blocks first makes
\* no difference to when the last one returns.
Join(t) ==
    /\ stop = "join" /\ t \in todo
    /\ pc[t] = "exit"
    /\ todo' = todo \ {t}
    /\ UNCHANGED <<posted, port, pc, entrys, apc, missed, freed, leaked, stop>>

\* threads_.clear() and iocp_.close(): what is still queued is not drained.
Close ==
    /\ stop = "join" /\ todo = {}
    /\ stop' = "closed"
    /\ leaked' = leaked \cup ToSet(port)
    /\ port' = <<>>
    /\ UNCHANGED <<posted, pc, entrys, apc, missed, freed, todo>>

-----------------------------------------------------------------------------
Worker(t) ==
    \/ Begin(t) \/ Dequeue(t) \/ Alerted(t)
    \/ Invoke(t) \/ Return(t) \/ Throw(t)

Stopping == Stop \/ Signalled \/ Close \/ \E t \in Threads : Signal(t) \/ Join(t)

Next == Post \/ PostFails \/ Stopping \/ \E t \in Threads : Worker(t)

\* The operating system schedules every runnable thread; handlers return, by
\* themselves or by an exception; an alertable wait with a pending APC and
\* nothing queued ends; the owner, once in its destructor, goes on.
Fairness ==
    /\ \A t \in Threads :
          /\ WF_vars(Worker(t))
          /\ WF_vars(Signal(t))
          /\ WF_vars(Join(t))
    /\ WF_vars(Signalled) /\ WF_vars(Close)

Spec == Init /\ [][Next]_vars
FairSpec == Spec /\ Fairness

-----------------------------------------------------------------------------
(* Properties *)

\* Every variable keeps its shape; entries are handled only inside the two
\* states of the for loop.
TypeOK ==
    /\ posted \in 0..MaxPosts
    /\ port \in Seq(Callbacks)
    /\ pc \in [Threads -> {"new", "wait", "loop", "call", "exit"}]
    /\ entrys \in [Threads -> Seq(Callbacks)]
    /\ \A t \in Threads : pc[t] \in {"loop", "call"} <=> entrys[t] # <<>>
    /\ apc \subseteq Threads /\ missed \subseteq Threads
    /\ freed \subseteq Callbacks /\ leaked \subseteq Callbacks
    /\ stop \in {"live", "signal", "join", "closed"}
    /\ todo \subseteq Threads

\* A callback object changes hands as a raw pointer (post releases it, the
\* port carries it, handle_callback adopts it), yet it has one owner: it is in
\* the port once, or in the batch of one worker once, or already deleted, or
\* leaked.  Two owners would be a double delete.
OwnedOnce ==
    /\ IsInjective(port)
    /\ ToSet(port) \cap (freed \cup leaked) = {}
    /\ freed \cap leaked = {}
    /\ \A t \in Threads :
          /\ IsInjective(entrys[t])
          /\ ToSet(entrys[t]) \cap (ToSet(port) \cup freed \cup leaked) = {}
          /\ \A u \in Threads \ {t} : ToSet(entrys[t]) \cap ToSet(entrys[u]) = {}

\* No callback vanishes between the hands that pass it on: what was made is
\* queued, in a batch, deleted, or known to be leaked.
AllAccounted ==
    1..posted = ToSet(port) \cup freed \cup leaked
                   \cup UNION {ToSet(entrys[t]) : t \in Threads}

\* Every callback object ever made has exactly one owner: post(), run() and
\* handle_callback() neither lose one nor hand one to two.
Ownership == OwnedOnce /\ AllAccounted

\* When stop() joins a worker, that worker has ended or still has its APC to
\* take, unless it took it before it ever waited.  A signalled worker is never
\* left waiting for entries with nothing to wake it.
WakeupPending ==
    \A t \in Threads :
       stop = "join" \/ (stop = "signal" /\ t \notin todo)
          => pc[t] = "exit" \/ t \in apc \/ t \in missed

\* A joined worker has ended, and after the destructor every worker has: no
\* handler runs on a dispatcher that is gone.
Joined ==
    /\ stop = "join" => \A t \in Threads \ todo : pc[t] = "exit"
    /\ stop = "closed" => \A t \in Threads : pc[t] = "exit"

\* iocp_impl::stop(): it never waits for a worker that nothing will wake, and
\* never passes one that still runs.
StopSound == WakeupPending /\ Joined

\* The destructor ends, however many callbacks are queued or running, if no
\* worker was signalled before it began to run.
StopReturns == stop = "signal" ~> (stop = "closed" \/ missed # {})

\* A queued callback is taken by a worker, unless the pool is being stopped or
\* exceptions have ended every worker.
QueueServed ==
    \A n \in Callbacks :
       n \in ToSet(port) ~> \/ n \notin ToSet(port)
                             \/ stop # "live"
                             \/ \A t \in Threads : pc[t] = "exit"

\* The pool is an Executor: a callback waits in the port or in a batch, runs
\* while its handler does, and after the destructor none runs.
Waiting(t) == ToSet(IF pc[t] = "call" THEN Tail(entrys[t]) ELSE entrys[t])
Pending == ToSet(port) \cup UNION {Waiting(t) : t \in Threads}
Running == {Head(entrys[t]) : t \in {u \in Threads : pc[u] = "call"}}

Exec == INSTANCE Executor WITH
           Items <- Callbacks, pending <- Pending, running <- Running,
           finished <- freed, dropped <- leaked, closed <- stop = "closed"

ImplementsExecutor == Exec!Spec
=============================================================================
