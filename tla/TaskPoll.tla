------------------------------ MODULE TaskPoll ------------------------------
(***************************************************************************)
(* TaskPoll (ControlPPt/source/PPTServer/task_poll.cpp): worker threads,   *)
(* one deque of tasks, one mutex and one condition variable.               *)
(*                                                                         *)
(* The n-th task handed to Post() is the number n.  The mutex is explicit  *)
(* because Stop() writes is_stop_ and notifies without holding it; critical*)
(* sections in which a thread cannot block are one step.  A task that calls*)
(* Stop() (the branch that prints "kill self!") does not exist in the      *)
(* program, so Stop() is called by an owner that is not a worker.          *)
(***************************************************************************)
EXTENDS Integers, Sequences, SequencesExt

CONSTANTS Workers,      \* the threads Start() tries to create
          MaxPosts      \* bound: tasks posted in a behaviour

ASSUME TaskPollAssumption ==
    /\ "free" \notin Workers
    /\ MaxPosts \in Nat

VARIABLES
    is_stop_,
    mutex_,     \* the worker that holds the mutex between steps, or "free"
    tasks_,
    threads_,   \* the threads the pool has not yet given to Stop()
    pc,         \* where each worker is in Run()
    task,       \* the task a worker executes, 0 if none
    owner,      \* where the owner is in Start() and Stop()
    joining,    \* Stop()'s local list of threads
    posted,     \* tasks ever posted
    taken       \* history: the tasks ever taken out to be executed

vars == <<is_stop_, mutex_, tasks_, threads_, pc, task, owner, joining, posted, taken>>

Tasks == 1..MaxPosts

NoThreads == [w \in Workers |-> "none"]

Init ==
    /\ is_stop_ = FALSE /\ mutex_ = "free" /\ tasks_ = <<>> /\ threads_ = {}
    /\ pc = NoThreads
    /\ task = [w \in Workers |-> 0]
    /\ owner = "idle" /\ joining = {}
    /\ posted = 0 /\ taken = {}

\* cond_.notify_all(): whoever is in the wait set must get the mutex again.
Notified == [w \in Workers |-> IF pc[w] = "wait" THEN "woken" ELSE pc[w]]

-----------------------------------------------------------------------------
(* Post() *)

\* Mutant: the mutex is not taken.
Post_Unlocked ==
    /\ posted < MaxPosts
    /\ posted' = posted + 1
    /\ tasks_' = Append(tasks_, posted + 1)
    /\ pc' = Notified
    /\ UNCHANGED <<is_stop_, mutex_, threads_, task, owner, joining, taken>>

\* Mutant: the condition variable is not signalled.
Post_Silent ==
    /\ mutex_ = "free" /\ posted < MaxPosts
    /\ posted' = posted + 1
    /\ tasks_' = Append(tasks_, posted + 1)
    /\ UNCHANGED <<is_stop_, mutex_, threads_, pc, task, owner, joining, taken>>

\* Mutant: the task is pushed to the front.
Post_Front ==
    /\ mutex_ = "free" /\ posted < MaxPosts
    /\ posted' = posted + 1
    /\ tasks_' = <<posted + 1>> \o tasks_
    /\ pc' = Notified
    /\ UNCHANGED <<is_stop_, mutex_, threads_, task, owner, joining, taken>>

Post ==
    /\ mutex_ = "free" /\ posted < MaxPosts
    /\ posted' = posted + 1
    /\ tasks_' = Append(tasks_, posted + 1)
    /\ pc' = Notified
    /\ UNCHANGED <<is_stop_, mutex_, threads_, task, owner, joining, taken>>

-----------------------------------------------------------------------------
(* Run(), one worker *)

\* while (!is_stop_)
Enter(w) ==
    /\ pc[w] = "top"
    /\ pc' = [pc EXCEPT ![w] = IF is_stop_ THEN "exit" ELSE "lock"]
    /\ UNCHANGED <<is_stop_, mutex_, tasks_, threads_, task, owner, joining, posted, taken>>

\* The unique_lock is constructed, or cond_.wait() takes the mutex back.
Lock(w) ==
    /\ pc[w] \in {"lock", "woken"} /\ mutex_ = "free"
    /\ mutex_' = w
    /\ pc' = [pc EXCEPT ![w] = "test"]
    /\ UNCHANGED <<is_stop_, tasks_, threads_, task, owner, joining, posted, taken>>

\* while (tasks_.empty() && !is_stop_)
Test(w) ==
    /\ pc[w] = "test"
    /\ pc' = [pc EXCEPT ![w] = IF tasks_ = <<>> /\ ~is_stop_ THEN "park" ELSE "take"]
    /\ UNCHANGED <<is_stop_, mutex_, tasks_, threads_, task, owner, joining, posted, taken>>

\* cond_.wait(lock) joins the wait set and releases the mutex in one step.
Park(w) ==
    /\ pc[w] = "park"
    /\ pc' = [pc EXCEPT ![w] = "wait"]
    /\ mutex_' = "free"
    /\ UNCHANGED <<is_stop_, tasks_, threads_, task, owner, joining, posted, taken>>

\* A condition variable may wake for no reason.
Spurious(w) ==
    /\ pc[w] = "wait"
    /\ pc' = [pc EXCEPT ![w] = "woken"]
    /\ UNCHANGED <<is_stop_, mutex_, tasks_, threads_, task, owner, joining, posted, taken>>

\* Mutant: the front task is copied and not popped.
Take_NoPop(w) ==
    /\ pc[w] = "take"
    /\ mutex_' = "free"
    /\ IF is_stop_
         THEN /\ pc' = [pc EXCEPT ![w] = "exit"]
              /\ UNCHANGED <<tasks_, task, taken>>
         ELSE /\ tasks_ # <<>>
              /\ pc' = [pc EXCEPT ![w] = "run"]
              /\ task' = [task EXCEPT ![w] = Head(tasks_)]
              /\ taken' = taken \cup {Head(tasks_)}
              /\ UNCHANGED tasks_
    /\ UNCHANGED <<is_stop_, threads_, owner, joining, posted>>

\* if (is_stop_) break; otherwise take the front task and unlock.
Take(w) ==
    /\ pc[w] = "take"
    /\ mutex_' = "free"
    /\ IF is_stop_
         THEN /\ pc' = [pc EXCEPT ![w] = "exit"]
              /\ UNCHANGED <<tasks_, task, taken>>
         ELSE /\ tasks_ # <<>>
              /\ pc' = [pc EXCEPT ![w] = "run"]
              /\ task' = [task EXCEPT ![w] = Head(tasks_)]
              /\ taken' = taken \cup {Head(tasks_)}
              /\ tasks_' = Tail(tasks_)
    /\ UNCHANGED <<is_stop_, threads_, owner, joining, posted>>

\* Mutant: the task object outlives its iteration.
Finish_KeepsTask(w) ==
    /\ pc[w] = "run"
    /\ pc' = [pc EXCEPT ![w] = "top"]
    /\ UNCHANGED <<is_stop_, mutex_, tasks_, threads_, task, owner, joining, posted, taken>>

\* task() returns.
Finish(w) ==
    /\ pc[w] = "run"
    /\ pc' = [pc EXCEPT ![w] = "top"]
    /\ task' = [task EXCEPT ![w] = 0]
    /\ UNCHANGED <<is_stop_, mutex_, tasks_, threads_, owner, joining, posted, taken>>

-----------------------------------------------------------------------------
(* The owner: Start() and Stop() *)

\* Each thread that cannot be created is skipped; the others wait for the mutex
\* until Start() releases it.
Start ==
    /\ owner = "idle" /\ mutex_ = "free"
    /\ \E created \in SUBSET Workers :
          /\ threads_' = created
          /\ pc' = [w \in Workers |-> IF w \in created THEN "top" ELSE "none"]
    /\ owner' = "started"
    /\ UNCHANGED <<is_stop_, mutex_, tasks_, task, joining, posted, taken>>

\* is_stop_ = false: the value it already has.
StopFlag ==
    /\ owner = "started"
    /\ is_stop_' = FALSE
    /\ owner' = "flagged"
    /\ UNCHANGED <<mutex_, tasks_, threads_, pc, task, joining, posted, taken>>

\* notify_all(), without the mutex.
StopNotify ==
    /\ owner = "flagged"
    /\ pc' = Notified
    /\ owner' = "notified"
    /\ UNCHANGED <<is_stop_, mutex_, tasks_, threads_, task, joining, posted, taken>>

StopClear ==
    /\ owner = "notified" /\ mutex_ = "free"
    /\ tasks_' = <<>>
    /\ joining' = threads_ /\ threads_' = {}
    /\ owner' = "join"
    /\ UNCHANGED <<is_stop_, mutex_, pc, task, posted, taken>>

\* The last join() returns.
StopReturn ==
    /\ owner = "join"
    /\ \A w \in joining : pc[w] = "exit"
    /\ owner' = "stopped" /\ joining' = {}
    /\ UNCHANGED <<is_stop_, mutex_, tasks_, threads_, pc, task, posted, taken>>

-----------------------------------------------------------------------------
\* The steps a created worker takes of its own accord.
Worker(w) == Enter(w) \/ Lock(w) \/ Test(w) \/ Park(w) \/ Take(w) \/ Finish(w)

Owner == Start \/ StopFlag \/ StopNotify \/ StopClear \/ StopReturn

Next == Post \/ Owner \/ \E w \in Workers : Worker(w) \/ Spurious(w)

\* Threads are scheduled, tasks return, and an owner that has begun to stop the
\* pool goes on, getting the mutex if it is free again and again.  Nothing makes
\* a spurious wake-up happen.
Fairness ==
    /\ \A w \in Workers : WF_vars(Worker(w))
    /\ WF_vars(StopNotify) /\ SF_vars(StopClear) /\ WF_vars(StopReturn)

Spec == Init /\ [][Next]_vars
FairSpec == Spec /\ Fairness

-----------------------------------------------------------------------------
(* Properties *)

\* Every variable keeps its shape, and no thread exists before Start().
TypeOK ==
    /\ is_stop_ \in BOOLEAN
    /\ mutex_ \in Workers \cup {"free"}
    /\ tasks_ \in Seq(Tasks)
    /\ threads_ \subseteq Workers /\ joining \subseteq Workers
    /\ pc \in [Workers -> {"none", "top", "lock", "test", "park", "wait", "woken",
                           "take", "run", "exit"}]
    /\ task \in [Workers -> Tasks \cup {0}]
    /\ \A w \in Workers : pc[w] = "run" <=> task[w] # 0
    /\ owner \in {"idle", "started", "flagged", "notified", "join", "stopped"}
    /\ owner = "idle" => pc = NoThreads
    /\ posted \in 0..MaxPosts
    /\ taken \subseteq Tasks

\* A worker is inside its critical section exactly when it holds the mutex.
MutexHeld ==
    \A w \in Workers : pc[w] \in {"test", "park", "take"} <=> mutex_ = w

\* No lost wake-up: a worker that has decided to wait, or waits, has no task to
\* wait for, however Post(), Stop() and the other workers interleave.
NoLostWakeup ==
    \A w \in Workers : pc[w] \in {"park", "wait"} => tasks_ = <<>>

\* front() and pop_front() are never called on an empty deque.
TakeFinds ==
    \A w \in Workers : pc[w] = "take" => tasks_ # <<>> \/ is_stop_

\* The monitor of mutex_ and condition_: Run(), Post() and Stop() use it so that
\* nothing is touched outside it, no signal is missed and no take is in vain.
Monitor == MutexHeld /\ NoLostWakeup /\ TakeFinds

\* Tasks leave the deque in the order of their Post() calls and each leaves it
\* once: the deque is increasing and everything taken came before it.
InPostOrder ==
    /\ \A i, j \in 1..Len(tasks_) : i < j => tasks_[i] < tasks_[j]
    /\ \A i \in 1..Len(tasks_) : tasks_[i] <= posted
    /\ \A n \in taken : n <= posted /\ \A i \in 1..Len(tasks_) : n < tasks_[i]

\* Two workers never execute the same task.
OneExecution ==
    \A v, w \in Workers : pc[v] = "run" /\ pc[w] = "run" /\ task[v] = task[w] => v = w

\* The deque is a queue: Post() and Run() execute each task once, in order.
Fifo == InPostOrder /\ OneExecution

\* Once the pool is started every queued task leaves the deque, taken or
\* cleared, unless no thread could be created.
EveryTaskServed ==
    \A n \in Tasks :
       owner # "idle" /\ n \in ToSet(tasks_) ~> n \notin ToSet(tasks_) \/ pc = NoThreads

\* The console driver (ppt_server.cpp) stops the control center, releases it
\* and goes on to its last statement: Stop() returns.
StopReturns == owner = "flagged" ~> owner = "stopped"

\* The pool is an Executor: what Stop() clears never runs.
Running == {task[w] : w \in {v \in Workers : pc[v] = "run"}}

Exec == INSTANCE Executor WITH
           Items <- Tasks, pending <- ToSet(tasks_), running <- Running,
           finished <- taken \ Running,
           dropped <- 1..posted \ (ToSet(tasks_) \cup taken),
           closed <- owner = "stopped"

ImplementsExecutor == Exec!Spec
=============================================================================
