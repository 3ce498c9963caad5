----------------------------- MODULE PptServer ------------------------------
(***************************************************************************)
(* PPTServer as it is put together: ControlCenter, the SocketServer accept *)
(* thread, one SocketSession and thread per client, and a TaskPoll with one*)
(* worker (control_center.cpp, socket_server.cpp, socket_session.cpp).     *)
(*                                                                         *)
(* A SocketSession is kept alive by shared pointers: the accept thread's   *)
(* local one, the one bound into the session's thread, and the ones bound  *)
(* into the tasks that will stop it.  When the last goes, ~SocketSession() *)
(* destroys thread_, and destroying a joinable std::thread ends the        *)
(* process.  A session is closed by posting its Stop() to the pool, so that*)
(* another thread joins it.                                                *)
(***************************************************************************)
EXTENDS Integers, Sequences, FiniteSets, SequencesExt

CONSTANTS Sessions,     \* the clients that may connect, once each
          Chunks,       \* what one recv() may return, as "sep" (a ";") and "text"
          MaxPosts,     \* bound: tasks posted
          MaxRecv       \* bound: chunks received from one client

ASSUME PptServerAssumption ==
    /\ MaxPosts \in Nat /\ MaxRecv \in Nat
    /\ {"free", "main", "none", "accept"} \cap Sessions = {}
ASSUME ChunksAssumption == Chunks \subseteq Seq({"text", "sep"}) \ {<<>>}

VARIABLES is_stop_, mutex_, tasks_, threads_, pc, task, owner, joining, posted, taken

Worker == "worker"
Workers == {Worker}

\* task_poll_: TaskPoll(1), control_center.cpp line 14.
Pool == INSTANCE TaskPoll

poolVars == <<is_stop_, mutex_, tasks_, threads_, pc, task, owner, joining, posted, taken>>

VARIABLES
    body,       \* what each posted task is bound to
    center,     \* who holds ControlCenter::mutex_
    main,       \* where the thread that starts and stops the center is
    accept,     \* the accept thread: "none", "accept", or the session it starts
    sp,         \* where each session's thread is
    thread_,    \* a session's thread_: "null" until assigned, then "joinable"
    left,       \* commands a session has still to post
    recvs,      \* chunks received from each client
    early       \* history: sessions whose Stop() ran before thread_ was assigned

serverVars == <<body, center, main, accept, sp, thread_, left, recvs, early>>
vars == <<poolVars, serverVars>>

Init ==
    /\ Pool!Init
    /\ body = <<>> /\ center = "free" /\ main = "init" /\ accept = "none"
    /\ sp = [s \in Sessions |-> "none"]
    /\ thread_ = [s \in Sessions |-> "null"]
    /\ left = [s \in Sessions |-> 0]
    /\ recvs = [s \in Sessions |-> 0]
    /\ early = {}

Executing == IF pc[Worker] = "run" THEN body[task[Worker]] ELSE [kind |-> "none"]

\* The tasks that hold a shared pointer to session s.
StopTasks(s) ==
    {n \in (ToSet(tasks_) \cup {task[Worker]}) \ {0} : body[n].kind = "stop" /\ body[n].s = s}

Destroyed(s) ==
    /\ thread_[s] # "null" /\ accept # s
    /\ sp[s] = "ended" /\ StopTasks(s) = {}

\* std::terminate() has ended the process.
Terminated == \E s \in Sessions : Destroyed(s) /\ thread_[s] = "joinable"

Alive == ~Terminated /\ main # "crashed"

-----------------------------------------------------------------------------
(* ControlCenter::Start() and Stop() *)

\* SocketServer::Start(): without WSAStartup(), the socket, its address or the
\* listen queue there is no accept thread.
ServerStart(ok) == accept' = IF ok THEN "accept" ELSE "none"

\* Mutant: the server is started also when the pool has no thread.
CenterStart_IgnoresPool ==
    /\ Alive /\ main = "init" /\ center = "free"
    /\ Pool!Start
    /\ \E ok \in BOOLEAN :
         /\ ServerStart(ok)
         /\ main' = IF ok THEN "running" ELSE "failed"
    /\ UNCHANGED <<body, center, sp, thread_, left, recvs, early>>

\* The pool's threads, then the server; either may fail, and what was started
\* before stays.
CenterStart ==
    /\ Alive /\ main = "init" /\ center = "free"
    /\ Pool!Start
    /\ \E ok \in BOOLEAN :
         /\ ok => threads_' = Workers
         /\ ServerStart(ok)
         /\ main' = IF ok THEN "running" ELSE "failed"
    /\ UNCHANGED <<body, center, sp, thread_, left, recvs, early>>

\* Stop() locks the center for its whole duration.
CenterStop ==
    /\ Alive /\ main \in {"running", "failed"} /\ center = "free"
    /\ center' = "main" /\ main' = "stopping"
    /\ Pool!StopFlag
    /\ UNCHANGED <<body, accept, sp, thread_, left, recvs, early>>

PoolStop ==
    /\ Alive
    /\ Pool!StopNotify \/ Pool!StopClear \/ Pool!StopReturn
    /\ UNCHANGED serverVars

\* SocketServer::Stop() dereferences accept_thread_.  It is reached only when
\* the pool had no thread, and then Start() had returned before the server was
\* started: the pointer is null.
ServerStop ==
    /\ Alive /\ main = "stopping" /\ owner = "stopped"
    /\ main' = IF accept = "none" THEN "crashed" ELSE "joining"
    /\ UNCHANGED <<poolVars, body, center, accept, sp, thread_, left, recvs, early>>

-----------------------------------------------------------------------------
(* The accept thread: SocketServer::Run() and ControlCenter::OnHandleAccept() *)

Accept(s) ==
    /\ Alive /\ accept = "accept" /\ sp[s] = "none"
    /\ accept' = s
    /\ sp' = [sp EXCEPT ![s] = "recv"]
    /\ UNCHANGED <<poolVars, body, center, main, thread_, left, recvs, early>>

\* The thread that SocketSession::Start() created already runs; now the pointer
\* to it is assigned, and the local shared pointer is released.
AssignThread(s) ==
    /\ Alive /\ accept = s
    /\ thread_' = [thread_ EXCEPT ![s] = "joinable"]
    /\ accept' = "accept"
    /\ UNCHANGED <<poolVars, body, center, main, sp, left, recvs, early>>

-----------------------------------------------------------------------------
(* One session's thread: SocketSession::Run() *)

\* Split() takes a command off at every separator and then what is left, also when
\* nothing is: its last test compares an unsigned difference with 0.
SplitCount(chunk) == Cardinality({i \in DOMAIN chunk : chunk[i] = "sep"}) + 1

\* recv() returns data, and Parse() splits it.  What Parse() keeps in buf_ of a
\* command that is not complete is never read again.
Recv(s) ==
    /\ Alive /\ sp[s] = "recv" /\ recvs[s] < MaxRecv
    /\ sp' = [sp EXCEPT ![s] = "deliver"]
    /\ \E chunk \in Chunks : left' = [left EXCEPT ![s] = SplitCount(chunk)]
    /\ recvs' = [recvs EXCEPT ![s] = @ + 1]
    /\ UNCHANGED <<poolVars, body, center, main, accept, thread_, early>>

\* Mutant: the commands are posted without the center's mutex.
LockCenter_Skipped(s) ==
    /\ Alive /\ sp[s] = "deliver"
    /\ sp' = [sp EXCEPT ![s] = "post"]
    /\ UNCHANGED <<poolVars, body, center, main, accept, thread_, left, recvs, early>>

\* OnHandleCommand() locks the center and posts the commands one by one.
LockCenter(s) ==
    /\ Alive /\ sp[s] = "deliver" /\ center = "free"
    /\ center' = s
    /\ sp' = [sp EXCEPT ![s] = "post"]
    /\ UNCHANGED <<poolVars, body, main, accept, thread_, left, recvs, early>>

PostCommand(s) ==
    /\ Alive /\ sp[s] = "post"
    /\ Pool!Post
    /\ \E k \in {"key", "box"} :
          body' = Append(body, [kind |-> k, s |-> s, chunk |-> recvs[s]])
    /\ left' = [left EXCEPT ![s] = @ - 1]
    /\ IF left[s] = 1
         THEN center' = "free" /\ sp' = [sp EXCEPT ![s] = "recv"]
         ELSE UNCHANGED <<center, sp>>
    /\ UNCHANGED <<main, accept, thread_, recvs, early>>

\* recv() returns 0 or an error.
PeerCloses(s) ==
    /\ Alive /\ sp[s] = "recv"
    /\ sp' = [sp EXCEPT ![s] = "notify"]
    /\ UNCHANGED <<poolVars, body, center, main, accept, thread_, left, recvs, early>>

\* Mutant: the pool is not told that there is a task.
NotifyClose_Silent(s) ==
    /\ Alive /\ sp[s] = "notify"
    /\ Pool!Post_Silent
    /\ body' = Append(body, [kind |-> "stop", s |-> s])
    /\ sp' = [sp EXCEPT ![s] = "leave"]
    /\ UNCHANGED <<center, main, accept, thread_, left, recvs, early>>

\* Mutant: the loop is not left after the notification.
NotifyClose_NoBreak(s) ==
    /\ Alive /\ sp[s] = "notify"
    /\ Pool!Post
    /\ body' = Append(body, [kind |-> "stop", s |-> s])
    /\ UNCHANGED <<center, main, accept, sp, thread_, left, recvs, early>>

\* OnHandleSocketSessionClose() posts the session's Stop(), without the
\* center's mutex; the loop ends.
NotifyClose(s) ==
    /\ Alive /\ sp[s] = "notify"
    /\ Pool!Post
    /\ body' = Append(body, [kind |-> "stop", s |-> s])
    /\ sp' = [sp EXCEPT ![s] = "leave"]
    /\ UNCHANGED <<center, main, accept, thread_, left, recvs, early>>

\* The thread ends and releases its shared pointer.
Leave(s) ==
    /\ Alive /\ sp[s] = "leave"
    /\ sp' = [sp EXCEPT ![s] = "ended"]
    /\ UNCHANGED <<poolVars, body, center, main, accept, thread_, left, recvs, early>>

-----------------------------------------------------------------------------
(* The pool's worker *)

PoolStep ==
    /\ Alive
    /\ \/ Pool!Enter(Worker) \/ Pool!Lock(Worker) \/ Pool!Test(Worker)
       \/ Pool!Park(Worker) \/ Pool!Take(Worker)
    /\ UNCHANGED serverVars

SpuriousWakeup == Alive /\ Pool!Spurious(Worker) /\ UNCHANGED serverVars

\* DoTask(): a command of the protocol sends keys and returns.
PressKey ==
    /\ Alive /\ Executing.kind = "key"
    /\ Pool!Finish(Worker)
    /\ UNCHANGED serverVars

\* Any other command opens a message box: the worker goes on when somebody at
\* the machine dismisses it.
DismissBox ==
    /\ Alive /\ Executing.kind = "box"
    /\ Pool!Finish(Worker)
    /\ UNCHANGED serverVars

\* Mutant: the worker detaches from the session instead of waiting for it.
StopSession_NoWait(s) ==
    /\ Alive /\ Executing.kind = "stop" /\ Executing.s = s
    /\ IF thread_[s] = "null"
         THEN early' = early \cup {s}
         ELSE UNCHANGED early
    /\ Pool!Finish(Worker)
    /\ UNCHANGED <<body, center, main, accept, sp, thread_, left, recvs>>

\* SocketSession::Stop(): with no thread_ there is nothing to join; otherwise
\* the worker waits for the thread to end.  The worker is never that thread.
StopSession(s) ==
    /\ Alive /\ Executing.kind = "stop" /\ Executing.s = s
    /\ IF thread_[s] = "null"
         THEN early' = early \cup {s} /\ UNCHANGED thread_
         ELSE /\ sp[s] = "ended"
              /\ thread_' = [thread_ EXCEPT ![s] = "joined"]
              /\ UNCHANGED early
    /\ Pool!Finish(Worker)
    /\ UNCHANGED <<body, center, main, accept, sp, left, recvs>>

-----------------------------------------------------------------------------
SessionStep(s) == LockCenter(s) \/ PostCommand(s) \/ NotifyClose(s) \/ Leave(s)

WorkerStep == PoolStep \/ PressKey \/ \E s \in Sessions : StopSession(s)

Main == CenterStart \/ CenterStop \/ PoolStop \/ ServerStop

Next ==
    \/ Main \/ WorkerStep \/ SpuriousWakeup \/ DismissBox
    \/ \E s \in Sessions :
          Accept(s) \/ AssignThread(s) \/ Recv(s) \/ PeerCloses(s) \/ SessionStep(s)

\* Threads are scheduled, the center's mutex is granted to a session that asks
\* again and again, and somebody dismisses a message box.  Clients do what
\* they like, and the owner need not stop the center.
Fairness ==
    /\ WF_vars(WorkerStep)
    /\ WF_vars(DismissBox)
    /\ \A s \in Sessions :
          /\ WF_vars(AssignThread(s))
          /\ SF_vars(LockCenter(s))
          /\ WF_vars(PostCommand(s) \/ NotifyClose(s) \/ Leave(s))

Spec == Init /\ [][Next]_vars
FairSpec == Spec /\ Fairness

-----------------------------------------------------------------------------
(* Properties *)

Bodies ==
    [kind : {"key", "box"}, s : Sessions, chunk : 1..MaxRecv]
       \cup [kind : {"stop"}, s : Sessions]

\* Every variable keeps its shape; the holder of the center's mutex is the
\* session that posts or the owner that stops.
TypeOK ==
    /\ Pool!TypeOK
    /\ body \in Seq(Bodies) /\ Len(body) = posted
    /\ center \in Sessions \cup {"free", "main"}
    /\ main \in {"init", "running", "failed", "stopping", "crashed", "joining"}
    /\ accept \in Sessions \cup {"none", "accept"}
    /\ sp \in [Sessions -> {"none", "recv", "deliver", "post", "notify", "leave", "ended"}]
    /\ thread_ \in [Sessions -> {"null", "joinable", "joined"}]
    /\ left \in [Sessions -> Nat]
    /\ recvs \in [Sessions -> 0..MaxRecv]
    /\ early \subseteq Sessions
    /\ \A s \in Sessions : center = s <=> sp[s] = "post"

\* The commands of one received chunk are executed next to each other: those of
\* another client never come between them.
ChunksContiguous ==
    \A i, j, k \in 1..Len(body) :
       /\ i < j /\ j < k
       /\ body[i].kind # "stop" /\ body[j].kind # "stop" /\ body[k].kind # "stop"
       /\ body[i].s = body[k].s /\ body[i].chunk = body[k].chunk
       => body[j].s = body[i].s

\* Once a session's Stop() was taken to be executed, nothing of the session is
\* executed any more, although the commands are posted under the center's mutex and
\* the Stop() without it: none of its tasks is, or ever comes, behind its Stop().
StopIsLast ==
    \A n \in taken, m \in ToSet(tasks_) : body[n].kind = "stop" => body[m].s # body[n].s

\* A closed session is destroyed with its thread unjoined in two ways only: its
\* Stop() ran before the accept thread had assigned thread_, or
\* TaskPoll::Stop() has thrown its Stop() task away.
TerminateCauses ==
    \A s \in Sessions :
       Destroyed(s) /\ thread_[s] = "joinable" => s \in early \/ owner \in {"join", "stopped"}

\* The pool joins session threads from its only worker without ever waiting for
\* one that waits for the pool or for the center: the join returns, even when
\* the center is being stopped.
StopTaskReturns ==
    \A s \in Sessions :
       (Executing.kind = "stop" /\ Executing.s = s)
          ~> ~(Executing.kind = "stop" /\ Executing.s = s) \/ ~Alive

\* What sessions post, commands and Stop()s, is taken by the worker unless the
\* center is stopped or the process has ended: Start() lets no client in when the
\* pool could not create its thread, and no task keeps the worker for ever.
\* (Posts are bounded, so "all of it, again and again" is "each in its turn".)
CommandTaken == []<>(taken = 1..posted \/ owner # "started" \/ ~Alive)

\* The thread of every client that has gone is joined, unless the center is
\* stopped, was never fully started, or the process has ended.
ClosedSessionReaped ==
    \A s \in Sessions :
       sp[s] = "ended" ~> thread_[s] = "joined" \/ owner # "started" \/ ~Alive

\* socket_session.h line 16: NotifyClose() is there so that another thread does
\* away with the session.  The process is not ended by a client that leaves.
SessionDiesElsewhere == owner = "started" => ~Terminated
=============================================================================
