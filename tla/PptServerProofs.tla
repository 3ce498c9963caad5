-------------------------- MODULE PptServerProofs ---------------------------
(***************************************************************************)
(* Machine-checked facts about PptServer for any set of clients and any    *)
(* bounds.  The facts about its pool are those of TaskPollProofs.          *)
(***************************************************************************)
EXTENDS PptServer, QueueLemmas, FiniteSetTheorems

PoolFacts == INSTANCE TaskPollProofs

\* Every step of the server is a step of its pool, or leaves the pool alone.
LEMMA PoolStepLemma == [Next]_vars => [Pool!Next]_(Pool!vars)
<1> SUFFICES ASSUME [Next]_vars PROVE [Pool!Next]_(Pool!vars)
  OBVIOUS
<1>w. Worker \in Workers
  BY DEF Worker, Workers
<1>1. CASE UNCHANGED poolVars
  BY <1>1 DEF poolVars, Pool!vars
<1>2. CASE Main
  BY <1>1, <1>2 DEF Main, CenterStart, CenterStop, PoolStop, ServerStop, Pool!Next, Pool!Owner
<1>3. CASE WorkerStep \/ SpuriousWakeup \/ DismissBox
  BY <1>3, <1>w DEF WorkerStep, SpuriousWakeup, DismissBox, PoolStep, PressKey, StopSession,
     Pool!Next, Pool!Worker
<1>4. ASSUME NEW s \in Sessions,
             Accept(s) \/ AssignThread(s) \/ Recv(s) \/ PeerCloses(s) \/ SessionStep(s)
      PROVE  [Pool!Next]_(Pool!vars)
  BY <1>1, <1>4 DEF Accept, AssignThread, Recv, PeerCloses, SessionStep, LockCenter,
     PostCommand, NotifyClose, Leave, Pool!Next
<1>5. CASE UNCHANGED vars
  BY <1>1, <1>5 DEF vars
<1> QED
  BY <1>2, <1>3, <1>4, <1>5 DEF Next

\* The server uses its pool as a TaskPoll: by construction, each of its steps
\* names the one of the pool.
LEMMA PoolBehaviour == Spec => Pool!Spec
<1>1. Init => Pool!Init
  BY DEF Init
<1> QED
  BY <1>1, PoolStepLemma, PTL DEF Spec, Pool!Spec

-----------------------------------------------------------------------------
(* The facts of TaskPollProofs, for this pool.  PoolFacts and Pool instantiate *)
(* the same definitions; they are matched by expanding both.                  *)

\* The two instances of the pool have the same invariant and the same Spec.
LEMMA SamePool ==
    /\ Pool!Init <=> PoolFacts!Init
    /\ [Pool!Next]_(Pool!vars) => [PoolFacts!Next]_(PoolFacts!vars)
<1>1. Pool!Init <=> PoolFacts!Init
  BY DEF Pool!Init, PoolFacts!Init, Pool!NoThreads, PoolFacts!NoThreads
<1>2. ASSUME Pool!Next PROVE PoolFacts!Next
  <2>1. CASE Pool!Post
    BY <2>1 DEF Pool!Post, Pool!Notified, PoolFacts!Next, PoolFacts!Post, PoolFacts!Notified
  <2>2. CASE Pool!Owner
    BY <2>2 DEF Pool!Owner, Pool!Start, Pool!StopFlag, Pool!StopNotify, Pool!StopClear,
       Pool!StopReturn, Pool!Notified, PoolFacts!Next, PoolFacts!Owner, PoolFacts!Start,
       PoolFacts!StopFlag, PoolFacts!StopNotify, PoolFacts!StopClear, PoolFacts!StopReturn,
       PoolFacts!Notified
  <2>3. ASSUME NEW w \in Workers, Pool!Worker(w) \/ Pool!Spurious(w) PROVE PoolFacts!Next
    BY <2>3 DEF Pool!Worker, Pool!Enter, Pool!Lock, Pool!Test, Pool!Park, Pool!Take,
       Pool!Finish, Pool!Spurious, PoolFacts!Next, PoolFacts!Worker, PoolFacts!Enter,
       PoolFacts!Lock, PoolFacts!Test, PoolFacts!Park, PoolFacts!Take, PoolFacts!Finish,
       PoolFacts!Spurious
  <2> QED
    BY <1>2, <2>1, <2>2, <2>3 DEF Pool!Next
<1>3. ASSUME UNCHANGED Pool!vars PROVE UNCHANGED PoolFacts!vars
  BY <1>3 DEF Pool!vars, PoolFacts!vars
<1> QED
  BY <1>1, <1>2, <1>3

PoolInv == PoolFacts!IInv

\* The inductive invariant of TaskPoll holds of the server's pool.
THEOREM PoolInvCorrect == Spec => []PoolInv
<1>1. Spec => Pool!Spec
  BY PoolBehaviour
<1>2. PoolFacts!TaskPollAssumption
  BY PptServerAssumption DEF PoolFacts!TaskPollAssumption, Worker, Workers
<1>3. PoolFacts!Spec => []PoolFacts!IInv
  BY <1>2, PoolFacts!IInvCorrect
<1>4. /\ Pool!Init => PoolFacts!Init
      /\ [Pool!Next]_(Pool!vars) => [PoolFacts!Next]_(PoolFacts!vars)
  BY SamePool
<1> QED
  BY <1>1, <1>3, <1>4, PTL DEF Pool!Spec, PoolFacts!Spec, PoolInv

-----------------------------------------------------------------------------
(* What the pool holds: the tasks queued and the one being executed.        *)

Held == (ToSet(tasks_) \cup {task[Worker]}) \ {0}

\* What the pool's invariant says of the tasks the pool holds: each was posted.
LEMMA PoolShape ==
    ASSUME PoolInv
    PROVE  /\ Pool!TypeOK
           /\ Held \subseteq 1..posted
           /\ pc[Worker] = "run" <=> task[Worker] # 0
<1>1. Pool!TypeOK
  BY DEF PoolInv, PoolFacts!IInv, PoolFacts!TypeOK, PoolFacts!Tasks, PoolFacts!NoThreads,
     Pool!TypeOK, Pool!Tasks, Pool!NoThreads
<1>w. Worker \in Workers
  BY DEF Worker, Workers
<1>2. /\ tasks_ \in Seq(Pool!Tasks) /\ Pool!Tasks \subseteq Nat \ {0}
      /\ task[Worker] \in Pool!Tasks \cup {0}
      /\ pc[Worker] = "run" <=> task[Worker] # 0
  BY <1>1, <1>w DEF Pool!TypeOK, Pool!Tasks
<1>3. /\ \A i \in 1..Len(tasks_) : tasks_[i] <= posted
      /\ pc[Worker] = "run" => task[Worker] <= posted
  BY <1>w DEF PoolInv, PoolFacts!IInv, PoolFacts!Order, PoolFacts!InPostOrder, PoolFacts!Taken
<1>4. \A n \in Held : n \in Nat \ {0} /\ n <= posted
  <2>1. \A n \in ToSet(tasks_) : n \in Pool!Tasks /\ \E i \in 1..Len(tasks_) : n = tasks_[i]
    BY <1>2, MemberFacts, ElementsInside
  <2>2. \A n \in ToSet(tasks_) : n \in Nat \ {0} /\ n <= posted
    BY <1>2, <1>3, <2>1
  <2>3. task[Worker] # 0 => task[Worker] \in Nat \ {0} /\ task[Worker] <= posted
    BY <1>2, <1>3
  <2> QED
    BY <2>2, <2>3 DEF Held
<1>5. posted \in Nat
  BY <1>1, PptServerAssumption DEF Pool!TypeOK
<1> QED
  BY <1>1, <1>2, <1>4, <1>5

\* Posting adds the new task to what the pool holds.
LEMMA HeldPost ==
    ASSUME PoolInv, Pool!Post
    PROVE  /\ posted' = posted + 1 /\ posted \in Nat
           /\ Held' = Held \cup {posted + 1}
<1>w. Worker \in Workers
  BY DEF Worker, Workers
<1>1. /\ posted' = posted + 1 /\ posted \in Nat /\ posted + 1 \in Pool!Tasks
      /\ tasks_ \in Seq(Pool!Tasks) /\ tasks_' = Append(tasks_, posted + 1)
      /\ task' = task
  BY PoolShape, PptServerAssumption DEF Pool!Post, Pool!TypeOK, Pool!Tasks
<1>2. ToSet(tasks_') = ToSet(tasks_) \cup {posted + 1}
  BY <1>1, AppendFacts
<1> QED
  BY <1>1, <1>2 DEF Held

\* A step that posts and finishes nothing keeps what the pool holds, except
\* that Stop() clears the queue.
LEMMA HeldKept ==
    ASSUME PoolInv,
           \/ UNCHANGED poolVars
           \/ PoolStep \/ SpuriousWakeup \/ Pool!Start
           \/ Pool!StopFlag \/ Pool!StopNotify \/ Pool!StopReturn
    PROVE  Held \subseteq Held'
<1>w. Worker \in Workers
  BY DEF Worker, Workers
<1>1. CASE Pool!Take(Worker)
  <2>1. CASE is_stop_
    BY <1>1, <2>1 DEF Pool!Take, Held
  <2>2. CASE ~is_stop_
    <3>1. tasks_ \in Seq(Pool!Tasks) /\ task \in [Workers -> Pool!Tasks \cup {0}]
      BY PoolShape DEF Pool!TypeOK
    <3>2. ToSet(tasks_) = {Head(tasks_)} \cup ToSet(Tail(tasks_))
      BY <1>1, <2>2, <3>1, TailFacts DEF Pool!Take
    <3>3. task[Worker] = 0
      BY <1>1, PoolShape DEF Pool!Take
    <3>4. task'[Worker] = Head(tasks_) /\ tasks_' = Tail(tasks_)
      BY <1>1, <2>2, <3>1, <1>w DEF Pool!Take
    <3> QED
      BY <3>2, <3>3, <3>4 DEF Held
  <2> QED
    BY <2>1, <2>2
<1>2. CASE UNCHANGED <<tasks_, task>>
  BY <1>2 DEF Held
<1> QED
  BY <1>1, <1>2 DEF poolVars, PoolStep, SpuriousWakeup, Pool!Start, Pool!StopFlag,
     Pool!StopNotify, Pool!StopReturn, Pool!Enter, Pool!Lock, Pool!Test, Pool!Park, Pool!Spurious

\* When a task returns the pool keeps the others.
LEMMA HeldFinish ==
    ASSUME PoolInv, Pool!Finish(Worker)
    PROVE  Held \ {task[Worker]} \subseteq Held'
BY DEF Pool!Finish, Held

-----------------------------------------------------------------------------
(* The shape of the server's own state.                                    *)

\* A session that delivers commands has some, out of a chunk it received.
Delivering ==
    \A s \in Sessions : sp[s] \in {"deliver", "post"} => left[s] >= 1 /\ recvs[s] >= 1

\* thread_ is assigned once, by the accept thread that started the session.
Unassigned ==
    \A s \in Sessions :
       /\ accept = s => sp[s] # "none"
       /\ accept = s \/ sp[s] = "none" => thread_[s] = "null"

ServerTypeOK ==
    /\ body \in Seq(Bodies) /\ Len(body) = posted
    /\ center \in Sessions \cup {"free", "main"}
    /\ main \in {"init", "running", "failed", "stopping", "crashed", "joining"}
    /\ accept \in Sessions \cup {"none", "accept"}
    /\ sp \in [Sessions -> {"none", "recv", "deliver", "post", "notify", "leave", "ended"}]
    /\ thread_ \in [Sessions -> {"null", "joinable", "joined"}]
    /\ left \in [Sessions -> Nat]
    /\ recvs \in [Sessions -> 0..MaxRecv]
    /\ early \subseteq Sessions
    /\ \A s \in Sessions : center = s <=> sp[s] = "post"
    /\ Delivering /\ Unassigned

\* A body is appended for every task posted.
LEMMA BodyAppended ==
    ASSUME PoolInv, ServerTypeOK, Pool!Post, NEW b \in Bodies, body' = Append(body, b)
    PROVE  /\ body' \in Seq(Bodies) /\ Len(body') = posted'
           /\ \A i \in 1..posted : body'[i] = body[i]
           /\ body'[posted + 1] = b
<1>1. body \in Seq(Bodies) /\ Len(body) = posted
  BY DEF ServerTypeOK
<1> QED
  BY <1>1, HeldPost

\* A chunk is split into one command at least.
LEMMA SplitSome == ASSUME NEW chunk \in Chunks PROVE SplitCount(chunk) \in Nat \ {0}
<1>1. DOMAIN chunk = 1..Len(chunk) /\ Len(chunk) \in Nat
  <2>1. chunk \in Seq({"text", "sep"})
    BY ChunksAssumption
  <2> QED
    BY <2>1
<1>2. IsFiniteSet({i \in DOMAIN chunk : chunk[i] = "sep"})
  <2>1. IsFiniteSet(DOMAIN chunk)
    BY <1>1, FS_Interval
  <2> QED
    BY <2>1, FS_Subset
<1>3. Cardinality({i \in DOMAIN chunk : chunk[i] = "sep"}) \in Nat
  BY <1>2, FS_CardinalityType
<1>4. SplitCount(chunk) = Cardinality({i \in DOMAIN chunk : chunk[i] = "sep"}) + 1
  BY DEF SplitCount
<1> QED
  BY <1>3, <1>4

\* Every step of the server keeps the shape of its state, and with it who
\* holds the center's mutex and which session has no thread_ yet.
LEMMA ServerTypeStep == PoolInv /\ ServerTypeOK /\ [Next]_vars => ServerTypeOK'
<1> SUFFICES ASSUME PoolInv, ServerTypeOK, [Next]_vars PROVE ServerTypeOK'
  OBVIOUS
<1> USE PptServerAssumption DEF ServerTypeOK, Delivering, Unassigned
<1>1. CASE Main
  BY <1>1 DEF Main, CenterStart, ServerStart, CenterStop, PoolStop, ServerStop, serverVars, poolVars,
     Pool!Start, Pool!StopFlag, Pool!StopNotify, Pool!StopClear, Pool!StopReturn
<1>2. CASE PoolStep \/ SpuriousWakeup \/ PressKey \/ DismissBox
  <2>1. UNCHANGED serverVars /\ posted' = posted
    BY <1>2 DEF PoolStep, SpuriousWakeup, PressKey, DismissBox, Pool!Enter, Pool!Lock,
       Pool!Test, Pool!Park, Pool!Take, Pool!Spurious, Pool!Finish
  <2> QED
    BY <2>1 DEF serverVars
<1>3. ASSUME NEW s \in Sessions, StopSession(s) PROVE ServerTypeOK'
  <2>1. UNCHANGED <<posted, body, center, main, accept, sp, left, recvs>>
    BY <1>3 DEF StopSession, Pool!Finish
  <2>2. CASE thread_[s] = "null"
    BY <1>3, <2>1, <2>2 DEF StopSession
  <2>3. CASE thread_[s] # "null"
    <3>1. thread_' = [thread_ EXCEPT ![s] = "joined"] /\ early' = early /\ sp[s] = "ended"
      BY <1>3, <2>3 DEF StopSession
    <3> QED
      BY <2>1, <2>3, <3>1
  <2> QED
    BY <2>2, <2>3
<1>4. ASSUME NEW s \in Sessions, Accept(s) PROVE ServerTypeOK'
  BY <1>4 DEF Accept, poolVars
<1>5. ASSUME NEW s \in Sessions, AssignThread(s) PROVE ServerTypeOK'
  BY <1>5 DEF AssignThread, poolVars
<1>6. ASSUME NEW s \in Sessions, Recv(s) PROVE ServerTypeOK'
  <2>1. PICK chunk \in Chunks : left' = [left EXCEPT ![s] = SplitCount(chunk)]
    BY <1>6 DEF Recv
  <2>2. SplitCount(chunk) \in Nat \ {0}
    BY SplitSome
  <2> QED
    BY <1>6, <2>1, <2>2 DEF Recv, poolVars
<1>7. ASSUME NEW s \in Sessions, PeerCloses(s) \/ Leave(s) PROVE ServerTypeOK'
  <2>1. /\ sp' = [sp EXCEPT ![s] = "notify"] \/ sp' = [sp EXCEPT ![s] = "ended"]
        /\ sp[s] \in {"recv", "leave"}
        /\ UNCHANGED <<posted, body, center, main, accept, thread_, left, recvs, early>>
    BY <1>7 DEF PeerCloses, Leave, poolVars
  <2> QED
    BY <2>1
<1>8. ASSUME NEW s \in Sessions, LockCenter(s) PROVE ServerTypeOK'
  BY <1>8 DEF LockCenter, poolVars
<1>9. ASSUME NEW s \in Sessions, NotifyClose(s) PROVE ServerTypeOK'
  <2>1. [kind |-> "stop", s |-> s] \in Bodies
    BY DEF Bodies
  <2>2. body' \in Seq(Bodies) /\ Len(body') = posted'
    BY <1>9, <2>1, BodyAppended DEF NotifyClose
  <2> QED
    BY <1>9, <2>2 DEF NotifyClose
<1>10. ASSUME NEW s \in Sessions, PostCommand(s) PROVE ServerTypeOK'
  <2>1. recvs[s] \in 1..MaxRecv /\ left[s] \in Nat \ {0}
    BY <1>10 DEF PostCommand
  <2>2. PICK k \in {"key", "box"} : body' = Append(body, [kind |-> k, s |-> s, chunk |-> recvs[s]])
    BY <1>10 DEF PostCommand
  <2>3. [kind |-> k, s |-> s, chunk |-> recvs[s]] \in Bodies
    BY <2>1 DEF Bodies
  <2>4. body' \in Seq(Bodies) /\ Len(body') = posted'
    BY <1>10, <2>2, <2>3, BodyAppended DEF PostCommand
  <2>5. left' = [left EXCEPT ![s] = @ - 1] /\ left' \in [Sessions -> Nat]
    BY <1>10, <2>1 DEF PostCommand
  <2>6. UNCHANGED <<main, accept, thread_, recvs, early>>
    BY <1>10 DEF PostCommand
  <2>7. CASE left[s] = 1
    <3>1. center = s /\ center' = "free" /\ sp' = [sp EXCEPT ![s] = "recv"]
      BY <1>10, <2>7 DEF PostCommand
    <3>2. \A t \in Sessions : center' = t <=> sp'[t] = "post"
      BY <3>1
    <3>3. \A t \in Sessions : sp'[t] \in {"deliver", "post"} => left'[t] >= 1 /\ recvs'[t] >= 1
      BY <2>5, <2>6, <3>1
    <3> QED
      BY <2>4, <2>5, <2>6, <3>1, <3>2, <3>3
  <2>8. CASE left[s] # 1
    <3>1. UNCHANGED <<center, sp>>
      BY <1>10, <2>8 DEF PostCommand
    <3>2. left'[s] >= 1
      BY <2>1, <2>5, <2>8
    <3>3. \A t \in Sessions : sp'[t] \in {"deliver", "post"} => left'[t] >= 1 /\ recvs'[t] >= 1
      BY <2>5, <2>6, <3>1, <3>2
    <3> QED
      BY <2>4, <2>5, <2>6, <3>1, <3>3
  <2> QED
    BY <2>7, <2>8
<1>11. CASE UNCHANGED vars
  BY <1>11 DEF vars, serverVars, poolVars
<1> QED
  BY <1>1, <1>2, <1>3, <1>4, <1>5, <1>6, <1>7, <1>8, <1>9, <1>10, <1>11
     DEF Next, WorkerStep, SessionStep

\* The state before ControlCenter::Start() has its shape.
LEMMA InitShape == Init => ServerTypeOK
<1> SUFFICES ASSUME Init PROVE ServerTypeOK
  OBVIOUS
<1>1. body \in Seq(Bodies) /\ Len(body) = posted
  BY EmptySeq DEF Init, Pool!Init
<1> QED
  BY <1>1, PptServerAssumption DEF Init, ServerTypeOK, Delivering, Unassigned

\* The state of every reachable configuration of the server has its shape.
THEOREM TypeCorrect == Spec => []TypeOK
<1>1. Init => ServerTypeOK
  BY InitShape
<1>2. PoolInv /\ ServerTypeOK => TypeOK
  BY PoolShape DEF ServerTypeOK, TypeOK
<1> QED
  BY <1>1, <1>2, PoolInvCorrect, ServerTypeStep, PTL DEF Spec

-----------------------------------------------------------------------------
(* How a closed session can end the process.                               *)

Excused(s) == thread_[s] = "joined" \/ s \in early \/ owner \in {"join", "stopped"}

\* Once a session has posted its Stop() that task is in the pool until it has
\* run or TaskPoll::Stop() throws it away.
Reaping ==
    \A s \in Sessions : sp[s] \in {"leave", "ended"} => Excused(s) \/ StopTasks(s) # {}

\* The tasks that will stop session s are among those the pool holds.
LEMMA StopTasksHeld ==
    ASSUME NEW s \in Sessions
    PROVE  StopTasks(s) = {n \in Held : body[n].kind = "stop" /\ body[n].s = s}
BY DEF StopTasks, Held

\* Where the pool keeps what it holds, and the bodies stay, a Stop() task stays.
LEMMA StopTasksStay ==
    ASSUME NEW s \in Sessions, StopTasks(s) # {}, Held \subseteq Held',
           \A n \in Held : body'[n] = body[n]
    PROVE  StopTasks(s)' # {}
<1>1. PICK n \in Held : body[n].kind = "stop" /\ body[n].s = s
  BY StopTasksHeld
<1>2. n \in Held' /\ body'[n].kind = "stop" /\ body'[n].s = s
  BY <1>1
<1> QED
  BY <1>2 DEF StopTasks, Held

\* Every step keeps this: a session that has posted its Stop() still has that
\* task in the pool, or its thread was joined, or one of the two excuses holds.
LEMMA ReapingStep == PoolInv /\ ServerTypeOK /\ Reaping /\ [Next]_vars => Reaping'
<1> SUFFICES ASSUME PoolInv, ServerTypeOK, Reaping, [Next]_vars,
                    NEW s \in Sessions, sp'[s] \in {"leave", "ended"}, ~Excused(s)'
             PROVE  StopTasks(s)' # {}
  BY DEF Reaping
<1>t. sp \in [Sessions -> {"none", "recv", "deliver", "post", "notify", "leave", "ended"}]
  BY DEF ServerTypeOK
<1>r. sp[s] \in {"leave", "ended"} => Excused(s) \/ StopTasks(s) # {}
  BY DEF Reaping
<1>h. Held \subseteq 1..posted
  BY PoolShape
\* Steps that leave what is held, the bodies, and the excuses alone.
<1>k. ASSUME Held \subseteq Held', \A n \in Held : body'[n] = body[n],
             sp[s] \in {"leave", "ended"}, Excused(s) => Excused(s)'
      PROVE  StopTasks(s)' # {}
  BY <1>k, <1>r, StopTasksStay
<1>1. CASE CenterStart \/ CenterStop \/ ServerStop
  BY <1>1, <1>k, HeldKept DEF CenterStart, CenterStop, ServerStop, Pool!Start, Pool!StopFlag,
     Excused, poolVars
<1>2. CASE PoolStop
  <2>1. CASE Pool!StopClear
    BY <2>1 DEF Pool!StopClear, Excused
  <2>2. CASE Pool!StopNotify \/ Pool!StopReturn
    BY <1>2, <2>2, <1>k, HeldKept DEF PoolStop, Pool!StopNotify, Pool!StopReturn, Excused,
       serverVars
  <2> QED
    BY <1>2, <2>1, <2>2 DEF PoolStop
<1>3. CASE PoolStep \/ SpuriousWakeup
  <2>1. UNCHANGED serverVars /\ owner' = owner
    BY <1>3 DEF PoolStep, SpuriousWakeup, Pool!Enter, Pool!Lock, Pool!Test, Pool!Park,
       Pool!Take, Pool!Spurious
  <2> QED
    BY <1>3, <2>1, <1>k, HeldKept DEF serverVars, Excused
<1>4. CASE PressKey \/ DismissBox \/ \E t \in Sessions \ {s} : StopSession(t)
  <2>1. Pool!Finish(Worker) /\ sp' = sp /\ owner' = owner /\ body' = body
    BY <1>4 DEF PressKey, DismissBox, StopSession, serverVars, Pool!Finish
  <2>2. Excused(s) => Excused(s)'
    BY <1>4, <2>1 DEF PressKey, DismissBox, StopSession, serverVars, Excused, ServerTypeOK
  <2>3. ~(body[task[Worker]].kind = "stop" /\ body[task[Worker]].s = s)
    BY <1>4 DEF PressKey, DismissBox, StopSession, Executing
  <2>4. PICK n \in Held : body[n].kind = "stop" /\ body[n].s = s
    BY <2>1, <2>2, <1>r, StopTasksHeld
  <2>5. n \in Held'
    BY <2>1, <2>3, <2>4, HeldFinish
  <2> QED
    BY <2>1, <2>4, <2>5 DEF StopTasks, Held
<1>5. CASE StopSession(s)
  BY <1>5 DEF StopSession, Excused, ServerTypeOK
<1>6. ASSUME NEW t \in Sessions,
             \/ Accept(t) \/ AssignThread(t) \/ Recv(t) \/ PeerCloses(t)
             \/ LockCenter(t) \/ Leave(t)
      PROVE  StopTasks(s)' # {}
  <2>1. UNCHANGED poolVars /\ body' = body /\ early' = early
    BY <1>6 DEF Accept, AssignThread, Recv, PeerCloses, LockCenter, Leave
  <2>2. sp[s] \in {"leave", "ended"}
    BY <1>6, <1>t DEF Accept, AssignThread, Recv, PeerCloses, LockCenter, Leave
  <2>3. thread_[s] = "joined" => thread_'[s] = "joined"
    BY <1>6 DEF Accept, AssignThread, Recv, PeerCloses, LockCenter, Leave, ServerTypeOK,
       Unassigned
  <2>4. Excused(s) => Excused(s)'
    BY <2>1, <2>3 DEF Excused, poolVars
  <2> QED
    BY <2>1, <2>2, <2>4, <1>k, HeldKept
<1>7. ASSUME NEW t \in Sessions, PostCommand(t) \/ NotifyClose(t), t # s \/ PostCommand(t)
      PROVE  StopTasks(s)' # {}
  <2>1. Pool!Post /\ owner' = owner /\ UNCHANGED <<thread_, early>>
    BY <1>7 DEF PostCommand, NotifyClose, Pool!Post
  <2>2. sp[s] \in {"leave", "ended"}
    BY <1>7, <1>t DEF PostCommand, NotifyClose
  <2>3. \A n \in 1..posted : body'[n] = body[n]
    <3>1. \E b : body' = Append(body, b)
      BY <1>7 DEF PostCommand, NotifyClose
    <3>2. body \in Seq(Bodies) /\ Len(body) = posted
      BY DEF ServerTypeOK
    <3> QED
      BY <3>1, <3>2
  <2> QED
    BY <2>1, <2>2, <2>3, <1>h, <1>k, HeldPost DEF Excused
<1>8. CASE NotifyClose(s)
  <2>1. Pool!Post /\ body' = Append(body, [kind |-> "stop", s |-> s])
    BY <1>8 DEF NotifyClose
  <2>2. body'[posted + 1] = [kind |-> "stop", s |-> s]
    BY <2>1, BodyAppended DEF Bodies
  <2>3. posted + 1 \in Held'
    BY <2>1, HeldPost
  <2> QED
    BY <2>2, <2>3 DEF StopTasks, Held
<1>9. CASE UNCHANGED vars
  BY <1>9, <1>k, HeldKept DEF vars, serverVars, poolVars, Excused
<1> QED
  BY <1>1, <1>2, <1>3, <1>4, <1>5, <1>6, <1>7, <1>8, <1>9
     DEF Next, Main, WorkerStep, SessionStep

\* A closed session ends the process only when its Stop() came before thread_
\* was assigned, or was thrown away by TaskPoll::Stop().
THEOREM TerminateCorrect == Spec => []TerminateCauses
<1>1. Init => Reaping
  BY DEF Init, Reaping
<1>2. Init => ServerTypeOK
  BY InitShape
<1>3. Reaping => TerminateCauses
  BY DEF Reaping, Excused, TerminateCauses, Destroyed
<1> QED
  BY <1>1, <1>2, <1>3, PoolInvCorrect, ServerTypeStep, ReapingStep, PTL DEF Spec

-----------------------------------------------------------------------------
(* The commands of one chunk are posted next to each other.                *)

Command(i) == body[i].kind # "stop"

\* No session has posted commands of a chunk it has not received yet; none has
\* posted commands of the chunk it is about to deliver; and since the session
\* that delivers its chunk began to post it, nobody else has posted a command.
Chunking ==
    /\ \A i \in 1..Len(body) : Command(i) => body[i].chunk <= recvs[body[i].s]
    /\ \A s \in Sessions : sp[s] = "deliver" =>
          \A i \in 1..Len(body) : Command(i) /\ body[i].s = s => body[i].chunk < recvs[s]
    /\ \A s \in Sessions : sp[s] = "post" =>
          \A i, j \in 1..Len(body) :
             /\ i < j /\ Command(i) /\ Command(j)
             /\ body[i].s = s /\ body[i].chunk = recvs[s]
             => body[j].s = s

\* What a posted task is bound to: to a session, and as a command to a chunk.
LEMMA BodyShape ==
    ASSUME ServerTypeOK
    PROVE  \A i \in 1..Len(body) :
              /\ body[i] \in Bodies /\ body[i].s \in Sessions
              /\ Command(i) => body[i].chunk \in Nat
<1>1. body \in Seq(Bodies)
  BY DEF ServerTypeOK
<1>2. \A b \in Bodies : b.s \in Sessions /\ (b.kind # "stop" => b.chunk \in Nat)
  BY DEF Bodies
<1> QED
  BY <1>1, <1>2 DEF Command

\* While the bodies stay, and no session starts to deliver, nothing changes.
LEMMA ChunkingKept ==
    ASSUME Chunking, ChunksContiguous, UNCHANGED <<body, recvs>>,
           \A s \in Sessions : sp'[s] \in {"deliver", "post"} => sp'[s] = sp[s]
    PROVE  Chunking' /\ ChunksContiguous'
BY DEF Chunking, ChunksContiguous, Command

\* Posting the Stop() of a session disturbs no chunk: it is not a command.
LEMMA ChunkingStop ==
    ASSUME PoolInv, ServerTypeOK, Chunking, ChunksContiguous,
           NEW s \in Sessions, NotifyClose(s)
    PROVE  Chunking' /\ ChunksContiguous'
<1> DEFINE b == [kind |-> "stop", s |-> s]
<1>1. body \in Seq(Bodies) /\ b \in Bodies /\ body' = Append(body, b)
  BY DEF ServerTypeOK, Bodies, NotifyClose
<1>2. /\ Len(body') = Len(body) + 1 /\ Len(body) \in Nat
      /\ \A i \in 1..Len(body) : body'[i] = body[i]
      /\ body'[Len(body) + 1].kind = "stop"
  BY <1>1
<1>3. /\ \A i \in 1..Len(body') : Command(i)' => i \in 1..Len(body) /\ Command(i)
      /\ recvs' = recvs
      /\ \A t \in Sessions : sp'[t] \in {"deliver", "post"} => sp'[t] = sp[t]
  BY <1>2 DEF Command, NotifyClose, ServerTypeOK
<1>4. Chunking'
  BY <1>2, <1>3 DEF Chunking
<1>5. ChunksContiguous'
  BY <1>2, <1>3 DEF ChunksContiguous, Command
<1> QED
  BY <1>4, <1>5

\* Posting a command keeps its chunk together: its session holds the center's
\* mutex, and has held it since the first command of the chunk.
LEMMA ChunkingCommand ==
    ASSUME PoolInv, ServerTypeOK, Chunking, ChunksContiguous,
           NEW s \in Sessions, PostCommand(s)
    PROVE  Chunking' /\ ChunksContiguous'
<1>1. PICK k \in {"key", "box"} : body' = Append(body, [kind |-> k, s |-> s, chunk |-> recvs[s]])
  BY DEF PostCommand
<1>2. /\ sp[s] = "post" /\ recvs' = recvs /\ recvs[s] \in 1..MaxRecv
      /\ \A t \in Sessions : sp'[t] \in {"deliver", "post"} => sp'[t] = sp[t]
      /\ \A t \in Sessions : sp[t] = "post" => t = s
  BY PptServerAssumption DEF PostCommand, ServerTypeOK, Delivering
<1>3. body \in Seq(Bodies) /\ [kind |-> k, s |-> s, chunk |-> recvs[s]] \in Bodies
  BY <1>2 DEF ServerTypeOK, Bodies
<1>n. PICK n \in Nat : n = Len(body)
  BY <1>3
<1>4. /\ Len(body') = n + 1 /\ Len(body) = n
      /\ \A i \in 1..n : body'[i] = body[i]
      /\ body'[n + 1] = [kind |-> k, s |-> s, chunk |-> recvs[s]]
  BY <1>1, <1>3, <1>n
<1>5. /\ \A i \in 1..n : Command(i)' <=> Command(i)
      /\ Command(n + 1)'
      /\ body'[n + 1].s = s /\ body'[n + 1].chunk = recvs[s]
      /\ \A i \in 1..Len(body') : i \in 1..n \/ i = n + 1
  <2>1. /\ body'[n + 1].kind # "stop"
        /\ body'[n + 1].s = s /\ body'[n + 1].chunk = recvs[s]
    BY <1>4
  <2>2. \A i \in 1..Len(body') : i \in 1..n \/ i = n + 1
    BY <1>4
  <2> QED
    BY <1>4, <2>1, <2>2 DEF Command
<1>6. \A i \in 1..n : body[i].s \in Sessions /\ (Command(i) => body[i].chunk \in Nat)
  BY <1>n, BodyShape
<1>7. \A i \in 1..Len(body') : Command(i)' => body'[i].chunk <= recvs'[body'[i].s]
  BY <1>2, <1>4, <1>5, <1>6 DEF Chunking
<1>8. ASSUME NEW t \in Sessions, sp'[t] = "deliver", NEW i \in 1..Len(body'), Command(i)', body'[i].s = t
      PROVE  body'[i].chunk < recvs'[t]
  BY <1>2, <1>4, <1>5, <1>8 DEF Chunking
<1>9. ASSUME NEW t \in Sessions, sp'[t] = "post",
             NEW i \in 1..Len(body'), NEW j \in 1..Len(body'),
             i < j, Command(i)', Command(j)', body'[i].s = t, body'[i].chunk = recvs'[t]
      PROVE  body'[j].s = t
  <2>1. t = s /\ i \in 1..n
    BY <1>2, <1>4, <1>5, <1>9
  <2> QED
    BY <1>2, <1>4, <1>5, <1>9, <2>1 DEF Chunking
<1>10. ASSUME NEW i \in 1..Len(body'), NEW j \in 1..Len(body'), NEW m \in 1..Len(body'),
              i < j, j < m, Command(i)', Command(j)', Command(m)',
              body'[i].s = body'[m].s, body'[i].chunk = body'[m].chunk
       PROVE  body'[j].s = body'[i].s
  <2>1. i \in 1..n /\ j \in 1..n
    BY <1>4, <1>5, <1>10
  <2>2. CASE m \in 1..n
    BY <1>4, <1>5, <1>10, <2>1, <2>2 DEF ChunksContiguous, Command
  <2>3. CASE m = n + 1
    BY <1>2, <1>4, <1>5, <1>10, <2>1, <2>3 DEF Chunking
  <2> QED
    BY <1>5, <2>2, <2>3
<1> QED
  BY <1>7, <1>8, <1>9, <1>10 DEF Chunking, ChunksContiguous, Command

\* Every step keeps the chunks together.
LEMMA ChunkingStep ==
    PoolInv /\ ServerTypeOK /\ Chunking /\ ChunksContiguous /\ [Next]_vars
      => Chunking' /\ ChunksContiguous'
<1> SUFFICES ASSUME PoolInv, ServerTypeOK, Chunking, ChunksContiguous, [Next]_vars
             PROVE  Chunking' /\ ChunksContiguous'
  OBVIOUS
<1>t. sp \in [Sessions -> {"none", "recv", "deliver", "post", "notify", "leave", "ended"}]
  BY DEF ServerTypeOK
<1>1. CASE Main
  BY <1>1, ChunkingKept DEF Main, CenterStart, CenterStop, PoolStop, ServerStop, serverVars
<1>2. CASE WorkerStep \/ SpuriousWakeup \/ DismissBox
  BY <1>2, ChunkingKept DEF WorkerStep, PoolStep, PressKey, StopSession, SpuriousWakeup,
     DismissBox, serverVars
<1>3. ASSUME NEW s \in Sessions, Accept(s) \/ AssignThread(s) \/ PeerCloses(s) \/ Leave(s)
      PROVE  Chunking' /\ ChunksContiguous'
  BY <1>3, <1>t, ChunkingKept DEF Accept, AssignThread, PeerCloses, Leave
<1>4. ASSUME NEW s \in Sessions, Recv(s) PROVE Chunking' /\ ChunksContiguous'
  <2>1. /\ body' = body /\ sp' = [sp EXCEPT ![s] = "deliver"]
        /\ recvs' = [recvs EXCEPT ![s] = @ + 1]
    BY <1>4 DEF Recv
  <2>2. recvs \in [Sessions -> Nat] /\ sp[s] # "post"
    BY <1>4, PptServerAssumption DEF ServerTypeOK, Recv
  <2>3. ChunksContiguous'
    BY <2>1 DEF ChunksContiguous
  <2>4. Chunking'
    BY <1>t, <2>1, <2>2, BodyShape DEF Chunking, Command
  <2> QED
    BY <2>3, <2>4
<1>5. ASSUME NEW s \in Sessions, LockCenter(s) PROVE Chunking' /\ ChunksContiguous'
  <2>1. /\ UNCHANGED <<body, recvs>> /\ sp' = [sp EXCEPT ![s] = "post"]
        /\ sp[s] = "deliver"
    BY <1>5 DEF LockCenter
  <2>2. ChunksContiguous'
    BY <2>1 DEF ChunksContiguous
  <2>3. Chunking'
    BY <1>t, <2>1, BodyShape DEF Chunking, Command, ServerTypeOK
  <2> QED
    BY <2>2, <2>3
<1>6. CASE UNCHANGED vars
  BY <1>6, ChunkingKept DEF vars, serverVars
<1> QED
  BY <1>1, <1>2, <1>3, <1>4, <1>5, <1>6, ChunkingStop, ChunkingCommand DEF Next, SessionStep

\* The commands of one received chunk are executed next to each other, whatever
\* other clients deliver at the same time.
THEOREM ChunksCorrect == Spec => []ChunksContiguous
<1>1. Init => ServerTypeOK
  BY InitShape
<1>2. Init => Chunking /\ ChunksContiguous
  BY DEF Init, Chunking, ChunksContiguous
<1> QED
  BY <1>1, <1>2, PoolInvCorrect, ServerTypeStep, ChunkingStep, PTL DEF Spec

-----------------------------------------------------------------------------
(* The Stop() of a session comes after all its commands.                   *)

\* A session that has posted its Stop() posts nothing any more, and what it has
\* posted before is older.
Closing ==
    \A n \in 1..posted : body[n].kind = "stop" =>
       /\ sp[body[n].s] \in {"leave", "ended"}
       /\ \A m \in 1..posted : body[m].s = body[n].s => m <= n

\* While the bodies stay, and no session comes back, nothing changes.
LEMMA ClosingKept ==
    ASSUME ServerTypeOK, Closing, UNCHANGED <<posted, body>>,
           \A s \in Sessions : sp[s] \in {"leave", "ended"} => sp'[s] \in {"leave", "ended"}
    PROVE  Closing'
<1>1. \A n \in 1..posted : body[n].s \in Sessions
  BY BodyShape DEF ServerTypeOK
<1> QED
  BY <1>1 DEF Closing

\* A session that posts has not posted its Stop() yet.
LEMMA ClosingPost ==
    ASSUME PoolInv, ServerTypeOK, Closing, NEW s \in Sessions,
           PostCommand(s) \/ NotifyClose(s)
    PROVE  Closing'
<1>1. /\ Pool!Post /\ sp[s] \in {"post", "notify"}
      /\ \A t \in Sessions : sp[t] \in {"leave", "ended"} => sp'[t] = sp[t]
  BY DEF PostCommand, NotifyClose, ServerTypeOK
<1>2. PICK b \in Bodies :
         /\ body' = Append(body, b) /\ b.s = s
         /\ b.kind = "stop" => sp'[s] = "leave"
  <2>1. CASE PostCommand(s)
    <3>1. PICK k \in {"key", "box"} :
             body' = Append(body, [kind |-> k, s |-> s, chunk |-> recvs[s]])
      BY <2>1 DEF PostCommand
    <3>2. recvs[s] \in 1..MaxRecv
      BY <2>1, PptServerAssumption DEF PostCommand, ServerTypeOK, Delivering
    <3>3. [kind |-> k, s |-> s, chunk |-> recvs[s]] \in Bodies
      BY <3>2 DEF Bodies
    <3> QED
      BY <3>1, <3>3
  <2>2. CASE NotifyClose(s)
    <3>1. /\ body' = Append(body, [kind |-> "stop", s |-> s])
          /\ sp' = [sp EXCEPT ![s] = "leave"]
      BY <2>2 DEF NotifyClose
    <3>2. [kind |-> "stop", s |-> s] \in Bodies
      BY DEF Bodies
    <3> QED
      BY <3>1, <3>2 DEF ServerTypeOK
  <2> QED
    BY <2>1, <2>2
<1>3. PICK p \in Nat : p = posted /\ posted' = p + 1
  BY <1>1, HeldPost
<1>4. /\ \A n \in 1..p : body'[n] = body[n]
      /\ body'[p + 1] = b
  BY <1>1, <1>2, <1>3, BodyAppended
<1>5. \A n \in 1..p : body[n].s \in Sessions
  BY <1>3, BodyShape DEF ServerTypeOK
<1>6. \A n \in 1..p : body[n].kind = "stop" => body[n].s # s
  BY <1>1, <1>3 DEF Closing
<1>7. ASSUME NEW n \in 1..(p + 1), body'[n].kind = "stop"
      PROVE  /\ sp'[body'[n].s] \in {"leave", "ended"}
             /\ \A m \in 1..(p + 1) : body'[m].s = body'[n].s => m <= n
  <2>1. CASE n = p + 1
    <3>1. body'[n].s = s /\ sp'[s] = "leave"
      BY <1>2, <1>4, <1>7, <2>1
    <3>2. \A m \in 1..(p + 1) : m <= n
      BY <2>1
    <3> QED
      BY <3>1, <3>2
  <2>2. CASE n # p + 1
    <3>1. n \in 1..p /\ body[n].kind = "stop" /\ body'[n] = body[n]
      BY <1>4, <1>7, <2>2
    <3>2. /\ sp[body[n].s] \in {"leave", "ended"} /\ body[n].s \in Sessions
          /\ \A m \in 1..p : body[m].s = body[n].s => m <= n
      BY <1>3, <1>5, <3>1 DEF Closing
    <3>3. sp'[body'[n].s] \in {"leave", "ended"}
      BY <1>1, <3>1, <3>2
    <3>4. ASSUME NEW m \in 1..(p + 1), body'[m].s = body'[n].s PROVE m <= n
      <4>1. m # p + 1
        BY <1>2, <1>4, <1>6, <3>1, <3>4
      <4>2. m \in 1..p
        BY <4>1
      <4> QED
        BY <1>4, <3>1, <3>2, <3>4, <4>2
    <3> QED
      BY <3>3, <3>4
  <2> QED
    BY <2>1, <2>2
<1> QED
  BY <1>3, <1>7 DEF Closing

\* Every step keeps the Stop()s behind the commands.
LEMMA ClosingStep == PoolInv /\ ServerTypeOK /\ Closing /\ [Next]_vars => Closing'
<1> SUFFICES ASSUME PoolInv, ServerTypeOK, Closing, [Next]_vars PROVE Closing'
  OBVIOUS
<1>t. sp \in [Sessions -> {"none", "recv", "deliver", "post", "notify", "leave", "ended"}]
  BY DEF ServerTypeOK
<1>1. CASE Main \/ WorkerStep \/ SpuriousWakeup \/ DismissBox
  <2>1. UNCHANGED <<posted, body, sp>>
    BY <1>1 DEF Main, CenterStart, CenterStop, PoolStop, ServerStop, serverVars, poolVars,
       WorkerStep, PoolStep, PressKey, StopSession, SpuriousWakeup, DismissBox,
       Pool!Start, Pool!StopFlag, Pool!StopNotify, Pool!StopClear, Pool!StopReturn,
       Pool!Enter, Pool!Lock, Pool!Test, Pool!Park, Pool!Take, Pool!Spurious, Pool!Finish
  <2> QED
    BY <2>1, ClosingKept
<1>2. ASSUME NEW s \in Sessions,
             \/ Accept(s) \/ AssignThread(s) \/ Recv(s) \/ PeerCloses(s)
             \/ LockCenter(s) \/ Leave(s)
      PROVE  Closing'
  <2>1. /\ UNCHANGED <<posted, body>>
        /\ \A t \in Sessions : sp[t] \in {"leave", "ended"} => sp'[t] \in {"leave", "ended"}
    BY <1>2, <1>t DEF Accept, AssignThread, Recv, PeerCloses, LockCenter, Leave, poolVars
  <2> QED
    BY <2>1, ClosingKept
<1>3. CASE UNCHANGED vars
  BY <1>3, ClosingKept DEF vars, serverVars, poolVars
<1> QED
  BY <1>1, <1>2, <1>3, ClosingPost DEF Next, SessionStep

\* The pool takes tasks in the order of posting, so the Stop() it has taken has
\* nothing of its session behind it.
LEMMA ClosingOrder == PoolInv /\ Closing => StopIsLast
<1> SUFFICES ASSUME PoolInv, Closing, NEW n \in taken, NEW m \in ToSet(tasks_),
                    body[n].kind = "stop", body[m].s = body[n].s
             PROVE  FALSE
  BY DEF StopIsLast
<1>1. /\ tasks_ \in Seq(Pool!Tasks) /\ posted \in Nat
      /\ taken \subseteq Pool!Tasks /\ Pool!Tasks \subseteq Nat \ {0}
  BY PoolShape, PptServerAssumption DEF Pool!TypeOK, Pool!Tasks
<1>2. PICK i \in 1..Len(tasks_) : m = tasks_[i]
  BY <1>1, MemberFacts
<1>3. m \in Nat \ {0} /\ n \in Nat \ {0}
  BY <1>1, ElementsInside
<1>4. n < m /\ n <= posted /\ m <= posted
  BY <1>2 DEF PoolInv, PoolFacts!IInv, PoolFacts!Order, PoolFacts!InPostOrder
<1>5. n \in 1..posted /\ m \in 1..posted
  BY <1>1, <1>3, <1>4
<1>6. m <= n
  BY <1>5 DEF Closing
<1> QED
  BY <1>3, <1>4, <1>6

\* Once the Stop() of a session is taken nothing of the session is executed any
\* more, whatever other sessions post and however the worker is scheduled.
THEOREM StopLastCorrect == Spec => []StopIsLast
<1>1. Init => ServerTypeOK
  BY InitShape
<1>2. Init => Closing
  BY DEF Init, Pool!Init, Closing
<1> QED
  BY <1>1, <1>2, PoolInvCorrect, ServerTypeStep, ClosingStep, ClosingOrder, PTL DEF Spec
=============================================================================
