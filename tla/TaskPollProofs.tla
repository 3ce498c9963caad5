--------------------------- MODULE TaskPollProofs ---------------------------
(***************************************************************************)
(* Machine-checked facts about TaskPoll for any set of workers and any     *)
(* number of tasks.                                                        *)
(***************************************************************************)
EXTENDS TaskPoll, QueueLemmas

\* Stop() stores the value the flag already has.
FlagDown == is_stop_ = FALSE

\* Worker-local facts that the mutex makes stable.
Sync == FlagDown /\ MutexHeld /\ NoLostWakeup /\ TakeFinds

\* Who is being joined: only threads that were created, and they never exit.
JoinList ==
    /\ owner \in {"idle", "started", "flagged", "notified"} =>
          threads_ = {w \in Workers : pc[w] # "none"}
    /\ owner = "join" => joining = {w \in Workers : pc[w] # "none"}
    /\ \A w \in Workers : pc[w] # "exit"

\* Since no thread ends, Stop() returns only where there was none to join.
StopsOnlyEmptyPool == owner = "stopped" => \A w \in Workers : pc[w] = "none"

\* Every step keeps the shape of the state.
LEMMA TypeStep == TypeOK /\ [Next]_vars => TypeOK'
<1> SUFFICES ASSUME TypeOK, [Next]_vars PROVE TypeOK'
  OBVIOUS
<1> USE TaskPollAssumption DEF TypeOK, Tasks
<1>n. Notified \in [Workers -> {"none", "top", "lock", "test", "park", "wait", "woken",
                                "take", "run", "exit"}]
      /\ \A w \in Workers : Notified[w] = "run" <=> pc[w] = "run"
  BY DEF Notified
<1>i. owner = "idle" => Notified = NoThreads
  BY DEF Notified, NoThreads
<1>1. CASE Post
  <2>1. posted + 1 \in Tasks
    BY <1>1 DEF Post
  <2>2. tasks_' \in Seq(Tasks)
    BY <1>1, <2>1, AppendFacts DEF Post
  <2> QED
    BY <1>1, <1>n, <1>i, <2>2 DEF Post
<1>2. ASSUME NEW w \in Workers, Enter(w) \/ Lock(w) \/ Test(w) \/ Park(w) \/ Spurious(w)
      PROVE  TypeOK'
  BY <1>2 DEF Enter, Lock, Test, Park, Spurious, NoThreads
<1>3. ASSUME NEW w \in Workers, Take(w) PROVE TypeOK'
  <2>1. CASE is_stop_
    BY <1>3, <2>1 DEF Take, NoThreads
  <2>2. CASE ~is_stop_
    <3> DEFINE h == Head(tasks_)
               r == Tail(tasks_)
    <3>1. h \in Tasks /\ r \in Seq(Tasks)
      BY <1>3, <2>2, TailFacts DEF Take
    <3>2. /\ task' = [task EXCEPT ![w] = h] /\ tasks_' = r /\ taken' = taken \cup {h}
          /\ pc' = [pc EXCEPT ![w] = "run"] /\ mutex_' = "free"
          /\ UNCHANGED <<is_stop_, threads_, owner, joining, posted>>
      BY <1>3, <2>2 DEF Take
    <3> HIDE DEF h, r
    <3>3. owner # "idle"
      BY <1>3 DEF Take, NoThreads
    <3> QED
      BY <3>1, <3>2, <3>3
  <2> QED
    BY <2>1, <2>2
<1>4. ASSUME NEW w \in Workers, Finish(w) PROVE TypeOK'
  BY <1>4 DEF Finish, NoThreads
<1>5. CASE Start
  <2>1. \A w \in Workers : task[w] = 0 /\ pc'[w] \in {"top", "none"}
    BY <1>5 DEF Start, NoThreads
  <2>2. pc' \in [Workers -> {"none", "top"}] /\ threads_' \subseteq Workers
    BY <1>5 DEF Start
  <2>3. UNCHANGED <<is_stop_, mutex_, tasks_, task, joining, posted, taken>> /\ owner' = "started"
    BY <1>5 DEF Start
  <2> QED
    BY <2>1, <2>2, <2>3
<1>6. CASE StopFlag \/ StopNotify
  BY <1>6, <1>n, <1>i DEF StopFlag, StopNotify
<1>7. CASE StopClear
  BY <1>7, EmptySeq DEF StopClear
<1>8. CASE StopReturn
  BY <1>8 DEF StopReturn
<1>9. CASE UNCHANGED vars
  BY <1>9 DEF vars
<1> QED
  BY <1>1, <1>2, <1>3, <1>4, <1>5, <1>6, <1>7, <1>8, <1>9 DEF Next, Owner, Worker

\* The state of every reachable configuration has its shape.
THEOREM TypeCorrect == Spec => []TypeOK
<1>1. Init => TypeOK
  <2> SUFFICES ASSUME Init PROVE TypeOK
    OBVIOUS
  <2>1. tasks_ \in Seq(Tasks)
    BY EmptySeq DEF Init
  <2>2. pc \in [Workers -> {"none"}] /\ pc = NoThreads
    BY DEF Init, NoThreads
  <2>3. /\ task \in [Workers -> {0}] /\ taken = {} /\ posted = 0 /\ mutex_ = "free"
        /\ is_stop_ = FALSE /\ owner = "idle" /\ threads_ = {} /\ joining = {}
    BY DEF Init
  <2>4. \A w \in Workers : pc[w] = "run" <=> task[w] # 0
    BY <2>2, <2>3
  <2>5. /\ pc \in [Workers -> {"none", "top", "lock", "test", "park", "wait", "woken",
                               "take", "run", "exit"}]
        /\ task \in [Workers -> Tasks \cup {0}]
    BY <2>2, <2>3
  <2>6. posted \in 0..MaxPosts
    BY <2>3, TaskPollAssumption
  <2> QED
    BY <2>1, <2>2, <2>3, <2>4, <2>5, <2>6, TaskPollAssumption DEF TypeOK
<1> QED
  BY <1>1, TypeStep, PTL DEF Spec

-----------------------------------------------------------------------------
(* The mutex and the condition variable. *)

\* A worker's step touches its own pc and the mutex only.
LEMMA SyncStep == TypeOK /\ Sync /\ [Next]_vars => Sync'
<1> SUFFICES ASSUME TypeOK, Sync, [Next]_vars PROVE Sync'
  OBVIOUS
<1> USE DEF Sync, FlagDown, MutexHeld, NoLostWakeup, TakeFinds
<1>t. /\ pc \in [Workers -> {"none", "top", "lock", "test", "park", "wait", "woken",
                             "take", "run", "exit"}]
      /\ mutex_ \in Workers \cup {"free"} /\ "free" \notin Workers
      /\ owner = "idle" => pc = NoThreads
      /\ tasks_ \in Seq(Tasks)
  BY TaskPollAssumption DEF TypeOK
<1>n. \A w \in Workers : Notified[w] = IF pc[w] = "wait" THEN "woken" ELSE pc[w]
  BY DEF Notified
<1>1. CASE Post
  <2>1. tasks_' # <<>>
    BY <1>1, <1>t DEF Post
  <2>2. /\ mutex_ = "free" /\ pc' = Notified
        /\ UNCHANGED <<mutex_, is_stop_>>
    BY <1>1 DEF Post
  <2>3. \A w \in Workers : pc'[w] \notin {"test", "park", "take", "wait"}
    BY <1>t, <1>n, <2>2
  <2> QED
    BY <1>t, <2>1, <2>2, <2>3
<1>2. ASSUME NEW w \in Workers, Enter(w) \/ Spurious(w) \/ Finish(w) PROVE Sync'
  BY <1>2, <1>t DEF Enter, Spurious, Finish
<1>3. ASSUME NEW w \in Workers, Lock(w) PROVE Sync'
  BY <1>3, <1>t DEF Lock
<1>4. ASSUME NEW w \in Workers, Test(w) PROVE Sync'
  BY <1>4, <1>t DEF Test
<1>5. ASSUME NEW w \in Workers, Park(w) PROVE Sync'
  BY <1>5, <1>t DEF Park
<1>6. ASSUME NEW w \in Workers, Take(w) PROVE Sync'
  <2>1. /\ pc[w] = "take" /\ mutex_ = w /\ mutex_' = "free" /\ tasks_ # <<>>
        /\ pc' = [pc EXCEPT ![w] = "run"]
        /\ is_stop_' = is_stop_
    BY <1>6, <1>t DEF Take
  <2>2. \A v \in Workers : pc'[v] \notin {"test", "park", "take", "wait"}
    BY <1>t, <2>1
  <2> QED
    BY <1>t, <2>1, <2>2
<1>7. CASE Start
  <2>1. /\ \A w \in Workers : pc'[w] \in {"top", "none"}
        /\ mutex_ = "free" /\ UNCHANGED <<mutex_, is_stop_>>
    BY <1>7 DEF Start
  <2> QED
    BY <1>t, <2>1
<1>8. CASE StopFlag \/ StopReturn
  BY <1>8 DEF StopFlag, StopReturn
<1>9. CASE StopNotify
  BY <1>9, <1>t, <1>n DEF StopNotify
<1>10. CASE StopClear
  BY <1>10, <1>t DEF StopClear
<1>11. CASE UNCHANGED vars
  BY <1>11 DEF vars
<1> QED
  BY <1>1, <1>2, <1>3, <1>4, <1>5, <1>6, <1>7, <1>8, <1>9, <1>10, <1>11
     DEF Next, Owner, Worker

\* No wake-up is lost and no worker pops an empty deque, for any number of
\* workers, posters and spurious wake-ups.
THEOREM SyncCorrect == Spec => []Monitor
<1>1. Init => Sync
  BY TaskPollAssumption DEF Init, Sync, FlagDown, MutexHeld, NoLostWakeup, TakeFinds, NoThreads
<1>2. Sync => Monitor
  BY DEF Sync, Monitor
<1> QED
  BY <1>1, <1>2, SyncStep, TypeCorrect, PTL DEF Spec

-----------------------------------------------------------------------------
(* Stop(). *)

\* The list Stop() joins is exactly the list of threads, and none of them ends.
LEMMA JoinStep ==
    TypeOK /\ Sync /\ JoinList /\ StopsOnlyEmptyPool /\ [Next]_vars
       => (JoinList /\ StopsOnlyEmptyPool)'
<1> SUFFICES ASSUME TypeOK, Sync, JoinList, StopsOnlyEmptyPool, [Next]_vars
             PROVE  (JoinList /\ StopsOnlyEmptyPool)'
  OBVIOUS
<1> USE DEF JoinList, StopsOnlyEmptyPool
<1>t. /\ pc \in [Workers -> {"none", "top", "lock", "test", "park", "wait", "woken",
                             "take", "run", "exit"}]
      /\ ~is_stop_
      /\ \A w \in Workers : Notified[w] = IF pc[w] = "wait" THEN "woken" ELSE pc[w]
  BY DEF TypeOK, Sync, FlagDown, Notified
<1>1. ASSUME NEW w \in Workers, Worker(w) \/ Spurious(w)
      PROVE  (JoinList /\ StopsOnlyEmptyPool)'
  <2>1. /\ pc[w] # "none" /\ pc'[w] \notin {"none", "exit"}
        /\ \A v \in Workers \ {w} : pc'[v] = pc[v]
        /\ UNCHANGED <<threads_, owner, joining>>
    BY <1>1, <1>t DEF Worker, Enter, Lock, Test, Park, Take, Finish, Spurious
  <2> QED
    BY <2>1
<1>2. CASE Post \/ StopNotify
  BY <1>2, <1>t DEF Post, StopNotify
<1>3. CASE Start
  BY <1>3 DEF Start
<1>4. CASE StopFlag \/ StopClear
  BY <1>4 DEF StopFlag, StopClear
<1>5. CASE StopReturn
  BY <1>5 DEF StopReturn
<1>6. CASE UNCHANGED vars
  BY <1>6 DEF vars
<1> QED
  BY <1>1, <1>2, <1>3, <1>4, <1>5, <1>6 DEF Next, Owner

-----------------------------------------------------------------------------
(* Which task runs, and when. *)

\* What a worker executes it has taken, and took it alone.
Taken == \A w \in Workers : pc[w] = "run" => task[w] \in taken

Order == InPostOrder /\ Taken /\ OneExecution

\* Taking the front task: it is new to the history and precedes what is left.
LEMMA FrontTask ==
    ASSUME TypeOK, InPostOrder, tasks_ # <<>>
    PROVE  /\ Head(tasks_) \in 1..posted /\ Head(tasks_) \notin taken
           /\ Head(tasks_) \notin ToSet(Tail(tasks_))
           /\ ToSet(tasks_) = {Head(tasks_)} \cup ToSet(Tail(tasks_))
           /\ \A i \in 1..Len(Tail(tasks_)) :
                 /\ Head(tasks_) < Tail(tasks_)[i] /\ Tail(tasks_)[i] <= posted
                 /\ \A n \in taken : n < Tail(tasks_)[i]
           /\ \A i, j \in 1..Len(Tail(tasks_)) : i < j => Tail(tasks_)[i] < Tail(tasks_)[j]
<1> DEFINE h == Head(tasks_)
           r == Tail(tasks_)
<1>1. /\ Len(tasks_) \in Nat \ {0} /\ h = tasks_[1] /\ h \in Tasks
      /\ r \in Seq(Tasks) /\ Len(r) = Len(tasks_) - 1
      /\ \A i \in 1..Len(r) : r[i] = tasks_[i + 1]
      /\ ToSet(tasks_) = {h} \cup ToSet(r)
  BY HeadTailProperties, EmptySeq, TailFacts DEF TypeOK
<1> HIDE DEF h, r
<1>2. /\ \A i, j \in 1..Len(tasks_) : i < j => tasks_[i] < tasks_[j]
      /\ \A i \in 1..Len(tasks_) : tasks_[i] <= posted /\ \A n \in taken : n < tasks_[i]
  BY DEF InPostOrder
<1>3. \A i \in 1..Len(r) : i \in Nat /\ i + 1 \in 1..Len(tasks_) /\ 1 < i + 1
  BY <1>1
<1>4. 1 \in 1..Len(tasks_) /\ h \in 1..posted
  BY <1>1, <1>2 DEF TypeOK, Tasks
<1>5. \A i \in 1..Len(r) : h < r[i] /\ r[i] <= posted /\ \A n \in taken : n < r[i]
  BY <1>1, <1>2, <1>3, <1>4
<1>6. \A i, j \in 1..Len(r) : i < j => r[i] < r[j]
  BY <1>1, <1>2, <1>3
<1>7. h \notin taken
  BY <1>1, <1>2, <1>4 DEF Tasks
<1>8. h \notin ToSet(r)
  BY <1>1, <1>5, MemberFacts DEF Tasks
<1> QED
  BY <1>1, <1>4, <1>5, <1>6, <1>7, <1>8 DEF h, r

\* Post() appends the largest number, a worker takes the smallest.
LEMMA OrderStep == TypeOK /\ Sync /\ Order /\ [Next]_vars => Order'
<1> SUFFICES ASSUME TypeOK, Sync, Order, [Next]_vars PROVE Order'
  OBVIOUS
<1>t. /\ pc \in [Workers -> {"none", "top", "lock", "test", "park", "wait", "woken",
                             "take", "run", "exit"}]
      /\ task \in [Workers -> Tasks \cup {0}]
      /\ owner = "idle" => pc = NoThreads
      /\ \A w \in Workers : Notified[w] = "run" <=> pc[w] = "run"
  BY DEF TypeOK, Notified
<1>1. CASE Post
  <2>1. /\ posted \in Nat /\ posted' = posted + 1 /\ posted + 1 \in Tasks
        /\ tasks_ \in Seq(Tasks) /\ tasks_' = Append(tasks_, posted + 1)
        /\ UNCHANGED <<task, taken>> /\ pc' = Notified
    BY <1>1, TaskPollAssumption DEF Post, TypeOK, Tasks
  <2>2. /\ Len(tasks_) \in Nat /\ Len(tasks_') = Len(tasks_) + 1
        /\ \A i \in 1..Len(tasks_) : tasks_'[i] = tasks_[i]
        /\ tasks_'[Len(tasks_) + 1] = posted + 1
    BY <2>1
  <2>3. \A i \in 1..Len(tasks_) : tasks_[i] \in Nat /\ tasks_[i] <= posted
    <3>1. tasks_ \in Seq(Nat)
      BY TaskPollAssumption DEF TypeOK, Tasks
    <3>2. \A i \in 1..Len(tasks_) : tasks_[i] \in Nat
      BY <3>1
    <3> QED
      BY <3>2 DEF Order, InPostOrder
  <2>4. taken \subseteq Nat /\ \A n \in taken : n <= posted
    BY DEF Order, InPostOrder, TypeOK, Tasks
  <2>5. InPostOrder'
    <3>1. \A i, j \in 1..Len(tasks_') : i < j => tasks_'[i] < tasks_'[j]
      BY <2>1, <2>2, <2>3 DEF Order, InPostOrder
    <3>2. \A i \in 1..Len(tasks_') : tasks_'[i] <= posted'
      BY <2>1, <2>2, <2>3
    <3>3. \A n \in taken' : n <= posted' /\ \A i \in 1..Len(tasks_') : n < tasks_'[i]
      BY <2>1, <2>2, <2>3, <2>4 DEF Order, InPostOrder
    <3> QED
      BY <3>1, <3>2, <3>3 DEF InPostOrder
  <2>6. Taken' /\ OneExecution'
    BY <1>t, <2>1 DEF Order, Taken, OneExecution
  <2> QED
    BY <2>5, <2>6 DEF Order
<1>2. ASSUME NEW w \in Workers, Take(w) PROVE Order'
  <2>1. /\ tasks_ # <<>> /\ pc[w] = "take"
        /\ pc' = [pc EXCEPT ![w] = "run"]
        /\ task' = [task EXCEPT ![w] = Head(tasks_)]
        /\ taken' = taken \cup {Head(tasks_)}
        /\ tasks_' = Tail(tasks_) /\ posted' = posted
    BY <1>2 DEF Take, Sync, FlagDown
  <2> DEFINE h == Head(tasks_)
             r == Tail(tasks_)
  <2>2. /\ h \in 1..posted /\ h \notin taken /\ posted \in Nat
        /\ \A i \in 1..Len(r) : h < r[i] /\ r[i] <= posted /\ \A n \in taken : n < r[i]
        /\ \A i, j \in 1..Len(r) : i < j => r[i] < r[j]
    BY <2>1, FrontTask, TaskPollAssumption DEF Order, TypeOK
  <2>3. \A n \in taken : n <= posted
    BY DEF Order, InPostOrder
  <2>4. /\ task' = [task EXCEPT ![w] = h] /\ taken' = taken \cup {h} /\ tasks_' = r
    BY <2>1
  <2> HIDE DEF h, r
  <2>5. InPostOrder'
    <3>1. \A n \in taken' : n <= posted'
      BY <2>1, <2>2, <2>3, <2>4
    <3>2. \A n \in taken' : \A i \in 1..Len(tasks_') : n < tasks_'[i]
      BY <2>2, <2>4
    <3>3. \A i \in 1..Len(tasks_') : tasks_'[i] <= posted'
      BY <2>1, <2>2, <2>4
    <3>4. \A i, j \in 1..Len(tasks_') : i < j => tasks_'[i] < tasks_'[j]
      BY <2>2, <2>4
    <3> QED
      BY <3>1, <3>2, <3>3, <3>4 DEF InPostOrder
  <2>6. Taken'
    BY <1>t, <2>1, <2>4 DEF Order, Taken
  <2>7. OneExecution'
    BY <1>t, <2>1, <2>2, <2>4 DEF Order, Taken, OneExecution
  <2> QED
    BY <2>5, <2>6, <2>7 DEF Order
<1>3. CASE StopClear
  <2>1. tasks_' = <<>> /\ UNCHANGED <<pc, task, posted, taken>>
    BY <1>3 DEF StopClear
  <2>2. Len(tasks_') = 0
    BY <2>1, EmptySeq
  <2>3. InPostOrder'
    BY <2>1, <2>2 DEF Order, InPostOrder
  <2> QED
    BY <2>1, <2>3 DEF Order, Taken, OneExecution
<1>4. ASSUME UNCHANGED <<tasks_, posted, taken>>,
             \A w \in Workers : pc'[w] = "run" => pc[w] = "run" /\ task'[w] = task[w]
      PROVE  Order'
  BY <1>4 DEF Order, InPostOrder, Taken, OneExecution
<1>5. ASSUME NEW w \in Workers,
             Enter(w) \/ Lock(w) \/ Test(w) \/ Park(w) \/ Spurious(w) \/ Finish(w)
      PROVE  Order'
  BY <1>4, <1>5, <1>t DEF Enter, Lock, Test, Park, Spurious, Finish
<1>6. CASE Start \/ StopFlag \/ StopNotify \/ StopReturn
  BY <1>4, <1>6, <1>t DEF Start, StopFlag, StopNotify, StopReturn
<1>7. CASE UNCHANGED vars
  BY <1>4, <1>7 DEF vars
<1> QED
  BY <1>1, <1>2, <1>3, <1>5, <1>6, <1>7 DEF Next, Owner, Worker

\* Tasks are executed at most once, each by one worker, and leave the pool in
\* the order in which they were posted.
THEOREM OrderCorrect == Spec => []Fifo
<1>1. Init => Sync
  BY TaskPollAssumption DEF Init, Sync, FlagDown, MutexHeld, NoLostWakeup, TakeFinds, NoThreads
<1>2. Init => Order
  <2> SUFFICES ASSUME Init PROVE Order
    OBVIOUS
  <2>1. Len(tasks_) = 0
    BY EmptySeq DEF Init
  <2>2. taken = {} /\ \A w \in Workers : pc[w] = "none"
    BY DEF Init, NoThreads
  <2> QED
    BY <2>1, <2>2 DEF Order, InPostOrder, Taken, OneExecution
<1>3. Order => Fifo
  BY DEF Order, Fifo
<1> QED
  BY <1>1, <1>2, <1>3, SyncStep, OrderStep, TypeCorrect, PTL DEF Spec

-----------------------------------------------------------------------------
(* Refinement. *)

IInv == TypeOK /\ Sync /\ JoinList /\ StopsOnlyEmptyPool /\ Order

\* The inductive invariant holds of every reachable state: shape, use of the
\* mutex, the list of joined threads, Stop() and the order of tasks.
THEOREM IInvCorrect == Spec => []IInv
<1>1. Init => JoinList /\ StopsOnlyEmptyPool /\ Sync
  BY TaskPollAssumption DEF Init, Sync, FlagDown, MutexHeld, NoLostWakeup, TakeFinds,
     JoinList, StopsOnlyEmptyPool, NoThreads
<1>2. Init => Taken
  BY DEF Init, Taken, NoThreads
<1>3. TypeOK /\ Sync /\ Order /\ JoinList /\ StopsOnlyEmptyPool /\ [Next]_vars
         => (Sync /\ Order /\ JoinList /\ StopsOnlyEmptyPool)'
  BY SyncStep, OrderStep, JoinStep
<1>4. Spec => []Fifo
  BY OrderCorrect
<1>5. Init /\ Fifo => Order
  BY <1>2 DEF Order, Fifo
<1>6. TypeOK /\ Sync /\ Order /\ JoinList /\ StopsOnlyEmptyPool => IInv
  BY DEF IInv
<1> QED
  BY <1>1, <1>3, <1>4, <1>5, <1>6, TypeCorrect, PTL DEF Spec

\* The numbers of the tasks in the deque.
LEMMA QueuedTasks ==
    ASSUME IInv
    PROVE  /\ ToSet(tasks_) \subseteq 1..posted /\ ToSet(tasks_) \cap taken = {}
           /\ 1..posted \subseteq Tasks /\ taken \subseteq 1..posted
           /\ Running \subseteq taken
<1>1. /\ posted \in 0..MaxPosts /\ MaxPosts \in Nat /\ tasks_ \in Seq(Tasks)
      /\ taken \subseteq Tasks
  BY TaskPollAssumption DEF IInv, TypeOK
<1>2. /\ \A i \in 1..Len(tasks_) : tasks_[i] <= posted /\ \A n \in taken : n < tasks_[i]
      /\ \A n \in taken : n <= posted
  BY DEF IInv, Order, InPostOrder
<1>3. ASSUME NEW e \in ToSet(tasks_) PROVE e \in 1..posted /\ e \notin taken
  <2>1. PICK i \in 1..Len(tasks_) : e = tasks_[i]
    BY <1>1, MemberFacts
  <2>2. e \in Tasks
    BY <1>1, ElementsInside
  <2> QED
    BY <1>1, <1>2, <2>1, <2>2 DEF Tasks
<1>4. 1..posted \subseteq Tasks /\ taken \subseteq 1..posted
  BY <1>1, <1>2 DEF Tasks
<1>5. Running \subseteq taken
  BY DEF IInv, Order, Taken, Running
<1> QED
  BY <1>3, <1>4, <1>5

\* Every step of the pool is a step of an Executor, or none.
LEMMA RefinementStep == IInv /\ [Next]_vars => [Exec!Next]_(Exec!vars)
<1> SUFFICES ASSUME IInv, [Next]_vars PROVE [Exec!Next]_(Exec!vars)
  OBVIOUS
<1> DEFINE queued == ToSet(tasks_)
           dropped == 1..posted \ (queued \cup taken)
<1>t. /\ pc \in [Workers -> {"none", "top", "lock", "test", "park", "wait", "woken",
                             "take", "run", "exit"}]
      /\ task \in [Workers -> Tasks \cup {0}]
      /\ \A w \in Workers : pc[w] = "run" <=> task[w] # 0
      /\ owner = "idle" => pc = NoThreads
      /\ \A w \in Workers : Notified[w] = "run" <=> pc[w] = "run"
      /\ tasks_ \in Seq(Tasks)
  BY DEF IInv, TypeOK, Notified
<1>q. /\ queued \subseteq 1..posted /\ queued \cap taken = {}
      /\ 1..posted \subseteq Tasks /\ taken \subseteq 1..posted
      /\ Running \subseteq taken
  BY QueuedTasks
<1>1. CASE Post
  <2> DEFINE n == posted + 1
  <2>1. /\ n \in Tasks /\ n \notin 1..posted /\ 1..posted' = 1..posted \cup {n}
        /\ (owner' = "stopped") = (owner = "stopped")
    BY <1>1, TaskPollAssumption DEF Post, IInv, TypeOK, Tasks
  <2>2. queued' = queued \cup {n}
    BY <1>1, <1>t, <2>1, AppendFacts DEF Post
  <2>3. UNCHANGED <<task, taken>> /\ pc' = Notified
    BY <1>1 DEF Post
  <2>4. Running' = Running
    BY <1>t, <2>3 DEF Running
  <2> HIDE DEF n, queued
  <2>5. dropped' = dropped /\ (taken \ Running)' = taken \ Running
    BY <1>q, <2>1, <2>2, <2>3, <2>4
  <2>6. n \notin queued \cup Running \cup (taken \ Running) \cup dropped
    BY <1>q, <2>1
  <2> HIDE DEF dropped
  <2>7. Exec!Submit(n)
    BY <2>1, <2>2, <2>4, <2>5, <2>6 DEF Exec!Submit, Exec!Fresh, queued, dropped
  <2> QED
    BY <2>1, <2>7 DEF Exec!Next
<1>2. ASSUME NEW w \in Workers, Take(w) PROVE Exec!Next
  <2> DEFINE h == Head(tasks_)
             r == Tail(tasks_)
  <2>1. /\ tasks_ # <<>> /\ pc[w] = "take"
        /\ pc' = [pc EXCEPT ![w] = "run"]
        /\ task' = [task EXCEPT ![w] = h]
        /\ taken' = taken \cup {h}
        /\ tasks_' = r /\ posted' = posted /\ owner' = owner
    BY <1>2 DEF Take, IInv, Sync, FlagDown
  <2>2. h \in 1..posted /\ h \notin taken /\ h \notin ToSet(r) /\ queued = {h} \cup ToSet(r)
    BY <2>1, FrontTask DEF IInv, Order
  <2>3. owner # "stopped"
    BY <2>1 DEF IInv, StopsOnlyEmptyPool
  <2> HIDE DEF h
  <2>4. queued' = ToSet(r)
    BY <2>1
  <2> HIDE DEF queued, r
  <2>5. Running' = Running \cup {h}
    BY <1>t, <2>1 DEF Running
  <2>6. /\ queued' = queued \ {h} /\ h \in queued
        /\ dropped' = dropped /\ (taken \ Running)' = taken \ Running
    BY <1>q, <2>1, <2>2, <2>4, <2>5
  <2> HIDE DEF dropped
  <2>7. Exec!Start(h)
    BY <2>1, <2>3, <2>5, <2>6 DEF Exec!Start, queued, dropped
  <2> QED
    BY <1>q, <2>2, <2>7 DEF Exec!Next
<1>3. ASSUME NEW w \in Workers, Finish(w) PROVE Exec!Next
  <2>1. /\ pc[w] = "run" /\ task' = [task EXCEPT ![w] = 0] /\ pc' = [pc EXCEPT ![w] = "top"]
        /\ UNCHANGED <<tasks_, posted, taken, owner>>
    BY <1>3 DEF Finish
  <2>2. \A v \in Workers \ {w} : pc[v] = "run" => task[v] # task[w]
    BY <2>1 DEF IInv, Order, OneExecution
  <2>3. task[w] \in Running /\ Running' = Running \ {task[w]}
    BY <1>t, <2>1, <2>2 DEF Running
  <2>4. (taken \ Running)' = (taken \ Running) \cup {task[w]} /\ task[w] \in Tasks
    BY <1>q, <2>1, <2>3
  <2>5. queued' = queued \ {} /\ dropped' = dropped \cup {}
    BY <2>1
  <2> HIDE DEF queued, dropped
  <2>6. Exec!Finish(task[w], {})
    BY <2>1, <2>3, <2>4, <2>5 DEF Exec!Finish, queued, dropped
  <2> QED
    BY <2>4, <2>6 DEF Exec!Next
<1>4. CASE StopClear
  <2>1. UNCHANGED <<pc, task, posted, taken>> /\ owner # "stopped" /\ owner' # "stopped"
    BY <1>4 DEF StopClear
  <2>2. queued' = {}
    BY <1>4, EmptyFacts DEF StopClear
  <2>3. Running' = Running
    BY <2>1 DEF Running
  <2> HIDE DEF queued
  <2>4. /\ dropped' = dropped \cup queued /\ (taken \ Running)' = taken \ Running
        /\ queued' = queued \ queued
    BY <1>q, <2>1, <2>2, <2>3
  <2> HIDE DEF dropped
  <2>5. Exec!Drop(queued)
    BY <2>1, <2>3, <2>4 DEF Exec!Drop, queued, dropped
  <2> QED
    BY <1>q, <2>5 DEF Exec!Next
<1>5. CASE StopReturn
  <2>1. /\ UNCHANGED <<pc, task, tasks_, posted, taken>> /\ owner' = "stopped"
        /\ owner = "join" /\ \A w \in joining : pc[w] = "exit"
    BY <1>5 DEF StopReturn
  <2>2. \A w \in Workers : pc[w] = "none"
    BY <2>1 DEF IInv, JoinList
  <2>3. Running = {} /\ Running' = {}
    BY <2>1, <2>2 DEF Running
  <2>4. queued' = queued \ {} /\ dropped' = dropped \cup {} /\ (taken \ Running)' = taken \ Running
    BY <2>1, <2>3
  <2> HIDE DEF queued, dropped
  <2>5. Exec!Close({})
    BY <2>1, <2>3, <2>4 DEF Exec!Close, queued, dropped
  <2> QED
    BY <2>5 DEF Exec!Next
<1>6. ASSUME UNCHANGED <<tasks_, posted, taken>>,
             (owner' = "stopped") = (owner = "stopped"),
             \A w \in Workers : (pc'[w] = "run" <=> pc[w] = "run") /\ task'[w] = task[w]
      PROVE  UNCHANGED Exec!vars
  <2>1. Running' = Running
    BY <1>6 DEF Running
  <2> QED
    BY <1>6, <2>1 DEF Exec!vars
<1>7. ASSUME NEW w \in Workers,
             Enter(w) \/ Lock(w) \/ Test(w) \/ Park(w) \/ Spurious(w)
      PROVE  UNCHANGED Exec!vars
  BY <1>6, <1>7, <1>t DEF Enter, Lock, Test, Park, Spurious
<1>8. CASE Start \/ StopFlag \/ StopNotify \/ UNCHANGED vars
  <2>1. Start => \A w \in Workers : pc[w] # "run" /\ pc'[w] # "run"
    BY <1>t DEF Start, NoThreads
  <2> QED
    BY <1>6, <1>8, <1>t, <2>1 DEF Start, StopFlag, StopNotify, vars
<1> QED
  BY <1>1, <1>2, <1>3, <1>4, <1>5, <1>7, <1>8 DEF Next, Owner, Worker

\* TaskPoll keeps the promise of an Executor.
THEOREM Refinement == Spec => ImplementsExecutor
<1>1. Init => Exec!Init
  <2> SUFFICES ASSUME Init PROVE Exec!Init
    OBVIOUS
  <2>1. /\ ToSet(tasks_) = {} /\ posted = 0 /\ taken = {} /\ owner = "idle"
        /\ \A w \in Workers : pc[w] = "none"
    BY EmptyFacts DEF Init, NoThreads
  <2>2. Running = {} /\ 1..posted = {}
    BY <2>1 DEF Running
  <2> QED
    BY <2>1, <2>2 DEF Exec!Init
<1>2. IInv /\ [Next]_vars => [Exec!Next]_(Exec!vars)
  BY RefinementStep
<1> QED
  BY <1>1, <1>2, IInvCorrect, PTL DEF Spec, ImplementsExecutor, Exec!Spec
=============================================================================
