-------------------------- MODULE DispatcherProofs --------------------------
(***************************************************************************)
(* Machine-checked facts about Dispatcher for any set of worker threads,   *)
(* any batch size and any number of callbacks.                             *)
(***************************************************************************)
EXTENDS Dispatcher, QueueLemmas

\* Every step keeps the shape of the state.
LEMMA TypeStep == TypeOK /\ [Next]_vars => TypeOK'
<1> SUFFICES ASSUME TypeOK, [Next]_vars PROVE TypeOK'
  OBVIOUS
<1> USE DispatcherAssumption DEF TypeOK, Callbacks
<1>1. CASE Post
  <2>1. posted + 1 \in Callbacks
    BY <1>1 DEF Post
  <2>2. port' \in Seq(Callbacks)
    BY <1>1, <2>1, AppendFacts DEF Post
  <2> QED
    BY <1>1, <2>2 DEF Post
<1>2. CASE PostFails
  BY <1>2 DEF PostFails
<1>3. ASSUME NEW t \in Threads, Begin(t) PROVE TypeOK'
  BY <1>3 DEF Begin
<1>4. ASSUME NEW t \in Threads, Dequeue(t) PROVE TypeOK'
  <2>1. PICK n \in 1..BatchSize :
           /\ n <= Len(port)
           /\ entrys' = [entrys EXCEPT ![t] = SubSeq(port, 1, n)]
           /\ port' = SubSeq(port, n + 1, Len(port))
    BY <1>4 DEF Dequeue
  <2> DEFINE b == SubSeq(port, 1, n)
  <2>2. b \in Seq(Callbacks) /\ b # <<>> /\ port' \in Seq(Callbacks)
    <3>1. n \in 1..Len(port)
      BY <2>1
    <3> QED
      BY <2>1, <3>1, SplitFacts
  <2> HIDE DEF b
  <2>3. entrys' = [entrys EXCEPT ![t] = b]
    BY <2>1 DEF b
  <2> QED
    BY <1>4, <2>2, <2>3 DEF Dequeue
<1>5. ASSUME NEW t \in Threads, Alerted(t) PROVE TypeOK'
  BY <1>5 DEF Alerted
<1>6. ASSUME NEW t \in Threads, Invoke(t) PROVE TypeOK'
  BY <1>6 DEF Invoke
<1>7. ASSUME NEW t \in Threads, Return(t) PROVE TypeOK'
  <2>1. entrys[t] \in Seq(Callbacks) /\ entrys[t] # <<>>
    BY <1>7 DEF Return
  <2> DEFINE r == Tail(entrys[t])
             h == Head(entrys[t])
  <2>2. h \in Callbacks /\ r \in Seq(Callbacks) /\ (r = <<>> <=> Len(entrys[t]) = 1)
    BY <2>1, TailFacts
  <2> HIDE DEF r, h
  <2>3. entrys' = [entrys EXCEPT ![t] = r] /\ freed' = freed \cup {h}
    BY <1>7 DEF Return, r, h
  <2> QED
    BY <1>7, <2>2, <2>3 DEF Return
<1>8. ASSUME NEW t \in Threads, Throw(t) PROVE TypeOK'
  <2>1. entrys[t] \in Seq(Callbacks) /\ entrys[t] # <<>>
    BY <1>8 DEF Throw
  <2> DEFINE r == Tail(entrys[t])
             h == Head(entrys[t])
  <2>2. h \in Callbacks /\ ToSet(r) \subseteq Callbacks
    BY <2>1, TailFacts, ElementsInside
  <2> HIDE DEF r, h
  <2>3. freed' = freed \cup {h} /\ leaked' = leaked \cup ToSet(r)
    BY <1>8 DEF Throw, r, h
  <2> DEFINE e == <<>>
  <2>4. e \in Seq(Callbacks) /\ (e = <<>>)
    BY EmptySeq
  <2>5. entrys' = [entrys EXCEPT ![t] = e]
    BY <1>8 DEF Throw
  <2> HIDE DEF e
  <2> QED
    BY <1>8, <2>2, <2>3, <2>4, <2>5 DEF Throw
<1>9. CASE Stop \/ Signalled
  BY <1>9 DEF Stop, Signalled
<1>10. ASSUME NEW t \in Threads, Signal(t) \/ Join(t) PROVE TypeOK'
  BY <1>10 DEF Signal, Join
<1>11. CASE Close
  <2>1. ToSet(port) \subseteq Callbacks
    BY ElementsInside
  <2>2. leaked' \subseteq Callbacks /\ port' \in Seq(Callbacks)
    BY <1>11, <2>1, EmptySeq DEF Close
  <2> QED
    BY <1>11, <2>2 DEF Close
<1>12. CASE UNCHANGED vars
  BY <1>12 DEF vars
<1> QED
  BY <1>1, <1>2, <1>3, <1>4, <1>5, <1>6, <1>7, <1>8, <1>9, <1>10, <1>11, <1>12
     DEF Next, Stopping, Worker

\* The state of every reachable configuration has its shape.
THEOREM TypeCorrect == Spec => []TypeOK
<1>1. Init => TypeOK
  BY DispatcherAssumption DEF Init, TypeOK, Callbacks
<1> QED
  BY <1>1, TypeStep, PTL DEF Spec

-----------------------------------------------------------------------------
(* Ownership of callback objects.  OwnedOnce and AllAccounted are inductive   *)
(* together: the number of the next post is new only because everything that  *)
(* is owned anywhere is accounted for in 1..posted.                           *)

\* The object the next post() makes is held by nobody yet.
LEMMA FreshCallback ==
    ASSUME TypeOK, AllAccounted
    PROVE  /\ posted + 1 \notin ToSet(port) \cup freed \cup leaked
           /\ \A t \in Threads : posted + 1 \notin ToSet(entrys[t])
           /\ 1..(posted + 1) = 1..posted \cup {posted + 1}
<1>1. posted \in Nat /\ posted + 1 \notin 1..posted
  BY DispatcherAssumption DEF TypeOK
<1>2. 1..(posted + 1) = 1..posted \cup {posted + 1}
  BY <1>1
<1> QED
  BY <1>1, <1>2 DEF AllAccounted

\* Every step hands callback objects on without duplicating or losing one.
LEMMA OwnershipStep == TypeOK /\ Ownership /\ [Next]_vars => Ownership'
<1> SUFFICES ASSUME TypeOK, Ownership, [Next]_vars PROVE Ownership'
  OBVIOUS
<1>t. /\ port \in Seq(Callbacks)
      /\ \A t \in Threads : entrys[t] \in Seq(Callbacks)
      /\ \A t \in Threads : pc[t] \in {"loop", "call"} <=> entrys[t] # <<>>
      /\ DOMAIN entrys = Threads
      /\ entrys = [t \in Threads |-> entrys[t]]
  BY DEF TypeOK
<1>o. /\ IsInjective(port)
      /\ ToSet(port) \cap (freed \cup leaked) = {}
      /\ freed \cap leaked = {}
      /\ \A t \in Threads :
            /\ IsInjective(entrys[t])
            /\ ToSet(entrys[t]) \cap (ToSet(port) \cup freed \cup leaked) = {}
            /\ \A u \in Threads \ {t} : ToSet(entrys[t]) \cap ToSet(entrys[u]) = {}
  BY DEF Ownership, OwnedOnce
<1>a. 1..posted = ToSet(port) \cup freed \cup leaked
                     \cup UNION {ToSet(entrys[t]) : t \in Threads}
  BY DEF Ownership, AllAccounted
<1>f. /\ posted + 1 \notin ToSet(port) \cup freed \cup leaked
      /\ \A t \in Threads : posted + 1 \notin ToSet(entrys[t])
      /\ 1..(posted + 1) = 1..posted \cup {posted + 1}
  BY FreshCallback DEF Ownership
<1>1. CASE Post
  <2>1. posted + 1 \in Callbacks
    BY <1>1, DispatcherAssumption DEF Post, TypeOK, Callbacks
  <2>2. ToSet(port') = ToSet(port) \cup {posted + 1} /\ IsInjective(port')
    BY <1>1, <1>t, <1>o, <1>f, <2>1, AppendFacts DEF Post
  <2>3. posted' = posted + 1 /\ UNCHANGED <<entrys, freed, leaked>>
    BY <1>1 DEF Post
  <2>4. OwnedOnce'
    BY <1>o, <1>f, <2>2, <2>3 DEF OwnedOnce
  <2>5. AllAccounted'
    BY <1>a, <1>f, <2>2, <2>3 DEF AllAccounted
  <2> QED
    BY <2>4, <2>5 DEF Ownership
<1>2. CASE PostFails
  BY <1>2, <1>o, <1>a, <1>f DEF PostFails, Ownership, OwnedOnce, AllAccounted
<1>3. ASSUME NEW t \in Threads, Dequeue(t) PROVE Ownership'
  <2>1. PICK n \in 1..Len(port) :
           /\ entrys' = [entrys EXCEPT ![t] = SubSeq(port, 1, n)]
           /\ port' = SubSeq(port, n + 1, Len(port))
    <3>1. PICK n \in 1..BatchSize :
             /\ n <= Len(port)
             /\ entrys' = [entrys EXCEPT ![t] = SubSeq(port, 1, n)]
             /\ port' = SubSeq(port, n + 1, Len(port))
      BY <1>3 DEF Dequeue
    <3>2. n \in 1..Len(port)
      BY <1>t, <3>1
    <3> QED
      BY <3>1, <3>2
  <2> DEFINE b == SubSeq(port, 1, n)
  <2>2. /\ IsInjective(b) /\ IsInjective(port')
        /\ ToSet(port) = ToSet(b) \cup ToSet(port')
        /\ ToSet(b) \cap ToSet(port') = {}
    BY <1>t, <1>o, <2>1, SplitFacts
  <2>3. entrys[t] = <<>> /\ ToSet(entrys[t]) = {}
    BY <1>3, <1>t, EmptyFacts DEF Dequeue
  <2> HIDE DEF b
  <2>4. entrys'[t] = b /\ \A u \in Threads \ {t} : entrys'[u] = entrys[u]
    BY <1>t, <2>1 DEF b
  <2>5. UNCHANGED <<posted, freed, leaked>>
    BY <1>3 DEF Dequeue
  <2>6. OwnedOnce'
    BY <1>o, <2>2, <2>4, <2>5 DEF OwnedOnce
  <2>7. AllAccounted'
    <3>1. UNION {ToSet(entrys'[u]) : u \in Threads}
             = ToSet(b) \cup UNION {ToSet(entrys[u]) : u \in Threads}
      BY <2>3, <2>4
    <3> QED
      BY <1>a, <2>2, <2>5, <3>1 DEF AllAccounted
  <2> QED
    BY <2>6, <2>7 DEF Ownership
<1>4. ASSUME NEW t \in Threads, Return(t) \/ Throw(t) PROVE Ownership'
  <2> DEFINE h == Head(entrys[t])
             r == Tail(entrys[t])
  <2>1. /\ ToSet(entrys[t]) = {h} \cup ToSet(r)
        /\ h \notin ToSet(r) /\ IsInjective(r)
    BY <1>4, <1>t, <1>o, TailFacts DEF Return, Throw
  <2>2. ToSet(<<>>) = {} /\ IsInjective(<<>>)
    BY EmptyFacts
  <2>3. /\ freed' = freed \cup {h}
        /\ UNCHANGED <<posted, port>>
        /\ \A u \in Threads \ {t} : entrys'[u] = entrys[u]
        /\ \/ Return(t) /\ entrys'[t] = r /\ leaked' = leaked
           \/ Throw(t) /\ entrys'[t] = <<>> /\ leaked' = leaked \cup ToSet(r)
    BY <1>4, <1>t DEF Return, Throw
  <2> HIDE DEF h, r
  <2>4. /\ IsInjective(entrys'[t])
        /\ ToSet(entrys'[t]) \subseteq ToSet(r)
        /\ ToSet(entrys'[t]) \cup leaked' = ToSet(r) \cup leaked
        /\ ToSet(entrys'[t]) \cap leaked' = {}
    BY <1>o, <2>1, <2>2, <2>3
  <2>5. OwnedOnce'
    <3>1. ToSet(port') \cap (freed' \cup leaked') = {} /\ freed' \cap leaked' = {}
      BY <1>o, <2>1, <2>3
    <3>2. ASSUME NEW u \in Threads
          PROVE  /\ IsInjective(entrys'[u])
                 /\ ToSet(entrys'[u]) \cap (ToSet(port') \cup freed' \cup leaked') = {}
      <4>1. CASE u = t
        BY <1>o, <2>1, <2>3, <2>4, <4>1
      <4>2. CASE u # t
        BY <1>o, <2>1, <2>3, <4>2
      <4> QED
        BY <4>1, <4>2
    <3>3. ASSUME NEW u \in Threads, NEW v \in Threads \ {u}
          PROVE  ToSet(entrys'[u]) \cap ToSet(entrys'[v]) = {}
      <4>1. ASSUME NEW w \in Threads PROVE ToSet(entrys'[w]) \subseteq ToSet(entrys[w])
        BY <2>1, <2>3, <2>4
      <4> QED
        BY <1>o, <4>1
    <3> QED
      BY <1>o, <2>3, <3>1, <3>2, <3>3 DEF OwnedOnce
  <2>6. AllAccounted'
    <3>1. UNION {ToSet(entrys[u]) : u \in Threads}
             = {h} \cup ToSet(r) \cup UNION {ToSet(entrys[u]) : u \in Threads \ {t}}
      BY <2>1
    <3>2. UNION {ToSet(entrys'[u]) : u \in Threads}
             = ToSet(entrys'[t]) \cup UNION {ToSet(entrys[u]) : u \in Threads \ {t}}
      BY <2>3
    <3> QED
      BY <1>a, <2>3, <2>4, <3>1, <3>2 DEF AllAccounted
  <2> QED
    BY <2>5, <2>6 DEF Ownership
<1>5. CASE Close
  <2>1. ToSet(port') = {} /\ IsInjective(port') /\ leaked' = leaked \cup ToSet(port)
    BY <1>5, EmptyFacts DEF Close
  <2> QED
    BY <1>5, <1>o, <1>a, <2>1 DEF Close, Ownership, OwnedOnce, AllAccounted
<1>6. ASSUME UNCHANGED <<posted, port, entrys, freed, leaked>> PROVE Ownership'
  BY <1>6 DEF Ownership, OwnedOnce, AllAccounted
<1>7. ASSUME NEW t \in Threads, Begin(t) \/ Alerted(t) \/ Invoke(t) \/ Signal(t) \/ Join(t)
      PROVE  Ownership'
  BY <1>6, <1>7 DEF Begin, Alerted, Invoke, Signal, Join
<1>8. CASE Stop \/ Signalled \/ UNCHANGED vars
  BY <1>6, <1>8 DEF Stop, Signalled, vars
<1> QED
  BY <1>1, <1>2, <1>3, <1>4, <1>5, <1>7, <1>8 DEF Next, Stopping, Worker

\* Every callback object ever made has exactly one owner.
THEOREM OwnershipCorrect == Spec => []Ownership
<1>1. Init => TypeOK /\ Ownership
  <2> SUFFICES ASSUME Init PROVE TypeOK /\ Ownership
    OBVIOUS
  <2>1. TypeOK
    BY DispatcherAssumption DEF Init, TypeOK, Callbacks
  <2>2. 1..posted = {}
    BY DEF Init
  <2> QED
    BY <2>1, <2>2, EmptyFacts DEF Init, Ownership, OwnedOnce, AllAccounted
<1>2. TypeOK /\ Ownership /\ [Next]_vars => (TypeOK /\ Ownership)'
  BY TypeStep, OwnershipStep
<1> QED
  BY <1>1, <1>2, PTL DEF Spec

-----------------------------------------------------------------------------
(* The stop protocol. *)

\* A worker that has ended stays ended, so what a join found remains true.
LEMMA JoinedStep == TypeOK /\ Joined /\ [Next]_vars => Joined'
<1> SUFFICES ASSUME TypeOK, Joined, [Next]_vars PROVE Joined'
  OBVIOUS
<1>t. pc \in [Threads -> {"new", "wait", "loop", "call", "exit"}] /\ todo \subseteq Threads
  BY DEF TypeOK
<1>1. ASSUME NEW t \in Threads, Worker(t) PROVE Joined'
  <2>1. pc[t] # "exit" /\ stop' = stop /\ todo' = todo
        /\ \A u \in Threads \ {t} : pc'[u] = pc[u]
    BY <1>t, <1>1 DEF Worker, Begin, Dequeue, Alerted, Invoke, Return, Throw
  <2> QED
    BY <2>1 DEF Joined
<1>2. ASSUME NEW t \in Threads, Signal(t) \/ Join(t) PROVE Joined'
  BY <1>t, <1>2 DEF Signal, Join, Joined
<1>3. CASE Stop \/ Signalled \/ Close
  BY <1>t, <1>3 DEF Stop, Signalled, Close, Joined
<1>4. CASE Post \/ PostFails \/ UNCHANGED vars
  BY <1>4 DEF Post, PostFails, vars, Joined
<1> QED
  BY <1>1, <1>2, <1>3, <1>4 DEF Next, Stopping

\* An APC is taken by ending, or before the worker waits; it is never lost in
\* any other way.
LEMMA WakeupStep == TypeOK /\ WakeupPending /\ [Next]_vars => WakeupPending'
<1> SUFFICES ASSUME TypeOK, WakeupPending, [Next]_vars PROVE WakeupPending'
  OBVIOUS
<1>t. pc \in [Threads -> {"new", "wait", "loop", "call", "exit"}]
  BY DEF TypeOK
<1>1. ASSUME NEW t \in Threads, Worker(t) PROVE WakeupPending'
  <2>1. CASE Begin(t)
    BY <1>t, <2>1 DEF Begin, WakeupPending
  <2>2. CASE Alerted(t)
    BY <1>t, <2>2 DEF Alerted, WakeupPending
  <2>3. CASE Dequeue(t) \/ Invoke(t) \/ Return(t) \/ Throw(t)
    BY <1>t, <2>3 DEF Dequeue, Invoke, Return, Throw, WakeupPending
  <2> QED
    BY <1>1, <2>1, <2>2, <2>3 DEF Worker
<1>2. ASSUME NEW t \in Threads, Signal(t) \/ Join(t) PROVE WakeupPending'
  BY <1>t, <1>2 DEF Signal, Join, WakeupPending
<1>3. CASE Stop \/ Signalled \/ Close
  BY <1>3 DEF Stop, Signalled, Close, WakeupPending
<1>4. CASE Post \/ PostFails \/ UNCHANGED vars
  BY <1>4 DEF Post, PostFails, vars, WakeupPending
<1> QED
  BY <1>1, <1>2, <1>3, <1>4 DEF Next, Stopping

\* While the destructor joins, every worker it waits for has ended or has a
\* reason to end, or missed its APC; and it never passes a running worker.
THEOREM StopProtocol == Spec => []StopSound
<1>1. Init => TypeOK /\ WakeupPending /\ Joined
  BY DispatcherAssumption DEF Init, TypeOK, Callbacks, WakeupPending, Joined
<1> QED
  BY <1>1, TypeStep, JoinedStep, WakeupStep, PTL DEF Spec, StopSound

-----------------------------------------------------------------------------
(* Refinement. *)

\* The state a step starts from: everything the refinement relies on.
IInv == TypeOK /\ Ownership /\ Joined

\* The inductive invariant holds of every reachable state: shape, ownership and
\* the fact that a joined worker has ended.
THEOREM IInvCorrect == Spec => []IInv
<1>1. Init => Joined
  BY DEF Init, Joined
<1> QED
  BY <1>1, TypeCorrect, OwnershipCorrect, JoinedStep, PTL DEF Spec, IInv

\* A worker's batch is the callback it is running, if any, and those that wait.
LEMMA BatchSplit ==
    ASSUME IInv, NEW t \in Threads
    PROVE  /\ pc[t] # "call" => Waiting(t) = ToSet(entrys[t])
           /\ pc[t] \in {"loop", "call"} =>
                 /\ Head(entrys[t]) \in Callbacks
                 /\ Head(entrys[t]) \notin ToSet(Tail(entrys[t]))
                 /\ ToSet(entrys[t]) = {Head(entrys[t])} \cup ToSet(Tail(entrys[t]))
           /\ pc[t] = "call" => Waiting(t) = ToSet(Tail(entrys[t]))
           /\ pc[t] \notin {"loop", "call"} => Waiting(t) = {}
           /\ Waiting(t) \subseteq ToSet(entrys[t])
           /\ ToSet(entrys[t]) \subseteq Callbacks
<1>1. entrys[t] \in Seq(Callbacks) /\ (pc[t] \in {"loop", "call"} <=> entrys[t] # <<>>)
  BY DEF IInv, TypeOK
<1>2. IsInjective(entrys[t])
  BY DEF IInv, Ownership, OwnedOnce
<1>3. entrys[t] # <<>> =>
         /\ Head(entrys[t]) \in Callbacks
         /\ Head(entrys[t]) \notin ToSet(Tail(entrys[t]))
         /\ ToSet(entrys[t]) = {Head(entrys[t])} \cup ToSet(Tail(entrys[t]))
  BY <1>1, <1>2, TailFacts
<1>4. ToSet(entrys[t]) \subseteq Callbacks
  BY <1>1, ElementsInside
<1>5. pc[t] # "call" => Waiting(t) = ToSet(entrys[t])
  BY DEF Waiting
<1>6. pc[t] = "call" => Waiting(t) = ToSet(Tail(entrys[t]))
  BY DEF Waiting
<1>7. entrys[t] = <<>> => ToSet(entrys[t]) = {}
  BY EmptyFacts
<1> QED
  BY <1>1, <1>3, <1>4, <1>5, <1>6, <1>7

\* What the workers' batches hold, as the abstract pool sees it.
LEMMA BatchesDisjoint ==
    ASSUME IInv, NEW t \in Threads
    PROVE  /\ ToSet(entrys[t]) \cap (ToSet(port) \cup freed \cup leaked) = {}
           /\ \A u \in Threads \ {t} : ToSet(entrys[t]) \cap ToSet(entrys[u]) = {}
           /\ \A u \in Threads : Waiting(u) \subseteq ToSet(entrys[u])
           /\ \A u \in Threads : pc[u] = "call" => Head(entrys[u]) \in ToSet(entrys[u])
<1>1. /\ ToSet(entrys[t]) \cap (ToSet(port) \cup freed \cup leaked) = {}
      /\ \A u \in Threads \ {t} : ToSet(entrys[t]) \cap ToSet(entrys[u]) = {}
  BY DEF IInv, Ownership, OwnedOnce
<1>2. \A u \in Threads : Waiting(u) \subseteq ToSet(entrys[u])
  BY BatchSplit
<1>3. \A u \in Threads : pc[u] = "call" => Head(entrys[u]) \in ToSet(entrys[u])
  BY BatchSplit
<1> QED
  BY <1>1, <1>2, <1>3

\* A step that neither takes nor returns a callback is invisible outside.
LEMMA SilentStep ==
    ASSUME UNCHANGED <<port, entrys, freed, leaked>>,
           stop' = "closed" <=> stop = "closed",
           \A t \in Threads : pc'[t] = "call" <=> pc[t] = "call"
    PROVE  UNCHANGED Exec!vars
<1>1. \A t \in Threads : Waiting(t)' = Waiting(t)
  BY DEF Waiting
<1>2. Pending' = Pending
  BY <1>1 DEF Pending
<1>3. Running' = Running
  BY DEF Running
<1>4. (stop' = "closed") = (stop = "closed")
  OBVIOUS
<1> QED
  BY <1>2, <1>3, <1>4 DEF Exec!vars

\* Every step of the pool is a step of an Executor, or none.
LEMMA RefinementStep == IInv /\ [Next]_vars => [Exec!Next]_(Exec!vars)
<1> SUFFICES ASSUME IInv, [Next]_vars PROVE [Exec!Next]_(Exec!vars)
  OBVIOUS
<1>t. /\ pc \in [Threads -> {"new", "wait", "loop", "call", "exit"}]
      /\ entrys \in [Threads -> Seq(Callbacks)]
      /\ port \in Seq(Callbacks) /\ ToSet(port) \subseteq Callbacks
  BY ElementsInside DEF IInv, TypeOK
<1>1. CASE Post
  <2> DEFINE n == posted + 1
  <2>1. n \in Callbacks /\ (stop' = "closed") = (stop = "closed")
    BY <1>1, DispatcherAssumption DEF Post, IInv, TypeOK, Callbacks
  <2>2. /\ n \notin ToSet(port) \cup freed \cup leaked
        /\ \A t \in Threads : n \notin ToSet(entrys[t])
    BY FreshCallback DEF IInv, Ownership
  <2>3. ToSet(port') = ToSet(port) \cup {n}
    BY <1>1, <1>t, <2>1, AppendFacts DEF Post
  <2> HIDE DEF n
  <2>4. n \notin Pending \cup Running
    BY <2>2, BatchesDisjoint DEF Pending, Running
  <2>5. UNCHANGED <<pc, entrys, freed, leaked>>
    BY <1>1 DEF Post
  <2>6. Pending' = Pending \cup {n} /\ Running' = Running
    BY <2>3, <2>5 DEF Pending, Running, Waiting
  <2>7. Exec!Submit(n)
    BY <2>1, <2>2, <2>4, <2>5, <2>6 DEF Exec!Submit, Exec!Fresh
  <2> QED
    BY <2>1, <2>7 DEF Exec!Next
<1>2. CASE PostFails
  <2> DEFINE n == posted + 1
  <2>1. n \in Callbacks /\ (stop' = "closed") = (stop = "closed")
    BY <1>2, DispatcherAssumption DEF PostFails, IInv, TypeOK, Callbacks
  <2>2. /\ n \notin ToSet(port) \cup freed \cup leaked
        /\ \A t \in Threads : n \notin ToSet(entrys[t])
    BY FreshCallback DEF IInv, Ownership
  <2>3. UNCHANGED <<port, pc, entrys, freed>> /\ leaked' = leaked \cup {n}
    BY <1>2 DEF PostFails
  <2> HIDE DEF n
  <2>4. n \notin Pending \cup Running
    BY <2>2, BatchesDisjoint DEF Pending, Running
  <2>5. Pending' = Pending /\ Running' = Running
    BY <2>3 DEF Pending, Running, Waiting
  <2>6. Exec!Drop({n})
    BY <2>1, <2>2, <2>3, <2>4, <2>5 DEF Exec!Drop, Exec!Fresh
  <2> QED
    BY <2>1, <2>6 DEF Exec!Next
<1>3. ASSUME NEW t \in Threads, Dequeue(t) PROVE UNCHANGED Exec!vars
  <2>1. PICK n \in 1..BatchSize :
           /\ n <= Len(port)
           /\ entrys' = [entrys EXCEPT ![t] = SubSeq(port, 1, n)]
           /\ port' = SubSeq(port, n + 1, Len(port))
    BY <1>3 DEF Dequeue
  <2> DEFINE b == SubSeq(port, 1, n)
  <2>2. ToSet(port) = ToSet(b) \cup ToSet(port')
    <3>1. n \in 1..Len(port)
      BY <1>t, <2>1
    <3> QED
      BY <1>t, <2>1, <3>1, SplitFacts
  <2> HIDE DEF b
  <2>3. /\ entrys'[t] = b /\ pc'[t] = "loop" /\ pc[t] = "wait"
        /\ \A u \in Threads \ {t} : entrys'[u] = entrys[u] /\ pc'[u] = pc[u]
        /\ UNCHANGED <<freed, leaked, stop>>
    BY <1>3, <1>t, <2>1 DEF Dequeue, b
  <2>4. Waiting(t) = {} /\ Waiting(t)' = ToSet(b)
    BY <2>3, BatchSplit DEF Waiting
  <2>5. \A u \in Threads \ {t} : Waiting(u)' = Waiting(u)
    BY <2>3 DEF Waiting
  <2>6. Pending' = Pending
    BY <2>2, <2>4, <2>5 DEF Pending
  <2>7. Running' = Running
    BY <2>3 DEF Running
  <2> QED
    BY <2>3, <2>6, <2>7 DEF Exec!vars
<1>4. ASSUME NEW t \in Threads, Invoke(t) PROVE Exec!Next
  <2> DEFINE h == Head(entrys[t])
  <2>1. /\ pc[t] = "loop" /\ pc'[t] = "call" /\ stop # "closed"
        /\ \A u \in Threads \ {t} : pc'[u] = pc[u]
        /\ UNCHANGED <<port, entrys, freed, leaked, stop>>
    BY <1>4, <1>t DEF Invoke, IInv, Joined
  <2>2. /\ h \in Callbacks /\ h \in Waiting(t)
        /\ Waiting(t)' = Waiting(t) \ {h}
        /\ \A u \in Threads \ {t} : Waiting(u)' = Waiting(u) /\ h \notin Waiting(u)
        /\ h \notin ToSet(port)
    <3>1. Waiting(t)' = ToSet(Tail(entrys[t]))
      BY <2>1 DEF Waiting
    <3>2. \A u \in Threads \ {t} : Waiting(u)' = Waiting(u)
      BY <2>1 DEF Waiting
    <3>3. /\ Waiting(t) = ToSet(entrys[t])
          /\ ToSet(entrys[t]) = {h} \cup ToSet(Tail(entrys[t]))
          /\ h \in Callbacks /\ h \notin ToSet(Tail(entrys[t]))
      BY <2>1, BatchSplit
    <3>4. /\ h \notin ToSet(port)
          /\ \A u \in Threads \ {t} : h \notin Waiting(u)
      BY <3>3, BatchesDisjoint
    <3> HIDE DEF h
    <3> QED
      BY <3>1, <3>2, <3>3, <3>4
  <2>3. Running' = Running \cup {h}
    BY <2>1 DEF Running
  <2> HIDE DEF h
  <2>4. h \in Pending /\ Pending' = Pending \ {h}
    BY <2>1, <2>2 DEF Pending
  <2>5. Exec!Start(h)
    BY <2>1, <2>3, <2>4 DEF Exec!Start
  <2> QED
    BY <2>2, <2>5 DEF Exec!Next
<1>5. ASSUME NEW t \in Threads, Return(t) \/ Throw(t) PROVE Exec!Next
  <2> DEFINE h == Head(entrys[t])
             r == Tail(entrys[t])
             D == IF Throw(t) THEN ToSet(r) ELSE {}
  <2>1. /\ pc[t] = "call" /\ pc'[t] # "call"
        /\ \A u \in Threads \ {t} : pc'[u] = pc[u] /\ entrys'[u] = entrys[u]
        /\ freed' = freed \cup {h}
        /\ UNCHANGED <<port, stop>>
    BY <1>5, <1>t DEF Return, Throw
  <2>2. /\ h \in Callbacks /\ h \notin ToSet(r) /\ Waiting(t) = ToSet(r)
        /\ ToSet(entrys[t]) = {h} \cup ToSet(r)
        /\ ToSet(r) \subseteq Callbacks
    BY <2>1, BatchSplit
  <2>3. Waiting(t)' = Waiting(t) \ D /\ leaked' = leaked \cup D
    <3>1. Waiting(t)' = ToSet(entrys'[t])
      BY <2>1 DEF Waiting
    <3>2. CASE Throw(t)
      <4>1. entrys'[t] = <<>> /\ leaked' = leaked \cup ToSet(r)
        BY <1>t, <3>2 DEF Throw
      <4> QED
        BY <2>2, <3>1, <3>2, <4>1, EmptyFacts
    <3>3. CASE ~Throw(t)
      <4>1. entrys'[t] = r /\ leaked' = leaked
        BY <1>5, <1>t, <3>3 DEF Return
      <4> QED
        BY <2>2, <3>1, <3>3, <4>1
    <3> QED
      BY <3>2, <3>3
  <2>4. D \subseteq ToSet(r)
    OBVIOUS
  <2>5. /\ ToSet(r) \cap ToSet(port) = {}
        /\ \A u \in Threads \ {t} : ToSet(r) \cap Waiting(u) = {}
        /\ \A u \in Threads \ {t} : pc[u] = "call" => Head(entrys[u]) # h
    BY <2>2, BatchesDisjoint
  <2>6. \A u \in Threads \ {t} : Waiting(u)' = Waiting(u)
    BY <2>1 DEF Waiting
  <2> HIDE DEF h, r, D
  <2>7. Pending' = Pending \ D /\ D \subseteq Pending
    BY <2>1, <2>2, <2>3, <2>4, <2>5, <2>6 DEF Pending
  <2>8. h \in Running /\ Running' = Running \ {h}
    BY <2>1, <2>5 DEF Running, h
  <2>9. Exec!Finish(h, D)
    BY <2>1, <2>3, <2>7, <2>8 DEF Exec!Finish
  <2> QED
    BY <2>2, <2>4, <2>9 DEF Exec!Next
<1>6. CASE Close
  <2>1. \A t \in Threads : pc[t] = "exit" /\ Waiting(t) = {}
    BY <1>6, <1>t, BatchSplit DEF Close, IInv, Joined
  <2>2. /\ UNCHANGED <<pc, entrys, freed>> /\ stop' = "closed"
        /\ leaked' = leaked \cup ToSet(port) /\ ToSet(port') = {}
    BY <1>6, EmptyFacts DEF Close
  <2>3. \A t \in Threads : Waiting(t)' = {}
    BY <2>1, <2>2 DEF Waiting
  <2>4. Running = {} /\ Running' = {} /\ Pending = ToSet(port) /\ Pending' = {}
    BY <2>1, <2>2, <2>3 DEF Running, Pending
  <2>5. Exec!Close(ToSet(port))
    BY <2>2, <2>4 DEF Exec!Close
  <2> QED
    BY <1>t, <2>5 DEF Exec!Next
<1>7. ASSUME NEW t \in Threads, Begin(t) \/ Alerted(t) \/ Signal(t) \/ Join(t)
      PROVE  UNCHANGED Exec!vars
  <2>1. /\ UNCHANGED <<port, entrys, freed, leaked, stop>>
        /\ \A u \in Threads : pc'[u] = "call" <=> pc[u] = "call"
    BY <1>7, <1>t DEF Begin, Alerted, Signal, Join
  <2> QED
    BY <2>1, SilentStep
<1>8. CASE Stop \/ Signalled \/ UNCHANGED vars
  <2>1. /\ UNCHANGED <<port, pc, entrys, freed, leaked>>
        /\ stop' = "closed" <=> stop = "closed"
    BY <1>8 DEF Stop, Signalled, vars
  <2> QED
    BY <2>1, SilentStep
<1> QED
  BY <1>1, <1>2, <1>3, <1>4, <1>5, <1>6, <1>7, <1>8 DEF Next, Stopping, Worker

\* The completion-port pool keeps the promise of an Executor.
THEOREM Refinement == Spec => ImplementsExecutor
<1>1. Init => Exec!Init
  <2> SUFFICES ASSUME Init PROVE Exec!Init
    OBVIOUS
  <2>1. Pending = {} /\ Running = {}
    BY EmptyFacts DEF Init, Pending, Running, Waiting
  <2> QED
    BY <2>1 DEF Init, Exec!Init
<1>2. IInv /\ [Next]_vars => [Exec!Next]_(Exec!vars)
  BY RefinementStep
<1> QED
  BY <1>1, <1>2, IInvCorrect, PTL DEF Spec, ImplementsExecutor, Exec!Spec
=============================================================================
