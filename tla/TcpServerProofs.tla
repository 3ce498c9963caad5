-------------------------- MODULE TcpServerProofs ---------------------------
(***************************************************************************)
(* Machine-checked facts about TcpServer for any clients, any length of a  *)
(* message's body, any number of messages and any depth of the stack.      *)
(***************************************************************************)
EXTENDS TcpServer, QueueLemmas, FiniteSetTheorems

Conns == {"none", "backlog", "accepted", "lost", "gone", "open", "done"}

Total(c) == MaxMessages[c] * MessageUnits

\* TypeOK in parts, and that a callback is for some connection.
ListenShape ==
    /\ main \in {"init", "running", "stopped", "exited"}
    /\ acceptor \in {"none", "posted", "lost", "stopped"}
    /\ conn \in [Clients -> Conns]
    /\ end \in [Clients -> {"open", "fin", "rst"}]
UnitsShape ==
    /\ arrived \in [Clients -> Nat] /\ consumed \in [Clients -> Nat]
    /\ \A c \in Clients : consumed[c] <= arrived[c] /\ arrived[c] <= Total(c)
PortShape ==
    /\ want \in [Clients -> {"header", "body"}]
    /\ reading \in [Clients -> {"none", "pending", "queued"}]
    /\ port \in Seq(Completions)
WorkerShape ==
    /\ at \in {"idle", "recv", "unwind"} /\ cur \in Clients \cup {"nobody"}
    /\ at # "idle" => cur \in Clients
    /\ stack \in Seq(Nat) /\ Len(stack) <= StackDepth
    /\ (at = "idle" => stack = <<>>) /\ (at = "unwind" => stack # <<>>)
ResultShape ==
    /\ got \in [Clients -> Nat]
    /\ out \in [Clients -> Seq(Nat)]
    /\ bursts \in [Clients -> SUBSET Nat]
    /\ dead \in {"no", "listen", "header", "body", "overflow"}
Shape == ListenShape /\ UnitsShape /\ PortShape /\ WorkerShape /\ ResultShape

-----------------------------------------------------------------------------
(* Facts about the operators of the model.                                 *)

\* A read asks for at least one unit and at most for a message.
LEMMA Units ==
    /\ BodyUnits \in Nat \ {0} /\ HeaderUnits = 2
    /\ MessageUnits \in Nat /\ MessageUnits = 2 + BodyUnits
    /\ \A c \in Clients : Want(c) \in 1..MessageUnits
BY TcpServerAssumption DEF HeaderUnits, MessageUnits, Want

\* Least is the smaller one.
LEMMA LeastFacts ==
    ASSUME NEW a \in Int, NEW b \in Int
    PROVE  /\ Least(a, b) \in {a, b}
           /\ Least(a, b) <= a /\ Least(a, b) <= b
BY DEF Least

\* What a queued completion looks like.
LEMMA EntryShape ==
    ASSUME NEW e \in Completions
    PROVE  /\ e.kind \in {"accept", "read"} /\ e.c \in Clients
           /\ e.kind = "read" => e.size \in 0..MessageUnits /\ e.ok \in BOOLEAN
BY DEF Completions

\* Completions that the kernel queues have their shape.
LEMMA EntryMade ==
    ASSUME NEW c \in Clients
    PROVE  /\ [kind |-> "accept", c |-> c] \in Completions
           /\ \A n \in 0..MessageUnits, b \in BOOLEAN :
                 [kind |-> "read", c |-> c, size |-> n, ok |-> b] \in Completions
BY DEF Completions

\* The port after an entry is queued.
LEMMA Queued ==
    ASSUME NEW q \in Seq(Completions), NEW e \in Completions
    PROVE  /\ Append(q, e) \in Seq(Completions)
           /\ Len(q) \in Nat /\ Len(Append(q, e)) = Len(q) + 1
           /\ \A k \in 1..Len(q) : Append(q, e)[k] = q[k]
           /\ Append(q, e)[Len(q) + 1] = e
           /\ \A k \in 1..(Len(q) + 1) : k \in 1..Len(q) \/ k = Len(q) + 1
OBVIOUS

\* The port after its first entry is taken.
LEMMA Dequeued ==
    ASSUME NEW q \in Seq(Completions), q # <<>>
    PROVE  /\ Head(q) \in Completions /\ Head(q) = q[1]
           /\ Tail(q) \in Seq(Completions) /\ Len(Tail(q)) = Len(q) - 1
           /\ Len(q) \in Nat \ {0} /\ 1 \in 1..Len(q)
           /\ \A k \in 1..Len(Tail(q)) : k + 1 \in 1..Len(q) /\ Tail(q)[k] = q[k + 1]
           /\ \A k \in 1..Len(q) : k = 1 \/ (k - 1 \in 1..Len(Tail(q)) /\ Tail(q)[k - 1] = q[k])
BY HeadTailProperties, EmptySeq

\* A stack after its last element is taken.
LEMMA FrontFacts ==
    ASSUME NEW s \in Seq(Nat), s # <<>>
    PROVE  /\ Front(s) \in Seq(Nat) /\ Len(Front(s)) = Len(s) - 1
           /\ Last(s) \in Nat /\ Last(s) = s[Len(s)]
           /\ Len(s) \in Nat \ {0}
           /\ \A i \in 1..Len(Front(s)) : i \in 1..Len(s) /\ Front(s)[i] = s[i]
           /\ \A i \in 1..Len(s) : i = Len(s) \/ (i \in 1..Len(Front(s)) /\ Front(s)[i] = s[i])
<1>1. PICK n \in Nat \ {0} : n = Len(s)
  BY EmptySeq
<1>2. Front(s) = SubSeq(s, 1, n - 1) /\ Last(s) = s[n]
  BY <1>1 DEF Front, Last
<1>3. \A i \in 1..n : s[i] \in Nat
  BY <1>1
<1>4. n - 1 \in Int /\ 1 \in Int /\ n \in 1..n /\ \A i \in 1..(n - 1) : i \in 1..n
  OBVIOUS
<1>5. /\ SubSeq(s, 1, n - 1) \in Seq(Nat)
      /\ Len(SubSeq(s, 1, n - 1)) = n - 1
      /\ \A i \in 1..(n - 1) : SubSeq(s, 1, n - 1)[i] = s[i]
  <2>1. CASE n = 1
    <3>1. n - 1 < 1 /\ \A i \in 1..(n - 1) : FALSE
      BY <2>1
    <3>2. SubSeq(s, 1, n - 1) = <<>>
      BY <1>4, <3>1, SubSeqEmpty
    <3>3. <<>> \in Seq(Nat) /\ Len(<<>>) = n - 1
      BY <2>1, EmptySeq
    <3> QED
      BY <3>1, <3>2, <3>3
  <2>2. CASE n # 1
    <3>1. 1 <= n - 1 /\ \A i \in 1..(n - 1) : s[i] \in Nat
      BY <1>3, <1>4, <2>2
    <3>2. /\ SubSeq(s, 1, n - 1) \in Seq(Nat)
          /\ Len(SubSeq(s, 1, n - 1)) = n - 1 - 1 + 1
          /\ \A i \in 1..(n - 1 - 1 + 1) : SubSeq(s, 1, n - 1)[i] = s[1 + i - 1]
      BY <1>4, <3>1, SubSeqProperties
    <3>3. n - 1 - 1 + 1 = n - 1 /\ \A i \in 1..(n - 1) : 1 + i - 1 = i
      OBVIOUS
    <3> QED
      BY <3>2, <3>3
  <2> QED
    BY <2>1, <2>2
<1>6. \A i \in 1..n : i = n \/ i \in 1..(n - 1)
  OBVIOUS
<1> QED
  BY <1>1, <1>2, <1>3, <1>4, <1>5, <1>6

\* What AcceptEx does to the connections and the port.
LEMMA AcceptExFacts ==
    ASSUME NEW conns \in [Clients -> Conns], NEW queue \in Seq(Completions),
           AcceptEx(conns, queue)
    PROVE  /\ acceptor' \in {"none", "posted", "lost", "stopped"}
           /\ conn' \in [Clients -> Conns] /\ port' \in Seq(Completions)
           /\ \/ conn' = conns /\ port' = queue
              \/ \E b \in Clients :
                    /\ conns[b] = "backlog"
                    /\ \/ /\ conn' = [conns EXCEPT ![b] = "accepted"]
                          /\ port' = Append(queue, [kind |-> "accept", c |-> b])
                       \/ conn' = [conns EXCEPT ![b] = "lost"] /\ port' = queue
<1>1. CASE acceptor' \in {"posted", "stopped"} /\ conn' = conns /\ port' = queue
  BY <1>1
<1>2. ASSUME NEW b \in Clients, conns[b] = "backlog",
             \/ /\ acceptor' = "none"
                /\ conn' = [conns EXCEPT ![b] = "accepted"]
                /\ port' = Append(queue, [kind |-> "accept", c |-> b])
             \/ /\ acceptor' = "lost"
                /\ conn' = [conns EXCEPT ![b] = "lost"]
                /\ port' = queue
      PROVE  /\ acceptor' \in {"none", "posted", "lost", "stopped"}
             /\ conn' \in [Clients -> Conns] /\ port' \in Seq(Completions)
             /\ \/ /\ conn' = [conns EXCEPT ![b] = "accepted"]
                   /\ port' = Append(queue, [kind |-> "accept", c |-> b])
                \/ conn' = [conns EXCEPT ![b] = "lost"] /\ port' = queue
  <2>1. [kind |-> "accept", c |-> b] \in Completions
    BY EntryMade
  <2>2. Append(queue, [kind |-> "accept", c |-> b]) \in Seq(Completions)
    BY <2>1, Queued
  <2>3. conn' \in [Clients -> Conns]
    BY <1>2 DEF Conns
  <2> QED
    BY <1>2, <2>2, <2>3
<1> QED
  BY <1>1, <1>2 DEF AcceptEx

-----------------------------------------------------------------------------
(* The shape of the state.                                                 *)

\* Completing the outstanding read of c.
LEMMA CompleteShape ==
    ASSUME PortShape, UnitsShape, NEW c \in Clients, NEW n \in 0..MessageUnits,
           NEW ok \in BOOLEAN, Complete(c, n, ok)
    PROVE  /\ reading' \in [Clients -> {"none", "pending", "queued"}]
           /\ port' \in Seq(Completions)
           /\ \/ consumed' = consumed
              \/ consumed' = [consumed EXCEPT ![c] = @ + n]
<1> DEFINE e == [kind |-> "read", c |-> c, size |-> n, ok |-> ok]
<1>1. port \in Seq(Completions) /\ reading \in [Clients -> {"none", "pending", "queued"}]
  BY DEF PortShape
<1>2. Append(port, e) \in Seq(Completions)
  <2>1. e \in Completions
    BY EntryMade
  <2> QED
    BY <1>1, <2>1, Queued
<1> HIDE DEF e
<1>3. CASE reading[c] = "pending"
  <2>1. /\ reading' = [reading EXCEPT ![c] = "queued"]
        /\ consumed' = [consumed EXCEPT ![c] = @ + n]
        /\ port' = Append(port, e)
    BY <1>3 DEF Complete, e
  <2> QED
    BY <1>1, <1>2, <2>1
<1>4. CASE reading[c] # "pending"
  BY <1>1, <1>4 DEF Complete
<1> QED
  BY <1>3, <1>4

\* Putting a message on the stack of nested calls, if there is room.
LEMMA PushShape ==
    ASSUME Shape, NEW c \in Clients, NEW m \in Nat, Push(c, m)
    PROVE  \/ dead' = "overflow" /\ UNCHANGED <<at, stack, want, got>>
           \/ /\ dead' = dead /\ at' = "recv"
              /\ stack' = Append(stack, m) /\ Len(stack') <= StackDepth
              /\ want' = [want EXCEPT ![c] = "header"]
              /\ got' = [got EXCEPT ![c] = IF m = 0 THEN @ ELSE m]
<1>1. CASE Len(stack) = StackDepth
  BY <1>1 DEF Push
<1>2. CASE Len(stack) # StackDepth
  <2>1. /\ stack' = Append(stack, m) /\ at' = "recv" /\ dead' = dead
        /\ got' = [got EXCEPT ![c] = IF m = 0 THEN @ ELSE m]
        /\ want' = [want EXCEPT ![c] = "header"]
    BY <1>2 DEF Push
  <2>2. Len(stack') = Len(stack) + 1 /\ Len(stack) \in Nat /\ Len(stack) <= StackDepth
    BY <2>1 DEF Shape, WorkerShape
  <2>3. Len(stack') <= StackDepth
    BY <1>2, <2>2, TcpServerAssumption
  <2> QED
    BY <2>1, <2>3
<1> QED
  BY <1>1, <1>2

\* What handing a read of c to its channel can do: the process ends; the body
\* is read next; or a message, empty (0) if the read was, is on the stack.
LEMMA OnReadFacts ==
    ASSUME Shape, NEW c \in Clients, NEW n \in 0..MessageUnits, OnRead(c, n)
    PROVE  \/ /\ dead' \in {"header", "body", "overflow"}
              /\ UNCHANGED <<at, stack, want, got>>
           \/ /\ at' = "recv" /\ UNCHANGED <<stack, got, dead>>
              /\ want' = [want EXCEPT ![c] = "body"]
           \/ \E m \in {0, got[c] + 1} :
                 /\ m = 0 => n = 0
                 /\ dead' = dead /\ at' = "recv"
                 /\ stack' = Append(stack, m) /\ Len(stack') <= StackDepth
                 /\ want' = [want EXCEPT ![c] = "header"]
                 /\ got' = [got EXCEPT ![c] = IF m = 0 THEN @ ELSE m]
<1>1. got[c] + 1 \in Nat /\ got[c] + 1 # 0 /\ 0 \in Nat /\ want[c] \in {"header", "body"}
  BY DEF Shape, ResultShape, PortShape
<1>2. CASE n = 0 /\ Push(c, 0)
  BY <1>1, <1>2, PushShape
<1>3. CASE Push(c, got[c] + 1)
  BY <1>1, <1>3, PushShape
<1>4. CASE want' = [want EXCEPT ![c] = "body"] /\ at' = "recv" /\ UNCHANGED <<stack, got, dead>>
  BY <1>4
<1>5. CASE dead' = want[c] /\ UNCHANGED <<at, stack, want, got>>
  BY <1>1, <1>5
<1> QED
  BY <1>2, <1>3, <1>4, <1>5 DEF OnRead

\* The state keeps its shape when the worker, at a connection of its, has a read.
LEMMA OnReadShape ==
    ASSUME Shape, NEW c \in Clients, NEW n \in 0..MessageUnits, OnRead(c, n),
           at # "unwind", cur' = c
    PROVE  /\ WorkerShape' /\ want' \in [Clients -> {"header", "body"}]
           /\ got' \in [Clients -> Nat]
           /\ dead' \in {"no", "listen", "header", "body", "overflow"}
<1>1. /\ got \in [Clients -> Nat] /\ want \in [Clients -> {"header", "body"}]
      /\ stack \in Seq(Nat) /\ Len(stack) <= StackDepth
      /\ at \in {"idle", "recv"} /\ (at = "idle" => stack = <<>>)
      /\ dead \in {"no", "listen", "header", "body", "overflow"}
  BY DEF Shape, ResultShape, PortShape, WorkerShape
<1>2. CASE dead' \in {"header", "body", "overflow"} /\ UNCHANGED <<at, stack, want, got>>
  BY <1>1, <1>2 DEF WorkerShape
<1>3. CASE /\ at' = "recv" /\ UNCHANGED <<stack, got, dead>>
           /\ want' = [want EXCEPT ![c] = "body"]
  BY <1>1, <1>3 DEF WorkerShape
<1>4. ASSUME NEW m \in {0, got[c] + 1},
             dead' = dead, at' = "recv",
             stack' = Append(stack, m), Len(stack') <= StackDepth,
             want' = [want EXCEPT ![c] = "header"],
             got' = [got EXCEPT ![c] = IF m = 0 THEN @ ELSE m]
      PROVE  /\ WorkerShape' /\ want' \in [Clients -> {"header", "body"}]
             /\ got' \in [Clients -> Nat]
             /\ dead' \in {"no", "listen", "header", "body", "overflow"}
  <2>1. m \in Nat
    BY <1>1
  <2>2. stack' \in Seq(Nat)
    BY <1>1, <1>4, <2>1
  <2>3. got' \in [Clients -> Nat]
    BY <1>1, <1>4, <2>1
  <2> QED
    BY <1>1, <1>4, <2>2, <2>3 DEF WorkerShape
<1> QED
  BY <1>2, <1>3, <1>4, OnReadFacts

-----------------------------------------------------------------------------
(* Every step keeps the shape of the state.                                *)

\* Client steps.
LEMMA ClientShape == ASSUME Shape, NEW c \in Clients, Client(c) PROVE Shape'
<1> USE DEF Shape
<1>1. CASE Connect(c)
  <2>1. Append(port, [kind |-> "accept", c |-> c]) \in Seq(Completions)
    BY EntryMade, Queued DEF PortShape
  <2>2. /\ UNCHANGED <<main, end, arrived, consumed, want, reading, at, cur, stack, got, out,
                        bursts, dead>>
    BY <1>1 DEF Connect, workerVars
  <2>3. conn' \in [Clients -> Conns] /\ port' \in Seq(Completions)
        /\ acceptor' \in {"none", "posted", "lost", "stopped"}
    BY <1>1, <2>1 DEF Connect, ListenShape, PortShape, Conns
  <2> QED
    BY <2>2, <2>3 DEF ListenShape, UnitsShape, PortShape, WorkerShape, ResultShape
<1>2. ASSUME NEW n \in 1..MessageUnits, Arrive(c, n) PROVE Shape'
  <2>1. /\ arrived' = [arrived EXCEPT ![c] = @ + n]
        /\ arrived[c] + n <= Total(c)
        /\ Complete(c, Least(n, Want(c)), TRUE)
        /\ UNCHANGED <<main, acceptor, conn, end, want, at, cur, stack, got, out, bursts, dead>>
    BY <1>2 DEF Arrive, Total, workerVars
  <2>2. PICK k \in Nat : k = Least(n, Want(c)) /\ k <= n /\ k \in 0..MessageUnits /\ n \in Nat
    <3>1. Want(c) \in 1..MessageUnits /\ MessageUnits \in Nat
      BY Units
    <3> QED
      BY <3>1, LeastFacts
  <2>3. /\ reading' \in [Clients -> {"none", "pending", "queued"}]
        /\ port' \in Seq(Completions)
        /\ \/ consumed' = consumed
           \/ consumed' = [consumed EXCEPT ![c] = @ + k]
    BY <2>1, <2>2, CompleteShape
  <2>4. UnitsShape'
    BY <2>1, <2>2, <2>3 DEF UnitsShape
  <2> QED
    BY <2>1, <2>3, <2>4 DEF ListenShape, PortShape, WorkerShape, ResultShape
<1>3. CASE Close(c) \/ Reset(c)
  <2>1. PICK ok \in BOOLEAN : Complete(c, 0, ok)
    BY <1>3 DEF Close, Reset
  <2>2. 0 \in 0..MessageUnits
    BY Units
  <2>3. /\ reading' \in [Clients -> {"none", "pending", "queued"}]
        /\ port' \in Seq(Completions)
        /\ \/ consumed' = consumed
           \/ consumed' = [consumed EXCEPT ![c] = @ + 0]
    BY <2>1, <2>2, CompleteShape
  <2>4. consumed' = consumed
    BY <2>3 DEF UnitsShape
  <2>5. UNCHANGED <<main, acceptor, arrived, want, at, cur, stack, got, out, bursts, dead>>
    BY <1>3 DEF Close, Reset, workerVars
  <2>6. ListenShape'
    BY <1>3, <2>5 DEF Close, Reset, ListenShape, Conns
  <2> QED
    BY <2>3, <2>4, <2>5, <2>6 DEF UnitsShape, PortShape, WorkerShape, ResultShape
<1> QED
  BY <1>1, <1>2, <1>3 DEF Client

\* The owner's steps.
LEMMA OwnerShape == ASSUME Shape, Owner PROVE Shape'
<1> USE DEF Shape
<1>1. CASE Start
  <2>1. AcceptEx(conn, port)
    BY <1>1 DEF Start
  <2>2. /\ acceptor' \in {"none", "posted", "lost", "stopped"}
        /\ conn' \in [Clients -> Conns] /\ port' \in Seq(Completions)
    BY <2>1, AcceptExFacts DEF ListenShape, PortShape
  <2> QED
    BY <1>1, <2>2 DEF Start, workerVars, ListenShape, UnitsShape, PortShape, WorkerShape,
       ResultShape
<1>2. CASE ListenFails
  BY <1>2 DEF ListenFails, netVars, workerVars, ListenShape, UnitsShape, PortShape,
     WorkerShape, ResultShape
<1>3. CASE Stop \/ Exit
  BY <1>3 DEF Stop, Exit, netVars, workerVars, ListenShape, UnitsShape, PortShape,
     WorkerShape, ResultShape
<1> QED
  BY <1>1, <1>2, <1>3 DEF Owner

\* The worker takes a completion.
LEMMA TakeShape == ASSUME Shape, HandleAccept \/ HandleRead PROVE Shape'
<1> USE DEF Shape
<1> DEFINE e == Head(port)
<1>1. CASE HandleAccept
  <2>1. /\ port # <<>> /\ AcceptEx([conn EXCEPT ![e.c] = "open"], Tail(port))
        /\ at' = "recv" /\ cur' = e.c
        /\ bursts' = [bursts EXCEPT ![e.c] = @ \cup {got[e.c]}]
        /\ UNCHANGED <<main, end, arrived, consumed, want, reading, stack, got, out, dead>>
    BY <1>1 DEF HandleAccept
  <2>2. e.c \in Clients /\ Tail(port) \in Seq(Completions)
    BY <2>1, Dequeued, EntryShape DEF PortShape
  <2> HIDE DEF e
  <2>3. [conn EXCEPT ![e.c] = "open"] \in [Clients -> Conns]
    BY DEF Conns, ListenShape
  <2>4. /\ acceptor' \in {"none", "posted", "lost", "stopped"}
        /\ conn' \in [Clients -> Conns] /\ port' \in Seq(Completions)
    BY <2>1, <2>2, <2>3, AcceptExFacts
  <2>5. bursts' \in [Clients -> SUBSET Nat]
    BY <2>1, <2>2 DEF ResultShape
  <2> QED
    BY <2>1, <2>2, <2>4, <2>5 DEF ListenShape, UnitsShape, PortShape, WorkerShape, ResultShape
<1>2. CASE HandleRead
  <2>1. /\ e.kind = "read" /\ port # <<>> /\ port' = Tail(port) /\ at = "idle"
        /\ reading' = [reading EXCEPT ![e.c] = "none"]
        /\ UNCHANGED <<main, acceptor, end, arrived, consumed, out>>
    BY <1>2 DEF HandleRead
  <2>2. e.c \in Clients /\ port' \in Seq(Completions) /\ e.size \in 0..MessageUnits
    BY <2>1, Dequeued, EntryShape DEF PortShape
  <2>3. CASE e.ok
    <3>1. /\ OnRead(e.c, e.size) /\ cur' = e.c /\ conn' = conn
          /\ bursts' = [bursts EXCEPT ![e.c] = @ \cup {got[e.c]}]
      BY <1>2, <2>3 DEF HandleRead
    <3> HIDE DEF e
    <3>2. /\ WorkerShape' /\ want' \in [Clients -> {"header", "body"}]
          /\ got' \in [Clients -> Nat]
          /\ dead' \in {"no", "listen", "header", "body", "overflow"}
      BY <2>1, <2>2, <3>1, OnReadShape
    <3>3. bursts' \in [Clients -> SUBSET Nat]
      BY <2>2, <3>1 DEF ResultShape
    <3> QED
      BY <2>1, <2>2, <3>1, <3>2, <3>3 DEF ListenShape, UnitsShape, PortShape, ResultShape
  <2>4. CASE ~e.ok
    <3>1. /\ conn' = [conn EXCEPT ![e.c] = "done"]
          /\ UNCHANGED <<at, cur, stack, want, got, bursts, dead>>
      BY <1>2, <2>4 DEF HandleRead
    <3> HIDE DEF e
    <3> QED
      BY <2>1, <2>2, <3>1 DEF Conns, ListenShape, UnitsShape, PortShape, WorkerShape,
         ResultShape
  <2> QED
    BY <2>3, <2>4
<1> QED
  BY <1>1, <1>2

\* The worker reads.
LEMMA RecvShape == ASSUME Shape, Recv PROVE Shape'
<1> USE DEF Shape
<1>1. /\ at = "recv" /\ cur \in Clients
      /\ UNCHANGED <<main, acceptor, conn, end, arrived, port, cur, out, bursts>>
  BY DEF Recv, WorkerShape
<1>2. PICK n \in 0..MessageUnits : n = Least(Want(cur), Available(cur)) /\ n <= Available(cur)
  <2>1. Available(cur) \in Nat /\ Want(cur) \in 1..MessageUnits /\ MessageUnits \in Nat
    BY <1>1, Units DEF Available, UnitsShape
  <2> QED
    BY <2>1, LeastFacts
<1>3. ASSUME NEW k \in {0, n}, reading' = reading, OnRead(cur, k),
             consumed' = [consumed EXCEPT ![cur] = @ + k]
      PROVE  Shape'
  <2>1. k \in 0..MessageUnits
    BY <1>2, Units
  <2>2. /\ WorkerShape' /\ want' \in [Clients -> {"header", "body"}]
        /\ got' \in [Clients -> Nat]
        /\ dead' \in {"no", "listen", "header", "body", "overflow"}
    BY <1>1, <1>3, <2>1, OnReadShape
  <2>3. UnitsShape'
    BY <1>1, <1>2, <1>3, Units DEF UnitsShape, Available
  <2> QED
    BY <1>1, <1>3, <2>2, <2>3 DEF ListenShape, PortShape, ResultShape
<1>4. CASE /\ reading' = [reading EXCEPT ![cur] = "pending"]
           /\ at' = IF stack = <<>> THEN "idle" ELSE "unwind"
           /\ UNCHANGED <<consumed, stack, want, got, dead>>
  BY <1>1, <1>4 DEF ListenShape, UnitsShape, PortShape, WorkerShape, ResultShape
<1>5. consumed = [consumed EXCEPT ![cur] = @ + 0]
  BY <1>1 DEF UnitsShape
<1> QED
  BY <1>2, <1>3, <1>4, <1>5 DEF Recv

\* The worker echoes.
LEMMA UnwindShape == ASSUME Shape, Unwind PROVE Shape'
<1> USE DEF Shape
<1>1. /\ at = "unwind" /\ stack # <<>> /\ cur \in Clients /\ stack \in Seq(Nat)
      /\ Send(cur, Last(stack)) /\ stack' = Front(stack)
      /\ at' = IF Len(stack) = 1 THEN "idle" ELSE "unwind"
      /\ UNCHANGED <<main, acceptor, netVars, want, reading, port, cur, got, bursts, dead>>
  BY DEF Unwind, WorkerShape
<1>2. /\ Front(stack) \in Seq(Nat) /\ Len(Front(stack)) = Len(stack) - 1
      /\ Last(stack) \in Nat /\ Len(stack) \in Nat \ {0}
  BY <1>1, FrontFacts
<1>3. out' \in [Clients -> Seq(Nat)]
  <2>1. out \in [Clients -> Seq(Nat)]
    BY DEF ResultShape
  <2>2. Append(out[cur], Last(stack)) \in Seq(Nat)
    BY <1>1, <1>2, <2>1
  <2> QED
    BY <1>1, <2>1, <2>2 DEF Send
<1>4. Len(stack) = 1 <=> Front(stack) = <<>>
  <2>1. Front(stack) = <<>> => Len(stack) - 1 = 0
    BY <1>2, EmptySeq
  <2>2. Front(stack) # <<>> => Len(stack) - 1 # 0
    BY <1>2, EmptySeq
  <2> QED
    BY <1>2, <2>1, <2>2
<1>5. WorkerShape'
  <2>1. Len(stack') <= StackDepth
    BY <1>1, <1>2, TcpServerAssumption DEF WorkerShape
  <2> QED
    BY <1>1, <1>2, <1>4, <2>1 DEF WorkerShape
<1> QED
  BY <1>1, <1>3, <1>5 DEF netVars, ListenShape, UnitsShape, PortShape, ResultShape

\* Every step keeps the shape of the state.
LEMMA ShapeStep == Shape /\ [Next]_vars => Shape'
<1>1. ASSUME Shape, UNCHANGED vars PROVE Shape'
  BY <1>1 DEF vars, netVars, workerVars, Shape, ListenShape, UnitsShape, PortShape,
     WorkerShape, ResultShape
<1> QED
  BY <1>1, ClientShape, OwnerShape, TakeShape, RecvShape, UnwindShape DEF Next, Worker

\* The state before start() has its shape.
LEMMA ShapeInit == Init => Shape
<1> SUFFICES ASSUME Init PROVE Shape
  OBVIOUS
<1>1. UnitsShape
  <2>1. \A c \in Clients : Total(c) \in Nat
    BY Units, TcpServerAssumption DEF Total
  <2> QED
    BY <2>1 DEF Init, UnitsShape
<1>2. WorkerShape
  BY TcpServerAssumption, EmptySeq DEF Init, WorkerShape
<1>3. ListenShape /\ PortShape /\ ResultShape
  BY EmptySeq DEF Init, ListenShape, PortShape, ResultShape, Conns
<1> QED
  BY <1>1, <1>2, <1>3 DEF Shape

\* Every variable keeps its shape, for any clients, message lengths and depth of
\* the stack.
THEOREM TypeCorrect == Spec => []TypeOK
<1>1. Shape => TypeOK
  BY DEF Shape, ListenShape, UnitsShape, Total, PortShape, WorkerShape, ResultShape,
     TypeOK, Conns
<1> QED
  BY <1>1, ShapeInit, ShapeStep, PTL DEF Spec

-----------------------------------------------------------------------------
(* One read.  Inductive invariant: the completions on the port are those   *)
(* of the reads that have completed and of the clients that were accepted, *)
(* one for each; and of an open connection either the kernel, or the port, *)
(* or the worker has the read.                                             *)

Matches(e, kind, c) == e.kind = kind /\ e.c = c
In(q, kind, c) == \E k \in 1..Len(q) : Matches(q[k], kind, c)
Unique(q, kind, c) ==
    \A j, k \in 1..Len(q) : Matches(q[j], kind, c) /\ Matches(q[k], kind, c) => j = k

ReadsQueued ==
    \A c \in Clients : Unique(port, "read", c) /\ (In(port, "read", c) <=> reading[c] = "queued")
AcceptsQueued ==
    \A c \in Clients :
       Unique(port, "accept", c) /\ (In(port, "accept", c) <=> conn[c] = "accepted")
Calling(c) == at = "recv" /\ cur = c
ReadHeld ==
    Alive => \A c \in Clients :
       /\ conn[c] = "open" <=> reading[c] # "none" \/ Calling(c)
       /\ Calling(c) => reading[c] = "none"
Reads == ReadsQueued /\ AcceptsQueued /\ ReadHeld

\* Queueing an entry.
LEMMA QueuedEntries ==
    ASSUME NEW q \in Seq(Completions), NEW e \in Completions, NEW kind, NEW c
    PROVE  /\ In(Append(q, e), kind, c) <=> In(q, kind, c) \/ Matches(e, kind, c)
           /\ Unique(q, kind, c) /\ ~(In(q, kind, c) /\ Matches(e, kind, c))
                => Unique(Append(q, e), kind, c)
<1>1. PICK n \in Nat : n = Len(q)
  OBVIOUS
<1> DEFINE r == Append(q, e)
<1>2. /\ Len(r) = n + 1 /\ r[n + 1] = e
      /\ \A k \in 1..n : r[k] = q[k] /\ k \in 1..(n + 1)
      /\ n + 1 \in 1..(n + 1) /\ \A k \in 1..(n + 1) : k \in 1..n \/ k = n + 1
  BY <1>1, Queued
<1> HIDE DEF r
<1>3. In(r, kind, c) <=> In(q, kind, c) \/ Matches(e, kind, c)
  BY <1>1, <1>2 DEF In
<1>4. ASSUME Unique(q, kind, c), ~(In(q, kind, c) /\ Matches(e, kind, c))
      PROVE  Unique(r, kind, c)
  BY <1>1, <1>2, <1>4 DEF In, Unique
<1> QED
  BY <1>3, <1>4 DEF r

\* Taking the first entry.
LEMMA DequeuedEntries ==
    ASSUME NEW q \in Seq(Completions), q # <<>>, NEW kind, NEW c
    PROVE  /\ In(q, kind, c) <=> In(Tail(q), kind, c) \/ Matches(Head(q), kind, c)
           /\ Unique(q, kind, c)
                => /\ Unique(Tail(q), kind, c)
                   /\ ~(In(Tail(q), kind, c) /\ Matches(Head(q), kind, c))
<1>1. PICK n \in Nat : n = Len(Tail(q)) /\ Len(q) = n + 1
  BY Dequeued
<1> DEFINE r == Tail(q)
<1>2. /\ Head(q) = q[1] /\ 1 \in 1..(n + 1)
      /\ \A k \in 1..n : k + 1 \in 1..(n + 1) /\ k + 1 # 1 /\ r[k] = q[k + 1]
      /\ \A k \in 1..(n + 1) : k = 1 \/ (k - 1 \in 1..n /\ r[k - 1] = q[k])
      /\ \A j, k \in 1..n : j + 1 = k + 1 => j = k
  BY <1>1, Dequeued
<1> HIDE DEF r
<1>3. In(q, kind, c) <=> In(r, kind, c) \/ Matches(Head(q), kind, c)
  BY <1>1, <1>2 DEF In, r
<1>4. ASSUME Unique(q, kind, c)
      PROVE  Unique(r, kind, c) /\ ~(In(r, kind, c) /\ Matches(Head(q), kind, c))
  BY <1>1, <1>2, <1>4 DEF In, Unique, r
<1> QED
  BY <1>3, <1>4 DEF r

\* Completing the outstanding read of c moves it from the kernel to the port.
LEMMA CompleteReads ==
    ASSUME Shape, ReadsQueued, AcceptsQueued,
           NEW c \in Clients, NEW n \in 0..MessageUnits, NEW ok \in BOOLEAN, Complete(c, n, ok)
    PROVE  /\ ReadsQueued'
           /\ \A d \in Clients : /\ Unique(port', "accept", d)
                                 /\ In(port', "accept", d) <=> conn[d] = "accepted"
                                 /\ reading'[d] # "none" <=> reading[d] # "none"
<1> DEFINE e == [kind |-> "read", c |-> c, size |-> n, ok |-> ok]
<1>1. port \in Seq(Completions) /\ reading \in [Clients -> {"none", "pending", "queued"}]
  BY DEF Shape, PortShape
<1>2. e \in Completions
  BY EntryMade
<1>3. \A d \in Clients : Matches(e, "read", d) <=> d = c
  BY DEF Matches
<1>4. \A d \in Clients : ~Matches(e, "accept", d)
  BY DEF Matches
<1> HIDE DEF e
<1>5. CASE reading[c] = "pending"
  <2>1. reading' = [reading EXCEPT ![c] = "queued"] /\ port' = Append(port, e)
    BY <1>5 DEF Complete, e
  <2>2. ReadsQueued'
    <3> SUFFICES ASSUME NEW d \in Clients
                 PROVE  Unique(port', "read", d) /\ (In(port', "read", d) <=> reading'[d] = "queued")
      BY DEF ReadsQueued
    <3>1. Unique(port, "read", d) /\ (In(port, "read", d) <=> reading[d] = "queued")
      BY DEF ReadsQueued
    <3> QED
      BY <1>1, <1>2, <1>3, <1>5, <2>1, <3>1, QueuedEntries
  <2>3. \A d \in Clients : /\ Unique(port', "accept", d)
                           /\ In(port', "accept", d) <=> conn[d] = "accepted"
    BY <1>1, <1>2, <1>4, <2>1, QueuedEntries DEF AcceptsQueued
  <2>4. \A d \in Clients : reading'[d] # "none" <=> reading[d] # "none"
    BY <1>1, <1>5, <2>1
  <2> QED
    BY <2>2, <2>3, <2>4
<1>6. CASE reading[c] # "pending"
  BY <1>6 DEF Complete, ReadsQueued, AcceptsQueued
<1> QED
  BY <1>5, <1>6

\* AcceptEx queues no read and opens no connection; a client it accepts has
\* one completion.
LEMMA AcceptExReads ==
    ASSUME NEW conns \in [Clients -> Conns], NEW queue \in Seq(Completions),
           AcceptEx(conns, queue),
           \A d \in Clients : /\ Unique(queue, "accept", d)
                              /\ In(queue, "accept", d) <=> conns[d] = "accepted"
    PROVE  /\ AcceptsQueued'
           /\ \A d \in Clients : /\ Unique(queue, "read", d) => Unique(port', "read", d)
                                 /\ In(port', "read", d) <=> In(queue, "read", d)
                                 /\ conn'[d] = "open" <=> conns[d] = "open"
<1>1. CASE conn' = conns /\ port' = queue
  BY <1>1 DEF AcceptsQueued
<1>2. ASSUME NEW b \in Clients, conns[b] = "backlog",
             conn' = [conns EXCEPT ![b] = "accepted"],
             port' = Append(queue, [kind |-> "accept", c |-> b])
      PROVE  /\ AcceptsQueued'
             /\ \A d \in Clients : /\ Unique(queue, "read", d) => Unique(port', "read", d)
                                   /\ In(port', "read", d) <=> In(queue, "read", d)
                                   /\ conn'[d] = "open" <=> conns[d] = "open"
  <2> DEFINE e == [kind |-> "accept", c |-> b]
  <2>1. e \in Completions
    BY EntryMade
  <2>2. \A d \in Clients : ~Matches(e, "read", d) /\ (Matches(e, "accept", d) <=> d = b)
    BY DEF Matches
  <2>3. port' = Append(queue, e)
    BY <1>2
  <2> HIDE DEF e
  <2>4. AcceptsQueued'
    <3> SUFFICES ASSUME NEW d \in Clients
                 PROVE  /\ Unique(port', "accept", d)
                        /\ In(port', "accept", d) <=> conn'[d] = "accepted"
      BY DEF AcceptsQueued
    <3>1. ~In(queue, "accept", b)
      BY <1>2
    <3> QED
      BY <1>2, <2>1, <2>2, <2>3, <3>1, QueuedEntries
  <2>5. ASSUME NEW d \in Clients
        PROVE  /\ Unique(queue, "read", d) => Unique(port', "read", d)
               /\ In(port', "read", d) <=> In(queue, "read", d)
    BY <2>1, <2>2, <2>3, QueuedEntries
  <2> QED
    BY <1>2, <2>4, <2>5
<1>3. ASSUME NEW b \in Clients, conns[b] = "backlog",
             conn' = [conns EXCEPT ![b] = "lost"], port' = queue
      PROVE  /\ AcceptsQueued'
             /\ \A d \in Clients : /\ Unique(queue, "read", d) => Unique(port', "read", d)
                                   /\ In(port', "read", d) <=> In(queue, "read", d)
                                   /\ conn'[d] = "open" <=> conns[d] = "open"
  BY <1>3 DEF AcceptsQueued
<1> QED
  BY <1>1, <1>2, <1>3, AcceptExFacts

\* Client steps.
LEMMA ClientReads == ASSUME Shape, Reads, NEW c \in Clients, Client(c) PROVE Reads'
<1>1. /\ port \in Seq(Completions) /\ conn \in [Clients -> Conns]
      /\ MessageUnits \in Nat /\ Want(c) \in 1..MessageUnits /\ 0 \in 0..MessageUnits
  BY Units DEF Shape, PortShape, ListenShape
<1>2. Alive /\ dead' = dead /\ main' = main /\ at' = at /\ cur' = cur
  BY DEF Client, Connect, Arrive, Close, Reset, workerVars
<1>3. Alive' /\ \A d \in Clients : Calling(d)' <=> Calling(d)
  BY <1>2 DEF Alive, Calling
<1>4. CASE Connect(c)
  <2> DEFINE e == [kind |-> "accept", c |-> c]
  <2>1. /\ conn[c] = "none" /\ reading' = reading
        /\ \/ conn' = [conn EXCEPT ![c] = "accepted"] /\ port' = Append(port, e)
           \/ conn' = [conn EXCEPT ![c] = "backlog"] /\ port' = port
    BY <1>4 DEF Connect
  <2>2. e \in Completions
    BY EntryMade
  <2>3. \A d \in Clients : ~Matches(e, "read", d) /\ (Matches(e, "accept", d) <=> d = c)
    BY DEF Matches
  <2> HIDE DEF e
  <2>4. ~In(port, "accept", c)
    BY <2>1 DEF Reads, AcceptsQueued
  <2>5. ReadHeld'
    BY <1>1, <1>2, <1>3, <2>1 DEF Reads, ReadHeld
  <2>6. ReadsQueued'
    BY <1>1, <2>1, <2>2, <2>3, QueuedEntries DEF Reads, ReadsQueued
  <2>7. AcceptsQueued'
    <3> SUFFICES ASSUME NEW d \in Clients
                 PROVE  /\ Unique(port', "accept", d)
                        /\ In(port', "accept", d) <=> conn'[d] = "accepted"
      BY DEF AcceptsQueued
    <3>1. /\ Unique(port, "accept", d) /\ (In(port, "accept", d) <=> conn[d] = "accepted")
          /\ Matches(e, "accept", d) <=> d = c
      BY <2>3 DEF Reads, AcceptsQueued
    <3>2. CASE port' = port
      BY <1>1, <2>1, <3>1, <3>2
    <3>3. CASE conn' = [conn EXCEPT ![c] = "accepted"] /\ port' = Append(port, e)
      <4>1. /\ In(port', "accept", d) <=> In(port, "accept", d) \/ Matches(e, "accept", d)
            /\ Unique(port, "accept", d) /\ ~(In(port, "accept", d) /\ Matches(e, "accept", d))
                 => Unique(port', "accept", d)
        BY <1>1, <2>2, <3>3, QueuedEntries
      <4>2. conn'[d] = "accepted" <=> d = c \/ conn[d] = "accepted"
        BY <1>1, <3>3
      <4> QED
        BY <2>4, <3>1, <4>1, <4>2
    <3> QED
      BY <2>1, <3>2, <3>3
  <2> QED
    BY <2>5, <2>6, <2>7 DEF Reads
<1>5. ASSUME NEW k \in 0..MessageUnits, NEW ok \in BOOLEAN, Complete(c, k, ok),
             \A d \in Clients : /\ conn'[d] = "open" <=> conn[d] = "open"
                                /\ conn'[d] = "accepted" <=> conn[d] = "accepted"
      PROVE  Reads'
  <2>1. /\ ReadsQueued'
        /\ \A d \in Clients : /\ Unique(port', "accept", d)
                              /\ In(port', "accept", d) <=> conn[d] = "accepted"
                              /\ reading'[d] # "none" <=> reading[d] # "none"
    BY <1>5, CompleteReads DEF Reads
  <2>2. AcceptsQueued'
    BY <1>5, <2>1 DEF AcceptsQueued
  <2>3. ReadHeld'
    BY <1>2, <1>3, <1>5, <2>1 DEF Reads, ReadHeld
  <2> QED
    BY <2>1, <2>2, <2>3 DEF Reads
<1>6. ASSUME NEW n \in 1..MessageUnits, Arrive(c, n) PROVE Reads'
  <2>1. PICK k : k = Least(n, Want(c))
    OBVIOUS
  <2>2. k \in 0..MessageUnits
    BY <1>1, <2>1, LeastFacts
  <2>3. Complete(c, k, TRUE) /\ conn' = conn
    BY <1>6, <2>1 DEF Arrive
  <2> QED
    BY <1>5, <2>2, <2>3
<1>7. CASE Close(c)
  BY <1>1, <1>5, <1>7 DEF Close
<1>8. CASE Reset(c)
  <2>1. /\ Complete(c, 0, FALSE)
        /\ conn' = IF conn[c] = "backlog" THEN [conn EXCEPT ![c] = "gone"] ELSE conn
    BY <1>8 DEF Reset
  <2> QED
    BY <1>1, <1>5, <2>1
<1> QED
  BY <1>4, <1>6, <1>7, <1>8 DEF Client

\* The owner's steps.
LEMMA OwnerReads == ASSUME Shape, Reads, Owner PROVE Reads'
<1>1. CASE Start
  <2>1. /\ AcceptEx(conn, port) /\ Alive
        /\ UNCHANGED <<reading, at, cur, dead>>
    BY <1>1 DEF Start, workerVars
  <2>2. /\ conn \in [Clients -> Conns] /\ port \in Seq(Completions)
        /\ \A d \in Clients : /\ Unique(port, "accept", d)
                              /\ In(port, "accept", d) <=> conn[d] = "accepted"
    BY DEF Shape, ListenShape, PortShape, Reads, AcceptsQueued
  <2>3. /\ AcceptsQueued'
        /\ \A d \in Clients : /\ Unique(port, "read", d) => Unique(port', "read", d)
                              /\ In(port', "read", d) <=> In(port, "read", d)
                              /\ conn'[d] = "open" <=> conn[d] = "open"
    BY <2>1, <2>2, AcceptExReads
  <2>4. ReadsQueued'
    BY <2>1, <2>3 DEF Reads, ReadsQueued
  <2>5. ReadHeld'
    BY <2>1, <2>3 DEF Reads, ReadHeld, Calling
  <2> QED
    BY <2>3, <2>4, <2>5 DEF Reads
<1>2. CASE ListenFails \/ Stop \/ Exit
  <2>1. Alive /\ UNCHANGED <<conn, reading, port, at, cur>>
    BY <1>2 DEF ListenFails, Stop, Exit, netVars, workerVars
  <2> QED
    BY <2>1 DEF Reads, ReadsQueued, AcceptsQueued, ReadHeld, Calling
<1> QED
  BY <1>1, <1>2 DEF Owner

\* The worker takes a completion.
LEMMA TakeReads == ASSUME Shape, Reads, HandleAccept \/ HandleRead PROVE Reads'
<1> DEFINE e == Head(port)
           q == Tail(port)
<1>1. /\ Alive /\ at = "idle" /\ port # <<>> /\ port \in Seq(Completions)
      /\ conn \in [Clients -> Conns] /\ reading \in [Clients -> {"none", "pending", "queued"}]
  BY DEF HandleAccept, HandleRead, Shape, PortShape, ListenShape
<1>2. e \in Completions /\ e.c \in Clients /\ q \in Seq(Completions)
  BY <1>1, Dequeued, EntryShape
<1>3. ASSUME NEW kind, NEW d
      PROVE  /\ In(port, kind, d) <=> In(q, kind, d) \/ Matches(e, kind, d)
             /\ Unique(port, kind, d)
                  => Unique(q, kind, d) /\ ~(In(q, kind, d) /\ Matches(e, kind, d))
  BY <1>1, DequeuedEntries
<1>4. \A d \in Clients : ~Calling(d)
  BY <1>1 DEF Calling
<1>5. CASE HandleAccept
  <2>1. /\ e.kind = "accept" /\ AcceptEx([conn EXCEPT ![e.c] = "open"], q)
        /\ at' = "recv" /\ cur' = e.c
        /\ UNCHANGED <<main, reading, dead>>
    BY <1>5 DEF HandleAccept
  <2> HIDE DEF e, q
  <2>2. \A d \in Clients : ~Matches(e, "read", d) /\ (Matches(e, "accept", d) <=> d = e.c)
    BY <2>1 DEF Matches
  <2>3. PICK conns : conns = [conn EXCEPT ![e.c] = "open"]
    OBVIOUS
  <2>4. conns \in [Clients -> Conns]
    BY <1>1, <2>3 DEF Conns
  <2>5. ASSUME NEW d \in Clients
        PROVE  Unique(q, "accept", d) /\ (In(q, "accept", d) <=> conns[d] = "accepted")
    <3>1. Unique(port, "accept", d) /\ (In(port, "accept", d) <=> conn[d] = "accepted")
      BY DEF Reads, AcceptsQueued
    <3> QED
      BY <1>1, <1>2, <1>3, <2>2, <2>3, <3>1
  <2>6. /\ AcceptsQueued'
        /\ \A d \in Clients : /\ Unique(q, "read", d) => Unique(port', "read", d)
                              /\ In(port', "read", d) <=> In(q, "read", d)
                              /\ conn'[d] = "open" <=> conns[d] = "open"
    BY <1>2, <2>1, <2>3, <2>4, <2>5, AcceptExReads
  <2>7. ReadsQueued'
    <3> SUFFICES ASSUME NEW d \in Clients
                 PROVE  Unique(port', "read", d) /\ (In(port', "read", d) <=> reading'[d] = "queued")
      BY DEF ReadsQueued
    <3>1. Unique(port, "read", d) /\ (In(port, "read", d) <=> reading[d] = "queued")
      BY DEF Reads, ReadsQueued
    <3> QED
      BY <1>3, <2>1, <2>2, <2>6, <3>1
  <2>8. ReadHeld'
    <3>1. In(port, "accept", e.c)
      BY <1>2, <1>3, <2>2
    <3>2. conn[e.c] = "accepted"
      BY <1>2, <3>1 DEF Reads, AcceptsQueued
    <3>3. reading[e.c] = "none"
      BY <1>1, <1>2, <3>2 DEF Reads, ReadHeld
    <3>4. \A d \in Clients : Calling(d)' <=> d = e.c
      BY <2>1 DEF Calling
    <3>5. \A d \in Clients : conn'[d] = "open" <=> conn[d] = "open" \/ d = e.c
      BY <1>1, <2>3, <2>6
    <3> QED
      BY <1>1, <1>2, <1>4, <2>1, <3>3, <3>4, <3>5 DEF Reads, ReadHeld
  <2> QED
    BY <2>6, <2>7, <2>8 DEF Reads
<1>6. CASE HandleRead
  <2>1. /\ e.kind = "read" /\ port' = q /\ main' = main
        /\ reading' = [reading EXCEPT ![e.c] = "none"]
        /\ \/ e.ok /\ OnRead(e.c, e.size) /\ cur' = e.c /\ conn' = conn
           \/ conn' = [conn EXCEPT ![e.c] = "done"] /\ UNCHANGED <<at, cur, dead>>
    BY <1>6 DEF HandleRead
  <2>2. e.size \in 0..MessageUnits
    BY <1>2, <2>1, EntryShape
  <2> HIDE DEF e, q
  <2>3. \A d \in Clients : ~Matches(e, "accept", d) /\ (Matches(e, "read", d) <=> d = e.c)
    BY <2>1 DEF Matches
  <2>4. ReadsQueued'
    <3> SUFFICES ASSUME NEW d \in Clients
                 PROVE  Unique(q, "read", d) /\ (In(q, "read", d) <=> reading'[d] = "queued")
      BY <2>1 DEF ReadsQueued
    <3>1. Unique(port, "read", d) /\ (In(port, "read", d) <=> reading[d] = "queued")
      BY DEF Reads, ReadsQueued
    <3> QED
      BY <1>1, <1>2, <1>3, <2>1, <2>3, <3>1
  <2>5. reading[e.c] = "queued" /\ conn[e.c] = "open"
    <3>1. In(port, "read", e.c)
      BY <1>2, <1>3, <2>3
    <3>2. reading[e.c] = "queued"
      BY <1>2, <3>1 DEF Reads, ReadsQueued
    <3> QED
      BY <1>1, <1>2, <3>2 DEF Reads, ReadHeld
  <2>6. AcceptsQueued'
    <3> SUFFICES ASSUME NEW d \in Clients
                 PROVE  Unique(q, "accept", d) /\ (In(q, "accept", d) <=> conn'[d] = "accepted")
      BY <2>1 DEF AcceptsQueued
    <3>1. Unique(port, "accept", d) /\ (In(port, "accept", d) <=> conn[d] = "accepted")
      BY DEF Reads, AcceptsQueued
    <3> QED
      BY <1>1, <1>2, <1>3, <2>1, <2>3, <2>5, <3>1
  <2>7. ReadHeld'
    <3>1. CASE OnRead(e.c, e.size) /\ cur' = e.c /\ conn' = conn
      <4>1. dead' # "no" \/ (at' = "recv" /\ dead' = dead)
        BY <1>2, <2>2, <3>1, OnReadFacts
      <4>2. ASSUME at' = "recv" PROVE ReadHeld'
        <5>1. \A d \in Clients : Calling(d)' <=> d = e.c
          BY <3>1, <4>2 DEF Calling
        <5> QED
          BY <1>1, <1>2, <1>4, <2>1, <2>5, <3>1, <5>1 DEF Reads, ReadHeld
      <4> QED
        BY <4>1, <4>2 DEF ReadHeld, Alive
    <3>2. CASE conn' = [conn EXCEPT ![e.c] = "done"] /\ UNCHANGED <<at, cur, dead>>
      <4>1. \A d \in Clients : ~Calling(d)'
        BY <1>1, <3>2 DEF Calling
      <4> QED
        BY <1>1, <1>2, <1>4, <2>1, <2>5, <3>2, <4>1 DEF Reads, ReadHeld
    <3> QED
      BY <2>1, <3>1, <3>2
  <2> QED
    BY <2>4, <2>6, <2>7 DEF Reads
<1> QED
  BY <1>5, <1>6

\* The worker reads, and the nest of calls unwinds.
LEMMA CallbackReads == ASSUME Shape, Reads, Recv \/ Unwind PROVE Reads'
<1>1. /\ Alive /\ cur \in Clients /\ cur' = cur /\ main' = main
      /\ UNCHANGED <<conn, port>>
      /\ reading \in [Clients -> {"none", "pending", "queued"}]
  BY DEF Recv, Unwind, netVars, Shape, WorkerShape, PortShape
<1>2. CASE Recv
  <2>1. at = "recv" /\ \A d \in Clients : Calling(d) <=> d = cur
    BY <1>2 DEF Recv, Calling
  <2>2. reading[cur] = "none" /\ conn[cur] = "open"
    BY <1>1, <2>1 DEF Reads, ReadHeld
  <2>3. PICK n \in 0..MessageUnits : n = Least(Want(cur), Available(cur))
    <3>1. Available(cur) \in Nat /\ Want(cur) \in 1..MessageUnits /\ MessageUnits \in Nat
      BY <1>1, Units DEF Available, Shape, UnitsShape
    <3> QED
      BY <3>1, LeastFacts
  <2>4. ASSUME NEW k \in 0..MessageUnits, reading' = reading, OnRead(cur, k)
        PROVE  Reads'
    <3>1. dead' # "no" \/ (at' = "recv" /\ dead' = dead)
      BY <1>1, <2>4, OnReadFacts
    <3>2. ReadsQueued' /\ AcceptsQueued'
      BY <1>1, <2>4 DEF Reads, ReadsQueued, AcceptsQueued
    <3>3. ReadHeld'
      BY <1>1, <2>1, <2>4, <3>1 DEF Reads, ReadHeld, Calling, Alive
    <3> QED
      BY <3>2, <3>3 DEF Reads
  <2>5. CASE /\ reading' = [reading EXCEPT ![cur] = "pending"]
             /\ at' = IF stack = <<>> THEN "idle" ELSE "unwind"
             /\ dead' = dead
    <3>1. \A d \in Clients : ~Calling(d)'
      BY <2>5 DEF Calling
    <3>2. ReadsQueued' /\ AcceptsQueued'
      BY <1>1, <2>2, <2>5 DEF Reads, ReadsQueued, AcceptsQueued
    <3>3. ReadHeld'
      BY <1>1, <2>1, <2>2, <2>5, <3>1 DEF Reads, ReadHeld
    <3> QED
      BY <3>2, <3>3 DEF Reads
  <2>6. 0 \in 0..MessageUnits
    BY Units
  <2> QED
    BY <1>2, <2>3, <2>4, <2>5, <2>6 DEF Recv
<1>3. CASE Unwind
  <2>1. /\ UNCHANGED <<reading, dead>> /\ at = "unwind"
        /\ at' = IF Len(stack) = 1 THEN "idle" ELSE "unwind"
    BY <1>3 DEF Unwind
  <2>2. \A d \in Clients : ~Calling(d) /\ ~Calling(d)'
    BY <2>1 DEF Calling
  <2> QED
    BY <1>1, <2>1, <2>2 DEF Reads, ReadsQueued, AcceptsQueued, ReadHeld
<1> QED
  BY <1>2, <1>3

\* Every step keeps the reads where they belong.
LEMMA ReadsStep == Shape /\ Reads /\ [Next]_vars => Reads'
<1>1. ASSUME Reads, UNCHANGED vars PROVE Reads'
  <2>1. UNCHANGED <<main, dead, conn, reading, port, at, cur>>
    BY <1>1 DEF vars, netVars, workerVars
  <2> QED
    BY <1>1, <2>1 DEF Reads, ReadsQueued, AcceptsQueued, ReadHeld, Alive, Calling
<1> QED
  BY <1>1, ClientReads, OwnerReads, TakeReads, CallbackReads DEF Next, Worker

\* Where the read of an open connection is, from the invariant.
LEMMA ReadsCounted == Shape /\ Reads => OneRead
<1> SUFFICES ASSUME Shape, Reads, Alive, NEW c \in Clients
             PROVE  Cardinality(ReadsUnderWay(c)) = (IF conn[c] = "open" THEN 1 ELSE 0)
  BY DEF OneRead
<1> DEFINE K == IF reading[c] = "pending" THEN {<<"kernel", 0>>} ELSE {}
           Q == {<<"port", k>> : k \in {k \in 1..Len(port) : Matches(port[k], "read", c)}}
           W == IF Calling(c) THEN {<<"worker", 0>>} ELSE {}
<1>1. ReadsUnderWay(c) = K \cup Q \cup W
  BY DEF ReadsUnderWay, Calling, Matches
<1>2. /\ reading[c] \in {"none", "pending", "queued"}
      /\ conn[c] = "open" <=> reading[c] # "none" \/ Calling(c)
      /\ Calling(c) => reading[c] = "none"
      /\ Unique(port, "read", c) /\ (In(port, "read", c) <=> reading[c] = "queued")
  BY DEF Shape, PortShape, Reads, ReadHeld, ReadsQueued
<1>3. reading[c] # "queued" => Q = {}
  BY <1>2 DEF In
<1>4. ASSUME reading[c] = "queued"
      PROVE  \E k : Q = {<<"port", k>>}
  <2>1. PICK k \in 1..Len(port) : Matches(port[k], "read", c)
    BY <1>2, <1>4 DEF In
  <2>2. \A j \in 1..Len(port) : Matches(port[j], "read", c) <=> j = k
    BY <1>2, <2>1 DEF Unique
  <2>3. {j \in 1..Len(port) : Matches(port[j], "read", c)} = {k}
    BY <2>1, <2>2
  <2> QED
    BY <2>3
<1> HIDE DEF Q
<1>5. CASE conn[c] = "open"
  <2>1. \E x : ReadsUnderWay(c) = {x}
    <3>1. CASE reading[c] = "pending"
      BY <1>1, <1>2, <1>3, <3>1
    <3>2. CASE reading[c] = "queued"
      BY <1>1, <1>2, <1>4, <3>2
    <3>3. CASE reading[c] = "none"
      BY <1>1, <1>2, <1>3, <1>5, <3>3
    <3> QED
      BY <1>2, <3>1, <3>2, <3>3
  <2> QED
    BY <1>5, <2>1, FS_Singleton
<1>6. CASE conn[c] # "open"
  <2>1. ReadsUnderWay(c) = {}
    BY <1>1, <1>2, <1>3, <1>6
  <2> QED
    BY <1>6, <2>1, FS_EmptySet
<1> QED
  BY <1>5, <1>6

\* Before start() there is no read.
LEMMA ReadsInit == Init => Reads
<1> SUFFICES ASSUME Init PROVE Reads
  OBVIOUS
<1>1. Len(port) = 0 /\ \A k \in 1..Len(port) : FALSE
  BY EmptySeq DEF Init
<1> QED
  BY <1>1 DEF Init, Reads, ReadsQueued, AcceptsQueued, ReadHeld, Calling, In, Unique

\* Of an open connection exactly one read is outstanding, for any clients and
\* messages: socket_channel starts the next read only from the handler of the
\* last, whether async_read() or the dispatcher called it.
THEOREM OneReadCorrect == Spec => []OneRead
<1> QED
  BY ReadsInit, ShapeInit, ShapeStep, ReadsStep, ReadsCounted, PTL DEF Spec

-----------------------------------------------------------------------------
(* Echoes.  Inductive invariant, for each connection: the echoes sent (o),  *)
(* the messages of the calls under way (s), the messages read (g) and what *)
(* g was when a callback began (b) balance.                                *)

Ledger(o, s, g, b) ==
    /\ \A i \in 1..Len(o) : o[i] \in 1..g
    /\ \A i, j \in 1..Len(o) : o[i] = o[j] => i = j
    /\ \A j \in 1..Len(s) : s[j] <= g
    /\ \A i, j \in 1..Len(s) : s[i] = s[j] /\ s[i] # 0 => i = j
    /\ \A i \in 1..Len(o), j \in 1..Len(s) : o[i] # s[j]
    /\ \A x \in b : x <= g
    /\ \A x \in b : \A j \in 1..Len(s) : s[j] # 0 => x < s[j]
    /\ \A i, j \in 1..Len(o) : i < j /\ o[i] > o[j]
          => \A x \in b : ~(o[j] <= x /\ x < o[i])

\* No message that was read is forgotten.
Whole(o, s, g) ==
    \A m \in 1..g : (\E i \in 1..Len(o) : o[i] = m) \/ (\E j \in 1..Len(s) : s[j] = m)

\* A callback begins.
LEMMA LedgerBegin ==
    ASSUME NEW o \in Seq(Nat), NEW g \in Nat, NEW b \in SUBSET Nat, Ledger(o, <<>>, g, b)
    PROVE  Ledger(o, <<>>, g, b \cup {g})
<1>1. \A j \in 1..Len(<<>>) : FALSE
  BY EmptySeq
<1>2. \A i, j \in 1..Len(o) : ~(o[j] <= g /\ g < o[i])
  BY DEF Ledger
<1> QED
  BY <1>1, <1>2 DEF Ledger

\* The next message is read.
LEMMA LedgerPush ==
    ASSUME NEW o \in Seq(Nat), NEW s \in Seq(Nat), NEW g \in Nat, NEW b \in SUBSET Nat,
           Ledger(o, s, g, b)
    PROVE  /\ Ledger(o, Append(s, g + 1), g + 1, b)
           /\ Whole(o, s, g) => Whole(o, Append(s, g + 1), g + 1)
<1> DEFINE r == Append(s, g + 1)
<1>1. PICK n \in Nat : n = Len(s)
  OBVIOUS
<1>2. /\ Len(r) = n + 1 /\ r[n + 1] = g + 1
      /\ \A k \in 1..n : r[k] = s[k] /\ r[k] \in Nat /\ k \in 1..(n + 1)
      /\ n + 1 \in 1..(n + 1) /\ \A k \in 1..(n + 1) : k \in 1..n \/ k = n + 1
  BY <1>1
<1> HIDE DEF r
<1>3. \A m \in 1..(g + 1) : m \in 1..g \/ m = g + 1
  OBVIOUS
<1>4. \A i \in 1..Len(o) : o[i] \in Nat /\ o[i] <= g /\ o[i] \in 1..(g + 1)
  BY DEF Ledger
<1>5. \A j \in 1..(n + 1) : r[j] \in Nat /\ r[j] <= g + 1 /\ (r[j] = g + 1 <=> j = n + 1)
  <2> SUFFICES ASSUME NEW j \in 1..(n + 1)
               PROVE  r[j] \in Nat /\ r[j] <= g + 1 /\ (r[j] = g + 1 <=> j = n + 1)
    OBVIOUS
  <2>1. CASE j = n + 1
    BY <1>2, <2>1
  <2>2. CASE j \in 1..n
    <3>1. s[j] <= g /\ s[j] \in Nat /\ r[j] = s[j] /\ j # n + 1
      BY <1>1, <1>2, <2>2 DEF Ledger
    <3> QED
      BY <3>1
  <2> QED
    BY <1>2, <2>1, <2>2
<1>6. ASSUME NEW i \in 1..(n + 1), NEW j \in 1..(n + 1), r[i] = r[j], r[i] # 0
      PROVE  i = j
  <2>1. CASE i = n + 1 \/ j = n + 1
    BY <1>5, <1>6, <2>1
  <2>2. CASE i \in 1..n /\ j \in 1..n
    <3>1. s[i] = s[j] /\ s[i] # 0
      BY <1>2, <1>6, <2>2
    <3> QED
      BY <1>1, <2>2, <3>1 DEF Ledger
  <2> QED
    BY <1>2, <2>1, <2>2
<1>7. \A i \in 1..Len(o), j \in 1..(n + 1) : o[i] # r[j]
  <2>1. \A i \in 1..Len(o), j \in 1..n : o[i] # s[j]
    BY <1>1 DEF Ledger
  <2>2. \A i \in 1..Len(o) : o[i] # g + 1
    BY <1>4
  <2> QED
    BY <1>2, <2>1, <2>2
<1>8. \A x \in b : x <= g + 1 /\ \A j \in 1..(n + 1) : r[j] # 0 => x < r[j]
  <2> SUFFICES ASSUME NEW x \in b
               PROVE  x <= g + 1 /\ \A j \in 1..(n + 1) : r[j] # 0 => x < r[j]
    OBVIOUS
  <2>1. x \in Nat /\ x <= g /\ \A j \in 1..n : s[j] # 0 => x < s[j]
    BY <1>1 DEF Ledger
  <2>2. x <= g + 1 /\ x < g + 1
    BY <2>1
  <2> QED
    BY <1>2, <2>1, <2>2
<1>9. Ledger(o, r, g + 1, b)
  BY <1>2, <1>4, <1>5, <1>6, <1>7, <1>8 DEF Ledger
<1>10. Whole(o, s, g) => Whole(o, r, g + 1)
  BY <1>1, <1>2, <1>3 DEF Whole
<1> QED
  BY <1>9, <1>10 DEF r

\* The end of the stream is taken for an empty message.
LEMMA LedgerEmpty ==
    ASSUME NEW o \in Seq(Nat), NEW s \in Seq(Nat), NEW g \in Nat, NEW b \in SUBSET Nat,
           Ledger(o, s, g, b)
    PROVE  /\ Ledger(o, Append(s, 0), g, b)
           /\ Whole(o, s, g) => Whole(o, Append(s, 0), g)
<1> DEFINE r == Append(s, 0)
<1>1. PICK n \in Nat : n = Len(s)
  OBVIOUS
<1>2. /\ Len(r) = n + 1 /\ r[n + 1] = 0
      /\ \A k \in 1..n : r[k] = s[k] /\ k \in 1..(n + 1)
      /\ \A k \in 1..(n + 1) : k \in 1..n \/ k = n + 1
  BY <1>1
<1> HIDE DEF r
<1>3. \A i \in 1..Len(o) : o[i] # 0
  BY DEF Ledger
<1>4. Ledger(o, r, g, b)
  <2>1. /\ \A j \in 1..n : s[j] <= g
        /\ \A i, j \in 1..n : s[i] = s[j] /\ s[i] # 0 => i = j
        /\ \A i \in 1..Len(o), j \in 1..n : o[i] # s[j]
        /\ \A x \in b : \A j \in 1..n : s[j] # 0 => x < s[j]
    BY <1>1 DEF Ledger
  <2>2. /\ \A j \in 1..(n + 1) : r[j] <= g
        /\ \A i, j \in 1..(n + 1) : r[i] = r[j] /\ r[i] # 0 => i = j
    <3>1. \A j \in 1..(n + 1) : r[j] = 0 \/ (j \in 1..n /\ r[j] = s[j] /\ s[j] <= g)
      BY <1>2, <2>1
    <3>2. ASSUME NEW i \in 1..(n + 1), NEW j \in 1..(n + 1), r[i] = r[j], r[i] # 0
          PROVE  i = j
      <4>1. i \in 1..n /\ j \in 1..n /\ s[i] = s[j] /\ s[i] # 0
        BY <3>1, <3>2
      <4> QED
        BY <2>1, <4>1
    <3>3. \A j \in 1..(n + 1) : r[j] <= g
      BY <3>1
    <3> QED
      BY <3>2, <3>3
  <2>3. /\ \A i \in 1..Len(o), j \in 1..(n + 1) : o[i] # r[j]
        /\ \A x \in b : \A j \in 1..(n + 1) : r[j] # 0 => x < r[j]
    BY <1>2, <1>3, <2>1
  <2> QED
    BY <1>2, <2>2, <2>3 DEF Ledger
<1>5. Whole(o, s, g) => Whole(o, r, g)
  BY <1>1, <1>2 DEF Whole
<1> QED
  BY <1>4, <1>5 DEF r

\* The innermost call returns: with its message echoed, or with the echo refused.
LEMMA LedgerEcho ==
    ASSUME NEW o \in Seq(Nat), NEW s \in Seq(Nat), NEW g \in Nat, NEW b \in SUBSET Nat,
           s # <<>>, Ledger(o, s, g, b)
    PROVE  /\ Ledger(o, Front(s), g, b)
           /\ Last(s) # 0 => /\ Ledger(Append(o, Last(s)), Front(s), g, b)
                             /\ Whole(o, s, g) => Whole(Append(o, Last(s)), Front(s), g)
<1> DEFINE f == Front(s)
           m == Last(s)
           r == Append(o, m)
<1>1. PICK n \in Nat : n = Len(f) /\ Len(s) = n + 1
  BY FrontFacts
<1>2. /\ m \in Nat /\ m = s[n + 1] /\ n + 1 \in 1..(n + 1)
      /\ \A k \in 1..n : k \in 1..(n + 1) /\ k # n + 1 /\ f[k] = s[k]
      /\ \A k \in 1..(n + 1) : k = n + 1 \/ k \in 1..n
  <2>1. /\ n + 1 \in 1..(n + 1) /\ \A k \in 1..n : k \in 1..(n + 1) /\ k # n + 1
        /\ \A k \in 1..(n + 1) : k = n + 1 \/ k \in 1..n
    OBVIOUS
  <2>2. m \in Nat /\ m = s[Len(s)] /\ \A k \in 1..Len(f) : f[k] = s[k]
    BY FrontFacts
  <2> QED
    BY <1>1, <2>1, <2>2
<1>3. PICK l \in Nat : l = Len(o)
  OBVIOUS
<1> HIDE DEF f, m
<1>4. /\ Len(r) = l + 1 /\ r[l + 1] = m
      /\ \A k \in 1..l : r[k] = o[k] /\ r[k] \in Nat /\ k \in 1..(l + 1)
      /\ l + 1 \in 1..(l + 1)
      /\ \A k \in 1..(l + 1) : k = l + 1 \/ (k \in 1..l /\ k < l + 1)
  <2>1. /\ l + 1 \in 1..(l + 1) /\ \A k \in 1..l : k \in 1..(l + 1)
        /\ \A k \in 1..(l + 1) : k = l + 1 \/ (k \in 1..l /\ k < l + 1)
    OBVIOUS
  <2>2. /\ Len(r) = Len(o) + 1 /\ r[Len(o) + 1] = m
        /\ \A k \in 1..Len(o) : r[k] = o[k] /\ o[k] \in Nat
    BY <1>2
  <2> HIDE DEF r
  <2>3. Len(r) = l + 1 /\ r[l + 1] = m /\ \A k \in 1..l : r[k] = o[k] /\ r[k] \in Nat
    BY <1>3, <2>2
  <2> QED
    BY <2>1, <2>3
<1> HIDE DEF r
<1>5. Ledger(o, f, g, b)
  BY <1>1, <1>2 DEF Ledger
<1>6. ASSUME m # 0
      PROVE  Ledger(r, f, g, b) /\ (Whole(o, s, g) => Whole(r, f, g))
  <2>1. m \in 1..g /\ \A x \in b : x < m
    BY <1>1, <1>2, <1>6 DEF Ledger
  <2>2. \A i \in 1..(l + 1) : r[i] \in 1..g /\ r[i] \in Nat
    BY <1>2, <1>3, <1>4, <2>1 DEF Ledger
  <2>3. \A i \in 1..l : o[i] # m
    BY <1>1, <1>2, <1>3 DEF Ledger
  <2>4. \A i, j \in 1..(l + 1) : r[i] = r[j] => i = j
    <3>1. \A i, j \in 1..l : o[i] = o[j] => i = j
      BY <1>3 DEF Ledger
    <3> QED
      BY <1>4, <2>3, <3>1
  <2>5. \A i \in 1..(l + 1), j \in 1..n : r[i] # f[j]
    <3>1. \A j \in 1..n : f[j] # m
      BY <1>1, <1>2, <1>6 DEF Ledger
    <3>2. \A i \in 1..l, j \in 1..n : o[i] # f[j]
      BY <1>1, <1>3, <1>5 DEF Ledger
    <3> QED
      BY <1>4, <3>1, <3>2
  <2>6. ASSUME NEW i \in 1..(l + 1), NEW j \in 1..(l + 1), i < j, r[i] > r[j], NEW x \in b
        PROVE  ~(r[j] <= x /\ x < r[i])
    <3>1. CASE j = l + 1
      BY <1>4, <2>1, <2>2, <3>1
    <3>2. CASE j \in 1..l
      <4>1. i \in 1..l
        BY <1>3, <2>6, <3>2
      <4> QED
        BY <1>3, <1>4, <2>6, <3>2, <4>1 DEF Ledger
    <3> QED
      BY <1>4, <3>1, <3>2
  <2>7. Ledger(r, f, g, b)
    <3>1. /\ \A j \in 1..n : f[j] <= g
          /\ \A i, j \in 1..n : f[i] = f[j] /\ f[i] # 0 => i = j
          /\ \A x \in b : x <= g
          /\ \A x \in b : \A j \in 1..n : f[j] # 0 => x < f[j]
      BY <1>1, <1>5 DEF Ledger
    <3> QED
      BY <1>1, <1>4, <2>2, <2>4, <2>5, <2>6, <3>1 DEF Ledger
  <2>8. Whole(o, s, g) => Whole(r, f, g)
    BY <1>1, <1>2, <1>3, <1>4 DEF Whole
  <2> QED
    BY <2>7, <2>8
<1> QED
  BY <1>5, <1>6 DEF f, m, r

\* The messages of c that the calls under way have to echo.
Owed(c) == IF cur = c THEN stack ELSE <<>>

Balanced(c) ==
    /\ Ledger(out[c], Owed(c), got[c], bursts[c])
    /\ end[c] # "rst" => Whole(out[c], Owed(c), got[c])

\* An empty read means that the stream has ended, and nobody unwinds after it.
EmptyReads(q) ==
    \A k \in 1..Len(q) : q[k].kind = "read" /\ q[k].size = 0 => end[q[k].c] # "open"
EmptyOwed == \A j \in 1..Len(stack) : stack[j] = 0 => at = "recv" /\ end[cur] # "open"

Echoes == EmptyReads(port) /\ EmptyOwed /\ \A c \in Clients : Balanced(c)

\* Client steps.
LEMMA ClientEchoes == ASSUME Shape, Echoes, NEW c \in Clients, Client(c) PROVE Echoes'
<1>1. /\ port \in Seq(Completions) /\ end \in [Clients -> {"open", "fin", "rst"}]
      /\ MessageUnits \in Nat /\ Want(c) \in 1..MessageUnits /\ 0 \in 0..MessageUnits
      /\ at = "recv" => cur \in Clients
  <2>1. MessageUnits \in Nat /\ Want(c) \in 1..MessageUnits /\ 0 \in 0..MessageUnits
    BY Units
  <2>2. port \in Seq(Completions) /\ end \in [Clients -> {"open", "fin", "rst"}]
    BY DEF Shape, PortShape, ListenShape
  <2> QED
    BY <2>1, <2>2 DEF Shape, WorkerShape
<1>2. UNCHANGED <<at, cur, stack, out, got, bursts>>
  BY DEF Client, Connect, Arrive, Close, Reset, workerVars
<1>3. \/ end' = end \/ end' = [end EXCEPT ![c] = "rst"]
      \/ end' = [end EXCEPT ![c] = "fin"] /\ end[c] = "open"
  <2>1. ASSUME NEW n, Arrive(c, n) PROVE end' = end
    BY <2>1 DEF Arrive
  <2>2. CASE Connect(c)
    BY <2>2 DEF Connect
  <2>3. CASE Close(c) \/ Reset(c)
    BY <2>3 DEF Close, Reset
  <2> QED
    BY <2>1, <2>2, <2>3 DEF Client
<1>4. \A d \in Clients : /\ end'[d] = "open" => end[d] = "open"
                         /\ end'[d] # "rst" => end[d] # "rst"
  <2>1. CASE end' = [end EXCEPT ![c] = "fin"] /\ end[c] = "open"
    BY <1>1, <2>1
  <2>2. CASE end' = end \/ end' = [end EXCEPT ![c] = "rst"]
    BY <1>1, <2>2
  <2> QED
    BY <1>3, <2>1, <2>2
<1>5. \A d \in Clients : Balanced(d)'
  <2> SUFFICES ASSUME NEW d \in Clients PROVE Balanced(d)'
    OBVIOUS
  <2>1. Balanced(d) /\ Owed(d)' = Owed(d)
    BY <1>2 DEF Echoes, Owed
  <2> QED
    BY <1>2, <1>4, <2>1 DEF Balanced
<1>6. EmptyOwed'
  <2> SUFFICES ASSUME NEW j \in 1..Len(stack), stack[j] = 0
               PROVE  at = "recv" /\ end'[cur] # "open"
    BY <1>2 DEF EmptyOwed
  <2>1. at = "recv" /\ end[cur] # "open" /\ cur \in Clients
    BY <1>1 DEF Echoes, EmptyOwed
  <2> QED
    BY <1>4, <2>1
<1>7. ASSUME NEW e \in Completions, e.kind = "read" /\ e.size = 0 => end'[e.c] # "open",
             port' = Append(port, e)
      PROVE  EmptyReads(port)'
  <2> SUFFICES ASSUME NEW k \in 1..Len(port'), port'[k].kind = "read", port'[k].size = 0
               PROVE  end'[port'[k].c] # "open"
    BY DEF EmptyReads
  <2>1. CASE k \in 1..Len(port)
    <3>1. port'[k] = port[k] /\ port[k] \in Completions
      BY <1>1, <1>7, <2>1, Queued
    <3> QED
      BY <1>4, <2>1, <3>1, EntryShape DEF Echoes, EmptyReads
  <2>2. CASE k = Len(port) + 1
    <3>1. port'[k] = e
      BY <1>1, <1>7, <2>2, Queued
    <3> QED
      BY <1>7, <3>1
  <2>3. Len(port') = Len(port) + 1 /\ Len(port) \in Nat
    BY <1>1, <1>7, Queued
  <2> QED
    BY <2>1, <2>2, <2>3
<1>8. ASSUME port' = port PROVE EmptyReads(port)'
  <2> SUFFICES ASSUME NEW k \in 1..Len(port), port[k].kind = "read", port[k].size = 0
               PROVE  end'[port[k].c] # "open"
    BY <1>8 DEF EmptyReads
  <2>1. port[k] \in Completions
    BY <1>1
  <2> QED
    BY <1>4, <2>1, EntryShape DEF Echoes, EmptyReads
<1>9. ASSUME NEW n \in 0..MessageUnits, NEW ok \in BOOLEAN, Complete(c, n, ok),
             n = 0 => end'[c] # "open"
      PROVE  EmptyReads(port)'
  <2> DEFINE e == [kind |-> "read", c |-> c, size |-> n, ok |-> ok]
  <2>1. e \in Completions /\ (e.kind = "read" /\ e.size = 0 => end'[e.c] # "open")
    BY <1>9, EntryMade
  <2>2. port' = Append(port, e) \/ port' = port
    BY <1>9 DEF Complete
  <2> HIDE DEF e
  <2> QED
    BY <1>7, <1>8, <2>1, <2>2
<1>10. CASE Connect(c)
  <2>1. [kind |-> "accept", c |-> c] \in Completions
    BY EntryMade
  <2>2. port' = Append(port, [kind |-> "accept", c |-> c]) \/ port' = port
    BY <1>10 DEF Connect
  <2>3. EmptyReads(port)'
    BY <1>7, <1>8, <2>1, <2>2
  <2> QED
    BY <1>5, <1>6, <2>3 DEF Echoes
<1>11. ASSUME NEW n \in 1..MessageUnits, Arrive(c, n) PROVE EmptyReads(port)'
  <2>1. PICK k : k = Least(n, Want(c))
    OBVIOUS
  <2>2. k \in 0..MessageUnits /\ k # 0
    BY <1>1, <2>1, LeastFacts
  <2>3. Complete(c, k, TRUE)
    BY <1>11, <2>1 DEF Arrive
  <2> QED
    BY <1>9, <2>2, <2>3
<1>12. CASE Close(c) \/ Reset(c)
  <2>1. end'[c] # "open"
    BY <1>1, <1>12 DEF Close, Reset
  <2>2. PICK ok \in BOOLEAN : Complete(c, 0, ok)
    BY <1>12 DEF Close, Reset
  <2>3. EmptyReads(port)'
    BY <1>1, <1>9, <2>1, <2>2
  <2> QED
    BY <1>5, <1>6, <2>3 DEF Echoes
<1> QED
  BY <1>5, <1>6, <1>10, <1>11, <1>12 DEF Client, Echoes

\* AcceptEx queues no read.
LEMMA AcceptExEmpty ==
    ASSUME NEW conns \in [Clients -> Conns], NEW queue \in Seq(Completions),
           AcceptEx(conns, queue), EmptyReads(queue), end' = end
    PROVE  EmptyReads(port)'
<1> SUFFICES ASSUME NEW k \in 1..Len(port'), port'[k].kind = "read", port'[k].size = 0
             PROVE  end[port'[k].c] # "open"
  BY DEF EmptyReads
<1>1. CASE port' = queue
  BY <1>1 DEF EmptyReads
<1>2. ASSUME NEW b \in Clients, port' = Append(queue, [kind |-> "accept", c |-> b])
      PROVE  end[port'[k].c] # "open"
  <2> DEFINE e == [kind |-> "accept", c |-> b]
  <2>1. e \in Completions /\ e.kind # "read" /\ port' = Append(queue, e)
    BY <1>2, EntryMade
  <2> HIDE DEF e
  <2>2. k \in 1..Len(queue) /\ port'[k] = queue[k]
    BY <2>1, Queued
  <2> QED
    BY <2>2 DEF EmptyReads
<1>3. port' = queue \/ \E b \in Clients : port' = Append(queue, [kind |-> "accept", c |-> b])
  BY AcceptExFacts
<1> QED
  BY <1>1, <1>2, <1>3

\* The owner's steps.
LEMMA OwnerEchoes == ASSUME Shape, Echoes, Owner PROVE Echoes'
<1>1. UNCHANGED <<end, at, cur, stack, out, got, bursts>>
  BY DEF Owner, ListenFails, Start, Stop, Exit, netVars, workerVars
<1>2. EmptyReads(port)'
  <2>1. CASE Start
    <3>1. AcceptEx(conn, port) /\ conn \in [Clients -> Conns] /\ port \in Seq(Completions)
      BY <2>1 DEF Start, Shape, ListenShape, PortShape
    <3> QED
      BY <1>1, <3>1, AcceptExEmpty DEF Echoes
  <2>2. CASE ListenFails \/ Stop \/ Exit
    <3>1. port' = port
      BY <2>2 DEF ListenFails, Stop, Exit
    <3> QED
      BY <1>1, <3>1 DEF Echoes, EmptyReads
  <2> QED
    BY <2>1, <2>2 DEF Owner
<1>3. EmptyOwed' /\ \A d \in Clients : Balanced(d)'
  <2>1. \A d \in Clients : Balanced(d)' <=> Balanced(d)
    BY <1>1 DEF Balanced, Owed
  <2> QED
    BY <1>1, <2>1 DEF Echoes, EmptyOwed
<1> QED
  BY <1>2, <1>3 DEF Echoes

\* Handing a read to its channel at a connection whose books balance, the
\* callback having begun: if the process lives, the message joins the stack.
LEMMA OnReadEchoes ==
    ASSUME Shape, NEW c \in Clients, NEW n \in 0..MessageUnits, OnRead(c, n),
           cur' = c, out' = out, end' = end, at # "unwind",
           n = 0 => end[c] # "open",
           cur # c => stack = <<>>,
           EmptyOwed,
           Ledger(out[c], stack, got[c], bursts'[c]),
           bursts'[c] \in SUBSET Nat,
           end[c] # "rst" => Whole(out[c], stack, got[c])
    PROVE  /\ EmptyOwed' /\ Balanced(c)'
           /\ \A d \in Clients : d # c => got'[d] = got[d]
<1>1. /\ out[c] \in Seq(Nat) /\ stack \in Seq(Nat) /\ got \in [Clients -> Nat]
      /\ got[c] \in Nat
      /\ stack = <<>> => Len(stack) = 0
  BY EmptySeq DEF Shape, ResultShape, WorkerShape
<1>2. Owed(c)' = stack'
  BY DEF Owed
<1>3. CASE UNCHANGED <<at, stack, got>> \/ (at' = "recv" /\ UNCHANGED <<stack, got>>)
  <2>1. EmptyOwed'
    <3> SUFFICES ASSUME NEW j \in 1..Len(stack), stack[j] = 0
                 PROVE  at' = "recv" /\ end[c] # "open"
      BY <1>3 DEF EmptyOwed
    <3>1. at = "recv" /\ end[cur] # "open" /\ cur = c
      BY <1>1 DEF EmptyOwed
    <3> QED
      BY <1>3, <3>1
  <2> QED
    BY <1>2, <1>3, <2>1 DEF Balanced
<1>4. ASSUME NEW m \in {0, got[c] + 1}, m = 0 => n = 0, at' = "recv",
             stack' = Append(stack, m),
             got' = [got EXCEPT ![c] = IF m = 0 THEN @ ELSE m]
      PROVE  /\ EmptyOwed' /\ Balanced(c)'
             /\ \A d \in Clients : d # c => got'[d] = got[d]
  <2>1. EmptyOwed'
    <3> SUFFICES ASSUME NEW j \in 1..Len(stack'), stack'[j] = 0
                 PROVE  end[c] # "open"
      BY <1>4 DEF EmptyOwed
    <3>1. PICK k \in Nat : k = Len(stack)
      BY <1>1
    <3>2. m \in Nat
      BY <1>1
    <3>3. Len(stack') = k + 1 /\ stack'[k + 1] = m /\ \A i \in 1..k : stack'[i] = stack[i]
      BY <1>1, <1>4, <3>1, <3>2
    <3>4. CASE j = k + 1
      BY <1>4, <3>3, <3>4
    <3>5. CASE j # k + 1
      <4>1. j \in 1..k
        BY <3>3, <3>5
      <4>2. stack[j] = 0 /\ j \in 1..Len(stack)
        BY <3>1, <3>3, <4>1
      <4>3. end[cur] # "open" /\ cur = c
        BY <1>1, <4>2 DEF EmptyOwed
      <4> QED
        BY <4>3
    <3> QED
      BY <3>4, <3>5
  <2>2. Balanced(c)'
    <3>1. CASE m = 0
      <4>1. stack' = Append(stack, 0) /\ got'[c] = got[c]
        BY <1>1, <1>4, <3>1
      <4> QED
        BY <1>1, <1>2, <4>1, LedgerEmpty DEF Balanced
    <3>2. CASE m = got[c] + 1
      <4>1. stack' = Append(stack, got[c] + 1) /\ got'[c] = got[c] + 1
        BY <1>1, <1>4, <3>2
      <4> QED
        BY <1>1, <1>2, <4>1, LedgerPush DEF Balanced
    <3> QED
      BY <3>1, <3>2
  <2>3. \A d \in Clients : d # c => got'[d] = got[d]
    BY <1>1, <1>4
  <2> QED
    BY <2>1, <2>2, <2>3
<1> QED
  BY <1>3, <1>4, OnReadFacts

\* The worker takes a completion: a callback begins.
LEMMA TakeEchoes == ASSUME Shape, Echoes, HandleAccept \/ HandleRead PROVE Echoes'
<1> DEFINE e == Head(port)
           q == Tail(port)
<1>1. /\ at = "idle" /\ port # <<>> /\ port \in Seq(Completions) /\ stack = <<>>
      /\ out' = out /\ end' = end
      /\ conn \in [Clients -> Conns]
      /\ out \in [Clients -> Seq(Nat)] /\ got \in [Clients -> Nat]
      /\ bursts \in [Clients -> SUBSET Nat]
  BY DEF HandleAccept, HandleRead, Shape, PortShape, ListenShape, ResultShape, WorkerShape
<1>2. e \in Completions /\ e.c \in Clients /\ q \in Seq(Completions) /\ e = port[1]
      /\ 1 \in 1..Len(port)
  BY <1>1, Dequeued, EntryShape
<1>3. EmptyReads(q)
  <2> SUFFICES ASSUME NEW k \in 1..Len(q), q[k].kind = "read", q[k].size = 0
               PROVE  end[q[k].c] # "open"
    BY DEF EmptyReads
  <2>1. k + 1 \in 1..Len(port) /\ q[k] = port[k + 1]
    BY <1>1, Dequeued
  <2> QED
    BY <2>1 DEF Echoes, EmptyReads
<1>4. e.kind = "read" /\ e.size = 0 => end[e.c] # "open"
  BY <1>2 DEF Echoes, EmptyReads
<1>5. \A d \in Clients : Owed(d) = <<>>
  BY <1>1 DEF Owed
<1>6. ASSUME NEW d \in Clients
      PROVE  /\ Ledger(out[d], <<>>, got[d], bursts[d])
             /\ Ledger(out[d], <<>>, got[d], bursts[d] \cup {got[d]})
             /\ end[d] # "rst" => Whole(out[d], <<>>, got[d])
  <2>1. /\ Ledger(out[d], <<>>, got[d], bursts[d])
        /\ end[d] # "rst" => Whole(out[d], <<>>, got[d])
    BY <1>5 DEF Echoes, Balanced
  <2> QED
    BY <1>1, <2>1, LedgerBegin
<1> HIDE DEF e, q
<1>7. ASSUME stack' = <<>>, got' = got,
             bursts' = bursts \/ bursts' = [bursts EXCEPT ![e.c] = @ \cup {got[e.c]}]
      PROVE  EmptyOwed' /\ \A d \in Clients : Balanced(d)'
  <2>1. EmptyOwed'
    <3>1. Len(<<>>) = 0 /\ \A j \in 1..0 : FALSE
      BY EmptySeq
    <3> QED
      BY <1>7, <3>1 DEF EmptyOwed
  <2>2. \A d \in Clients : Owed(d)' = <<>>
    BY <1>7 DEF Owed
  <2>3. \A d \in Clients : bursts'[d] = bursts[d] \/ bursts'[d] = bursts[d] \cup {got[d]}
    BY <1>1, <1>7
  <2> QED
    BY <1>1, <1>6, <1>7, <2>1, <2>2, <2>3 DEF Balanced
<1>8. CASE HandleAccept
  <2>1. /\ AcceptEx([conn EXCEPT ![e.c] = "open"], q)
        /\ bursts' = [bursts EXCEPT ![e.c] = @ \cup {got[e.c]}]
        /\ UNCHANGED <<stack, got>>
    BY <1>8 DEF HandleAccept, e, q
  <2>2. [conn EXCEPT ![e.c] = "open"] \in [Clients -> Conns]
    BY <1>1 DEF Conns
  <2>3. EmptyReads(port)'
    BY <1>1, <1>2, <1>3, <2>1, <2>2, AcceptExEmpty
  <2> QED
    BY <1>1, <1>7, <2>1, <2>3 DEF Echoes
<1>9. CASE HandleRead
  <2>1. e.kind = "read" /\ port' = q
    BY <1>9 DEF HandleRead, e, q
  <2>2. EmptyReads(port)'
    BY <1>1, <1>3, <2>1 DEF EmptyReads
  <2>3. CASE UNCHANGED <<stack, got, bursts>>
    BY <1>1, <1>7, <2>2, <2>3 DEF Echoes
  <2>4. CASE /\ OnRead(e.c, e.size) /\ cur' = e.c
             /\ bursts' = [bursts EXCEPT ![e.c] = @ \cup {got[e.c]}]
    <3>1. PICK c \in Clients : c = e.c
      BY <1>2
    <3>2. e.size \in 0..MessageUnits
      BY <1>2, <2>1, EntryShape
    <3>3. bursts'[c] = bursts[c] \cup {got[c]} /\ bursts'[c] \in SUBSET Nat
      BY <1>1, <2>4, <3>1
    <3>4. /\ Ledger(out[c], stack, got[c], bursts'[c])
          /\ end[c] # "rst" => Whole(out[c], stack, got[c])
      BY <1>1, <1>6, <3>3
    <3>5. /\ EmptyOwed' /\ Balanced(c)'
          /\ \A d \in Clients : d # c => got'[d] = got[d]
      BY <1>1, <1>4, <2>1, <2>4, <3>1, <3>2, <3>3, <3>4, OnReadEchoes DEF Echoes
    <3>6. ASSUME NEW d \in Clients, d # c PROVE Balanced(d)'
      <4>1. Owed(d)' = <<>> /\ got'[d] = got[d] /\ bursts'[d] = bursts[d]
        BY <1>1, <2>4, <3>1, <3>5, <3>6 DEF Owed
      <4> QED
        BY <1>1, <1>6, <4>1 DEF Balanced
    <3> QED
      BY <2>2, <3>5, <3>6 DEF Echoes
  <2> QED
    BY <1>9, <2>3, <2>4 DEF HandleRead, e
<1> QED
  BY <1>8, <1>9

\* The worker reads within a callback.
LEMMA RecvEchoes == ASSUME Shape, Echoes, Recv PROVE Echoes'
<1>1. /\ at = "recv" /\ cur \in Clients
      /\ UNCHANGED <<end, port, cur, out, bursts>>
      /\ bursts[cur] \in SUBSET Nat
  BY DEF Recv, Shape, WorkerShape, ResultShape
<1>2. EmptyReads(port)'
  BY <1>1 DEF Echoes, EmptyReads
<1>3. PICK n \in 0..MessageUnits : n = Least(Want(cur), Available(cur))
  <2>1. Available(cur) \in Nat /\ Want(cur) \in 1..MessageUnits /\ MessageUnits \in Nat
    BY <1>1, Units DEF Available, Shape, UnitsShape
  <2> QED
    BY <2>1, LeastFacts
<1>4. Owed(cur) = stack /\ \A d \in Clients : d # cur => Owed(d) = <<>> /\ Owed(d)' = <<>>
  BY <1>1 DEF Owed
<1>5. ASSUME NEW k \in 0..MessageUnits, OnRead(cur, k), k = 0 => end[cur] # "open"
      PROVE  Echoes'
  <2>1. PICK c \in Clients : c = cur
    BY <1>1
  <2>2. /\ Ledger(out[c], stack, got[c], bursts'[c])
        /\ end[c] # "rst" => Whole(out[c], stack, got[c])
    BY <1>1, <1>4, <2>1 DEF Echoes, Balanced
  <2>3. /\ EmptyOwed' /\ Balanced(c)'
        /\ \A d \in Clients : d # c => got'[d] = got[d]
    BY <1>1, <1>5, <2>1, <2>2, OnReadEchoes DEF Echoes
  <2>4. ASSUME NEW d \in Clients, d # c PROVE Balanced(d)'
    BY <1>1, <1>4, <2>1, <2>3, <2>4 DEF Echoes, Balanced
  <2> QED
    BY <1>2, <2>3, <2>4 DEF Echoes
<1>6. CASE end[cur] = "open" /\ UNCHANGED <<stack, got>>
  <2>1. EmptyOwed'
    BY <1>1, <1>6 DEF Echoes, EmptyOwed
  <2>2. \A d \in Clients : Balanced(d)'
    BY <1>1, <1>6 DEF Echoes, Balanced, Owed
  <2> QED
    BY <1>2, <2>1, <2>2 DEF Echoes
<1>7. 0 \in 0..MessageUnits
  BY Units
<1> QED
  BY <1>3, <1>5, <1>6, <1>7 DEF Recv

\* The nest of calls unwinds.
LEMMA UnwindEchoes == ASSUME Shape, Echoes, Unwind PROVE Echoes'
<1>1. /\ at = "unwind" /\ stack # <<>> /\ cur \in Clients /\ stack \in Seq(Nat)
      /\ Send(cur, Last(stack)) /\ stack' = Front(stack)
      /\ UNCHANGED <<end, port, cur, got, bursts>>
      /\ out \in [Clients -> Seq(Nat)] /\ got \in [Clients -> Nat]
      /\ bursts \in [Clients -> SUBSET Nat]
  BY DEF Unwind, netVars, Shape, WorkerShape, ResultShape
<1>2. EmptyReads(port)'
  BY <1>1 DEF Echoes, EmptyReads
<1>3. \A j \in 1..Len(stack) : stack[j] # 0
  BY <1>1 DEF Echoes, EmptyOwed
<1>4. /\ Last(stack) # 0 /\ \A j \in 1..Len(Front(stack)) : Front(stack)[j] # 0
  <2>1. /\ Last(stack) = stack[Len(stack)] /\ Len(stack) \in Nat \ {0}
        /\ \A j \in 1..Len(Front(stack)) : j \in 1..Len(stack) /\ Front(stack)[j] = stack[j]
    BY <1>1, FrontFacts
  <2>2. Len(stack) \in 1..Len(stack)
    BY <2>1
  <2> QED
    BY <1>3, <2>1, <2>2
<1>5. EmptyOwed'
  BY <1>1, <1>4 DEF EmptyOwed
<1>6. PICK c \in Clients : c = cur
  BY <1>1
<1>7. Balanced(c)'
  <2>1. Owed(c) = stack /\ Owed(c)' = Front(stack)
    BY <1>1, <1>6 DEF Owed
  <2>2. /\ Ledger(out[c], stack, got[c], bursts[c])
        /\ end[c] # "rst" => Whole(out[c], stack, got[c])
    BY <2>1 DEF Echoes, Balanced
  <2>3. out[c] \in Seq(Nat) /\ got[c] \in Nat /\ bursts[c] \in SUBSET Nat
    BY <1>1
  <2>4. /\ Ledger(out[c], Front(stack), got[c], bursts[c])
        /\ Ledger(Append(out[c], Last(stack)), Front(stack), got[c], bursts[c])
        /\ end[c] # "rst" => Whole(Append(out[c], Last(stack)), Front(stack), got[c])
    BY <1>1, <1>4, <2>2, <2>3, LedgerEcho
  <2>5. CASE end[c] = "rst"
    BY <1>1, <1>6, <2>1, <2>4, <2>5 DEF Send, Balanced
  <2>6. CASE end[c] # "rst"
    <3>1. out'[c] = Append(out[c], Last(stack))
      BY <1>1, <1>6, <2>6 DEF Send
    <3> QED
      BY <1>1, <2>1, <2>4, <3>1 DEF Balanced
  <2> QED
    BY <2>5, <2>6
<1>8. ASSUME NEW d \in Clients, d # c PROVE Balanced(d)'
  <2>1. out'[d] = out[d] /\ Owed(d) = <<>> /\ Owed(d)' = <<>>
    BY <1>1, <1>6, <1>8 DEF Send, Owed
  <2> QED
    BY <1>1, <2>1 DEF Echoes, Balanced
<1> QED
  BY <1>2, <1>5, <1>7, <1>8 DEF Echoes

\* Every step keeps the books balanced.
LEMMA EchoesStep == Shape /\ Echoes /\ [Next]_vars => Echoes'
<1>1. ASSUME Echoes, UNCHANGED vars PROVE Echoes'
  <2>1. UNCHANGED <<port, end, at, cur, stack, out, got, bursts>>
    BY <1>1 DEF vars, netVars, workerVars
  <2> QED
    BY <1>1, <2>1 DEF Echoes, EmptyReads, EmptyOwed, Balanced, Owed
<1> QED
  BY <1>1, ClientEchoes, OwnerEchoes, TakeEchoes, RecvEchoes, UnwindEchoes DEF Next, Worker

\* Before start() there is nothing on the books.
LEMMA EchoesInit == Init => Echoes
<1> SUFFICES ASSUME Init PROVE Echoes
  OBVIOUS
<1>1. Len(<<>>) = 0 /\ (\A k \in 1..0 : FALSE)
  BY EmptySeq
<1>2. EmptyReads(port) /\ EmptyOwed
  BY <1>1 DEF Init, EmptyReads, EmptyOwed
<1>3. ASSUME NEW c \in Clients PROVE Balanced(c)
  <2>1. out[c] = <<>> /\ Owed(c) = <<>> /\ got[c] = 0 /\ bursts[c] = {}
    BY DEF Init, Owed
  <2> QED
    BY <1>1, <2>1 DEF Balanced, Ledger, Whole
<1> QED
  BY <1>2, <1>3 DEF Echoes

\* Where the messages of c are, from the invariant.
LEMMA EchoesCounted == Shape /\ Echoes => EchoOnce /\ BurstOrder
<1> SUFFICES ASSUME Shape, Echoes PROVE EchoOnce /\ BurstOrder
  OBVIOUS
<1>1. ASSUME NEW c \in Clients
      PROVE  /\ Ledger(out[c], Owed(c), got[c], bursts[c])
             /\ end[c] # "rst" => Whole(out[c], Owed(c), got[c])
             /\ cur = c => Owed(c) = stack
             /\ cur # c => Owed(c) = <<>> /\ Len(Owed(c)) = 0
             /\ out[c] \in Seq(Nat) /\ stack \in Seq(Nat) /\ got[c] \in Nat
  BY EmptySeq DEF Echoes, Balanced, Owed, Shape, ResultShape, WorkerShape
<1>2. BurstOrder
  BY <1>1 DEF BurstOrder, Ledger
<1>3. ASSUME NEW c \in Clients, end[c] # "rst"
      PROVE  ToSet(out[c]) \subseteq 1..got[c]
  <2>1. \A i \in 1..Len(out[c]) : out[c][i] \in 1..got[c]
    BY <1>1 DEF Ledger
  <2> QED
    BY <1>1, <2>1, MemberFacts
<1>4. ASSUME NEW c \in Clients, end[c] # "rst", NEW m \in 1..got[c]
      PROVE  Cardinality(Places(c, m)) = 1
  <2> DEFINE O == {i \in 1..Len(out[c]) : out[c][i] = m}
             S == {i \in 1..Len(stack) : cur = c /\ stack[i] = m}
  <2>1. /\ \A i, j \in 1..Len(out[c]) : out[c][i] = m /\ out[c][j] = m => i = j
        /\ \A i, j \in 1..Len(Owed(c)) : Owed(c)[i] = m /\ Owed(c)[j] = m => i = j
        /\ \A i \in 1..Len(out[c]), j \in 1..Len(Owed(c)) :
              ~(out[c][i] = m /\ Owed(c)[j] = m)
        /\ \/ \E i \in 1..Len(out[c]) : out[c][i] = m
           \/ \E j \in 1..Len(Owed(c)) : Owed(c)[j] = m
    <3>1. m # 0
      BY <1>1
    <3>2. Ledger(out[c], Owed(c), got[c], bursts[c]) /\ Whole(out[c], Owed(c), got[c])
      BY <1>1, <1>4
    <3>3. \A i, j \in 1..Len(Owed(c)) : Owed(c)[i] = m /\ Owed(c)[j] = m => i = j
      BY <3>1, <3>2 DEF Ledger
    <3>4. /\ \A i, j \in 1..Len(out[c]) : out[c][i] = m /\ out[c][j] = m => i = j
          /\ \A i \in 1..Len(out[c]), j \in 1..Len(Owed(c)) :
                ~(out[c][i] = m /\ Owed(c)[j] = m)
      BY <3>2 DEF Ledger
    <3>5. \/ \E i \in 1..Len(out[c]) : out[c][i] = m
          \/ \E j \in 1..Len(Owed(c)) : Owed(c)[j] = m
      BY <3>2 DEF Whole
    <3> QED
      BY <3>3, <3>4, <3>5
  <2>2. \A j : j \in S <=> j \in 1..Len(Owed(c)) /\ Owed(c)[j] = m
    BY <1>1
  <2>3. \/ \E i : O = {i} /\ S = {}
        \/ \E j : O = {} /\ S = {j}
    <3>1. ASSUME NEW i \in 1..Len(out[c]), out[c][i] = m
          PROVE  O = {i} /\ S = {}
      <4>1. O = {i}
        BY <2>1, <3>1
      <4>2. S = {}
        BY <2>1, <2>2, <3>1
      <4> QED
        BY <4>1, <4>2
    <3>2. ASSUME NEW j \in 1..Len(Owed(c)), Owed(c)[j] = m
          PROVE  O = {} /\ S = {j}
      <4>1. O = {}
        BY <2>1, <3>2
      <4>2. \A k : k \in S <=> k = j
        BY <2>1, <2>2, <3>2
      <4> QED
        BY <4>1, <4>2
    <3> QED
      BY <2>1, <3>1, <3>2
  <2>4. Places(c, m) = {<<"out", i>> : i \in O} \cup {<<"stack", i>> : i \in S}
    BY DEF Places
  <2> HIDE DEF O, S
  <2>5. \E x : Places(c, m) = {x}
    <3>1. ASSUME NEW i, O = {i}, S = {} PROVE Places(c, m) = {<<"out", i>>}
      BY <2>4, <3>1
    <3>2. ASSUME NEW j, O = {}, S = {j} PROVE Places(c, m) = {<<"stack", j>>}
      BY <2>4, <3>2
    <3> QED
      BY <2>3, <3>1, <3>2
  <2> QED
    BY <2>5, FS_Singleton
<1> QED
  BY <1>2, <1>3, <1>4 DEF EchoOnce

\* Every message read is echoed once, or is still owed by the call that read it,
\* for any clients and messages: handle_read() reads on before it echoes, but no
\* call returns without echoing what it was called with.
THEOREM EchoCorrect == Spec => []EchoOnce
<1> QED
  BY EchoesInit, EchoesStep, EchoesCounted, ShapeInit, ShapeStep, PTL DEF Spec

\* A message overtakes another only within one callback of the worker: the stack
\* is empty whenever a completion is taken.
THEOREM BurstCorrect == Spec => []BurstOrder
<1> QED
  BY EchoesInit, EchoesStep, EchoesCounted, ShapeInit, ShapeStep, PTL DEF Spec

-----------------------------------------------------------------------------
(* Framing.  Inductive invariant: Framing, and a completion that reports a  *)
(* failure has read nothing.                                               *)

FailedEmpty(q) == \A k \in 1..Len(q) : q[k].kind = "read" /\ ~q[k].ok => q[k].size = 0

Framed == FailedEmpty(port) /\ Framing

\* A message further.
LEMMA NextMessage ==
    ASSUME NEW g \in Nat
    PROVE  /\ g * MessageUnits \in Nat
           /\ (g + 1) * MessageUnits = g * MessageUnits + HeaderUnits + BodyUnits
<1>1. BodyUnits \in Nat /\ MessageUnits = 2 + BodyUnits /\ MessageUnits \in Nat
  BY Units
<1>2. g * MessageUnits \in Nat /\ (g + 1) * MessageUnits = g * MessageUnits + MessageUnits
  BY <1>1
<1> QED
  BY <1>1, <1>2 DEF HeaderUnits

\* As many calls under way as the stack can hold: one of them has found the end of
\* the stream, or each has a message of its own.
LEMMA DeepNest ==
    ASSUME Shape, Echoes, cur \in Clients, Len(stack) = StackDepth
    PROVE  end[cur] # "open" \/ got[cur] >= StackDepth
<1>1. /\ stack \in Seq(Nat) /\ StackDepth \in Nat /\ got[cur] \in Nat
      /\ \A j \in 1..StackDepth : stack[j] \in Nat
  BY TcpServerAssumption DEF Shape, WorkerShape, ResultShape
<1>2. Ledger(out[cur], stack, got[cur], bursts[cur])
  BY DEF Echoes, Balanced, Owed
<1>3. CASE \E j \in 1..StackDepth : stack[j] = 0
  BY <1>3 DEF Echoes, EmptyOwed
<1>4. CASE \A j \in 1..StackDepth : stack[j] # 0
  <2> DEFINE S == 1..StackDepth
             T == 1..got[cur]
  <2>1. \A j \in S : stack[j] \in T
    BY <1>1, <1>2, <1>4 DEF Ledger
  <2>2. \A i, j \in S : stack[i] = stack[j] => i = j
    BY <1>2, <1>4 DEF Ledger
  <2>3. stack \in Injection(S, T)
    <3>1. stack \in [S -> T]
      BY <1>1, <2>1
    <3> QED
      BY <2>2, <3>1 DEF Injection, IsInjective
  <2>4. /\ IsFiniteSet(T) /\ Cardinality(T) = got[cur]
        /\ IsFiniteSet(S) /\ Cardinality(S) = StackDepth
    <3>1. \A k \in Nat : IsFiniteSet(1..k) /\ Cardinality(1..k) = k
      <4> SUFFICES ASSUME NEW k \in Nat PROVE IsFiniteSet(1..k) /\ Cardinality(1..k) = k
        OBVIOUS
      <4>1. IsFiniteSet(1..k) /\ Cardinality(1..k) = IF 1 > k THEN 0 ELSE k - 1 + 1
        BY FS_Interval
      <4> QED
        BY <4>1
    <3> QED
      BY <1>1, <3>1
  <2> HIDE DEF S, T
  <2>5. Cardinality(S) <= Cardinality(T)
    BY <2>3, <2>4, FS_Injection
  <2> QED
    BY <1>1, <2>4, <2>5
<1> QED
  BY <1>3, <1>4

\* Handing a read to its channel, which has taken n units more than the boundary.
LEMMA OnReadFramed ==
    ASSUME Shape, Echoes, NEW c \in Clients, NEW n \in 0..MessageUnits, OnRead(c, n),
           dead = "no", cur' = c, end' = end,
           consumed'[c] = Boundary(c) + n,
           n = 0 => end[c] # "open",
           cur # c => stack = <<>>
    PROVE  /\ EndCauses'
           /\ dead' = "no" => consumed'[c] = Boundary(c)'
           /\ \A d \in Clients : d # c => got'[d] = got[d] /\ want'[d] = want[d]
<1>1. /\ got \in [Clients -> Nat] /\ want \in [Clients -> {"header", "body"}]
      /\ got[c] \in Nat /\ want[c] \in {"header", "body"}
      /\ stack = <<>> => Len(stack) = 0
      /\ StackDepth \in Nat \ {0}
  BY EmptySeq, TcpServerAssumption DEF Shape, ResultShape, PortShape
<1>2. PICK g \in Nat : g = got[c] * MessageUnits
  BY <1>1, NextMessage
<1>3. /\ (got[c] + 1) * MessageUnits = g + HeaderUnits + BodyUnits
      /\ HeaderUnits = 2 /\ BodyUnits \in Nat \ {0}
  BY <1>1, <1>2, NextMessage, Units
<1>4. Boundary(c) = g + (IF want[c] = "body" THEN HeaderUnits ELSE 0)
  BY <1>2 DEF Boundary
<1>5. ASSUME NEW m \in {0, got[c] + 1}, Push(c, m), m = 0 => n = 0,
             (IF m = 0 THEN g ELSE g + HeaderUnits + BodyUnits) = consumed'[c]
      PROVE  /\ EndCauses'
             /\ dead' = "no" => consumed'[c] = Boundary(c)'
             /\ \A d \in Clients : d # c => got'[d] = got[d] /\ want'[d] = want[d]
  <2>1. CASE Len(stack) = StackDepth
    <3>1. dead' = "overflow" /\ UNCHANGED <<want, got>>
      BY <1>5, <2>1 DEF Push
    <3>2. cur = c
      BY <1>1, <2>1
    <3>3. end'[cur'] # "open" \/ got'[cur'] >= StackDepth
      BY <2>1, <3>1, <3>2, DeepNest
    <3> QED
      BY <3>1, <3>3 DEF EndCauses
  <2>2. CASE Len(stack) # StackDepth
    <3>1. /\ dead' = "no"
          /\ got' = [got EXCEPT ![c] = IF m = 0 THEN @ ELSE m]
          /\ want' = [want EXCEPT ![c] = "header"]
      BY <1>5, <2>2 DEF Push
    <3>2. want'[c] = "header" /\ got'[c] = IF m = 0 THEN got[c] ELSE got[c] + 1
      BY <1>1, <3>1
    <3>3. Boundary(c)' = got'[c] * MessageUnits
      <4>1. Boundary(c)' = got'[c] * MessageUnits + 0
        BY <3>2 DEF Boundary
      <4>2. got'[c] \in Nat
        BY <1>1, <3>2
      <4>3. got'[c] * MessageUnits \in Nat
        BY <4>2, NextMessage
      <4> QED
        BY <4>1, <4>3
    <3>4. consumed'[c] = Boundary(c)'
      <4>1. CASE m = 0
        BY <1>2, <1>5, <3>2, <3>3, <4>1
      <4>2. CASE m # 0
        BY <1>3, <1>5, <3>2, <3>3, <4>2
      <4> QED
        BY <4>1, <4>2
    <3> QED
      BY <1>1, <3>1, <3>4 DEF EndCauses
  <2> QED
    BY <2>1, <2>2
<1>6. CASE want[c] = "header" /\ n = 0 /\ Push(c, 0)
  <2>1. consumed'[c] = g
    BY <1>4, <1>6
  <2> QED
    BY <1>5, <1>6, <2>1
<1>7. CASE /\ want[c] = "header" /\ n = HeaderUnits
           /\ want' = [want EXCEPT ![c] = "body"] /\ UNCHANGED <<got, dead>>
  <2>1. Boundary(c)' = g + HeaderUnits
    BY <1>1, <1>2, <1>7 DEF Boundary
  <2>2. consumed'[c] = g + HeaderUnits
    BY <1>3, <1>4, <1>7
  <2> QED
    BY <1>1, <1>7, <2>1, <2>2 DEF EndCauses
<1>8. CASE want[c] = "body" /\ n = BodyUnits /\ Push(c, got[c] + 1)
  <2>1. consumed'[c] = g + HeaderUnits + BodyUnits /\ got[c] + 1 # 0
    BY <1>1, <1>4, <1>8
  <2> QED
    BY <1>5, <1>8, <2>1
<1>9. CASE /\ n < Want(c) /\ (want[c] = "body" \/ n # 0)
           /\ dead' = want[c] /\ UNCHANGED <<want, got>>
  <2>1. UNCHANGED <<got[c], want[c]>> /\ Boundary(c)' = Boundary(c)
    BY <1>9 DEF Boundary
  <2>2. CASE want[c] = "header"
    <3>1. Boundary(c) = g /\ n # 0 /\ n < HeaderUnits /\ consumed'[c] = g + n
      BY <1>4, <1>9, <2>2 DEF Want
    <3>2. Boundary(c)' < consumed'[c] /\ consumed'[c] < Boundary(c)' + HeaderUnits
      BY <1>3, <2>1, <3>1
    <3> QED
      BY <1>9, <2>2, <3>2 DEF EndCauses, Boundary
  <2>3. CASE want[c] = "body"
    <3>1. Boundary(c) = g + HeaderUnits /\ n < BodyUnits /\ consumed'[c] = g + HeaderUnits + n
      BY <1>3, <1>4, <1>9, <2>3 DEF Want
    <3>2. Boundary(c)' <= consumed'[c] /\ consumed'[c] < (got'[c] + 1) * MessageUnits
      BY <1>3, <1>9, <2>1, <3>1
    <3> QED
      BY <1>9, <2>3, <3>2 DEF EndCauses, Boundary
  <2> QED
    BY <1>1, <2>2, <2>3
<1> QED
  BY <1>6, <1>7, <1>8, <1>9 DEF OnRead

\* Steps that touch no stream, and take reads off the port at most.
LEMMA FramedKept ==
    ASSUME Framed, dead = "no", dead' \in {"no", "listen"},
           UNCHANGED <<consumed, reading, got, want>>,
           \A k \in 1..Len(port') : port'[k].kind = "read" =>
              \E j \in 1..Len(port) : port'[k] = port[j]
    PROVE  Framed'
<1>1. \A c \in Clients : Boundary(c)' = Boundary(c)
  BY DEF Boundary
<1>2. FailedEmpty(port)'
  BY DEF Framed, FailedEmpty
<1>3. Aligned'
  BY <1>1 DEF Framed, Framing, Aligned
<1>4. EndCauses'
  BY DEF EndCauses
<1> QED
  BY <1>2, <1>3, <1>4 DEF Framed, Framing

\* The reads on the port after AcceptEx were there before.
LEMMA AcceptExKeeps ==
    ASSUME NEW conns \in [Clients -> Conns], NEW queue \in Seq(Completions),
           AcceptEx(conns, queue)
    PROVE  \A k \in 1..Len(port') : port'[k].kind = "read" =>
              k \in 1..Len(queue) /\ port'[k] = queue[k]
<1>1. CASE port' = queue
  BY <1>1
<1>2. ASSUME NEW b \in Clients, port' = Append(queue, [kind |-> "accept", c |-> b]),
             NEW k \in 1..Len(port'), port'[k].kind = "read"
      PROVE  k \in 1..Len(queue) /\ port'[k] = queue[k]
  <2> DEFINE e == [kind |-> "accept", c |-> b]
  <2>1. e \in Completions /\ e.kind # "read" /\ port' = Append(queue, e)
    BY <1>2, EntryMade
  <2> HIDE DEF e
  <2> QED
    BY <1>2, <2>1, Queued
<1>3. port' = queue \/ \E b \in Clients : port' = Append(queue, [kind |-> "accept", c |-> b])
  BY AcceptExFacts
<1> QED
  BY <1>1, <1>2, <1>3

\* Client steps: what the kernel reads is on the port.
LEMMA ClientFramed == ASSUME Shape, Reads, Framed, NEW c \in Clients, Client(c) PROVE Framed'
<1>1. /\ port \in Seq(Completions) /\ reading \in [Clients -> {"none", "pending", "queued"}]
      /\ consumed \in [Clients -> Nat]
      /\ MessageUnits \in Nat /\ Want(c) \in 1..MessageUnits /\ 0 \in 0..MessageUnits
  BY Units DEF Shape, PortShape, UnitsShape
<1>2. dead = "no" /\ dead' = "no" /\ UNCHANGED <<got, want>>
  BY DEF Client, Connect, Arrive, Close, Reset, Alive
<1>3. CASE Connect(c)
  <2> DEFINE e == [kind |-> "accept", c |-> c]
  <2>1. UNCHANGED <<consumed, reading>> /\ (port' = port \/ port' = Append(port, e))
    BY <1>3 DEF Connect
  <2>2. e \in Completions /\ e.kind # "read"
    BY EntryMade
  <2> HIDE DEF e
  <2>3. \A k \in 1..Len(port') : port'[k].kind = "read" =>
           \E j \in 1..Len(port) : port'[k] = port[j]
    BY <1>1, <2>1, <2>2, Queued
  <2> QED
    BY <1>2, <2>1, <2>3, FramedKept
<1>4. ASSUME NEW n \in 0..MessageUnits, NEW ok \in BOOLEAN, Complete(c, n, ok), ok \/ n = 0
      PROVE  Framed'
  <2> DEFINE e == [kind |-> "read", c |-> c, size |-> n, ok |-> ok]
  <2>1. CASE reading[c] = "pending"
    <3>1. /\ reading' = [reading EXCEPT ![c] = "queued"]
          /\ consumed' = [consumed EXCEPT ![c] = @ + n]
          /\ port' = Append(port, e)
      BY <1>4, <2>1 DEF Complete
    <3>2. e \in Completions /\ e.c = c /\ e.size = n /\ (e.ok \/ e.size = 0)
      BY <1>4, EntryMade
    <3> HIDE DEF e
    <3>3. \A k \in 1..Len(port') : \/ port'[k] = e
                                   \/ k \in 1..Len(port) /\ port'[k] = port[k]
      BY <1>1, <3>1, <3>2, Queued
    <3>4. \A k \in 1..Len(port) : ~(port[k].kind = "read" /\ port[k].c = c)
      BY <2>1 DEF Reads, ReadsQueued, In, Matches
    <3>5. FailedEmpty(port)'
      BY <3>2, <3>3 DEF Framed, FailedEmpty
    <3>6. \A d \in Clients : Boundary(d)' = Boundary(d)
      BY <1>2 DEF Boundary
    <3>7. Aligned
      BY <1>2 DEF Framed, Framing
    <3>8. consumed'[c] = Boundary(c) + n /\ reading'[c] = "queued"
      BY <1>1, <2>1, <3>1, <3>7 DEF Aligned
    <3>9. \A d \in Clients : d # c => consumed'[d] = consumed[d] /\ reading'[d] = reading[d]
      BY <1>1, <3>1
    <3>10. Aligned'
      <4> SUFFICES ASSUME NEW d \in Clients
                   PROVE  /\ reading'[d] # "queued" => consumed'[d] = Boundary(d)
                          /\ \A k \in 1..Len(port') : port'[k].kind = "read" /\ port'[k].c = d
                               => consumed'[d] = Boundary(d) + port'[k].size
        BY <3>6 DEF Aligned
      <4>1. CASE d = c
        BY <3>2, <3>3, <3>4, <3>8, <4>1
      <4>2. CASE d # c
        BY <3>2, <3>3, <3>7, <3>9, <4>2 DEF Aligned
      <4> QED
        BY <4>1, <4>2
    <3> QED
      BY <1>2, <3>5, <3>10 DEF Framed, Framing, EndCauses
  <2>2. CASE reading[c] # "pending"
    <3>1. UNCHANGED <<consumed, reading, port>>
      BY <1>4, <2>2 DEF Complete
    <3> QED
      BY <1>2, <3>1, FramedKept
  <2> QED
    BY <2>1, <2>2
<1>5. ASSUME NEW n \in 1..MessageUnits, Arrive(c, n) PROVE Framed'
  <2>1. PICK k : k = Least(n, Want(c))
    OBVIOUS
  <2>2. k \in 0..MessageUnits
    BY <1>1, <2>1, LeastFacts
  <2>3. Complete(c, k, TRUE)
    BY <1>5, <2>1 DEF Arrive
  <2> QED
    BY <1>4, <2>2, <2>3
<1>6. CASE Close(c) \/ Reset(c)
  BY <1>1, <1>4, <1>6 DEF Close, Reset
<1> QED
  BY <1>3, <1>5, <1>6 DEF Client

\* The owner's steps.
LEMMA OwnerFramed == ASSUME Shape, Framed, Owner PROVE Framed'
<1>1. /\ dead = "no" /\ dead' \in {"no", "listen"}
      /\ UNCHANGED <<consumed, reading, got, want>>
  BY DEF Owner, ListenFails, Start, Stop, Exit, netVars, Alive
<1>2. \A k \in 1..Len(port') : port'[k].kind = "read" =>
         \E j \in 1..Len(port) : port'[k] = port[j]
  <2>1. CASE Start
    <3>1. AcceptEx(conn, port) /\ conn \in [Clients -> Conns] /\ port \in Seq(Completions)
      BY <2>1 DEF Start, Shape, ListenShape, PortShape
    <3> QED
      BY <3>1, AcceptExKeeps
  <2>2. CASE port' = port
    BY <2>2
  <2> QED
    BY <2>1, <2>2 DEF Owner, ListenFails, Stop, Exit
<1> QED
  BY <1>1, <1>2, FramedKept

\* The worker takes a completion.
LEMMA TakeFramed ==
    ASSUME Shape, Reads, Echoes, Framed, HandleAccept \/ HandleRead
    PROVE  Framed'
<1> DEFINE e == Head(port)
           q == Tail(port)
<1>1. /\ dead = "no" /\ port # <<>> /\ port \in Seq(Completions) /\ stack = <<>>
      /\ consumed' = consumed /\ end' = end
      /\ conn \in [Clients -> Conns] /\ reading \in [Clients -> {"none", "pending", "queued"}]
  BY DEF HandleAccept, HandleRead, Alive, Shape, PortShape, ListenShape, WorkerShape
<1>2. /\ e \in Completions /\ e.c \in Clients /\ q \in Seq(Completions)
      /\ e = port[1] /\ 1 \in 1..Len(port)
      /\ \A k \in 1..Len(q) : k + 1 \in 1..Len(port) /\ q[k] = port[k + 1]
  BY <1>1, Dequeued, EntryShape
<1>3. CASE HandleAccept
  <2>1. /\ AcceptEx([conn EXCEPT ![e.c] = "open"], q)
        /\ dead' = "no" /\ UNCHANGED <<reading, got, want>>
    BY <1>1, <1>3 DEF HandleAccept
  <2> HIDE DEF e, q
  <2>2. [conn EXCEPT ![e.c] = "open"] \in [Clients -> Conns]
    BY <1>1 DEF Conns
  <2>3. \A k \in 1..Len(port') : port'[k].kind = "read" => k \in 1..Len(q) /\ port'[k] = q[k]
    BY <1>2, <2>1, <2>2, AcceptExKeeps
  <2>4. \A k \in 1..Len(port') : port'[k].kind = "read" =>
           \E j \in 1..Len(port) : port'[k] = port[j]
    BY <1>2, <2>3
  <2> QED
    BY <1>1, <2>1, <2>4, FramedKept
<1>4. CASE HandleRead
  <2>1. /\ e.kind = "read" /\ port' = q
        /\ reading' = [reading EXCEPT ![e.c] = "none"]
        /\ \/ e.ok /\ OnRead(e.c, e.size) /\ cur' = e.c
           \/ ~e.ok /\ UNCHANGED <<got, want, dead>>
    BY <1>4 DEF HandleRead
  <2>2. e.size \in 0..MessageUnits /\ (e.ok \/ e.size = 0)
    BY <1>2, <2>1, EntryShape DEF Framed, FailedEmpty
  <2>3. \A k \in 1..Len(q) : ~(q[k].kind = "read" /\ q[k].c = e.c)
    <3>1. Matches(e, "read", e.c) /\ Unique(port, "read", e.c)
      BY <1>2, <2>1 DEF Matches, Reads, ReadsQueued
    <3>2. ~In(q, "read", e.c)
      BY <1>1, <3>1, DequeuedEntries
    <3> QED
      BY <3>2 DEF In, Matches
  <2>4. Aligned /\ FailedEmpty(port)
    BY <1>1 DEF Framed, Framing
  <2> HIDE DEF e, q
  <2>5. FailedEmpty(port)'
    BY <1>2, <2>1, <2>4 DEF FailedEmpty
  <2>6. PICK c \in Clients : c = e.c
    BY <1>2
  <2>7. consumed[c] = Boundary(c) + e.size
    BY <1>2, <2>1, <2>4, <2>6 DEF Aligned
  <2>8. ASSUME consumed[c] = Boundary(c)',
               \A d \in Clients : d # c => got'[d] = got[d] /\ want'[d] = want[d]
        PROVE  Aligned'
    <3> SUFFICES ASSUME NEW d \in Clients
                 PROVE  /\ reading'[d] # "queued" => consumed[d] = Boundary(d)'
                        /\ \A k \in 1..Len(q) : q[k].kind = "read" /\ q[k].c = d
                             => consumed[d] = Boundary(d)' + q[k].size
      BY <1>1, <2>1 DEF Aligned
    <3>1. CASE d = c
      BY <2>3, <2>6, <2>8, <3>1
    <3>2. CASE d # c
      <4>1. Boundary(d)' = Boundary(d) /\ reading'[d] = reading[d]
        BY <1>1, <2>1, <2>6, <2>8, <3>2 DEF Boundary
      <4> QED
        BY <1>2, <2>4, <4>1 DEF Aligned
    <3> QED
      BY <3>1, <3>2
  <2>9. CASE OnRead(e.c, e.size) /\ cur' = e.c
    <3>1. e.size = 0 => end[c] # "open"
      BY <1>2, <2>1, <2>6 DEF Echoes, EmptyReads
    <3>2. /\ EndCauses'
          /\ dead' = "no" => consumed'[c] = Boundary(c)'
          /\ \A d \in Clients : d # c => got'[d] = got[d] /\ want'[d] = want[d]
      BY <1>1, <2>2, <2>6, <2>7, <2>9, <3>1, OnReadFramed
    <3> QED
      BY <1>1, <2>5, <2>8, <3>2 DEF Framed, Framing
  <2>10. CASE ~e.ok /\ UNCHANGED <<got, want, dead>>
    <3>1. consumed[c] = Boundary(c) + 0 /\ Boundary(c)' = Boundary(c)
      BY <2>2, <2>7, <2>10 DEF Boundary
    <3>2. Boundary(c) \in Nat
      <4>1. got[c] \in Nat
        BY DEF Shape, ResultShape
      <4>2. got[c] * MessageUnits \in Nat /\ HeaderUnits \in Nat
        BY <4>1, NextMessage, Units
      <4> QED
        BY <4>2 DEF Boundary
    <3>3. Aligned'
      BY <2>8, <2>10, <3>1, <3>2
    <3> QED
      BY <1>1, <2>5, <2>10, <3>3 DEF Framed, Framing, EndCauses
  <2> QED
    BY <2>1, <2>9, <2>10
<1> QED
  BY <1>3, <1>4

\* The worker reads within a callback.
LEMMA RecvFramed == ASSUME Shape, Reads, Echoes, Framed, Recv PROVE Framed'
<1>1. /\ Alive /\ dead = "no" /\ at = "recv" /\ cur \in Clients
      /\ UNCHANGED <<end, port, cur>>
      /\ consumed \in [Clients -> Nat] /\ reading \in [Clients -> {"none", "pending", "queued"}]
  BY DEF Recv, Alive, Shape, WorkerShape, UnitsShape, PortShape
<1>2. PICK c \in Clients : c = cur
  BY <1>1
<1>3. reading[c] = "none" /\ Aligned /\ FailedEmpty(port)
  BY <1>1, <1>2 DEF Reads, ReadHeld, Calling, Framed, Framing
<1>4. \A k \in 1..Len(port) : ~(port[k].kind = "read" /\ port[k].c = c)
  BY <1>3 DEF Reads, ReadsQueued, In, Matches
<1>5. consumed[c] = Boundary(c)
  BY <1>3 DEF Aligned
<1>6. FailedEmpty(port)'
  BY <1>1, <1>3
<1>7. ASSUME consumed'[c] = Boundary(c)', reading'[c] # "queued",
             \A d \in Clients : d # c => /\ got'[d] = got[d] /\ want'[d] = want[d]
                                         /\ consumed'[d] = consumed[d]
                                         /\ reading'[d] = reading[d]
      PROVE  Aligned'
  <2> SUFFICES ASSUME NEW d \in Clients
               PROVE  /\ reading'[d] # "queued" => consumed'[d] = Boundary(d)'
                      /\ \A k \in 1..Len(port) : port[k].kind = "read" /\ port[k].c = d
                           => consumed'[d] = Boundary(d)' + port[k].size
    BY <1>1 DEF Aligned
  <2>1. CASE d = c
    BY <1>4, <1>7, <2>1
  <2>2. CASE d # c
    <3>1. Boundary(d)' = Boundary(d)
      BY <1>7, <2>2 DEF Boundary
    <3> QED
      BY <1>3, <1>7, <2>2, <3>1 DEF Aligned
  <2> QED
    BY <2>1, <2>2
<1>8. ASSUME NEW n \in 0..MessageUnits, OnRead(c, n), n = 0 => end[c] # "open",
             consumed'[c] = consumed[c] + n, reading' = reading,
             \A d \in Clients : d # c => consumed'[d] = consumed[d]
      PROVE  Framed'
  <2>1. /\ EndCauses'
        /\ dead' = "no" => consumed'[c] = Boundary(c)'
        /\ \A d \in Clients : d # c => got'[d] = got[d] /\ want'[d] = want[d]
    BY <1>1, <1>2, <1>5, <1>8, OnReadFramed
  <2> QED
    BY <1>3, <1>6, <1>7, <1>8, <2>1 DEF Framed, Framing
<1>9. PICK n \in 0..MessageUnits : n = Least(Want(cur), Available(cur))
  <2>1. Available(cur) \in Nat /\ Want(cur) \in 1..MessageUnits /\ MessageUnits \in Nat
    BY <1>1, Units DEF Available, Shape, UnitsShape
  <2> QED
    BY <2>1, LeastFacts
<1>10. CASE /\ n > 0 /\ consumed' = [consumed EXCEPT ![cur] = @ + n]
            /\ OnRead(cur, n) /\ reading' = reading
  BY <1>1, <1>2, <1>8, <1>10
<1>11. CASE end[cur] # "open" /\ OnRead(cur, 0) /\ UNCHANGED <<reading, consumed>>
  <2>1. 0 \in 0..MessageUnits /\ consumed'[c] = consumed[c] + 0
    BY <1>1, <1>11, Units
  <2> QED
    BY <1>2, <1>8, <1>11, <2>1
<1>12. CASE /\ reading' = [reading EXCEPT ![cur] = "pending"]
            /\ UNCHANGED <<consumed, want, got, dead>>
  <2>1. Boundary(c)' = Boundary(c) /\ reading'[c] = "pending"
    BY <1>1, <1>2, <1>12 DEF Boundary
  <2>2. Aligned'
    BY <1>1, <1>2, <1>5, <1>7, <1>12, <2>1
  <2> QED
    BY <1>1, <1>6, <1>12, <2>2 DEF Framed, Framing, EndCauses
<1> QED
  BY <1>9, <1>10, <1>11, <1>12 DEF Recv

\* Every step keeps the framing.
LEMMA FramedStep == Shape /\ Reads /\ Echoes /\ Framed /\ [Next]_vars => Framed'
<1> SUFFICES ASSUME Shape, Reads, Echoes, Framed, [Next]_vars PROVE Framed'
  OBVIOUS
<1>1. CASE UNCHANGED vars
  BY <1>1 DEF vars, netVars, workerVars, Framed, FailedEmpty, Framing, Aligned, Boundary,
     EndCauses
<1>2. CASE Unwind
  <2>1. dead = "no" /\ UNCHANGED <<dead, consumed, reading, got, want, port>>
    BY <1>2 DEF Unwind, netVars, Alive
  <2> QED
    BY <2>1, FramedKept
<1> QED
  BY <1>1, <1>2, ClientFramed, OwnerFramed, TakeFramed, RecvFramed DEF Next, Worker

\* Before start() nothing was read.
LEMMA FramedInit == Init => Framed
<1> SUFFICES ASSUME Init PROVE Framed
  OBVIOUS
<1>1. Len(port) = 0 /\ \A k \in 1..Len(port) : FALSE
  BY EmptySeq DEF Init
<1>2. \A c \in Clients : Boundary(c) = 0 * MessageUnits + 0
  BY DEF Init, Boundary
<1>3. 0 * MessageUnits + 0 = 0
  BY Units
<1> QED
  BY <1>1, <1>2, <1>3 DEF Init, Framed, FailedEmpty, Framing, Aligned, EndCauses

\* Reads begin and end where the client's headers and bodies do, for any clients,
\* any length of a body, any way in which they arrive and any depth of the stack;
\* so only a part of a header or body, or too many nested calls, ends the process.
THEOREM FramingCorrect == Spec => []Framing
<1>1. Framed => Framing
  BY DEF Framed
<1> QED
  BY <1>1, ReadsInit, EchoesInit, FramedInit, ShapeInit,
     ShapeStep, ReadsStep, EchoesStep, FramedStep, PTL DEF Spec
=============================================================================
