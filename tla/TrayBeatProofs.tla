--------------------------- MODULE TrayBeatProofs ---------------------------
(***************************************************************************)
(* Machine-checked facts about TrayBeat for any number of beats and any    *)
(* way in which TCP cuts the answers.                                      *)
(***************************************************************************)
EXTENDS TrayBeat, SequenceTheorems, FiniteSetTheorems, TLAPS

\* TypeOK in parts; Beats says that a beat is taken for a tick, MutexShape also
\* that init() starts the timer's thread.
UiShape ==
    /\ ui \in {"init", "failed", "inited", "insert", "signal", "arm", "done"}
    /\ timers_ \in BOOLEAN /\ update_ \in BOOLEAN /\ handles \in BOOLEAN
    /\ armed \in BOOLEAN /\ signalled \in BOOLEAN
    /\ dead \in {"no", "terminated", "short", "misframed"}
Beats ==
    /\ ticks \in 0..MaxTicks /\ sent \in Nat /\ sent <= ticks
    /\ signalled => sent < ticks
    /\ tt \in {"beat", "send"} => sent < ticks
    /\ signalled /\ tt \in {"beat", "send"} => sent + 1 < ticks
ThreadShape ==
    /\ tt \in {"none", "wait", "beat", "send", "relock", "hung", "recv"}
    /\ wk \in {"idle", "lock", "recv"}
    /\ want \in [{"timer", "worker"} -> {"header", "body"}]
MutexShape ==
    /\ mutex_ \in {"free", "ui", "timer", "worker"}
    /\ mutex_ = "ui" <=> ui \in {"insert", "signal", "arm"}
    /\ mutex_ = "timer" <=> tt \in {"send", "relock", "hung", "recv"}
    /\ mutex_ = "worker" => wk = "recv"
    /\ ui = "init" => tt = "none"
PortShape ==
    /\ reads \in Seq({"header", "body"}) /\ port \in Seq(Completions)
NetShape ==
    /\ net \in {"open", "fin", "rst"} /\ late \in BOOLEAN
    /\ consumed \in Nat /\ arrived \in Nat
    /\ consumed <= arrived /\ arrived <= 3 * sent
Shape == UiShape /\ Beats /\ ThreadShape /\ MutexShape /\ PortShape /\ NetShape

-----------------------------------------------------------------------------
(* Facts about the operators of the model.                                 *)

\* What a thread does when it reads on and when it returns.
LEMMA GoesOn ==
    ASSUME Shape, NEW p \in {"timer", "worker"}, NEW w \in {"header", "body"}
    PROVE  /\ ReadsOn(p, w) =>
                /\ want' = [want EXCEPT ![p] = w] /\ mutex_' = mutex_
                /\ p = "timer" => tt' = "recv" /\ wk' = wk
                /\ p = "worker" => wk' = "recv" /\ tt' = tt
           /\ Returns(p) =>
                /\ want' = want
                /\ p = "timer" => tt' = "wait" /\ wk' = wk
                /\ p = "worker" => wk' = "idle" /\ tt' = tt
                /\ mutex_ = p => mutex_' = "free"
                /\ mutex_ # p => mutex_' = mutex_
BY DEF ReadsOn, Returns

\* What handing n units to the channel can do: the process ends; the body is
\* read next, after a whole header; or the thread returns.
LEMMA OnReadFacts ==
    ASSUME NEW p \in {"timer", "worker"}, NEW w \in {"header", "body"}, NEW n \in 0..2,
           NEW framed \in BOOLEAN, OnRead(p, w, n, framed)
    PROVE  \/ /\ dead' \in {"short", "misframed"} /\ (dead' = "misframed" => ~framed)
              /\ UNCHANGED <<mutex_, tt, wk, want>>
           \/ ReadsOn(p, "body") /\ dead' = dead /\ framed /\ w = "header" /\ n = 2
           \/ Returns(p) /\ dead' = dead
BY DEF OnRead, Size

\* A read asks for one unit or two.
LEMMA SizeFacts ==
    ASSUME NEW w \in {"header", "body"}
    PROVE  Size(w) \in {1, 2} /\ (w = "header" <=> Size(w) = 2)
BY DEF Size

\* Least is the smaller one.
LEMMA LeastFacts ==
    ASSUME NEW a \in Int, NEW b \in Int
    PROVE  Least(a, b) \in {a, b} /\ Least(a, b) <= a /\ Least(a, b) <= b
BY DEF Least

\* What there is to read for a read of a header or a body.
LEMMA ReadFacts ==
    ASSUME NetShape, NEW w \in {"header", "body"}, NEW n,
           n = IF net = "rst" THEN 0 ELSE Least(arrived - consumed, Size(w))
    PROVE  n \in 0..2 /\ n <= Size(w) /\ consumed + n \in Nat /\ consumed + n <= arrived
<1>1. arrived - consumed \in Nat /\ consumed \in Nat /\ arrived \in Nat
  BY DEF NetShape
<1>2. Size(w) \in {1, 2}
  BY SizeFacts
<1>3. CASE net = "rst"
  BY <1>1, <1>2, <1>3
<1>4. CASE net # "rst"
  <2>1. n \in {arrived - consumed, Size(w)} /\ n <= arrived - consumed /\ n <= Size(w)
    BY <1>1, <1>2, <1>4, LeastFacts
  <2> QED
    BY <1>1, <1>2, <2>1
<1> QED
  BY <1>3, <1>4

\* What a queued completion looks like.
LEMMA EntryShape ==
    ASSUME NEW e \in Completions
    PROVE  /\ e.op \in {"write", "read"} /\ e.ok \in BOOLEAN
           /\ e.op = "read" => /\ e.want \in {"header", "body"} /\ e.n \in 0..2
                               /\ e.framed \in BOOLEAN
BY DEF Completions

\* Completions that the kernel queues have their shape.
LEMMA EntryMade ==
    /\ \A b \in BOOLEAN : [op |-> "write", ok |-> b] \in Completions
    /\ \A w \in {"header", "body"}, n \in 0..2, f, b \in BOOLEAN :
          [op |-> "read", want |-> w, n |-> n, framed |-> f, ok |-> b] \in Completions
BY DEF Completions

\* A queue after an element joins it.
LEMMA Queued ==
    ASSUME NEW S, NEW q \in Seq(S), NEW e \in S
    PROVE  /\ Append(q, e) \in Seq(S)
           /\ Len(q) \in Nat /\ Len(Append(q, e)) = Len(q) + 1
           /\ \A k \in 1..Len(q) : Append(q, e)[k] = q[k]
           /\ Append(q, e)[Len(q) + 1] = e
OBVIOUS

\* A queue after its first element is taken.
LEMMA Dequeued ==
    ASSUME NEW S, NEW q \in Seq(S), q # <<>>
    PROVE  /\ Head(q) \in S /\ Head(q) = q[1]
           /\ Tail(q) \in Seq(S) /\ Len(Tail(q)) = Len(q) - 1
           /\ Len(q) \in Nat \ {0} /\ 1 \in 1..Len(q)
           /\ \A k \in 1..Len(Tail(q)) : k + 1 \in 1..Len(q) /\ Tail(q)[k] = q[k + 1]
           /\ \A k \in 1..Len(q) : k = 1 \/ (k - 1 \in 1..Len(Tail(q)) /\ Tail(q)[k - 1] = q[k])
BY HeadTailProperties, EmptySeq

-----------------------------------------------------------------------------
(* Every step keeps the shape of the state.                                *)

\* The dialog's steps.
LEMMA UiKeepsShape == ASSUME Shape, Ui PROVE Shape'
<1>1. UNCHANGED <<handles, signalled, ticks, wk, want, port, reads, net, sent, arrived,
                  consumed, late, dead>>
  BY DEF Ui, UiInit, UiStart, UiInsert, UiSignal, UiArm, RequestInit, timerVars, netVars
<1>2. /\ ui' \in {"init", "failed", "inited", "insert", "signal", "arm", "done"}
      /\ timers_' \in BOOLEAN /\ update_' \in BOOLEAN /\ armed' \in BOOLEAN
      /\ tt' = tt \/ (tt' = "wait" /\ ui = "init")
  BY DEF Ui, UiInit, UiStart, UiInsert, UiSignal, UiArm, RequestInit, timerVars, netVars,
     Shape, UiShape
<1>3. tt' = "wait" => tt' \notin {"beat", "send"}
  OBVIOUS
<1>4. UiShape' /\ Beats' /\ ThreadShape' /\ PortShape' /\ NetShape'
  BY <1>1, <1>2, <1>3 DEF Shape, UiShape, Beats, ThreadShape, PortShape, NetShape
<1>5. MutexShape'
  <2>1. CASE UiInit
    <3>1. mutex_' = mutex_ /\ ui = "init" /\ ui' \in {"failed", "inited"}
          /\ tt' \in {tt, "wait"} /\ wk' = wk
      BY <2>1 DEF UiInit, RequestInit
    <3>2. tt = "none"
      BY <3>1 DEF Shape, MutexShape
    <3> QED
      BY <3>1, <3>2 DEF Shape, MutexShape
  <2>2. CASE UiStart
    BY <2>2 DEF UiStart, Shape, MutexShape
  <2>3. CASE UiInsert \/ UiSignal \/ UiArm
    BY <2>3 DEF UiInsert, UiSignal, UiArm, Shape, MutexShape
  <2> QED
    BY <2>1, <2>2, <2>3 DEF Ui
<1> QED
  BY <1>4, <1>5 DEF Shape

\* The timer's steps, and the steps of its thread up to the send.
LEMMA TimerKeepsShape ==
    ASSUME Shape, Tick \/ CopyHandles \/ TakeTick \/ HandleBeat PROVE Shape'
<1>1. UNCHANGED <<ui, armed, wk, want, port, reads, net, sent, arrived, consumed, late, dead>>
  BY DEF Tick, CopyHandles, TakeTick, HandleBeat, timerVars, netVars
<1>2. PortShape' /\ NetShape'
  BY <1>1 DEF Shape, PortShape, NetShape
<1>3. CASE Tick
  <2>1. /\ ticks < MaxTicks /\ ticks' = ticks + 1 /\ signalled' = TRUE
        /\ UNCHANGED <<mutex_, timers_, update_, handles, tt>>
    BY <1>3 DEF Tick
  <2>2. Beats'
    BY <1>1, <2>1, TrayBeatAssumption DEF Shape, Beats
  <2> QED
    BY <1>1, <1>2, <2>1, <2>2 DEF Shape, UiShape, ThreadShape, MutexShape
<1>4. CASE CopyHandles
  <2>1. /\ update_' = FALSE /\ handles' = timers_
        /\ UNCHANGED <<mutex_, timers_, signalled, ticks, tt>>
    BY <1>4 DEF CopyHandles
  <2>2. UiShape'
    BY <1>1, <2>1, Zenon DEF Shape, UiShape
  <2>3. Beats' /\ ThreadShape' /\ MutexShape'
    BY <1>1, <2>1 DEF Shape, Beats, ThreadShape, MutexShape
  <2> QED
    BY <1>2, <2>2, <2>3 DEF Shape
<1>5. CASE TakeTick
  <2>1. /\ tt = "wait" /\ signalled /\ signalled' = FALSE /\ tt' \in {"beat", "wait"}
        /\ UNCHANGED <<mutex_, timers_, update_, handles, ticks>>
    BY <1>5 DEF TakeTick
  <2>2. UiShape'
    BY <1>1, <2>1, Zenon DEF Shape, UiShape
  <2>3. Beats' /\ ThreadShape' /\ MutexShape'
    BY <1>1, <2>1 DEF Shape, Beats, ThreadShape, MutexShape
  <2> QED
    BY <1>2, <2>2, <2>3 DEF Shape
<1>6. CASE HandleBeat
  <2>1. /\ tt = "beat" /\ mutex_ = "free" /\ mutex_' = "timer" /\ tt' = "send"
        /\ UNCHANGED <<timers_, update_, handles, signalled, ticks>>
    BY <1>6 DEF HandleBeat, timerVars
  <2> QED
    BY <1>1, <1>2, <2>1 DEF Shape, UiShape, Beats, ThreadShape, MutexShape
<1> QED
  BY <1>3, <1>4, <1>5, <1>6

\* The send, and what follows it in the same call.
LEMMA SendKeepsShape == ASSUME Shape, AsyncWrite \/ Relock PROVE Shape'
<1>1. CASE AsyncWrite
  <2>1. /\ tt = "send" /\ tt' \in {"wait", "relock"}
        /\ UNCHANGED <<ui, timers_, update_, handles, armed, signalled, ticks, wk, want,
                       reads, net, arrived, consumed, dead>>
        /\ (mutex_' = "free" /\ tt' = "wait") \/ (mutex_' = mutex_ /\ tt' = "relock")
    BY <1>1 DEF AsyncWrite, timerVars
  <2>2. /\ sent' = sent \/ sent' = sent + 1
        /\ late' \in BOOLEAN
    BY <1>1 DEF AsyncWrite, Request, Shape, NetShape
  <2>3. port' \in Seq(Completions)
    <3>1. port \in Seq(Completions)
      BY DEF Shape, PortShape
    <3>2. CASE port' = port
      BY <3>1, <3>2
    <3>3. ASSUME NEW b \in BOOLEAN, port' = Append(port, [op |-> "write", ok |-> b])
          PROVE  port' \in Seq(Completions)
      <4>1. [op |-> "write", ok |-> b] \in Completions
        BY EntryMade
      <4> QED
        BY <3>1, <3>3, <4>1, Queued
    <3>4. port' = port \/ \E b \in BOOLEAN : port' = Append(port, [op |-> "write", ok |-> b])
      BY <1>1 DEF AsyncWrite
    <3> QED
      BY <3>2, <3>3, <3>4
  <2>4. Beats'
    BY <2>1, <2>2 DEF Shape, Beats
  <2>5. NetShape'
    BY <2>1, <2>2 DEF Shape, Beats, NetShape
  <2>6. MutexShape'
    BY <2>1 DEF Shape, MutexShape
  <2> QED
    BY <2>1, <2>3, <2>4, <2>5, <2>6 DEF Shape, UiShape, ThreadShape, PortShape
<1>2. CASE Relock
  <2>1. /\ tt = "relock" /\ tt' \in {"relock", "hung", "recv"}
        /\ dead' \in {dead, "terminated"}
        /\ want' \in {want, [want EXCEPT !["timer"] = "header"]}
        /\ UNCHANGED <<ui, mutex_, timers_, update_, handles, armed, signalled, ticks, wk,
                       port, reads, net, sent, arrived, consumed, late>>
    BY <1>2 DEF Relock, timerVars, netVars
  <2>2. ThreadShape'
    BY <2>1 DEF Shape, ThreadShape
  <2>3. MutexShape'
    BY <2>1 DEF Shape, MutexShape
  <2> QED
    BY <2>1, <2>2, <2>3 DEF Shape, UiShape, Beats, PortShape, NetShape
<1> QED
  BY <1>1, <1>2

\* Thread p reads on or returns.
LEMMA GoingOnKeepsShape ==
    ASSUME Shape, NEW p \in {"timer", "worker"}, UNCHANGED <<ui, ticks, sent, signalled>>,
           p = "timer" => tt = "recv",
           UNCHANGED <<mutex_, tt, wk, want>> \/ ReadsOn(p, "body") \/ Returns(p)
    PROVE  Beats' /\ ThreadShape' /\ MutexShape'
<1>1. CASE UNCHANGED <<mutex_, tt, wk, want>>
  BY <1>1 DEF Shape, Beats, ThreadShape, MutexShape
<1>2. CASE ReadsOn(p, "body")
  <2>1. /\ want' = [want EXCEPT ![p] = "body"] /\ mutex_' = mutex_
        /\ (tt' = tt /\ wk' = wk) \/ (p = "worker" /\ wk' = "recv" /\ tt' = tt)
    BY <1>2, GoesOn
  <2>2. ThreadShape'
    BY <2>1 DEF Shape, ThreadShape
  <2> QED
    BY <2>1, <2>2 DEF Shape, Beats, MutexShape
<1>3. CASE Returns(p)
  <2>1. /\ want' = want
        /\ p = "timer" => tt' = "wait" /\ wk' = wk
        /\ p = "worker" => wk' = "idle" /\ tt' = tt
        /\ mutex_ = p => mutex_' = "free"
        /\ mutex_ # p => mutex_' = mutex_
    BY <1>3, GoesOn
  <2>2. CASE p = "timer"
    <3>1. mutex_ = "timer" /\ mutex_' = "free" /\ tt' = "wait" /\ wk' = wk /\ tt = "recv"
      BY <2>1, <2>2 DEF Shape, MutexShape
    <3> QED
      BY <2>1, <3>1 DEF Shape, Beats, ThreadShape, MutexShape
  <2>3. CASE p = "worker"
    <3>1. /\ wk' = "idle" /\ tt' = tt
          /\ mutex_ = "worker" => mutex_' = "free"
          /\ mutex_ # "worker" => mutex_' = mutex_
      BY <2>1, <2>3
    <3> QED
      BY <2>1, <3>1 DEF Shape, Beats, ThreadShape, MutexShape
  <2> QED
    BY <2>2, <2>3
<1> QED
  BY <1>1, <1>2, <1>3

\* A read by thread p.
LEMMA RecvKeepsShape ==
    ASSUME Shape, NEW p \in {"timer", "worker"}, Recv(p) PROVE Shape'
<1>1. /\ UNCHANGED <<ui, timers_, update_, handles, armed, signalled, ticks, port, net, sent,
                     arrived, late>>
      /\ p = "timer" => tt = "recv"
      /\ want[p] \in {"header", "body"}
  BY DEF Recv, timerVars, Shape, ThreadShape
<1>2. PICK n : n = IF net = "rst" THEN 0 ELSE Least(arrived - consumed, Size(want[p]))
  OBVIOUS
<1>3. n \in 0..2 /\ consumed + n \in Nat /\ consumed + n <= arrived
  BY <1>1, <1>2, ReadFacts DEF Shape
<1>4. CASE /\ consumed' = consumed + n /\ reads' = reads
           /\ OnRead(p, want[p], n, Framed(want[p], consumed))
  <2>1. Framed(want[p], consumed) \in BOOLEAN
    BY DEF Framed
  <2>2. /\ dead' \in {dead, "short", "misframed"}
        /\ UNCHANGED <<mutex_, tt, wk, want>> \/ ReadsOn(p, "body") \/ Returns(p)
    BY <1>1, <1>3, <1>4, <2>1, OnReadFacts
  <2>3. Beats' /\ ThreadShape' /\ MutexShape'
    BY <1>1, <2>2, GoingOnKeepsShape
  <2>4. NetShape'
    BY <1>1, <1>3, <1>4 DEF Shape, NetShape
  <2> QED
    BY <1>1, <1>4, <2>2, <2>3, <2>4 DEF Shape, UiShape, PortShape
<1>5. CASE /\ reads' = Append(reads, want[p]) /\ Returns(p) /\ UNCHANGED <<consumed, dead>>
  <2>1. Beats' /\ ThreadShape' /\ MutexShape'
    BY <1>1, <1>5, GoingOnKeepsShape
  <2>2. reads' \in Seq({"header", "body"})
    BY <1>1, <1>5, Queued DEF Shape, PortShape
  <2> QED
    BY <1>1, <1>5, <2>1, <2>2 DEF Shape, UiShape, PortShape, NetShape
<1> QED
  BY <1>2, <1>4, <1>5 DEF Recv

\* The worker takes a completion, or locks.
LEMMA WorkerKeepsShape ==
    ASSUME Shape, HandleWrite \/ AsyncRead \/ HandleRead PROVE Shape'
<1>1. UNCHANGED <<ui, timers_, update_, handles, armed, signalled, ticks, reads, net, sent,
                  arrived, consumed, late>>
  BY DEF HandleWrite, AsyncRead, HandleRead, timerVars, netVars
<1>2. CASE HandleWrite
  <2>1. /\ wk = "idle" /\ wk' \in {"lock", "idle"} /\ port # <<>> /\ port' = Tail(port)
        /\ UNCHANGED <<mutex_, tt, want, dead>>
    BY <1>2 DEF HandleWrite
  <2>2. port' \in Seq(Completions)
    BY <2>1, Dequeued DEF Shape, PortShape
  <2> QED
    BY <1>1, <2>1, <2>2 DEF Shape, UiShape, Beats, ThreadShape, MutexShape, PortShape, NetShape
<1>3. CASE AsyncRead
  <2>1. /\ wk = "lock" /\ mutex_ = "free" /\ mutex_' = "worker" /\ wk' = "recv"
        /\ want' = [want EXCEPT !["worker"] = "header"]
        /\ UNCHANGED <<tt, port, dead>>
    BY <1>3 DEF AsyncRead
  <2> QED
    BY <1>1, <2>1 DEF Shape, UiShape, Beats, ThreadShape, MutexShape, PortShape, NetShape
<1>4. CASE HandleRead
  <2> DEFINE e == Head(port)
  <2>1. /\ wk = "idle" /\ port # <<>> /\ e.op = "read" /\ port' = Tail(port)
        /\ \/ OnRead("worker", e.want, e.n, e.framed)
           \/ UNCHANGED <<mutex_, tt, wk, want, dead>>
    BY <1>4 DEF HandleRead
  <2>2. e \in Completions /\ port' \in Seq(Completions)
    BY <2>1, Dequeued DEF Shape, PortShape
  <2> HIDE DEF e
  <2>3. e.want \in {"header", "body"} /\ e.n \in 0..2 /\ e.framed \in BOOLEAN
    BY <2>1, <2>2, EntryShape
  <2>4. /\ dead' \in {dead, "short", "misframed"}
        /\ \/ UNCHANGED <<mutex_, tt, wk, want>>
           \/ ReadsOn("worker", "body") \/ Returns("worker")
    BY <2>1, <2>3, OnReadFacts
  <2>5. Beats' /\ ThreadShape' /\ MutexShape'
    BY <1>1, <2>4, GoingOnKeepsShape
  <2> QED
    BY <1>1, <2>2, <2>4, <2>5 DEF Shape, UiShape, PortShape, NetShape
<1> QED
  BY <1>2, <1>3, <1>4

\* The network's steps.
LEMMA NetKeepsShape ==
    ASSUME Shape, Disconnect \/ Complete \/ \E n \in Segments : Arrive(n) PROVE Shape'
<1>1. UNCHANGED <<ui, mutex_, timers_, update_, handles, armed, signalled, ticks, tt, wk, want,
                  sent, late, dead>>
  BY DEF Disconnect, Complete, Arrive, timerVars
<1>2. UiShape' /\ Beats' /\ ThreadShape' /\ MutexShape'
  BY <1>1 DEF Shape, UiShape, Beats, ThreadShape, MutexShape
<1>3. CASE Disconnect
  <2>1. net' \in {"fin", "rst"} /\ UNCHANGED <<port, reads, arrived, consumed>>
    BY <1>3 DEF Disconnect
  <2> QED
    BY <1>1, <1>2, <2>1 DEF Shape, PortShape, NetShape
<1>4. ASSUME NEW n \in Segments, Arrive(n) PROVE Shape'
  <2>1. /\ arrived + n <= Units * sent /\ arrived' = arrived + n
        /\ UNCHANGED <<port, reads, net, consumed>>
    BY <1>4 DEF Arrive
  <2>2. NetShape'
    BY <1>1, <2>1, TrayBeatAssumption DEF Shape, NetShape, Units
  <2> QED
    BY <1>2, <2>1, <2>2 DEF Shape, PortShape
<1>5. CASE Complete
  <2>1. reads # <<>> /\ reads' = Tail(reads) /\ UNCHANGED <<net, arrived>>
    BY <1>5 DEF Complete
  <2>2. Head(reads) \in {"header", "body"} /\ reads' \in Seq({"header", "body"})
    BY <2>1, Dequeued DEF Shape, PortShape
  <2>3. PICK w \in {"header", "body"} : w = Head(reads)
    BY <2>2
  <2>4. PICK n : n = IF net = "rst" THEN 0 ELSE Least(arrived - consumed, Size(w))
    OBVIOUS
  <2>5. n \in 0..2 /\ consumed + n \in Nat /\ consumed + n <= arrived
    BY <2>4, ReadFacts DEF Shape
  <2>6. PICK f \in BOOLEAN, b \in BOOLEAN :
           /\ consumed' = consumed + n
           /\ port' = Append(port, [op |-> "read", want |-> w, n |-> n, framed |-> f, ok |-> b])
    <3>1. Framed(w, consumed) \in BOOLEAN /\ (net # "rst") \in BOOLEAN
      BY DEF Framed
    <3> QED
      BY <1>5, <2>3, <2>4, <3>1 DEF Complete
  <2>7. port' \in Seq(Completions)
    BY <2>5, <2>6, EntryMade, Queued DEF Shape, PortShape
  <2>8. NetShape'
    BY <1>1, <2>1, <2>5, <2>6 DEF Shape, NetShape
  <2> QED
    BY <1>2, <2>2, <2>7, <2>8 DEF Shape, PortShape
<1> QED
  BY <1>3, <1>4, <1>5

\* Every step keeps the shape of the state.
LEMMA ShapeStep == Shape /\ [Next]_vars => Shape'
<1>1. ASSUME Shape, UNCHANGED vars PROVE Shape'
  BY <1>1 DEF vars, timerVars, netVars, Shape, UiShape, Beats, ThreadShape, MutexShape,
     PortShape, NetShape
<1> QED
  BY <1>1, UiKeepsShape, TimerKeepsShape, SendKeepsShape, RecvKeepsShape, WorkerKeepsShape,
     NetKeepsShape DEF Next, TimerThread, Worker

\* The state before OnInitDialog() has its shape.
LEMMA ShapeInit == Init => Shape
<1> SUFFICES ASSUME Init PROVE Shape
  OBVIOUS
<1>1. want \in [{"timer", "worker"} -> {"header", "body"}]
  BY DEF Init
<1>2. PortShape
  BY EmptySeq DEF Init, PortShape
<1> QED
  <2>1. UiShape
    BY Zenon DEF Init, UiShape
  <2>2. Beats
    BY TrayBeatAssumption DEF Init, Beats
  <2>3. ThreadShape /\ MutexShape
    BY <1>1 DEF Init, ThreadShape, MutexShape
  <2>4. late \in BOOLEAN
    BY Zenon DEF Init
  <2>5. NetShape
    BY <2>4 DEF Init, NetShape
  <2> QED
    BY <1>2, <2>1, <2>2, <2>3, <2>5 DEF Shape

\* Every variable keeps its shape, and mutex_ is the timer's thread's exactly
\* while it is inside async_write(), for any number of beats.
THEOREM TypeCorrect == Spec => []TypeOK
<1>1. ASSUME Shape PROVE TypeOK
  <2>1. {timers_, update_, handles, armed, signalled, late} \subseteq BOOLEAN
    BY <1>1, Zenon DEF Shape, UiShape, NetShape
  <2>2. /\ ticks \in 0..MaxTicks /\ sent \in 0..MaxTicks
        /\ consumed \in 0..arrived /\ arrived \in 0..(Units * sent)
    BY <1>1, TrayBeatAssumption DEF Shape, Beats, NetShape, Units
  <2> QED
    BY <1>1, <2>1, <2>2 DEF Shape, UiShape, ThreadShape, MutexShape, PortShape, NetShape, TypeOK
<1> QED
  BY <1>1, ShapeInit, ShapeStep, PTL DEF Spec

-----------------------------------------------------------------------------
(* Answers in turn.  Inductive invariant: as long as no request overtook an *)
(* answer, the right to read the answer is with one holder, from the send  *)
(* on: the timer's thread, the worker, the port or the kernel; and what    *)
(* was read of the answer (c units in all, of s answers) fits the holder.  *)

\* A completion that leads to a read, or to the rest of one.
Token(e) == e.op = "write" \/ e.want = "header"
InPort(q) == \E k \in 1..Len(q) : Token(q[k])
AtMostOnce(q) == \A j, k \in 1..Len(q) : Token(q[j]) /\ Token(q[k]) => j = k

TimerHas == tt \in {"relock", "recv"}
WorkerHas == wk \in {"lock", "recv"}
OneHolder ==
    /\ AtMostOnce(port) /\ Len(reads) <= 1
    /\ TimerHas => ~WorkerHas /\ ~InPort(port) /\ reads = <<>>
    /\ WorkerHas => ~InPort(port) /\ reads = <<>>
    /\ InPort(port) => reads = <<>>

\* Where in the stream a read of a header or a body starts.
Starts(w, c, s) ==
    /\ w = "header" => c = 3 * s - 3
    /\ w = "body" => c = 3 * s - 1
EntryPlaced(e, c, s) ==
    /\ e.op = "write" => c = 3 * s - 3
    /\ e.op = "read" => e.framed
    /\ e.op = "read" /\ e.want = "header" => c = 3 * s - 3 + e.n
PortPlaced(q, c, s) == \A k \in 1..Len(q) : EntryPlaced(q[k], c, s)

Placed ==
    /\ tt = "relock" => Starts("header", consumed, sent)
    /\ wk = "lock" => Starts("header", consumed, sent)
    /\ tt = "recv" => Starts(want["timer"], consumed, sent)
    /\ wk = "recv" => Starts(want["worker"], consumed, sent)
    /\ reads # <<>> => Starts(reads[1], consumed, sent)
    /\ PortPlaced(port, consumed, sent)

InTurn == ~late => OneHolder /\ dead # "misframed" /\ (Alive => Placed)

\* A completion joins the port.
LEMMA QueuedTokens ==
    ASSUME NEW q \in Seq(Completions), NEW e \in Completions, NEW c, NEW s
    PROVE  /\ InPort(Append(q, e)) <=> InPort(q) \/ Token(e)
           /\ AtMostOnce(q) /\ ~(InPort(q) /\ Token(e)) => AtMostOnce(Append(q, e))
           /\ PortPlaced(q, c, s) /\ EntryPlaced(e, c, s) => PortPlaced(Append(q, e), c, s)
<1> DEFINE r == Append(q, e)
<1>1. PICK n \in Nat : n = Len(q)
  OBVIOUS
<1>2. /\ Len(r) = n + 1 /\ r[n + 1] = e
      /\ \A k \in 1..n : r[k] = q[k] /\ k \in 1..(n + 1)
      /\ n + 1 \in 1..(n + 1) /\ \A k \in 1..(n + 1) : k \in 1..n \/ k = n + 1
  BY <1>1, Queued
<1> HIDE DEF r
<1>3. InPort(r) <=> InPort(q) \/ Token(e)
  BY <1>1, <1>2 DEF InPort
<1>4. AtMostOnce(q) /\ ~(InPort(q) /\ Token(e)) => AtMostOnce(r)
  BY <1>1, <1>2 DEF InPort, AtMostOnce
<1>5. PortPlaced(q, c, s) /\ EntryPlaced(e, c, s) => PortPlaced(r, c, s)
  BY <1>1, <1>2 DEF PortPlaced
<1> QED
  BY <1>3, <1>4, <1>5 DEF r

\* The first completion is taken off the port.
LEMMA DequeuedTokens ==
    ASSUME NEW q \in Seq(Completions), q # <<>>, NEW c, NEW s
    PROVE  /\ InPort(q) <=> InPort(Tail(q)) \/ Token(Head(q))
           /\ AtMostOnce(q) => /\ AtMostOnce(Tail(q))
                               /\ ~(InPort(Tail(q)) /\ Token(Head(q)))
           /\ PortPlaced(q, c, s) => PortPlaced(Tail(q), c, s) /\ EntryPlaced(Head(q), c, s)
<1> DEFINE r == Tail(q)
<1>1. PICK n \in Nat : n = Len(r) /\ Len(q) = n + 1
  BY Dequeued
<1>2. /\ Head(q) = q[1] /\ 1 \in 1..(n + 1)
      /\ \A k \in 1..n : k + 1 \in 1..(n + 1) /\ k + 1 # 1 /\ r[k] = q[k + 1]
      /\ \A k \in 1..(n + 1) : k = 1 \/ (k - 1 \in 1..n /\ r[k - 1] = q[k])
      /\ \A j, k \in 1..n : j + 1 = k + 1 => j = k
  BY <1>1, Dequeued
<1> HIDE DEF r
<1>3. InPort(q) <=> InPort(r) \/ Token(Head(q))
  <2>1. InPort(r) => InPort(q)
    BY <1>1, <1>2 DEF InPort
  <2>2. Token(Head(q)) => InPort(q)
    BY <1>1, <1>2 DEF InPort
  <2>3. ASSUME InPort(q) PROVE InPort(r) \/ Token(Head(q))
    <3>1. PICK k \in 1..(n + 1) : Token(q[k])
      BY <1>1, <2>3 DEF InPort
    <3>2. CASE k = 1
      BY <1>2, <3>1, <3>2
    <3>3. CASE k - 1 \in 1..n /\ r[k - 1] = q[k]
      BY <1>1, <3>1, <3>3 DEF InPort
    <3> QED
      BY <1>2, <3>2, <3>3
  <2> QED
    BY <2>1, <2>2, <2>3
<1>4. AtMostOnce(q) => AtMostOnce(r) /\ ~(InPort(r) /\ Token(Head(q)))
  <2> SUFFICES ASSUME AtMostOnce(q) PROVE AtMostOnce(r) /\ ~(InPort(r) /\ Token(Head(q)))
    OBVIOUS
  <2>1. AtMostOnce(r)
    BY <1>1, <1>2 DEF AtMostOnce
  <2>2. \A k \in 1..n : Token(r[k]) => ~Token(Head(q))
    BY <1>1, <1>2 DEF AtMostOnce
  <2> QED
    BY <1>1, <2>1, <2>2 DEF InPort
<1>5. PortPlaced(q, c, s) => PortPlaced(r, c, s) /\ EntryPlaced(Head(q), c, s)
  BY <1>1, <1>2 DEF PortPlaced
<1> QED
  BY <1>3, <1>4, <1>5 DEF r

\* What else is on the port does not depend on how far the stream was read.
LEMMA QuietPort ==
    ASSUME NEW q \in Seq(Completions), ~InPort(q), NEW c, NEW s, PortPlaced(q, c, s),
           NEW c2, NEW s2
    PROVE  PortPlaced(q, c2, s2)
<1> SUFFICES ASSUME NEW k \in 1..Len(q) PROVE EntryPlaced(q[k], c2, s2)
  BY DEF PortPlaced
<1>1. ~Token(q[k]) /\ EntryPlaced(q[k], c, s)
  BY DEF InPort, PortPlaced
<1> QED
  BY <1>1 DEF Token, EntryPlaced

\* A read that starts where it should is framed.
LEMMA StartsFramed ==
    ASSUME NEW w \in {"header", "body"}, NEW c \in Nat, NEW s \in Nat, Starts(w, c, s)
    PROVE  Framed(w, c)
<1>1. CASE w = "header"
  <2>1. PICK k \in Int : k = s - 1 /\ c = 3 * k
    BY <1>1 DEF Starts
  <2>2. c % 3 = 0
    BY <2>1
  <2> QED
    BY <1>1, <2>2 DEF Framed, Units
<1>2. CASE w = "body"
  <2>1. PICK k \in Int : k = s - 1 /\ c = 3 * k + 2
    BY <1>2 DEF Starts
  <2>2. c % 3 = 2
    BY <2>1
  <2> QED
    BY <1>2, <2>2 DEF Framed, Units
<1> QED
  BY <1>1, <1>2

\* Steps that neither read nor send: a holder can only be lost.
LEMMA QuietStep ==
    ASSUME InTurn, UNCHANGED <<reads, port, consumed, sent, want, late, dead, wk>>,
           tt' = tt \/ ~TimerHas'
    PROVE  InTurn'
<1> SUFFICES ASSUME ~late PROVE OneHolder' /\ dead # "misframed" /\ (Alive => Placed')
  BY DEF InTurn, Alive
<1>1. OneHolder /\ dead # "misframed" /\ (Alive => Placed)
  BY DEF InTurn
<1>2. TimerHas' => TimerHas /\ tt' = tt
  BY DEF TimerHas
<1>3. WorkerHas' <=> WorkerHas
  BY DEF WorkerHas
<1>4. OneHolder'
  BY <1>1, <1>2, <1>3 DEF OneHolder
<1>5. ASSUME Alive PROVE Placed'
  <2>1. (tt' = "relock" => tt = "relock") /\ (tt' = "recv" => tt = "recv")
    BY DEF TimerHas
  <2> QED
    BY <1>1, <1>5, <2>1 DEF Placed
<1> QED
  BY <1>1, <1>4, <1>5

\* The steps of the dialog, the timer and the network that are quiet.
LEMMA QuietKeeps ==
    ASSUME Shape, InTurn,
           Ui \/ Tick \/ CopyHandles \/ TakeTick \/ HandleBeat \/ Disconnect
             \/ \E n \in Segments : Arrive(n)
    PROVE  InTurn'
<1>1. UNCHANGED <<reads, port, consumed, sent, want, late, dead, wk>>
  BY DEF Ui, UiInit, UiStart, UiInsert, UiSignal, UiArm, Tick, CopyHandles, TakeTick,
     HandleBeat, Disconnect, Arrive, timerVars, netVars
<1>2. tt' = tt \/ tt' \in {"wait", "beat", "send"}
  BY DEF Ui, UiInit, UiStart, UiInsert, UiSignal, UiArm, Tick, CopyHandles, TakeTick,
     HandleBeat, Disconnect, Arrive
<1>3. tt' = tt \/ ~TimerHas'
  BY <1>2 DEF TimerHas
<1> QED
  BY <1>1, <1>3, QuietStep

\* A request goes out: the send is the holder, unless it overtakes an answer.
LEMMA SendKeeps == ASSUME Shape, InTurn, AsyncWrite PROVE InTurn'
<1>1. /\ Alive /\ tt = "send" /\ UNCHANGED <<wk, want, reads, consumed, dead>>
      /\ port \in Seq(Completions) /\ reads \in Seq({"header", "body"})
      /\ consumed \in Nat /\ sent \in Nat /\ consumed <= 3 * sent
      /\ wk \in {"idle", "lock", "recv"} /\ want \in [{"timer", "worker"} -> {"header", "body"}]
  BY DEF AsyncWrite, timerVars, Shape, PortShape, NetShape, Beats, ThreadShape
<1>2. CASE tt' = "wait" /\ UNCHANGED <<port, sent, late>>
  <2>1. ~TimerHas'
    BY <1>2 DEF TimerHas
  <2> QED
    BY <1>1, <1>2, <2>1, QuietStep
<1>3. CASE /\ Request
           /\ \/ tt' = "relock" /\ port' = port
              \/ /\ tt' = "wait"
                 /\ \E ok \in BOOLEAN : port' = Append(port, [op |-> "write", ok |-> ok])
  <2>0. SUFFICES ASSUME ~late' PROVE OneHolder' /\ dead # "misframed" /\ Placed'
    BY <1>1 DEF InTurn
  <2>1. ~late /\ ~(consumed < 3 * sent) /\ sent' = sent + 1
    BY <1>3, <2>0 DEF Request, Units
  <2>2. OneHolder /\ dead # "misframed" /\ Placed
    BY <1>1, <2>1 DEF InTurn
  <2>3. consumed = 3 * sent /\ consumed # 3 * sent - 3 /\ consumed # 3 * sent - 1
        /\ consumed = 3 * sent' - 3
    BY <1>1, <2>1
  <2>4. ASSUME NEW w \in {"header", "body"} PROVE ~Starts(w, consumed, sent)
    BY <2>3 DEF Starts
  <2>5. wk = "idle"
    BY <1>1, <2>2, <2>4 DEF Placed
  <2>6. reads = <<>>
    <3> SUFFICES ASSUME reads # <<>> PROVE FALSE
      OBVIOUS
    <3>1. reads[1] \in {"header", "body"}
      BY <1>1, Dequeued
    <3> QED
      BY <2>2, <2>4, <3>1 DEF Placed
  <2>7. ~InPort(port)
    <3> SUFFICES ASSUME NEW k \in 1..Len(port), Token(port[k]) PROVE FALSE
      BY DEF InPort
    <3>1. port[k] \in Completions
      BY <1>1
    <3>2. EntryPlaced(port[k], consumed, sent)
      BY <2>2 DEF Placed, PortPlaced
    <3>3. CASE port[k].op = "write"
      BY <2>3, <3>2, <3>3 DEF EntryPlaced
    <3>4. CASE port[k].op = "read"
      <4>1. consumed = 3 * sent - 3 + port[k].n /\ port[k].n \in 0..2
        BY <3>1, <3>2, <3>4, EntryShape DEF EntryPlaced, Token
      <4> QED
        BY <1>1, <2>3, <4>1
    <3> QED
      BY <3>1, <3>3, <3>4, EntryShape
  <2>8. PortPlaced(port, consumed, sent')
    BY <1>1, <2>2, <2>7, QuietPort DEF Placed
  <2>9. ~WorkerHas'
    BY <1>1, <2>5 DEF WorkerHas
  <2>10. CASE tt' = "relock" /\ port' = port
    <3>1. OneHolder'
      BY <1>1, <2>2, <2>6, <2>7, <2>9, <2>10 DEF OneHolder
    <3>2. Starts("header", consumed', sent')
      BY <1>1, <2>3 DEF Starts
    <3>3. Placed'
      BY <1>1, <2>5, <2>6, <2>8, <2>10, <3>2 DEF Placed
    <3> QED
      BY <2>2, <3>1, <3>3
  <2>11. CASE /\ tt' = "wait"
              /\ \E ok \in BOOLEAN : port' = Append(port, [op |-> "write", ok |-> ok])
    <3>1. PICK ok \in BOOLEAN : port' = Append(port, [op |-> "write", ok |-> ok])
      BY <2>11
    <3> DEFINE e == [op |-> "write", ok |-> ok]
    <3>2. e \in Completions
      BY EntryMade
    <3>3. EntryPlaced(e, consumed, sent')
      BY <2>3 DEF EntryPlaced
    <3>4. port' = Append(port, e)
      BY <3>1
    <3> HIDE DEF e
    <3>5. AtMostOnce(port') /\ PortPlaced(port', consumed, sent')
      BY <1>1, <2>2, <2>7, <2>8, <3>2, <3>3, <3>4, QueuedTokens DEF OneHolder
    <3>6. ~TimerHas'
      BY <2>11 DEF TimerHas
    <3>7. OneHolder'
      BY <1>1, <2>2, <2>6, <2>9, <3>5, <3>6 DEF OneHolder
    <3>8. Placed'
      BY <1>1, <2>5, <2>6, <2>11, <3>5 DEF Placed
    <3> QED
      BY <2>2, <3>7, <3>8
  <2> QED
    BY <1>3, <2>10, <2>11
<1> QED
  BY <1>2, <1>3 DEF AsyncWrite

\* The second lock of the same call.
LEMMA RelockKeeps == ASSUME Shape, InTurn, Relock PROVE InTurn'
<1>1. /\ Alive /\ tt = "relock" /\ UNCHANGED <<wk, port, reads, consumed, sent, late>>
      /\ want \in [{"timer", "worker"} -> {"header", "body"}]
  BY DEF Relock, netVars, Shape, ThreadShape
<1>2. CASE tt' = "hung" /\ UNCHANGED <<want, dead>>
  <2>1. ~TimerHas'
    BY <1>2 DEF TimerHas
  <2> QED
    BY <1>1, <1>2, <2>1, QuietStep
<1>3. CASE dead' = "terminated" /\ UNCHANGED <<tt, want>>
  <2>1. ~Alive' /\ dead' # "misframed"
    BY <1>3 DEF Alive
  <2>2. OneHolder => OneHolder'
    BY <1>1, <1>3 DEF OneHolder, TimerHas, WorkerHas
  <2> QED
    BY <1>1, <2>1, <2>2 DEF InTurn
<1>4. CASE tt' = "recv" /\ want' = [want EXCEPT !["timer"] = "header"] /\ dead' = dead
  <2> SUFFICES ASSUME ~late PROVE OneHolder' /\ dead # "misframed" /\ Placed'
    BY <1>1, <1>4 DEF InTurn
  <2>1. OneHolder /\ dead # "misframed" /\ Placed /\ TimerHas
    BY <1>1 DEF InTurn, TimerHas
  <2>2. TimerHas' /\ (WorkerHas' <=> WorkerHas)
    BY <1>1, <1>4 DEF TimerHas, WorkerHas
  <2>3. OneHolder'
    BY <1>1, <2>1, <2>2 DEF OneHolder
  <2>4. wk \notin {"lock", "recv"}
    BY <2>1 DEF OneHolder, WorkerHas
  <2>5. want'["timer"] = "header"
    BY <1>1, <1>4
  <2>6. Placed'
    BY <1>1, <1>4, <2>1, <2>4, <2>5 DEF Placed
  <2> QED
    BY <2>1, <2>3, <2>6
<1> QED
  BY <1>2, <1>3, <1>4 DEF Relock

\* The worker takes the completion of a send, and locks.
LEMMA WriteKeeps == ASSUME Shape, InTurn, HandleWrite \/ AsyncRead PROVE InTurn'
<1>1. /\ Alive /\ UNCHANGED <<tt, reads, consumed, sent, late, dead>>
      /\ port \in Seq(Completions)
      /\ want \in [{"timer", "worker"} -> {"header", "body"}]
  BY DEF HandleWrite, AsyncRead, netVars, Shape, ThreadShape, PortShape
<1> SUFFICES ASSUME ~late PROVE OneHolder' /\ dead # "misframed" /\ Placed'
  BY <1>1 DEF InTurn
<1>2. OneHolder /\ dead # "misframed" /\ Placed /\ (TimerHas' <=> TimerHas)
  BY <1>1 DEF InTurn, TimerHas
<1>3. CASE HandleWrite
  <2>1. /\ wk = "idle" /\ port # <<>> /\ Head(port).op = "write" /\ port' = Tail(port)
        /\ wk' \in {"lock", "idle"} /\ want' = want
    BY <1>3 DEF HandleWrite
  <2>2. Token(Head(port))
    BY <2>1 DEF Token
  <2>3. /\ InPort(port) /\ ~InPort(port') /\ AtMostOnce(port')
        /\ PortPlaced(port', consumed, sent) /\ EntryPlaced(Head(port), consumed, sent)
    BY <1>1, <1>2, <2>1, <2>2, DequeuedTokens DEF OneHolder, Placed
  <2>4. Starts("header", consumed, sent)
    BY <2>1, <2>3 DEF EntryPlaced, Starts
  <2>5. OneHolder'
    BY <1>1, <1>2, <2>3 DEF OneHolder
  <2>6. tt \notin {"relock", "recv"} /\ reads = <<>>
    BY <1>2, <2>3 DEF OneHolder, TimerHas
  <2>7. Placed'
    BY <1>1, <2>1, <2>3, <2>4, <2>6 DEF Placed
  <2> QED
    BY <1>2, <2>5, <2>7
<1>4. CASE AsyncRead
  <2>1. /\ wk = "lock" /\ wk' = "recv" /\ port' = port
        /\ want' = [want EXCEPT !["worker"] = "header"]
    BY <1>4 DEF AsyncRead
  <2>2. WorkerHas /\ WorkerHas'
    BY <2>1 DEF WorkerHas
  <2>3. OneHolder'
    BY <1>1, <1>2, <2>1, <2>2 DEF OneHolder
  <2>4. tt \notin {"relock", "recv"} /\ reads = <<>>
    BY <1>2, <2>2 DEF OneHolder, TimerHas
  <2>5. want'["worker"] = "header" /\ Starts("header", consumed, sent)
    BY <1>1, <1>2, <2>1 DEF Placed
  <2>6. Placed'
    BY <1>1, <1>2, <2>1, <2>4, <2>5 DEF Placed
  <2> QED
    BY <1>2, <2>3, <2>6
<1> QED
  BY <1>3, <1>4

\* A read by thread p, which holds the right to it.
LEMMA RecvKeeps ==
    ASSUME Shape, InTurn, NEW p \in {"timer", "worker"}, Recv(p) PROVE InTurn'
<1>1. /\ Alive /\ UNCHANGED <<port, sent, late>>
      /\ p = "timer" => tt = "recv"
      /\ p = "worker" => wk = "recv"
      /\ port \in Seq(Completions) /\ reads \in Seq({"header", "body"})
      /\ consumed \in Nat /\ sent \in Nat
      /\ want \in [{"timer", "worker"} -> {"header", "body"}] /\ want[p] \in {"header", "body"}
  BY DEF Recv, Shape, ThreadShape, PortShape, NetShape, Beats
<1> SUFFICES ASSUME ~late PROVE OneHolder' /\ dead' # "misframed" /\ (Alive' => Placed')
  BY <1>1 DEF InTurn
<1>2. OneHolder /\ dead # "misframed" /\ Placed
  BY <1>1 DEF InTurn
<1>3. /\ p = "timer" => TimerHas /\ wk = "idle"
      /\ p = "worker" => WorkerHas /\ ~TimerHas
      /\ ~InPort(port) /\ reads = <<>>
  <2>1. wk \in {"idle", "lock", "recv"}
    BY DEF Shape, ThreadShape
  <2> QED
    BY <1>1, <1>2, <2>1 DEF OneHolder, TimerHas, WorkerHas
<1>4. Starts(want[p], consumed, sent)
  BY <1>1, <1>2 DEF Placed
<1>5. Framed(want[p], consumed)
  BY <1>1, <1>4, StartsFramed
<1>6. PICK n : n = IF net = "rst" THEN 0 ELSE Least(arrived - consumed, Size(want[p]))
  OBVIOUS
<1>7. n \in 0..2
  BY <1>1, <1>6, ReadFacts DEF Shape
<1>8. \A c : PortPlaced(port', c, sent')
  BY <1>1, <1>2, <1>3, QuietPort DEF Placed
<1>9. ASSUME Returns(p) PROVE ~TimerHas' /\ ~WorkerHas'
  <2>1. /\ p = "timer" => tt' = "wait" /\ wk' = wk
        /\ p = "worker" => wk' = "idle" /\ tt' = tt
    BY <1>9, GoesOn
  <2> QED
    BY <1>3, <2>1 DEF TimerHas, WorkerHas
<1>10. CASE /\ consumed' = consumed + n /\ reads' = reads
            /\ OnRead(p, want[p], n, Framed(want[p], consumed))
  <2>1. CASE UNCHANGED <<mutex_, tt, wk, want>> /\ dead' = "short"
    <3>1. OneHolder'
      BY <1>1, <1>2, <1>10, <2>1 DEF OneHolder, TimerHas, WorkerHas
    <3> QED
      BY <2>1, <3>1 DEF Alive
  <2>2. CASE ReadsOn(p, "body") /\ dead' = dead /\ want[p] = "header" /\ n = 2
    <3>1. /\ want' = [want EXCEPT ![p] = "body"]
          /\ p = "timer" => tt' = "recv" /\ wk' = wk
          /\ p = "worker" => wk' = "recv" /\ tt' = tt
      BY <2>2, GoesOn
    <3>2. (TimerHas' <=> p = "timer") /\ (WorkerHas' <=> p = "worker")
      BY <1>1, <1>3, <3>1 DEF TimerHas, WorkerHas
    <3>3. OneHolder'
      BY <1>1, <1>2, <1>3, <1>10, <3>2 DEF OneHolder
    <3>4. Starts(want'[p], consumed', sent')
      BY <1>1, <1>4, <1>10, <2>2, <3>1 DEF Starts
    <3>5. Placed'
      <4>1. CASE p = "timer"
        <5>1. tt' = "recv" /\ wk' = "idle" /\ reads' = <<>>
          BY <1>3, <1>10, <3>1, <4>1
        <5> QED
          BY <1>8, <3>4, <4>1, <5>1 DEF Placed
      <4>2. CASE p = "worker"
        <5>1. tt' \notin {"relock", "recv"} /\ wk' = "recv" /\ reads' = <<>>
          BY <1>3, <1>10, <3>1, <4>2 DEF TimerHas
        <5> QED
          BY <1>8, <3>4, <4>2, <5>1 DEF Placed
      <4> QED
        BY <4>1, <4>2
    <3> QED
      BY <1>2, <2>2, <3>3, <3>5
  <2>3. CASE Returns(p) /\ dead' = dead
    <3>1. ~TimerHas' /\ ~WorkerHas' /\ reads' = <<>>
      BY <1>3, <1>9, <1>10, <2>3
    <3>2. OneHolder'
      BY <1>1, <1>2, <1>3, <1>10, <3>1 DEF OneHolder
    <3>3. Placed'
      BY <1>8, <3>1 DEF Placed, TimerHas, WorkerHas
    <3> QED
      BY <1>2, <2>3, <3>2, <3>3
  <2> QED
    BY <1>1, <1>5, <1>7, <1>10, <2>1, <2>2, <2>3, OnReadFacts
<1>11. CASE /\ reads' = Append(reads, want[p]) /\ Returns(p) /\ UNCHANGED <<consumed, dead>>
  <2>1. ~TimerHas' /\ ~WorkerHas'
    BY <1>9, <1>11
  <2>2. Len(reads') = 1 /\ reads'[1] = want[p]
    <3>1. Len(reads) = 0
      BY <1>1, <1>3, EmptySeq
    <3> QED
      BY <1>1, <1>11, <3>1, Queued
  <2>3. OneHolder'
    BY <1>1, <1>2, <1>3, <2>1, <2>2 DEF OneHolder
  <2>4. Placed'
    BY <1>1, <1>4, <1>8, <1>11, <2>1, <2>2 DEF Placed, TimerHas, WorkerHas
  <2> QED
    BY <1>2, <1>11, <2>3, <2>4
<1> QED
  BY <1>6, <1>10, <1>11 DEF Recv

\* The worker takes the completion of a read.
LEMMA ReadKeeps == ASSUME Shape, InTurn, HandleRead PROVE InTurn'
<1>1. /\ Alive /\ UNCHANGED <<reads, consumed, sent, late>>
      /\ wk = "idle" /\ port # <<>> /\ port' = Tail(port)
      /\ port \in Seq(Completions) /\ consumed \in Nat /\ sent \in Nat
      /\ want \in [{"timer", "worker"} -> {"header", "body"}]
  BY DEF HandleRead, netVars, Shape, ThreadShape, PortShape, NetShape, Beats
<1> SUFFICES ASSUME ~late PROVE OneHolder' /\ dead' # "misframed" /\ (Alive' => Placed')
  BY <1>1 DEF InTurn
<1>2. OneHolder /\ dead # "misframed" /\ Placed
  BY <1>1 DEF InTurn
<1>3. PICK e \in Completions : e = Head(port) /\ e.op = "read"
  BY <1>1, Dequeued DEF HandleRead
<1>4. e.want \in {"header", "body"} /\ e.n \in 0..2 /\ e.framed \in BOOLEAN
  BY <1>3, EntryShape
<1>5. /\ AtMostOnce(port') /\ PortPlaced(port', consumed, sent)
      /\ InPort(port) <=> InPort(port') \/ Token(e)
      /\ ~(InPort(port') /\ Token(e))
      /\ EntryPlaced(e, consumed, sent)
  BY <1>1, <1>2, <1>3, DequeuedTokens DEF OneHolder, Placed
<1>6. e.framed /\ ~WorkerHas
  BY <1>1, <1>3, <1>5 DEF EntryPlaced, WorkerHas
<1>7. ASSUME dead' = dead, tt' = tt, wk' = "idle", want' = want
      PROVE  OneHolder' /\ dead' # "misframed" /\ Placed'
  <2>1. (TimerHas' <=> TimerHas) /\ ~WorkerHas'
    BY <1>7 DEF TimerHas, WorkerHas
  <2>2. OneHolder'
    BY <1>1, <1>2, <1>5, <2>1 DEF OneHolder
  <2>3. Placed'
    BY <1>1, <1>2, <1>5, <1>7 DEF Placed
  <2> QED
    BY <1>2, <1>7, <2>2, <2>3
<1>8. CASE UNCHANGED <<mutex_, tt, wk, want, dead>>
  BY <1>1, <1>7, <1>8
<1>9. CASE OnRead("worker", e.want, e.n, e.framed)
  <2>1. CASE UNCHANGED <<mutex_, tt, wk, want>> /\ dead' = "short"
    <3>1. (TimerHas' <=> TimerHas) /\ ~WorkerHas'
      BY <1>6, <2>1 DEF TimerHas, WorkerHas
    <3>2. OneHolder'
      BY <1>1, <1>2, <1>5, <3>1 DEF OneHolder
    <3> QED
      BY <2>1, <3>2 DEF Alive
  <2>2. CASE ReadsOn("worker", "body") /\ dead' = dead /\ e.want = "header" /\ e.n = 2
    <3>1. want' = [want EXCEPT !["worker"] = "body"] /\ wk' = "recv" /\ tt' = tt
      BY <2>2, GoesOn
    <3>2. Token(e) /\ consumed = 3 * sent - 1
      BY <1>1, <1>3, <1>5, <2>2 DEF Token, EntryPlaced
    <3>3. reads = <<>> /\ ~TimerHas /\ ~InPort(port')
      BY <1>2, <1>5, <3>2 DEF OneHolder
    <3>4. WorkerHas' /\ ~TimerHas'
      BY <3>1, <3>3 DEF WorkerHas, TimerHas
    <3>5. OneHolder'
      BY <1>1, <1>2, <1>5, <3>3, <3>4 DEF OneHolder
    <3>6. Starts(want'["worker"], consumed, sent)
      BY <1>1, <3>1, <3>2 DEF Starts
    <3>7. Placed'
      BY <1>1, <1>5, <3>1, <3>3, <3>4, <3>6 DEF Placed, TimerHas
    <3> QED
      BY <1>2, <2>2, <3>5, <3>7
  <2>3. CASE Returns("worker") /\ dead' = dead
    <3>1. want' = want /\ wk' = "idle" /\ tt' = tt
      BY <2>3, GoesOn
    <3> QED
      BY <1>7, <2>3, <3>1
  <2> QED
    BY <1>4, <1>6, <1>9, <2>1, <2>2, <2>3, OnReadFacts
<1> QED
  BY <1>3, <1>8, <1>9 DEF HandleRead

\* The kernel completes the pending read.
LEMMA CompleteKeeps == ASSUME Shape, InTurn, Complete PROVE InTurn'
<1>1. /\ Alive /\ UNCHANGED <<tt, wk, want, sent, late, dead>>
      /\ reads # <<>> /\ reads' = Tail(reads)
      /\ port \in Seq(Completions) /\ reads \in Seq({"header", "body"})
      /\ consumed \in Nat /\ sent \in Nat
  BY DEF Complete, Shape, PortShape, NetShape, Beats
<1> SUFFICES ASSUME ~late PROVE OneHolder' /\ dead # "misframed" /\ Placed'
  BY <1>1 DEF InTurn
<1>2. OneHolder /\ dead # "misframed" /\ Placed
  BY <1>1 DEF InTurn
<1>3. PICK w \in {"header", "body"} : w = Head(reads) /\ w = reads[1]
  BY <1>1, Dequeued
<1>4. Tail(reads) = <<>>
  <2>1. Len(reads) = 1
    <3>1. Len(reads) \in Nat \ {0}
      BY <1>1, Dequeued
    <3>2. PICK k \in Nat : k = Len(reads) /\ k # 0
      BY <3>1
    <3>3. k <= 1
      BY <1>2, <3>2 DEF OneHolder
    <3>4. k = 1
      BY <3>2, <3>3
    <3> QED
      BY <3>2, <3>4
  <2>2. Tail(reads) \in Seq({"header", "body"}) /\ Len(Tail(reads)) = 0
    BY <1>1, <2>1, Dequeued
  <2> QED
    BY <2>2, EmptySeq
<1>5. ~TimerHas /\ ~WorkerHas /\ ~InPort(port)
  BY <1>1, <1>2 DEF OneHolder
<1>6. Starts(w, consumed, sent)
  BY <1>1, <1>2, <1>3 DEF Placed
<1>7. Framed(w, consumed)
  BY <1>1, <1>6, StartsFramed
<1>8. PICK n : n = IF net = "rst" THEN 0 ELSE Least(arrived - consumed, Size(w))
  OBVIOUS
<1>9. n \in 0..2
  BY <1>8, ReadFacts DEF Shape
<1>10. PICK f \in BOOLEAN, b \in BOOLEAN :
          /\ f /\ consumed' = consumed + n
          /\ port' = Append(port, [op |-> "read", want |-> w, n |-> n, framed |-> f, ok |-> b])
  <2>1. Framed(w, consumed) \in BOOLEAN /\ (net # "rst") \in BOOLEAN
    BY DEF Framed
  <2>2. /\ consumed' = consumed + n
        /\ port' = Append(port, [op |-> "read", want |-> w, n |-> n,
                                 framed |-> Framed(w, consumed), ok |-> net # "rst"])
    BY <1>3, <1>8 DEF Complete
  <2> QED
    BY <1>7, <2>1, <2>2
<1> DEFINE e == [op |-> "read", want |-> w, n |-> n, framed |-> f, ok |-> b]
<1>11. e \in Completions
  BY <1>9, EntryMade
<1>12. EntryPlaced(e, consumed', sent)
  BY <1>1, <1>6, <1>9, <1>10 DEF EntryPlaced, Starts
<1>13. port' = Append(port, e)
  BY <1>10
<1> HIDE DEF e
<1>14. AtMostOnce(port') /\ PortPlaced(port', consumed', sent)
  <2>1. PortPlaced(port, consumed', sent)
    BY <1>1, <1>2, <1>5, QuietPort DEF Placed
  <2> QED
    BY <1>1, <1>2, <1>5, <1>11, <1>12, <1>13, <2>1, QueuedTokens DEF OneHolder
<1>15. ~TimerHas' /\ ~WorkerHas'
  BY <1>1, <1>5 DEF TimerHas, WorkerHas
<1>16. Len(reads') = 0 /\ reads' = <<>>
  BY <1>1, <1>4, EmptySeq
<1>17. OneHolder'
  BY <1>14, <1>15, <1>16 DEF OneHolder
<1>18. Placed'
  BY <1>1, <1>14, <1>15, <1>16 DEF Placed, TimerHas, WorkerHas
<1> QED
  BY <1>2, <1>17, <1>18

\* Every step keeps the answers in turn.
LEMMA InTurnStep == Shape /\ InTurn /\ [Next]_vars => InTurn'
<1>1. ASSUME InTurn, UNCHANGED vars PROVE InTurn'
  <2>1. UNCHANGED <<reads, port, consumed, sent, want, late, dead, wk, tt>>
    BY <1>1 DEF vars, netVars
  <2> QED
    BY <1>1, <2>1, QuietStep
<1> QED
  BY <1>1, QuietKeeps, SendKeeps, RelockKeeps, WriteKeeps, RecvKeeps, ReadKeeps, CompleteKeeps
     DEF Next, TimerThread, Worker

\* How many reads are under way, from the invariant.
LEMMA InTurnCounted == ASSUME Shape, InTurn PROVE AnswersInTurn
<1> SUFFICES ASSUME ~late PROVE Cardinality(Outstanding) <= 1
  BY DEF InTurn, AnswersInTurn
<1>1. OneHolder
  BY DEF InTurn
<1> DEFINE K == {<<"kernel", k>> : k \in 1..Len(reads)}
           Q == {<<"port", k>> : k \in {k \in 1..Len(port) :
                                          port[k].op = "read" /\ port[k].want = "header"}}
           T == IF tt = "recv" THEN {<<"timer", 0>>} ELSE {}
           W == IF wk = "recv" THEN {<<"worker", 0>>} ELSE {}
<1>2. Outstanding = K \cup Q \cup T \cup W
  BY DEF Outstanding
<1>3. K = {} \/ (K = {<<"kernel", 1>>} /\ reads # <<>>)
  <2>1. reads \in Seq({"header", "body"}) /\ Len(reads) \in Nat /\ Len(reads) <= 1
    BY <1>1 DEF OneHolder, Shape, PortShape
  <2>2. CASE Len(reads) = 0
    BY <2>2
  <2>3. CASE Len(reads) = 1
    <3>1. reads # <<>>
      BY <2>3, EmptySeq
    <3>2. 1..Len(reads) = {1}
      BY <2>3
    <3> QED
      BY <3>1, <3>2
  <2> QED
    BY <2>1, <2>2, <2>3
<1>4. Q = {} \/ (InPort(port) /\ \E k : Q = {<<"port", k>>})
  <2> SUFFICES ASSUME Q # {} PROVE InPort(port) /\ \E k : Q = {<<"port", k>>}
    OBVIOUS
  <2>1. PICK k \in 1..Len(port) : port[k].op = "read" /\ port[k].want = "header"
    OBVIOUS
  <2>2. \A j \in 1..Len(port) : port[j].op = "read" /\ port[j].want = "header" => j = k
    BY <1>1, <2>1 DEF OneHolder, AtMostOnce, Token
  <2>3. {j \in 1..Len(port) : port[j].op = "read" /\ port[j].want = "header"} = {k}
    BY <2>1, <2>2
  <2>4. Q = {<<"port", k>>}
    BY <2>3
  <2> QED
    BY <2>1, <2>4 DEF InPort, Token
<1>5. T = {} \/ (TimerHas /\ T = {<<"timer", 0>>})
  BY DEF TimerHas
<1>6. W = {} \/ (WorkerHas /\ W = {<<"worker", 0>>})
  BY DEF WorkerHas
<1> HIDE DEF K, Q, T, W
<1>7. Outstanding = {} \/ \E x : Outstanding = {x}
  <2>1. CASE InPort(port)
    BY <1>1, <1>2, <1>3, <1>4, <1>5, <1>6, <2>1 DEF OneHolder
  <2>2. CASE ~InPort(port)
    BY <1>1, <1>2, <1>3, <1>4, <1>5, <1>6, <2>2 DEF OneHolder
  <2> QED
    BY <2>1, <2>2
<1>8. CASE Outstanding = {}
  BY <1>8, FS_EmptySet
<1>9. ASSUME NEW x, Outstanding = {x} PROVE Cardinality(Outstanding) <= 1
  <2>1. Cardinality({x}) = 1
    BY FS_Singleton
  <2> QED
    BY <1>9, <2>1
<1> QED
  BY <1>7, <1>8, <1>9

\* As long as no request overtakes an answer, one thread at most reads, and what
\* it reads is what it takes it for, for any number of beats and any segments:
\* socket_channel itself does not keep two reads apart.
THEOREM AnswersCorrect == Spec => []AnswersInTurn
<1>1. Init => InTurn
  <2> SUFFICES ASSUME Init PROVE InTurn
    OBVIOUS
  <2>1. Len(<<>>) = 0 /\ \A k \in 1..0 : FALSE
    BY EmptySeq
  <2>2. AtMostOnce(port) /\ ~InPort(port) /\ PortPlaced(port, consumed, sent)
    BY <2>1 DEF Init, AtMostOnce, InPort, PortPlaced
  <2> QED
    BY <2>1, <2>2 DEF Init, InTurn, OneHolder, Placed, TimerHas, WorkerHas
<1> QED
  BY <1>1, ShapeInit, ShapeStep, InTurnStep, InTurnCounted, PTL DEF Spec
=============================================================================
