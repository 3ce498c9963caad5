------------------------------ MODULE TrayBeat ------------------------------
(***************************************************************************)
(* The heartbeat of the tray program: beat_mgr (tray_beat/net/beat_mgr.cpp)*)
(* with its timer service (timer_service.hpp, basic_timer.hpp), which has  *)
(* this one timer, its net_request and socket_channel, and a dispatcher    *)
(* with one worker.                                                        *)
(*                                                                         *)
(* The timer's thread sends a request on every tick, with mutex_ held; the *)
(* handler of the send starts a read, which locks mutex_ too, on the worker*)
(* or, if the send succeeds at once, in the same call.  A request and its  *)
(* answer are eight bytes of header and the four bytes of "test": three    *)
(* units of four bytes, of which the first tells the length.               *)
(*                                                                         *)
(* While the program runs nothing calls stop(), and the timer's callback   *)
(* keeps the beat_mgr alive, so that the timer and the thread never end.   *)
(***************************************************************************)
EXTENDS Integers, Sequences, FiniteSets

CONSTANTS MaxTicks,     \* bound: ticks of the timer
          Segments      \* how many units TCP may deliver at once

ASSUME TrayBeatAssumption ==
    MaxTicks \in Nat /\ Segments \subseteq Nat \ {0}

VARIABLES
    ui,         \* the dialog's thread in OnInitDialog()
    mutex_,     \* beat_mgr::mutex_: "free", "ui", "timer" or "worker"
    timers_,    \* the service's map has the timer
    update_,    \* the update event is signalled
    handles,    \* the thread's copy has the timer's handle
    armed,      \* SetWaitableTimer() was called
    signalled,  \* the timer is signalled
    ticks,      \* ticks so far
    tt,         \* the timer's thread
    wk,         \* the dispatcher's worker
    want,       \* what a thread in "recv" reads: "header" or "body"
    reads,      \* pending WSARecvs, in the order of the calls
    port,       \* completions queued on the port
    net,        \* the connection: "open", "fin" or "rst"
    sent,       \* requests sent
    arrived,    \* units of answers that have arrived
    consumed,   \* units read
    late,       \* history: a request was sent before the last answer was read
    dead        \* "no", or what ended the process

timerVars == <<timers_, update_, handles, armed, signalled, ticks>>
netVars == <<reads, net, sent, arrived, consumed, late>>
vars == <<ui, mutex_, timerVars, tt, wk, want, port, netVars, dead>>

Units == 3
Size(w) == IF w = "header" THEN 2 ELSE 1
Least(a, b) == IF a < b THEN a ELSE b
Alive == dead = "no"

Init ==
    /\ ui = "init" /\ mutex_ = "free" /\ dead = "no"
    /\ timers_ = FALSE /\ update_ = FALSE /\ handles = FALSE
    /\ armed = FALSE /\ signalled = FALSE /\ ticks = 0
    /\ tt = "none" /\ wk = "idle"
    /\ want = [p \in {"timer", "worker"} |-> "header"]
    /\ reads = <<>> /\ port = <<>> /\ net = "open"
    /\ sent = 0 /\ arrived = 0 /\ consumed = 0 /\ late = FALSE

-----------------------------------------------------------------------------
(* The dialog: beat_mgr::init() and start() *)

\* net_request::init() makes the channel and connects it, if the server is there.
RequestInit == ui' \in {"failed", "inited"}

\* init() starts the timer's thread, if it can, and connects; the thread stays
\* when the connection fails.
UiInit ==
    /\ Alive /\ ui = "init"
    /\ \/ ui' = "failed" /\ UNCHANGED tt
       \/ RequestInit /\ tt' = "wait"
    /\ UNCHANGED <<mutex_, timerVars, wk, want, port, netVars, dead>>

UiStart ==
    /\ Alive /\ ui = "inited" /\ mutex_ = "free"
    /\ mutex_' = "ui" /\ ui' = "insert"
    /\ UNCHANGED <<timerVars, tt, wk, want, port, netVars, dead>>

\* Mutant: the update event is set before the timer is in the map.
UiInsert_EventFirst ==
    /\ Alive /\ ui = "insert"
    /\ \/ ~update_ /\ ~handles /\ update_' = TRUE /\ UNCHANGED <<timers_, ui>>
       \/ timers_' = TRUE /\ ui' = "arm" /\ UNCHANGED update_
    /\ UNCHANGED <<mutex_, handles, armed, signalled, ticks, tt, wk, want, port, netVars, dead>>

\* add_timer(): the timer enters the map, then the update event is set.
UiInsert ==
    /\ Alive /\ ui = "insert"
    /\ timers_' = TRUE /\ ui' = "signal"
    /\ UNCHANGED <<mutex_, update_, handles, armed, signalled, ticks, tt, wk, want,
                   port, netVars, dead>>

UiSignal ==
    /\ Alive /\ ui = "signal"
    /\ update_' = TRUE /\ ui' = "arm"
    /\ UNCHANGED <<mutex_, timers_, handles, armed, signalled, ticks, tt, wk, want,
                   port, netVars, dead>>

\* async_wait() arms the timer, and start() returns.
UiArm ==
    /\ Alive /\ ui = "arm"
    /\ armed' = TRUE /\ mutex_' = "free" /\ ui' = "done"
    /\ UNCHANGED <<timers_, update_, handles, signalled, ticks, tt, wk, want,
                   port, netVars, dead>>

-----------------------------------------------------------------------------
(* The timer and its thread *)

\* Ticks that nobody waits for are one.
Tick ==
    /\ Alive /\ armed /\ ticks < MaxTicks
    /\ ticks' = ticks + 1 /\ signalled' = TRUE
    /\ UNCHANGED <<ui, mutex_, timers_, update_, handles, armed, tt, wk, want,
                   port, netVars, dead>>

\* The update event has the lowest index.
CopyHandles ==
    /\ Alive /\ tt = "wait" /\ update_
    /\ update_' = FALSE /\ handles' = timers_
    /\ UNCHANGED <<ui, mutex_, timers_, armed, signalled, ticks, tt, wk, want,
                   port, netVars, dead>>

TakeTick ==
    /\ Alive /\ tt = "wait" /\ ~update_ /\ handles /\ signalled
    /\ signalled' = FALSE
    /\ tt' = IF timers_ THEN "beat" ELSE "wait"
    /\ UNCHANGED <<ui, mutex_, timers_, update_, handles, armed, ticks, wk, want,
                   port, netVars, dead>>

\* Mutant: the mutex is not taken.
HandleBeat_Unlocked ==
    /\ Alive /\ tt = "beat"
    /\ tt' = "send"
    /\ UNCHANGED <<ui, mutex_, timerVars, wk, want, port, netVars, dead>>

\* handle_beat() calls async_write(), which locks.
HandleBeat ==
    /\ Alive /\ tt = "beat" /\ mutex_ = "free"
    /\ mutex_' = "timer" /\ tt' = "send"
    /\ UNCHANGED <<ui, timerVars, wk, want, port, netVars, dead>>

\* A request goes out.
Request ==
    /\ net # "rst"
    /\ sent' = sent + 1
    /\ late' = (late \/ consumed < Units * sent)

\* Mutant: the mutex is not released when the send is pending.
AsyncWrite_KeepsLock ==
    /\ Alive /\ tt = "send"
    /\ \/ /\ tt' = "wait" /\ mutex_' = "free"
          /\ UNCHANGED <<port, sent, late>>
       \/ /\ Request
          /\ tt' = "relock"
          /\ UNCHANGED <<mutex_, port>>
       \/ /\ Request
          /\ \E ok \in BOOLEAN : port' = Append(port, [op |-> "write", ok |-> ok])
          /\ tt' = "wait" /\ UNCHANGED mutex_
    /\ UNCHANGED <<ui, timerVars, wk, want, reads, net, arrived, consumed, dead>>

\* The send fails, and handle_write() logs; or it succeeds at once, and
\* handle_write() runs in this call; or its completion will be queued.
AsyncWrite ==
    /\ Alive /\ tt = "send"
    /\ \/ /\ tt' = "wait" /\ mutex_' = "free"
          /\ UNCHANGED <<port, sent, late>>
       \/ /\ Request
          /\ tt' = "relock"
          /\ UNCHANGED <<mutex_, port>>
       \/ /\ Request
          /\ \E ok \in BOOLEAN : port' = Append(port, [op |-> "write", ok |-> ok])
          /\ tt' = "wait" /\ mutex_' = "free"
    /\ UNCHANGED <<ui, timerVars, wk, want, reads, net, arrived, consumed, dead>>

\* handle_write() calls async_read(), which locks the std::mutex its own thread
\* holds.  That is undefined: the thread blocks for ever, or an exception leaves
\* it and ends the process, or the lock is taken again.
Relock ==
    /\ Alive /\ tt = "relock"
    /\ \/ tt' = "hung" /\ UNCHANGED <<want, dead>>
       \/ dead' = "terminated" /\ UNCHANGED <<tt, want>>
       \/ tt' = "recv" /\ want' = [want EXCEPT !["timer"] = "header"] /\ UNCHANGED dead
    /\ UNCHANGED <<ui, mutex_, timerVars, wk, port, netVars>>

-----------------------------------------------------------------------------
(* The worker, and reads by either thread *)

\* A pending send has completed; handle_write() starts a read, if it succeeded.
HandleWrite ==
    /\ Alive /\ wk = "idle" /\ port # <<>> /\ Head(port).op = "write"
    /\ wk' = IF Head(port).ok THEN "lock" ELSE "idle"
    /\ port' = Tail(port)
    /\ UNCHANGED <<ui, mutex_, timerVars, tt, want, netVars, dead>>

\* async_read() locks.
AsyncRead ==
    /\ Alive /\ wk = "lock" /\ mutex_ = "free"
    /\ mutex_' = "worker" /\ wk' = "recv"
    /\ want' = [want EXCEPT !["worker"] = "header"]
    /\ UNCHANGED <<ui, timerVars, tt, port, netVars, dead>>

\* Thread p reads on, or returns and releases the mutex if it has it.
ReadsOn(p, w) ==
    /\ want' = [want EXCEPT ![p] = w]
    /\ IF p = "timer" THEN tt' = "recv" /\ UNCHANGED wk ELSE wk' = "recv" /\ UNCHANGED tt
    /\ UNCHANGED mutex_
Returns(p) ==
    /\ IF p = "timer" THEN tt' = "wait" /\ UNCHANGED wk ELSE wk' = "idle" /\ UNCHANGED tt
    /\ mutex_' = IF mutex_ = p THEN "free" ELSE mutex_
    /\ UNCHANGED want

\* Whether a read that starts at unit n of the stream starts where it should.
Framed(w, n) == n % Units = (IF w = "header" THEN 0 ELSE 2)

\* Mutant: handle_read() reads again, as the server's session does.
OnRead_Again(p, w, n, framed) ==
    \/ /\ w = "header" /\ n = 0
       /\ Returns(p) /\ UNCHANGED dead
    \/ /\ framed /\ n = Size(w)
       /\ ReadsOn(p, IF w = "header" THEN "body" ELSE "header") /\ UNCHANGED dead
    \/ /\ framed /\ n < Size(w) /\ (w = "body" \/ n # 0)
       /\ dead' = "short"
       /\ UNCHANGED <<mutex_, tt, wk, want>>
    \/ /\ ~framed /\ n # 0
       /\ dead' = "misframed"
       /\ UNCHANGED <<mutex_, tt, wk, want>>

\* handle_read_header(), handle_read_body() and handle_read(): n units were
\* read.  A read of size 0 passes for an empty message; a short one fails an
\* assertion; one that takes the end of a message for a header ends in an
\* assertion or in an allocation of nearly two gigabytes.
OnRead(p, w, n, framed) ==
    \/ /\ w = "header" /\ n = 0
       /\ Returns(p) /\ UNCHANGED dead
    \/ /\ framed /\ n = Size(w)
       /\ IF w = "header" THEN ReadsOn(p, "body") ELSE Returns(p)
       /\ UNCHANGED dead
    \/ /\ n < Size(w) /\ IF w = "body" THEN TRUE ELSE framed /\ n # 0
       /\ dead' = "short"
       /\ UNCHANGED <<mutex_, tt, wk, want>>
    \/ /\ ~framed /\ n # 0
       /\ dead' = "misframed"
       /\ UNCHANGED <<mutex_, tt, wk, want>>

\* socket_handle_t::async_read() by thread p: at once, or pending behind the
\* reads that are.
Recv(p) ==
    /\ Alive /\ (IF p = "timer" THEN tt ELSE wk) = "recv"
    /\ LET n == IF net = "rst" THEN 0 ELSE Least(arrived - consumed, Size(want[p])) IN
         \/ /\ reads = <<>> /\ (n > 0 \/ net # "open")
            /\ consumed' = consumed + n
            /\ OnRead(p, want[p], n, Framed(want[p], consumed))
            /\ UNCHANGED reads
         \/ /\ reads # <<>> \/ (n = 0 /\ net = "open")
            /\ reads' = Append(reads, want[p])
            /\ Returns(p)
            /\ UNCHANGED <<consumed, dead>>
    /\ UNCHANGED <<ui, timerVars, port, net, sent, arrived, late>>

\* The completion of a pending read; a failure is only logged.
HandleRead ==
    /\ Alive /\ wk = "idle" /\ port # <<>> /\ Head(port).op = "read"
    /\ LET e == Head(port) IN
         IF e.ok THEN OnRead("worker", e.want, e.n, e.framed)
                 ELSE UNCHANGED <<mutex_, tt, wk, want, dead>>
    /\ port' = Tail(port)
    /\ UNCHANGED <<ui, timerVars, netVars>>

-----------------------------------------------------------------------------
(* The network and the server *)

\* Part of an answer arrives.
Arrive(n) ==
    /\ Alive /\ net = "open" /\ arrived + n <= Units * sent
    /\ arrived' = arrived + n
    /\ UNCHANGED <<ui, mutex_, timerVars, tt, wk, want, port, reads, net, sent,
                   consumed, late, dead>>

\* The server closes or resets the connection.
Disconnect ==
    /\ Alive /\ net = "open"
    /\ net' \in {"fin", "rst"}
    /\ UNCHANGED <<ui, mutex_, timerVars, tt, wk, want, port, reads, sent, arrived,
                   consumed, late, dead>>

\* The first pending read completes, with what there is.
Complete ==
    /\ Alive /\ reads # <<>>
    /\ LET w == Head(reads)
           n == IF net = "rst" THEN 0 ELSE Least(arrived - consumed, Size(w))
       IN  /\ n > 0 \/ net # "open"
           /\ consumed' = consumed + n
           /\ port' = Append(port, [op |-> "read", want |-> w, n |-> n,
                                    framed |-> Framed(w, consumed), ok |-> net # "rst"])
    /\ reads' = Tail(reads)
    /\ UNCHANGED <<ui, mutex_, timerVars, tt, wk, want, net, sent, arrived, late, dead>>

-----------------------------------------------------------------------------
Ui == UiInit \/ UiStart \/ UiInsert \/ UiSignal \/ UiArm

TimerThread ==
    CopyHandles \/ TakeTick \/ HandleBeat \/ AsyncWrite \/ Relock \/ Recv("timer")

Worker == HandleWrite \/ AsyncRead \/ HandleRead \/ Recv("worker")

Next ==
    \/ Ui \/ Tick \/ TimerThread \/ Worker
    \/ Disconnect \/ Complete \/ \E n \in Segments : Arrive(n)

Spec == Init /\ [][Next]_vars

\* Threads are scheduled; a thread that asks again and again for mutex_ gets it;
\* the kernel completes what can be completed.  The timer, the network and the
\* server do what they like.
Fairness ==
    /\ WF_vars(Ui) /\ SF_vars(UiStart)
    /\ WF_vars(TimerThread) /\ SF_vars(HandleBeat)
    /\ WF_vars(Worker) /\ SF_vars(AsyncRead)
    /\ WF_vars(Complete)

FairSpec == Spec /\ Fairness

-----------------------------------------------------------------------------
(* Properties *)

Completions ==
    [op : {"write"}, ok : BOOLEAN]
       \cup [op : {"read"}, want : {"header", "body"}, n : 0..2, framed : BOOLEAN,
             ok : BOOLEAN]

\* Every variable keeps its shape; mutex_ is held by the thread that is inside
\* start(), async_write() or async_read().
TypeOK ==
    /\ ui \in {"init", "failed", "inited", "insert", "signal", "arm", "done"}
    /\ mutex_ \in {"free", "ui", "timer", "worker"}
    /\ {timers_, update_, handles, armed, signalled, late} \subseteq BOOLEAN
    /\ ticks \in 0..MaxTicks
    /\ tt \in {"none", "wait", "beat", "send", "relock", "hung", "recv"}
    /\ wk \in {"idle", "lock", "recv"}
    /\ want \in [{"timer", "worker"} -> {"header", "body"}]
    /\ reads \in Seq({"header", "body"}) /\ port \in Seq(Completions)
    /\ net \in {"open", "fin", "rst"}
    /\ sent \in 0..MaxTicks
    /\ consumed \in 0..arrived /\ arrived \in 0..(Units * sent)
    /\ dead \in {"no", "terminated", "short", "misframed"}
    /\ mutex_ = "ui" <=> ui \in {"insert", "signal", "arm"}
    /\ mutex_ = "timer" <=> tt \in {"send", "relock", "hung", "recv"}
    /\ mutex_ = "worker" => wk = "recv"

\* Where reads that may still take bytes are: also a header that has been read
\* and not handled, whose body is to be read next.
Outstanding ==
    {<<"kernel", k>> : k \in 1..Len(reads)}
      \cup {<<"port", k>> : k \in {k \in 1..Len(port) :
                                     port[k].op = "read" /\ port[k].want = "header"}}
      \cup (IF tt = "recv" THEN {<<"timer", 0>>} ELSE {})
      \cup (IF wk = "recv" THEN {<<"worker", 0>>} ELSE {})

\* As long as every answer was read before the next beat, at most one read is
\* under way on the connection, whichever thread started it, and no read takes
\* one part of a message for another.
AnswersInTurn ==
    ~late => Cardinality(Outstanding) <= 1 /\ dead # "misframed"

\* A tick is taken, although the timer enters the map after the thread has begun
\* to wait, and although its callback waits for the mutex the dialog holds;
\* unless a beat has locked mutex_ twice.
TickTaken == signalled ~> ~signalled \/ tt = "hung" \/ ~Alive

\* Neither thread keeps the other from mutex_ for ever, except by locking it twice.
MutexReleased == mutex_ # "free" ~> mutex_ = "free" \/ tt = "hung" \/ ~Alive

\* socket_channel.cc line 80, assert(size == message::KMSGHEADER_LENGTH): what a
\* read for a header gets is a header.
HeaderIsHeader == dead # "misframed"
=============================================================================
