----------------------------- MODULE TcpServer ------------------------------
(***************************************************************************)
(* The TCP echo server of fastnet: server_mgr, socket_acceptor,            *)
(* socket_handle_t, socket_channel and session, on a dispatcher with one   *)
(* worker (io_service_(1), server_mgr.cc line 7).                          *)
(*                                                                         *)
(* The sockets are opened with FILE_SKIP_COMPLETION_PORT_ON_SUCCESS: an    *)
(* operation that succeeds at once queues no completion.  For a read,      *)
(* async_read() then calls the handler itself, so that all the messages    *)
(* that have arrived are handled in one nest of calls, and                 *)
(* session::handle_read() reads again before it echoes: the echoes are     *)
(* sent when the nest unwinds.  For an accept nobody calls the handler.    *)
(*                                                                         *)
(* A message is HeaderUnits units of header, the first of which tells the  *)
(* length, and BodyUnits units of body; TCP delivers units, not messages.  *)
(***************************************************************************)
EXTENDS Integers, Sequences, FiniteSets, SequencesExt

CONSTANTS Clients,      \* the clients that may connect, once each
          BodyUnits,    \* units of a message's body
          MaxMessages,  \* bound: messages each client sends
          StackDepth    \* nested handle_read() calls the worker's stack can hold

ASSUME TcpServerAssumption ==
    /\ BodyUnits \in Nat \ {0}
    /\ MaxMessages \in [Clients -> Nat]
    /\ StackDepth \in Nat \ {0}
    /\ "nobody" \notin Clients

HeaderUnits == 2
MessageUnits == HeaderUnits + BodyUnits

VARIABLES
    main,       \* the thread that runs test_net_mgr()
    acceptor,   \* AcceptEx: "none" (not called), "posted", "lost", "stopped"
    conn,       \* where each client's connection is
    end,        \* the client's end of it: "open", "fin" or "rst"
    arrived,    \* units the client's TCP has delivered
    consumed,   \* units the server has read
    want,       \* what the connection's read is for: "header" or "body"
    reading,    \* the outstanding WSARecv: "none", "pending" or "queued"
    port,       \* completions queued on the port
    at,         \* the worker: "idle", "recv" (calls WSARecv) or "unwind"
    cur,        \* the connection the worker's callback is for
    stack,      \* messages of the nested handle_read() calls, outermost first
    got,        \* messages handed to the session
    out,        \* echoes sent
    bursts,     \* history: values of got when a callback began
    dead        \* "no", or what ended the process

netVars == <<conn, end, arrived, consumed>>
workerVars == <<at, cur, stack>>
vars == <<main, acceptor, netVars, want, reading, port, workerVars,
          got, out, bursts, dead>>

Alive == dead = "no" /\ main # "exited"

Available(c) == arrived[c] - consumed[c]
Want(c) == IF want[c] = "header" THEN HeaderUnits ELSE BodyUnits
Least(a, b) == IF a < b THEN a ELSE b

Init ==
    /\ main = "init" /\ acceptor = "none" /\ dead = "no"
    /\ conn = [c \in Clients |-> "none"]
    /\ end = [c \in Clients |-> "open"]
    /\ arrived = [c \in Clients |-> 0]
    /\ consumed = [c \in Clients |-> 0]
    /\ want = [c \in Clients |-> "header"]
    /\ reading = [c \in Clients |-> "none"]
    /\ port = <<>>
    /\ at = "idle" /\ cur = "nobody" /\ stack = <<>>
    /\ got = [c \in Clients |-> 0]
    /\ out = [c \in Clients |-> <<>>]
    /\ bursts = [c \in Clients |-> {}]

-----------------------------------------------------------------------------
(* The clients and TCP *)

\* A connection is completed by an outstanding AcceptEx, or waits in the backlog.
Connect(c) ==
    /\ Alive /\ main # "init" /\ conn[c] = "none"
    /\ IF acceptor = "posted"
         THEN /\ conn' = [conn EXCEPT ![c] = "accepted"]
              /\ acceptor' = "none"
              /\ port' = Append(port, [kind |-> "accept", c |-> c])
         ELSE /\ conn' = [conn EXCEPT ![c] = "backlog"]
              /\ UNCHANGED <<acceptor, port>>
    /\ UNCHANGED <<main, end, arrived, consumed, want, reading, workerVars,
                   got, out, bursts, dead>>

\* The outstanding read of c, if there is one, completes.
Complete(c, size, ok) ==
    IF reading[c] = "pending"
      THEN /\ reading' = [reading EXCEPT ![c] = "queued"]
           /\ consumed' = [consumed EXCEPT ![c] = @ + size]
           /\ port' = Append(port, [kind |-> "read", c |-> c, size |-> size, ok |-> ok])
      ELSE UNCHANGED <<reading, consumed, port>>

Arrive(c, n) ==
    /\ Alive /\ conn[c] # "none" /\ end[c] = "open"
    /\ arrived[c] + n <= MaxMessages[c] * MessageUnits
    /\ arrived' = [arrived EXCEPT ![c] = @ + n]
    /\ Complete(c, Least(n, Want(c)), TRUE)
    /\ UNCHANGED <<main, acceptor, conn, end, want, workerVars,
                   got, out, bursts, dead>>

\* The client closes its connection: the end of the stream is a read of size 0
\* that succeeds.
Close(c) ==
    /\ Alive /\ conn[c] # "none" /\ end[c] = "open"
    /\ end' = [end EXCEPT ![c] = "fin"]
    /\ Complete(c, 0, TRUE)
    /\ UNCHANGED <<main, acceptor, conn, arrived, want, workerVars,
                   got, out, bursts, dead>>

\* The connection is reset: what was not read is gone.
Reset(c) ==
    /\ Alive /\ conn[c] # "none" /\ end[c] # "rst"
    /\ end' = [end EXCEPT ![c] = "rst"]
    /\ conn' = IF conn[c] = "backlog" THEN [conn EXCEPT ![c] = "gone"] ELSE conn
    /\ Complete(c, 0, FALSE)
    /\ UNCHANGED <<main, acceptor, arrived, want, workerVars,
                   got, out, bursts, dead>>

-----------------------------------------------------------------------------
(* Accepting: socket_acceptor and server_mgr *)

\* async_acceptor().  The call fails, and the handler calls stop(), which does
\* nothing: a listening socket cannot be shut down.  Or it is posted.  Or a
\* client is waiting: then either the completion is queued, or AcceptEx returns
\* TRUE, no completion is queued, and the callback is released for ever.
AcceptEx(conns, queue) ==
    \/ acceptor' = "stopped" /\ conn' = conns /\ port' = queue
    \/ /\ \A b \in Clients : conns[b] # "backlog"
       /\ acceptor' = "posted" /\ conn' = conns /\ port' = queue
    \/ \E b \in Clients :
          /\ conns[b] = "backlog"
          /\ \/ /\ acceptor' = "none"
                /\ conn' = [conns EXCEPT ![b] = "accepted"]
                /\ port' = Append(queue, [kind |-> "accept", c |-> b])
             \/ /\ acceptor' = "lost"
                /\ conn' = [conns EXCEPT ![b] = "lost"]
                /\ port' = queue

\* The constructor of the acceptor asserts that the address could be bound and
\* listened on.
ListenFails ==
    /\ Alive /\ main = "init"
    /\ dead' = "listen"
    /\ UNCHANGED <<main, acceptor, netVars, want, reading, port, workerVars,
                   got, out, bursts>>

\* init() and start(), from the main thread.
Start ==
    /\ Alive /\ main = "init"
    /\ main' = "running"
    /\ AcceptEx(conn, port)
    /\ UNCHANGED <<end, arrived, consumed, want, reading, workerVars,
                   got, out, bursts, dead>>

\* uninit() and stop() close the acceptor; the clients are served as before.
Stop ==
    /\ Alive /\ main = "running"
    /\ main' = "stopped"
    /\ UNCHANGED <<acceptor, netVars, want, reading, port, workerVars,
                   got, out, bursts, dead>>

\* ~server_mgr() destroys the dispatcher, which joins the worker.
Exit ==
    /\ Alive /\ main = "stopped" /\ at = "idle"
    /\ main' = "exited"
    /\ UNCHANGED <<acceptor, netVars, want, reading, port, workerVars,
                   got, out, bursts, dead>>

\* Mutant: the next accept is not started.
HandleAccept_NoStart ==
    /\ Alive /\ at = "idle" /\ port # <<>>
    /\ LET e == Head(port) IN
         /\ e.kind = "accept"
         /\ conn' = [conn EXCEPT ![e.c] = "open"] /\ port' = Tail(port)
         /\ at' = "recv" /\ cur' = e.c
         /\ bursts' = [bursts EXCEPT ![e.c] = @ \cup {got[e.c]}]
    /\ UNCHANGED <<main, acceptor, end, arrived, consumed, want, reading, stack,
                   got, out, dead>>

\* handle_accept(): accept the next client, then start a session, which reads.
HandleAccept ==
    /\ Alive /\ at = "idle" /\ port # <<>>
    /\ LET e == Head(port) IN
         /\ e.kind = "accept"
         /\ AcceptEx([conn EXCEPT ![e.c] = "open"], Tail(port))
         /\ at' = "recv" /\ cur' = e.c
         /\ bursts' = [bursts EXCEPT ![e.c] = @ \cup {got[e.c]}]
    /\ UNCHANGED <<main, end, arrived, consumed, want, reading, stack,
                   got, out, dead>>

-----------------------------------------------------------------------------
(* Reading: socket_channel and session *)

\* session::handle_read() reads again before it echoes message m; 0 is the
\* empty message that a read of size 0 is taken for.
Push(c, m) ==
    IF Len(stack) = StackDepth
      THEN dead' = "overflow" /\ UNCHANGED <<at, stack, want, got>>
      ELSE /\ stack' = Append(stack, m)
           /\ got' = [got EXCEPT ![c] = IF m = 0 THEN @ ELSE m]
           /\ want' = [want EXCEPT ![c] = "header"]
           /\ at' = "recv"
           /\ UNCHANGED dead

\* Mutant: without the assertion a header that came in part is taken for one.
OnRead_Lenient(c, size) ==
    \/ /\ want[c] = "header" /\ size = 0
       /\ Push(c, 0)
    \/ /\ want[c] = "header" /\ size # 0
       /\ want' = [want EXCEPT ![c] = "body"] /\ at' = "recv"
       /\ UNCHANGED <<stack, got, dead>>
    \/ /\ want[c] = "body" /\ size = BodyUnits
       /\ Push(c, got[c] + 1)
    \/ /\ want[c] = "body" /\ size < BodyUnits
       /\ dead' = "body"
       /\ UNCHANGED <<at, stack, want, got>>

\* handle_read_header() and handle_read_body().  Both assert that everything
\* asked for was read, the first only if the header tells a length.
OnRead(c, size) ==
    \/ /\ want[c] = "header" /\ size = 0
       /\ Push(c, 0)
    \/ /\ want[c] = "header" /\ size = HeaderUnits
       /\ want' = [want EXCEPT ![c] = "body"] /\ at' = "recv"
       /\ UNCHANGED <<stack, got, dead>>
    \/ /\ want[c] = "body" /\ size = BodyUnits
       /\ Push(c, got[c] + 1)
    \/ /\ size < Want(c) /\ (want[c] = "body" \/ size # 0)
       /\ dead' = want[c]
       /\ UNCHANGED <<at, stack, want, got>>

\* Mutant: completions are also taken between two echoes, as in a nested wait.
HandleRead_Nested ==
    /\ Alive /\ at \in {"idle", "unwind"} /\ port # <<>>
    /\ LET e == Head(port) IN
         /\ e.kind = "read" /\ e.ok /\ (at = "idle" \/ cur = e.c)
         /\ reading' = [reading EXCEPT ![e.c] = "none"]
         /\ OnRead(e.c, e.size)
         /\ cur' = e.c
         /\ bursts' = [bursts EXCEPT ![e.c] = @ \cup {got[e.c]}]
    /\ port' = Tail(port)
    /\ UNCHANGED <<main, acceptor, conn, end, arrived, consumed, out>>

\* The worker takes the completion of a read.  A failure ends the session.
HandleRead ==
    /\ Alive /\ at = "idle" /\ port # <<>>
    /\ LET e == Head(port) IN
         /\ e.kind = "read"
         /\ reading' = [reading EXCEPT ![e.c] = "none"]
         /\ IF e.ok
              THEN /\ OnRead(e.c, e.size)
                   /\ cur' = e.c
                   /\ bursts' = [bursts EXCEPT ![e.c] = @ \cup {got[e.c]}]
                   /\ UNCHANGED conn
              ELSE /\ conn' = [conn EXCEPT ![e.c] = "done"]
                   /\ UNCHANGED <<at, cur, stack, want, got, bursts, dead>>
    /\ port' = Tail(port)
    /\ UNCHANGED <<main, acceptor, end, arrived, consumed, out>>

\* Mutant: a read that succeeds at once also queues its completion.
Recv_NotSkipped ==
    /\ Alive /\ at = "recv"
    /\ LET n == Least(Want(cur), Available(cur)) IN
         \/ /\ end[cur] # "rst" /\ n > 0
            /\ consumed' = [consumed EXCEPT ![cur] = @ + n]
            /\ port' = Append(port, [kind |-> "read", c |-> cur, size |-> n, ok |-> TRUE])
            /\ OnRead(cur, n)
            /\ UNCHANGED reading
         \/ /\ end[cur] = "rst" \/ (n = 0 /\ end[cur] = "fin")
            /\ OnRead(cur, 0)
            /\ UNCHANGED <<reading, consumed, port>>
         \/ /\ end[cur] = "open" /\ n = 0
            /\ reading' = [reading EXCEPT ![cur] = "pending"]
            /\ at' = IF stack = <<>> THEN "idle" ELSE "unwind"
            /\ UNCHANGED <<consumed, port, stack, want, got, dead>>
    /\ UNCHANGED <<main, acceptor, conn, end, arrived, cur, out, bursts>>

\* socket_handle_t::async_read().  What has arrived is read at once and the
\* handler called; so is the end of the stream; a failure is passed on as a
\* success of size 0; otherwise the read is pending and the nest unwinds.
Recv ==
    /\ Alive /\ at = "recv"
    /\ LET n == Least(Want(cur), Available(cur)) IN
         \/ /\ end[cur] # "rst" /\ n > 0
            /\ consumed' = [consumed EXCEPT ![cur] = @ + n]
            /\ OnRead(cur, n)
            /\ UNCHANGED reading
         \/ /\ end[cur] = "rst" \/ (n = 0 /\ end[cur] = "fin")
            /\ OnRead(cur, 0)
            /\ UNCHANGED <<reading, consumed>>
         \/ /\ end[cur] = "open" /\ n = 0
            /\ reading' = [reading EXCEPT ![cur] = "pending"]
            /\ at' = IF stack = <<>> THEN "idle" ELSE "unwind"
            /\ UNCHANGED <<consumed, stack, want, got, dead>>
    /\ UNCHANGED <<main, acceptor, conn, end, arrived, port, cur, out, bursts>>

-----------------------------------------------------------------------------
(* Echoing: session::async_write() and socket_handle_t::async_write() *)

\* The send is refused, or done at once or later; the handler only logs.
Send(c, m) ==
    IF end[c] = "rst" THEN UNCHANGED out
                      ELSE out' = [out EXCEPT ![c] = Append(@, m)]

\* Mutant: the worker returns to the port after one echo.
Unwind_OneEcho ==
    /\ Alive /\ at = "unwind"
    /\ Send(cur, Last(stack))
    /\ stack' = Front(stack)
    /\ at' = "idle"
    /\ UNCHANGED <<main, acceptor, netVars, want, reading, port, cur, got, bursts, dead>>

\* Mutant: only the last message is echoed.
Unwind_LastOnly ==
    /\ Alive /\ at = "unwind"
    /\ Send(cur, Last(stack))
    /\ stack' = <<>>
    /\ at' = "idle"
    /\ UNCHANGED <<main, acceptor, netVars, want, reading, port, cur, got, bursts, dead>>

\* async_read() has returned; the innermost handle_read() echoes its message
\* and returns.
Unwind ==
    /\ Alive /\ at = "unwind"
    /\ Send(cur, Last(stack))
    /\ stack' = Front(stack)
    /\ at' = IF Len(stack) = 1 THEN "idle" ELSE "unwind"
    /\ UNCHANGED <<main, acceptor, netVars, want, reading, port, cur, got, bursts, dead>>

-----------------------------------------------------------------------------
Worker == HandleAccept \/ HandleRead \/ Recv \/ Unwind

Client(c) ==
    \/ Connect(c) \/ Close(c) \/ Reset(c)
    \/ \E n \in 1..MessageUnits : Arrive(c, n)

\* test_net_mgr(), on the main thread.
Owner == ListenFails \/ Start \/ Stop \/ Exit

Next ==
    \/ Owner \/ Worker
    \/ \E c \in Clients : Client(c)

Spec == Init /\ [][Next]_vars

\* The worker is scheduled and the port hands out what is queued.  Clients and
\* the user at the console do what they like.
FairSpec == Spec /\ WF_vars(Worker)

-----------------------------------------------------------------------------
(* Properties *)

Completions ==
    [kind : {"accept"}, c : Clients]
       \cup [kind : {"read"}, c : Clients, size : 0..MessageUnits, ok : BOOLEAN]

\* Every variable keeps its shape; the stack is empty exactly between callbacks.
TypeOK ==
    /\ main \in {"init", "running", "stopped", "exited"}
    /\ acceptor \in {"none", "posted", "lost", "stopped"}
    /\ conn \in [Clients -> {"none", "backlog", "accepted", "lost", "gone", "open", "done"}]
    /\ end \in [Clients -> {"open", "fin", "rst"}]
    /\ arrived \in [Clients -> Nat] /\ consumed \in [Clients -> Nat]
    /\ \A c \in Clients :
          consumed[c] <= arrived[c] /\ arrived[c] <= MaxMessages[c] * MessageUnits
    /\ want \in [Clients -> {"header", "body"}]
    /\ reading \in [Clients -> {"none", "pending", "queued"}]
    /\ port \in Seq(Completions)
    /\ at \in {"idle", "recv", "unwind"} /\ cur \in Clients \cup {"nobody"}
    /\ stack \in Seq(Nat) /\ Len(stack) <= StackDepth
    /\ (at = "idle" => stack = <<>>) /\ (at = "unwind" => stack # <<>>)
    /\ got \in [Clients -> Nat]
    /\ out \in [Clients -> Seq(Nat)]
    /\ bursts \in [Clients -> SUBSET Nat]
    /\ dead \in {"no", "listen", "header", "body", "overflow"}

\* Where the read of c is: pending, completed on the port, or with the worker.
ReadsUnderWay(c) ==
    (IF reading[c] = "pending" THEN {<<"kernel", 0>>} ELSE {})
      \cup {<<"port", k>> : k \in {k \in 1..Len(port) : port[k].kind = "read" /\ port[k].c = c}}
      \cup (IF at = "recv" /\ cur = c THEN {<<"worker", 0>>} ELSE {})

\* Of an open connection exactly one read is outstanding, whether pending, with
\* its completion on the port, or being called by the worker: two would share
\* the stream between two messages, and none would leave the client unheard.
OneRead ==
    Alive => \A c \in Clients :
       Cardinality(ReadsUnderWay(c)) = (IF conn[c] = "open" THEN 1 ELSE 0)

\* Where message m of c is: among the echoes, or with a call that has to echo it.
Places(c, m) ==
    {<<"out", i>> : i \in {i \in 1..Len(out[c]) : out[c][i] = m}}
      \cup {<<"stack", i>> : i \in {i \in 1..Len(stack) : cur = c /\ stack[i] = m}}

\* Every message that was read is echoed once, or is still to be echoed by the
\* call that read it; none is echoed twice or forgotten.
EchoOnce ==
    \A c \in Clients : end[c] # "rst" =>
       /\ ToSet(out[c]) \subseteq 1..got[c]
       /\ \A m \in 1..got[c] : Cardinality(Places(c, m)) = 1

\* A message overtakes another only within one callback of the worker: echoes
\* of messages that different completions brought keep their order.
BurstOrder ==
    \A c \in Clients : \A i, j \in 1..Len(out[c]) :
       i < j /\ out[c][i] > out[c][j]
         => \A b \in bursts[c] : ~(out[c][j] <= b /\ b < out[c][i])

\* Where the stream of c has to be when no read has taken a part of it: behind the
\* messages handed to the session, and behind the header of the next one.
Boundary(c) == got[c] * MessageUnits + (IF want[c] = "body" THEN HeaderUnits ELSE 0)

Aligned ==
    \A c \in Clients :
       /\ reading[c] # "queued" => consumed[c] = Boundary(c)
       /\ \A k \in 1..Len(port) :
             port[k].kind = "read" /\ port[k].c = c => consumed[c] = Boundary(c) + port[k].size

\* What ended the process: a header or a body of which a read has got only a part,
\* or calls nested too deep, by a stream that has ended or by many messages.
EndCauses ==
    /\ dead = "header" =>
          Boundary(cur) < consumed[cur] /\ consumed[cur] < Boundary(cur) + HeaderUnits
    /\ dead = "body" =>
          Boundary(cur) <= consumed[cur] /\ consumed[cur] < (got[cur] + 1) * MessageUnits
    /\ dead = "overflow" => end[cur] # "open" \/ got[cur] >= StackDepth

\* Where reads begin and end is where the client's headers and bodies do, whichever
\* way the reads complete: a part of a header or body is never taken for the whole,
\* nor is one of two nested reads for the other; a client that sends whole headers
\* and bodies, no more of them than the stack can hold, and stays, is served.
Framing == (dead = "no" => Aligned) /\ EndCauses

\* A client that has connected is accepted, unless the chain of accepts has
\* ended: by an AcceptEx that succeeded at once, or by one that failed.
ClientServed ==
    \A c \in Clients :
       conn[c] \in {"backlog", "accepted"}
          ~> conn[c] \notin {"backlog", "accepted"}
             \/ acceptor \in {"lost", "stopped"} \/ ~Alive

\* A message that has arrived whole on an open connection is echoed, unless the
\* connection is reset or the process ends first.
MessageEchoed ==
    \A c \in Clients : \A m \in 1..MaxMessages[c] :
       conn[c] = "open" /\ arrived[c] >= m * MessageUnits
          ~> m \in ToSet(out[c]) \/ end[c] = "rst" \/ ~Alive

\* socket_channel.cc line 80, assert(size == message::KMSGHEADER_LENGTH): a
\* header that tells a length was read as a whole.
HeaderWhole == dead # "header"
=============================================================================
