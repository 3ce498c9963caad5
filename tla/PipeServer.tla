----------------------------- MODULE PipeServer -----------------------------
(***************************************************************************)
(* The named-pipe server of fastnet: pipe_mgr, pipe_acceptor, pipe_channel *)
(* and pipe_session, on a dispatcher with one worker (io_service_(1),      *)
(* pipe_server.cc line 9), its owner, and the clients of the pipe.         *)
(*                                                                         *)
(* Every turn of do_accept() creates an instance of the pipe; an instance  *)
(* serves one client.  Instances are numbered in the order of creation,    *)
(* and stand for the channel, the session and the client as well.  A       *)
(* message is two units in the pipe, a header and a body; a client writes  *)
(* both at once.                                                           *)
(*                                                                         *)
(* do_accept() takes four steps on the worker (create_pipe, ConnectNamed-  *)
(* Pipe, insertion into pendings_, be_server), because clients, and stop() *)
(* on the owner's thread, come between them.  The assertions are those of  *)
(* the debug build.                                                        *)
(***************************************************************************)
EXTENDS Integers, Sequences, FiniteSets, SequencesExt

CONSTANTS MaxClients,    \* clients that ever open the pipe
          MaxMessages,   \* bound: messages each of them sends
          MaxSession     \* bound: value of session_ above which the owner stops no more

ASSUME PipeServerAssumption ==
    MaxClients \in Nat /\ MaxMessages \in Nat /\ MaxSession \in Nat

Instances == 1..(MaxClients + 1)
NoOne == 0

VARIABLES
    owner,      \* the thread that runs test_pipe_mgr()
    acceptor_,  \* "none", "made" (the first init()), "open" (pipe_name_ is set)
    mutex_,     \* the manager's mutex: "free", "owner" or "worker"
    session_,   \* the acceptor's count of open() and close() calls
    pendings_,  \* the acceptor's set of channels
    port,       \* what is queued on the completion port
    at,         \* the worker: where it is, and for which instance
    created,    \* instances created so far
    pipe,       \* the kernel's state of each instance
    units,      \* units in it that the server has not read
    bound,      \* instances whose channel has its handle_ (be_server)
    lost,       \* instances whose ConnectNamedPipe's callback never comes back
    accepted,   \* session_ as ConnectNamedPipe's callback remembers it
    reading,    \* the read each channel waits for
    session,    \* each instance's pipe_session
    sent, got,  \* messages written by the client, handed to the session
    dead        \* "no", or what ended the process

acceptVars == <<session_, pendings_>>
kernelVars == <<pipe, units>>
readVars   == <<reading, session, got>>
vars == <<owner, acceptor_, mutex_, acceptVars, port, at, created, kernelVars,
          bound, lost, accepted, readVars, sent, dead>>

All(x) == [i \in Instances |-> x]
Idle   == [pc |-> "idle", i |-> NoOne]

Init ==
    /\ owner = "setup" /\ acceptor_ = "none" /\ mutex_ = "free"
    /\ session_ = 0 /\ pendings_ = {}
    /\ port = <<>> /\ at = Idle /\ created = 0
    /\ pipe = All("none") /\ units = All(0)
    /\ bound = {} /\ lost = {} /\ accepted = All(0)
    /\ reading = All("no") /\ session = All("none")
    /\ sent = All(0) /\ got = All(0)
    /\ dead = "no"

Alive == dead = "no" /\ owner # "joined"

-----------------------------------------------------------------------------
(* Clients and the kernel *)

\* A client opens an instance that is not taken, whether or not the server
\* listens on it.  The completion of a ConnectNamedPipe whose handle is not on
\* the port yet is lost, and its callback, which holds the acceptor, with it.
Open(i) ==
    /\ Alive /\ pipe[i] \in {"created", "listening"}
    /\ Cardinality({j \in 1..created : pipe[j] \notin {"created", "listening"}}) < MaxClients
    /\ pipe' = [pipe EXCEPT ![i] = "connected"]
    /\ port' = IF pipe[i] = "listening" /\ i \in bound
               THEN Append(port, [kind |-> "connect", i |-> i, ok |-> TRUE]) ELSE port
    /\ lost' = IF pipe[i] = "listening" /\ i \notin bound THEN lost \cup {i} ELSE lost
    /\ UNCHANGED <<owner, acceptor_, mutex_, acceptVars, at, created, units, bound,
                   accepted, readVars, sent, dead>>

Send(i) ==
    /\ Alive /\ pipe[i] = "connected" /\ sent[i] < MaxMessages
    /\ sent' = [sent EXCEPT ![i] = @ + 1]
    /\ units' = [units EXCEPT ![i] = @ + 2]
    /\ UNCHANGED <<owner, acceptor_, mutex_, acceptVars, port, at, created, pipe, bound, lost,
                   accepted, readVars, dead>>

\* The client ends; what it wrote can still be read.
Leave(i) ==
    /\ Alive /\ pipe[i] = "connected"
    /\ pipe' = [pipe EXCEPT ![i] = "broken"]
    /\ UNCHANGED <<owner, acceptor_, mutex_, acceptVars, port, at, created, units, bound, lost,
                   accepted, readVars, sent, dead>>

\* A pending read completes: with data, or because the other end is gone.
Complete(i) ==
    /\ Alive /\ reading[i] # "no"
    /\ units[i] > 0 \/ pipe[i] # "connected"
    /\ port' = Append(port, [kind |-> reading[i], i |-> i, ok |-> units[i] > 0])
    /\ units' = [units EXCEPT ![i] = IF @ > 0 THEN @ - 1 ELSE @]
    /\ reading' = [reading EXCEPT ![i] = "no"]
    /\ UNCHANGED <<owner, acceptor_, mutex_, acceptVars, at, created, pipe, bound, lost,
                   accepted, session, got, sent, dead>>

-----------------------------------------------------------------------------
(* Closing *)

\* pipe_acceptor::close() after session_++: every channel of pendings_ that has
\* its handle is disconnected, which fails a pending ConnectNamedPipe.
CloseAll ==
    LET closed == pendings_ \cap bound
    IN /\ pipe'  = [i \in Instances |-> IF i \in closed THEN "disconnected" ELSE pipe[i]]
       /\ units' = [i \in Instances |-> IF i \in closed THEN 0 ELSE units[i]]
       /\ port'  = port \o SetToSeq({[kind |-> "connect", i |-> i, ok |-> FALSE] :
                                       i \in {j \in closed : pipe[j] = "listening"}})
       /\ pendings_' = {}

\* Where the one accept the server has under way is: a task or a completion on
\* the port, at the worker, or an instance that listens.
AcceptsUnderWay ==
    {<<"port", k>> : k \in {k \in 1..Len(port) : port[k].kind \in {"accept", "connect"}}}
      \cup {<<"worker", at.pc>> : pc \in {at.pc} \cap {"connect", "insert", "bind", "check",
                                                       "handle", "stop", "clear"}}
      \cup {<<"pipe", i>> : i \in {i \in Instances : pipe[i] = "listening" /\ at.i # i}}

\* ~pipe_acceptor() closes once more.  The manager releases the acceptor, but
\* every callback of an accept holds it too (shared_from_this()).
Destroyed == session_' = session_ + 1 /\ CloseAll

-----------------------------------------------------------------------------
(* The owner *)

\* init(): the first call makes the acceptor and returns false; only the next
\* one opens it.
OwnerInit ==
    /\ Alive /\ owner = "setup" /\ acceptor_ # "open"
    /\ IF acceptor_ = "none" THEN acceptor_' = "made" /\ UNCHANGED session_
       ELSE acceptor_' = "open" /\ session_' = session_ + 1
    /\ UNCHANGED <<owner, mutex_, pendings_, port, at, created, kernelVars, bound, lost,
                   accepted, readVars, sent, dead>>

OwnerStart ==
    /\ Alive /\ owner = "setup" /\ acceptor_ # "none"
    /\ owner' = "started"
    /\ port' = Append(port, [kind |-> "accept", i |-> NoOne, ok |-> TRUE])
    /\ UNCHANGED <<acceptor_, mutex_, acceptVars, at, created, kernelVars, bound, lost,
                   accepted, readVars, sent, dead>>

\* Mutant: the sessions the acceptor hands out do not change.
OwnerStop_KeepsSession ==
    /\ Alive /\ owner \in {"started", "stopped"} /\ mutex_ = "free"
    /\ session_ < MaxSession
    /\ owner' = "stopping" /\ mutex_' = "owner"
    /\ UNCHANGED <<acceptor_, acceptVars, port, at, created, kernelVars, bound, lost,
                   accepted, readVars, sent, dead>>

\* uninit(), stop() and the destructor's uninit(): session_++, then the rest.
OwnerStop ==
    /\ Alive /\ owner \in {"started", "stopped"} /\ mutex_ = "free"
    /\ session_ < MaxSession
    /\ owner' = "stopping" /\ mutex_' = "owner"
    /\ session_' = session_ + 1
    /\ UNCHANGED <<acceptor_, pendings_, port, at, created, kernelVars, bound, lost,
                   accepted, readVars, sent, dead>>

OwnerClear ==
    /\ Alive /\ owner = "stopping"
    /\ CloseAll
    /\ owner' = "stopped" /\ mutex_' = "free"
    /\ UNCHANGED <<acceptor_, session_, at, created, bound, lost, accepted, readVars, sent, dead>>

\* ~pipe_mgr(): acceptor_ is released while the worker still runs, and only then
\* io_service_ destroyed, which waits for the worker to come back to the port.
OwnerRelease ==
    /\ Alive /\ owner = "stopped"
    /\ owner' = "released"
    /\ IF AcceptsUnderWay = {} /\ lost = {}
         THEN Destroyed
         ELSE UNCHANGED <<acceptVars, port, kernelVars>>
    /\ UNCHANGED <<acceptor_, mutex_, at, created, bound, lost, accepted, readVars, sent, dead>>

OwnerJoin ==
    /\ Alive /\ owner = "released" /\ at = Idle
    /\ owner' = "joined"
    /\ UNCHANGED <<acceptor_, mutex_, acceptVars, port, at, created, kernelVars, bound, lost,
                   accepted, readVars, sent, dead>>

-----------------------------------------------------------------------------
(* The worker: accepting *)

Goto(pc, i) == at' = [pc |-> pc, i |-> i]

\* The worker has nothing at hand and takes the next entry of the port.
Next1(kind) == Alive /\ at = Idle /\ port # <<>> /\ Head(port).kind = kind

\* create_pipe(): without a name it fails, and the handler stops the server.
DoAccept ==
    /\ Next1("accept")
    /\ port' = Tail(port)
    /\ IF acceptor_ = "open"
       THEN /\ created' = created + 1
            /\ pipe' = [pipe EXCEPT ![created'] = "created"]
            /\ Goto("connect", created')
       ELSE Goto("stop", NoOne) /\ UNCHANGED <<created, pipe>>
    /\ UNCHANGED <<owner, acceptor_, mutex_, acceptVars, units, bound, lost, accepted,
                   readVars, sent, dead>>

\* ConnectNamedPipe().  It is pending; or a client is there already, and the
\* channel is handed over as it is; or a client came and went, and the failure
\* goes through handle_accept(), which stops the server.
Connect ==
    /\ Alive /\ at.pc = "connect"
    /\ accepted' = [accepted EXCEPT ![at.i] = session_]
    /\ CASE pipe[at.i] = "created" ->
              /\ pipe' = [pipe EXCEPT ![at.i] = "listening"]
              /\ Goto("insert", at.i) /\ UNCHANGED pendings_
         [] pipe[at.i] = "connected" ->
              Goto("handle", at.i) /\ UNCHANGED <<pipe, pendings_>>
         [] pipe[at.i] = "broken" ->
              /\ pipe' = [pipe EXCEPT ![at.i] = "closed"]
              /\ pendings_' = pendings_ \cup {at.i}
              /\ Goto("stop", NoOne)
    /\ UNCHANGED <<owner, acceptor_, mutex_, session_, port, created, units, bound, lost,
                   readVars, sent, dead>>

Insert ==
    /\ Alive /\ at.pc = "insert"
    /\ pendings_' = pendings_ \cup {at.i}
    /\ Goto("bind", at.i)
    /\ UNCHANGED <<owner, acceptor_, mutex_, session_, port, created, kernelVars, bound, lost,
                   accepted, readVars, sent, dead>>

BeServer ==
    /\ Alive /\ at.pc = "bind"
    /\ bound' = bound \cup {at.i}
    /\ at' = Idle
    /\ UNCHANGED <<owner, acceptor_, mutex_, acceptVars, port, created, kernelVars,
                   lost, accepted, readVars, sent, dead>>

\* Mutant: the channel leaves the set when its client has come.
Connected_Erases ==
    /\ Next1("connect")
    /\ port' = Tail(port)
    /\ pendings_' = pendings_ \ {Head(port).i}
    /\ IF Head(port).ok THEN Goto("check", Head(port).i) ELSE Goto("stop", NoOne)
    /\ UNCHANGED <<owner, acceptor_, mutex_, session_, created, kernelVars, bound, lost,
                   accepted, readVars, sent, dead>>

\* Mutant: the acceptor itself goes on accepting, besides the manager.
Connected_Again ==
    /\ Next1("connect")
    /\ port' = Append(Tail(port), [kind |-> "accept", i |-> NoOne, ok |-> TRUE])
    /\ pendings_' = pendings_ \cup {Head(port).i}
    /\ IF Head(port).ok THEN Goto("check", Head(port).i) ELSE Goto("stop", NoOne)
    /\ UNCHANGED <<owner, acceptor_, mutex_, session_, created, kernelVars, bound, lost,
                   accepted, readVars, sent, dead>>

\* pipe_acceptor::handle_accept().
Connected ==
    /\ Next1("connect")
    /\ port' = Tail(port)
    /\ pendings_' = pendings_ \cup {Head(port).i}
    /\ IF Head(port).ok THEN Goto("check", Head(port).i) ELSE Goto("stop", NoOne)
    /\ UNCHANGED <<owner, acceptor_, mutex_, session_, created, kernelVars, bound, lost,
                   accepted, readVars, sent, dead>>

\* After ~pipe_mgr() the worker's callback may hold the acceptor for the last time.
LastHolder == owner = "released" /\ lost = {}

\* session != session_: the channel stays where it is, and the callback is gone.
Check ==
    /\ Alive /\ at.pc = "check"
    /\ \/ /\ accepted[at.i] = session_
          /\ Goto("handle", at.i)
          /\ UNCHANGED <<acceptVars, port, kernelVars>>
       \/ /\ accepted[at.i] # session_
          /\ at' = Idle
          /\ IF LastHolder THEN Destroyed ELSE UNCHANGED <<acceptVars, port, kernelVars>>
    /\ UNCHANGED <<owner, acceptor_, mutex_, created, bound, lost, accepted, readVars,
                   sent, dead>>

\* pipe_mgr::handle_accept(): the next accept is started, then the session.
HandleAccept ==
    /\ Alive /\ at.pc = "handle"
    /\ IF owner = "released"
       THEN dead' = "released" /\ UNCHANGED <<port, at, session>>
       ELSE /\ mutex_ = "free"
            /\ port' = Append(port, [kind |-> "accept", i |-> NoOne, ok |-> TRUE])
            /\ session' = [session EXCEPT ![at.i] = "live"]
            /\ Goto("read", at.i)
            /\ UNCHANGED dead
    /\ UNCHANGED <<owner, acceptor_, mutex_, acceptVars, created, kernelVars, bound, lost,
                   accepted, reading, got, sent>>

\* Mutant: the mutex is not released.
WorkerClear_KeepsMutex ==
    /\ Alive /\ at.pc = "clear"
    /\ CloseAll
    /\ session_' = IF LastHolder THEN session_ + 1 ELSE session_
    /\ at' = Idle
    /\ UNCHANGED <<owner, acceptor_, mutex_, created, bound, lost, accepted, readVars,
                   sent, dead>>

\* pipe_mgr::handle_accept() with an error: stop(), in two steps.
WorkerStop ==
    /\ Alive /\ at.pc = "stop"
    /\ IF owner = "released"
       THEN dead' = "released" /\ UNCHANGED <<mutex_, session_, at>>
       ELSE /\ mutex_ = "free" /\ mutex_' = "worker"
            /\ session_' = session_ + 1
            /\ Goto("clear", NoOne)
            /\ UNCHANGED dead
    /\ UNCHANGED <<owner, acceptor_, pendings_, port, created, kernelVars, bound, lost, accepted,
                   readVars, sent>>

\* The callback ends with stop(); if ~pipe_acceptor() follows, it finds pendings_
\* empty.
WorkerClear ==
    /\ Alive /\ at.pc = "clear"
    /\ CloseAll
    /\ session_' = IF LastHolder THEN session_ + 1 ELSE session_
    /\ mutex_' = "free"
    /\ at' = Idle
    /\ UNCHANGED <<owner, acceptor_, created, bound, lost, accepted, readVars, sent, dead>>

-----------------------------------------------------------------------------
(* The worker: reading *)

\* Does ReadFile() on i fail at once?
ReadFails(i) == pipe[i] = "disconnected" \/ (pipe[i] = "broken" /\ units[i] = 0)

\* pipe_channel::async_read().  Without be_server() handle_ has any value: the
\* session ends if it is INVALID_HANDLE_VALUE.  A read that fails at once is
\* reported as one of size 0 without error: handle_read_header() asserts.
AsyncRead ==
    /\ Alive /\ at.pc = "read"
    /\ \/ /\ at.i \in bound /\ ~ReadFails(at.i)
          /\ reading' = [reading EXCEPT ![at.i] = "header"]
          /\ at' = Idle
          /\ UNCHANGED <<session, dead>>
       \/ /\ at.i \notin bound
          /\ session' = [session EXCEPT ![at.i] = "ended"]
          /\ at' = Idle
          /\ UNCHANGED <<reading, dead>>
       \/ /\ at.i \notin bound \/ ReadFails(at.i)
          /\ dead' = "header"
          /\ UNCHANGED <<reading, session, at>>
    /\ UNCHANGED <<owner, acceptor_, mutex_, acceptVars, port, created, kernelVars, bound, lost,
                   accepted, got, sent>>

\* pipe_session::handle_read(): a message, and the session reads again; or an
\* error, nobody holds the session any more, and ~pipe_session() disconnects.
HandleRead(i, ok) ==
    \/ /\ ok
       /\ got' = [got EXCEPT ![i] = @ + 1]
       /\ Goto("read", i)
       /\ UNCHANGED <<session, kernelVars>>
    \/ /\ ~ok
       /\ session' = [session EXCEPT ![i] = "ended"]
       /\ pipe' = [pipe EXCEPT ![i] = "disconnected"]
       /\ units' = [units EXCEPT ![i] = 0]
       /\ UNCHANGED <<at, got>>

\* handle_read_header().  A body read that fails at once is handed to the
\* session as a message.
HandleReadHeader ==
    /\ Next1("header")
    /\ port' = Tail(port)
    /\ LET i  == Head(port).i
           ok == Head(port).ok
       IN IF ok /\ ~ReadFails(i)
          THEN /\ reading' = [reading EXCEPT ![i] = "body"]
               /\ UNCHANGED <<at, session, got, kernelVars>>
          ELSE HandleRead(i, ok) /\ UNCHANGED reading
    /\ UNCHANGED <<owner, acceptor_, mutex_, acceptVars, created, bound, lost,
                   accepted, sent, dead>>

\* Mutant: the session does not read again.
HandleReadBody_Once ==
    /\ Next1("body")
    /\ port' = Tail(port)
    /\ LET i == Head(port).i
       IN IF Head(port).ok
          THEN got' = [got EXCEPT ![i] = @ + 1] /\ UNCHANGED <<session, at, kernelVars>>
          ELSE HandleRead(i, FALSE)
    /\ UNCHANGED <<owner, acceptor_, mutex_, acceptVars, created, bound, lost,
                   accepted, reading, sent, dead>>

\* handle_read_body().
HandleReadBody ==
    /\ Next1("body")
    /\ port' = Tail(port)
    /\ HandleRead(Head(port).i, Head(port).ok)
    /\ UNCHANGED <<owner, acceptor_, mutex_, acceptVars, created, bound, lost,
                   accepted, reading, sent, dead>>

-----------------------------------------------------------------------------
Worker == \/ DoAccept \/ Connect \/ Insert \/ BeServer
          \/ Connected \/ Check \/ HandleAccept \/ WorkerStop \/ WorkerClear
          \/ AsyncRead \/ HandleReadHeader \/ HandleReadBody

Owner == OwnerInit \/ OwnerStart \/ OwnerStop \/ OwnerClear \/ OwnerRelease \/ OwnerJoin

Next == \/ Owner \/ Worker
        \/ \E i \in Instances : Open(i) \/ Send(i) \/ Leave(i) \/ Complete(i)

\* The worker is scheduled, the kernel completes what can complete, and stop(),
\* once it holds the mutex, goes on.
Fairness == WF_vars(Worker) /\ WF_vars(OwnerClear)
              /\ \A i \in Instances : WF_vars(Complete(i))

Spec == Init /\ [][Next]_vars
FairSpec == Spec /\ Fairness

-----------------------------------------------------------------------------
(* Properties *)

\* Every variable keeps its shape, and the mutex has the holder its users say.
TypeOK ==
    /\ owner \in {"setup", "started", "stopping", "stopped", "released", "joined"}
    /\ acceptor_ \in {"none", "made", "open"}
    /\ (mutex_ = "owner") = (owner = "stopping")
    /\ (mutex_ = "worker") = (at.pc = "clear")
    /\ mutex_ \in {"free", "owner", "worker"}
    /\ session_ \in Nat /\ pendings_ \subseteq 1..created /\ bound \subseteq 1..created
    /\ lost \subseteq 1..created
    /\ \A k \in 1..Len(port) :
         port[k] \in [kind : {"accept", "connect", "header", "body"},
                      i : {NoOne} \cup Instances, ok : BOOLEAN]
    /\ at \in [pc : {"idle", "connect", "insert", "bind", "check", "handle", "read",
                     "stop", "clear"}, i : {NoOne} \cup Instances]
    /\ created \in 0..(MaxClients + 1)
    /\ pipe \in [Instances -> {"none", "created", "listening", "connected", "broken",
                               "disconnected", "closed"}]
    /\ units \in [Instances -> 0..(2 * MaxMessages)]
    /\ accepted \in [Instances -> Nat]
    /\ reading \in [Instances -> {"no", "header", "body"}]
    /\ session \in [Instances -> {"none", "live", "ended"}]
    /\ sent \in [Instances -> 0..MaxMessages] /\ got \in [Instances -> 0..MaxMessages]
    /\ dead \in {"no", "released", "header"}

\* At most one accept is under way, through all the races of accepting and
\* closing; and there is one as long as nobody has called close() and every
\* client came to an instance that was on the port.  pipe_mgr::start(),
\* pipe_acceptor::do_accept(), handle_accept().
OneAccept ==
    /\ Cardinality(AcceptsUnderWay) <= 1
    /\ owner = "started" /\ session_ = 1 /\ acceptor_ = "open" /\ dead = "no"
         => \/ AcceptsUnderWay # {}
            \/ \E i \in Instances : pipe[i] \in {"connected", "broken"} /\ session[i] = "none"

\* close() reaches every session: a channel whose session still has its client
\* is among the pendings_.  It is there because handle_accept() inserts it.
SessionsClosable ==
    \A i \in bound : session[i] = "live" /\ pipe[i] = "connected" => i \in pendings_

\* The assertion on the header's size fails only on a channel that was never
\* given its handle, after a client that has left and whose messages were all
\* handled, or after a close().  (The close() need not come after the accept:
\* an accept between its session_++ and its lock has the new session.)
\* pipe_async_read(), handle_read_header().
AssertCauses ==
    dead = "header" =>
      LET i == at.i
      IN \/ i \notin bound
         \/ pipe[i] = "broken" /\ got[i] = sent[i]
         \/ pipe[i] = "disconnected" /\ session_ > 1

\* The completion of i's connect is queued or being handled, or i has a session.
HasServer(i) ==
    /\ i \in bound
    /\ \/ session[i] = "live"
       \/ \E k \in 1..Len(port) : port[k] = [kind |-> "connect", i |-> i, ok |-> TRUE]
       \/ at \in [pc : {"check", "handle"}, i : {i}]

\* What a client sends once the server knows of it is handed to its session,
\* unless close() comes or the process ends.  pipe_session::handle_read().
MessageReceived ==
    \A i \in Instances :
      HasServer(i) /\ got[i] < sent[i]
        ~> got[i] = sent[i] \/ session_ # accepted[i] \/ ~Alive
=============================================================================
