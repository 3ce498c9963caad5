--------------------------- MODULE PipeServerProofs ---------------------------
(***************************************************************************)
(* Machine-checked facts about PipeServer for any number of clients,       *)
(* messages and stops.                                                     *)
(*                                                                         *)
(* The order of the entries on the port does not matter to the invariants, *)
(* only which there are: they speak of ToSet(port), and that no entry is   *)
(* there twice is a part of them.                                          *)
(***************************************************************************)
EXTENDS PipeServer, QueueLemmas, FiniteSetTheorems

Entries == [kind : {"accept", "connect", "header", "body"},
            i : {NoOne} \cup Instances, ok : BOOLEAN]

\* TypeOK in parts.
OwnerShape ==
    /\ owner \in {"setup", "started", "stopping", "stopped", "released", "joined"}
    /\ acceptor_ \in {"none", "made", "open"}
    /\ mutex_ \in {"free", "owner", "worker"}
    /\ mutex_ = "owner" <=> owner = "stopping"
    /\ mutex_ = "worker" <=> at.pc = "clear"
    /\ dead \in {"no", "released", "header"}
WorkerShape ==
    /\ at \in [pc : {"idle", "connect", "insert", "bind", "check", "handle", "read",
                     "stop", "clear"}, i : {NoOne} \cup Instances]
    /\ port \in Seq(Entries)
    /\ created \in 0..(MaxClients + 1)
    /\ pendings_ \subseteq 1..created /\ bound \subseteq 1..created
KernelShape ==
    /\ pipe \in [Instances -> {"none", "created", "listening", "connected", "broken",
                               "disconnected", "closed"}]
    /\ reading \in [Instances -> {"no", "header", "body"}]
    /\ session \in [Instances -> {"none", "live", "ended"}]
CountShape ==
    /\ session_ \in Nat /\ accepted \in [Instances -> Nat]
    /\ units \in [Instances -> Nat]
    /\ sent \in [Instances -> 0..MaxMessages] /\ got \in [Instances -> Nat]
Shape == OwnerShape /\ WorkerShape /\ KernelShape /\ CountShape

-----------------------------------------------------------------------------
(* The inductive invariant, in parts.                                      *)

\* Nothing happens before the first accept; close() comes after open().
Opened ==
    /\ owner = "setup" => port = <<>> /\ at = Idle /\ created = 0
    /\ acceptor_ # "open" => created = 0
    /\ acceptor_ = "open" =>
         /\ session_ >= 1
         /\ owner = "stopping" \/ at.pc = "clear" => session_ >= 2
    /\ \A i \in Instances : accepted[i] <= session_
    /\ \A i \in 1..created : accepted[i] >= 1 \/ (i = created /\ at.pc = "connect")

\* A client has come to instance i.
Used(i) == pipe[i] \in {"connected", "broken", "disconnected", "closed"}

\* The instances, one after the other.
Served ==
    /\ \A i \in Instances :
         /\ i < created => Used(i)
         /\ i > created => pipe[i] = "none"
         /\ pipe[i] = "none" => i > created
         /\ pipe[i] = "created" => at = [pc |-> "connect", i |-> i]
         /\ pipe[i] = "disconnected" => session_ > 1 \/ session[i] = "ended"
         /\ session[i] # "none" => Used(i)
         /\ reading[i] # "no" => session[i] = "live"

\* What the worker is at concerns the newest instance, which has no session yet.
WorkerPlaced ==
    /\ at.pc \in {"connect", "insert", "bind", "check", "handle"} =>
         at.i = created /\ created > 0 /\ session[at.i] = "none"
    /\ at.pc \in {"connect", "insert", "bind"} => at.i \notin bound
    /\ at.pc = "connect" => pipe[at.i] \in {"created", "connected", "broken"}
    /\ at.pc \in {"insert", "bind"} => pipe[at.i] \in {"listening", "connected", "broken"}
    /\ at.pc \in {"check", "handle"} => Used(at.i)
    /\ at.pc = "read" => at.i \in Instances /\ session[at.i] = "live" /\ reading[at.i] = "no"
    /\ at.pc \in {"idle", "stop", "clear"} => at.i = NoOne

\* The same of an entry of the port.
Placed(e) ==
    /\ e.kind = "connect" => e.i = created /\ created > 0 /\ session[e.i] = "none" /\ Used(e.i)
    /\ e.kind \in {"header", "body"} =>
         /\ e.i \in Instances /\ session[e.i] = "live" /\ reading[e.i] = "no"
         /\ at # [pc |-> "read", i |-> e.i]

Slot(e) == IF e.kind \in {"accept", "connect"} THEN NoOne ELSE e.i

\* No two entries of a port are of the same slot.
Distinct(q) ==
    /\ IsInjective(q)
    /\ \A e, f \in ToSet(q) : Slot(e) = Slot(f) => e = f

PortPlaced == Distinct(port) /\ \A e \in ToSet(port) : Placed(e)

\* Who has the accept.
PortAccepts == \E e \in ToSet(port) : Slot(e) = NoOne
WorkerAccepts == at.pc \in {"connect", "insert", "bind", "check", "handle", "stop", "clear"}
PipeAccepts == \E i \in Instances : pipe[i] = "listening" /\ at.i # i

OneHolder ==
    /\ WorkerAccepts => ~PortAccepts
    /\ PipeAccepts => ~PortAccepts /\ ~WorkerAccepts

\* The last instance is for nobody.
LastUnused ==
    created = MaxClients + 1 =>
      /\ pipe[created] \in {"created", "listening", "disconnected"}
      /\ at.pc \notin {"check", "handle"}
      /\ \A e \in ToSet(port) : Slot(e) = NoOne => e.kind = "connect" /\ ~e.ok

\* A client came to an instance before it was on the port.
Stranded == \E i \in Instances : pipe[i] \in {"connected", "broken"} /\ session[i] = "none"

\* The accept is not lost.
Goes ==
    owner = "started" /\ session_ = 1 /\ acceptor_ = "open" /\ dead = "no"
      => PortAccepts \/ WorkerAccepts \/ PipeAccepts \/ Stranded

\* close() finds each instance that a client holds.
Closable ==
    \A i \in bound :
      pipe[i] = "connected" /\ (session[i] = "live" \/ (at.i = i /\ at.pc \in {"check", "handle"}))
        => i \in pendings_

\* Of a message that was sent to i, the header was read, or both units were, and it
\* was not handed over yet.
Half(i) == reading[i] = "body" \/ [kind |-> "header", i |-> i, ok |-> TRUE] \in ToSet(port)
Whole(i) == [kind |-> "body", i |-> i, ok |-> TRUE] \in ToSet(port)

\* What is in the pipe, under way and handed over is what was sent.
Balanced(i) ==
    /\ pipe[i] # "disconnected" =>
         /\ Half(i) => units[i] + 2 * got[i] + 1 = 2 * sent[i]
         /\ Whole(i) => units[i] + 2 * got[i] + 2 = 2 * sent[i]
         /\ ~Half(i) /\ ~Whole(i) => units[i] + 2 * got[i] = 2 * sent[i]
    /\ pipe[i] = "disconnected" =>
         /\ units[i] = 0 /\ got[i] <= sent[i]
         /\ Half(i) \/ Whole(i) => got[i] < sent[i]

\* The part about accepting, and the whole.
Accepts == Opened /\ Served /\ WorkerPlaced /\ PortPlaced /\ OneHolder /\ LastUnused
Inv == Shape /\ Accepts

-----------------------------------------------------------------------------
(* Facts about the operators of the model.                                 *)

\* The instances are numbered from 1, and there is a last one.
LEMMA Numbers ==
    /\ MaxClients + 1 \in Instances /\ NoOne \notin Instances
    /\ \A i \in Instances : i \in Nat /\ i > 0 /\ i <= MaxClients + 1
    /\ \A n \in Nat : n > 0 /\ n <= MaxClients + 1 => n \in Instances
BY PipeServerAssumption DEF Instances, NoOne

\* Entries as the program and the kernel make them.
LEMMA EntryMade ==
    /\ [kind |-> "accept", i |-> NoOne, ok |-> TRUE] \in Entries
    /\ \A i \in Instances, b \in BOOLEAN :
         /\ [kind |-> "connect", i |-> i, ok |-> b] \in Entries
         /\ [kind |-> "header", i |-> i, ok |-> b] \in Entries
         /\ [kind |-> "body", i |-> i, ok |-> b] \in Entries
BY DEF Entries

\* The shape of an entry.
LEMMA EntryShape ==
    ASSUME NEW e \in Entries
    PROVE  /\ e.kind \in {"accept", "connect", "header", "body"}
           /\ e.i \in {NoOne} \cup Instances /\ e.ok \in BOOLEAN
           /\ e = [kind |-> e.kind, i |-> e.i, ok |-> e.ok]
BY DEF Entries

\* The slots of the entries.
LEMMA Slots ==
    ASSUME port \in Seq(Entries), PortPlaced, NEW e \in ToSet(port)
    PROVE  /\ Slot(e) = NoOne <=> e.kind \in {"accept", "connect"}
           /\ e.kind \notin {"accept", "connect"} => Slot(e) = e.i /\ e.i \in Instances
<1>1. e \in Entries /\ e.kind \in {"accept", "connect", "header", "body"}
  <2>1. e \in Entries
    BY ElementsInside
  <2> QED
    BY <2>1, EntryShape
<1>2. e.kind \in {"header", "body"} => e.i \in Instances
  BY DEF PortPlaced, Placed
<1> QED
  BY <1>1, <1>2, Numbers DEF Slot

\* An entry joins the port.
LEMMA Posted ==
    ASSUME port \in Seq(Entries), PortPlaced, NEW e \in Entries, port' = Append(port, e),
           \A f \in ToSet(port) : Slot(f) # Slot(e)
    PROVE  /\ port' \in Seq(Entries) /\ Distinct(port')
           /\ ToSet(port') = ToSet(port) \cup {e}
<1>1. IsInjective(port) /\ \A f, g \in ToSet(port) : Slot(f) = Slot(g) => f = g
  BY DEF PortPlaced, Distinct
<1>2. e \notin ToSet(port)
  OBVIOUS
<1>3. /\ port' \in Seq(Entries) /\ IsInjective(port')
      /\ ToSet(port') = ToSet(port) \cup {e}
  BY <1>1, <1>2, AppendFacts
<1> QED
  BY <1>1, <1>3 DEF Distinct

\* The worker takes the first entry of the port.
LEMMA Taken ==
    ASSUME port \in Seq(Entries), PortPlaced, NEW k, Next1(k), port' = Tail(port)
    PROVE  \E e \in Entries :
             /\ e = Head(port) /\ e.kind = k /\ e \in ToSet(port)
             /\ port' \in Seq(Entries) /\ Distinct(port')
             /\ ToSet(port') = ToSet(port) \ {e}
<1>1. PICK e : e = Head(port)
  OBVIOUS
<1>2. /\ port # <<>> /\ e.kind = k /\ IsInjective(port)
      /\ \A f, g \in ToSet(port) : Slot(f) = Slot(g) => f = g
  BY <1>1 DEF Next1, PortPlaced, Distinct
<1>3. /\ e \in Entries /\ Tail(port) \in Seq(Entries)
      /\ ToSet(port) = {e} \cup ToSet(Tail(port))
      /\ e \notin ToSet(Tail(port)) /\ IsInjective(Tail(port))
  BY <1>1, <1>2, TailFacts
<1>4. Distinct(port') /\ ToSet(port') = ToSet(port) \ {e}
  BY <1>2, <1>3 DEF Distinct
<1> QED
  BY <1>1, <1>2, <1>3, <1>4

\* A set of one element, and the empty set, as a sequence.
LEMMA SetToSeqFacts ==
    /\ SetToSeq({}) = <<>>
    /\ \A e : SetToSeq({e}) = <<e>>
<1>1. SetToSeq({}) = <<>>
  <2>1. Cardinality({}) = 0 /\ 1..0 = {}
    BY FS_EmptySet
  <2>2. <<>> \in [1..0 -> {}] /\ IsInjective(<<>>)
    BY DEF IsInjective
  <2>3. \A f \in [1..0 -> {}] : f = <<>>
    OBVIOUS
  <2>4. SetToSeq({}) = CHOOSE f \in [1..0 -> {}] : IsInjective(f)
    BY <2>1 DEF SetToSeq
  <2> QED
    BY <2>2, <2>3, <2>4
<1>2. ASSUME NEW e PROVE SetToSeq({e}) = <<e>>
  <2>1. Cardinality({e}) = 1
    BY FS_Singleton
  <2>2. <<e>> \in [1..1 -> {e}] /\ IsInjective(<<e>>)
    BY DEF IsInjective
  <2>3. \A f \in [1..1 -> {e}] : f = <<e>>
    OBVIOUS
  <2>4. SetToSeq({e}) = CHOOSE f \in [1..1 -> {e}] : IsInjective(f)
    BY <2>1 DEF SetToSeq
  <2> QED
    BY <2>2, <2>3, <2>4
<1> QED
  BY <1>1, <1>2

\* What close() does to the instances and to the port: one connect fails at most.
LEMMA Closing ==
    ASSUME Shape, Served, CloseAll
    PROVE  /\ pendings_' = {}
           /\ pipe' \in [Instances -> {"none", "created", "listening", "connected", "broken",
                                       "disconnected", "closed"}]
           /\ units' \in [Instances -> Nat] /\ port' \in Seq(Entries)
           /\ \A i \in Instances :
                /\ i \in pendings_ /\ i \in bound => pipe'[i] = "disconnected" /\ units'[i] = 0
                /\ i \notin pendings_ \/ i \notin bound =>
                     pipe'[i] = pipe[i] /\ units'[i] = units[i]
           /\ \/ /\ port' = port
                 /\ \A i \in Instances :
                      pipe[i] = "listening" => i \notin pendings_ \/ i \notin bound
              \/ /\ created \in Instances /\ pipe[created] = "listening"
                 /\ created \in pendings_ /\ created \in bound
                 /\ port' = Append(port, [kind |-> "connect", i |-> created, ok |-> FALSE])
<1> DEFINE closed == pendings_ \cap bound
           L == {i \in closed : pipe[i] = "listening"}
<1>1. /\ pendings_' = {}
      /\ pipe' = [i \in Instances |-> IF i \in closed THEN "disconnected" ELSE pipe[i]]
      /\ units' = [i \in Instances |-> IF i \in closed THEN 0 ELSE units[i]]
      /\ port' = port \o SetToSeq({[kind |-> "connect", i |-> i, ok |-> FALSE] : i \in L})
  BY DEF CloseAll
<1>2. /\ created \in Nat /\ created <= MaxClients + 1 /\ closed \subseteq 1..created
      /\ port \in Seq(Entries)
  BY PipeServerAssumption DEF Shape, WorkerShape
<1>3. L \subseteq {created} /\ L \subseteq Instances
  <2>1. ASSUME NEW i \in L PROVE i = created /\ i \in Instances
    <3>1. i \in 1..created /\ pipe[i] = "listening"
      BY <1>2
    <3>2. i \in Instances
      BY <1>2, <3>1, Numbers
    <3>3. ~(i < created)
      BY <3>1, <3>2 DEF Served, Used
    <3> QED
      BY <1>2, <3>1, <3>2, <3>3
  <2> QED
    BY <2>1
<1>4. CASE L = {}
  <2>1. {[kind |-> "connect", i |-> i, ok |-> FALSE] : i \in L} = {}
    BY <1>4
  <2>2. port \o <<>> = port
    BY <1>2
  <2>3. port' = port
    BY <1>1, <2>1, <2>2, SetToSeqFacts
  <2> QED
    BY <1>1, <1>2, <1>4, <2>3 DEF Shape, KernelShape, CountShape
<1>5. CASE L # {}
  <2>1. L = {created} /\ created \in Instances /\ created \in closed
    BY <1>3, <1>5
  <2>2. PICK e : e = [kind |-> "connect", i |-> created, ok |-> FALSE]
    OBVIOUS
  <2>3. {[kind |-> "connect", i |-> i, ok |-> FALSE] : i \in L} = {e}
    BY <2>1, <2>2
  <2>4. e \in Entries
    BY <2>1, <2>2, EntryMade
  <2>5. port \o <<e>> = Append(port, e)
    BY <1>2, <2>4
  <2>6. port' = Append(port, e)
    BY <1>1, <2>3, <2>5, SetToSeqFacts
  <2>7. port' \in Seq(Entries)
    BY <1>2, <2>4, <2>6, AppendFacts
  <2> QED
    BY <1>1, <2>1, <2>2, <2>6, <2>7 DEF Shape, KernelShape, CountShape
<1> QED
  BY <1>4, <1>5

-----------------------------------------------------------------------------
(* Every step keeps the shape of the state.                                *)

\* close() on its own, and as a part of ~pipe_acceptor().
LEMMA ClosingShape ==
    ASSUME Inv, CloseAll, OwnerShape', session_' = session_ \/ session_' = session_ + 1,
           at' = at \/ at' = Idle,
           UNCHANGED <<created, bound, accepted, reading, session, got, sent>>
    PROVE  Shape'
<1>1. Shape /\ Served
  BY DEF Inv, Accepts
<1>2. /\ pendings_' = {} /\ port' \in Seq(Entries) /\ units' \in [Instances -> Nat]
      /\ pipe' \in [Instances -> {"none", "created", "listening", "connected", "broken",
                                  "disconnected", "closed"}]
  BY <1>1, Closing
<1>3. WorkerShape'
  BY <1>1, <1>2 DEF Shape, WorkerShape, Idle
<1>4. KernelShape' /\ CountShape'
  BY <1>1, <1>2 DEF Shape, KernelShape, CountShape
<1> QED
  BY <1>3, <1>4 DEF Shape

LEMMA OwnerKeepsShape == ASSUME Inv, Owner PROVE Shape'
<1> USE DEF Inv
<1>1. /\ [kind |-> "accept", i |-> NoOne, ok |-> TRUE] \in Entries
      /\ \A e \in Entries : Append(port, e) \in Seq(Entries)
  <2>1. port \in Seq(Entries)
    BY DEF Shape, WorkerShape
  <2> QED
    BY <2>1, EntryMade, AppendFacts
<1>2. CASE OwnerInit
  BY <1>2 DEF OwnerInit, kernelVars, readVars, Shape, OwnerShape, WorkerShape, KernelShape, CountShape
<1>3. CASE OwnerStart
  BY <1>1, <1>3 DEF OwnerStart, acceptVars, kernelVars, readVars, Shape, OwnerShape, WorkerShape,
     KernelShape, CountShape
<1>4. CASE OwnerStop
  BY <1>4 DEF OwnerStop, kernelVars, readVars, Shape, OwnerShape, WorkerShape, KernelShape, CountShape
<1>5. CASE OwnerClear
  <2>1. /\ CloseAll /\ UNCHANGED <<session_, acceptor_, created, bound, dead, accepted, reading,
                                   session, got, sent>>
        /\ at' = at /\ owner' = "stopped" /\ mutex_' = "free" /\ mutex_ # "worker"
    BY <1>5 DEF OwnerClear, readVars, Shape, OwnerShape
  <2>2. OwnerShape'
    BY <2>1 DEF Shape, OwnerShape
  <2> QED
    BY <2>1, <2>2, ClosingShape
<1>6. CASE OwnerRelease
  <2>1. /\ UNCHANGED <<acceptor_, mutex_, at, created, bound, dead, accepted, reading, session,
                       got, sent>>
        /\ owner = "stopped" /\ owner' = "released"
    BY <1>6 DEF OwnerRelease, readVars
  <2>2. OwnerShape'
    BY <2>1 DEF Shape, OwnerShape
  <2>3. CASE Destroyed
    BY <2>1, <2>2, <2>3, ClosingShape DEF Destroyed
  <2>4. CASE UNCHANGED <<acceptVars, port, kernelVars>>
    BY <2>1, <2>2, <2>4 DEF acceptVars, kernelVars, Shape, WorkerShape, KernelShape, CountShape
  <2> QED
    BY <1>6, <2>3, <2>4 DEF OwnerRelease
<1>7. CASE OwnerJoin
  BY <1>7 DEF OwnerJoin, acceptVars, kernelVars, readVars, Shape, OwnerShape, WorkerShape,
     KernelShape, CountShape
<1> QED
  BY <1>2, <1>3, <1>4, <1>5, <1>6, <1>7 DEF Owner

\* Clients and the kernel.
LEMMA OthersKeepShape ==
    ASSUME Inv, NEW i \in Instances, Open(i) \/ Send(i) \/ Leave(i) \/ Complete(i)
    PROVE  Shape'
<1>1. OwnerShape'
  BY DEF Inv, Shape, OwnerShape, Open, Send, Leave, Complete
<1>2. port \in Seq(Entries) /\ reading[i] \in {"no", "header", "body"}
  BY DEF Inv, Shape, WorkerShape, KernelShape
<1>3. port' \in Seq(Entries)
  <2>1. CASE Open(i)
    <3>1. PICK e \in Entries : e = [kind |-> "connect", i |-> i, ok |-> TRUE]
      BY EntryMade
    <3>2. port' = port \/ port' = Append(port, e)
      BY <2>1, <3>1 DEF Open
    <3> QED
      BY <1>2, <3>1, <3>2, AppendFacts
  <2>2. CASE Send(i) \/ Leave(i)
    BY <1>2, <2>2 DEF Send, Leave
  <2>3. CASE Complete(i)
    <3>1. PICK e : /\ port' = Append(port, e)
                   /\ e = [kind |-> reading[i], i |-> i, ok |-> units[i] > 0]
      BY <2>3 DEF Complete
    <3>2. reading[i] \in {"header", "body"} /\ e.ok \in BOOLEAN
      BY <1>2, <2>3, <3>1 DEF Complete
    <3>3. e = [kind |-> reading[i], i |-> i, ok |-> e.ok]
      BY <3>1
    <3>4. e \in Entries
      BY <3>2, <3>3 DEF Entries
    <3> QED
      BY <1>2, <3>1, <3>4, AppendFacts
  <2> QED
    BY <2>1, <2>2, <2>3
<1>4. WorkerShape'
  <2>1. UNCHANGED <<at, created, pendings_, bound>>
    BY DEF Open, Send, Leave, Complete, acceptVars
  <2> QED
    BY <1>3, <2>1 DEF Inv, Shape, WorkerShape
<1>5. KernelShape'
  BY DEF Inv, Shape, KernelShape, Open, Send, Leave, Complete, readVars
<1>6. CountShape'
  <2>1. CASE Open(i) \/ Leave(i)
    BY <2>1 DEF Inv, Shape, CountShape, Open, Leave, acceptVars, readVars
  <2>2. CASE Send(i)
    <3>1. /\ sent' = [sent EXCEPT ![i] = sent[i] + 1]
          /\ units' = [units EXCEPT ![i] = units[i] + 2]
          /\ sent[i] < MaxMessages /\ UNCHANGED <<session_, accepted, got>>
      BY <2>2 DEF Send, acceptVars, readVars
    <3>2. sent[i] + 1 \in 0..MaxMessages /\ units[i] + 2 \in Nat
      BY <3>1, PipeServerAssumption DEF Inv, Shape, CountShape
    <3> QED
      BY <3>1, <3>2 DEF Inv, Shape, CountShape
  <2>3. CASE Complete(i)
    <3>1. /\ units' = [units EXCEPT ![i] = IF units[i] > 0 THEN units[i] - 1 ELSE units[i]]
          /\ UNCHANGED <<session_, accepted, got, sent>>
      BY <2>3 DEF Complete, acceptVars
    <3>2. (IF units[i] > 0 THEN units[i] - 1 ELSE units[i]) \in Nat
      BY DEF Inv, Shape, CountShape
    <3> QED
      BY <3>1, <3>2 DEF Inv, Shape, CountShape
  <2> QED
    BY <2>1, <2>2, <2>3
<1> QED
  BY <1>1, <1>3, <1>4, <1>5, <1>6 DEF Shape

\* The worker as far as the session.
LEMMA AcceptingKeepsShape ==
    ASSUME Inv, DoAccept \/ Connect \/ Insert \/ BeServer \/ Connected \/ Check
    PROVE  Shape'
<1>1. /\ port \in Seq(Entries) /\ created \in Nat /\ created <= MaxClients + 1
      /\ at.i \in {NoOne} \cup Instances
      /\ at.pc \in {"connect", "insert", "bind", "check", "handle"} =>
           at.i = created /\ at.i \in Instances
      /\ PortPlaced /\ LastUnused
  <2>1. /\ port \in Seq(Entries) /\ created \in Nat /\ created <= MaxClients + 1
        /\ at.i \in {NoOne} \cup Instances
    BY PipeServerAssumption DEF Inv, Shape, WorkerShape
  <2> QED
    BY <2>1, Numbers DEF Inv, Accepts, WorkerPlaced
<1>2. CASE DoAccept
  <2>1. PICK e \in Entries : /\ e = Head(port) /\ e.kind = "accept" /\ e \in ToSet(port)
                             /\ port' \in Seq(Entries)
    BY <1>1, <1>2, Taken DEF DoAccept
  <2>2. created + 1 \in 0..(MaxClients + 1) /\ created + 1 \in Instances
    <3>1. created # MaxClients + 1
      BY <1>1, <2>1 DEF LastUnused, Slot
    <3>2. created + 1 <= MaxClients + 1 /\ created + 1 > 0
      BY <1>1, <3>1, PipeServerAssumption
    <3> QED
      BY <1>1, <3>2, Numbers, PipeServerAssumption
  <2>3. /\ UNCHANGED <<owner, acceptor_, mutex_, session_, pendings_, units, bound, accepted,
                       reading, session, got, sent, dead>>
        /\ at = Idle
    BY <1>2 DEF DoAccept, Next1, acceptVars, readVars
  <2>4. CASE acceptor_ = "open"
    <3>1. /\ created' = created + 1 /\ pipe' = [pipe EXCEPT ![created + 1] = "created"]
          /\ at' = [pc |-> "connect", i |-> created + 1]
      BY <1>2, <2>4 DEF DoAccept, Goto
    <3>2. 1..created \subseteq 1..(created + 1)
      BY <1>1
    <3>3. WorkerShape'
      BY <2>1, <2>2, <2>3, <3>1, <3>2 DEF Inv, Shape, WorkerShape
    <3>4. OwnerShape'
      BY <2>3, <3>1 DEF Inv, Shape, OwnerShape, Idle
    <3>5. KernelShape' /\ CountShape'
      BY <2>3, <3>1 DEF Inv, Shape, KernelShape, CountShape
    <3> QED
      BY <3>3, <3>4, <3>5 DEF Shape
  <2>5. CASE acceptor_ # "open"
    <3>1. /\ UNCHANGED <<created, pipe>> /\ at' = [pc |-> "stop", i |-> NoOne]
      BY <1>2, <2>5 DEF DoAccept, Goto
    <3>3. WorkerShape'
      BY <2>1, <2>3, <3>1 DEF Inv, Shape, WorkerShape
    <3>4. OwnerShape'
      BY <2>3, <3>1 DEF Inv, Shape, OwnerShape, Idle
    <3>5. KernelShape' /\ CountShape'
      BY <2>3, <3>1 DEF Inv, Shape, KernelShape, CountShape
    <3> QED
      BY <3>3, <3>4, <3>5 DEF Shape
  <2> QED
    BY <2>4, <2>5
<1>3. CASE Connect
  <2>1. /\ accepted' = [accepted EXCEPT ![at.i] = session_]
        /\ UNCHANGED <<owner, acceptor_, mutex_, session_, port, created, units, bound,
                       reading, session, got, sent, dead>>
        /\ at.pc = "connect" /\ at.i = created /\ at.i \in Instances
    BY <1>1, <1>3 DEF Connect, readVars
  <2>2. \/ /\ pipe' = [pipe EXCEPT ![at.i] = "listening"] /\ pendings_' = pendings_
           /\ at' = [pc |-> "insert", i |-> at.i]
        \/ /\ pipe' = pipe /\ pendings_' = pendings_ /\ at' = [pc |-> "handle", i |-> at.i]
        \/ /\ pipe' = [pipe EXCEPT ![at.i] = "closed"] /\ pendings_' = pendings_ \cup {at.i}
           /\ at' = [pc |-> "stop", i |-> NoOne]
    <3>1. pipe[at.i] \in {"created", "connected", "broken"}
      BY <1>3 DEF Inv, Accepts, WorkerPlaced, Connect
    <3> QED
      BY <1>3, <3>1 DEF Connect, Goto
  <2>3. at.i \in 1..created
    BY <1>1, <2>1, Numbers
  <2>4. WorkerShape'
    <3>1. at' \in [pc : {"idle", "connect", "insert", "bind", "check", "handle", "read",
                        "stop", "clear"}, i : {NoOne} \cup Instances]
      BY <2>1, <2>2
    <3>2. pendings_' \subseteq 1..created
      BY <2>2, <2>3 DEF Inv, Shape, WorkerShape
    <3> QED
      BY <2>1, <3>1, <3>2 DEF Inv, Shape, WorkerShape
  <2>5. OwnerShape'
    BY <2>1, <2>2 DEF Inv, Shape, OwnerShape
  <2>6. KernelShape'
    BY <2>1, <2>2 DEF Inv, Shape, KernelShape
  <2>7. CountShape'
    BY <2>1 DEF Inv, Shape, CountShape
  <2> QED
    BY <2>4, <2>5, <2>6, <2>7 DEF Shape
<1> DEFINE Kept == UNCHANGED <<acceptVars, port, kernelVars>>
<1>4. CASE Insert \/ BeServer \/ (Check /\ Kept)
  <2>1. UNCHANGED <<owner, acceptor_, mutex_, session_, port, created, pipe, units, accepted,
                    reading, session, got, sent, dead>>
    BY <1>4 DEF Insert, BeServer, Check, kernelVars, readVars, acceptVars
  <2>2. /\ at.pc \in {"insert", "bind", "check"}
        /\ \/ at' = [pc |-> "bind", i |-> at.i]
           \/ at' = [pc |-> "handle", i |-> at.i]
           \/ at' = [pc |-> "idle", i |-> NoOne]
        /\ pendings_' = pendings_ \/ pendings_' = pendings_ \cup {at.i}
        /\ bound' = bound \/ bound' = bound \cup {at.i}
    <3>1. CASE Insert
      BY <3>1 DEF Insert, Goto
    <3>2. CASE BeServer
      BY <3>2 DEF BeServer, acceptVars, Idle
    <3>3. CASE Check /\ Kept
      BY <3>3 DEF Check, acceptVars, Goto, Idle
    <3> QED
      BY <1>4, <3>1, <3>2, <3>3
  <2>3. at.i \in 1..created /\ at.i \in Instances
    BY <1>1, <2>2, Numbers
  <2>4. WorkerShape'
    <3>1. at' \in [pc : {"idle", "connect", "insert", "bind", "check", "handle", "read",
                        "stop", "clear"}, i : {NoOne} \cup Instances]
      BY <2>2, <2>3
    <3>2. pendings_' \subseteq 1..created /\ bound' \subseteq 1..created
      BY <2>2, <2>3 DEF Inv, Shape, WorkerShape
    <3> QED
      BY <1>1, <2>1, <3>1, <3>2 DEF Inv, Shape, WorkerShape
  <2>5. OwnerShape'
    BY <2>1, <2>2 DEF Inv, Shape, OwnerShape
  <2>6. KernelShape' /\ CountShape'
    BY <2>1 DEF Inv, Shape, KernelShape, CountShape
  <2> QED
    BY <2>4, <2>5, <2>6 DEF Shape
<1>5. CASE Connected
  <2>1. PICK e \in Entries : /\ e = Head(port) /\ e.kind = "connect" /\ e \in ToSet(port)
                             /\ port' \in Seq(Entries)
    BY <1>1, <1>5, Taken DEF Connected
  <2>2. e.i = created /\ created > 0
    BY <1>1, <2>1 DEF PortPlaced, Placed
  <2>3. e.i \in 1..created /\ e.i \in Instances
    BY <1>1, <2>2, Numbers
  <2>4. /\ UNCHANGED <<owner, acceptor_, mutex_, session_, created, pipe, units, bound, accepted,
                       reading, session, got, sent, dead>>
        /\ pendings_' = pendings_ \cup {e.i}
        /\ \/ at' = [pc |-> "check", i |-> e.i]
           \/ at' = [pc |-> "stop", i |-> NoOne]
        /\ at.pc = "idle"
    BY <1>5, <2>1 DEF Connected, Next1, Idle, Goto, kernelVars, readVars
  <2>5. WorkerShape'
    <3>1. at' \in [pc : {"idle", "connect", "insert", "bind", "check", "handle", "read",
                        "stop", "clear"}, i : {NoOne} \cup Instances]
      BY <2>3, <2>4
    <3>2. pendings_' \subseteq 1..created
      BY <2>3, <2>4 DEF Inv, Shape, WorkerShape
    <3> QED
      BY <2>1, <2>4, <3>1, <3>2 DEF Inv, Shape, WorkerShape
  <2>6. OwnerShape'
    BY <2>4 DEF Inv, Shape, OwnerShape
  <2>7. KernelShape' /\ CountShape'
    BY <2>4 DEF Inv, Shape, KernelShape, CountShape
  <2> QED
    BY <2>5, <2>6, <2>7 DEF Shape
<1>6. CASE Check /\ ~Kept
  <2>1. /\ UNCHANGED <<owner, acceptor_, mutex_, created, bound, accepted, reading, session, got,
                       sent, dead>>
        /\ at.pc = "check" /\ at' = Idle /\ Destroyed
    BY <1>6 DEF Check, readVars
  <2>2. OwnerShape'
    BY <2>1 DEF Inv, Shape, OwnerShape, Idle
  <2> QED
    BY <2>1, <2>2, ClosingShape DEF Destroyed
<1> QED
  BY <1>2, <1>3, <1>4, <1>5, <1>6

\* What handling the end of a read does: the body is read next; or a message is
\* handed over and the session reads again; or the session is over.
LEMMA ReadFacts ==
    ASSUME Inv, HandleReadHeader \/ HandleReadBody
    PROVE  \E e \in Entries :
             /\ e \in ToSet(port) /\ ToSet(port') = ToSet(port) \ {e}
             /\ port' \in Seq(Entries) /\ Distinct(port')
             /\ e.kind \in {"header", "body"} /\ e.i \in Instances
             /\ at = [pc |-> "idle", i |-> NoOne]
             /\ UNCHANGED <<owner, acceptor_, mutex_, session_, pendings_, created,
                            bound, accepted, sent, dead>>
             /\ \/ /\ e.kind = "header" /\ e.ok /\ ~ReadFails(e.i)
                   /\ reading' = [reading EXCEPT ![e.i] = "body"]
                   /\ UNCHANGED <<at, session, got, pipe, units>>
                \/ /\ e.ok
                   /\ e.kind = "header" => ReadFails(e.i)
                   /\ got' = [got EXCEPT ![e.i] = got[e.i] + 1]
                   /\ at' = [pc |-> "read", i |-> e.i]
                   /\ UNCHANGED <<reading, session, pipe, units>>
                \/ /\ ~e.ok /\ session' = [session EXCEPT ![e.i] = "ended"]
                   /\ pipe' = [pipe EXCEPT ![e.i] = "disconnected"]
                   /\ units' = [units EXCEPT ![e.i] = 0]
                   /\ UNCHANGED <<at, reading, got>>
<1>1. port \in Seq(Entries) /\ PortPlaced
  BY DEF Inv, Accepts, Shape, WorkerShape
<1>2. PICK k \in {"header", "body"} : Next1(k) /\ port' = Tail(port)
  BY DEF HandleReadHeader, HandleReadBody
<1>3. PICK e \in Entries :
        /\ e = Head(port) /\ e.kind = k /\ e \in ToSet(port)
        /\ port' \in Seq(Entries) /\ Distinct(port')
        /\ ToSet(port') = ToSet(port) \ {e}
  BY <1>1, <1>2, Taken
<1>4. e.i \in Instances /\ e.ok \in BOOLEAN
  BY <1>1, <1>2, <1>3, EntryShape DEF PortPlaced, Placed
<1>5. /\ at = [pc |-> "idle", i |-> NoOne]
      /\ UNCHANGED <<owner, acceptor_, mutex_, session_, pendings_, created, bound, accepted,
                     sent, dead>>
  <2>1. at = [pc |-> "idle", i |-> NoOne]
    BY <1>2 DEF Next1, Idle
  <2>2. CASE HandleReadHeader
    BY <2>1, <2>2 DEF HandleReadHeader, acceptVars
  <2>3. CASE HandleReadBody
    BY <2>1, <2>3 DEF HandleReadBody, acceptVars
  <2> QED
    BY <2>2, <2>3
<1>6. ASSUME HandleRead(e.i, e.ok), reading' = reading
      PROVE  \/ /\ e.ok
                /\ got' = [got EXCEPT ![e.i] = got[e.i] + 1]
                /\ at' = [pc |-> "read", i |-> e.i]
                /\ UNCHANGED <<reading, session, pipe, units>>
             \/ /\ ~e.ok /\ session' = [session EXCEPT ![e.i] = "ended"]
                /\ pipe' = [pipe EXCEPT ![e.i] = "disconnected"]
                /\ units' = [units EXCEPT ![e.i] = 0]
                /\ UNCHANGED <<at, reading, got>>
  BY <1>6 DEF HandleRead, Goto, kernelVars
<1>7. CASE HandleReadHeader
  <2>1. e.kind = "header"
    BY <1>3, <1>7 DEF HandleReadHeader, Next1
  <2>2. IF e.ok /\ ~ReadFails(e.i)
        THEN reading' = [reading EXCEPT ![e.i] = "body"]
               /\ UNCHANGED <<at, session, got, pipe, units>>
        ELSE HandleRead(e.i, e.ok) /\ UNCHANGED reading
    BY <1>3, <1>7 DEF HandleReadHeader, kernelVars
  <2>3. CASE e.ok /\ ~ReadFails(e.i)
    BY <1>3, <1>4, <1>5, <2>1, <2>2, <2>3
  <2>4. CASE ~(e.ok /\ ~ReadFails(e.i))
    BY <1>3, <1>4, <1>5, <1>6, <2>1, <2>2, <2>4
  <2> QED
    BY <2>3, <2>4
<1>8. CASE HandleReadBody
  <2>1. e.kind = "body"
    BY <1>3, <1>8 DEF HandleReadBody, Next1
  <2>2. HandleRead(e.i, e.ok) /\ UNCHANGED reading
    BY <1>3, <1>8 DEF HandleReadBody
  <2> QED
    BY <1>3, <1>4, <1>5, <1>6, <2>1, <2>2
<1> QED
  BY <1>7, <1>8

\* The worker stopping the server.
LEMMA StoppingKeepsShape == ASSUME Inv, WorkerStop \/ WorkerClear PROVE Shape'
<1>1. CASE WorkerStop
  <2>1. /\ UNCHANGED <<owner, acceptor_, pendings_, port, created, pipe, units, bound, accepted,
                       reading, session, got, sent>>
        /\ at.pc = "stop"
        /\ \/ dead' = "released" /\ UNCHANGED <<mutex_, session_, at>>
           \/ /\ mutex_ = "free" /\ mutex_' = "worker" /\ session_' = session_ + 1
              /\ at' = [pc |-> "clear", i |-> NoOne] /\ dead' = dead
    BY <1>1 DEF WorkerStop, Goto, kernelVars, readVars
  <2>2. WorkerShape'
    BY <2>1 DEF Inv, Shape, WorkerShape
  <2>3. OwnerShape'
    BY <2>1 DEF Inv, Shape, OwnerShape
  <2>4. KernelShape' /\ CountShape'
    BY <2>1 DEF Inv, Shape, KernelShape, CountShape
  <2> QED
    BY <2>2, <2>3, <2>4 DEF Shape
<1>2. CASE WorkerClear
  <2>1. /\ UNCHANGED <<owner, created, bound, acceptor_, dead, accepted, reading, session, got,
                       sent>>
        /\ CloseAll /\ (session_' = session_ \/ session_' = session_ + 1)
        /\ at' = Idle /\ mutex_' = "free" /\ at.pc = "clear"
    BY <1>2 DEF WorkerClear, readVars
  <2>2. OwnerShape'
    BY <2>1 DEF Inv, Shape, OwnerShape, Idle
  <2> QED
    BY <2>1, <2>2, ClosingShape
<1> QED
  BY <1>1, <1>2

\* The worker in a session.
LEMMA SessionKeepsShape ==
    ASSUME Inv, HandleAccept \/ AsyncRead \/ HandleReadHeader \/ HandleReadBody
    PROVE  Shape'
<1>1. CASE HandleAccept
  <2>1. /\ UNCHANGED <<owner, acceptor_, mutex_, session_, pendings_, created, pipe, units, bound,
                       accepted, reading, got, sent>>
        /\ at.pc = "handle"
        /\ \/ dead' = "released" /\ UNCHANGED <<port, at, session>>
           \/ /\ port' = Append(port, [kind |-> "accept", i |-> NoOne, ok |-> TRUE])
              /\ session' = [session EXCEPT ![at.i] = "live"]
              /\ at' = [pc |-> "read", i |-> at.i] /\ dead' = dead
    BY <1>1 DEF HandleAccept, Goto, kernelVars, acceptVars
  <2>2. port' \in Seq(Entries)
    <3>1. port \in Seq(Entries)
      BY DEF Inv, Shape, WorkerShape
    <3> QED
      BY <2>1, <3>1, EntryMade, AppendFacts
  <2>3. WorkerShape'
    BY <2>1, <2>2 DEF Inv, Shape, WorkerShape
  <2>4. OwnerShape'
    BY <2>1 DEF Inv, Shape, OwnerShape
  <2>5. KernelShape' /\ CountShape'
    BY <2>1 DEF Inv, Shape, KernelShape, CountShape
  <2> QED
    BY <2>3, <2>4, <2>5 DEF Shape
<1>2. CASE AsyncRead
  <2>1. /\ UNCHANGED <<owner, acceptor_, mutex_, session_, pendings_, port, created, pipe, units,
                       bound, accepted, got, sent>>
        /\ at.pc = "read"
        /\ dead' = dead \/ dead' = "header"
        /\ at' = at \/ at' = [pc |-> "idle", i |-> NoOne]
        /\ reading' = reading \/ reading' = [reading EXCEPT ![at.i] = "header"]
        /\ session' = session \/ session' = [session EXCEPT ![at.i] = "ended"]
    BY <1>2 DEF AsyncRead, acceptVars, kernelVars, Idle
  <2>2. WorkerShape'
    BY <2>1 DEF Inv, Shape, WorkerShape
  <2>3. OwnerShape'
    BY <2>1 DEF Inv, Shape, OwnerShape
  <2>4. KernelShape' /\ CountShape'
    BY <2>1 DEF Inv, Shape, KernelShape, CountShape
  <2> QED
    BY <2>2, <2>3, <2>4 DEF Shape
<1>3. CASE HandleReadHeader \/ HandleReadBody
  <2>1. PICK e \in Entries :
          /\ port' \in Seq(Entries) /\ e.i \in Instances
          /\ at = [pc |-> "idle", i |-> NoOne]
          /\ UNCHANGED <<owner, acceptor_, mutex_, session_, pendings_, created, bound, accepted,
                         sent, dead>>
          /\ pipe' = pipe \/ pipe' = [pipe EXCEPT ![e.i] = "disconnected"]
          /\ units' = units \/ units' = [units EXCEPT ![e.i] = 0]
          /\ at' = at \/ at' = [pc |-> "read", i |-> e.i]
          /\ reading' = reading \/ reading' = [reading EXCEPT ![e.i] = "body"]
          /\ session' = session \/ session' = [session EXCEPT ![e.i] = "ended"]
          /\ got' = got \/ got' = [got EXCEPT ![e.i] = got[e.i] + 1]
    BY <1>3, ReadFacts
  <2>2. WorkerShape'
    BY <2>1 DEF Inv, Shape, WorkerShape
  <2>3. OwnerShape'
    BY <2>1 DEF Inv, Shape, OwnerShape
  <2>4. KernelShape'
    BY <2>1 DEF Inv, Shape, KernelShape
  <2>5. CountShape'
    <3>1. got \in [Instances -> Nat] /\ units \in [Instances -> Nat]
      BY DEF Inv, Shape, CountShape
    <3>2. got' \in [Instances -> Nat]
      BY <2>1, <3>1
    <3>3. units' \in [Instances -> Nat]
      BY <2>1, <3>1
    <3> QED
      BY <2>1, <3>2, <3>3 DEF Inv, Shape, CountShape
  <2> QED
    BY <2>2, <2>3, <2>4, <2>5 DEF Shape
<1> QED
  BY <1>1, <1>2, <1>3

\* Every step keeps the shape of the state.
LEMMA ShapeStep == Inv /\ [Next]_vars => Shape'
<1>1. ASSUME Inv, UNCHANGED vars PROVE Shape'
  BY <1>1 DEF vars, acceptVars, kernelVars, readVars, Inv, Shape, OwnerShape, WorkerShape,
     KernelShape, CountShape
<1> QED
  BY <1>1, OwnerKeepsShape, OthersKeepShape, AcceptingKeepsShape, StoppingKeepsShape,
     SessionKeepsShape DEF Next, Worker

-----------------------------------------------------------------------------
(* Every step keeps the part about accepting.                              *)

\* A step that moves neither the worker, nor the port, nor an instance.
LEMMA QuietKeeps ==
    ASSUME Inv, UNCHANGED <<acceptor_, port, at, created, pipe, bound, accepted, reading, session>>,
           session_' = session_ \/ session_' = session_ + 1,
           owner' = owner \/ owner' # "setup",
           owner' = "stopping" => session_' = session_ + 1 \/ owner = "stopping"
    PROVE  Accepts'
<1>1. session_ \in Nat /\ session_' \in Nat /\ session_' >= session_
  BY DEF Inv, Shape, CountShape
<1>2. Opened'
  <2>1. /\ owner' = "setup" => port' = <<>> /\ at' = Idle /\ created' = 0
        /\ acceptor_' # "open" => created' = 0
    BY DEF Inv, Accepts, Opened
  <2>2. \A i \in Instances : accepted'[i] <= session_'
    <3>1. \A i \in Instances : accepted[i] \in Nat /\ accepted[i] <= session_
      BY DEF Inv, Shape, CountShape, Accepts, Opened
    <3> QED
      BY <1>1, <3>1
  <2>3. \A i \in 1..created' : accepted'[i] >= 1 \/ (i = created' /\ at'.pc = "connect")
    BY DEF Inv, Accepts, Opened
  <2>4. acceptor_' = "open" =>
          session_' >= 1 /\ (owner' = "stopping" \/ at'.pc = "clear" => session_' >= 2)
    BY <1>1 DEF Inv, Accepts, Opened
  <2> QED
    BY <2>1, <2>2, <2>3, <2>4 DEF Opened, Idle
<1>3. Served'
  BY <1>1 DEF Inv, Accepts, Served, Used
<1>4. WorkerPlaced'
  BY DEF Inv, Accepts, WorkerPlaced, Used
<1>5. PortPlaced'
  BY DEF Inv, Accepts, PortPlaced, Placed, Used
<1>6. OneHolder' /\ LastUnused'
  BY DEF Inv, Accepts, OneHolder, PortAccepts, WorkerAccepts, PipeAccepts, LastUnused
<1> QED
  BY <1>2, <1>3, <1>4, <1>5, <1>6 DEF Accepts

\* What an instance that is not the newest, or the newest one, can be.
LEMMA Newest ==
    ASSUME Inv, NEW i \in Instances, pipe[i] \in {"created", "listening"}
    PROVE  i = created /\ created > 0 /\ session[i] = "none" /\ reading[i] = "no"
<1>1. i \in Nat /\ i > 0 /\ created \in Nat
  BY Numbers, PipeServerAssumption DEF Inv, Shape, WorkerShape
<1>2. ~(i < created) /\ ~(i > created)
  BY DEF Inv, Accepts, Served, Used
<1>3. session[i] = "none"
  BY DEF Inv, Accepts, Served, Used
<1> QED
  BY <1>1, <1>2, <1>3 DEF Inv, Accepts, Served

\* An instance on the port that listens has the accept.
LEMMA Listens ==
    ASSUME Inv, NEW i \in Instances, pipe[i] = "listening", i \in bound
    PROVE  at.i # i /\ ~PortAccepts /\ ~WorkerAccepts
<1>1. i = created /\ session[i] = "none"
  BY Newest
<1>2. at.i # i
  <2>1. at.pc \in {"idle", "connect", "insert", "bind", "check", "handle", "read", "stop", "clear"}
    BY DEF Inv, Shape, WorkerShape
  <2>2. ~Used(i)
    BY DEF Used
  <2> QED
    BY <1>1, <2>1, <2>2, Numbers DEF Inv, Accepts, WorkerPlaced
<1> QED
  BY <1>2 DEF Inv, Accepts, OneHolder, PipeAccepts

\* close() after session_++.
LEMMA ClosingKeeps ==
    ASSUME Inv, CloseAll, created > 0 => session_' >= 2,
           session_' = session_ \/ session_' = session_ + 1,
           UNCHANGED <<acceptor_, created, bound, accepted, reading, session>>,
           at' = at \/ (at.pc \in {"clear", "check"} /\ at' = Idle),
           owner' = owner \/ (owner # "setup" /\ owner' \in {"stopped", "released"})
    PROVE  Accepts'
<1>1. /\ session_ \in Nat /\ session_' \in Nat /\ session_' >= session_
      /\ port \in Seq(Entries) /\ created \in Nat
      /\ Opened /\ Served /\ WorkerPlaced /\ PortPlaced /\ OneHolder /\ LastUnused /\ Shape
  BY PipeServerAssumption DEF Inv, Accepts, Shape, WorkerShape, CountShape
<1>2. ASSUME NEW i \in Instances
      PROVE  /\ i \in pendings_ /\ i \in bound => pipe'[i] = "disconnected"
             /\ i \notin pendings_ \/ i \notin bound => pipe'[i] = pipe[i]
  BY <1>1, Closing
<1>3. /\ owner' = "setup" => owner = "setup" /\ at' = at /\ at = Idle
      /\ \A i \in Instances : at.pc \in {"clear", "check"} /\ pipe[i] = "listening" => at.i # i
  <2>1. owner = "setup" => at = Idle /\ at.pc \notin {"clear", "check"}
    BY <1>1 DEF Opened, Idle
  <2>2. \A i \in Instances : at.pc \in {"clear", "check"} /\ pipe[i] = "listening" => at.i # i
    BY <1>1, Numbers DEF WorkerPlaced, Used
  <2> QED
    BY <2>1, <2>2
<1>4. \/ at'.pc = at.pc /\ at'.i = at.i
      \/ at'.pc = "idle" /\ at'.i = NoOne /\ at.pc \in {"clear", "check"}
  BY DEF Idle
<1>5. \A i \in Instances : Used(i) => Used(i)'
  BY <1>2 DEF Used
<1>6. Served'
  <2>1. ASSUME NEW i \in Instances
        PROVE  /\ i < created => Used(i)'
               /\ i > created => pipe'[i] = "none"
               /\ pipe'[i] = "none" => i > created
               /\ session[i] # "none" => Used(i)'
               /\ reading[i] # "no" => session[i] = "live"
    <3>1. i > created => i \notin bound
      <4>1. bound \subseteq 1..created /\ i \in Nat
        BY <1>1, Numbers DEF Shape, WorkerShape
      <4> QED
        BY <1>1, <4>1
    <3>2. /\ i < created \/ session[i] # "none" => Used(i)
          /\ i > created => pipe[i] = "none"
          /\ pipe[i] = "none" => i > created
          /\ reading[i] # "no" => session[i] = "live"
      BY <1>1 DEF Served
    <3>3. i < created \/ session[i] # "none" => Used(i)'
      BY <1>5, <3>2
    <3>4. /\ i > created => pipe'[i] = "none"
          /\ pipe'[i] = "none" => i > created
      BY <1>2, <3>1, <3>2
    <3> QED
      BY <3>2, <3>3, <3>4
  <2>2. ASSUME NEW i \in Instances, pipe'[i] = "created"
        PROVE  at' = [pc |-> "connect", i |-> i]
    BY <1>1, <1>2, <2>2 DEF Served, Idle
  <2>3. ASSUME NEW i \in Instances, pipe'[i] = "disconnected"
        PROVE  session_' > 1 \/ session[i] = "ended"
    <3>1. CASE i \in bound
      BY <1>1, <3>1 DEF Shape, WorkerShape
    <3>2. CASE i \notin bound
      BY <1>1, <1>2, <2>3, <3>2 DEF Served
    <3> QED
      BY <3>1, <3>2
  <2> QED
    BY <2>1, <2>2, <2>3 DEF Served
<1>7. WorkerPlaced'
  <2>1. CASE at' = Idle
    BY <2>1 DEF WorkerPlaced, Idle
  <2>2. CASE at' = at
    <3>1. at.pc \in {"connect", "insert", "bind"} => at.i \in Instances /\ pipe'[at.i] = pipe[at.i]
      <4>1. at.pc \in {"connect", "insert", "bind"} => at.i \in Instances /\ at.i \notin bound
        BY <1>1, Numbers, PipeServerAssumption DEF WorkerPlaced, Shape, WorkerShape
      <4> QED
        BY <1>2, <4>1
    <3>2. at.pc \in {"check", "handle"} => at.i \in Instances /\ Used(at.i)'
      <4>1. at.pc \in {"check", "handle"} => at.i \in Instances /\ Used(at.i)
        BY <1>1, Numbers, PipeServerAssumption DEF WorkerPlaced, Shape, WorkerShape
      <4> QED
        BY <1>5, <2>2, <4>1
    <3> QED
      BY <1>1, <2>2, <3>1, <3>2 DEF WorkerPlaced
  <2> QED
    BY <2>1, <2>2
<1>8. ASSUME NEW e \in ToSet(port) PROVE Placed(e)'
  <2>1. /\ Placed(e)
        /\ e.kind = "connect" => e.i \in Instances
    BY <1>1, Numbers, PipeServerAssumption DEF PortPlaced, Placed, Shape, WorkerShape
  <2>2. e.kind = "connect" => Used(e.i)'
    BY <1>5, <2>1 DEF Placed
  <2>3. at' # [pc |-> "read", i |-> e.i] \/ at' = at
    BY DEF Idle
  <2> QED
    BY <2>1, <2>2, <2>3 DEF Placed
<1>9. /\ acceptor_' # "open" => created' = 0
      /\ acceptor_' = "open" =>
           /\ session_' >= 1
           /\ owner' = "stopping" \/ at'.pc = "clear" => session_' >= 2
      /\ \A i \in Instances : accepted'[i] <= session_'
      /\ \A i \in 1..created' : accepted'[i] >= 1 \/ (i = created' /\ at'.pc = "connect")
  <2>1. \A i \in Instances : accepted[i] \in Nat /\ accepted[i] <= session_
    BY <1>1 DEF Opened, Shape, CountShape
  <2>2. \A i \in Instances : accepted'[i] <= session_'
    BY <1>1, <2>1
  <2>3. \A i \in 1..created : accepted[i] >= 1 \/ (i = created /\ at'.pc = "connect")
    BY <1>1, <1>4 DEF Opened
  <2>4. /\ acceptor_ # "open" => created = 0
        /\ acceptor_ = "open" =>
             session_ >= 1 /\ (owner = "stopping" \/ at.pc = "clear" => session_ >= 2)
    BY <1>1 DEF Opened
  <2> QED
    BY <1>1, <1>4, <2>2, <2>3, <2>4
<1>10. CASE /\ port' = port
            /\ \A i \in Instances : pipe[i] = "listening" => i \notin pendings_ \/ i \notin bound
  <2>1. PortPlaced'
    BY <1>1, <1>8, <1>10 DEF PortPlaced
  <2>2. PipeAccepts' => PipeAccepts
    <3>1. ASSUME NEW i \in Instances, pipe'[i] = "listening", at'.i # i
          PROVE  pipe[i] = "listening" /\ at.i # i
      BY <1>2, <1>3, <1>4, <3>1
    <3> QED
      BY <3>1 DEF PipeAccepts
  <2>3. OneHolder'
    BY <1>1, <1>4, <1>10, <2>2 DEF OneHolder, PortAccepts, WorkerAccepts
  <2>4. LastUnused'
    <3>1. created = MaxClients + 1 =>
            created \in Instances /\ pipe'[created] \in {"created", "listening", "disconnected"}
      BY <1>1, <1>2, Numbers DEF LastUnused
    <3> QED
      BY <1>1, <1>4, <1>10, <3>1 DEF LastUnused
  <2>5. Opened'
    <3>1. owner' = "setup" => port' = <<>> /\ at' = Idle /\ created' = 0
      BY <1>1, <1>3, <1>10 DEF Opened
    <3> QED
      BY <1>9, <3>1 DEF Opened, Idle
  <2> QED
    BY <1>6, <1>7, <2>1, <2>3, <2>4, <2>5 DEF Accepts
<1>11. CASE /\ created \in Instances /\ pipe[created] = "listening"
            /\ created \in pendings_ /\ created \in bound
            /\ port' = Append(port, [kind |-> "connect", i |-> created, ok |-> FALSE])
  <2>1. PICK e : e = [kind |-> "connect", i |-> created, ok |-> FALSE]
    OBVIOUS
  <2>2. e \in Entries /\ Slot(e) = NoOne /\ e.kind = "connect" /\ e.i = created /\ ~e.ok
    BY <1>11, <2>1, EntryMade DEF Slot
  <2>3. created > 0 /\ session[created] = "none"
    BY <1>11, Newest
  <2>5. ~PortAccepts /\ ~WorkerAccepts
    BY <1>11, Listens
  <2>6. \A f \in ToSet(port) : Slot(f) # Slot(e)
    BY <2>2, <2>5 DEF PortAccepts
  <2>7. Distinct(port') /\ ToSet(port') = ToSet(port) \cup {e}
    BY <1>1, <1>11, <2>1, <2>2, <2>6, Posted
  <2>8. Used(created)'
    BY <1>2, <1>11 DEF Used
  <2>9. Placed(e)'
    BY <2>2, <2>3, <2>8 DEF Placed
  <2>10. PortPlaced'
    BY <1>8, <2>7, <2>9 DEF PortPlaced
  <2>11. ~WorkerAccepts'
    BY <1>4, <2>5 DEF WorkerAccepts
  <2>12. ~PipeAccepts'
    <3>1. ASSUME NEW i \in Instances, pipe'[i] = "listening" PROVE FALSE
      <4>1. pipe[i] = "listening" /\ (i \notin pendings_ \/ i \notin bound)
        BY <1>2, <3>1
      <4>2. i = created
        BY <4>1, Newest
      <4> QED
        BY <1>11, <4>1, <4>2
    <3> QED
      BY <3>1 DEF PipeAccepts
  <2>13. LastUnused'
    <3>1. pipe'[created] = "disconnected"
      BY <1>2, <1>11
    <3>2. created = MaxClients + 1 =>
            \A f \in ToSet(port') : Slot(f) = NoOne => f.kind = "connect" /\ ~f.ok
      BY <1>1, <2>2, <2>7 DEF LastUnused
    <3>3. at'.pc \notin {"check", "handle"}
      BY <1>4, <2>5 DEF WorkerAccepts
    <3> QED
      BY <3>1, <3>2, <3>3 DEF LastUnused
  <2>14. Opened'
    <3>1. owner' # "setup"
      BY <1>1, <2>3 DEF Opened
    <3> QED
      BY <1>9, <3>1 DEF Opened
  <2> QED
    BY <1>6, <1>7, <2>10, <2>11, <2>12, <2>13, <2>14 DEF Accepts, OneHolder
<1> QED
  BY <1>1, <1>10, <1>11, Closing

LEMMA OwnerKeeps == ASSUME Inv, Owner PROVE Accepts'
<1>1. /\ session_ \in Nat /\ port \in Seq(Entries) /\ created \in Nat
      /\ Opened /\ Served /\ WorkerPlaced /\ PortPlaced /\ OneHolder /\ LastUnused /\ Shape
  BY PipeServerAssumption DEF Inv, Accepts, Shape, WorkerShape, CountShape
<1> DEFINE Kept == UNCHANGED <<acceptVars, port, kernelVars>>
<1>2. CASE OwnerStop \/ (OwnerRelease /\ Kept) \/ OwnerJoin
  <2>1. /\ UNCHANGED <<acceptor_, port, at, created, pipe, bound, accepted, reading, session>>
        /\ session_' = session_ \/ session_' = session_ + 1
        /\ owner' # "setup"
        /\ owner' = "stopping" => session_' = session_ + 1
    BY <1>2 DEF OwnerStop, OwnerRelease, OwnerJoin, acceptVars, kernelVars, readVars
  <2> QED
    BY <2>1, QuietKeeps
<1>3. CASE OwnerInit
  <2>1. /\ UNCHANGED <<owner, port, at, created, pipe, bound, accepted, reading, session>>
        /\ owner = "setup"
        /\ \/ acceptor_' = "made" /\ session_' = session_
           \/ acceptor_' = "open" /\ session_' = session_ + 1
    BY <1>3 DEF OwnerInit, kernelVars, readVars
  <2>2. port = <<>> /\ at = Idle /\ created = 0
    BY <1>1, <2>1 DEF Opened
  <2>3. Opened'
    <3>1. \A i \in Instances : accepted[i] \in Nat /\ accepted[i] <= session_
      BY <1>1 DEF Shape, CountShape, Opened
    <3>2. \A i \in Instances : accepted'[i] <= session_'
      BY <1>1, <2>1, <3>1
    <3>3. session_' >= 1 \/ acceptor_' = "made"
      BY <1>1, <2>1
    <3>4. 1..0 = {}
      OBVIOUS
    <3> QED
      BY <2>1, <2>2, <3>2, <3>3, <3>4 DEF Opened, Idle
  <2>4. Served'
    <3>1. \A i \in Instances : i > created /\ ~(i < created)
      BY <2>2, Numbers
    <3>2. \A i \in Instances : pipe[i] = "none" /\ session[i] = "none" /\ reading[i] = "no"
      BY <1>1, <3>1 DEF Served, Used
    <3> QED
      BY <2>1, <3>1, <3>2 DEF Served
  <2>5. WorkerPlaced' /\ PortPlaced' /\ OneHolder' /\ LastUnused'
    BY <1>1, <2>1 DEF WorkerPlaced, PortPlaced, Placed, Used, OneHolder, PortAccepts,
       WorkerAccepts, PipeAccepts, LastUnused
  <2> QED
    BY <2>3, <2>4, <2>5 DEF Accepts
<1>4. CASE OwnerStart
  <2>1. PICK e \in Entries : e = [kind |-> "accept", i |-> NoOne, ok |-> TRUE]
    BY EntryMade
  <2>2. /\ UNCHANGED <<acceptor_, session_, at, created, pipe, bound, accepted, reading, session>>
        /\ owner = "setup" /\ owner' = "started" /\ port' = Append(port, e)
    BY <1>4, <2>1 DEF OwnerStart, acceptVars, kernelVars, readVars
  <2>3. port = <<>> /\ at = Idle /\ created = 0
    BY <1>1, <2>2 DEF Opened
  <2>4. ToSet(port) = {}
    BY <2>3, EmptyFacts
  <2>5. Distinct(port') /\ ToSet(port') = {e}
    BY <1>1, <2>2, <2>4, Posted
  <2>6. Opened'
    BY <1>1, <2>2 DEF Opened
  <2>7. Served' /\ WorkerPlaced'
    BY <1>1, <2>2 DEF Served, Used, WorkerPlaced
  <2>8. PortPlaced'
    BY <2>1, <2>5 DEF PortPlaced, Placed
  <2>9. OneHolder' /\ LastUnused'
    <3>1. at.pc = "idle"
      BY <2>3 DEF Idle
    <3>2. \A i \in Instances : pipe[i] # "listening"
      BY <1>1, <2>3, Numbers DEF Served, Used
    <3>3. 0 # MaxClients + 1
      BY PipeServerAssumption
    <3> QED
      BY <2>2, <2>3, <3>1, <3>2, <3>3 DEF OneHolder, WorkerAccepts, PipeAccepts, LastUnused
  <2> QED
    BY <2>6, <2>7, <2>8, <2>9 DEF Accepts
<1>5. CASE OwnerClear
  <2>1. created > 0 => session_ >= 2
    BY <1>1, <1>5 DEF OwnerClear, Opened
  <2>2. /\ CloseAll /\ at' = at /\ owner = "stopping" /\ owner' = "stopped"
        /\ UNCHANGED <<acceptor_, session_, created, bound, accepted, reading, session>>
    BY <1>5 DEF OwnerClear, readVars
  <2> QED
    BY <2>1, <2>2, ClosingKeeps
<1>6. CASE OwnerRelease /\ ~Kept
  <2>1. /\ CloseAll /\ session_' = session_ + 1
        /\ at' = at /\ owner = "stopped" /\ owner' = "released"
        /\ UNCHANGED <<acceptor_, created, bound, accepted, reading, session>>
    BY <1>6 DEF OwnerRelease, Destroyed, readVars
  <2>2. created > 0 => session_' >= 2
    BY <1>1, <2>1 DEF Opened
  <2> QED
    BY <2>1, <2>2, ClosingKeeps
<1> QED
  BY <1>2, <1>3, <1>4, <1>5, <1>6 DEF Owner

\* Clients come to MaxClients instances.
LEMMA Opening ==
    ASSUME Inv, NEW i \in Instances, Open(i)
    PROVE  created # MaxClients + 1
<1> SUFFICES ASSUME created = MaxClients + 1 PROVE FALSE
  OBVIOUS
<1> DEFINE U == {j \in 1..created : pipe[j] \notin {"created", "listening"}}
<1>1. Cardinality(U) < MaxClients
  BY DEF Open
<1>2. IsFiniteSet(1..created) /\ U \subseteq 1..created /\ 1 \in Int /\ MaxClients \in Int
  BY PipeServerAssumption, FS_Interval
<1>3. 1..MaxClients \subseteq U
  <2>1. ASSUME NEW j \in 1..MaxClients PROVE j \in U
    <3>1. j \in Instances /\ j < created /\ j \in 1..created
      BY PipeServerAssumption, Numbers
    <3>2. Used(j)
      BY <3>1 DEF Inv, Accepts, Served
    <3> QED
      BY <3>1, <3>2 DEF Used
  <2> QED
    BY <2>1
<1>4. Cardinality(1..MaxClients) = MaxClients
  <2>1. Cardinality(1..MaxClients) = IF 1 > MaxClients THEN 0 ELSE MaxClients - 1 + 1
    BY <1>2, FS_Interval
  <2> QED
    BY <2>1, PipeServerAssumption
<1>5. IsFiniteSet(U) /\ Cardinality(U) \in Nat /\ Cardinality(1..MaxClients) <= Cardinality(U)
  <2>1. IsFiniteSet(U)
    BY <1>2, FS_Subset
  <2> QED
    BY <1>3, <2>1, FS_Subset, FS_CardinalityType
<1> QED
  BY <1>1, <1>4, <1>5, PipeServerAssumption

LEMMA OpenKeeps == ASSUME Inv, NEW i \in Instances, Open(i) PROVE Accepts'
<1>1. /\ port \in Seq(Entries) /\ created \in Nat
      /\ Opened /\ Served /\ WorkerPlaced /\ PortPlaced /\ OneHolder /\ LastUnused /\ Shape
  BY PipeServerAssumption DEF Inv, Accepts, Shape, WorkerShape
<1>2. /\ UNCHANGED <<owner, acceptor_, session_, at, created, bound, accepted, reading, session>>
      /\ pipe[i] \in {"created", "listening"}
      /\ pipe' = [pipe EXCEPT ![i] = "connected"]
  BY DEF Open, acceptVars, readVars
<1>3. i = created /\ created > 0 /\ session[i] = "none"
  BY <1>2, Newest
<1>4. /\ pipe'[i] = "connected" /\ Used(i)'
      /\ \A j \in Instances : j # i => pipe'[j] = pipe[j]
      /\ \A j \in Instances : Used(j) => Used(j)'
  BY <1>1, <1>2 DEF Shape, KernelShape, Used
<1>5. Served'
  BY <1>1, <1>2, <1>3, <1>4 DEF Served
<1>6. WorkerPlaced'
  <2>1. at.pc \in {"connect", "insert", "bind", "check", "handle"} => at.i = i
    BY <1>1, <1>3 DEF WorkerPlaced
  <2> QED
    BY <1>1, <1>2, <1>4, <2>1 DEF WorkerPlaced
<1>7. ASSUME NEW e \in ToSet(port) PROVE Placed(e)'
  <2>1. /\ Placed(e)
        /\ e.kind = "connect" => e.i = i
    BY <1>1, <1>3 DEF PortPlaced, Placed
  <2> QED
    BY <1>2, <1>4, <2>1 DEF Placed
<1>8. created # MaxClients + 1
  BY Opening
<1>9. LastUnused'
  BY <1>2, <1>8 DEF LastUnused
<1>10. PipeAccepts' => PipeAccepts
  BY <1>2, <1>4 DEF PipeAccepts
<1>11. CASE pipe[i] = "listening" /\ i \in bound
  <2>1. PICK e : e = [kind |-> "connect", i |-> i, ok |-> TRUE]
    OBVIOUS
  <2>2. e \in Entries /\ Slot(e) = NoOne /\ e.kind = "connect" /\ e.i = i
    BY <2>1, EntryMade DEF Slot
  <2>3. port' = Append(port, e)
    BY <1>11, <2>1 DEF Open
  <2>4. ~PortAccepts /\ ~WorkerAccepts
    BY <1>11, Listens
  <2>5. \A f \in ToSet(port) : Slot(f) # Slot(e)
    BY <2>2, <2>4 DEF PortAccepts
  <2>6. Distinct(port') /\ ToSet(port') = ToSet(port) \cup {e}
    BY <1>1, <2>2, <2>3, <2>5, Posted
  <2>7. Placed(e)'
    BY <1>2, <1>3, <1>4, <2>2 DEF Placed
  <2>8. PortPlaced'
    BY <1>7, <2>6, <2>7 DEF PortPlaced
  <2>9. ~PipeAccepts'
    <3>1. ASSUME NEW j \in Instances, pipe'[j] = "listening" PROVE FALSE
      <4>1. j # i /\ pipe[j] = "listening"
        BY <1>4, <3>1
      <4> QED
        BY <1>3, <4>1, Newest
    <3> QED
      BY <3>1 DEF PipeAccepts
  <2>10. OneHolder'
    BY <1>2, <2>4, <2>9 DEF OneHolder, WorkerAccepts
  <2>11. Opened'
    BY <1>1, <1>2, <1>3 DEF Opened
  <2> QED
    BY <1>5, <1>6, <1>9, <2>8, <2>10, <2>11 DEF Accepts
<1>12. CASE ~(pipe[i] = "listening" /\ i \in bound)
  <2>1. port' = port
    BY <1>12 DEF Open
  <2>2. PortPlaced'
    BY <1>1, <1>7, <2>1 DEF PortPlaced
  <2>3. OneHolder'
    BY <1>1, <1>2, <1>10, <2>1 DEF OneHolder, WorkerAccepts, PortAccepts
  <2>4. Opened'
    BY <1>1, <1>2, <2>1 DEF Opened, Idle
  <2> QED
    BY <1>5, <1>6, <1>9, <2>2, <2>3, <2>4 DEF Accepts
<1> QED
  BY <1>11, <1>12

\* The other steps of the clients and the kernel.
LEMMA OthersKeep ==
    ASSUME Inv, NEW i \in Instances, Send(i) \/ Leave(i) \/ Complete(i)
    PROVE  Accepts'
<1>1. /\ port \in Seq(Entries) /\ created \in Nat
      /\ Opened /\ Served /\ WorkerPlaced /\ PortPlaced /\ OneHolder /\ LastUnused /\ Shape
  BY PipeServerAssumption DEF Inv, Accepts, Shape, WorkerShape
<1>2. CASE Send(i)
  <2>1. UNCHANGED <<owner, acceptor_, session_, port, at, created, pipe, bound, accepted, reading,
                    session>>
    BY <1>2 DEF Send, acceptVars, readVars
  <2>2. session_' = session_ /\ owner' = owner /\ (owner' = "stopping" => owner = "stopping")
    BY <2>1
  <2> QED
    BY <2>1, <2>2, QuietKeeps
<1>3. CASE Leave(i)
  <2>1. /\ UNCHANGED <<owner, acceptor_, session_, port, at, created, bound, accepted, reading,
                       session>>
        /\ pipe[i] = "connected" /\ pipe' = [pipe EXCEPT ![i] = "broken"]
    BY <1>3 DEF Leave, acceptVars, readVars
  <2>2. /\ pipe'[i] = "broken" /\ Used(i) /\ Used(i)'
        /\ \A j \in Instances : j # i => pipe'[j] = pipe[j]
        /\ \A j \in Instances : Used(j) => Used(j)'
    BY <1>1, <2>1 DEF Shape, KernelShape, Used
  <2>3. Served'
    BY <1>1, <2>1, <2>2 DEF Served
  <2>4. WorkerPlaced'
    <3>1. at.pc \in {"connect", "insert", "bind", "check", "handle"} => at.i \in Instances
      BY <1>1, Numbers, PipeServerAssumption DEF WorkerPlaced, Shape, WorkerShape
    <3> QED
      BY <1>1, <2>1, <2>2, <3>1 DEF WorkerPlaced
  <2>5. PortPlaced'
    <3>1. ASSUME NEW e \in ToSet(port) PROVE Placed(e)'
      <4>1. /\ Placed(e)
            /\ e.kind = "connect" => e.i \in Instances
        BY <1>1, Numbers, PipeServerAssumption DEF PortPlaced, Placed, Shape, WorkerShape
      <4> QED
        BY <2>1, <2>2, <4>1 DEF Placed
    <3> QED
      BY <1>1, <2>1, <3>1 DEF PortPlaced
  <2>6. OneHolder' /\ Opened'
    BY <1>1, <2>1, <2>2 DEF OneHolder, PortAccepts, WorkerAccepts, PipeAccepts, Opened, Idle
  <2>7. LastUnused'
    <3>1. created = MaxClients + 1 => created \in Instances /\ pipe'[created] = pipe[created]
      BY <1>1, <2>1, <2>2, Numbers DEF LastUnused
    <3> QED
      BY <1>1, <2>1, <3>1 DEF LastUnused
  <2> QED
    BY <2>3, <2>4, <2>5, <2>6, <2>7 DEF Accepts
<1>4. CASE Complete(i)
  <2>1. PICK e : /\ port' = Append(port, e)
                 /\ e = [kind |-> reading[i], i |-> i, ok |-> units[i] > 0]
    BY <1>4 DEF Complete
  <2>2. /\ UNCHANGED <<owner, acceptor_, session_, at, created, pipe, bound, accepted, session>>
        /\ reading[i] \in {"header", "body"} /\ session[i] = "live"
        /\ reading' = [reading EXCEPT ![i] = "no"]
    BY <1>1, <1>4 DEF Complete, acceptVars, Shape, KernelShape, Served
  <2>3. e \in Entries /\ e.kind \in {"header", "body"} /\ e.i = i /\ Slot(e) = i
    <3>1. e.ok \in BOOLEAN
      BY <2>1
    <3>2. e.kind = reading[i] /\ e.i = i
      BY <2>1
    <3>3. e = [kind |-> reading[i], i |-> i, ok |-> e.ok]
      BY <2>1
    <3> QED
      BY <2>2, <3>1, <3>2, <3>3 DEF Entries, Slot
  <2>4. /\ reading'[i] = "no"
        /\ \A j \in Instances : reading'[j] = reading[j] \/ reading'[j] = "no"
    BY <1>1, <2>2 DEF Shape, KernelShape
  <2>5. ASSUME NEW f \in ToSet(port) PROVE Slot(f) # Slot(e) /\ Placed(f)'
    <3>1. /\ Placed(f)
          /\ Slot(f) = NoOne <=> f.kind \in {"accept", "connect"}
          /\ f.kind \notin {"accept", "connect"} => Slot(f) = f.i /\ f.i \in Instances
          /\ f.kind \in {"accept", "connect", "header", "body"}
      <4>1. f \in Entries
        BY <1>1, ElementsInside
      <4> QED
        BY <1>1, <4>1, Slots, EntryShape DEF PortPlaced
    <3>2. Slot(f) # Slot(e)
      BY <2>2, <2>3, <3>1, Numbers DEF Placed
    <3>3. Placed(f)'
      BY <2>2, <2>4, <3>1 DEF Placed, Used
    <3> QED
      BY <3>2, <3>3
  <2>6. Distinct(port') /\ ToSet(port') = ToSet(port) \cup {e}
    BY <1>1, <2>1, <2>3, <2>5, Posted
  <2>7. Placed(e)'
    <3>1. at # [pc |-> "read", i |-> i]
      BY <1>1, <2>2 DEF WorkerPlaced
    <3> QED
      BY <2>2, <2>3, <2>4, <3>1 DEF Placed
  <2>8. PortPlaced'
    BY <2>5, <2>6, <2>7 DEF PortPlaced
  <2>9. PortAccepts' => PortAccepts
    BY <2>3, <2>6, Numbers DEF PortAccepts
  <2>10. OneHolder'
    BY <1>1, <2>2, <2>9 DEF OneHolder, WorkerAccepts, PipeAccepts
  <2>11. LastUnused'
    BY <1>1, <2>2, <2>3, <2>6, Numbers DEF LastUnused
  <2>12. Served'
    BY <1>1, <2>2, <2>4 DEF Served, Used
  <2>13. WorkerPlaced'
    BY <1>1, <2>2, <2>4 DEF WorkerPlaced, Used
  <2>14. Opened'
    <3>1. owner # "setup"
      <4>1. Used(i) /\ i \in Nat /\ i > 0
        BY <1>1, <2>2, Numbers DEF Served
      <4>2. ~(i > created)
        BY <1>1, <4>1 DEF Served, Used
      <4> QED
        BY <1>1, <4>1, <4>2 DEF Opened
    <3> QED
      BY <1>1, <2>2, <3>1 DEF Opened
  <2> QED
    BY <2>8, <2>10, <2>11, <2>12, <2>13, <2>14 DEF Accepts
<1> QED
  BY <1>2, <1>3, <1>4

\* The facts of a step of the worker that takes an accept or a connect.
LEMMA TakenAccept ==
    ASSUME Inv, NEW k \in {"accept", "connect"}, Next1(k), port' = Tail(port)
    PROVE  /\ \E e \in Entries : /\ e = Head(port) /\ e.kind = k /\ Placed(e)
                                 /\ e \in ToSet(port) /\ Slot(e) = NoOne
           /\ port' \in Seq(Entries) /\ Distinct(port') /\ ToSet(port') \subseteq ToSet(port)
           /\ \A f \in ToSet(port') : /\ f.kind \in {"header", "body"} /\ f.i \in Instances
                                      /\ Slot(f) # NoOne
           /\ at.pc = "idle" /\ at.i = NoOne /\ owner # "setup"
           /\ PortAccepts /\ ~PipeAccepts
<1>1. port \in Seq(Entries) /\ PortPlaced /\ Opened /\ OneHolder
  BY DEF Inv, Accepts, Shape, WorkerShape
<1>2. PICK e \in Entries :
        /\ e = Head(port) /\ e.kind = k /\ e \in ToSet(port)
        /\ port' \in Seq(Entries) /\ Distinct(port')
        /\ ToSet(port') = ToSet(port) \ {e}
  BY <1>1, Taken
<1>3. Slot(e) = NoOne /\ PortAccepts
  BY <1>2 DEF Slot, PortAccepts
<1>4. ASSUME NEW f \in ToSet(port')
      PROVE  f.kind \in {"header", "body"} /\ f.i \in Instances /\ Slot(f) # NoOne
  <2>1. f \in ToSet(port) /\ f # e
    BY <1>2
  <2>2. Slot(f) # NoOne
    BY <1>1, <1>2, <1>3, <2>1 DEF PortPlaced, Distinct
  <2>3. f \in Entries
    BY <1>1, <2>1, ElementsInside
  <2> QED
    BY <1>1, <2>1, <2>2, <2>3, Slots, EntryShape
<1>5. at.pc = "idle" /\ at.i = NoOne /\ owner # "setup"
  BY <1>1 DEF Next1, Opened, Idle
<1>6. ~PipeAccepts
  BY <1>1, <1>3 DEF OneHolder
<1> QED
  BY <1>1, <1>2, <1>3, <1>4, <1>5, <1>6 DEF PortPlaced

LEMMA DoAcceptKeeps == ASSUME Inv, DoAccept PROVE Accepts'
<1>1. /\ created \in Nat /\ session_ \in Nat /\ bound \subseteq 1..created
      /\ Opened /\ Served /\ WorkerPlaced /\ PortPlaced /\ OneHolder /\ LastUnused /\ Shape
  BY PipeServerAssumption DEF Inv, Accepts, Shape, WorkerShape, CountShape
<1>2. Next1("accept") /\ port' = Tail(port)
  BY DEF DoAccept
<1>3. PICK e \in ToSet(port) : Slot(e) = NoOne /\ e.kind = "accept"
  BY <1>2, TakenAccept
<1>4. /\ Distinct(port') /\ ToSet(port') \subseteq ToSet(port)
      /\ \A f \in ToSet(port') : /\ f.kind \in {"header", "body"} /\ f.i \in Instances
                                 /\ Slot(f) # NoOne
      /\ at.pc = "idle" /\ at.i = NoOne /\ owner # "setup" /\ ~PipeAccepts
  BY <1>2, TakenAccept
<1>5. UNCHANGED <<owner, acceptor_, session_, bound, accepted, reading, session>>
  BY DEF DoAccept, acceptVars, readVars
<1>6. \A j \in Instances : pipe[j] \notin {"created", "listening"}
  BY <1>1, <1>4, Numbers DEF Served, PipeAccepts
<1>7. CASE acceptor_ = "open"
  <2>1. PICK c : c = created + 1
    OBVIOUS
  <2>2. /\ created' = c /\ pipe' = [pipe EXCEPT ![c] = "created"]
        /\ at' = [pc |-> "connect", i |-> c]
    BY <1>7, <2>1 DEF DoAccept, Goto
  <2>3. c \in Instances /\ c \in Nat /\ c > 0 /\ c > created
    <3>1. created # MaxClients + 1 /\ created <= MaxClients + 1
      BY <1>1, <1>3, PipeServerAssumption DEF LastUnused, Shape, WorkerShape
    <3> QED
      BY <1>1, <2>1, <3>1, Numbers, PipeServerAssumption
  <2>4. /\ pipe'[c] = "created"
        /\ \A j \in Instances : j # c => pipe'[j] = pipe[j]
    BY <1>1, <2>2, <2>3 DEF Shape, KernelShape
  <2>5. pipe[c] = "none" /\ session[c] = "none" /\ reading[c] = "no"
    BY <1>1, <2>3 DEF Served, Used
  <2>6. Served'
    <3>1. ASSUME NEW j \in Instances
          PROVE  /\ j < c => Used(j)'
                 /\ j > c => pipe'[j] = "none"
                 /\ pipe'[j] = "none" => j > c
                 /\ session[j] # "none" => Used(j)'
      <4>1. j \in Nat /\ (j < c => j <= created) /\ (j > c => j > created)
        BY <1>1, <2>1, Numbers
      <4>2. pipe[j] = "none" <=> j > created
        BY <1>1 DEF Served
      <4>3. j <= created => Used(j)
        BY <1>1, <1>6, <4>1, <4>2 DEF Shape, KernelShape, Used
      <4>4. CASE j = c
        BY <2>4, <2>5, <4>1, <4>4
      <4>5. CASE j # c
        <5>1. j < c \/ j > c
          BY <2>3, <4>1, <4>5
        <5>2. j > created => j > c
          BY <1>1, <2>1, <4>1, <4>5
        <5> QED
          BY <1>1, <2>4, <4>1, <4>2, <4>3, <4>5, <5>1, <5>2 DEF Used, Served
      <4> QED
        BY <4>4, <4>5
    <3>2. ASSUME NEW j \in Instances
          PROVE  /\ pipe'[j] = "created" => at' = [pc |-> "connect", i |-> j]
                 /\ pipe'[j] = "disconnected" => session_ > 1 \/ session[j] = "ended"
                 /\ reading[j] # "no" => session[j] = "live"
      BY <1>1, <1>6, <2>2, <2>4 DEF Served
    <3> QED
      BY <1>5, <2>2, <3>1, <3>2 DEF Served
  <2>7. WorkerPlaced'
    <3>1. c \notin bound
      BY <1>1, <2>3
    <3> QED
      BY <1>5, <2>2, <2>3, <2>4, <2>5, <3>1 DEF WorkerPlaced
  <2>8. PortPlaced'
    BY <1>1, <1>4, <1>5, <2>2 DEF PortPlaced, Placed
  <2>9. ~PortAccepts'
    BY <1>4 DEF PortAccepts
  <2>10. ~PipeAccepts'
    BY <1>6, <2>4 DEF PipeAccepts
  <2>11. OneHolder' /\ LastUnused'
    BY <1>4, <2>2, <2>4, <2>9, <2>10 DEF OneHolder, LastUnused
  <2>12. Opened'
    <3>1. ASSUME NEW j \in 1..c PROVE accepted[j] >= 1 \/ (j = c /\ at'.pc = "connect")
      <4>1. j \in 1..created \/ j = c
        BY <1>1, <2>1
      <4> QED
        BY <1>1, <1>4, <2>2, <4>1 DEF Opened
    <3> QED
      BY <1>1, <1>4, <1>5, <1>7, <2>2, <3>1 DEF Opened
  <2> QED
    BY <2>6, <2>7, <2>8, <2>11, <2>12 DEF Accepts
<1>8. CASE acceptor_ # "open"
  <2>1. /\ UNCHANGED <<created, pipe>>
        /\ at' = [pc |-> "stop", i |-> NoOne]
    BY <1>8 DEF DoAccept, Goto
  <2>2. Served' /\ WorkerPlaced'
    BY <1>1, <1>5, <1>6, <2>1 DEF Served, WorkerPlaced, Used
  <2>3. PortPlaced'
    BY <1>1, <1>4, <1>5, <2>1 DEF PortPlaced, Placed
  <2>4. ~PortAccepts' /\ ~PipeAccepts'
    BY <1>4, <1>6, <2>1 DEF PortAccepts, PipeAccepts
  <2>5. OneHolder' /\ LastUnused'
    BY <1>1, <1>4, <2>1, <2>4 DEF OneHolder, LastUnused
  <2>6. Opened'
    BY <1>1, <1>4, <1>5, <1>8, <2>1 DEF Opened
  <2> QED
    BY <2>2, <2>3, <2>5, <2>6 DEF Accepts
<1> QED
  BY <1>7, <1>8

LEMMA ConnectKeeps == ASSUME Inv, Connect PROVE Accepts'
<1>1. /\ created \in Nat /\ session_ \in Nat /\ port \in Seq(Entries)
      /\ Opened /\ Served /\ WorkerPlaced /\ PortPlaced /\ OneHolder /\ LastUnused /\ Shape
  BY PipeServerAssumption DEF Inv, Accepts, Shape, WorkerShape, CountShape
<1>2. PICK c \in Instances : /\ c = at.i /\ c = created /\ created > 0 /\ at.pc = "connect"
                             /\ session[c] = "none" /\ c \notin bound
                             /\ pipe[c] \in {"created", "connected", "broken"}
  <2>1. /\ at.pc = "connect" /\ at.i = created /\ created > 0 /\ session[at.i] = "none"
        /\ at.i \notin bound /\ pipe[at.i] \in {"created", "connected", "broken"}
    BY <1>1 DEF Connect, WorkerPlaced
  <2>2. at.i \in Instances
    BY <1>1, <2>1, Numbers DEF Shape, WorkerShape
  <2> QED
    BY <2>1, <2>2
<1>3. /\ UNCHANGED <<owner, acceptor_, session_, port, created, bound, reading, session>>
      /\ accepted' = [accepted EXCEPT ![c] = session_]
      /\ \/ /\ pipe[c] = "created" /\ pipe' = [pipe EXCEPT ![c] = "listening"]
            /\ at' = [pc |-> "insert", i |-> c]
         \/ /\ pipe[c] = "connected" /\ pipe' = pipe
            /\ at' = [pc |-> "handle", i |-> c]
         \/ /\ pipe[c] = "broken" /\ pipe' = [pipe EXCEPT ![c] = "closed"]
            /\ at' = [pc |-> "stop", i |-> NoOne]
  BY <1>2 DEF Connect, Goto, readVars
<1>4. /\ \A j \in Instances : j # c => pipe'[j] = pipe[j]
      /\ \/ pipe'[c] = "listening" /\ at' = [pc |-> "insert", i |-> c]
         \/ pipe'[c] = "connected" /\ at' = [pc |-> "handle", i |-> c]
         \/ pipe'[c] = "closed" /\ at' = [pc |-> "stop", i |-> NoOne]
      /\ Used(c) => Used(c)'
  BY <1>1, <1>3 DEF Shape, KernelShape, Used
<1>5. Served'
  <2>1. ASSUME NEW j \in Instances
        PROVE  /\ j < created => Used(j)'
               /\ j > created => pipe'[j] = "none"
               /\ pipe'[j] = "none" => j > created
               /\ session[j] # "none" => Used(j)'
    <3>1. j \in Nat
      BY Numbers
    <3>2. CASE j = c
      BY <1>1, <1>2, <1>4, <3>1, <3>2
    <3>3. CASE j # c
      BY <1>1, <1>4, <3>3 DEF Served, Used
    <3> QED
      BY <3>2, <3>3
  <2>2. ASSUME NEW j \in Instances
        PROVE  /\ pipe'[j] # "created"
               /\ pipe'[j] = "disconnected" => session_ > 1 \/ session[j] = "ended"
    <3>1. CASE j = c
      BY <1>4, <3>1
    <3>2. CASE j # c
      <4>1. pipe'[j] = pipe[j] /\ at.i # j
        BY <1>2, <1>4, <3>2
      <4> QED
        BY <1>1, <4>1 DEF Served
    <3> QED
      BY <3>1, <3>2
  <2> QED
    BY <1>1, <1>3, <2>1, <2>2 DEF Served
<1>6. WorkerPlaced'
  BY <1>2, <1>3, <1>4 DEF WorkerPlaced, Used
<1>7. WorkerAccepts /\ ~PortAccepts /\ ~PipeAccepts
  BY <1>1, <1>2 DEF WorkerAccepts, OneHolder
<1>8. PortPlaced'
  <2>1. ASSUME NEW f \in ToSet(port) PROVE Placed(f)'
    <3>1. Placed(f) /\ Slot(f) # NoOne
      BY <1>1, <1>7 DEF PortPlaced, PortAccepts
    <3>2. f.kind # "connect"
      BY <3>1 DEF Slot
    <3>3. at'.pc # "read"
      BY <1>4
    <3> QED
      BY <1>3, <3>1, <3>2, <3>3 DEF Placed
  <2> QED
    BY <1>1, <1>3, <2>1 DEF PortPlaced
<1>9. ~PortAccepts' /\ ~PipeAccepts'
  <2>1. ASSUME NEW j \in Instances, pipe'[j] = "listening", at'.i # j PROVE FALSE
    BY <1>2, <1>4, <1>7, <2>1 DEF PipeAccepts
  <2> QED
    BY <1>3, <1>7, <2>1 DEF PortAccepts, PipeAccepts
<1>10. LastUnused'
  <2>1. ASSUME created = MaxClients + 1
        PROVE  pipe'[c] = "listening" /\ at'.pc = "insert"
    BY <1>1, <1>2, <1>3, <1>4, <2>1 DEF LastUnused
  <2> QED
    BY <1>2, <1>3, <1>9, <2>1 DEF LastUnused, PortAccepts
<1>11. Opened'
  <2>1. acceptor_ = "open" /\ session_ >= 1 /\ owner # "setup"
    BY <1>1, <1>2 DEF Opened
  <2>2. /\ accepted'[c] = session_
        /\ \A j \in Instances : j # c => accepted'[j] = accepted[j]
    BY <1>1, <1>3 DEF Shape, CountShape
  <2>3. \A j \in Instances : accepted'[j] <= session_
    BY <1>1, <2>2 DEF Opened
  <2>4. ASSUME NEW j \in 1..created PROVE accepted'[j] >= 1
    <3>1. j \in Instances
      BY <1>1, Numbers DEF Shape, WorkerShape
    <3> QED
      BY <1>1, <1>2, <2>1, <2>2, <3>1 DEF Opened
  <2>5. at'.pc # "clear"
    BY <1>4
  <2> QED
    BY <1>1, <1>3, <2>1, <2>3, <2>4, <2>5 DEF Opened
<1> QED
  BY <1>5, <1>6, <1>8, <1>9, <1>10, <1>11 DEF Accepts, OneHolder

\* The steps from the insertion to the end of be_server(), and the comparison of
\* the sessions.
LEMMA WaitingKeeps ==
    ASSUME Inv,
           Insert \/ BeServer \/ (Check /\ UNCHANGED <<acceptVars, port, kernelVars>>)
    PROVE  Accepts'
<1>1. /\ created \in Nat /\ session_ \in Nat /\ port \in Seq(Entries)
      /\ Opened /\ Served /\ WorkerPlaced /\ PortPlaced /\ OneHolder /\ LastUnused /\ Shape
  BY PipeServerAssumption DEF Inv, Accepts, Shape, WorkerShape, CountShape
<1>2. UNCHANGED <<owner, acceptor_, session_, port, created, pipe, accepted, reading, session>>
  BY DEF Insert, BeServer, Check, kernelVars, readVars, acceptVars
<1>3. \/ at.pc = "insert" /\ at' = [pc |-> "bind", i |-> at.i] /\ bound' = bound
      \/ at.pc = "bind" /\ at' = [pc |-> "idle", i |-> NoOne]
      \/ at.pc = "check" /\ at' = [pc |-> "handle", i |-> at.i] /\ bound' = bound
      \/ at.pc = "check" /\ at' = [pc |-> "idle", i |-> NoOne] /\ bound' = bound
  <2>1. CASE Insert
    BY <2>1 DEF Insert, Goto
  <2>2. CASE BeServer
    BY <2>2 DEF BeServer, Idle
  <2>3. CASE Check /\ UNCHANGED <<acceptVars, port, kernelVars>>
    BY <2>3 DEF Check, Goto, Idle
  <2> QED
    BY <2>1, <2>2, <2>3
<1>4. Served'
  <2>1. \A j \in Instances : pipe[j] # "created"
    BY <1>1, <1>3 DEF Served
  <2> QED
    BY <1>1, <1>2, <2>1 DEF Served, Used
<1>5. WorkerPlaced'
  BY <1>1, <1>2, <1>3 DEF WorkerPlaced, Used
<1>6. WorkerAccepts /\ ~PortAccepts /\ ~PipeAccepts
  BY <1>1, <1>3 DEF WorkerAccepts, OneHolder
<1>7. PortPlaced'
  <2>1. at'.pc # "read"
    BY <1>3
  <2> QED
    BY <1>1, <1>2, <2>1 DEF PortPlaced, Placed, Used
<1>8. OneHolder'
  <2>1. ~PortAccepts'
    BY <1>2, <1>6 DEF PortAccepts
  <2>2. CASE at'.pc = "idle"
    BY <2>1, <2>2 DEF OneHolder, WorkerAccepts
  <2>3. CASE at'.i = at.i
    BY <1>2, <1>6, <2>1, <2>3 DEF OneHolder, PipeAccepts
  <2> QED
    BY <1>3, <2>2, <2>3
<1>9. LastUnused'
  BY <1>1, <1>2, <1>3 DEF LastUnused
<1>10. Opened'
  <2>1. at.pc # "connect" /\ at'.pc # "clear" /\ owner # "setup"
    BY <1>1, <1>3 DEF Opened, Idle
  <2> QED
    BY <1>1, <1>2, <2>1 DEF Opened
<1> QED
  BY <1>4, <1>5, <1>7, <1>8, <1>9, <1>10 DEF Accepts

\* The comparison of the sessions, when the callback holds the acceptor for the
\* last time.
LEMMA DestroyingKeeps ==
    ASSUME Inv, Check, ~UNCHANGED <<acceptVars, port, kernelVars>>
    PROVE  Accepts'
<1>1. /\ CloseAll /\ session_' = session_ + 1 /\ at.pc = "check" /\ at' = Idle
      /\ UNCHANGED <<owner, acceptor_, created, bound, accepted, reading, session>>
  BY DEF Check, Destroyed, readVars
<1>2. session_ \in Nat /\ Opened
  BY DEF Inv, Accepts, Shape, CountShape
<1>3. created > 0 => session_' >= 2
  <2>1. created > 0 => session_ >= 1
    <3>1. created \in Nat
      BY PipeServerAssumption DEF Inv, Shape, WorkerShape
    <3> QED
      BY <1>2, <3>1 DEF Opened
  <2> QED
    BY <1>1, <1>2, <2>1
<1> QED
  BY <1>1, <1>3, ClosingKeeps

LEMMA ConnectedKeeps == ASSUME Inv, Connected PROVE Accepts'
<1>1. /\ created \in Nat /\ session_ \in Nat
      /\ Opened /\ Served /\ WorkerPlaced /\ PortPlaced /\ OneHolder /\ LastUnused /\ Shape
  BY PipeServerAssumption DEF Inv, Accepts, Shape, WorkerShape, CountShape
<1>2. Next1("connect") /\ port' = Tail(port)
  BY DEF Connected
<1>3. PICK e \in Entries : /\ e = Head(port) /\ e.kind = "connect" /\ Placed(e)
                           /\ e \in ToSet(port) /\ Slot(e) = NoOne
  BY <1>2, TakenAccept
<1>4. /\ Distinct(port') /\ ToSet(port') \subseteq ToSet(port)
      /\ \A f \in ToSet(port') : /\ f.kind \in {"header", "body"} /\ f.i \in Instances
                                 /\ Slot(f) # NoOne
      /\ at.pc = "idle" /\ at.i = NoOne /\ owner # "setup"
  BY <1>2, TakenAccept
<1>5. PICK c \in Instances : /\ c = e.i /\ c = created /\ created > 0 /\ session[c] = "none"
                             /\ Used(c)
  <2>1. e.i = created /\ created > 0 /\ session[e.i] = "none" /\ Used(e.i)
    BY <1>3 DEF Placed
  <2>2. e.i \in Instances
    BY <1>1, <2>1, Numbers DEF Shape, WorkerShape
  <2> QED
    BY <2>1, <2>2
<1>6. /\ UNCHANGED <<owner, acceptor_, session_, created, pipe, bound, accepted, reading, session>>
      /\ \/ e.ok /\ at' = [pc |-> "check", i |-> c]
         \/ ~e.ok /\ at' = [pc |-> "stop", i |-> NoOne]
  BY <1>3, <1>5 DEF Connected, Goto, kernelVars, readVars
<1>7. \A j \in Instances : pipe[j] \notin {"created", "listening"}
  BY <1>5, Newest DEF Used
<1>8. Served'
  BY <1>1, <1>6, <1>7 DEF Served, Used
<1>9. WorkerPlaced'
  BY <1>5, <1>6 DEF WorkerPlaced, Used
<1>10. PortPlaced'
  <2>1. at'.pc # "read"
    BY <1>6
  <2> QED
    BY <1>1, <1>4, <1>6, <2>1 DEF PortPlaced, Placed
<1>11. ~PortAccepts' /\ ~PipeAccepts'
  BY <1>4, <1>6, <1>7 DEF PortAccepts, PipeAccepts
<1>12. LastUnused'
  BY <1>1, <1>3, <1>4, <1>6 DEF LastUnused
<1>13. Opened'
  BY <1>1, <1>4, <1>6 DEF Opened
<1> QED
  BY <1>8, <1>9, <1>10, <1>11, <1>12, <1>13 DEF Accepts, OneHolder

LEMMA HandleAcceptKeeps == ASSUME Inv, HandleAccept PROVE Accepts'
<1>1. /\ created \in Nat /\ session_ \in Nat /\ port \in Seq(Entries)
      /\ Opened /\ Served /\ WorkerPlaced /\ PortPlaced /\ OneHolder /\ LastUnused /\ Shape
  BY PipeServerAssumption DEF Inv, Accepts, Shape, WorkerShape, CountShape
<1>2. UNCHANGED <<owner, acceptor_, session_, created, pipe, bound, accepted, reading>>
  BY DEF HandleAccept, acceptVars, kernelVars
<1>3. CASE owner = "released"
  <2>1. /\ UNCHANGED <<port, at, session>>
        /\ owner' = "stopping" => owner = "stopping"
    BY <1>2, <1>3 DEF HandleAccept
  <2> QED
    BY <1>2, <2>1, QuietKeeps
<1>4. CASE owner # "released"
  <2>1. PICK c \in Instances : /\ c = at.i /\ c = created /\ created > 0 /\ at.pc = "handle"
                               /\ session[c] = "none" /\ Used(c)
    <3>1. /\ at.pc = "handle" /\ at.i = created /\ created > 0 /\ session[at.i] = "none"
          /\ Used(at.i)
      BY <1>1 DEF HandleAccept, WorkerPlaced
    <3>2. at.i \in Instances
      BY <1>1, <3>1, Numbers DEF Shape, WorkerShape
    <3> QED
      BY <3>1, <3>2
  <2>2. PICK e \in Entries : e = [kind |-> "accept", i |-> NoOne, ok |-> TRUE]
    BY EntryMade
  <2>3. /\ port' = Append(port, e) /\ session' = [session EXCEPT ![c] = "live"]
        /\ at' = [pc |-> "read", i |-> c]
    BY <1>4, <2>1, <2>2 DEF HandleAccept, Goto
  <2>4. ~PortAccepts
    BY <1>1, <2>1 DEF OneHolder, WorkerAccepts
  <2>5. Slot(e) = NoOne /\ e.kind = "accept" /\ \A f \in ToSet(port) : Slot(f) # Slot(e)
    BY <2>2, <2>4 DEF Slot, PortAccepts
  <2>6. Distinct(port') /\ ToSet(port') = ToSet(port) \cup {e}
    BY <1>1, <2>3, <2>5, Posted
  <2>7. /\ session'[c] = "live" /\ reading[c] = "no"
        /\ \A j \in Instances : j # c => session'[j] = session[j]
    BY <1>1, <2>1, <2>3 DEF Shape, KernelShape, Served
  <2>8. ASSUME NEW f \in ToSet(port) PROVE Placed(f)'
    <3>1. /\ Placed(f) /\ f.kind \in {"header", "body"}
      <4>1. f \in Entries
        BY <1>1, ElementsInside
      <4>2. Slot(f) # NoOne
        BY <2>4 DEF PortAccepts
      <4> QED
        BY <1>1, <4>1, <4>2, EntryShape DEF PortPlaced, Slot
    <3>2. f.i \in Instances /\ session[f.i] = "live" /\ reading[f.i] = "no" /\ f.i # c
      BY <2>1, <3>1 DEF Placed
    <3> QED
      BY <1>2, <2>3, <2>7, <3>1, <3>2 DEF Placed
  <2>9. PortPlaced'
    <3>1. Placed(e)'
      BY <2>5 DEF Placed
    <3> QED
      BY <2>6, <2>8, <3>1 DEF PortPlaced
  <2>10. \A j \in Instances : pipe[j] \notin {"created", "listening"}
    BY <2>1, Newest DEF Used
  <2>11. Served'
    <3>1. ASSUME NEW j \in Instances
          PROVE  /\ session'[j] # "none" => Used(j)
                 /\ reading[j] # "no" => session'[j] = "live"
                 /\ pipe[j] = "disconnected" => session_ > 1 \/ session'[j] = "ended"
      BY <1>1, <2>1, <2>7 DEF Served
    <3> QED
      BY <1>1, <1>2, <2>10, <3>1 DEF Served, Used
  <2>12. WorkerPlaced'
    BY <1>2, <2>3, <2>7 DEF WorkerPlaced
  <2>13. OneHolder'
    BY <1>2, <2>3, <2>10 DEF OneHolder, WorkerAccepts, PipeAccepts
  <2>14. LastUnused'
    BY <1>1, <1>2, <2>1 DEF LastUnused
  <2>15. Opened'
    <3>1. owner # "setup"
      BY <1>1, <2>1 DEF Opened, Idle
    <3> QED
      BY <1>1, <1>2, <2>1, <2>3, <3>1 DEF Opened
  <2> QED
    BY <2>9, <2>11, <2>12, <2>13, <2>14, <2>15 DEF Accepts
<1> QED
  BY <1>3, <1>4

LEMMA StoppingKeeps == ASSUME Inv, WorkerStop \/ WorkerClear PROVE Accepts'
<1>1. /\ created \in Nat /\ session_ \in Nat /\ port \in Seq(Entries)
      /\ Opened /\ Served /\ WorkerPlaced /\ PortPlaced /\ OneHolder /\ LastUnused /\ Shape
  BY PipeServerAssumption DEF Inv, Accepts, Shape, WorkerShape, CountShape
<1>2. CASE WorkerClear
  <2>1. /\ CloseAll /\ at.pc = "clear" /\ at' = Idle /\ owner' = owner
        /\ session_' = session_ \/ session_' = session_ + 1
        /\ UNCHANGED <<acceptor_, created, bound, accepted, reading, session>>
    BY <1>2 DEF WorkerClear, readVars
  <2>2. created > 0 => session_' >= 2
    BY <1>1, <2>1 DEF Opened
  <2> QED
    BY <2>1, <2>2, ClosingKeeps
<1>3. CASE WorkerStop /\ owner = "released"
  <2>1. /\ UNCHANGED <<owner, acceptor_, session_, port, at, created, pipe, bound, accepted,
                       reading, session>>
        /\ owner' = "stopping" => owner = "stopping"
    BY <1>3 DEF WorkerStop, kernelVars, readVars
  <2> QED
    BY <2>1, QuietKeeps
<1>4. CASE WorkerStop /\ owner # "released"
  <2>1. /\ UNCHANGED <<owner, acceptor_, port, created, pipe, bound, accepted, reading, session>>
        /\ at.pc = "stop" /\ at' = [pc |-> "clear", i |-> NoOne] /\ session_' = session_ + 1
    BY <1>4 DEF WorkerStop, Goto, kernelVars, readVars
  <2>2. at.i = NoOne /\ owner # "setup" /\ WorkerAccepts
    BY <1>1, <2>1 DEF WorkerPlaced, Opened, Idle, WorkerAccepts
  <2>3. Served'
    <3>1. \A j \in Instances : pipe[j] # "created"
      BY <1>1, <2>1 DEF Served
    <3> QED
      BY <1>1, <2>1, <3>1 DEF Served, Used
  <2>4. WorkerPlaced'
    BY <2>1 DEF WorkerPlaced
  <2>5. PortPlaced'
    BY <1>1, <2>1 DEF PortPlaced, Placed, Used
  <2>6. OneHolder'
    BY <1>1, <2>1, <2>2 DEF OneHolder, PortAccepts, PipeAccepts, WorkerAccepts
  <2>7. LastUnused'
    BY <1>1, <2>1 DEF LastUnused
  <2>8. Opened'
    <3>1. \A j \in Instances : accepted[j] \in Nat /\ accepted[j] <= session_
      BY <1>1 DEF Opened, Shape, CountShape
    <3>2. \A j \in Instances : accepted[j] <= session_ + 1
      BY <1>1, <3>1
    <3>3. \A j \in 1..created : accepted[j] >= 1
      BY <1>1, <2>1 DEF Opened
    <3>4. acceptor_ = "open" => session_ + 1 >= 2 /\ session_ + 1 >= 1
      BY <1>1 DEF Opened
    <3> QED
      BY <1>1, <2>1, <2>2, <3>2, <3>3, <3>4 DEF Opened
  <2> QED
    BY <2>3, <2>4, <2>5, <2>6, <2>7, <2>8 DEF Accepts
<1> QED
  BY <1>2, <1>3, <1>4

LEMMA AsyncReadKeeps == ASSUME Inv, AsyncRead PROVE Accepts'
<1>1. /\ created \in Nat /\ session_ \in Nat /\ port \in Seq(Entries)
      /\ Opened /\ Served /\ WorkerPlaced /\ PortPlaced /\ OneHolder /\ LastUnused /\ Shape
  BY PipeServerAssumption DEF Inv, Accepts, Shape, WorkerShape, CountShape
<1>2. /\ UNCHANGED <<owner, acceptor_, session_, port, created, pipe, bound, accepted>>
      /\ at.pc = "read"
  BY DEF AsyncRead, acceptVars, kernelVars
<1>3. CASE UNCHANGED <<reading, session, at>>
  <2>1. owner' = "stopping" => owner = "stopping"
    BY <1>2
  <2> QED
    BY <1>2, <1>3, <2>1, QuietKeeps
<1>4. CASE ~UNCHANGED <<reading, session, at>>
  <2>1. PICK c \in Instances : /\ c = at.i /\ session[c] = "live" /\ reading[c] = "no"
                               /\ Used(c)
    BY <1>1, <1>2 DEF WorkerPlaced, Served
  <2>2. /\ at' = [pc |-> "idle", i |-> NoOne]
        /\ \/ reading' = [reading EXCEPT ![c] = "header"] /\ session' = session
           \/ reading' = reading /\ session' = [session EXCEPT ![c] = "ended"]
    BY <1>4, <2>1 DEF AsyncRead, Idle
  <2>3. /\ \A j \in Instances : j # c => reading'[j] = reading[j] /\ session'[j] = session[j]
        /\ reading'[c] # "no" => session'[c] = "live"
        /\ session'[c] # "none"
    BY <1>1, <2>1, <2>2 DEF Shape, KernelShape
  <2>4. Served'
    <3>1. ASSUME NEW j \in Instances
          PROVE  /\ session'[j] # "none" => Used(j)
                 /\ reading'[j] # "no" => session'[j] = "live"
                 /\ pipe[j] = "disconnected" => session_ > 1 \/ session'[j] = "ended"
                 /\ pipe[j] # "created"
      BY <1>1, <1>2, <2>1, <2>3 DEF Served
    <3> QED
      BY <1>1, <1>2, <3>1 DEF Served, Used
  <2>5. WorkerPlaced'
    BY <2>2 DEF WorkerPlaced
  <2>6. ASSUME NEW f \in ToSet(port) PROVE Placed(f)'
    <3>1. Placed(f) /\ at = [pc |-> "read", i |-> c]
      BY <1>1, <1>2, <2>1 DEF PortPlaced, Shape, WorkerShape
    <3>2. f.kind \in {"header", "body"} => f.i \in Instances /\ f.i # c
      BY <3>1 DEF Placed
    <3>3. f.kind = "connect" => f.i \in Instances /\ f.i # c
      BY <1>1, <2>1, <3>1, Numbers DEF Placed, Shape, WorkerShape
    <3> QED
      BY <1>2, <2>2, <2>3, <3>1, <3>2, <3>3 DEF Placed, Used
  <2>7. PortPlaced'
    BY <1>1, <1>2, <2>6 DEF PortPlaced
  <2>8. OneHolder'
    <3>1. PipeAccepts' => PipeAccepts
      <4>1. ASSUME NEW j \in Instances, pipe[j] = "listening" PROVE at.i # j
        BY <2>1, <4>1 DEF Used
      <4> QED
        BY <1>2, <4>1 DEF PipeAccepts
    <3>2. ~WorkerAccepts'
      BY <2>2 DEF WorkerAccepts
    <3> QED
      BY <1>1, <1>2, <3>1, <3>2 DEF OneHolder, PortAccepts
  <2>9. LastUnused' /\ Opened'
    BY <1>1, <1>2, <2>2 DEF LastUnused, Opened, Idle
  <2> QED
    BY <2>4, <2>5, <2>7, <2>8, <2>9 DEF Accepts
<1> QED
  BY <1>3, <1>4

LEMMA ReadKeeps == ASSUME Inv, HandleReadHeader \/ HandleReadBody PROVE Accepts'
<1>1. /\ created \in Nat /\ session_ \in Nat /\ port \in Seq(Entries)
      /\ Opened /\ Served /\ WorkerPlaced /\ PortPlaced /\ OneHolder /\ LastUnused /\ Shape
  BY PipeServerAssumption DEF Inv, Accepts, Shape, WorkerShape, CountShape
<1>2. PICK e \in Entries :
        /\ e \in ToSet(port) /\ ToSet(port') = ToSet(port) \ {e} /\ Distinct(port')
        /\ e.kind \in {"header", "body"} /\ e.i \in Instances
        /\ at = [pc |-> "idle", i |-> NoOne]
        /\ UNCHANGED <<owner, acceptor_, session_, created, bound, accepted>>
        /\ \/ reading' = [reading EXCEPT ![e.i] = "body"] /\ UNCHANGED <<at, session, pipe>>
           \/ at' = [pc |-> "read", i |-> e.i] /\ UNCHANGED <<reading, session, pipe>>
           \/ /\ session' = [session EXCEPT ![e.i] = "ended"] /\ UNCHANGED <<at, reading>>
              /\ pipe' = [pipe EXCEPT ![e.i] = "disconnected"]
  BY ReadFacts
<1>3. PICK c \in Instances : /\ c = e.i /\ session[c] = "live" /\ reading[c] = "no" /\ Used(c)
  BY <1>1, <1>2 DEF PortPlaced, Placed, Served
<1>4. /\ \A j \in Instances : j # c => reading'[j] = reading[j] /\ session'[j] = session[j]
      /\ reading'[c] # "no" => session'[c] = "live"
      /\ session'[c] # "none"
      /\ at'.pc = "read" => at'.i = c /\ session'[c] = "live" /\ reading'[c] = "no"
      /\ at' = at \/ at' = [pc |-> "read", i |-> c]
      /\ \A j \in Instances : j # c => pipe'[j] = pipe[j]
      /\ pipe'[c] = pipe[c] \/ (pipe'[c] = "disconnected" /\ session'[c] = "ended")
  BY <1>1, <1>2, <1>3 DEF Shape, KernelShape
<1>5. \A j \in Instances : /\ Used(j) => Used(j)'
                           /\ ~Used(j) => pipe'[j] = pipe[j]
  BY <1>3, <1>4 DEF Used
<1>6. ASSUME NEW f \in ToSet(port')
      PROVE  /\ f \in ToSet(port) /\ Placed(f)
             /\ f.kind \in {"connect", "header", "body"} => f.i \in Instances /\ f.i # c
  <2>1. f \in ToSet(port) /\ f # e /\ Placed(f)
    BY <1>1, <1>2 DEF PortPlaced
  <2>2. CASE f.kind = "connect"
    BY <1>1, <1>3, <2>1, <2>2, Numbers DEF Placed, Shape, WorkerShape
  <2>3. CASE f.kind \in {"header", "body"}
    <3>1. Slot(f) # Slot(e)
      BY <1>1, <1>2, <2>1 DEF PortPlaced, Distinct
    <3> QED
      BY <1>2, <1>3, <2>1, <2>3, <3>1 DEF Slot, Placed
  <2> QED
    BY <2>1, <2>2, <2>3
<1>7. PortPlaced'
  <2>1. ASSUME NEW f \in ToSet(port') PROVE Placed(f)'
    <3>1. /\ Placed(f)
          /\ f.kind \in {"connect", "header", "body"} => f.i \in Instances /\ f.i # c
      BY <1>6
    <3>2. f.kind \in {"header", "body"} => at' # [pc |-> "read", i |-> f.i]
      BY <1>4, <3>1 DEF Placed
    <3>3. f.kind = "connect" => Used(f.i)'
      BY <1>5, <3>1 DEF Placed
    <3> QED
      BY <1>2, <1>4, <3>1, <3>2, <3>3 DEF Placed
  <2> QED
    BY <1>2, <2>1 DEF PortPlaced
<1>8. Served'
  <2>1. ASSUME NEW j \in Instances
        PROVE  /\ session'[j] # "none" => Used(j)'
               /\ reading'[j] # "no" => session'[j] = "live"
               /\ pipe'[j] # "created"
               /\ j < created => Used(j)'
               /\ j > created => pipe'[j] = "none"
               /\ pipe'[j] = "none" => j > created
               /\ pipe'[j] = "disconnected" => session_ > 1 \/ session'[j] = "ended"
    <3>1. CASE j = c
      <4>1. Used(j)' /\ pipe'[j] # "none" /\ pipe'[j] # "created"
        BY <1>3, <1>5, <3>1 DEF Used
      <4>2. ~(j > created)
        BY <1>1, <1>3, <3>1 DEF Served, Used
      <4>3. pipe[j] = "disconnected" => session_ > 1
        BY <1>1, <1>3, <3>1 DEF Served
      <4> QED
        BY <1>4, <3>1, <4>1, <4>2, <4>3
    <3>2. CASE j # c
      <4>1. /\ session[j] # "none" \/ j < created => Used(j)
            /\ reading[j] # "no" => session[j] = "live"
            /\ pipe[j] # "created"
            /\ pipe[j] = "none" <=> j > created
            /\ pipe[j] = "disconnected" => session_ > 1 \/ session[j] = "ended"
        BY <1>1, <1>2 DEF Served
      <4>2. session[j] # "none" \/ j < created => Used(j)'
        BY <1>5, <4>1
      <4> QED
        BY <1>4, <3>2, <4>1, <4>2
    <3> QED
      BY <3>1, <3>2
  <2> QED
    BY <1>2, <2>1 DEF Served
<1>9. WorkerPlaced'
  <2>1. (at'.pc = "idle" /\ at'.i = NoOne) \/ at'.pc = "read"
    BY <1>2, <1>4
  <2> QED
    BY <1>4, <2>1 DEF WorkerPlaced
<1>10. OneHolder'
  <2>1. PortAccepts' => PortAccepts
    BY <1>6 DEF PortAccepts
  <2>2. PipeAccepts' => PipeAccepts
    <3>1. \A j \in Instances : pipe'[j] = "listening" => pipe[j] = "listening" /\ at.i # j
      BY <1>2, <1>3, <1>4, Numbers
    <3> QED
      BY <3>1 DEF PipeAccepts
  <2>3. ~WorkerAccepts'
    BY <1>2, <1>4 DEF WorkerAccepts
  <2> QED
    BY <1>1, <2>1, <2>2, <2>3 DEF OneHolder
<1>11. LastUnused'
  <2>1. created = MaxClients + 1 =>
          pipe'[created] \in {"created", "listening", "disconnected"}
    BY <1>1, <1>4, Numbers DEF LastUnused
  <2> QED
    BY <1>1, <1>2, <1>4, <1>6, <2>1 DEF LastUnused
<1>12. Opened'
  <2>1. owner # "setup"
    BY <1>1, <1>2, EmptyFacts DEF Opened
  <2> QED
    BY <1>1, <1>2, <1>4, <2>1 DEF Opened
<1> QED
  BY <1>7, <1>8, <1>9, <1>10, <1>11, <1>12 DEF Accepts

\* The part about accepting, and with it the shape, is inductive.
LEMMA InvStep == Inv /\ [Next]_vars => Inv'
<1>1. ASSUME Inv, UNCHANGED vars PROVE Accepts'
  <2>1. /\ UNCHANGED <<owner, acceptor_, session_, port, at, created, pipe, bound, accepted,
                       reading, session>>
        /\ owner' = "stopping" => owner = "stopping"
    BY <1>1 DEF vars, acceptVars, kernelVars, readVars
  <2> QED
    BY <1>1, <2>1, QuietKeeps
<1>2. ASSUME Inv, Next PROVE Accepts'
  BY <1>2, OwnerKeeps, OpenKeeps, OthersKeep, DoAcceptKeeps, ConnectKeeps, WaitingKeeps,
     DestroyingKeeps, ConnectedKeeps, HandleAcceptKeeps, StoppingKeeps, AsyncReadKeeps, ReadKeeps
     DEF Next, Worker
<1> QED
  BY <1>1, <1>2, ShapeStep DEF Inv

LEMMA InvInit == Init => Inv
<1> SUFFICES ASSUME Init PROVE Inv
  OBVIOUS
<1>1. port = <<>> /\ created = 0 /\ at.pc = "idle" /\ at.i = NoOne
  BY DEF Init, Idle
<1>2. IsInjective(port) /\ ToSet(port) = {} /\ port \in Seq(Entries)
  BY <1>1, EmptyFacts
<1>3. \A j \in Instances : /\ pipe[j] = "none" /\ session[j] = "none" /\ reading[j] = "no"
                           /\ accepted[j] = 0 /\ j > created /\ ~(j < created)
  BY <1>1, Numbers DEF Init, All
<1>4. OwnerShape
  BY <1>1 DEF Init, OwnerShape
<1>5. WorkerShape
  BY <1>1, <1>2, PipeServerAssumption DEF Init, WorkerShape, Idle
<1>6. KernelShape /\ CountShape
  BY PipeServerAssumption DEF Init, All, KernelShape, CountShape
<1>7. Opened
  BY <1>1, <1>3 DEF Init, Opened
<1>8. Served
  BY <1>3 DEF Served
<1>9. WorkerPlaced /\ PortPlaced
  BY <1>1, <1>2 DEF WorkerPlaced, PortPlaced, Distinct
<1>10. OneHolder
  BY <1>2, <1>3 DEF OneHolder, PortAccepts, PipeAccepts
<1>11. LastUnused
  BY <1>1, PipeServerAssumption DEF LastUnused
<1> QED
  BY <1>4, <1>5, <1>6, <1>7, <1>8, <1>9, <1>10, <1>11 DEF Inv, Shape, Accepts

-----------------------------------------------------------------------------
(* close() reaches every session.                                          *)

\* The steps that leave the instances' state as close() finds it, or give less
\* to find.
LEMMA ClosableQuiet ==
    ASSUME Closable, bound' = bound, pendings_ \subseteq pendings_',
           \A i \in bound : pipe'[i] = "connected" => pipe[i] = "connected",
           \A i \in bound : session'[i] = "live" => session[i] = "live",
           at' = at \/ at'.pc \notin {"check", "handle"} \/ at'.i \notin bound \/ at'.i \in pendings_'
    PROVE  Closable'
BY DEF Closable

LEMMA ClosableStep == Inv /\ Closable /\ [Next]_vars => Closable'
<1> SUFFICES ASSUME Inv, Closable, [Next]_vars PROVE Closable'
  OBVIOUS
<1>1. /\ bound \subseteq Instances /\ bound \subseteq 1..created
      /\ Opened /\ Served /\ WorkerPlaced /\ PortPlaced /\ Shape
  <2>1. bound \subseteq 1..created /\ created \in Nat /\ created <= MaxClients + 1
    BY PipeServerAssumption DEF Inv, Shape, WorkerShape
  <2>2. bound \subseteq Instances
    BY <2>1, Numbers
  <2> QED
    BY <2>1, <2>2 DEF Inv, Accepts
<1>2. CASE UNCHANGED <<bound, pipe, session, at, pendings_>>
  BY <1>2, ClosableQuiet
<1> DEFINE Kept == UNCHANGED <<acceptVars, port, kernelVars>>
<1>3. CASE OwnerClear \/ WorkerClear \/ ((OwnerRelease \/ Check) /\ ~Kept)
  <2>1. CloseAll /\ UNCHANGED <<bound, session>> /\ (at' = at \/ at' = Idle)
    BY <1>3 DEF OwnerClear, WorkerClear, OwnerRelease, Check, Destroyed, readVars
  <2>2. ASSUME NEW i \in bound, pipe'[i] = "connected"
        PROVE  i \notin pendings_ /\ pipe[i] = "connected"
    BY <1>1, <2>1, <2>2, Closing
  <2> QED
    BY <2>1, <2>2 DEF Closable, Idle
<1>4. CASE Owner /\ ~OwnerClear /\ ~(OwnerRelease /\ ~Kept)
  BY <1>2, <1>4 DEF Owner, OwnerInit, OwnerStart, OwnerStop, OwnerRelease, OwnerJoin, acceptVars,
     kernelVars, readVars
<1>5. ASSUME NEW i \in Instances, Open(i) \/ Send(i) \/ Leave(i) \/ Complete(i)
      PROVE  Closable'
  <2>1. UNCHANGED <<bound, session, at, pendings_>>
    BY <1>5 DEF Open, Send, Leave, Complete, acceptVars, readVars
  <2>2. CASE Open(i)
    <3>1. /\ session[i] = "none" /\ pipe' = [pipe EXCEPT ![i] = "connected"]
          /\ at.i = i => at.pc \notin {"check", "handle"}
      BY <1>1, <2>2, Newest DEF Open, WorkerPlaced, Used
    <3>2. \A j \in bound : j # i => pipe'[j] = pipe[j]
      BY <1>1, <3>1 DEF Shape, KernelShape
    <3> QED
      BY <2>1, <3>1, <3>2 DEF Closable
  <2>3. CASE ~Open(i)
    <3>1. pipe' = pipe \/ pipe' = [pipe EXCEPT ![i] = "broken"]
      BY <1>5, <2>3 DEF Send, Leave, Complete, kernelVars
    <3>2. \A j \in bound : pipe'[j] = "connected" => pipe[j] = "connected"
      BY <1>1, <3>1 DEF Shape, KernelShape
    <3> QED
      BY <2>1, <3>2, ClosableQuiet
  <2> QED
    BY <2>2, <2>3
<1>6. CASE DoAccept
  <2>1. /\ UNCHANGED <<bound, session, pendings_>>
        /\ at'.pc \in {"connect", "stop"}
        /\ pipe' = pipe \/ pipe' = [pipe EXCEPT ![created + 1] = "created"]
    BY <1>6 DEF DoAccept, Goto, acceptVars, readVars
  <2>2. \A j \in bound : pipe'[j] = "connected" => pipe[j] = "connected"
    BY <1>1, <2>1 DEF Shape, KernelShape
  <2> QED
    BY <2>1, <2>2, ClosableQuiet
<1>7. CASE Connect
  <2>1. /\ at.i \notin bound /\ pipe[at.i] \in {"created", "connected", "broken"}
    BY <1>1, <1>7 DEF Connect, WorkerPlaced
  <2>2. /\ UNCHANGED <<bound, session>>
        /\ \/ /\ pipe' = [pipe EXCEPT ![at.i] = "listening"] /\ pendings_' = pendings_
              /\ at' = [pc |-> "insert", i |-> at.i]
           \/ /\ pipe' = pipe /\ pendings_' = pendings_
              /\ at' = [pc |-> "handle", i |-> at.i]
           \/ /\ pipe' = [pipe EXCEPT ![at.i] = "closed"] /\ pendings_' = pendings_ \cup {at.i}
              /\ at' = [pc |-> "stop", i |-> NoOne]
    BY <1>7, <2>1 DEF Connect, Goto, readVars
  <2>3. \A j \in bound : pipe'[j] = pipe[j]
    BY <1>1, <2>1, <2>2 DEF Shape, KernelShape
  <2> QED
    BY <2>1, <2>2, <2>3, ClosableQuiet
<1>8. CASE Insert
  <2>1. UNCHANGED <<bound, session, pipe>> /\ pendings_ \subseteq pendings_' /\ at'.pc = "bind"
    BY <1>8 DEF Insert, Goto, kernelVars, readVars
  <2> QED
    BY <2>1, ClosableQuiet
<1>9. CASE BeServer
  <2>1. /\ UNCHANGED <<pendings_, session, pipe>> /\ at' = Idle
        /\ bound' = bound \cup {at.i} /\ session[at.i] = "none"
    BY <1>1, <1>9 DEF BeServer, acceptVars, kernelVars, readVars, WorkerPlaced
  <2> QED
    BY <2>1 DEF Closable, Idle
<1>10. CASE Connected
  <2>1. /\ UNCHANGED <<bound, session, pipe>> /\ pendings_' = pendings_ \cup {Head(port).i}
        /\ at'.pc = "stop" \/ at'.i = Head(port).i
    BY <1>10 DEF Connected, Goto, kernelVars, readVars
  <2> QED
    BY <2>1, ClosableQuiet
<1>11. CASE Check /\ Kept
  <2>1. /\ UNCHANGED <<bound, session, pipe, pendings_>> /\ at.pc = "check"
        /\ at' = [pc |-> "handle", i |-> at.i] \/ at' = Idle
    BY <1>11 DEF Check, Goto, acceptVars, kernelVars, readVars
  <2>2. CASE at' = Idle
    BY <2>1, <2>2, ClosableQuiet DEF Idle
  <2>3. CASE at' = [pc |-> "handle", i |-> at.i]
    BY <2>1, <2>3 DEF Closable
  <2> QED
    BY <2>1, <2>2, <2>3
<1>12. CASE HandleAccept
  <2>1. CASE owner = "released"
    BY <1>2, <1>12, <2>1 DEF HandleAccept, acceptVars, kernelVars
  <2>2. CASE owner # "released"
    <3>1. /\ UNCHANGED <<bound, pipe, pendings_>> /\ at.pc = "handle"
          /\ session' = [session EXCEPT ![at.i] = "live"] /\ at'.pc = "read"
      BY <1>12, <2>2 DEF HandleAccept, Goto, acceptVars, kernelVars
    <3>2. \A j \in bound : session'[j] = session[j] \/ j = at.i
      BY <1>1, <3>1 DEF Shape, KernelShape
    <3> QED
      BY <3>1, <3>2 DEF Closable
  <2> QED
    BY <2>1, <2>2
<1>13. CASE WorkerStop
  <2>1. UNCHANGED <<bound, session, pipe, pendings_>> /\ (at' = at \/ at'.pc = "clear")
    BY <1>13 DEF WorkerStop, Goto, kernelVars, readVars
  <2> QED
    BY <2>1, ClosableQuiet
<1>14. CASE AsyncRead
  <2>1. /\ UNCHANGED <<bound, pipe, pendings_>> /\ (at' = at \/ at' = Idle)
        /\ session' = session \/ session' = [session EXCEPT ![at.i] = "ended"]
    BY <1>14 DEF AsyncRead, acceptVars, kernelVars
  <2>2. \A j \in bound : session'[j] = "live" => session[j] = "live"
    BY <1>1, <2>1 DEF Shape, KernelShape
  <2> QED
    BY <2>1, <2>2, ClosableQuiet DEF Idle
<1>15. CASE HandleReadHeader \/ HandleReadBody
  <2>1. PICK e \in Entries :
          /\ UNCHANGED <<bound, pendings_>> /\ (at' = at \/ at'.pc = "read")
          /\ session' = session \/ session' = [session EXCEPT ![e.i] = "ended"]
          /\ pipe' = pipe \/ pipe' = [pipe EXCEPT ![e.i] = "disconnected"]
    BY <1>15, ReadFacts
  <2>2. \A j \in bound : /\ session'[j] = "live" => session[j] = "live"
                         /\ pipe'[j] = "connected" => pipe[j] = "connected"
    BY <1>1, <2>1 DEF Shape, KernelShape
  <2> QED
    BY <2>1, <2>2, ClosableQuiet
<1>16. CASE UNCHANGED vars
  BY <1>2, <1>16 DEF vars, acceptVars, kernelVars, readVars
<1> QED
  BY <1>3, <1>4, <1>5, <1>6, <1>7, <1>8, <1>9, <1>10, <1>11, <1>12, <1>13, <1>14, <1>15, <1>16
     DEF Next, Worker

\* close() reaches every session that still has its client, for any number of
\* clients, messages and stops.
THEOREM ClosableCorrect == Spec => []SessionsClosable
<1>1. Init => Closable
  BY DEF Init, Closable
<1>2. Closable => SessionsClosable
  BY DEF Closable, SessionsClosable
<1> QED
  BY <1>1, <1>2, InvInit, InvStep, ClosableStep, PTL DEF Spec

-----------------------------------------------------------------------------
(* Messages: what is in the pipe, what is under way and what was handed to *)
(* the session add up to what the client sent, until close() drops some.   *)

Book == \A i \in Instances : Balanced(i)

\* Entries of an accept do not change what is under way of the messages.
LEMMA SameReads ==
    ASSUME Inv, \A i \in Instances : reading'[i] = "body" <=> reading[i] = "body",
           \/ port' = port
           \/ \E e \in Entries : e.kind \in {"accept", "connect"} /\ port' = Append(port, e)
           \/ Next1("accept") /\ port' = Tail(port)
           \/ Next1("connect") /\ port' = Tail(port)
    PROVE  \A i \in Instances : (Half(i)' <=> Half(i)) /\ (Whole(i)' <=> Whole(i))
<1>1. port \in Seq(Entries) /\ PortPlaced /\ IsInjective(port)
  BY DEF Inv, Accepts, Shape, WorkerShape, PortPlaced, Distinct
<1>2. port' = port \/ \E e : /\ e.kind \in {"accept", "connect"}
                             /\ \/ ToSet(port') = ToSet(port) \cup {e}
                                \/ ToSet(port') = ToSet(port) \ {e}
  <2>1. ASSUME NEW e \in Entries, port' = Append(port, e)
        PROVE  ToSet(port') = ToSet(port) \cup {e}
    BY <1>1, <2>1, AppendFacts
  <2>2. ASSUME NEW k \in {"accept", "connect"}, Next1(k), port' = Tail(port)
        PROVE  \E e \in Entries : e.kind = k /\ ToSet(port') = ToSet(port) \ {e}
    BY <1>1, <2>2, Taken
  <2> QED
    BY <2>1, <2>2
<1>3. ASSUME NEW i \in Instances, NEW k \in {"header", "body"}
      PROVE  [kind |-> k, i |-> i, ok |-> TRUE] \in ToSet(port')
               <=> [kind |-> k, i |-> i, ok |-> TRUE] \in ToSet(port)
  BY <1>2
<1> SUFFICES ASSUME NEW i \in Instances
             PROVE  (Half(i)' <=> Half(i)) /\ (Whole(i)' <=> Whole(i))
  OBVIOUS
<1>4. Half(i)' <=> Half(i)
  BY <1>3 DEF Half
<1>5. Whole(i)' <=> Whole(i)
  BY <1>3 DEF Whole
<1> QED
  BY <1>4, <1>5

\* Steps that neither write nor read messages.
LEMMA BookQuiet ==
    ASSUME Book, UNCHANGED <<units, got, sent>>,
           \A i \in Instances : pipe'[i] = "disconnected" <=> pipe[i] = "disconnected",
           \A i \in Instances : (Half(i)' <=> Half(i)) /\ (Whole(i)' <=> Whole(i))
    PROVE  Book'
BY DEF Book, Balanced

LEMMA BookAccepting ==
    ASSUME Inv, Book,
           \/ DoAccept \/ Connect \/ Insert \/ BeServer \/ Connected \/ HandleAccept
           \/ WorkerStop \/ AsyncRead \/ (Check /\ ~Destroyed)
    PROVE  Book'
<1>1. UNCHANGED <<units, got, sent>>
  BY DEF DoAccept, Connect, Insert, BeServer, Connected, Check, HandleAccept, WorkerStop, AsyncRead,
     kernelVars, readVars
<1>2. Shape /\ Served /\ WorkerPlaced /\ created \in Nat
  BY PipeServerAssumption DEF Inv, Accepts, Shape, WorkerShape
<1>3. \A i \in Instances : pipe'[i] = "disconnected" <=> pipe[i] = "disconnected"
  <2>1. CASE DoAccept
    <3>1. pipe' = pipe \/ (created' = created + 1 /\ pipe' = [pipe EXCEPT ![created + 1] = "created"])
      BY <2>1 DEF DoAccept
    <3>2. \A i \in Instances : i = created + 1 => pipe[i] = "none"
      BY <1>2 DEF Served
    <3> QED
      BY <1>2, <3>1, <3>2 DEF Shape, KernelShape
  <2>2. CASE Connect
    <3>1. pipe[at.i] \in {"created", "connected", "broken"}
      BY <1>2, <2>2 DEF Connect, WorkerPlaced
    <3>2. \/ pipe' = pipe
          \/ pipe' = [pipe EXCEPT ![at.i] = "listening"]
          \/ pipe' = [pipe EXCEPT ![at.i] = "closed"]
      BY <2>2, <3>1 DEF Connect
    <3> QED
      BY <1>2, <3>1, <3>2 DEF Shape, KernelShape
  <2>3. CASE ~DoAccept /\ ~Connect
    <3>1. pipe' = pipe
      BY <2>3 DEF Insert, BeServer, Connected, Check, HandleAccept, WorkerStop, AsyncRead, kernelVars
    <3> QED
      BY <3>1
  <2> QED
    BY <2>1, <2>2, <2>3
<1>4. \A i \in Instances : reading'[i] = "body" <=> reading[i] = "body"
  <2>1. CASE AsyncRead
    <3>1. reading' = reading \/ (reading[at.i] = "no" /\ reading' = [reading EXCEPT ![at.i] = "header"])
      BY <1>2, <2>1 DEF AsyncRead, WorkerPlaced
    <3> QED
      BY <1>2, <3>1 DEF Shape, KernelShape
  <2>2. CASE ~AsyncRead
    <3>1. reading' = reading
      BY <2>2 DEF DoAccept, Connect, Insert, BeServer, Connected, Check, HandleAccept, WorkerStop,
         readVars
    <3> QED
      BY <3>1
  <2> QED
    BY <2>1, <2>2
<1>5. \/ port' = port
      \/ \E e \in Entries : e.kind \in {"accept", "connect"} /\ port' = Append(port, e)
      \/ Next1("accept") /\ port' = Tail(port)
      \/ Next1("connect") /\ port' = Tail(port)
  <2>1. CASE DoAccept
    BY <2>1 DEF DoAccept
  <2>2. CASE Connected
    BY <2>2 DEF Connected
  <2>3. CASE HandleAccept
    <3>1. PICK e \in Entries : e = [kind |-> "accept", i |-> NoOne, ok |-> TRUE]
      BY EntryMade
    <3>2. e.kind = "accept" /\ (port' = port \/ port' = Append(port, e))
      BY <2>3, <3>1 DEF HandleAccept
    <3> QED
      BY <3>2
  <2>4. CASE \/ Connect \/ Insert \/ BeServer \/ WorkerStop \/ AsyncRead
             \/ (Check /\ ~Destroyed)
    BY <2>4 DEF Connect, Insert, BeServer, Check, WorkerStop, AsyncRead, acceptVars
  <2> QED
    BY <2>1, <2>2, <2>3, <2>4
<1> QED
  BY <1>1, <1>3, <1>4, <1>5, SameReads, BookQuiet

LEMMA BookOwner ==
    ASSUME Inv, Book, Owner \/ WorkerClear \/ (Check /\ Destroyed)
    PROVE  Book'
<1>1. reading' = reading /\ UNCHANGED <<got, sent>>
  BY DEF Owner, OwnerInit, OwnerStart, OwnerStop, OwnerClear, OwnerRelease, OwnerJoin, WorkerClear,
     Check, readVars
<1>2. CASE CloseAll
  <2>1. Shape /\ Served
    BY DEF Inv, Accepts
  <2>2. port' = port \/ \E e \in Entries : e.kind = "connect" /\ port' = Append(port, e)
    <3>1. CASE port' = port
      BY <3>1
    <3>2. CASE /\ created \in Instances
               /\ port' = Append(port, [kind |-> "connect", i |-> created, ok |-> FALSE])
      <4>1. PICK e \in Entries : e = [kind |-> "connect", i |-> created, ok |-> FALSE]
        BY <3>2, EntryMade
      <4>2. e.kind = "connect" /\ port' = Append(port, e)
        BY <3>2, <4>1
      <4> QED
        BY <4>2
    <3> QED
      BY <1>2, <2>1, <3>1, <3>2, Closing
  <2>3. \A i \in Instances : (Half(i)' <=> Half(i)) /\ (Whole(i)' <=> Whole(i))
    BY <1>1, <2>2, SameReads
  <2>4. ASSUME NEW i \in Instances PROVE Balanced(i)'
    <3>1. Balanced(i) /\ units[i] \in Nat /\ got[i] \in Nat /\ sent[i] \in Nat
      BY <2>1, PipeServerAssumption DEF Book, Shape, CountShape
    <3>2. \/ pipe'[i] = "disconnected" /\ units'[i] = 0
          \/ pipe'[i] = pipe[i] /\ units'[i] = units[i]
      BY <1>2, <2>1, Closing
    <3>3. CASE pipe'[i] = pipe[i] /\ units'[i] = units[i]
      BY <1>1, <2>3, <3>1, <3>3 DEF Balanced
    <3>4. CASE pipe'[i] = "disconnected" /\ units'[i] = 0
      <4>1. got[i] <= sent[i] /\ (Half(i) \/ Whole(i) => got[i] < sent[i])
        BY <3>1 DEF Balanced
      <4> QED
        BY <1>1, <2>3, <3>4, <4>1 DEF Balanced
    <3> QED
      BY <3>2, <3>3, <3>4
  <2> QED
    BY <2>4 DEF Book
<1>3. CASE ~CloseAll
  <2>1. units' = units /\ pipe' = pipe
    BY <1>3 DEF Owner, OwnerInit, OwnerStart, OwnerStop, OwnerClear, OwnerRelease, OwnerJoin,
       WorkerClear, Destroyed, kernelVars
  <2>2. port' = port \/ \E e \in Entries : e.kind = "accept" /\ port' = Append(port, e)
    <3>1. PICK e \in Entries : e = [kind |-> "accept", i |-> NoOne, ok |-> TRUE]
      BY EntryMade
    <3>2. e.kind = "accept" /\ (port' = port \/ port' = Append(port, e))
      BY <1>3, <3>1 DEF Owner, OwnerInit, OwnerStart, OwnerStop, OwnerClear, OwnerRelease, OwnerJoin,
         WorkerClear, Destroyed, acceptVars
    <3> QED
      BY <3>2
  <2> QED
    BY <1>1, <2>1, <2>2, SameReads, BookQuiet
<1> QED
  BY <1>2, <1>3

LEMMA BookClients ==
    ASSUME Inv, Book, NEW i \in Instances, Open(i) \/ Send(i) \/ Leave(i)
    PROVE  Book'
<1>1. Shape /\ got' = got /\ reading' = reading
  BY DEF Inv, Open, Send, Leave, readVars
<1>2. port' = port \/ \E e \in Entries : e.kind = "connect" /\ port' = Append(port, e)
  <2>1. PICK e \in Entries : e = [kind |-> "connect", i |-> i, ok |-> TRUE]
    BY EntryMade
  <2>2. e.kind = "connect" /\ (port' = port \/ port' = Append(port, e))
    BY <2>1 DEF Open, Send, Leave
  <2> QED
    BY <2>2
<1>3. \A j \in Instances : (Half(j)' <=> Half(j)) /\ (Whole(j)' <=> Whole(j))
  BY <1>1, <1>2, SameReads
<1>4. CASE Open(i) \/ Leave(i)
  <2>1. /\ UNCHANGED <<units, sent>> /\ pipe[i] # "disconnected"
        /\ pipe' = [pipe EXCEPT ![i] = "connected"] \/ pipe' = [pipe EXCEPT ![i] = "broken"]
    BY <1>4 DEF Open, Leave
  <2>2. \A j \in Instances : pipe'[j] = "disconnected" <=> pipe[j] = "disconnected"
    BY <1>1, <2>1 DEF Shape, KernelShape
  <2> QED
    BY <1>1, <1>3, <2>1, <2>2, BookQuiet
<1>5. CASE Send(i)
  <2>1. /\ pipe' = pipe /\ pipe[i] = "connected"
        /\ sent' = [sent EXCEPT ![i] = sent[i] + 1]
        /\ units' = [units EXCEPT ![i] = units[i] + 2]
    BY <1>5 DEF Send
  <2>2. /\ sent'[i] = sent[i] + 1 /\ units'[i] = units[i] + 2
        /\ \A j \in Instances : j # i => sent'[j] = sent[j] /\ units'[j] = units[j]
    BY <1>1, <2>1 DEF Shape, CountShape
  <2>3. ASSUME NEW j \in Instances PROVE Balanced(j)'
    <3>1. Balanced(j) /\ units[j] \in Nat /\ got[j] \in Nat /\ sent[j] \in Nat
      BY <1>1, PipeServerAssumption DEF Book, Shape, CountShape
    <3>2. CASE j # i
      BY <1>1, <1>3, <2>1, <2>2, <3>1, <3>2 DEF Balanced
    <3>3. CASE j = i
      BY <1>1, <1>3, <2>1, <2>2, <3>1, <3>3 DEF Balanced
    <3> QED
      BY <3>2, <3>3
  <2> QED
    BY <2>3 DEF Book
<1> QED
  BY <1>4, <1>5

\* Nothing of a session's messages is under way while none of its entries is on
\* the port and it waits for no body.
LEMMA NoneUnderWay ==
    ASSUME Inv, NEW i \in Instances, reading[i] # "body",
           \A f \in ToSet(port) : f.kind \in {"header", "body"} => f.i # i
    PROVE  ~Half(i) /\ ~Whole(i)
BY DEF Half, Whole

LEMMA BookComplete == ASSUME Inv, Book, NEW i \in Instances, Complete(i) PROVE Book'
<1>1. Shape /\ Served /\ PortPlaced /\ port \in Seq(Entries) /\ IsInjective(port)
  BY DEF Inv, Accepts, Shape, WorkerShape, PortPlaced, Distinct
<1>2. PICK e : /\ port' = Append(port, e)
               /\ units[i] > 0 => e = [kind |-> reading[i], i |-> i, ok |-> TRUE]
               /\ ~(units[i] > 0) => e = [kind |-> reading[i], i |-> i, ok |-> FALSE]
  <2>1. port' = Append(port, [kind |-> reading[i], i |-> i, ok |-> units[i] > 0])
    BY DEF Complete
  <2>2. CASE units[i] > 0
    <3>1. (units[i] > 0) = TRUE
      BY <2>2
    <3> QED
      BY <2>1, <2>2, <3>1, Zenon
  <2>3. CASE ~(units[i] > 0)
    <3>1. (units[i] > 0) = FALSE
      BY <2>3
    <3> QED
      BY <2>1, <2>3, <3>1, Zenon
  <2> QED
    BY <2>2, <2>3
<1>3. /\ reading[i] \in {"header", "body"} /\ UNCHANGED <<pipe, got, sent>>
      /\ reading' = [reading EXCEPT ![i] = "no"]
      /\ units' = [units EXCEPT ![i] = IF units[i] > 0 THEN units[i] - 1 ELSE units[i]]
  BY <1>1 DEF Complete, Shape, KernelShape
<1>4. /\ reading'[i] = "no"
      /\ units[i] > 0 => units'[i] = units[i] - 1
      /\ ~(units[i] > 0) => units'[i] = units[i]
      /\ \A j \in Instances : j # i => reading'[j] = reading[j] /\ units'[j] = units[j]
  BY <1>1, <1>3 DEF Shape, KernelShape, CountShape
<1>5. e \in Entries /\ e.kind = reading[i] /\ e.i = i
  <2>1. CASE units[i] > 0
    <3>1. e = [kind |-> reading[i], i |-> i, ok |-> TRUE]
      BY <1>2, <2>1
    <3> QED
      BY <1>3, <3>1 DEF Entries
  <2>2. CASE ~(units[i] > 0)
    <3>1. e = [kind |-> reading[i], i |-> i, ok |-> FALSE]
      BY <1>2, <2>2
    <3> QED
      BY <1>3, <3>1 DEF Entries
  <2> QED
    BY <2>1, <2>2
<1>6. ToSet(port') = ToSet(port) \cup {e}
  BY <1>1, <1>2, <1>5, AppendFacts
<1>7. \A f \in ToSet(port) : f.kind \in {"header", "body"} => f.i # i
  BY <1>1, <1>3 DEF PortPlaced, Placed
<1>8. ~Whole(i) /\ (Half(i) <=> reading[i] = "body")
  BY <1>7 DEF Whole, Half
<1>9. /\ Half(i)' <=> reading[i] = "header" /\ units[i] > 0
      /\ Whole(i)' <=> reading[i] = "body" /\ units[i] > 0
  <2>1. ASSUME NEW k \in {"header", "body"}
        PROVE  [kind |-> k, i |-> i, ok |-> TRUE] \in ToSet(port') <=> k = reading[i] /\ units[i] > 0
    <3>1. [kind |-> k, i |-> i, ok |-> TRUE] \notin ToSet(port)
      BY <1>7
    <3>2. [kind |-> k, i |-> i, ok |-> TRUE] = e <=> k = reading[i] /\ units[i] > 0
      <4>1. CASE units[i] > 0
        BY <1>2, <4>1
      <4>2. CASE ~(units[i] > 0)
        BY <1>2, <4>2
      <4> QED
        BY <4>1, <4>2
    <3> QED
      BY <1>6, <3>1, <3>2
  <2> QED
    BY <1>3, <1>4, <2>1 DEF Half, Whole
<1>10. ASSUME NEW j \in Instances PROVE Balanced(j)'
  <2>1. Balanced(j) /\ units[j] \in Nat /\ got[j] \in Nat /\ sent[j] \in Nat
    BY <1>1, PipeServerAssumption DEF Book, Shape, CountShape
  <2>2. CASE j # i
    <3>1. (Half(j)' <=> Half(j)) /\ (Whole(j)' <=> Whole(j))
      BY <1>4, <1>5, <1>6, <2>2 DEF Half, Whole
    <3> QED
      BY <1>3, <1>4, <2>1, <2>2, <3>1 DEF Balanced
  <2>3. CASE j = i /\ reading[i] = "header"
    BY <1>3, <1>4, <1>8, <1>9, <2>1, <2>3 DEF Balanced
  <2>4. CASE j = i /\ reading[i] = "body"
    BY <1>3, <1>4, <1>8, <1>9, <2>1, <2>4 DEF Balanced
  <2> QED
    BY <1>3, <2>2, <2>3, <2>4
<1> QED
  BY <1>10 DEF Book

LEMMA BookReads == ASSUME Inv, Book, HandleReadHeader \/ HandleReadBody PROVE Book'
<1>1. Shape /\ PortPlaced /\ port \in Seq(Entries)
  BY DEF Inv, Accepts, Shape, WorkerShape
<1>2. PICK e \in Entries :
        /\ e \in ToSet(port) /\ ToSet(port') = ToSet(port) \ {e}
        /\ e.kind \in {"header", "body"} /\ e.i \in Instances
        /\ sent' = sent
        /\ \/ /\ e.kind = "header" /\ e.ok /\ reading' = [reading EXCEPT ![e.i] = "body"]
              /\ UNCHANGED <<got, pipe, units>>
           \/ /\ e.ok
              /\ e.kind = "header" => ReadFails(e.i)
              /\ got' = [got EXCEPT ![e.i] = got[e.i] + 1] /\ reading' = reading
              /\ UNCHANGED <<pipe, units>>
           \/ /\ ~e.ok /\ UNCHANGED <<reading, got>>
              /\ pipe' = [pipe EXCEPT ![e.i] = "disconnected"]
              /\ units' = [units EXCEPT ![e.i] = 0]
  BY ReadFacts
<1>3. PICK c \in Instances : c = e.i /\ reading[c] = "no"
  BY <1>1, <1>2 DEF PortPlaced, Placed
<1>4. /\ e.ok => e = [kind |-> e.kind, i |-> c, ok |-> TRUE]
      /\ ~e.ok => e = [kind |-> e.kind, i |-> c, ok |-> FALSE]
  <2>1. e.ok \in BOOLEAN /\ e = [kind |-> e.kind, i |-> e.i, ok |-> e.ok]
    BY EntryShape
  <2>2. CASE e.ok
    <3>1. e.ok = TRUE
      BY <2>1, <2>2
    <3> QED
      BY <1>3, <2>1, <2>2, <3>1, Zenon
  <2>3. CASE ~e.ok
    <3>1. e.ok = FALSE
      BY <2>1, <2>3
    <3> QED
      BY <1>3, <2>1, <2>3, <3>1, Zenon
  <2> QED
    BY <2>2, <2>3
<1>5. ASSUME NEW f \in ToSet(port), f # e PROVE f.kind \in {"header", "body"} => f.i # c
  <2>1. Slot(f) # Slot(e)
    BY <1>1, <1>2, <1>5 DEF PortPlaced, Distinct
  <2> QED
    BY <1>2, <1>3, <2>1 DEF Slot
<1>6. /\ Half(c) <=> e.kind = "header" /\ e.ok
      /\ Whole(c) <=> e.kind = "body" /\ e.ok
  <2>1. ASSUME NEW k \in {"header", "body"}
        PROVE  [kind |-> k, i |-> c, ok |-> TRUE] \in ToSet(port) <=> k = e.kind /\ e.ok
    <3>1. [kind |-> k, i |-> c, ok |-> TRUE] \in ToSet(port) => [kind |-> k, i |-> c, ok |-> TRUE] = e
      BY <1>5
    <3>2. [kind |-> k, i |-> c, ok |-> TRUE] = e <=> k = e.kind /\ e.ok
      <4>1. CASE e.ok
        BY <1>4, <4>1
      <4>2. CASE ~e.ok
        BY <1>4, <4>2
      <4> QED
        BY <4>1, <4>2
    <3> QED
      BY <1>2, <3>1, <3>2
  <2> QED
    BY <1>3, <2>1 DEF Half, Whole
<1>7. (Half(c)' <=> reading'[c] = "body") /\ ~Whole(c)'
  <2>1. \A f \in ToSet(port') : f.kind \in {"header", "body"} => f.i # c
    BY <1>2, <1>5
  <2> QED
    BY <2>1 DEF Half, Whole
<1>8. ASSUME NEW j \in Instances PROVE Balanced(j)'
  <2>1. Balanced(j) /\ units[j] \in Nat /\ got[j] \in Nat /\ sent[j] \in Nat
    BY <1>1, PipeServerAssumption DEF Book, Shape, CountShape
  <2>2. CASE j # c
    <3>1. /\ reading'[j] = reading[j] /\ got'[j] = got[j]
          /\ pipe'[j] = pipe[j] /\ units'[j] = units[j]
      BY <1>1, <1>2, <1>3, <2>2 DEF Shape, KernelShape, CountShape
    <3>2. (Half(j)' <=> Half(j)) /\ (Whole(j)' <=> Whole(j))
      BY <1>2, <1>3, <2>2, <3>1 DEF Half, Whole
    <3> QED
      BY <1>2, <2>1, <3>1, <3>2 DEF Balanced
  <2>3. CASE /\ j = c /\ e.kind = "header" /\ e.ok
             /\ reading' = [reading EXCEPT ![e.i] = "body"] /\ UNCHANGED <<got, pipe, units>>
    <3>1. reading'[c] = "body"
      BY <1>1, <1>3, <2>3 DEF Shape, KernelShape
    <3> QED
      BY <1>2, <1>6, <1>7, <2>1, <2>3, <3>1 DEF Balanced
  <2>4. CASE /\ j = c /\ e.ok /\ UNCHANGED <<reading, pipe, units>>
             /\ e.kind = "header" => ReadFails(e.i)
             /\ got' = [got EXCEPT ![e.i] = got[e.i] + 1]
    <3>1. got'[j] = got[j] + 1 /\ ~Half(c)' /\ ~Whole(c)'
      BY <1>1, <1>3, <1>7, <2>4 DEF Shape, CountShape
    <3>2. CASE e.kind = "body"
      <4>1. Whole(c)
        BY <1>6, <2>4, <3>2
      <4> QED
        BY <1>2, <2>1, <2>4, <3>1, <4>1 DEF Balanced
    <3>3. CASE e.kind = "header"
      <4>1. Half(c) /\ (pipe[c] = "disconnected" \/ units[c] = 0)
        BY <1>3, <1>6, <2>4, <3>3 DEF ReadFails
      <4> QED
        BY <1>2, <2>1, <2>4, <3>1, <4>1 DEF Balanced
    <3> QED
      BY <1>2, <3>2, <3>3
  <2>5. CASE /\ j = c /\ ~e.ok /\ UNCHANGED <<reading, got>>
             /\ pipe' = [pipe EXCEPT ![e.i] = "disconnected"]
             /\ units' = [units EXCEPT ![e.i] = 0]
    <3>1. /\ pipe'[c] = "disconnected" /\ units'[c] = 0 /\ got'[c] = got[c]
          /\ ~Half(c)' /\ ~Whole(c)'
      BY <1>1, <1>3, <1>7, <2>5 DEF Shape, KernelShape, CountShape
    <3>2. got[c] <= sent[c]
      BY <2>1, <2>5 DEF Balanced
    <3> QED
      BY <1>2, <2>5, <3>1, <3>2 DEF Balanced
  <2> QED
    BY <1>2, <2>2, <2>3, <2>4, <2>5
<1> QED
  BY <1>8 DEF Book

\* The messages add up, step by step.
LEMMA BookStep == Inv /\ Book /\ [Next]_vars => Book'
<1>1. ASSUME Inv, Book, UNCHANGED vars PROVE Book'
  <2>1. UNCHANGED <<port, reading, units, got, sent, pipe>>
    BY <1>1 DEF vars, kernelVars, readVars
  <2> QED
    BY <1>1, <2>1, SameReads, BookQuiet
<1> QED
  BY <1>1, BookAccepting, BookOwner, BookClients, BookComplete, BookReads DEF Next, Worker

LEMMA BookInit == Init => Book
<1> SUFFICES ASSUME Init PROVE Book
  OBVIOUS
<1>1. ToSet(port) = {}
  BY EmptyFacts DEF Init
<1> QED
  BY <1>1 DEF Init, All, Book, Balanced, Half, Whole

\* The assertion on the header's size, at the read that makes it fail.
LEMMA AssertStep == Inv /\ Book /\ AssertCauses /\ [Next]_vars => AssertCauses'
<1> SUFFICES ASSUME Inv, Book, AssertCauses, [Next]_vars, dead' = "header" PROVE AssertCauses'
  BY DEF AssertCauses
<1>1. CASE UNCHANGED vars
  BY <1>1 DEF vars, acceptVars, kernelVars, readVars, AssertCauses
<1>2. CASE Next
  <2>1. AsyncRead /\ dead = "no"
    <3>1. dead = "no"
      BY <1>2 DEF Next, Owner, Worker, OwnerInit, OwnerStart, OwnerStop, OwnerClear, OwnerRelease,
         OwnerJoin, Open, Send, Leave, Complete, DoAccept, Next1, Connect, Insert, BeServer,
         Connected, Check, HandleAccept, WorkerStop, WorkerClear, AsyncRead, HandleReadHeader,
         HandleReadBody, Alive
    <3>2. ~Owner
      BY <3>1 DEF Owner, OwnerInit, OwnerStart, OwnerStop, OwnerClear, OwnerRelease, OwnerJoin
    <3>3. \A i \in Instances : ~Open(i) /\ ~Send(i) /\ ~Leave(i) /\ ~Complete(i)
      BY <3>1 DEF Open, Send, Leave, Complete
    <3>4. /\ ~DoAccept /\ ~Connect /\ ~Insert /\ ~BeServer /\ ~Connected /\ ~Check
          /\ ~HandleAccept /\ ~WorkerStop /\ ~WorkerClear
          /\ ~HandleReadHeader /\ ~HandleReadBody
      BY <3>1 DEF DoAccept, Connect, Insert, BeServer, Connected, Check, HandleAccept, WorkerStop,
         WorkerClear, HandleReadHeader, HandleReadBody
    <3> QED
      BY <1>2, <3>1, <3>2, <3>3, <3>4 DEF Next, Worker
  <2>2. /\ UNCHANGED <<at, bound, pipe, got, sent, session_>>
        /\ at.i \notin bound \/ ReadFails(at.i)
    BY <2>1 DEF AsyncRead, acceptVars, kernelVars
  <2>3. PICK c \in Instances : c = at.i /\ reading[c] = "no" /\ at = [pc |-> "read", i |-> c]
    <3>1. at.pc = "read" /\ at.i \in Instances /\ reading[at.i] = "no"
      BY <2>1 DEF AsyncRead, Inv, Accepts, WorkerPlaced
    <3>2. at = [pc |-> at.pc, i |-> at.i]
      BY DEF Inv, Shape, WorkerShape
    <3> QED
      BY <3>1, <3>2
  <2>4. CASE c \notin bound
    BY <2>2, <2>3, <2>4 DEF AssertCauses
  <2>5. CASE pipe[c] = "disconnected"
    <3>1. session_ > 1
      <4>1. session[c] = "live"
        BY <2>3 DEF Inv, Accepts, WorkerPlaced
      <4> QED
        BY <2>5, <4>1 DEF Inv, Accepts, Served
    <3> QED
      BY <2>2, <2>3, <2>5, <3>1 DEF AssertCauses
  <2>6. CASE pipe[c] = "broken" /\ units[c] = 0
    <3>1. ~Half(c) /\ ~Whole(c)
      <4>1. \A f \in ToSet(port) : f.kind \in {"header", "body"} => f.i # c
        BY <2>3 DEF Inv, Accepts, PortPlaced, Placed
      <4> QED
        BY <2>3, <4>1, NoneUnderWay
    <3>2. 2 * got[c] = 2 * sent[c] /\ got[c] \in Nat /\ sent[c] \in Nat
      BY <2>6, <3>1, PipeServerAssumption DEF Book, Balanced, Inv, Shape, CountShape
    <3>3. got[c] = sent[c]
      BY <3>2
    <3> QED
      BY <2>2, <2>3, <2>6, <3>3 DEF AssertCauses
  <2> QED
    BY <2>2, <2>3, <2>4, <2>5, <2>6 DEF ReadFails
<1> QED
  BY <1>1, <1>2

\* The assertion on the header's size fails for no other cause than the three,
\* for any number of clients, messages and stops.
THEOREM AssertCorrect == Spec => []AssertCauses
<1>1. Init => AssertCauses
  BY DEF Init, AssertCauses
<1> QED
  BY <1>1, InvInit, BookInit, InvStep, BookStep, AssertStep, PTL DEF Spec

\* What is lost is an instance that was created.
LostShape == lost \subseteq 1..created

LEMMA LostStep == Inv /\ LostShape /\ [Next]_vars => LostShape'
<1> SUFFICES ASSUME Inv, lost \subseteq 1..created, [Next]_vars PROVE lost' \subseteq 1..created'
  BY DEF LostShape
<1>1. created \in Nat
  BY PipeServerAssumption DEF Inv, Shape, WorkerShape
<1>2. ASSUME lost' = lost, created' = created \/ created' = created + 1
      PROVE  lost' \subseteq 1..created'
  BY <1>1, <1>2
<1>3. ASSUME NEW i \in Instances, Open(i) PROVE lost' \subseteq 1..created'
  <2>1. i = created /\ created > 0
    BY <1>3, Newest DEF Open
  <2>2. lost' \subseteq lost \cup {i} /\ created' = created
    BY <1>3 DEF Open
  <2> QED
    BY <1>1, <2>1, <2>2
<1>4. CASE Owner
  BY <1>2, <1>4 DEF Owner, OwnerInit, OwnerStart, OwnerStop, OwnerClear, OwnerRelease, OwnerJoin
<1>5. CASE Worker
  BY <1>2, <1>5 DEF Worker, DoAccept, Connect, Insert, BeServer, Connected, Check, HandleAccept,
     WorkerStop, WorkerClear, AsyncRead, HandleReadHeader, HandleReadBody
<1>6. ASSUME NEW i \in Instances, Send(i) \/ Leave(i) \/ Complete(i)
      PROVE  lost' \subseteq 1..created'
  BY <1>2, <1>6 DEF Send, Leave, Complete
<1>7. CASE UNCHANGED vars
  BY <1>2, <1>7 DEF vars
<1> QED
  BY <1>3, <1>4, <1>5, <1>6, <1>7 DEF Next

\* Every variable keeps its shape, no more messages are handed over than were
\* sent, and the accepts do not outrun the instances.
THEOREM TypeCorrect == Spec => []TypeOK
<1>1. ASSUME Inv, Book, LostShape PROVE TypeOK
  <2>1. ASSUME NEW i \in Instances
        PROVE  units[i] \in 0..(2 * MaxMessages) /\ got[i] \in 0..MaxMessages
    <3>1. /\ Balanced(i) /\ units[i] \in Nat /\ got[i] \in Nat /\ sent[i] \in Nat
          /\ sent[i] <= MaxMessages /\ MaxMessages \in Nat
      BY <1>1, PipeServerAssumption DEF Book, Inv, Shape, CountShape
    <3>2. got[i] <= sent[i] /\ units[i] <= 2 * sent[i]
      BY <3>1 DEF Balanced
    <3> QED
      BY <3>1, <3>2
  <2>2. units \in [Instances -> 0..(2 * MaxMessages)] /\ got \in [Instances -> 0..MaxMessages]
    BY <1>1, <2>1 DEF Inv, Shape, CountShape
  <2>3. \A k \in 1..Len(port) : port[k] \in Entries
    BY <1>1 DEF Inv, Shape, WorkerShape
  <2>4. /\ (mutex_ = "owner") = (owner = "stopping")
        /\ (mutex_ = "worker") = (at.pc = "clear")
    BY <1>1 DEF Inv, Shape, OwnerShape
  <2> QED
    BY <1>1, <2>2, <2>3, <2>4 DEF Inv, Shape, OwnerShape, WorkerShape, KernelShape, CountShape,
       LostShape, Entries, TypeOK
<1>2. Init => LostShape
  BY DEF Init, LostShape
<1> QED
  BY <1>1, <1>2, InvInit, BookInit, InvStep, BookStep, LostStep, PTL DEF Spec

-----------------------------------------------------------------------------
(* One accept, and not none.                                               *)

LEMMA GoesStep == Inv /\ Goes /\ [Next]_vars => Goes'
<1> SUFFICES ASSUME Inv, Goes, [Next]_vars,
                    owner' = "started", session_' = 1, acceptor_' = "open", dead' = "no"
             PROVE  (PortAccepts \/ WorkerAccepts \/ PipeAccepts \/ Stranded)'
  BY DEF Goes
<1>1. /\ port \in Seq(Entries) /\ session_ \in Nat /\ created \in Nat
      /\ Opened /\ Served /\ WorkerPlaced /\ PortPlaced /\ Shape
  BY PipeServerAssumption DEF Inv, Accepts, Shape, WorkerShape, CountShape
<1>2. CASE UNCHANGED vars
  <2>1. UNCHANGED <<owner, session_, acceptor_, dead, port, at, pipe, session>>
    BY <1>2 DEF vars, acceptVars, kernelVars, readVars
  <2> QED
    BY <2>1 DEF Goes, PortAccepts, WorkerAccepts, PipeAccepts, Stranded
<1>3. CASE Owner
  <2>1. OwnerStart
    BY <1>3 DEF Owner, OwnerInit, OwnerStop, OwnerClear, OwnerRelease, OwnerJoin
  <2>2. PICK e \in Entries : e = [kind |-> "accept", i |-> NoOne, ok |-> TRUE]
    BY EntryMade
  <2>3. port' = Append(port, e)
    BY <2>1, <2>2 DEF OwnerStart
  <2>4. ToSet(port') = ToSet(port) \cup {e}
    BY <1>1, <2>3, AppendFacts
  <2>5. Slot(e) = NoOne
    BY <2>2 DEF Slot
  <2> QED
    BY <2>4, <2>5 DEF PortAccepts
<1>4. CASE DoAccept
  <2>1. acceptor_ = "open"
    BY <1>4 DEF DoAccept
  <2> QED
    BY <1>4, <2>1 DEF DoAccept, Goto, WorkerAccepts
<1>5. CASE Connect
  <2>1. pipe[at.i] \in {"created", "connected", "broken"}
    BY <1>1, <1>5 DEF Connect, WorkerPlaced
  <2>2. \/ at' = [pc |-> "insert", i |-> at.i]
        \/ at' = [pc |-> "handle", i |-> at.i]
        \/ at' = [pc |-> "stop", i |-> NoOne]
    <3>1. CASE pipe[at.i] = "created"
      BY <1>5, <3>1 DEF Connect, Goto
    <3>2. CASE pipe[at.i] = "connected"
      BY <1>5, <3>2 DEF Connect, Goto
    <3>3. CASE pipe[at.i] = "broken"
      BY <1>5, <3>3 DEF Connect, Goto
    <3> QED
      BY <2>1, <3>1, <3>2, <3>3
  <2> QED
    BY <2>2 DEF WorkerAccepts
<1>6. CASE Insert \/ Connected
  BY <1>6 DEF Insert, Connected, Goto, WorkerAccepts
<1>7. CASE BeServer
  <2>1. PICK c \in Instances : /\ c = at.i /\ session[c] = "none"
                               /\ pipe[c] \in {"listening", "connected", "broken"}
    <3>1. /\ at.i = created /\ created > 0 /\ session[at.i] = "none"
          /\ pipe[at.i] \in {"listening", "connected", "broken"}
      BY <1>1, <1>7 DEF BeServer, WorkerPlaced
    <3>2. at.i \in Instances
      BY <1>1, <3>1, Numbers DEF Shape, WorkerShape
    <3> QED
      BY <3>1, <3>2
  <2>2. UNCHANGED <<pipe, session>> /\ at' = Idle
    BY <1>7 DEF BeServer, kernelVars, readVars
  <2> QED
    BY <2>1, <2>2, Numbers DEF Idle, PipeAccepts, Stranded
<1>8. CASE Check
  <2>1. at.pc = "check" /\ UNCHANGED <<session_, acceptor_>>
    <3>1. ~LastHolder
      BY <1>8 DEF Check, LastHolder
    <3> QED
      BY <1>8, <3>1 DEF Check, acceptVars
  <2>2. accepted[at.i] = session_
    <3>1. at.i = created /\ at.i \in 1..created
      BY <1>1, <2>1 DEF WorkerPlaced
    <3>2. at.i \in Instances
      BY <1>1, <3>1, Numbers DEF Shape, WorkerShape
    <3>3. accepted[at.i] \in Nat /\ accepted[at.i] >= 1 /\ accepted[at.i] <= session_
      BY <1>1, <2>1, <3>1, <3>2 DEF Opened, Shape, CountShape
    <3> QED
      BY <1>1, <2>1, <3>3
  <2> QED
    BY <1>8, <2>2 DEF Check, Goto, WorkerAccepts
<1>9. CASE HandleAccept
  <2>1. PICK e \in Entries : e = [kind |-> "accept", i |-> NoOne, ok |-> TRUE]
    BY EntryMade
  <2>2. port' = Append(port, e)
    BY <1>9, <2>1 DEF HandleAccept
  <2>3. ToSet(port') = ToSet(port) \cup {e}
    BY <1>1, <2>2, AppendFacts
  <2>4. Slot(e) = NoOne
    BY <2>1 DEF Slot
  <2> QED
    BY <2>3, <2>4 DEF PortAccepts
<1>10. CASE WorkerStop \/ WorkerClear
  <2>1. acceptor_ = "open" /\ session_ >= 1 /\ (at.pc = "clear" => session_ >= 2)
    BY <1>1, <1>10 DEF WorkerStop, WorkerClear, Opened
  <2> QED
    BY <1>1, <1>10, <2>1 DEF WorkerStop, WorkerClear
<1> DEFINE Rest == \/ AsyncRead \/ HandleReadHeader \/ HandleReadBody
                   \/ \E i \in Instances : Open(i) \/ Send(i) \/ Leave(i) \/ Complete(i)
<1>11. CASE Rest
  <2>1. UNCHANGED <<owner, session_, acceptor_>> /\ dead = "no"
    BY <1>11 DEF AsyncRead, HandleReadHeader, HandleReadBody, Open, Send, Leave, Complete, acceptVars,
       Next1, Alive
  <2>2. PortAccepts \/ WorkerAccepts \/ PipeAccepts \/ Stranded
    BY <2>1 DEF Goes
  <2>3. CASE AsyncRead
    <3>1. PICK c \in Instances : c = at.i /\ session[c] = "live" /\ at.pc = "read"
      BY <1>1, <2>3 DEF AsyncRead, WorkerPlaced
    <3>2. /\ UNCHANGED <<port, pipe>> /\ (at' = at \/ at' = Idle)
          /\ session' = session \/ session' = [session EXCEPT ![c] = "ended"]
      BY <2>3, <3>1 DEF AsyncRead, kernelVars
    <3>3. \A j \in Instances : session[j] = "none" => session'[j] = "none"
      BY <1>1, <3>1, <3>2 DEF Shape, KernelShape
    <3>4. ~WorkerAccepts
      BY <3>1 DEF WorkerAccepts
    <3>5. PipeAccepts => PipeAccepts'
      BY <3>2, Numbers DEF PipeAccepts, Idle
    <3> QED
      BY <2>2, <3>2, <3>3, <3>4, <3>5 DEF PortAccepts, Stranded
  <2>4. CASE HandleReadHeader \/ HandleReadBody
    <3>1. PICK e \in Entries :
            /\ e \in ToSet(port) /\ ToSet(port') = ToSet(port) \ {e}
            /\ e.kind \in {"header", "body"} /\ e.i \in Instances
            /\ at = [pc |-> "idle", i |-> NoOne]
            /\ pipe' = pipe \/ pipe' = [pipe EXCEPT ![e.i] = "disconnected"]
            /\ at' = at \/ at' = [pc |-> "read", i |-> e.i]
            /\ session' = session \/ session' = [session EXCEPT ![e.i] = "ended"]
      BY <2>4, ReadFacts
    <3>2. session[e.i] = "live" /\ Used(e.i) /\ Slot(e) # NoOne
      BY <1>1, <3>1, Numbers DEF PortPlaced, Placed, Served, Slot
    <3>3. \A j \in Instances : /\ session[j] = "none" => session'[j] = "none" /\ pipe'[j] = pipe[j]
                               /\ pipe[j] = "listening" => pipe'[j] = "listening"
      BY <1>1, <3>1, <3>2 DEF Shape, KernelShape, Used
    <3>4. ~WorkerAccepts
      BY <3>1 DEF WorkerAccepts
    <3>5. PipeAccepts => PipeAccepts'
      <4>1. ASSUME NEW j \in Instances, pipe[j] = "listening"
            PROVE  at'.i # j /\ pipe'[j] = "listening"
        BY <3>1, <3>2, <3>3, <4>1, Numbers DEF Used
      <4> QED
        BY <3>1, <4>1 DEF PipeAccepts
    <3>6. PortAccepts => PortAccepts'
      BY <3>1, <3>2 DEF PortAccepts
    <3> QED
      BY <2>2, <3>1, <3>3, <3>4, <3>5, <3>6 DEF Stranded
  <2>5. ASSUME NEW i \in Instances, Open(i)
        PROVE  (PortAccepts \/ WorkerAccepts \/ PipeAccepts \/ Stranded)'
    <3>1. /\ pipe[i] \in {"created", "listening"} /\ pipe' = [pipe EXCEPT ![i] = "connected"]
          /\ at' = at /\ session' = session
      BY <2>5 DEF Open, readVars
    <3>2. pipe'[i] = "connected" /\ session[i] = "none"
      BY <1>1, <3>1, Newest DEF Shape, KernelShape
    <3> QED
      BY <3>1, <3>2 DEF Stranded
  <2>6. ASSUME NEW i \in Instances, Send(i) \/ Leave(i) \/ Complete(i)
        PROVE  (PortAccepts \/ WorkerAccepts \/ PipeAccepts \/ Stranded)'
    <3>1. /\ UNCHANGED <<at, session>>
          /\ pipe' = pipe \/ (pipe[i] = "connected" /\ pipe' = [pipe EXCEPT ![i] = "broken"])
      BY <2>6 DEF Send, Leave, Complete, kernelVars, readVars
    <3>2. ToSet(port) \subseteq ToSet(port')
      <4>1. CASE Send(i) \/ Leave(i)
        BY <4>1 DEF Send, Leave
      <4>2. CASE Complete(i)
        <5>1. PICK e : /\ port' = Append(port, e)
                       /\ e = [kind |-> reading[i], i |-> i, ok |-> units[i] > 0]
          BY <4>2 DEF Complete
        <5>2. Len(port) \in Nat /\ Len(port') = Len(port) + 1
              /\ \A k \in 1..Len(port) : port'[k] = port[k]
          BY <1>1, <5>1
        <5> QED
          BY <1>1, <5>1, <5>2 DEF ToSet
      <4> QED
        BY <2>6, <4>1, <4>2
    <3>3. PortAccepts => PortAccepts'
      BY <3>2 DEF PortAccepts
    <3>4. PipeAccepts => PipeAccepts'
      BY <1>1, <3>1 DEF PipeAccepts, Shape, KernelShape
    <3>5. Stranded => Stranded'
      BY <1>1, <3>1 DEF Stranded, Shape, KernelShape
    <3> QED
      BY <2>2, <3>1, <3>3, <3>4, <3>5 DEF WorkerAccepts
  <2> QED
    BY <1>11, <2>3, <2>4, <2>5, <2>6
<1> QED
  BY <1>2, <1>3, <1>4, <1>5, <1>6, <1>7, <1>8, <1>9, <1>10, <1>11 DEF Next, Worker

\* How many accepts are under way, from the invariant.
LEMMA AcceptsCounted == ASSUME Inv, Goes PROVE OneAccept
<1> DEFINE P == {<<"port", k>> : k \in {k \in 1..Len(port) : port[k].kind \in {"accept", "connect"}}}
           W == {<<"worker", at.pc>> : pc \in {at.pc} \cap {"connect", "insert", "bind", "check",
                                                            "handle", "stop", "clear"}}
           L == {<<"pipe", i>> : i \in {i \in Instances : pipe[i] = "listening" /\ at.i # i}}
<1>1. AcceptsUnderWay = P \cup W \cup L
  BY DEF AcceptsUnderWay
<1>2. port \in Seq(Entries) /\ PortPlaced /\ OneHolder
  BY DEF Inv, Accepts, Shape, WorkerShape
<1>3. (P = {} /\ ~PortAccepts) \/ (PortAccepts /\ \E k : P = {<<"port", k>>})
  <2>1. CASE P = {}
    <3>1. \A k \in 1..Len(port) : port[k].kind \notin {"accept", "connect"}
      BY <2>1
    <3>2. ASSUME NEW e \in ToSet(port) PROVE Slot(e) # NoOne
      <4>1. PICK k \in 1..Len(port) : e = port[k]
        BY <1>2, MemberFacts
      <4> QED
        BY <1>2, <3>1, <4>1, Slots
    <3> QED
      BY <2>1, <3>2 DEF PortAccepts
  <2>2. CASE P # {}
    <3>1. PICK k \in 1..Len(port) : port[k].kind \in {"accept", "connect"}
      BY <2>2
    <3>2. port[k] \in ToSet(port) /\ Slot(port[k]) = NoOne
      BY <1>2, <3>1, MemberFacts DEF Slot
    <3>3. ASSUME NEW j \in 1..Len(port), port[j].kind \in {"accept", "connect"} PROVE j = k
      <4>1. port[j] \in ToSet(port) /\ Slot(port[j]) = NoOne
        BY <1>2, <3>3, MemberFacts DEF Slot
      <4>2. port[j] = port[k]
        BY <1>2, <3>2, <4>1 DEF PortPlaced, Distinct
      <4> QED
        BY <1>2, <4>2 DEF PortPlaced, Distinct, IsInjective
    <3>4. {j \in 1..Len(port) : port[j].kind \in {"accept", "connect"}} = {k}
      BY <3>1, <3>3
    <3>5. P = {<<"port", k>>}
      BY <3>4
    <3> QED
      BY <3>2, <3>5 DEF PortAccepts
  <2> QED
    BY <2>1, <2>2
<1>4. (W = {} /\ ~WorkerAccepts) \/ (WorkerAccepts /\ W = {<<"worker", at.pc>>})
  BY DEF WorkerAccepts
<1>5. (L = {} /\ ~PipeAccepts) \/ (PipeAccepts /\ \E i : L = {<<"pipe", i>>})
  <2>1. CASE L = {}
    BY <2>1 DEF PipeAccepts
  <2>2. CASE L # {}
    <3>1. {i \in Instances : pipe[i] = "listening" /\ at.i # i} = {created}
      BY <2>2, Newest
    <3>2. L = {<<"pipe", created>>}
      BY <3>1
    <3> QED
      BY <3>1, <3>2 DEF PipeAccepts
  <2> QED
    BY <2>1, <2>2
<1> HIDE DEF P, W, L
<1>6. AcceptsUnderWay = {} \/ \E x : AcceptsUnderWay = {x}
  <2>1. CASE PortAccepts
    BY <1>1, <1>2, <1>3, <1>4, <1>5, <2>1 DEF OneHolder
  <2>2. CASE ~PortAccepts
    BY <1>1, <1>2, <1>3, <1>4, <1>5, <2>2 DEF OneHolder
  <2> QED
    BY <2>1, <2>2
<1>7. Cardinality(AcceptsUnderWay) <= 1
  <2>1. CASE AcceptsUnderWay = {}
    BY <2>1, FS_EmptySet
  <2>2. ASSUME NEW x, AcceptsUnderWay = {x} PROVE Cardinality(AcceptsUnderWay) <= 1
    <3>1. Cardinality({x}) = 1
      BY FS_Singleton
    <3> QED
      BY <2>2, <3>1
  <2> QED
    BY <1>6, <2>1, <2>2
<1>8. PortAccepts \/ WorkerAccepts \/ PipeAccepts => AcceptsUnderWay # {}
  BY <1>1, <1>3, <1>4, <1>5
<1> QED
  BY <1>7, <1>8 DEF OneAccept, Goes, Stranded

\* At most one accept is under way; and there is one, as long as nobody has called
\* close() and no client came too early, for any number of clients, messages and
\* stops.
THEOREM AcceptCorrect == Spec => []OneAccept
<1>1. Init => Goes
  BY DEF Init, Goes
<1> QED
  BY <1>1, InvInit, InvStep, GoesStep, AcceptsCounted, PTL DEF Spec
=============================================================================
