---------------------------- MODULE QueueLemmas -----------------------------
(***************************************************************************)
(* Facts about queues without repetition that the proofs about the worker  *)
(* pools share: what Append, Tail and splitting a queue do to the set of   *)
(* its elements and to their being distinct.                               *)
(***************************************************************************)
EXTENDS Integers, Sequences, SequencesExt, SequenceTheorems, TLAPS

\* What it means to be an element of a queue.
LEMMA MemberFacts ==
    ASSUME NEW S, NEW q \in Seq(S), NEW e
    PROVE  e \in ToSet(q) <=> \E i \in 1..Len(q) : e = q[i]
BY DEF ToSet

\* The elements of a queue over S are in S.
LEMMA ElementsInside ==
    ASSUME NEW S, NEW q \in Seq(S)
    PROVE  ToSet(q) \subseteq S
BY DEF ToSet

\* The empty queue.
LEMMA EmptyFacts == ToSet(<<>>) = {} /\ IsInjective(<<>>)
BY DEF ToSet, IsInjective

\* A pushed element joins the set of the elements, and the queue stays without
\* repetition if it is new (post() and Post()).
LEMMA AppendFacts ==
    ASSUME NEW S, NEW q \in Seq(S), NEW e \in S
    PROVE  /\ Append(q, e) \in Seq(S)
           /\ ToSet(Append(q, e)) = ToSet(q) \cup {e}
           /\ IsInjective(q) /\ e \notin ToSet(q) => IsInjective(Append(q, e))
<1>1. /\ Append(q, e) \in Seq(S)
      /\ Len(Append(q, e)) = Len(q) + 1
      /\ \A i \in 1..Len(q) : Append(q, e)[i] = q[i]
      /\ Append(q, e)[Len(q) + 1] = e
  OBVIOUS
<1>2. ToSet(Append(q, e)) = ToSet(q) \cup {e}
  BY <1>1 DEF ToSet
<1>3. ASSUME IsInjective(q), e \notin ToSet(q)
      PROVE  IsInjective(Append(q, e))
  BY <1>1, <1>3 DEF ToSet, IsInjective
<1> QED
  BY <1>1, <1>2, <1>3

\* Taking the first element off a queue (the handler or task that runs next).
LEMMA TailFacts ==
    ASSUME NEW S, NEW q \in Seq(S), q # <<>>
    PROVE  /\ Head(q) \in S
           /\ Tail(q) \in Seq(S)
           /\ Tail(q) = <<>> <=> Len(q) = 1
           /\ ToSet(q) = {Head(q)} \cup ToSet(Tail(q))
           /\ IsInjective(q) => Head(q) \notin ToSet(Tail(q)) /\ IsInjective(Tail(q))
<1> DEFINE r == Tail(q)
<1>1. /\ Len(q) \in Nat \ {0}
      /\ Head(q) = q[1] /\ Head(q) \in S
      /\ r \in Seq(S)
      /\ Len(r) = Len(q) - 1
      /\ \A i \in 1..Len(q) - 1 : r[i] = q[i + 1]
  BY HeadTailProperties, EmptySeq
<1> HIDE DEF r
<1>2. r = <<>> <=> Len(q) = 1
  <2>1. CASE r = <<>>
    <3>1. Len(r) = 0
      BY <2>1, EmptySeq
    <3> QED
      BY <1>1, <2>1, <3>1
  <2>2. CASE r # <<>>
    <3>1. Len(r) \in Nat \ {0}
      BY <1>1, <2>2, EmptySeq
    <3> QED
      BY <1>1, <2>2, <3>1
  <2> QED
    BY <2>1, <2>2
<1>3. ToSet(q) = {Head(q)} \cup ToSet(r)
  <2>1. ASSUME NEW e \in ToSet(q)
        PROVE  e \in {Head(q)} \cup ToSet(r)
    <3>1. PICK i \in 1..Len(q) : e = q[i]
      BY MemberFacts
    <3>2. CASE i = 1
      BY <1>1, <3>1, <3>2
    <3>3. CASE i # 1
      <4>1. i - 1 \in 1..Len(r) /\ r[i - 1] = e
        BY <1>1, <3>1, <3>3
      <4> QED
        BY <1>1, <4>1, MemberFacts
    <3> QED
      BY <3>2, <3>3
  <2>2. Head(q) \in ToSet(q)
    BY <1>1, MemberFacts
  <2>3. ASSUME NEW e \in ToSet(r)
        PROVE  e \in ToSet(q)
    <3>1. PICK i \in 1..Len(r) : e = r[i]
      BY <1>1, MemberFacts
    <3>2. i \in 1..Len(q) - 1
      BY <1>1
    <3>3. i + 1 \in 1..Len(q)
      BY <1>1, <3>2
    <3>4. e = q[i + 1]
      BY <1>1, <3>1, <3>2
    <3> QED
      BY <3>3, <3>4, MemberFacts
  <2> QED
    BY <2>1, <2>2, <2>3
<1>4. ASSUME IsInjective(q)
      PROVE  Head(q) \notin ToSet(r) /\ IsInjective(r)
  <2>1. /\ DOMAIN q = 1..Len(q) /\ DOMAIN r = 1..Len(q) - 1
        /\ \A i \in 1..Len(q) - 1 : i + 1 \in 1..Len(q) /\ i + 1 # 1
        /\ 1 \in 1..Len(q)
    BY <1>1
  <2>2. IsInjective(r)
    <3> SUFFICES ASSUME NEW i \in 1..Len(q) - 1, NEW j \in 1..Len(q) - 1, r[i] = r[j]
                 PROVE  i = j
      BY <2>1 DEF IsInjective
    <3>1. q[i + 1] = q[j + 1]
      BY <1>1
    <3>2. i + 1 = j + 1
      BY <1>4, <2>1, <3>1 DEF IsInjective
    <3> QED
      BY <1>1, <3>2
  <2>3. ASSUME Head(q) \in ToSet(r)
        PROVE  FALSE
    <3>1. PICK i \in 1..Len(q) - 1 : q[1] = r[i]
      BY <1>1, <2>3, MemberFacts
    <3>2. q[1] = q[i + 1]
      BY <1>1, <3>1
    <3> QED
      BY <1>4, <2>1, <3>2 DEF IsInjective
  <2> QED
    BY <2>2, <2>3
<1> QED
  BY <1>1, <1>2, <1>3, <1>4 DEF r

\* Cutting a batch off the front of a queue (get_status_ex).
LEMMA SplitFacts ==
    ASSUME NEW S, NEW q \in Seq(S), NEW n \in 1..Len(q)
    PROVE  LET a == SubSeq(q, 1, n)
               b == SubSeq(q, n + 1, Len(q))
           IN  /\ a \in Seq(S) /\ b \in Seq(S)
               /\ a # <<>>
               /\ ToSet(q) = ToSet(a) \cup ToSet(b)
               /\ IsInjective(q) => /\ IsInjective(a) /\ IsInjective(b)
                                    /\ ToSet(a) \cap ToSet(b) = {}
<1> DEFINE a == SubSeq(q, 1, n)
           b == SubSeq(q, n + 1, Len(q))
<1>1. /\ Len(q) \in Nat /\ n \in Nat
      /\ \A i \in 1..Len(q) : q[i] \in S
  OBVIOUS
<1>2. /\ a \in Seq(S) /\ Len(a) = n
      /\ \A i \in 1..n : a[i] = q[i]
  BY <1>1, SubSeqProperties
<1>3. /\ b \in Seq(S) /\ Len(b) = Len(q) - n
      /\ \A i \in 1..Len(q) - n : b[i] = q[n + i]
  BY <1>1, SubSeqProperties
<1> HIDE DEF a, b
<1>4. a # <<>>
  BY <1>1, <1>2
<1>5. ToSet(q) = ToSet(a) \cup ToSet(b)
  <2>1. ASSUME NEW e \in ToSet(q)
        PROVE  e \in ToSet(a) \cup ToSet(b)
    <3>1. PICK i \in 1..Len(q) : e = q[i]
      BY MemberFacts
    <3>2. CASE i <= n
      <4>1. i \in 1..Len(a) /\ a[i] = e
        BY <1>1, <1>2, <3>1, <3>2
      <4> QED
        BY <1>2, <4>1, MemberFacts
    <3>3. CASE ~(i <= n)
      <4>1. i - n \in 1..Len(b) /\ b[i - n] = e
        BY <1>1, <1>3, <3>1, <3>3
      <4> QED
        BY <1>3, <4>1, MemberFacts
    <3> QED
      BY <3>2, <3>3
  <2>2. ASSUME NEW e \in ToSet(a)
        PROVE  e \in ToSet(q)
    <3>1. PICK i \in 1..n : e = a[i]
      BY <1>2, MemberFacts
    <3>2. i \in 1..Len(q) /\ e = q[i]
      BY <1>1, <1>2, <3>1
    <3> QED
      BY <3>2, MemberFacts
  <2>3. ASSUME NEW e \in ToSet(b)
        PROVE  e \in ToSet(q)
    <3>1. PICK i \in 1..Len(b) : e = b[i]
      BY <1>3, MemberFacts
    <3>2. n + i \in 1..Len(q) /\ e = q[n + i]
      BY <1>1, <1>3, <3>1
    <3> QED
      BY <3>2, MemberFacts
  <2> QED
    BY <2>1, <2>2, <2>3
<1>6. ASSUME IsInjective(q)
      PROVE  /\ IsInjective(a) /\ IsInjective(b)
             /\ ToSet(a) \cap ToSet(b) = {}
  <2>1. /\ DOMAIN q = 1..Len(q) /\ DOMAIN a = 1..n /\ DOMAIN b = 1..Len(q) - n
        /\ \A i \in 1..n : i \in 1..Len(q)
        /\ \A i \in 1..Len(q) - n : n + i \in 1..Len(q)
    BY <1>1, <1>2, <1>3
  <2>2. IsInjective(a)
    BY <1>2, <1>6, <2>1 DEF IsInjective
  <2>3. IsInjective(b)
    <3> SUFFICES ASSUME NEW i \in 1..Len(q) - n, NEW j \in 1..Len(q) - n, b[i] = b[j]
                 PROVE  i = j
      BY <2>1 DEF IsInjective
    <3>1. q[n + i] = q[n + j]
      BY <1>3
    <3>2. n + i = n + j
      BY <1>6, <2>1, <3>1 DEF IsInjective
    <3> QED
      BY <1>1, <3>2
  <2>4. ASSUME NEW e \in ToSet(a), e \in ToSet(b)
        PROVE  FALSE
    <3>1. PICK i \in 1..n : e = a[i]
      BY <1>2, MemberFacts
    <3>2. PICK j \in 1..Len(b) : e = b[j]
      BY <1>3, <2>4, MemberFacts
    <3>3. j \in 1..Len(q) - n
      BY <1>3
    <3>4. q[i] = q[n + j]
      BY <1>2, <1>3, <3>1, <3>2, <3>3
    <3>5. i = n + j
      BY <1>6, <2>1, <3>3, <3>4 DEF IsInjective
    <3> QED
      BY <1>1, <1>3, <3>3, <3>5
  <2> QED
    BY <2>2, <2>3, <2>4
<1> QED
  BY <1>2, <1>3, <1>4, <1>5, <1>6 DEF a, b
=============================================================================
