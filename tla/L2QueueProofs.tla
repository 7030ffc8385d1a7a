---------------------------- MODULE L2QueueProofs ----------------------------
(***************************************************************************)
(* Each interface of L2Queue is a bounded FIFO, for every set of lines and *)
(* frames and every capacity.                                              *)
(***************************************************************************)
EXTENDS L2Queue, SequenceTheorems, TLAPS

(* What the refinement rests on: an interface that is not sending has an empty *)
(* queue, so that a new frame does not overtake one, and the queue never holds *)
(* more than frameCapacity frames.                                           *)
QueueOK(q) ==
  /\ q \in QueueState
  /\ ~q.endTx => q.queue = <<>>
  /\ frameCapacity # 0 => Len(q.queue) <= frameCapacity

QueuesOK == l2 \in [Lines -> QueueState] /\ \A l \in Lines : QueueOK(l2[l])

-----------------------------------------------------------------------------
(* Sequences.                                                              *)

\* A frame appended to the second part is appended to the whole.
LEMMA ConcatAppend ==
  ASSUME NEW S, NEW s \in Seq(S), NEW t \in Seq(S), NEW x \in S
  PROVE  s \o Append(t, x) = Append(s \o t, x)
<1>1. s \o Append(t, x) \in Seq(S) /\ Append(s \o t, x) \in Seq(S)
  OBVIOUS
<1>2. Len(s \o Append(t, x)) = Len(Append(s \o t, x))
  OBVIOUS
<1>3. \A i \in 1 .. Len(s \o Append(t, x)) : (s \o Append(t, x))[i] = Append(s \o t, x)[i]
  OBVIOUS
<1> QED BY <1>1, <1>2, <1>3, SeqEqual

\* Moving the head of the second part to the end of the first changes nothing.
LEMMA MoveHead ==
  ASSUME NEW S, NEW s \in Seq(S), NEW t \in Seq(S), t # <<>>
  PROVE  Append(s, Head(t)) \o Tail(t) = s \o t
<1>1. Head(t) \in S /\ Tail(t) \in Seq(S)
  BY HeadTailProperties
<1>2. Append(s, Head(t)) \o Tail(t) \in Seq(S) /\ s \o t \in Seq(S)
  BY <1>1
<1>3. Len(Append(s, Head(t)) \o Tail(t)) = Len(s \o t)
  BY <1>1, HeadTailProperties
<1>4. \A i \in 1 .. Len(s \o t) : (Append(s, Head(t)) \o Tail(t))[i] = (s \o t)[i]
  BY <1>1, <1>3, HeadTailProperties
<1> QED BY <1>2, <1>3, <1>4, SeqEqual

\* Taking the head of the first part takes the head of the whole.
LEMMA TailConcat ==
  ASSUME NEW S, NEW s \in Seq(S), NEW t \in Seq(S), s # <<>>
  PROVE  s \o t # <<>> /\ Tail(s) \o t = Tail(s \o t)
<1>1. Tail(s) \in Seq(S) /\ Len(Tail(s)) = Len(s) - 1 /\ Len(s) \in Nat \ {0}
  BY HeadTailProperties, EmptySeq
<1>2. s \o t \in Seq(S) /\ Len(s \o t) = Len(s) + Len(t) /\ s \o t # <<>>
  BY <1>1
<1>3. Tail(s \o t) \in Seq(S) /\ Len(Tail(s \o t)) = Len(s \o t) - 1
  BY <1>2, HeadTailProperties
<1>4. Len(Tail(s) \o t) = Len(Tail(s \o t))
  BY <1>1, <1>2, <1>3
<1>5. \A i \in 1 .. Len(Tail(s) \o t) : (Tail(s) \o t)[i] = Tail(s \o t)[i]
  BY <1>1, <1>2, <1>3, <1>4
<1> QED BY <1>1, <1>2, <1>3, <1>4, <1>5, SeqEqual

-----------------------------------------------------------------------------
(* An interface and its FIFO.                                              *)

\* The state of an interface, and of a FIFO.
Queue(a, b, w, d) == [queue |-> a, endTx |-> b, wire |-> w, drops |-> d]
Flow(f, u, r) == [flow |-> f, unsent |-> u, refused |-> r]

\* What each event makes of the state, field by field.
LEMMA QueueFields ==
  ASSUME NEW q \in QueueState
  PROVE  /\ q = Queue(q.queue, q.endTx, q.wire, q.drops)
         /\ q.queue \in Seq(Frames) /\ q.wire \in Seq(Frames) /\ q.drops \in Nat
         /\ \A x : StartTransmitting(q, x) = Queue(q.queue, TRUE, Append(q.wire, x), q.drops)
         /\ \A a : [q EXCEPT !.queue = a] = Queue(a, q.endTx, q.wire, q.drops)
         /\ [q EXCEPT !.endTx = FALSE] = Queue(q.queue, FALSE, q.wire, q.drops)
         /\ [q EXCEPT !.drops = q.drops + 1] = Queue(q.queue, q.endTx, q.wire, q.drops + 1)
         /\ PassUp(q) = Queue(q.queue, q.endTx, Tail(q.wire), q.drops)
<1>1. q = Queue(q.queue, q.endTx, q.wire, q.drops)
  BY DEF QueueState, Queue
<1>2. \A x : StartTransmitting(q, x) = Queue(q.queue, TRUE, Append(q.wire, x), q.drops)
  BY DEF Queue, StartTransmitting
<1>3. \A a : [q EXCEPT !.queue = a] = Queue(a, q.endTx, q.wire, q.drops)
  BY DEF QueueState, Queue
<1>4. [q EXCEPT !.endTx = FALSE] = Queue(q.queue, FALSE, q.wire, q.drops)
  <2>1. \A b : [q EXCEPT !.endTx = b] = Queue(q.queue, b, q.wire, q.drops)
    BY DEF QueueState, Queue
  <2> QED BY <2>1, Zenon
<1>5. [q EXCEPT !.drops = q.drops + 1] = Queue(q.queue, q.endTx, q.wire, q.drops + 1)
  BY DEF QueueState, Queue
<1>6. PassUp(q) = Queue(q.queue, q.endTx, Tail(q.wire), q.drops)
  <2>1. \A w : [q EXCEPT !.wire = w] = Queue(q.queue, q.endTx, w, q.drops)
    BY DEF QueueState, Queue
  <2> QED BY <2>1, Zenon DEF PassUp
<1>7. q.queue \in Seq(Frames) /\ q.wire \in Seq(Frames) /\ q.drops \in Nat
  BY DEF QueueState
<1> QED BY <1>1, <1>2, <1>3, <1>4, <1>5, <1>6, <1>7

\* The FIFO that an interface stands for, while it sends ...
LEMMA SendingFifo ==
  ASSUME NEW a \in Seq(Frames), NEW w \in Seq(Frames), NEW d \in Nat,
         frameCapacity # 0 => Len(a) <= frameCapacity,
         NEW g, g = Queue(a, TRUE, w, d)
  PROVE  QueueOK(g) /\ AsFifo(g) = Flow(w \o a, Len(a) + 1, d)
<1>1. g \in QueueState /\ g.endTx /\ g.queue = a
  BY DEF Queue, QueueState
<1>2. g.wire = w /\ g.drops = d
  BY DEF Queue
<1>3. AsFifo(g) = Flow(g.wire \o g.queue, Len(g.queue) + 1, g.drops)
  BY <1>1, Zenon DEF AsFifo, Flow
<1>4. QueueOK(g)
  BY <1>1, Zenon DEF QueueOK
<1>5. AsFifo(g) = Flow(w \o a, Len(a) + 1, d)
  BY <1>1, <1>2, <1>3, Zenon
<1> QED BY <1>4, <1>5

\* ... and while it does not.
LEMMA IdleFifo ==
  ASSUME NEW w \in Seq(Frames), NEW d \in Nat, QueueAssumption,
         NEW g, g = Queue(<<>>, FALSE, w, d)
  PROVE  QueueOK(g) /\ AsFifo(g) = Flow(w, 0, d)
<1>1. w \o <<>> = w /\ Len(<<>>) = 0 /\ <<>> \in Seq(Frames)
  OBVIOUS
<1>2. g \in QueueState /\ ~g.endTx /\ g.queue = <<>> /\ g.wire = w /\ g.drops = d
  BY <1>1 DEF Queue, QueueState
<1>3. frameCapacity # 0 => Len(g.queue) <= frameCapacity
  <2>1. Len(g.queue) = 0
    BY <1>1, <1>2, Zenon
  <2>2. frameCapacity # 0 => 0 <= frameCapacity
    BY DEF QueueAssumption
  <2> QED BY <2>1, <2>2, Zenon
<1>4. AsFifo(g) = Flow(w, 0, d)
  <2>1. AsFifo(g) = Flow(w \o <<>>, Len(<<>>) + 0, d)
    BY <1>2, Zenon DEF AsFifo, Flow
  <2>2. Len(<<>>) + 0 = 0
    BY <1>1
  <2> QED BY <1>1, <2>1, <2>2, Zenon
<1> QED BY <1>2, <1>3, <1>4, Zenon DEF QueueOK

\* The steps of a FIFO, field by field.
LEMMA AcceptFifo ==
  ASSUME NEW f, NEW u \in Nat, NEW r, NEW x \in Frames,
         ~(frameCapacity # 0 /\ u = frameCapacity + 1),
         NEW A, A = Flow(f, u, r), NEW B, B = Flow(Append(f, x), u + 1, r)
  PROVE  Fifo!FifoStep(A, B)
<1>1. ~Fifo!Full(A)
  BY DEF Fifo!Full, Flow
<1>2. B = [flow |-> Append(A.flow, x), unsent |-> A.unsent + 1, refused |-> A.refused]
  BY DEF Flow
<1> QED BY <1>1, <1>2, Zenon DEF Fifo!FifoStep, Fifo!Accept

LEMMA RefuseFifo ==
  ASSUME NEW f, NEW r, NEW u,  frameCapacity # 0, u = frameCapacity + 1,
         NEW A, A = Flow(f, u, r), NEW B, B = Flow(f, u, r + 1)
  PROVE  Fifo!FifoStep(A, B)
<1>1. Fifo!Full(A)
  BY DEF Fifo!Full, Flow
<1>2. B = [A EXCEPT !.refused = @ + 1]
  BY DEF Flow
<1> QED BY <1>1, <1>2, Zenon DEF Fifo!FifoStep, Fifo!Refuse

LEMMA FinishFifo ==
  ASSUME NEW f, NEW r, NEW u \in Nat, NEW A, A = Flow(f, u + 1, r), NEW B, B = Flow(f, u, r)
  PROVE  Fifo!FifoStep(A, B)
<1>1. A.unsent > 0 /\ B = [A EXCEPT !.unsent = @ - 1]
  BY DEF Flow
<1> QED BY <1>1, Zenon DEF Fifo!FifoStep, Fifo!Finish

LEMMA TakeFifo ==
  ASSUME NEW f, NEW r, NEW u, f # <<>>, Len(f) > u \/ (useCutThroughSwitching /\ Len(f) = u),
         NEW A, A = Flow(f, u, r), NEW B, B = Flow(Tail(f), u, r)
  PROVE  Fifo!FifoStep(A, B)
<1>1. A.flow = f /\ A.unsent = u /\ B = [A EXCEPT !.flow = Tail(A.flow)]
  <2>1. \A g : [A EXCEPT !.flow = g] = Flow(g, u, r)
    BY DEF Flow
  <2>2. A.flow = f /\ A.unsent = u
    BY DEF Flow
  <2> QED BY <2>1, <2>2, Zenon
<1> QED BY <1>1, Zenon DEF Fifo!FifoStep, Fifo!Take

-----------------------------------------------------------------------------
(* Each event of one interface.                                            *)

\* A frame that arrives at the interface: accepted at the end, or refused when
\* the interface is full.
LEMMA PutStep ==
  ASSUME NEW q, QueueOK(q), NEW x \in Frames, QueueAssumption
  PROVE  QueueOK(Put(q, x)) /\ Fifo!FifoStep(AsFifo(q), AsFifo(Put(q, x)))
<1> DEFINE a == q.queue
           w == q.wire
           d == q.drops
           g == Put(q, x)
<1>1. q \in QueueState /\ (frameCapacity # 0 => Len(a) <= frameCapacity)
  BY DEF QueueOK
<1>2. a \in Seq(Frames) /\ w \in Seq(Frames) /\ d \in Nat /\ Len(a) \in Nat
  <2>1. a \in Seq(Frames) /\ w \in Seq(Frames) /\ d \in Nat
    BY <1>1 DEF QueueState
  <2> QED BY <2>1, LenProperties
<1>3. CASE ~q.endTx
  <2>1. a = <<>> /\ q = Queue(<<>>, FALSE, w, d)
    BY <1>1, <1>3, QueueFields, Zenon DEF QueueOK, QueueState
  <2>2. AsFifo(q) = Flow(w, 0, d)
    BY <1>2, <2>1, IdleFifo, Zenon
  <2>3. g = Queue(a, TRUE, Append(w, x), d)
    BY <1>1, <1>3, <2>1, QueueFields, Zenon DEF Put
  <2>4. Append(w, x) \in Seq(Frames)
    BY <1>2
  <2>5. QueueOK(g) /\ AsFifo(g) = Flow(Append(w, x), 0 + 1, d)
    <3>1. QueueOK(g) /\ AsFifo(g) = Flow(Append(w, x) \o a, Len(a) + 1, d)
      BY <1>1, <1>2, <2>3, <2>4, SendingFifo, Zenon
    <3>2. Append(w, x) \o <<>> = Append(w, x) /\ Len(<<>>) = 0
      BY <1>2
    <3> QED BY <2>1, <3>1, <3>2, Zenon
  <2>6. 0 \in Nat /\ ~(frameCapacity # 0 /\ 0 = frameCapacity + 1)
    BY DEF QueueAssumption
  <2>7. Fifo!FifoStep(AsFifo(q), AsFifo(g))
    BY <2>2, <2>5, <2>6, AcceptFifo, Zenon
  <2> QED BY <2>5, <2>7
<1>4. CASE q.endTx
  <2>1. q = Queue(a, TRUE, w, d)
    BY <1>1, <1>4, QueueFields, Zenon DEF QueueState
  <2>2. AsFifo(q) = Flow(w \o a, Len(a) + 1, d)
    BY <1>1, <1>2, <2>1, SendingFifo, Zenon
  <2>3. CASE frameCapacity # 0 /\ Len(a) >= frameCapacity
    <3>1. g = Queue(a, TRUE, w, d + 1)
      <4>1. g = [q EXCEPT !.drops = q.drops + 1]
        BY <1>4, <2>3, Zenon DEF Put
      <4>2. g = Queue(a, q.endTx, w, d + 1)
        BY <1>1, <4>1, QueueFields, Zenon
      <4> QED BY <1>1, <1>4, <4>2, Zenon DEF QueueState
    <3>2. d + 1 \in Nat
      BY <1>2
    <3>3. QueueOK(g) /\ AsFifo(g) = Flow(w \o a, Len(a) + 1, d + 1)
      BY <1>1, <1>2, <3>1, <3>2, SendingFifo, Zenon
    <3>4. frameCapacity # 0 /\ Len(a) + 1 = frameCapacity + 1
      BY <1>1, <1>2, <2>3 DEF QueueAssumption
    <3>5. Fifo!FifoStep(AsFifo(q), AsFifo(g))
      BY <2>2, <3>3, <3>4, RefuseFifo, Zenon
    <3> QED BY <3>3, <3>5
  <2>4. CASE ~(frameCapacity # 0 /\ Len(a) >= frameCapacity)
    <3>1. g = Queue(Append(a, x), TRUE, w, d)
      <4>1. g = [q EXCEPT !.queue = Append(a, x)]
        BY <1>4, <2>4, Zenon DEF Put
      <4>2. g = Queue(Append(a, x), q.endTx, w, d)
        BY <1>1, <4>1, QueueFields, Zenon
      <4> QED BY <1>1, <1>4, <4>2, Zenon DEF QueueState
    <3>2. /\ Append(a, x) \in Seq(Frames) /\ Len(Append(a, x)) = Len(a) + 1
          /\ (Len(a) + 1) + 1 = Len(Append(a, x)) + 1
      BY <1>2
    <3>3. frameCapacity # 0 => Len(Append(a, x)) <= frameCapacity
      <4>1. frameCapacity # 0 => Len(a) + 1 <= frameCapacity
        BY <1>2, <2>4 DEF QueueAssumption
      <4> QED BY <3>2, <4>1, Zenon
    <3>4. w \o Append(a, x) = Append(w \o a, x)
      <4>1. \A s, t \in Seq(Frames) : s \o Append(t, x) = Append(s \o t, x)
        BY ConcatAppend
      <4> QED BY <1>2, <4>1, Zenon
    <3>5. QueueOK(g) /\ AsFifo(g) = Flow(Append(w \o a, x), (Len(a) + 1) + 1, d)
      <4>1. QueueOK(g) /\ AsFifo(g) = Flow(w \o Append(a, x), Len(Append(a, x)) + 1, d)
        BY <1>2, <3>1, <3>2, <3>3, SendingFifo, Zenon
      <4> QED BY <3>2, <3>4, <4>1, Zenon
    <3>6. Len(a) + 1 \in Nat /\ ~(frameCapacity # 0 /\ Len(a) + 1 = frameCapacity + 1)
      BY <1>2, <2>4 DEF QueueAssumption
    <3>7. Fifo!FifoStep(AsFifo(q), AsFifo(g))
      BY <2>2, <3>5, <3>6, AcceptFifo, Zenon
    <3> QED BY <3>5, <3>7
  <2> QED BY <2>3, <2>4
<1> QED BY <1>3, <1>4

\* The end of a transmission: one frame fewer is unsent, and the next one is
\* sent, if there is one.
LEMMA TransmissionStep ==
  ASSUME NEW q, QueueOK(q), q.endTx, QueueAssumption
  PROVE  /\ QueueOK(TransmissionFinished(q))
         /\ Fifo!FifoStep(AsFifo(q), AsFifo(TransmissionFinished(q)))
<1> DEFINE a == q.queue
           w == q.wire
           d == q.drops
           g == TransmissionFinished(q)
<1>1. q \in QueueState /\ (frameCapacity # 0 => Len(a) <= frameCapacity)
  BY DEF QueueOK
<1>2. a \in Seq(Frames) /\ w \in Seq(Frames) /\ d \in Nat /\ Len(a) \in Nat
  <2>1. a \in Seq(Frames) /\ w \in Seq(Frames) /\ d \in Nat
    BY <1>1 DEF QueueState
  <2> QED BY <2>1, LenProperties
<1>3. q = Queue(a, TRUE, w, d)
  BY <1>1, QueueFields, Zenon DEF QueueState
<1>4. AsFifo(q) = Flow(w \o a, Len(a) + 1, d)
  BY <1>1, <1>2, <1>3, SendingFifo, Zenon
<1>5. CASE a = <<>>
  <2>1. g = Queue(<<>>, FALSE, w, d)
    <3>1. g = [q EXCEPT !.endTx = FALSE]
      BY <1>5, Zenon DEF TransmissionFinished
    <3> QED BY <1>1, <1>5, <3>1, QueueFields, Zenon
  <2>2. QueueOK(g) /\ AsFifo(g) = Flow(w, 0, d)
    BY <1>2, <2>1, IdleFifo, Zenon
  <2>3. w \o <<>> = w /\ Len(<<>>) = 0 /\ 0 \in Nat
    BY <1>2
  <2>4. AsFifo(q) = Flow(w, 0 + 1, d)
    BY <1>4, <1>5, <2>3, Zenon
  <2>5. Fifo!FifoStep(AsFifo(q), AsFifo(g))
    BY <2>2, <2>3, <2>4, FinishFifo, Zenon
  <2> QED BY <2>2, <2>5
<1>6. CASE a # <<>>
  <2>1. /\ Head(a) \in Frames /\ Tail(a) \in Seq(Frames)
        /\ Len(Tail(a)) = Len(a) - 1 /\ Len(a) = Len(Tail(a)) + 1
    BY <1>2, <1>6, HeadTailProperties
  <2>2. g = Queue(Tail(a), TRUE, Append(w, Head(a)), d)
    <3>1. g = StartTransmitting([q EXCEPT !.queue = Tail(a)], Head(a))
      BY <1>6, Zenon DEF TransmissionFinished
    <3>2. [q EXCEPT !.queue = Tail(a)] = Queue(Tail(a), q.endTx, w, d)
      BY <1>1, QueueFields, Zenon
    <3> HIDE DEF g
    <3>3. g = StartTransmitting(Queue(Tail(a), q.endTx, w, d), Head(a))
      BY <3>1, <3>2, Zenon
    <3> QED BY <3>3 DEF StartTransmitting, Queue
  <2>3. Append(w, Head(a)) \in Seq(Frames)
    BY <1>2, <2>1, AppendProperties
  <2>4. w \o a = Append(w, Head(a)) \o Tail(a)
    BY <1>2, <1>6, MoveHead, Zenon
  <2>5. frameCapacity # 0 => Len(Tail(a)) <= frameCapacity
    <3>1. frameCapacity # 0 => Len(a) - 1 <= frameCapacity
      BY <1>1, <1>2 DEF QueueAssumption
    <3> QED BY <2>1, <3>1, Zenon
  <2>6. QueueOK(g) /\ AsFifo(g) = Flow(w \o a, Len(a), d)
    <3>1. QueueOK(g) /\ AsFifo(g) = Flow(Append(w, Head(a)) \o Tail(a), Len(Tail(a)) + 1, d)
      BY <1>2, <2>1, <2>2, <2>3, <2>5, SendingFifo, Zenon
    <3> QED BY <2>1, <2>4, <3>1, Zenon
  <2>7. Fifo!FifoStep(AsFifo(q), AsFifo(g))
    BY <1>2, <1>4, <2>6, FinishFifo, Zenon
  <2> QED BY <2>6, <2>7
<1> QED BY <1>5, <1>6

\* A frame that arrives at the other end is the oldest one, and has been sent
\* or is being sent.
LEMMA ArriveStep ==
  ASSUME NEW q, QueueOK(q), Arriving(q), QueueAssumption
  PROVE  QueueOK(PassUp(q)) /\ Fifo!FifoStep(AsFifo(q), AsFifo(PassUp(q)))
<1> DEFINE a == q.queue
           w == q.wire
           d == q.drops
           g == PassUp(q)
<1>1. q \in QueueState /\ (frameCapacity # 0 => Len(a) <= frameCapacity)
  BY DEF QueueOK
<1>2. a \in Seq(Frames) /\ w \in Seq(Frames) /\ d \in Nat /\ Len(a) \in Nat
  <2>1. a \in Seq(Frames) /\ w \in Seq(Frames) /\ d \in Nat
    BY <1>1 DEF QueueState
  <2> QED BY <2>1, LenProperties
<1>3. w # <<>> /\ g = Queue(a, q.endTx, Tail(w), d)
  BY <1>1, QueueFields, Zenon DEF Arriving
<1>4. Tail(w) \in Seq(Frames) /\ Len(w) \in Nat /\ Len(w) > 0
  BY <1>2, <1>3, HeadTailProperties, EmptySeq
<1>5. w \o a # <<>> /\ Tail(w) \o a = Tail(w \o a) /\ Len(w \o a) = Len(w) + Len(a)
  <2>1. w \o a # <<>> /\ Tail(w) \o a = Tail(w \o a)
    BY <1>2, <1>3, TailConcat, Zenon
  <2>2. Len(w \o a) = Len(w) + Len(a)
    BY <1>2, ConcatProperties
  <2> QED BY <2>1, <2>2
<1>6. CASE q.endTx
  <2>1. q = Queue(a, TRUE, w, d) /\ g = Queue(a, TRUE, Tail(w), d)
    BY <1>1, <1>3, <1>6, QueueFields, Zenon DEF QueueState
  <2>2. AsFifo(q) = Flow(w \o a, Len(a) + 1, d)
    BY <1>1, <1>2, <2>1, SendingFifo, Zenon
  <2>3. QueueOK(g) /\ AsFifo(g) = Flow(Tail(w \o a), Len(a) + 1, d)
    <3>1. QueueOK(g) /\ AsFifo(g) = Flow(Tail(w) \o a, Len(a) + 1, d)
      BY <1>1, <1>2, <1>4, <2>1, SendingFifo, Zenon
    <3> QED BY <1>5, <3>1, Zenon
  <2>4. Len(w \o a) > Len(a) + 1 \/ (useCutThroughSwitching /\ Len(w \o a) = Len(a) + 1)
    <3>1. CASE Len(w) > 1
      <4> HIDE DEF w, a
      <4> QED BY <1>2, <1>4, <1>5, <3>1
    <3>2. CASE ~(Len(w) > 1)
      <4>1. useCutThroughSwitching
        BY <1>6, <3>2, Zenon DEF Arriving
      <4>2. Len(w \o a) = Len(a) + 1
        <5>1. \A n \in Nat : n > 0 /\ ~(n > 1) => n = 1 /\ n + Len(a) = Len(a) + 1
          BY <1>2
        <5> QED BY <1>4, <1>5, <3>2, <5>1, Zenon
      <4> QED BY <4>1, <4>2
    <3> QED BY <3>1, <3>2
  <2>5. Fifo!FifoStep(AsFifo(q), AsFifo(g))
    BY <1>5, <2>2, <2>3, <2>4, TakeFifo, Zenon
  <2> QED BY <2>3, <2>5
<1>7. CASE ~q.endTx
  <2>1. q = Queue(<<>>, FALSE, w, d) /\ g = Queue(<<>>, FALSE, Tail(w), d)
    BY <1>1, <1>3, <1>7, QueueFields, Zenon DEF QueueOK, QueueState
  <2>2. AsFifo(q) = Flow(w, 0, d)
    BY <1>2, <2>1, IdleFifo, Zenon
  <2>3. QueueOK(g) /\ AsFifo(g) = Flow(Tail(w), 0, d)
    BY <1>2, <1>4, <2>1, IdleFifo, Zenon
  <2>4. Fifo!FifoStep(AsFifo(q), AsFifo(g))
    BY <1>3, <1>4, <2>2, <2>3, TakeFifo, Zenon
  <2> QED BY <2>3, <2>4
<1> QED BY <1>6, <1>7

-----------------------------------------------------------------------------
\* The events of all interfaces keep the invariant and are steps of the FIFOs.
LEMMA QueueStep ==
  ASSUME QueuesOK, [NextQueues]_l2, QueueAssumption
  PROVE  QueuesOK' /\ [Fifo!Next]_([l \in Lines |-> AsFifo(l2[l])])
<1>1. CASE UNCHANGED l2
  BY <1>1 DEF QueuesOK
<1>2. ASSUME NEW k \in Lines, NEW r, l2' = [l2 EXCEPT ![k] = r], QueueOK(r),
             Fifo!FifoStep(AsFifo(l2[k]), AsFifo(r))
      PROVE  QueuesOK' /\ Fifo!Next
  <2>1. l2[k] \in QueueState /\ r \in QueueState
    BY <1>2 DEF QueuesOK, QueueOK
  <2>2. l2' \in [Lines -> QueueState] /\ \A l \in Lines : l2'[l] = IF l = k THEN r ELSE l2[l]
    BY <1>2, <2>1 DEF QueuesOK
  <2>3. QueuesOK'
    BY <1>2, <2>2 DEF QueuesOK
  <2>4. \A l \in Lines : AsFifo(l2'[l]) = AsFifo(l2[l]) \/ Fifo!FifoStep(AsFifo(l2[l]), AsFifo(l2'[l]))
    BY <1>2, <2>2
  <2> QED BY <2>3, <2>4 DEF Fifo!Next
<1>3. ASSUME NEW k \in Lines, NEW x \in Frames, Enqueue(k, x)
      PROVE  QueuesOK' /\ Fifo!Next
  <2>1. QueueOK(l2[k]) /\ l2' = [l2 EXCEPT ![k] = Put(l2[k], x)]
    BY <1>3 DEF QueuesOK, Enqueue
  <2> QED BY <2>1, <1>2, PutStep
<1>4. ASSUME NEW k \in Lines, EndTransmission(k)
      PROVE  QueuesOK' /\ Fifo!Next
  <2>1. QueueOK(l2[k]) /\ l2[k].endTx /\ l2' = [l2 EXCEPT ![k] = TransmissionFinished(l2[k])]
    BY <1>4 DEF QueuesOK, EndTransmission
  <2> QED BY <2>1, <1>2, TransmissionStep
<1>5. ASSUME NEW k \in Lines, Arrive(k)
      PROVE  QueuesOK' /\ Fifo!Next
  <2>1. QueueOK(l2[k]) /\ Arriving(l2[k]) /\ l2' = [l2 EXCEPT ![k] = PassUp(l2[k])]
    BY <1>5 DEF QueuesOK, Arrive
  <2> QED BY <2>1, <1>2, ArriveStep
<1> QED BY <1>1, <1>3, <1>4, <1>5 DEF NextQueues

\* The interfaces of all lines implement the bounded FIFOs: frames are delivered
\* once and in order, and dropped only when frameCapacity frames wait.
THEOREM QueuesAreFifos == QueueSpec => FifoSpec
<1>1. InitQueues => QueuesOK /\ Fifo!Init
  <2> SUFFICES ASSUME InitQueues PROVE QueuesOK /\ Fifo!Init
    OBVIOUS
  <2>1. \A l \in Lines : l2[l] = [queue |-> <<>>, endTx |-> FALSE, wire |-> <<>>, drops |-> 0]
    BY DEF InitQueues
  <2>2. QueuesOK
    BY <2>1, QueueAssumption DEF InitQueues, QueuesOK, QueueOK, QueueState, QueueAssumption
  <2>3. \A l \in Lines : AsFifo(l2[l]) = Fifo!EmptyFifo
    <3> SUFFICES ASSUME NEW l \in Lines PROVE AsFifo(l2[l]) = Fifo!EmptyFifo
      OBVIOUS
    <3>1. l2[l] = Queue(<<>>, FALSE, <<>>, 0)
      BY <2>1, Zenon DEF Queue
    <3>2. <<>> \in Seq(Frames) /\ 0 \in Nat
      OBVIOUS
    <3>3. AsFifo(l2[l]) = Flow(<<>>, 0, 0)
      BY <3>1, <3>2, IdleFifo, QueueAssumption, Zenon
    <3> QED BY <3>3, Zenon DEF Flow, Fifo!EmptyFifo
  <2> QED BY <2>2, <2>3 DEF Fifo!Init
<1>2. QueuesOK /\ [NextQueues]_l2 => QueuesOK' /\ [Fifo!Next]_([l \in Lines |-> AsFifo(l2[l])])
  BY QueueStep, QueueAssumption
<1> QED BY <1>1, <1>2, PTL DEF QueueSpec, FifoSpec, Fifo!Spec
=============================================================================
