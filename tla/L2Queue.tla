------------------------------- MODULE L2Queue -------------------------------
(***************************************************************************)
(* The point-to-point interface of a node (node/L2Queue.cc), one for each  *)
(* directed line.  While a frame is transmitted, others wait in the queue; *)
(* the end of a transmission starts the next one.                          *)
(***************************************************************************)
EXTENDS Naturals, Sequences

CONSTANTS Lines,                  \* the directed lines
          Frames,                 \* the frames
          frameCapacity,          \* frames that may wait; 0 for no limit
          useCutThroughSwitching  \* setDeliverImmediately

ASSUME QueueAssumption == frameCapacity \in Nat /\ useCutThroughSwitching \in BOOLEAN

VARIABLE l2  \* of each line: the queue; whether endTransmissionEvent is
             \* scheduled (isBusy says the same after each event); the frames
             \* on the wire; how often dropSignal was emitted

QueueState == [queue : Seq(Frames), endTx : BOOLEAN, wire : Seq(Frames), drops : Nat]

InitQueues == l2 = [l \in Lines |-> [queue |-> <<>>, endTx |-> FALSE, wire |-> <<>>, drops |-> 0]]

StartTransmitting(q, x) ==
  [queue |-> q.queue, endTx |-> TRUE, wire |-> Append(q.wire, x), drops |-> q.drops]

\* mutant: the frame that has come last is sent first
NextFromBack(q) ==
  IF q.queue = <<>> THEN [q EXCEPT !.endTx = FALSE]
  ELSE StartTransmitting([q EXCEPT !.queue = SubSeq(@, 1, Len(@) - 1)], q.queue[Len(q.queue)])

\* endTransmissionEvent
TransmissionFinished(q) ==
  IF q.queue = <<>> THEN [q EXCEPT !.endTx = FALSE]
  ELSE StartTransmitting([q EXCEPT !.queue = Tail(@)], Head(q.queue))

\* a frame x arrives on gate "in"
Put(q, x) ==
  IF ~q.endTx THEN StartTransmitting(q, x)
  ELSE IF frameCapacity # 0 /\ Len(q.queue) >= frameCapacity THEN [q EXCEPT !.drops = @ + 1]
  ELSE [q EXCEPT !.queue = Append(@, x)]

\* may the oldest frame on the wire arrive on "line$i" of the other end?
Arriving(q) == q.wire # <<>> /\ (useCutThroughSwitching \/ ~q.endTx \/ Len(q.wire) > 1)

PassUp(q) == [q EXCEPT !.wire = Tail(@)]

Enqueue(l, x)      == l2' = [l2 EXCEPT ![l] = Put(@, x)]
EndTransmission(l) == l2[l].endTx /\ l2' = [l2 EXCEPT ![l] = TransmissionFinished(@)]
Arrive(l)          == Arriving(l2[l]) /\ l2' = [l2 EXCEPT ![l] = PassUp(@)]

NextQueues == \E l \in Lines : (\E x \in Frames : Enqueue(l, x)) \/ EndTransmission(l) \/ Arrive(l)

QueueSpec == InitQueues /\ [][NextQueues]_l2

-----------------------------------------------------------------------------
(* The interfaces are bounded FIFOs.                                       *)
AsFifo(q) == [flow |-> q.wire \o q.queue,
              unsent |-> Len(q.queue) + (IF q.endTx THEN 1 ELSE 0),
              refused |-> q.drops]

Fifo == INSTANCE BoundedFifo WITH fifo <- [l \in Lines |-> AsFifo(l2[l])]

\* Each line delivers the frames it has accepted once and in order, whatever the
\* order of arrivals and ends of transmissions; it sends one at a time, and
\* drops one only when frameCapacity frames wait (L2Queue.ned: "Packets that
\* arrive while a previous packet is being transmitted are queued up").
FifoSpec == Fifo!Spec
=============================================================================
