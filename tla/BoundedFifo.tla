----------------------------- MODULE BoundedFifo -----------------------------
(***************************************************************************)
(* What an interface promises its node (node/L2Queue.ned): every frame it  *)
(* accepts reaches the other end of its line, once and in order.  A frame  *)
(* is refused only when frameCapacity frames wait and one is being sent.   *)
(***************************************************************************)
EXTENDS Naturals, Sequences

CONSTANTS Lines,                  \* the directed lines
          Frames,                 \* the frames
          frameCapacity,          \* how many may wait; 0 for no limit
          useCutThroughSwitching  \* is a frame passed up before its end is received?

VARIABLE fifo  \* of each line: the frames accepted and not yet taken, how many
               \* of them are not yet sent completely, and how many were refused

EmptyFifo == [flow |-> <<>>, unsent |-> 0, refused |-> 0]

Full(f) == frameCapacity # 0 /\ f.unsent = frameCapacity + 1

Accept(f, g) == \E x \in Frames :
  /\ ~Full(f)
  /\ g = [flow |-> Append(f.flow, x), unsent |-> f.unsent + 1, refused |-> f.refused]

Refuse(f, g) == Full(f) /\ g = [f EXCEPT !.refused = @ + 1]

Finish(f, g) == f.unsent > 0 /\ g = [f EXCEPT !.unsent = @ - 1]

\* the oldest frame is taken at the other end, when it has been sent or, with
\* cut-through switching, while it is
Take(f, g) ==
  /\ f.flow # <<>>
  /\ Len(f.flow) > f.unsent \/ (useCutThroughSwitching /\ Len(f.flow) = f.unsent)
  /\ g = [f EXCEPT !.flow = Tail(@)]

FifoStep(f, g) == Accept(f, g) \/ Refuse(f, g) \/ Finish(f, g) \/ Take(f, g)

Init == fifo = [l \in Lines |-> EmptyFifo]

Next == \A l \in Lines : fifo'[l] = fifo[l] \/ FifoStep(fifo[l], fifo'[l])

Spec == Init /\ [][Next]_fifo
=============================================================================
