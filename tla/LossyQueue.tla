----------------------------- MODULE LossyQueue -----------------------------
(***************************************************************************)
(* What a sound buffer promises: a first-in first-out queue that refuses   *)
(* no item and forgets its oldest ones instead. A step clears the queue,   *)
(* or takes at most one item and then gives at most MaxGiven.              *)
(***************************************************************************)
EXTENDS Naturals, Sequences

CONSTANTS Capacity, MaxGiven

VARIABLE queue

Newest(items) ==
  IF Len(items) <= Capacity THEN items
  ELSE SubSeq(items, Len(items) - Capacity + 1, Len(items))

\* The items a step gives end up at the end of the queue.
Given == {SubSeq(queue', n, Len(queue')) : n \in {m \in 1 .. Len(queue') + 1 :
                                                    Len(queue') + 1 - m <= MaxGiven}}

Init == queue = <<>>

Clear == queue' = <<>>
Put == \E given \in Given : queue' = Newest(queue \o given)
TakeAndPut == queue # <<>> /\ \E given \in Given : queue' = Newest(Tail(queue) \o given)

Spec == Init /\ [][Clear \/ Put \/ TakeAndPut]_queue
=============================================================================
