-------------------------------- MODULE Fifo --------------------------------
(***************************************************************************)
(* What a lock free queue promises to the two threads on either side of    *)
(* it: a bounded first-in first-out channel.  A value is handed over by    *)
(* Put, and Take delivers the oldest value not yet delivered.              *)
(***************************************************************************)
EXTENDS Naturals, Sequences

CONSTANTS Values,   \* the elements the writer may enqueue
          Bound,    \* the largest backlog
          Nothing   \* what the reader has before its first element

VARIABLES queue,    \* elements put and not yet taken
          last      \* the element taken last

vars == <<queue, last>>

Init == /\ queue = <<>>
        /\ last = Nothing

Put(v) == /\ Len(queue) < Bound
          /\ queue' = Append(queue, v)
          /\ UNCHANGED last

Take == /\ queue # <<>>
        /\ last' = Head(queue)
        /\ queue' = Tail(queue)

Next == (\E v \in Values : Put(v)) \/ Take

Spec == Init /\ [][Next]_vars

\* The reader's thread keeps polling, so a queued element is taken in the end.
FairSpec == Spec /\ WF_vars(Take)
=============================================================================
