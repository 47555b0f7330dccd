------------------------------ MODULE BoundedQueue ------------------------------
(***************************************************************************)
(* What the agent and its plugins promise of whatever one thread passes to *)
(* another: the items come out in the order in which they went in, each    *)
(* once, and no more than capacity of them wait at a time.  Where Lossy,   *)
(* the item whose turn it is may be lost, or all that wait together.       *)
(***************************************************************************)
EXTENDS Naturals, Sequences

CONSTANTS Items, capacity, Lossy

VARIABLES queue, out

queueVars == <<queue, out>>

Init == queue = <<>> /\ out = <<>>

Put(item) ==
  /\ Len(queue) < capacity
  /\ queue' = Append(queue, item)
  /\ UNCHANGED out

Take ==
  /\ queue # <<>>
  /\ out' = Append(out, Head(queue))
  /\ queue' = Tail(queue)

Drop == Lossy /\ queue # <<>> /\ queue' = Tail(queue) /\ UNCHANGED out

Lose == Lossy /\ queue' = <<>> /\ UNCHANGED out

Next == (\E item \in Items : Put(item)) \/ Take \/ Drop \/ Lose

Spec == Init /\ [][Next]_queueVars
=============================================================================
