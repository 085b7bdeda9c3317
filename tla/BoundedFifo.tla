------------------------------ MODULE BoundedFifo ------------------------------
(***************************************************************************)
(* What spsc_queue<T, Capacity> promises its callers: a first-in first-out *)
(* queue of at most Bound items.  A push that is accepted puts its item at *)
(* the back in one atomic step; a pop that returns an item takes it from   *)
(* the front in one atomic step.  A refused push and an empty pop change   *)
(* nothing.                                                                *)
(***************************************************************************)
EXTENDS Naturals, Sequences

CONSTANTS
    Items,  \* what can be queued
    Bound   \* how many items fit

VARIABLES
    content,    \* the queued items, front first
    out         \* the item the last successful pop returned

fifoVars == <<content, out>>

FifoInit(noItem) ==
    /\ content = << >>
    /\ out = noItem

Enqueue(item) ==
    /\ Len(content) < Bound
    /\ content' = Append(content, item)
    /\ UNCHANGED out

Dequeue ==
    /\ content # << >>
    /\ out' = Head(content)
    /\ content' = Tail(content)

FifoNext == Dequeue \/ \E item \in Items : Enqueue(item)
================================================================================
