--------------------------- MODULE BoundedQueue ---------------------------
(***************************************************************************)
(* What a FreeRTOS queue promises to its users: a sequence of at most      *)
(* uxLength items which a call extends at one of its ends, overwrites,     *)
(* shortens at its head, looks at, or empties, always in one step.  How    *)
(* queue.c keeps the promise is the subject of KernelQueue.                *)
(***************************************************************************)
EXTENDS Naturals, Sequences

CONSTANTS Items,        \* what a queue can hold
          NoItem,       \* content of a buffer nothing was received into
          Readers,      \* whoever owns a receive buffer
          uxLength      \* capacity

VARIABLES items,        \* the queued items, oldest first
          buffer        \* buffer[r]: what the last receive or peek of r returned

vars == <<items, buffer>>

Init == /\ items = <<>>
        /\ buffer = [r \in Readers |-> NoItem]

PutBack == /\ Len(items) < uxLength
           /\ \E x \in Items : items' = Append(items, x)
           /\ UNCHANGED buffer

PutFront == /\ Len(items) < uxLength
            /\ \E x \in Items : items' = <<x>> \o items
            /\ UNCHANGED buffer

(* Only a queue of length one can be overwritten.                          *)
Overwrite == /\ uxLength = 1
             /\ \E x \in Items : items' = <<x>>
             /\ UNCHANGED buffer

Take == /\ items # <<>>
        /\ items' = Tail(items)
        /\ \E r \in Readers : buffer' = [buffer EXCEPT ![r] = Head(items)]

(* An interrupt handler receives into a buffer of its own.                 *)
TakeFromISR == /\ items # <<>>
               /\ items' = Tail(items)
               /\ UNCHANGED buffer

Peek == /\ items # <<>>
        /\ \E r \in Readers : buffer' = [buffer EXCEPT ![r] = Head(items)]
        /\ UNCHANGED items

Reset == /\ items' = <<>>
         /\ UNCHANGED buffer

Next == \/ PutBack
        \/ PutFront
        \/ Overwrite
        \/ Take
        \/ TakeFromISR
        \/ Peek
        \/ Reset

Spec == Init /\ [][Next]_vars
===========================================================================
