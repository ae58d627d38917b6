------------------------------ MODULE EventRing ------------------------------
(***************************************************************************)
(* EventQueue of keyboard.rs and of mouse.rs: a ring with head and tail,   *)
(* full when one slot is left, and the queue it stands for.                *)
(***************************************************************************)
EXTENDS Integers, Sequences

CONSTANT None

Ring(n) == [buf |-> [i \in 0..(n - 1) |-> None], head |-> 0, tail |-> 0, size |-> n]

\* Mutant: the full ring is not noticed.
Push_Unchecked(r, e) ==
    [r EXCEPT !.buf[r.head] = e, !.head = (@ + 1) % r.size]

Push(r, e) ==
    LET next == (r.head + 1) % r.size
    IN  IF next = r.tail THEN r ELSE [r EXCEPT !.buf[r.head] = e, !.head = next]

IsEmpty(r) == r.head = r.tail
Front1(r) == r.buf[r.tail]

\* The n oldest are gone; what their slots held is never looked at again.
Popped(r, n) ==
    [r EXCEPT !.tail = (@ + n) % r.size,
              !.buf = [i \in DOMAIN @ |-> IF (i + r.size - r.tail) % r.size < n THEN None ELSE @[i]]]

\* The events between tail and head, oldest first.
Held(r) == [i \in 1..((r.head + r.size - r.tail) % r.size) |-> r.buf[(r.tail + i - 1) % r.size]]

\* A queue of at most one less than the ring's size, which drops the newest.
Queued(q, e, n) == IF e # None /\ Len(q) < n - 1 THEN Append(q, e) ELSE q

==============================================================================
