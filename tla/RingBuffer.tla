------------------------------ MODULE RingBuffer ------------------------------
(***************************************************************************)
(* The ring of records between the poller and the upload (Buffer.cpp), as  *)
(* operators on its members.  The capacity is that of the constructor:     *)
(* nothing resizes a ring.                                                 *)
(***************************************************************************)
EXTENDS Naturals, Sequences

CONSTANTS
  Cap,   \* _cap
  Blank  \* what a slot holds before it is used

ASSUME CapAssumption == Cap \in Nat \ {0}

EmptyRing ==
  [buf |-> [i \in 0..Cap - 1 |-> Blank], head |-> 0, tail |-> 0, size |-> 0, dropped |-> 0]

Step(i) == (i + 1) % Cap

Full(b) == b.size = Cap

\* Mutant: a full ring overwrites its oldest record and leaves the tail on it.
PushedTailStays(b, r) ==
  [buf |-> [b.buf EXCEPT ![b.head] = r],
   head |-> Step(b.head),
   tail |-> b.tail,
   size |-> IF Full(b) THEN b.size ELSE b.size + 1,
   dropped |-> IF Full(b) THEN b.dropped + 1 ELSE b.dropped]

\* push: a full ring overwrites its oldest record.
Pushed(b, r) ==
  [buf |-> [b.buf EXCEPT ![b.head] = r],
   head |-> Step(b.head),
   tail |-> IF Full(b) THEN Step(b.tail) ELSE b.tail,
   size |-> IF Full(b) THEN b.size ELSE b.size + 1,
   dropped |-> IF Full(b) THEN b.dropped + 1 ELSE b.dropped]

\* What drainTo appends to its argument, and the ring it leaves.
Contents(b) == [i \in 1..b.size |-> b.buf[(b.tail + (i - 1)) % Cap]]

Drained(b) == [b EXCEPT !.tail = (b.tail + b.size) % Cap, !.size = 0]

=============================================================================
