---------------------------- MODULE DropOldestQueue ----------------------------
(***************************************************************************)
(* What the acquisition buffer promises (Buffer.h): a queue of at most Cap *)
(* items that makes room by giving up its oldest item and counts the items *)
(* given up.  RingBuffer implements it.                                    *)
(***************************************************************************)
EXTENDS Naturals, Sequences

CONSTANT Cap  \* the most items kept

VARIABLES
  items,   \* oldest first
  dropped  \* items given up since the queue was made

Put(x) ==
  IF Len(items) < Cap
  THEN items' = Append(items, x) /\ dropped' = dropped
  ELSE items' = Append(Tail(items), x) /\ dropped' = dropped + 1

\* Any item may be put: the one that is last afterwards.
PutSome == items' # <<>> /\ Put(items'[Len(items')])

TakeAll == items' = <<>> /\ dropped' = dropped

\* A new queue.
Reset == items' = <<>> /\ dropped' = 0

Init == items = <<>> /\ dropped = 0

Next == PutSome \/ TakeAll \/ Reset

Spec == Init /\ [][Next]_<<items, dropped>>

=============================================================================
