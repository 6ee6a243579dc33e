---------------------------- MODULE TelemetryProofs ----------------------------
(***************************************************************************)
(* Three things, for every capacity and whatever the tasks and the faults  *)
(* do.  The ring of the device is a queue that drops its oldest record.    *)
(* The server decodes every batch to what the device compressed: to do     *)
(* so, the codec is proved from the digits up.  And every record captured  *)
(* is in one place, in order, or was given up, and is shown with the       *)
(* values the inverter returned.                                           *)
(***************************************************************************)
EXTENDS Telemetry, SequenceTheorems, FiniteSetTheorems, TLAPS

\* The indices agree: what makes the ring a queue.
RingInv(b) ==
  /\ DOMAIN b = {"buf", "head", "tail", "size", "dropped"}
  /\ DOMAIN b.buf = 0..Cap - 1
  /\ b.head \in 0..Cap - 1 /\ b.tail \in 0..Cap - 1 /\ b.size \in 0..Cap
  /\ b.head = (b.tail + b.size) % Cap

\* What % Cap does to the sum of two indices.
Wrap(x) == IF x < Cap THEN x ELSE x - Cap

\* The modulus of a sum below twice the capacity.
LEMMA Wrapped ==
  ASSUME NEW x \in Nat, x < 2 * Cap
  PROVE  x % Cap = Wrap(x)
  BY CapAssumption DEF Wrap

\* Indices that wrap: they stay in the ring, a step adds one, a full turn adds
\* nothing, and different elements are in different slots.
LEMMA WrapArithmetic ==
  ASSUME NEW t \in 0..Cap - 1
  PROVE  /\ \A k \in 0..Cap : Wrap(t + k) \in 0..Cap - 1
         /\ Wrap(t + Cap) = t
         /\ \A k \in 0..Cap - 1 : Wrap(Wrap(t + k) + 1) = Wrap(t + (k + 1))
         /\ \A k \in 1..Cap : Wrap(Wrap(t + 1) + (k - 1)) = Wrap(t + k)
         /\ \A k \in 1..Cap - 1 : Wrap(t + k) # t
         /\ \A j, k \in 0..Cap - 1 : j # k => Wrap(t + j) # Wrap(t + k)
<1>1. Cap \in Nat \ {0} /\ t \in Nat
  BY CapAssumption
<1>2. \A k \in 0..Cap : Wrap(t + k) \in 0..Cap - 1
  BY <1>1 DEF Wrap
<1>3. Wrap(t + Cap) = t
  BY <1>1 DEF Wrap
<1>4. \A k \in 0..Cap - 1 : Wrap(Wrap(t + k) + 1) = Wrap(t + (k + 1))
  BY <1>1 DEF Wrap
<1>5. \A k \in 1..Cap : Wrap(Wrap(t + 1) + (k - 1)) = Wrap(t + k)
  BY <1>1 DEF Wrap
<1>6. \A j, k \in 0..Cap - 1 : j # k => Wrap(t + j) # Wrap(t + k)
  BY <1>1 DEF Wrap
<1>7. \A k \in 1..Cap - 1 : Wrap(t + k) # t
  BY <1>1 DEF Wrap
<1> QED
  BY <1>2, <1>3, <1>4, <1>5, <1>6, <1>7

\* RingInv without the modulus.
LEMMA RingFacts ==
  ASSUME NEW b, RingInv(b)
  PROVE  /\ b.head \in 0..Cap - 1 /\ b.tail \in 0..Cap - 1 /\ b.size \in 0..Cap
         /\ Cap \in Nat \ {0}
         /\ b.head = Wrap(b.tail + b.size)
         /\ \A i \in 1..Cap : (b.tail + (i - 1)) % Cap = Wrap(b.tail + (i - 1))
<1>1. b.head \in 0..Cap - 1 /\ b.tail \in 0..Cap - 1 /\ b.size \in 0..Cap /\ Cap \in Nat \ {0}
  BY CapAssumption DEF RingInv
<1>2. b.head = (b.tail + b.size) % Cap
  BY DEF RingInv
<1>3. b.tail + b.size \in Nat /\ b.tail + b.size < 2 * Cap
  BY <1>1
<1>4. \A i \in 1..Cap : b.tail + (i - 1) \in Nat /\ b.tail + (i - 1) < 2 * Cap
  BY <1>1
<1> QED
  BY <1>1, <1>2, <1>3, <1>4, Wrapped

-----------------------------------------------------------------------------
(* The operations of the ring.                                             *)

\* A new ring holds nothing.
LEMMA EmptyRingOk == RingInv(EmptyRing) /\ Contents(EmptyRing) = <<>>
  BY CapAssumption, Wrapped DEF RingInv, EmptyRing, Contents

\* The slots of a ring, in order, are a sequence.
LEMMA ContentsSeq ==
  ASSUME NEW b, RingInv(b), NEW S, \A i \in 0..Cap - 1 : b.buf[i] \in S
  PROVE  Contents(b) \in Seq(S) /\ Len(Contents(b)) = b.size
<1>1. \A i \in 1..b.size : (b.tail + (i - 1)) % Cap \in 0..Cap - 1
  BY CapAssumption DEF RingInv
<1>2. Contents(b) \in [1..b.size -> S]
  BY <1>1 DEF Contents
<1>3. b.size \in Nat
  BY CapAssumption DEF RingInv
<1> QED
  BY <1>2, <1>3

\* The members after push, without the modulus.
LEMMA PushedFields ==
  ASSUME NEW b, RingInv(b), NEW r, NEW c, c = Pushed(b, r)
  PROVE  /\ DOMAIN c = {"buf", "head", "tail", "size", "dropped"} /\ DOMAIN c.buf = 0..Cap - 1
         /\ \A i \in 0..Cap - 1 : c.buf[i] = IF i = b.head THEN r ELSE b.buf[i]
         /\ c.head = Wrap(b.head + 1)
         /\ c.tail = IF b.size = Cap THEN Wrap(b.tail + 1) ELSE b.tail
         /\ c.size = IF b.size = Cap THEN Cap ELSE b.size + 1
         /\ c.dropped = IF b.size = Cap THEN b.dropped + 1 ELSE b.dropped
<1>1. \A i \in 0..Cap - 1 : Step(i) = Wrap(i + 1)
  <2>1. \A i \in 0..Cap - 1 : i + 1 \in Nat /\ i + 1 < 2 * Cap
    BY CapAssumption
  <2> QED
    BY <2>1, Wrapped DEF Step
<1>2. b.head \in 0..Cap - 1 /\ b.tail \in 0..Cap - 1
  BY RingFacts
<1>3. Step(b.head) = Wrap(b.head + 1) /\ Step(b.tail) = Wrap(b.tail + 1)
  BY <1>1, <1>2
<1> QED
  BY <1>2, <1>3 DEF RingInv, Pushed, Full

\* A push leaves the indices in agreement.
LEMMA PushedOk ==
  ASSUME NEW b, RingInv(b), NEW r
  PROVE  RingInv(Pushed(b, r))
<1>1. PICK c : c = Pushed(b, r)
  OBVIOUS
<1>2. /\ c.head = Wrap(b.head + 1) /\ c.tail = IF b.size = Cap THEN Wrap(b.tail + 1) ELSE b.tail
      /\ c.size = IF b.size = Cap THEN Cap ELSE b.size + 1
  BY <1>1, PushedFields
<1>3. /\ b.head \in 0..Cap - 1 /\ b.tail \in 0..Cap - 1 /\ b.size \in 0..Cap
      /\ Cap \in Nat \ {0} /\ b.head = Wrap(b.tail + b.size)
  BY RingFacts
<1>4. /\ c.head \in 0..Cap - 1 /\ c.tail \in 0..Cap - 1 /\ c.size \in 0..Cap
      /\ c.head = Wrap(c.tail + c.size)
  <2>1. CASE b.size = Cap
    <3>1. b.head = b.tail
      BY <1>3, <2>1, WrapArithmetic
    <3>2. c.size = Cap /\ c.head = c.tail /\ c.head \in 0..Cap - 1
      <4>1. 1 \in 0..Cap
        BY <1>3
      <4>2. Wrap(b.head + 1) \in 0..Cap - 1
        BY <4>1, <1>3, WrapArithmetic
      <4> QED
        BY <4>2, <3>1, <1>2, <2>1
    <3>3. Wrap(c.tail + Cap) = c.tail /\ Cap \in 0..Cap
      BY <3>2, <1>3, WrapArithmetic
    <3> QED
      BY <3>2, <3>3
  <2>2. CASE b.size # Cap
    <3>1. b.size \in 0..Cap - 1 /\ b.size + 1 \in 0..Cap
      BY <2>2, <1>3
    <3>2. Wrap(Wrap(b.tail + b.size) + 1) = Wrap(b.tail + (b.size + 1))
      BY <3>1, <1>3, WrapArithmetic
    <3>3. Wrap(b.tail + (b.size + 1)) \in 0..Cap - 1
      BY <3>1, <1>3, WrapArithmetic
    <3> QED
      BY <3>1, <3>2, <3>3, <2>2, <1>2, <1>3
  <2> QED
    BY <2>1, <2>2
<1>5. (c.tail + c.size) % Cap = Wrap(c.tail + c.size)
  <2>1. c.tail + c.size \in Nat /\ c.tail + c.size < 2 * Cap
    BY <1>3, <1>4
  <2> QED
    BY <2>1, Wrapped
<1> QED
  BY <1>1, <1>4, <1>5, PushedFields DEF RingInv

\* Where the queue's elements are after a push.
LEMMA PushedSlots ==
  ASSUME NEW b, RingInv(b), NEW r, NEW c, c = Pushed(b, r), NEW i \in 1..c.size
  PROVE  Contents(c)[i] = IF i = c.size THEN r
                          ELSE IF b.size = Cap THEN Contents(b)[i + 1] ELSE Contents(b)[i]
<1>1. /\ c.tail = IF b.size = Cap THEN Wrap(b.tail + 1) ELSE b.tail
      /\ c.size = IF b.size = Cap THEN Cap ELSE b.size + 1
      /\ \A k \in 0..Cap - 1 : c.buf[k] = IF k = b.head THEN r ELSE b.buf[k]
  BY PushedFields
<1>2. /\ b.head \in 0..Cap - 1 /\ b.tail \in 0..Cap - 1 /\ b.size \in 0..Cap
      /\ Cap \in Nat \ {0} /\ b.head = Wrap(b.tail + b.size)
  BY RingFacts
<1>3. RingInv(c)
  BY PushedOk
<1>4. i \in 1..Cap /\ i \in Int /\ c.size \in 1..Cap
  BY <1>1, <1>2
<1> DEFINE at == Wrap(c.tail + (i - 1))
<1>5. Contents(c)[i] = c.buf[at]
  <2>1. (c.tail + (i - 1)) % Cap = at
    BY <1>3, <1>4, RingFacts
  <2> QED
    BY <2>1 DEF Contents
<1>6. \A k \in 1..b.size : Contents(b)[k] = b.buf[Wrap(b.tail + (k - 1))]
  <2>1. \A k \in 1..Cap : (b.tail + (k - 1)) % Cap = Wrap(b.tail + (k - 1))
    BY RingFacts
  <2>2. \A k \in 1..b.size : k \in 1..Cap
    BY <1>2
  <2>3. \A k \in 1..b.size : Contents(b)[k] = b.buf[(b.tail + (k - 1)) % Cap]
    BY DEF Contents
  <2> QED
    BY <2>1, <2>2, <2>3
<1>7. at \in 0..Cap - 1
  <2>1. c.tail \in 0..Cap - 1 /\ i - 1 \in 0..Cap
    BY <1>3, <1>4, RingFacts
  <2> QED
    BY <2>1, WrapArithmetic
<1>8. CASE i = c.size
  <2>1. at = b.head
    <3>1. CASE b.size = Cap
      <4>1. i = Cap /\ Cap \in 1..Cap /\ c.tail = Wrap(b.tail + 1)
        BY <3>1, <1>1, <1>2, <1>8
      <4>2. Wrap(Wrap(b.tail + 1) + (Cap - 1)) = Wrap(b.tail + Cap)
        BY <4>1, <1>2, WrapArithmetic
      <4> QED
        BY <4>1, <4>2, <3>1, <1>2
    <3>2. CASE b.size # Cap
      <4>1. i - 1 = b.size /\ c.tail = b.tail
        BY <3>2, <1>1, <1>2, <1>8
      <4> QED
        BY <4>1, <1>2
    <3> QED
      BY <3>1, <3>2
  <2> HIDE DEF at
  <2> QED
    BY <2>1, <1>1, <1>5, <1>7, <1>8
<1>9. CASE i # c.size /\ b.size = Cap
  <2>1. i \in 1..Cap - 1 /\ i \in 1..Cap /\ i + 1 \in 1..Cap /\ (i + 1) - 1 = i
    BY <1>1, <1>2, <1>4, <1>9
  <2>2. at = Wrap(b.tail + i)
    BY <2>1, <1>1, <1>2, <1>4, <1>9, WrapArithmetic
  <2>3. b.head = b.tail
    BY <1>2, <1>9, WrapArithmetic
  <2>4. at # b.head
    BY <2>1, <2>2, <2>3, <1>2, WrapArithmetic
  <2>5. Contents(b)[i + 1] = b.buf[at]
    BY <2>1, <2>2, <1>6, <1>9
  <2> HIDE DEF at
  <2> QED
    BY <2>4, <2>5, <1>1, <1>5, <1>7, <1>9
<1>10. CASE i # c.size /\ b.size # Cap
  <2>1. /\ c.tail = b.tail /\ i \in 1..b.size
        /\ i - 1 \in 0..Cap - 1 /\ b.size \in 0..Cap - 1 /\ i - 1 # b.size
    BY <1>1, <1>2, <1>4, <1>10
  <2>2. at # b.head
    <3>1. \A j, k \in 0..Cap - 1 : j # k => Wrap(b.tail + j) # Wrap(b.tail + k)
      BY <1>2, WrapArithmetic
    <3>2. Wrap(b.tail + (i - 1)) # Wrap(b.tail + b.size)
      BY <3>1, <2>1
    <3> QED
      BY <3>2, <2>1, <1>2
  <2>3. Contents(b)[i] = b.buf[at]
    BY <2>1, <1>6
  <2> HIDE DEF at
  <2> QED
    BY <2>2, <2>3, <1>1, <1>5, <1>7, <1>10
<1> QED
  BY <1>8, <1>9, <1>10

\* Pushing puts the record at the end of the queue; a full ring gives up its first.
LEMMA PushedContents ==
  ASSUME NEW b, RingInv(b), NEW r
  PROVE  Contents(Pushed(b, r))
           = Append(IF b.size = Cap THEN Tail(Contents(b)) ELSE Contents(b), r)
<1>1. PICK c : c = Pushed(b, r)
  OBVIOUS
<1>2. PICK S : S = {b.buf[i] : i \in 0..Cap - 1} \cup {r}
  OBVIOUS
<1>3. PICK q : q = Contents(b)
  OBVIOUS
<1>4. PICK kept : kept = IF b.size = Cap THEN Tail(q) ELSE q
  OBVIOUS
<1>5. /\ c.size = IF b.size = Cap THEN Cap ELSE b.size + 1
      /\ \A i \in 0..Cap - 1 : c.buf[i] = IF i = b.head THEN r ELSE b.buf[i]
  BY <1>1, PushedFields
<1>6. q \in Seq(S) /\ Len(q) = b.size /\ Contents(c) \in Seq(S) /\ Len(Contents(c)) = c.size
  <2>1. \A i \in 0..Cap - 1 : b.buf[i] \in S /\ c.buf[i] \in S
    BY <1>2, <1>5
  <2> QED
    BY <2>1, <1>1, <1>3, PushedOk, ContentsSeq
<1>7. b.size \in 0..Cap /\ Cap \in Nat \ {0} /\ r \in S
  BY <1>2, RingFacts
<1>8. /\ kept \in Seq(S) /\ Len(kept) = c.size - 1
      /\ \A i \in 1..Len(kept) : kept[i] = IF b.size = Cap THEN q[i + 1] ELSE q[i]
  <2>1. CASE b.size = Cap
    <3>1. q # <<>>
      BY <2>1, <1>6, <1>7
    <3> QED
      BY <2>1, <3>1, <1>4, <1>5, <1>6, <1>7, HeadTailProperties
  <2>2. CASE b.size # Cap
    BY <2>2, <1>4, <1>5, <1>6, <1>7
  <2> QED
    BY <2>1, <2>2
<1>9. /\ Append(kept, r) \in Seq(S) /\ Len(Append(kept, r)) = c.size
      /\ \A i \in 1..c.size : Append(kept, r)[i] = IF i = c.size THEN r ELSE kept[i]
  <2>1. c.size \in Nat \ {0}
    BY <1>5, <1>7
  <2> QED
    BY <2>1, <1>7, <1>8
<1>10. ASSUME NEW i \in 1..c.size
       PROVE  Contents(c)[i] = Append(kept, r)[i]
  <2>1. i # c.size => i \in 1..Len(kept)
    BY <1>5, <1>7, <1>8
  <2>2. Contents(c)[i] = IF i = c.size THEN r ELSE IF b.size = Cap THEN q[i + 1] ELSE q[i]
    BY <1>1, <1>3, PushedSlots
  <2> QED
    BY <2>1, <2>2, <1>8, <1>9
<1>11. Contents(c) = Append(kept, r)
  BY <1>6, <1>9, <1>10, SeqEqual
<1> QED
  BY <1>1, <1>3, <1>4, <1>11

\* A drain leaves an empty ring that has counted the same drops.
LEMMA DrainedOk ==
  ASSUME NEW b, RingInv(b)
  PROVE  /\ RingInv(Drained(b)) /\ Contents(Drained(b)) = <<>>
         /\ Drained(b).dropped = b.dropped
<1> DEFINE c == Drained(b)
<1>1. /\ DOMAIN c = DOMAIN b /\ c.buf = b.buf /\ c.head = b.head /\ c.dropped = b.dropped
      /\ c.tail = (b.tail + b.size) % Cap /\ c.size = 0
  BY DEF RingInv, Drained
<1>2. c.tail = b.head
  BY <1>1 DEF RingInv
<1>3. b.head \in 0..Cap - 1 /\ Cap \in Nat \ {0}
  BY RingFacts
<1>4. b.head % Cap = b.head
  <2>1. b.head \in Nat /\ b.head < 2 * Cap /\ b.head < Cap
    BY <1>3
  <2> QED
    BY <2>1, Wrapped DEF Wrap
<1>5. (c.tail + c.size) % Cap = b.head
  <2>1. c.tail + c.size = b.head
    BY <1>1, <1>2, <1>3
  <2> QED
    BY <2>1, <1>4
<1>6. Contents(c) = <<>>
  BY <1>1 DEF Contents
<1> QED
  BY <1>1, <1>2, <1>3, <1>5, <1>6 DEF RingInv

-----------------------------------------------------------------------------
(* The system.                                                             *)

\* The ring changes by push, by drain, or by a restart.
LEMMA RingChanges ==
  ASSUME [Next]_vars
  PROVE  \/ \E r : ring' = Pushed(ring, r)
         \/ ring' = Drained(ring)
         \/ ring' = EmptyRing
         \/ ring' = ring
<1>1. CASE Poll
  <2>1. PICK reply \in Reply, gap \in Gap : ring' = Pushed(ring, Built(LastStamp + gap, reply))
    BY <1>1 DEF Poll
  <2> QED
    BY <2>1
<1>2. CASE Upload \/ UploadFails
  BY <1>2 DEF Upload, UploadFails
<1>3. CASE AckWrite \/ ApplyConfig
  BY <1>3 DEF AckWrite, ApplyConfig
<1>4. CASE CloudTask
  BY <1>4 DEF CloudTask, Publish, PublishFails
<1>5. CASE Environment
  BY <1>5 DEF Environment, Restart, Lose
<1>6. CASE Receive
  BY <1>6 DEF Receive
<1>7. CASE UNCHANGED vars
  BY <1>7 DEF vars
<1> QED
  BY <1>1, <1>2, <1>3, <1>4, <1>5, <1>6, <1>7 DEF Next, MainTask

\* Every step leaves the indices in agreement.
LEMMA RingInvStep ==
  ASSUME RingInv(ring), [Next]_vars
  PROVE  RingInv(ring')
<1>1. CASE \E r : ring' = Pushed(ring, r)
  BY <1>1, PushedOk
<1>2. CASE ring' = Drained(ring)
  BY <1>2, DrainedOk
<1>3. CASE ring' = EmptyRing
  BY <1>3, EmptyRingOk
<1> QED
  BY <1>1, <1>2, <1>3, RingChanges

\* A push is the queue's PutSome.
LEMMA PushImplementsPut ==
  ASSUME RingInv(ring), NEW r, ring' = Pushed(ring, r)
  PROVE  Queue!PutSome
<1> DEFINE S == {ring.buf[i] : i \in 0..Cap - 1} \cup {r}
           q == Contents(ring)
           kept == IF ring.size = Cap THEN Tail(q) ELSE q
<1>1. Contents(ring') = Append(kept, r)
  BY PushedContents
<1>2. ring.size \in 0..Cap /\ Cap \in Nat \ {0}
  BY RingFacts
<1>3. q \in Seq(S) /\ Len(q) = ring.size
  <2>1. \A i \in 0..Cap - 1 : ring.buf[i] \in S
    OBVIOUS
  <2> HIDE DEF S
  <2> QED
    BY <2>1, ContentsSeq
<1>4. kept \in Seq(S)
  <2>1. CASE ring.size = Cap
    <3>1. q # <<>>
      BY <2>1, <1>2, <1>3
    <3> HIDE DEF S, q
    <3> QED
      BY <2>1, <3>1, <1>3, HeadTailProperties
  <2>2. CASE ring.size # Cap
    BY <2>2, <1>3
  <2> QED
    BY <2>1, <2>2
<1>5. r \in S
  OBVIOUS
<1>6. /\ Append(kept, r) # <<>>
      /\ Append(kept, r)[Len(Append(kept, r))] = r
  <2> HIDE DEF S, kept
  <2> QED
    BY <1>4, <1>5
<1>7. ring'.dropped = IF ring.size = Cap THEN ring.dropped + 1 ELSE ring.dropped
  BY PushedFields
<1>8. Queue!Put(r)
  <2>1. ring.size = Cap <=> ~(Len(q) < Cap)
    BY <1>2, <1>3
  <2> QED
    BY <2>1, <1>1, <1>7 DEF Queue!Put
<1> QED
  BY <1>1, <1>6, <1>8 DEF Queue!PutSome

\* Every step of the system is a step of the queue or leaves it alone.
LEMMA StepImplements ==
  ASSUME RingInv(ring), [Next]_vars
  PROVE  [Queue!Next]_<<Contents(ring), ring.dropped>>
<1>1. CASE \E r : ring' = Pushed(ring, r)
  BY <1>1, PushImplementsPut DEF Queue!Next
<1>2. CASE ring' = Drained(ring)
  <2>1. Contents(ring') = <<>> /\ ring'.dropped = ring.dropped
    BY <1>2, DrainedOk
  <2> QED
    BY <2>1 DEF Queue!Next, Queue!TakeAll
<1>3. CASE ring' = EmptyRing
  <2>1. Contents(ring') = <<>> /\ ring'.dropped = 0
    BY <1>3, EmptyRingOk DEF EmptyRing
  <2> QED
    BY <2>1 DEF Queue!Next, Queue!Reset
<1>4. CASE ring' = ring
  BY <1>4
<1> QED
  BY <1>1, <1>2, <1>3, <1>4, RingChanges

\* The ring of Buffer.cpp, as the main task uses it, is a queue of at most Cap
\* records that gives up its oldest record for a new one and counts it.
THEOREM RingImplementsQueue == Spec => RingIsQueue
<1>1. Init => RingInv(ring)
  BY EmptyRingOk DEF Init
<1>2. RingInv(ring) /\ [Next]_vars => RingInv(ring)'
  BY RingInvStep
<1>3. Init => Queue!Init
  BY EmptyRingOk DEF Init, Queue!Init, EmptyRing
<1>4. RingInv(ring) /\ [Next]_vars => [Queue!Next]_<<Contents(ring), ring.dropped>>
  BY StepImplements
<1> QED
  BY <1>1, <1>2, <1>3, <1>4, PTL DEF Spec, RingIsQueue, Queue!Spec

-----------------------------------------------------------------------------
(* The arithmetic of the codec.                                            *)

\* A set that holds 0 and the successor of each of its elements holds every number.
LEMMA SetInduction ==
  ASSUME NEW S, 0 \in S, \A n \in Nat : n \in S => n + 1 \in S
  PROVE  Nat \subseteq S
<1> SUFFICES ASSUME NEW n \in Nat, n \notin S
             PROVE  FALSE
  OBVIOUS
<1> DEFINE A == {i \in 0..n : i \in S}
           f == [i \in A |-> i + 1]
<1>1. IsFiniteSet(A)
  <2>1. IsFiniteSet(0..n) /\ A \in SUBSET (0..n)
    BY FS_Interval
  <2> HIDE DEF A
  <2> QED
    BY <2>1, FS_Subset
<1>2. \A i \in A : i + 1 \in A
  OBVIOUS
<1>3. f \in Injection(A, A)
  BY <1>2 DEF Injection, IsInjective
<1>4. f \in Surjection(A, A)
  <2> HIDE DEF f, A
  <2> QED
    BY <1>1, <1>3, FS_Injection
<1>5. 0 \in A /\ \A i \in A : f[i] # 0
  OBVIOUS
<1> QED
  <2> HIDE DEF f, A
  <2> QED
    BY <1>4, <1>5 DEF Surjection

\* The function behind Shifted: each value is the one before, divided by the base.
LEMMA ShiftedIs ==
  ASSUME NEW base, NEW n \in Nat, NEW x
  PROVE  Shifted(base, n, x) = [k \in 0..n |-> IF k = 0 THEN x ELSE Shifted(base, n, x)[k - 1] \div base]
<1> DEFINE Cut(y) == y \div base
           Is(g, m) == g = [k \in 0..m |-> IF k = 0 THEN x ELSE Cut(g[k - 1])]
           S == {m \in Nat : \E g : Is(g, m)}
<1>1. 0 \in S
  <2>1. Is([k \in 0..0 |-> x], 0)
    OBVIOUS
  <2> QED
    BY <2>1
<1>2. ASSUME NEW m \in Nat, m \in S PROVE m + 1 \in S
  <2>1. PICK g : Is(g, m)
    BY <1>2
  <2> DEFINE h == [k \in 0..m + 1 |-> IF k = m + 1 THEN Cut(g[m]) ELSE g[k]]
  <2> HIDE DEF Cut
  <2>2. \A k \in 0..m + 1 : h[k] = IF k = 0 THEN x ELSE Cut(h[k - 1])
    BY <2>1
  <2>3. Is(h, m + 1)
    BY <2>2
  <2> HIDE DEF h
  <2> QED
    BY <2>3
<1>3. \E g : Is(g, n)
  <2> HIDE DEF S
  <2>1. n \in S
    BY <1>1, <1>2, SetInduction
  <2> QED
    BY <2>1 DEF S
<1>4. PICK f : f = Shifted(base, n, x)
  OBVIOUS
<1>5. f = CHOOSE g : Is(g, n)
  BY <1>4, Zenon DEF Shifted
<1>6. Is(f, n)
  BY <1>3, <1>5, Zenon
<1> QED
  BY <1>4, <1>6

\* The same, digit by digit.
LEMMA ShiftedDigits ==
  ASSUME NEW base, NEW n \in Nat, NEW x, NEW r, r = Shifted(base, n, x)
  PROVE  r[0] = x /\ \A k \in 0..n : k # 0 => r[k] = r[k - 1] \div base
<1>1. r = [k \in 0..n |-> IF k = 0 THEN x ELSE r[k - 1] \div base]
  <2>1. PICK f : f = [k \in 0..n |-> IF k = 0 THEN x ELSE r[k - 1] \div base]
    OBVIOUS
  <2>2. Shifted(base, n, x) = f
    BY <2>1, ShiftedIs
  <2> QED
    BY <2>1, <2>2
<1>2. 0 \in 0..n
  OBVIOUS
<1>3. r[0] = x
  BY <1>1, <1>2, Zenon
<1>4. ASSUME NEW k \in 0..n, k # 0 PROVE r[k] = r[k - 1] \div base
  BY <1>1, <1>4, Zenon
<1> QED
  BY <1>3, <1>4

\* One digit less.
LEMMA CutOff ==
  ASSUME NEW base \in Nat, base > 0, NEW m \in Nat, NEW x \in Nat, x < base * m
  PROVE  x \div base \in Nat /\ x \div base < m
<1>1. PICK q : q = x \div base
  OBVIOUS
<1>2. q \in Nat /\ base * q <= x
  BY <1>1
<1>3. q < m
  BY <1>2
<1> QED
  BY <1>1, <1>2, <1>3

\* Nothing is left of a number below the n-th power of the base when its last n digits
\* are cut off.
PowersOf(base, n, power) ==
  /\ base \in Nat /\ base > 0 /\ n \in Nat /\ power[1] = 1
  /\ \A k \in 1..n : power[k] \in Nat /\ power[k + 1] = base * power[k]

\* A number below the n-th power of the base has no digits left after n cuts.
LEMMA AllCutOff ==
  ASSUME NEW base, NEW n, NEW power, PowersOf(base, n, power),
         NEW x \in Nat, x < power[n + 1]
  PROVE  Shifted(base, n, x)[n] = 0 /\ \A k \in 0..n : Shifted(base, n, x)[k] \in Nat
<1>1. PICK r : r = Shifted(base, n, x)
  OBVIOUS
<1>2. /\ base \in Nat /\ base > 0 /\ n \in Nat /\ power[1] = 1
      /\ \A k \in 1..n : power[k] \in Nat /\ power[k + 1] = base * power[k]
  BY DEF PowersOf
<1>3. r[0] = x /\ \A k \in 0..n : k # 0 => r[k] = r[k - 1] \div base
  BY <1>1, <1>2, ShiftedDigits
<1> DEFINE S == {k \in Nat : k <= n => r[k] \in Nat /\ r[k] < power[n - k + 1]}
<1>4. 0 \in S
  BY <1>3, <1>2
<1>5. ASSUME NEW k \in Nat, k \in S PROVE k + 1 \in S
  <2> SUFFICES ASSUME k + 1 <= n PROVE r[k + 1] \in Nat /\ r[k + 1] < power[n - (k + 1) + 1]
    OBVIOUS
  <2>1. PICK y : y = r[k]
    OBVIOUS
  <2>2. PICK j \in 1..n : j = n - (k + 1) + 1
    BY <1>2
  <2>3. PICK m \in Nat : m = power[j] /\ power[j + 1] = base * m
    BY <1>2
  <2>4. j + 1 = n - k + 1 /\ k <= n
    BY <1>2, <2>2
  <2>5. y \in Nat /\ y < base * m
    BY <1>5, <1>2, <2>1, <2>3, <2>4
  <2>6. r[k + 1] = y \div base
    <3>1. k + 1 \in 0..n /\ k + 1 # 0 /\ (k + 1) - 1 = k
      BY <1>2
    <3> QED
      BY <1>3, <2>1, <3>1
  <2>7. y \div base \in Nat /\ y \div base < m
    BY <1>2, <2>5, CutOff
  <2> QED
    BY <2>2, <2>3, <2>6, <2>7
<1>6. \A k \in 0..n : r[k] \in Nat /\ r[k] < power[n - k + 1]
  <2> HIDE DEF S
  <2>1. Nat \subseteq S
    BY <1>4, <1>5, SetInduction
  <2> QED
    BY <1>2, <2>1 DEF S
<1>7. r[n] \in Nat /\ r[n] < 1
  <2>1. n \in 0..n /\ n - n + 1 = 1
    BY <1>2
  <2> QED
    BY <1>6, <1>2, <2>1
<1> QED
  BY <1>1, <1>6, <1>7

\* Horner's rule backwards: r[i] is the number of all digits but the first i.
Remains(base, digits, n, r) ==
  /\ n \in Nat /\ Len(digits) = n
  /\ r[n] = 0 /\ \A i \in 0..n - 1 : r[i] = digits[i + 1] + base * r[i + 1]

\* The digits that were cut off one by one make up the number again.
LEMMA NumberIs ==
  ASSUME NEW base, NEW digits, NEW n \in Nat, NEW r, Remains(base, digits, n, r)
  PROVE  Number(base, digits) = r[0]
<1>1. /\ Len(digits) = n /\ r[n] = 0
      /\ \A i \in 0..n - 1 : r[i] = digits[i + 1] + base * r[i + 1]
  BY DEF Remains
<1> DEFINE Horner(k, y) == digits[n - k + 1] + base * y
           Is(g, m) == g = [k \in 0..m |-> IF k = 0 THEN 0 ELSE Horner(k, g[k - 1])]
           S == {m \in Nat : \E g : Is(g, m)}
<1>2. 0 \in S
  <2>1. Is([k \in 0..0 |-> 0], 0)
    OBVIOUS
  <2> QED
    BY <2>1
<1>3. ASSUME NEW m \in Nat, m \in S PROVE m + 1 \in S
  <2>1. PICK g : Is(g, m)
    BY <1>3
  <2> DEFINE h == [k \in 0..m + 1 |-> IF k = m + 1 THEN Horner(m + 1, g[m]) ELSE g[k]]
  <2> HIDE DEF Horner
  <2>2. \A k \in 0..m + 1 : h[k] = IF k = 0 THEN 0 ELSE Horner(k, h[k - 1])
    BY <2>1
  <2>3. Is(h, m + 1)
    BY <2>2
  <2> HIDE DEF h
  <2> QED
    BY <2>3
<1>4. \E g : Is(g, n)
  <2> HIDE DEF S
  <2>1. n \in S
    BY <1>2, <1>3, SetInduction
  <2> QED
    BY <2>1 DEF S
<1>5. PICK f : f = CHOOSE g : Is(g, n)
  OBVIOUS
<1>6. Is(f, n)
  BY <1>4, <1>5, Zenon
<1>7. Number(base, digits) = f[n]
  <2> DEFINE G(l) == CHOOSE g : g = [k \in 0..l |-> IF k = 0 THEN 0 ELSE digits[l - k + 1] + base * g[k - 1]]
  <2>1. Number(base, digits) = G(Len(digits))[Len(digits)]
    BY Zenon DEF Number
  <2>2. f = G(n)
    BY <1>5, Zenon
  <2> HIDE DEF G
  <2> QED
    BY <1>1, <2>1, <2>2
<1> DEFINE T == {k \in Nat : k <= n => f[k] = r[n - k]}
<1>8. 0 \in T
  BY <1>1, <1>6
<1>9. ASSUME NEW k \in Nat, k \in T PROVE k + 1 \in T
  <2> SUFFICES ASSUME k + 1 <= n PROVE f[k + 1] = r[n - (k + 1)]
    OBVIOUS
  <2>1. f[k + 1] = Horner(k + 1, f[k])
    BY <1>6
  <2>2. f[k] = r[n - k]
    BY <1>9
  <2>3. n - (k + 1) \in 0..n - 1 /\ n - (k + 1) + 1 = n - k
    OBVIOUS
  <2>4. r[n - (k + 1)] = digits[n - (k + 1) + 1] + base * r[n - k]
    BY <1>1, <2>3
  <2> QED
    BY <2>1, <2>2, <2>4
<1> HIDE DEF T
<1>10. n \in T
  BY <1>8, <1>9, SetInduction
<1> QED
  BY <1>7, <1>10 DEF T

\* The bounds of numbers of 32 and of 64 bits.
TwoTo32 == 4294967296
TwoTo64 == TwoTo32 * TwoTo32

\* A reader of the first n bytes of two joined sequences returns the second as the rest.
LEMMA ReadFacts ==
  ASSUME NEW S, NEW s \in Seq(S), NEW t \in Seq(S), NEW n, n = Len(s), NEW v
  PROVE  /\ SubSeq(s \o t, 1, n) = s
         /\ Read(v, s \o t, n) = [val |-> v, rest |-> t]
<1>1. SubSeq(s \o t, 1, n) = s
  BY ConcatProperties, SubSeqOfConcat1, SubSeqFull
<1>2. SubSeq(s \o t, n + 1, Len(s \o t)) = t
  <2>1. PICK u : u = SubSeq(s \o t, n + 1, Len(s \o t))
    OBVIOUS
  <2>2. u \in Seq(S) /\ Len(u) = Len(t) /\ \A i \in 1..Len(t) : u[i] = t[i]
    BY <2>1
  <2> QED
    BY <2>1, <2>2, SeqEqual
<1> QED
  BY <1>1, <1>2 DEF Read

\* get undoes put: put16_le and put64_le.
LEMMA LittleEndianRead ==
  ASSUME NEW n \in Nat, NEW x \in Nat, Shifted(256, n, x)[n] = 0, NEW t \in Seq(Byte)
  PROVE  /\ LittleEndian(n, x) \in Seq(Byte) /\ Len(LittleEndian(n, x)) = n
         /\ FromLittleEndian(n, LittleEndian(n, x) \o t) = [val |-> x, rest |-> t]
<1>1. PICK r : r = Shifted(256, n, x)
  OBVIOUS
<1>2. r = [k \in 0..n |-> IF k = 0 THEN x ELSE r[k - 1] \div 256]
  BY <1>1, ShiftedIs
<1> DEFINE T == {k \in Nat : k <= n => r[k] \in Nat}
<1>3. 0 \in T
  BY <1>2
<1>4. ASSUME NEW k \in Nat, k \in T PROVE k + 1 \in T
  BY <1>2, <1>4
<1>5. \A k \in 0..n : r[k] \in Nat
  <2> HIDE DEF T
  <2>1. Nat \subseteq T
    BY <1>3, <1>4, SetInduction
  <2> QED
    BY <2>1 DEF T
<1>6. PICK s : s = LittleEndian(n, x)
  OBVIOUS
<1>7. s = [i \in 1..n |-> r[i - 1] % 256]
  BY <1>1, <1>6 DEF LittleEndian
<1>8. s \in Seq(Byte) /\ Len(s) = n
  <2>1. \A i \in 1..n : r[i - 1] % 256 \in Byte
    <3>1. \A y \in Nat : y % 256 \in Byte
      BY DEF Byte
    <3>2. \A i \in 1..n : i - 1 \in 0..n
      OBVIOUS
    <3> HIDE DEF T
    <3> QED
      BY <1>5, <3>1, <3>2
  <2> QED
    BY <2>1, <1>7
<1>9. Number(256, s) = x
  <2>1. \A i \in 0..n - 1 : r[i] = s[i + 1] + 256 * r[i + 1]
    <3> SUFFICES ASSUME NEW i \in 0..n - 1 PROVE r[i] = s[i + 1] + 256 * r[i + 1]
      OBVIOUS
    <3>1. s[i + 1] = r[i] % 256 /\ r[i + 1] = r[i] \div 256 /\ r[i] \in Nat
      BY <1>2, <1>5, <1>7
    <3> QED
      BY <3>1
  <2>2. r[n] = 0 /\ r[0] = x
    BY <1>1, <1>2
  <2>3. Remains(256, s, n, r)
    BY <1>8, <2>1, <2>2 DEF Remains
  <2> QED
    BY <2>2, <2>3, NumberIs
<1>10. FromLittleEndian(n, s \o t) = [val |-> x, rest |-> t]
  <2> HIDE DEF T
  <2>1. /\ SubSeq(s \o t, 1, n) = s
        /\ Read(Number(256, s), s \o t, n) = [val |-> Number(256, s), rest |-> t]
    BY <1>8, ReadFacts
  <2> QED
    BY <1>9, <2>1 DEF FromLittleEndian
<1> QED
  BY <1>6, <1>8, <1>10

\* The powers of 128.
SevenBits == <<1, 128, 16384, 2097152, 268435456, 128 * 268435456>>

\* The powers of 128 up to the fifth, the last of which is beyond 32 bits.
LEMMA SevenBitsAre == PowersOf(128, 5, SevenBits) /\ TwoTo32 < SevenBits[6] /\ SevenBits[6] \in Nat
<1>1. PICK power : power = SevenBits
  OBVIOUS
<1>2. power[1] = 1 /\ power[2] = 128 /\ power[3] = 16384 /\ power[4] = 2097152
  BY <1>1 DEF SevenBits
<1>3. power[5] = 268435456 /\ power[6] = 128 * 268435456
  BY <1>1, SMT DEF SevenBits
<1>4. \A k \in 1..5 : power[k] \in Nat /\ power[k + 1] = 128 * power[k]
  BY <1>2, <1>3, SMT
<1>5. TwoTo32 < power[6] /\ power[6] \in Nat
  BY <1>3, SMT DEF TwoTo32
<1>6. PowersOf(128, 5, power)
  BY <1>2, <1>4 DEF PowersOf
<1> QED
  BY <1>1, <1>5, <1>6

\* Bytes s, n of them, that hold a number seven bits in a byte and end at the first below
\* 128; r[i] is what remains of the number after i bytes.
SevenBitBytes(s, n, r) ==
  /\ n \in Nat /\ n >= 1 /\ r[n] = 0
  /\ s = [i \in 1..n |-> s[i]]
  /\ \A i \in 1..n : s[i] \in Byte /\ (i < n => s[i] >= 128)
  /\ s[n] < 128
  /\ \A i \in 0..n - 1 : r[i] = (s[i + 1] % 128) + 128 * r[i + 1]

\* The bytes of a varint: at most five, of seven bits each, marked as the last or not.
LEMMA VarintBytes ==
  ASSUME NEW v \in Nat, v < TwoTo32
  PROVE  \E n, r : SevenBitBytes(Varint(v), n, r) /\ r[0] = v
<1>1. PICK r, base, five, power : /\ r = Shifted(128, 5, v)
                                  /\ base = 128 /\ five = 5 /\ power = SevenBits
  OBVIOUS
<1>2. base \in Nat /\ five \in Nat /\ five >= 1 /\ r = Shifted(base, five, v)
  BY <1>1
<1>3. r[0] = v /\ \A k \in 0..five : k # 0 => r[k] = r[k - 1] \div base
  BY <1>2, ShiftedDigits
<1>4. r[five] = 0 /\ \A k \in 0..five : r[k] \in Nat
  <2>1. PowersOf(base, five, power) /\ TwoTo32 < power[five + 1] /\ power[five + 1] \in Nat
    BY <1>1, SevenBitsAre
  <2>2. v < power[five + 1]
    BY <2>1, SMT DEF TwoTo32
  <2> QED
    BY <1>2, <2>1, <2>2, AllCutOff
<1>5. \A i \in 0..five - 1 : i + 1 \in 0..five /\ r[i + 1] = r[i] \div base
  BY <1>2, <1>3
<1> DEFINE Ending(k) == r[k] = 0 /\ (k > 1 => r[k - 1] # 0)
<1>6. \E k \in 1..five : Ending(k)
  <2> SUFFICES ASSUME \A k \in 1..five : ~Ending(k) PROVE FALSE
    OBVIOUS
  <2> DEFINE S == {k \in Nat : k + 1 <= five => r[k + 1] # 0}
  <2>1. 0 \in S
    BY <1>2
  <2>2. \A k \in Nat : k \in S => k + 1 \in S
    BY <1>2
  <2> HIDE DEF S
  <2>3. five - 1 \in S
    BY <1>2, <2>1, <2>2, SetInduction
  <2> QED
    BY <1>2, <1>4, <2>3 DEF S
<1>7. PICK n \in Nat : n >= 1 /\ n <= five /\ n = CHOOSE k \in 1..5 : Ending(k)
  <2>1. PICK m : m = CHOOSE k \in 1..five : Ending(k)
    OBVIOUS
  <2> HIDE DEF Ending
  <2>2. m \in 1..five
    BY <1>6, <2>1, Zenon
  <2> QED
    BY <1>1, <2>1, <2>2
<1>8. Ending(n)
  <2>1. PICK m : m = CHOOSE k \in 1..five : Ending(k)
    OBVIOUS
  <2> HIDE DEF Ending
  <2>2. Ending(m)
    BY <1>6, <2>1, Zenon
  <2> QED
    BY <1>1, <1>7, <2>1, <2>2
<1>9. PICK s : s = Varint(v)
  OBVIOUS
<1>10. s = [i \in 1..n |-> IF i < n THEN 128 + (r[i - 1] % 128) ELSE r[i - 1]]
  <2> DEFINE rest == Shifted(128, 5, v)
             l == CHOOSE k \in 1..5 : rest[k] = 0 /\ (k > 1 => rest[k - 1] # 0)
  <2>1. s = [i \in 1..l |-> IF i < l THEN 128 + (rest[i - 1] % 128) ELSE rest[i - 1]]
    BY <1>9, Zenon DEF Varint
  <2>2. rest = r
    BY <1>1
  <2> HIDE DEF rest
  <2>3. l = n
    BY <1>7, <2>2, Zenon
  <2> HIDE DEF l
  <2> QED
    BY <2>1, <2>2, <2>3
<1>11. r[n - 1] \in Nat /\ r[n - 1] < 128
  <2>1. n - 1 \in 0..five - 1 /\ n - 1 \in 0..five /\ n - 1 + 1 = n
    BY <1>7, <1>2
  <2>2. r[n] = r[n - 1] \div 128
    BY <1>1, <1>5, <2>1
  <2>3. r[n - 1] \in Nat
    BY <1>4, <2>1
  <2>4. \A y \in Nat : y \div 128 = 0 => y < 128
    OBVIOUS
  <2> QED
    BY <1>8, <2>2, <2>3, <2>4
<1>12. \A y \in Nat : y % 128 \in Nat /\ y % 128 < 128 /\ y = (y % 128) + 128 * (y \div 128)
  OBVIOUS
<1>13. \A y \in Nat : y < 128 => /\ (128 + y) % 128 = y /\ y % 128 = y
                                /\ y \in Byte /\ 128 + y \in Byte /\ 128 + y >= 128
  BY DEF Byte
<1>14. \A i \in 1..n : r[i - 1] \in Nat /\ (i < n => s[i] = 128 + (r[i - 1] % 128))
  <2>1. \A i \in 1..n : i - 1 \in 0..five
    BY <1>2, <1>7
  <2> QED
    BY <1>4, <1>10, <2>1
<1>15. s[n] = r[n - 1]
  BY <1>7, <1>10
<1>16. \A i \in 1..n : s[i] \in Byte /\ (i < n => s[i] >= 128) /\ s[i] % 128 = r[i - 1] % 128
  <2> SUFFICES ASSUME NEW i \in 1..n
               PROVE  s[i] \in Byte /\ (i < n => s[i] >= 128) /\ s[i] % 128 = r[i - 1] % 128
    OBVIOUS
  <2>1. PICK y \in Nat : y < 128 /\ y = r[i - 1] % 128
    BY <1>12, <1>14
  <2>2. CASE i < n
    <3>1. s[i] = 128 + y
      BY <1>14, <2>1, <2>2
    <3> QED
      BY <1>13, <2>1, <2>2, <3>1
  <2>3. CASE i = n
    <3>1. s[i] = r[i - 1]
      BY <1>15, <2>3
    <3> QED
      BY <1>11, <1>13, <2>1, <2>3, <3>1
  <2> QED
    BY <2>2, <2>3
<1>17. \A i \in 0..n - 1 : r[i] = (s[i + 1] % 128) + 128 * r[i + 1]
  <2> SUFFICES ASSUME NEW i \in 0..n - 1 PROVE r[i] = (s[i + 1] % 128) + 128 * r[i + 1]
    OBVIOUS
  <2>1. i + 1 \in 1..n /\ i + 1 - 1 = i /\ i \in 0..five /\ i \in 0..five - 1
    BY <1>2, <1>7
  <2>2. s[i + 1] % 128 = r[i] % 128 /\ r[i] \in Nat /\ r[i + 1] = r[i] \div 128
    BY <1>1, <1>4, <1>5, <1>16, <2>1
  <2>3. r[i] = (r[i] % 128) + 128 * (r[i] \div 128)
    BY <1>12, <2>2
  <2> QED
    BY <2>2, <2>3
<1>18. r[n] = 0 /\ s[n] < 128 /\ n >= 1 /\ s = [i \in 1..n |-> s[i]]
  <2>1. r[n] = 0
    BY <1>8
  <2> HIDE DEF Ending
  <2>2. s[n] < 128
    BY <1>11, <1>15
  <2>3. s = [i \in 1..n |-> s[i]]
    BY <1>10
  <2> QED
    BY <1>7, <2>1, <2>2, <2>3
<1>19. SevenBitBytes(s, n, r)
  BY <1>7, <1>16, <1>17, <1>18, ZenonT(30) DEF SevenBitBytes
<1> QED
  BY <1>3, <1>9, <1>19

\* The reader finds the last of these bytes.
LEMMA VarintEnd ==
  ASSUME NEW s, NEW n, NEW r, SevenBitBytes(s, n, r), NEW l \in Nat, n <= l,
         NEW buf, \A i \in 1..n : buf[i] = s[i]
  PROVE  n = CHOOSE j \in 1..l : buf[j] < 128 /\ \A k \in 1..j - 1 : buf[k] >= 128
<1> DEFINE Ends(j) == buf[j] < 128 /\ \A k \in 1..j - 1 : buf[k] >= 128
<1>1. /\ n \in Nat /\ n >= 1 /\ s[n] < 128
      /\ \A i \in 1..n : s[i] \in Byte /\ (i < n => s[i] >= 128)
  BY DEF SevenBitBytes
<1>2. n \in 1..l /\ n \in 1..n /\ \A k \in 1..n - 1 : k \in 1..n /\ k < n
  BY <1>1
<1>3. Ends(n)
  BY <1>1, <1>2
<1>4. ASSUME NEW j \in 1..l, Ends(j) PROVE j = n
  <2>1. CASE j < n
    <3>1. j \in 1..n /\ buf[j] \in Nat /\ buf[j] >= 128
      BY <1>1, <1>2, <2>1 DEF Byte
    <3> QED
      BY <1>4, <3>1
  <2>2. CASE n < j
    <3>1. n \in 1..j - 1 /\ buf[n] \in Nat /\ buf[n] < 128
      BY <1>1, <1>2, <2>2 DEF Byte
    <3> QED
      BY <1>4, <3>1
  <2> QED
    BY <1>1, <2>1, <2>2
<1> HIDE DEF Ends
<1>5. n = CHOOSE j \in 1..l : Ends(j)
  BY <1>2, <1>3, <1>4, Zenon
<1> QED
  BY <1>5, Zenon DEF Ends

\* get_varuint32 gives back what putVarUint32 wrote, and the bytes after it.
LEMMA VarintRead ==
  ASSUME NEW v \in Nat, v < TwoTo32, NEW t \in Seq(Byte)
  PROVE  /\ Varint(v) \in Seq(Byte)
         /\ GetVarint(Varint(v) \o t) = [val |-> v, rest |-> t]
<1>1. PICK n, r, s : s = Varint(v) /\ SevenBitBytes(s, n, r) /\ r[0] = v
  BY VarintBytes
<1>2. /\ n \in Nat /\ n >= 1 /\ r[n] = 0 /\ s = [i \in 1..n |-> s[i]]
      /\ \A i \in 1..n : s[i] \in Byte
      /\ \A i \in 0..n - 1 : r[i] = (s[i + 1] % 128) + 128 * r[i + 1]
  BY <1>1, Zenon DEF SevenBitBytes
<1>3. s \in Seq(Byte) /\ Len(s) = n
  BY <1>2
<1>4. PICK buf : buf = s \o t
  OBVIOUS
<1>5. PICK l \in Nat : l = Len(buf) /\ n <= l
  BY <1>2, <1>3, <1>4
<1>6. \A i \in 1..n : buf[i] = s[i]
  BY <1>3, <1>4
<1>7. n = CHOOSE j \in 1..Len(buf) : buf[j] < 128 /\ \A k \in 1..j - 1 : buf[k] >= 128
  <2>1. n = CHOOSE j \in 1..l : buf[j] < 128 /\ \A k \in 1..j - 1 : buf[k] >= 128
    BY <1>1, <1>5, <1>6, VarintEnd
  <2> QED
    BY <1>5, <2>1
<1>8. Number(128, [i \in 1..n |-> buf[i] % 128]) = v
  <2>1. PICK d : d = [i \in 1..n |-> buf[i] % 128]
    OBVIOUS
  <2>2. Len(d) = n
    BY <1>2, <2>1
  <2>3. \A i \in 0..n - 1 : i + 1 \in 1..n
    BY <1>2
  <2>4. \A i \in 1..n : d[i] = s[i] % 128
    BY <1>6, <2>1, Zenon
  <2>5. PICK base \in Nat : base = 128
    OBVIOUS
  <2>6. \A i \in 0..n - 1 : r[i] = d[i + 1] + base * r[i + 1]
    <3> SUFFICES ASSUME NEW i \in 0..n - 1 PROVE r[i] = d[i + 1] + base * r[i + 1]
      OBVIOUS
    <3>1. d[i + 1] = s[i + 1] % 128
      BY <2>3, <2>4
    <3>2. r[i] = (s[i + 1] % 128) + 128 * r[i + 1]
      BY <1>2
    <3> QED
      BY <2>5, <3>1, <3>2, Zenon
  <2>7. Remains(base, d, n, r)
    BY <1>2, <2>2, <2>6, Zenon DEF Remains
  <2>8. Number(base, d) = r[0]
    <3>1. n \in Nat
      BY <1>2
    <3> QED
      BY <2>7, <3>1, NumberIs
  <2> QED
    BY <1>1, <2>1, <2>5, <2>8
<1>9. Read(v, buf, n) = [val |-> v, rest |-> t]
  BY <1>3, <1>4, ReadFacts
<1>10. GetVarint(buf) = [val |-> v, rest |-> t]
  BY <1>7, <1>8, <1>9, Zenon DEF GetVarint
<1> QED
  BY <1>1, <1>3, <1>4, <1>10

\* FlattenSeq, of at least one sequence, as the function its definition chooses.
LEMMA FlattenIs ==
  ASSUME NEW ss, NEW l \in Nat, Len(ss) = l + 1
  PROVE  \E f : /\ f[1] = ss[1] /\ \A i \in 1..l : f[i + 1] = f[i] \o ss[i + 1]
                /\ FlattenSeq(ss) = f[l + 1]
<1> DEFINE n == l + 1
<1> DEFINE Add(y, i) == y \o ss[i]
           Is(g, m) == g = [i \in 1..m |-> IF i = 1 THEN ss[i] ELSE Add(g[i - 1], i)]
           S == {m \in Nat : \E g : Is(g, m + 1)}
<1>1. 0 \in S
  <2>1. Is([i \in 1..1 |-> ss[i]], 0 + 1)
    OBVIOUS
  <2> QED
    BY <2>1
<1>2. ASSUME NEW m \in Nat, m \in S PROVE m + 1 \in S
  <2>1. PICK g : Is(g, m + 1)
    BY <1>2
  <2> DEFINE h == [i \in 1..(m + 1) + 1 |-> IF i = m + 2 THEN Add(g[m + 1], m + 2) ELSE g[i]]
  <2> HIDE DEF Add
  <2>2. \A i \in 1..(m + 1) + 1 : h[i] = IF i = 1 THEN ss[i] ELSE Add(h[i - 1], i)
    BY <2>1
  <2>3. Is(h, (m + 1) + 1)
    BY <2>2
  <2> HIDE DEF h
  <2> QED
    BY <2>3
<1>3. \E g : Is(g, n)
  <2> HIDE DEF S
  <2>1. n - 1 \in S
    BY <1>1, <1>2, SetInduction
  <2>2. (n - 1) + 1 = n
    OBVIOUS
  <2> QED
    BY <2>1, <2>2 DEF S
<1>4. PICK f : f = CHOOSE g : Is(g, n)
  OBVIOUS
<1>5. Is(f, n)
  BY <1>3, <1>4, Zenon
<1>6. FlattenSeq(ss) = f[n]
  <2> DEFINE G(len) == CHOOSE g : g = [i \in 1..len |-> IF i = 1 THEN ss[i] ELSE g[i - 1] \o ss[i]]
  <2>1. FlattenSeq(ss) = IF Len(ss) = 0 THEN ss ELSE G(Len(ss))[Len(ss)]
    BY Zenon DEF FlattenSeq
  <2>2. f = G(n)
    BY <1>4, Zenon
  <2> HIDE DEF G
  <2> QED
    BY <2>1, <2>2
<1>7. f[1] = ss[1] /\ \A i \in 1..l : f[i + 1] = Add(f[i], i + 1)
  <2> HIDE DEF Add
  <2>1. \A i \in 1..n : f[i] = IF i = 1 THEN ss[i] ELSE Add(f[i - 1], i)
    BY <1>5
  <2>2. \A i \in 1..l : i + 1 \in 1..n /\ i + 1 # 1 /\ (i + 1) - 1 = i
    OBVIOUS
  <2> QED
    BY <2>1, <2>2
<1> QED
  BY <1>6, <1>7, Zenon

\* Nothing, flattened, is nothing.
LEMMA FlattenEmpty ==
  ASSUME NEW ss, Len(ss) = 0
  PROVE  FlattenSeq(ss) = ss
  BY DEF FlattenSeq

\* One more sequence goes to the end of the flattened ones.
LEMMA FlattenAppend ==
  ASSUME NEW S, NEW ss \in Seq(Seq(S)), NEW x \in Seq(S)
  PROVE  FlattenSeq(Append(ss, x)) = FlattenSeq(ss) \o x
<1>1. PICK n \in Nat : n = Len(ss)
  OBVIOUS
<1>2. PICK tt : tt = Append(ss, x)
  OBVIOUS
<1>3. tt \in Seq(Seq(S)) /\ Len(tt) = n + 1 /\ tt[n + 1] = x /\ \A i \in 1..n : tt[i] = ss[i]
  BY <1>1, <1>2
<1>4. PICK f : /\ f[1] = tt[1] /\ \A i \in 1..n : f[i + 1] = f[i] \o tt[i + 1]
               /\ FlattenSeq(tt) = f[n + 1]
  BY <1>3, FlattenIs, Zenon
<1>5. CASE n = 0
  <2>1. FlattenSeq(tt) = x
    BY <1>3, <1>4, <1>5
  <2>2. FlattenSeq(ss) = <<>>
    <3>1. ss = <<>>
      BY <1>1, <1>5, EmptySeq
    <3> QED
      BY <3>1, FlattenEmpty
  <2> QED
    BY <1>2, <2>1, <2>2, ConcatEmptySeq
<1>6. CASE n # 0
  <2>1. PICK m \in Nat : n = m + 1
    BY <1>6
  <2>2. PICK g : /\ g[1] = ss[1] /\ \A i \in 1..m : g[i + 1] = g[i] \o ss[i + 1]
                 /\ FlattenSeq(ss) = g[m + 1]
    <3>1. Len(ss) = m + 1
      BY <1>1, <2>1
    <3> QED
      BY <3>1, FlattenIs, Zenon
  <2> DEFINE T == {k \in Nat : k + 1 <= n => f[k + 1] = g[k + 1]}
  <2>3. 0 \in T
    BY <1>3, <1>4, <1>6, <2>2
  <2>4. ASSUME NEW k \in Nat, k \in T PROVE k + 1 \in T
    <3> SUFFICES ASSUME (k + 1) + 1 <= n PROVE f[(k + 1) + 1] = g[(k + 1) + 1]
      OBVIOUS
    <3> PICK j : j = k + 1
      OBVIOUS
    <3>1. j \in 1..n /\ j \in 1..m
      BY <2>1
    <3>2. f[j + 1] = f[j] \o tt[j + 1]
      BY <1>4, <3>1, Zenon
    <3>3. g[j + 1] = g[j] \o ss[j + 1]
      BY <2>2, <3>1, Zenon
    <3>4. f[k + 1] = g[k + 1] /\ tt[(k + 1) + 1] = ss[(k + 1) + 1]
      BY <1>3, <2>4
    <3> QED
      BY <3>2, <3>3, <3>4
  <2>5. f[n] = g[n]
    <3> HIDE DEF T
    <3>1. Nat \subseteq T
      BY <2>3, <2>4, SetInduction
    <3>2. n - 1 \in T
      BY <1>6, <3>1
    <3>3. (n - 1) + 1 = n
      OBVIOUS
    <3> QED
      BY <3>2, <3>3 DEF T
  <2>6. f[n + 1] = f[n] \o tt[n + 1]
    <3>1. n \in 1..n
      BY <1>6
    <3> QED
      BY <1>4, <3>1, Zenon
  <2> QED
    BY <1>2, <1>3, <1>4, <2>1, <2>2, <2>5, <2>6
<1> QED
  BY <1>5, <1>6

\* What sequences over a set are flattened to is a sequence over that set.
LEMMA FlattenType ==
  ASSUME NEW S, NEW ss \in Seq(Seq(S))
  PROVE  FlattenSeq(ss) \in Seq(S)
<1> DEFINE T == {n \in Nat : \A uu \in Seq(Seq(S)) : Len(uu) = n => FlattenSeq(uu) \in Seq(S)}
<1>1. 0 \in T
  BY FlattenEmpty
<1>2. ASSUME NEW n \in Nat, n \in T PROVE n + 1 \in T
  <2> SUFFICES ASSUME NEW uu \in Seq(Seq(S)), Len(uu) = n + 1
               PROVE  FlattenSeq(uu) \in Seq(S)
    OBVIOUS
  <2>1. PICK vv \in Seq(Seq(S)), x \in Seq(S) : uu = Append(vv, x)
    <3>1. uu # <<>>
      OBVIOUS
    <3> QED
      BY <3>1, SequenceEmptyOrAppend
  <2>2. Len(vv) = n
    BY <2>1
  <2>3. FlattenSeq(vv) \in Seq(S)
    BY <1>2, <2>2
  <2>4. FlattenSeq(uu) = FlattenSeq(vv) \o x
    BY <2>1, FlattenAppend
  <2> QED
    BY <2>3, <2>4, ConcatProperties
<1>3. Len(ss) \in T
  <2> HIDE DEF T
  <2>1. Len(ss) \in Nat
    OBVIOUS
  <2> QED
    BY <1>1, <1>2, <2>1, SetInduction
<1> QED
  BY <1>3

ThreeSeqs(S, a, b, c) == a \in Seq(S) /\ b \in Seq(S) /\ c \in Seq(S)

Associates(S, a, b, c) ==
  (a \o b) \o c = a \o (b \o c) /\ a \o b \in Seq(S) /\ b \o c \in Seq(S)

\* Joining three sequences does not depend on which two are joined first.
LEMMA ConcatAssoc == \A S, a, b, c : ThreeSeqs(S, a, b, c) => Associates(S, a, b, c)
<1> SUFFICES ASSUME NEW S, NEW a, NEW b, NEW c, ThreeSeqs(S, a, b, c)
             PROVE  Associates(S, a, b, c)
  OBVIOUS
<1>1. a \in Seq(S) /\ b \in Seq(S) /\ c \in Seq(S)
  BY Zenon DEF ThreeSeqs
<1>2. (a \o b) \o c = a \o (b \o c)
  BY <1>1, ConcatAssociative
<1>3. a \o b \in Seq(S) /\ b \o c \in Seq(S)
  BY <1>1
<1> QED
  BY <1>2, <1>3, Zenon DEF Associates

\* Flattening two joined sequences of sequences joins what each is flattened to.
LEMMA FlattenConcat ==
  ASSUME NEW S, NEW ss \in Seq(Seq(S)), NEW tt \in Seq(Seq(S))
  PROVE  FlattenSeq(ss \o tt) = FlattenSeq(ss) \o FlattenSeq(tt)
<1> DEFINE T == {n \in Nat : \A uu \in Seq(Seq(S)) : Len(uu) = n =>
                               FlattenSeq(ss \o uu) = FlattenSeq(ss) \o FlattenSeq(uu)}
<1>1. 0 \in T
  <2> SUFFICES ASSUME NEW uu \in Seq(Seq(S)), Len(uu) = 0
               PROVE  FlattenSeq(ss \o uu) = FlattenSeq(ss) \o FlattenSeq(uu)
    OBVIOUS
  <2>1. uu = <<>>
    OBVIOUS
  <2>2. ss \o <<>> = ss
    BY ConcatEmptySeq
  <2>3. FlattenSeq(ss) \o <<>> = FlattenSeq(ss)
    BY FlattenType, ConcatEmptySeq
  <2> QED
    BY <2>1, <2>2, <2>3, FlattenEmpty
<1>2. ASSUME NEW n \in Nat, n \in T PROVE n + 1 \in T
  <2> SUFFICES ASSUME NEW uu \in Seq(Seq(S)), Len(uu) = n + 1
               PROVE  FlattenSeq(ss \o uu) = FlattenSeq(ss) \o FlattenSeq(uu)
    OBVIOUS
  <2>1. PICK vv \in Seq(Seq(S)), x \in Seq(S) : uu = Append(vv, x)
    <3>1. uu # <<>>
      OBVIOUS
    <3> QED
      BY <3>1, SequenceEmptyOrAppend
  <2>2. Len(vv) = n
    BY <2>1
  <2>3. FlattenSeq(ss \o vv) = FlattenSeq(ss) \o FlattenSeq(vv)
    BY <1>2, <2>2
  <2>4. ss \o vv \in Seq(Seq(S)) /\ ss \o uu = Append(ss \o vv, x)
    BY <2>1
  <2>5. FlattenSeq(ss \o uu) = (FlattenSeq(ss) \o FlattenSeq(vv)) \o x
    BY <2>3, <2>4, FlattenAppend
  <2>6. FlattenSeq(uu) = FlattenSeq(vv) \o x
    BY <2>1, FlattenAppend
  <2>7. FlattenSeq(ss) \in Seq(S) /\ FlattenSeq(vv) \in Seq(S)
    BY FlattenType
  <2>8. (FlattenSeq(ss) \o FlattenSeq(vv)) \o x = FlattenSeq(ss) \o (FlattenSeq(vv) \o x)
    <3>1. ThreeSeqs(S, FlattenSeq(ss), FlattenSeq(vv), x)
      BY <2>7, Zenon DEF ThreeSeqs
    <3>2. Associates(S, FlattenSeq(ss), FlattenSeq(vv), x)
      BY <3>1, ConcatAssoc, Zenon
    <3> QED
      BY <3>2, Zenon DEF Associates
  <2> QED
    BY <2>5, <2>6, <2>8, Zenon
<1>3. Len(tt) \in T
  <2> HIDE DEF T
  <2>1. Len(tt) \in Nat
    OBVIOUS
  <2> QED
    BY <1>1, <1>2, <2>1, SetInduction
<1> QED
  BY <1>3

\* One sequence, flattened, is that sequence.
LEMMA FlattenOne ==
  ASSUME NEW S, NEW x \in Seq(S)
  PROVE  FlattenSeq(<<x>>) = x
<1>1. <<>> \in Seq(Seq(S)) /\ Append(<<>>, x) = <<x>> /\ Len(<<>>) = 0
  OBVIOUS
<1>2. FlattenSeq(Append(<<>>, x)) = FlattenSeq(<<>>) \o x
  BY <1>1, FlattenAppend, Zenon
<1>3. FlattenSeq(<<>>) = <<>>
  BY <1>1, FlattenEmpty, Zenon
<1> QED
  BY <1>1, <1>2, <1>3, ConcatEmptySeq, Zenon

\* What follows the first n sequences.
After(ss, n) == FlattenSeq(SubSeq(ss, n + 1, Len(ss)))

\* What is after the first n parts, read one part at a time.
LEMMA AfterFacts ==
  ASSUME NEW S, NEW ss \in Seq(Seq(S))
  PROVE  /\ After(ss, 0) = FlattenSeq(ss)
         /\ After(ss, Len(ss)) = <<>>
         /\ \A n \in 0..Len(ss) : After(ss, n) \in Seq(S)
         /\ \A n \in 0..Len(ss) - 1 : After(ss, n) = ss[n + 1] \o After(ss, n + 1)
<1>1. After(ss, 0) = FlattenSeq(ss)
  <2>1. SubSeq(ss, 0 + 1, Len(ss)) = ss
    BY SubSeqFull
  <2> QED
    BY <2>1 DEF After
<1>2. After(ss, Len(ss)) = <<>>
  <2>1. SubSeq(ss, Len(ss) + 1, Len(ss)) = <<>> /\ Len(<<>>) = 0
    OBVIOUS
  <2>2. FlattenSeq(<<>>) = <<>>
    BY <2>1, FlattenEmpty, Zenon
  <2> QED
    BY <2>1, <2>2, Zenon DEF After
<1>3. \A n \in 0..Len(ss) : SubSeq(ss, n + 1, Len(ss)) \in Seq(Seq(S))
  BY SubSeqProperties
<1>4. \A n \in 0..Len(ss) : After(ss, n) \in Seq(S)
  BY <1>3, FlattenType DEF After
<1>5. ASSUME NEW n \in 0..Len(ss) - 1
      PROVE  After(ss, n) = ss[n + 1] \o After(ss, n + 1)
  <2>1. PICK uu : uu = SubSeq(ss, (n + 1) + 1, Len(ss))
    OBVIOUS
  <2>2. SubSeq(ss, n + 1, Len(ss)) = <<ss[n + 1]>> \o uu
    BY <2>1, SubSeqRecursiveFirst
  <2>3. uu \in Seq(Seq(S)) /\ ss[n + 1] \in Seq(S) /\ <<ss[n + 1]>> \in Seq(Seq(S))
    BY <1>3, <2>1
  <2>4. FlattenSeq(<<ss[n + 1]>> \o uu) = FlattenSeq(<<ss[n + 1]>>) \o FlattenSeq(uu)
    BY <2>3, FlattenConcat
  <2>5. FlattenSeq(<<ss[n + 1]>>) = ss[n + 1]
    BY <2>3, FlattenOne
  <2> QED
    BY <2>1, <2>2, <2>4, <2>5 DEF After
<1> QED
  BY <1>1, <1>2, <1>4, <1>5

\* A word is a number of at most 16 bits.
LEMMA WordIs == \A x \in Word : x \in Nat /\ x <= 65535
  BY DEF Word

\* A number below 65536 is a word.
LEMMA WordBelow ==
  ASSUME NEW x \in Nat, x < 65536
  PROVE  x \in Word
  BY DEF Word

\* The words, as a range with a bound that has a name.
LEMMA WordRange ==
  \E top \in Nat : (\A x \in Word : x \in 0..top) /\ (\A x \in 0..top : x \in Word)
<1>1. PICK top \in Nat : top = 65535
  OBVIOUS
<1>2. \A x \in Word : x \in Nat /\ x <= top
  BY <1>1 DEF Word
<1>3. \A x \in Nat : x <= top => x \in Word
  BY <1>1 DEF Word
<1> QED
  BY <1>2, <1>3

\* The fields of a record.
LEMMA RecordFields ==
  ASSUME NEW r \in Record
  PROVE  /\ r.ts \in Nat /\ DOMAIN r.regs \subseteq Reg
         /\ \A reg \in DOMAIN r.regs : r.regs[reg] \in Word
<1>1. r.ts \in Nat /\ r.regs \in Values
  BY DEF Record
<1>2. \E S \in SUBSET Reg : r.regs \in [S -> Word]
  BY <1>1, Zenon DEF Values
<1> QED
  BY <1>1, <1>2

\* curr[reg] keeps the last value the register had.
LEMMA CurrentIs ==
  ASSUME NEW recs, NEW reg, NEW n \in Nat, Len(recs) = n
  PROVE  /\ Current(recs, reg)[0] = 0
         /\ \A i \in 1..n : Current(recs, reg)[i] =
              IF reg \in DOMAIN recs[i].regs THEN recs[i].regs[reg] ELSE Current(recs, reg)[i - 1]
<1> DEFINE Curr(y, i) == IF reg \in DOMAIN recs[i].regs THEN recs[i].regs[reg] ELSE y
           Is(g, m) == g = [i \in 0..m |-> IF i = 0 THEN 0 ELSE Curr(g[i - 1], i)]
           S == {m \in Nat : \E g : Is(g, m)}
<1>1. 0 \in S
  <2>1. Is([i \in 0..0 |-> 0], 0)
    OBVIOUS
  <2> QED
    BY <2>1
<1>2. ASSUME NEW m \in Nat, m \in S PROVE m + 1 \in S
  <2>1. PICK g : Is(g, m)
    BY <1>2
  <2> DEFINE h == [i \in 0..m + 1 |-> IF i = m + 1 THEN Curr(g[m], m + 1) ELSE g[i]]
  <2> HIDE DEF Curr
  <2>2. \A i \in 0..m + 1 : h[i] = IF i = 0 THEN 0 ELSE Curr(h[i - 1], i)
    BY <2>1
  <2>3. Is(h, m + 1)
    BY <2>2
  <2> HIDE DEF h
  <2> QED
    BY <2>3
<1>3. \E g : Is(g, n)
  <2> HIDE DEF S
  <2>1. n \in S
    BY <1>1, <1>2, SetInduction
  <2> QED
    BY <2>1 DEF S
<1>4. PICK f : f = CHOOSE g : Is(g, n)
  OBVIOUS
<1>5. Is(f, n)
  BY <1>3, <1>4, Zenon
<1>6. Current(recs, reg) = f
  <2> DEFINE G(l) == CHOOSE g : g = [i \in 0..l |-> IF i = 0 THEN 0 ELSE
                       IF reg \in DOMAIN recs[i].regs THEN recs[i].regs[reg] ELSE g[i - 1]]
  <2>1. Current(recs, reg) = G(Len(recs))
    BY Zenon DEF Current
  <2>2. f = G(n)
    BY <1>4, Zenon
  <2> HIDE DEF G
  <2> QED
    BY <2>1, <2>2
<1>7. f[0] = 0 /\ \A i \in 1..n : f[i] = Curr(f[i - 1], i)
  <2> HIDE DEF Curr
  <2> QED
    BY <1>5
<1> QED
  BY <1>6, <1>7, Zenon

\* The value of a register is in the range of the values of the records.
LEMMA CurrentRange ==
  ASSUME NEW recs \in Seq(Record), NEW reg, NEW top \in Nat,
         \A i \in 1..Len(recs) : \A r \in DOMAIN recs[i].regs : recs[i].regs[r] \in 0..top
  PROVE  \A i \in 0..Len(recs) : Current(recs, reg)[i] \in 0..top
<1>1. PICK n \in Nat : n = Len(recs)
  OBVIOUS
<1>2. PICK c : c = Current(recs, reg)
  OBVIOUS
<1>3. c[0] = 0 /\ \A i \in 1..n : c[i] = IF reg \in DOMAIN recs[i].regs THEN recs[i].regs[reg] ELSE c[i - 1]
  <2>1. /\ Current(recs, reg)[0] = 0
        /\ \A i \in 1..n : Current(recs, reg)[i] =
             IF reg \in DOMAIN recs[i].regs THEN recs[i].regs[reg] ELSE Current(recs, reg)[i - 1]
    BY <1>1, CurrentIs
  <2> QED
    BY <1>2, <2>1, Zenon
<1> DEFINE T == {k \in Nat : k <= n => c[k] \in 0..top}
<1>4. 0 \in T
  BY <1>3
<1>5. ASSUME NEW k \in Nat, k \in T PROVE k + 1 \in T
  <2> SUFFICES ASSUME k + 1 <= n PROVE c[k + 1] \in 0..top
    OBVIOUS
  <2>1. k + 1 \in 1..n /\ (k + 1) - 1 = k /\ c[k] \in 0..top
    BY <1>5
  <2>2. c[k + 1] = IF reg \in DOMAIN recs[k + 1].regs THEN recs[k + 1].regs[reg] ELSE c[k]
    BY <1>3, <2>1
  <2> QED
    BY <1>1, <2>1, <2>2
<1> HIDE DEF T
<1>6. Nat \subseteq T
  BY <1>4, <1>5, SetInduction
<1> QED
  BY <1>1, <1>2, <1>6 DEF T

\* The difference of two 16-bit values and its code.
\* The difference of two words, and its code.
LEMMA DifferenceRange ==
  ASSUME NEW x \in Word, NEW y \in Word, NEW d, d = Int16(x) - Int16(y)
  PROVE  d \in Int /\ Zigzag(d) \in Nat /\ Zigzag(d) < TwoTo32
<1>1. ASSUME NEW z \in Word PROVE Int16(z) \in Int /\ Int16(z) <= 32767 /\ -32768 <= Int16(z)
  <2>1. z \in Nat /\ z <= 65535
    BY WordIs
  <2>2. CASE z < 32768
    BY <2>1, <2>2 DEF Int16
  <2>3. CASE z >= 32768
    <3>1. Int16(z) = z - 65536
      BY <2>1, <2>3 DEF Int16
    <3> QED
      BY <2>1, <2>3, <3>1
  <2> QED
    BY <2>1, <2>2, <2>3
<1>2. d \in Int /\ d <= 65535 /\ -65535 <= d
  BY <1>1
<1> QED
  BY <1>2, SMT DEF Zigzag, TwoTo32

\* A difference is an integer whose zigzag code fits 32 bits.
LEMMA DeltaRange ==
  ASSUME NEW recs \in Seq(Record), NEW reg, NEW i \in 1..Len(recs)
  PROVE  /\ Delta(recs, i, reg) \in Int
         /\ Zigzag(Delta(recs, i, reg)) \in Nat /\ Zigzag(Delta(recs, i, reg)) < TwoTo32
<1>1. PICK c : c = Current(recs, reg)
  OBVIOUS
<1>2. PICK top \in Nat : (\A x \in Word : x \in 0..top) /\ (\A x \in 0..top : x \in Word)
  BY WordRange
<1>3. \A j \in 1..Len(recs) : \A r \in DOMAIN recs[j].regs : recs[j].regs[r] \in 0..top
  <2>1. \A j \in 1..Len(recs) : recs[j] \in Record
    OBVIOUS
  <2> QED
    BY <1>2, <2>1, RecordFields
<1>4. PICK x \in Word, y \in Word : x = c[i] /\ y = c[i - 1]
  <2>1. \A j \in 0..Len(recs) : Current(recs, reg)[j] \in 0..top
    BY <1>3, CurrentRange
  <2> QED
    BY <1>1, <1>2, <2>1
<1>5. PICK d : d = Delta(recs, i, reg)
  OBVIOUS
<1>6. d = Int16(x) - Int16(y)
  BY <1>1, <1>4, <1>5 DEF Delta
<1>7. d \in Int /\ Zigzag(d) \in Nat /\ Zigzag(d) < TwoTo32
  BY <1>6, DifferenceRange
<1> QED
  BY <1>5, <1>7

\* The zigzag code of a difference is undone, whatever its sign.
LEMMA ZigzagUndone ==
  ASSUME NEW v \in Int
  PROVE  Zigzag(v) \in Nat /\ Unzigzag(Zigzag(v)) = v
<1>1. CASE v >= 0
  <2>1. Zigzag(v) = 2 * v /\ v \in Nat
    BY <1>1 DEF Zigzag
  <2>2. (2 * v) % 2 = 0 /\ (2 * v) \div 2 = v
    BY <2>1
  <2> QED
    BY <2>1, <2>2 DEF Unzigzag
<1>2. CASE v < 0
  <2> DEFINE w == -v - 1
  <2>1. Zigzag(v) = 2 * w + 1 /\ w \in Nat
    BY <1>2 DEF Zigzag
  <2>2. (2 * w + 1) % 2 = 1 /\ (2 * w + 1) \div 2 = w
    BY <2>1
  <2>3. Unzigzag(2 * w + 1) = -w - 1
    BY <2>2 DEF Unzigzag
  <2> QED
    BY <2>1, <2>3
<1> QED
  BY <1>1, <1>2

\* A value below 32768 survives the device's difference of signed 16-bit values
\* (Compression.cpp:116-117) and the server's clamped sum (telemetry.py:108-109), whatever
\* value below 32768 it follows.
THEOREM SmallValueArrives ==
  ASSUME NEW prev \in Word, NEW cur \in Word, prev < 32768, cur < 32768
  PROVE  Clamp(prev + Unzigzag(Zigzag(Int16(cur) - Int16(prev)))) = cur
<1>1. Int16(cur) = cur /\ Int16(prev) = prev /\ cur - prev \in Int
  BY DEF Int16, Word
<1>2. Unzigzag(Zigzag(cur - prev)) = cur - prev
  BY <1>1, ZigzagUndone
<1> QED
  BY <1>1, <1>2 DEF Clamp, Word

\* The function behind DecodeRegisters: the selected registers are read one after the other.
LEMMA DecodeRegistersIs ==
  ASSUME NEW st, NEW regs
  PROVE  \E f : /\ f[0] = st
                /\ \A k \in Reg : f[k + 1] = IF k \in regs THEN DecodeRegister(f[k], k) ELSE f[k]
                /\ DecodeRegisters(st, regs) = f[10]
<1> DEFINE Reading(y, k) == IF k \in regs THEN DecodeRegister(y, k) ELSE y
           Is(g, m) == g = [k \in 0..m |-> IF k = 0 THEN st ELSE Reading(g[k - 1], k - 1)]
           S == {m \in Nat : \E g : Is(g, m)}
<1>1. 0 \in S
  <2>1. Is([k \in 0..0 |-> st], 0)
    OBVIOUS
  <2> QED
    BY <2>1
<1>2. ASSUME NEW m \in Nat, m \in S PROVE m + 1 \in S
  <2>1. PICK g : Is(g, m)
    BY <1>2
  <2> DEFINE h == [k \in 0..m + 1 |-> IF k = m + 1 THEN Reading(g[m], m) ELSE g[k]]
  <2> HIDE DEF Reading
  <2>2. \A k \in 0..m + 1 : h[k] = IF k = 0 THEN st ELSE Reading(h[k - 1], k - 1)
    BY <2>1
  <2>3. Is(h, m + 1)
    BY <2>2
  <2> HIDE DEF h
  <2> QED
    BY <2>3
<1>3. \E g : Is(g, 10)
  <2> HIDE DEF S
  <2>1. 10 \in S
    BY <1>1, <1>2, SetInduction
  <2> QED
    BY <2>1 DEF S
<1>4. PICK f : f = CHOOSE g : Is(g, 10)
  OBVIOUS
<1>5. Is(f, 10)
  BY <1>3, <1>4, Zenon
<1>6. DecodeRegisters(st, regs) = f[10]
  BY <1>4, Zenon DEF DecodeRegisters
<1>7. f[0] = st /\ \A k \in Reg : f[k + 1] = Reading(f[k], k)
  <2> HIDE DEF Reading
  <2>1. \A k \in 0..10 : f[k] = IF k = 0 THEN st ELSE Reading(f[k - 1], k - 1)
    BY <1>5
  <2>2. \A k \in Reg : k + 1 \in 0..10 /\ k + 1 # 0 /\ (k + 1) - 1 = k
    BY DEF Reg
  <2> QED
    BY <2>1, <2>2
<1> QED
  BY <1>6, <1>7, Zenon

\* A value the server clamps is an integer.
LEMMA ClampRange ==
  ASSUME NEW v \in Int
  PROVE  Clamp(v) \in Int
  BY DEF Clamp

\* What is decoded from a zigzag code is an integer.
LEMMA UnzigzagInt ==
  ASSUME NEW u \in Nat
  PROVE  Unzigzag(u) \in Int
  BY DEF Unzigzag

\* The place of a register among the codes of a record.
LEMMA RegIndex == \A k \in 1..10 : k - 1 \in Reg
  BY DEF Reg

\* The registers, as a range with a bound that has a name.
LEMMA RegIs == \E ten \in Nat : ten = 10 /\ Reg = 0..ten - 1
  BY DEF Reg

\* The bytes of each register of a record: the code of a selected one, none for the others.
RegisterBytes(bs, sel, code) ==
  /\ sel \in SUBSET Reg
  /\ \A reg \in sel : code[reg] \in Nat /\ code[reg] < TwoTo32
  /\ bs = [k \in 1..10 |-> IF k - 1 \in sel THEN Varint(code[k - 1]) ELSE <<>>]

\* The bytes of the registers of a record, and those after each register.
LEMMA RegisterBytesFacts ==
  ASSUME NEW bs, NEW sel, NEW code, RegisterBytes(bs, sel, code)
  PROVE  /\ bs \in Seq(Seq(Byte)) /\ Len(bs) = 10
         /\ \A k \in Reg : bs[k + 1] = IF k \in sel THEN Varint(code[k]) ELSE <<>>
<1>1. PICK ten \in Nat : ten = 10 /\ Reg = 0..ten - 1
  BY RegIs
<1>2. bs = [k \in 1..ten |-> IF k - 1 \in sel THEN Varint(code[k - 1]) ELSE <<>>]
  BY <1>1, Zenon DEF RegisterBytes
<1>3. \A reg \in sel : Varint(code[reg]) \in Seq(Byte)
  <2> SUFFICES ASSUME NEW reg \in sel PROVE Varint(code[reg]) \in Seq(Byte)
    OBVIOUS
  <2>1. PICK c, e : c = code[reg] /\ e = <<>>
    OBVIOUS
  <2>2. c \in Nat /\ c < TwoTo32
    BY <2>1, Zenon DEF RegisterBytes
  <2>3. e \in Seq(Byte)
    BY <2>1
  <2> QED
    BY <2>1, <2>2, <2>3, VarintRead
<1>4. \A k \in 1..ten : bs[k] \in Seq(Byte)
  <2>1. <<>> \in Seq(Byte)
    OBVIOUS
  <2> QED
    BY <1>2, <1>3, <2>1, Zenon
<1>5. bs \in Seq(Seq(Byte)) /\ Len(bs) = ten
  BY <1>2, <1>4
<1>6. \A k \in Reg : k + 1 \in 1..ten /\ (k + 1) - 1 = k
  BY <1>1
<1>7. \A k \in Reg : bs[k + 1] = IF k \in sel THEN Varint(code[k]) ELSE <<>>
  BY <1>2, <1>6, Zenon
<1> QED
  BY <1>1, <1>5, <1>7

\* The selected registers of a record, read one after the other.
AtRegisters(st, bs, t) ==
  t \in Seq(Byte) /\ st.rest = FlattenSeq(bs) \o t /\ st.last \in [Reg -> Int]

PastRegisters(r, st, sel, code, t) ==
  /\ r.rest = t
  /\ r.last = [reg \in Reg |-> IF reg \in sel THEN Clamp(st.last[reg] + Unzigzag(code[reg]))
                               ELSE st.last[reg]]

\* The selected registers get the differences the encoder wrote, and the rest is what follows.
LEMMA RegistersRead ==
  ASSUME NEW bs, NEW sel, NEW code, RegisterBytes(bs, sel, code),
         NEW st, NEW t, AtRegisters(st, bs, t), NEW r, r = DecodeRegisters(st, sel)
  PROVE  PastRegisters(r, st, sel, code, t)
<1>1. PICK last \in [Reg -> Int] : /\ last = st.last
                                   /\ t \in Seq(Byte) /\ st.rest = FlattenSeq(bs) \o t
  BY DEF AtRegisters
<1>2. PICK ten \in Nat : ten = 10 /\ Reg = 0..ten - 1
  BY RegIs
<1>3. /\ bs \in Seq(Seq(Byte)) /\ Len(bs) = ten
      /\ \A k \in Reg : bs[k + 1] = IF k \in sel THEN Varint(code[k]) ELSE <<>>
  <2>1. /\ bs \in Seq(Seq(Byte)) /\ Len(bs) = 10
        /\ \A k \in Reg : bs[k + 1] = IF k \in sel THEN Varint(code[k]) ELSE <<>>
    BY RegisterBytesFacts
  <2> QED
    BY <1>2, <2>1, Zenon
<1>4. /\ After(bs, 0) = FlattenSeq(bs) /\ After(bs, ten) = <<>>
      /\ \A k \in 0..ten : After(bs, k) \in Seq(Byte)
      /\ \A k \in 0..ten - 1 : After(bs, k) = bs[k + 1] \o After(bs, k + 1)
  BY <1>3, AfterFacts
<1>5. PICK f : /\ f[0] = st
               /\ \A k \in Reg : f[k + 1] = IF k \in sel THEN DecodeRegister(f[k], k) ELSE f[k]
               /\ r = f[ten]
  <2>1. PICK f : /\ f[0] = st
                 /\ \A k \in Reg : f[k + 1] = IF k \in sel THEN DecodeRegister(f[k], k) ELSE f[k]
                 /\ DecodeRegisters(st, sel) = f[10]
    BY DecodeRegistersIs
  <2>2. r = f[10]
    BY <2>1, Zenon
  <2>3. r = f[ten]
    BY <1>2, <2>2
  <2> QED
    BY <2>1, <2>3, Zenon
<1> DEFINE New(reg) == Clamp(last[reg] + Unzigzag(code[reg]))
           UpTo(k) == [reg \in Reg |-> IF reg \in sel /\ reg < k THEN New(reg) ELSE last[reg]]
           T == {k \in Nat : k <= ten => f[k].rest = After(bs, k) \o t /\ f[k].last = UpTo(k)}
<1>6. 0 \in T
  <2> HIDE DEF New
  <2>1. \A reg \in Reg : ~(reg < 0)
    BY <1>2
  <2>2. UpTo(0) = last
    BY <2>1
  <2>3. f[0].rest = After(bs, 0) \o t /\ f[0].last = last
    BY <1>1, <1>4, <1>5
  <2> QED
    BY <2>2, <2>3
<1>7. ASSUME NEW k \in Nat, k \in T PROVE k + 1 \in T
  <2> SUFFICES ASSUME k + 1 <= ten
               PROVE  f[k + 1].rest = After(bs, k + 1) \o t /\ f[k + 1].last = UpTo(k + 1)
    OBVIOUS
  <2>1. k \in 0..ten - 1 /\ k \in Reg /\ k + 1 \in 0..ten
    BY <1>2
  <2>2. f[k].rest = After(bs, k) \o t /\ f[k].last = UpTo(k)
    BY <1>7, <2>1
  <2>3. PICK g, h : g = f[k] /\ h = f[k + 1]
    OBVIOUS
  <2>4. PICK a, b : a = After(bs, k + 1) /\ b = After(bs, k)
    OBVIOUS
  <2>5. a \in Seq(Byte) /\ b = bs[k + 1] \o a /\ a \o t \in Seq(Byte)
    <3>1. a \in Seq(Byte) /\ b = bs[k + 1] \o a
      BY <1>4, <2>1, <2>4, Zenon
    <3>2. t \in Seq(Byte)
      BY <1>1
    <3> QED
      BY <3>1, <3>2
  <2>6. \A reg \in Reg : reg < k + 1 <=> (reg < k \/ reg = k)
    BY <1>2
  <2> HIDE DEF T
  <2>7. CASE k \in sel
    <3>1. PICK v, c : v = Varint(code[k]) /\ c = code[k]
      OBVIOUS
    <3>2. c \in Nat /\ c < TwoTo32
      BY <2>7, <3>1, Zenon DEF RegisterBytes
    <3>3. bs[k + 1] = v /\ v = Varint(c)
      BY <1>3, <2>1, <2>7, <3>1, Zenon
    <3>4. PICK w \in Seq(Byte) : w = a \o t
      BY <2>5
    <3>5. v \in Seq(Byte) /\ GetVarint(v \o w) = [val |-> c, rest |-> w]
      BY <3>2, <3>3, VarintRead
    <3>6. b \o t = v \o w
      <4>1. ThreeSeqs(Byte, v, a, t)
        BY <1>1, <2>5, <3>5, Zenon DEF ThreeSeqs
      <4>2. Associates(Byte, v, a, t)
        BY <4>1, ConcatAssoc, Zenon
      <4>3. (v \o a) \o t = v \o (a \o t)
        BY <4>2, Zenon DEF Associates
      <4>4. b = v \o a
        BY <2>5, <3>3, Zenon
      <4> QED
        BY <3>4, <4>3, <4>4, Zenon
    <3>7. h = DecodeRegister(g, k)
      BY <1>5, <2>1, <2>3, <2>7, Zenon
    <3>8. GetVarint(g.rest) = [val |-> c, rest |-> w]
      BY <2>2, <2>3, <2>4, <3>5, <3>6, Zenon
    <3> HIDE DEF UpTo, New
    <3>9. h.rest = w /\ h.last = [g.last EXCEPT ![k] = Clamp(@ + Unzigzag(c))]
      <4>1. PICK enc : enc = GetVarint(g.rest)
        OBVIOUS
      <4>2. enc.val = c /\ enc.rest = w
        BY <3>8, <4>1
      <4>3. h = [rest |-> enc.rest, last |-> [g.last EXCEPT ![k] = Clamp(@ + Unzigzag(enc.val))]]
        BY <3>7, <4>1, Zenon DEF DecodeRegister
      <4>4. h.rest = enc.rest
        BY <4>3
      <4>5. h.last = [g.last EXCEPT ![k] = Clamp(@ + Unzigzag(enc.val))]
        BY <4>3
      <4> QED
        BY <4>2, <4>4, <4>5, Zenon
    <3>10. g.last[k] = last[k]
      <4>1. ~(k < k)
        OBVIOUS
      <4> QED
        BY <2>1, <2>2, <2>3, <4>1, Zenon DEF UpTo
    <3>11. h.last = [UpTo(k) EXCEPT ![k] = New(k)]
      BY <2>2, <2>3, <3>1, <3>9, <3>10, Zenon DEF New
    <3>12. [UpTo(k) EXCEPT ![k] = New(k)] = UpTo(k + 1)
      BY <2>1, <2>6, <2>7 DEF UpTo
    <3> QED
      BY <2>3, <2>4, <3>4, <3>9, <3>11, <3>12, Zenon
  <2>8. CASE k \notin sel
    <3>1. bs[k + 1] = <<>>
      BY <1>3, <2>1, <2>8, Zenon
    <3>2. b = a
      BY <2>5, <3>1
    <3>3. h = g
      BY <1>5, <2>1, <2>3, <2>8, Zenon
    <3> HIDE DEF New
    <3>4. UpTo(k + 1) = UpTo(k)
      BY <2>1, <2>6, <2>8
    <3> QED
      BY <2>2, <2>3, <2>4, <3>2, <3>3, <3>4, Zenon
  <2> QED
    BY <2>7, <2>8
<1>8. f[ten].rest = t /\ f[ten].last = UpTo(ten)
  <2> HIDE DEF T, UpTo
  <2>1. ten \in T
    BY <1>6, <1>7, SetInduction
  <2>2. f[ten].rest = After(bs, ten) \o t /\ f[ten].last = UpTo(ten)
    BY <2>1 DEF T
  <2> QED
    BY <1>1, <1>4, <2>2
<1>9. UpTo(ten) = [reg \in Reg |-> IF reg \in sel THEN New(reg) ELSE last[reg]]
  <2> HIDE DEF New
  <2>1. \A reg \in Reg : reg < ten
    BY <1>2
  <2> QED
    BY <2>1
<1>10. r.last = [reg \in Reg |-> IF reg \in sel THEN Clamp(last[reg] + Unzigzag(code[reg]))
                                ELSE last[reg]]
  BY <1>5, <1>8, <1>9, Zenon
<1> QED
  BY <1>1, <1>5, <1>8, <1>10, Zenon DEF PastRegisters

\* The powers of 256.
Powers == <<1, 256, 65536, 16777216, TwoTo32, 256 * TwoTo32, 65536 * TwoTo32,
            16777216 * TwoTo32, TwoTo64>>

\* The powers of 256 up to the eighth.
LEMMA PowersAre ==
  /\ Powers[1] = 1 /\ Powers[3] = 65536 /\ Powers[9] = TwoTo64
  /\ PowersOf(256, 2, Powers) /\ PowersOf(256, 8, Powers)
<1>1. /\ Powers[1] = 1 /\ Powers[2] = 256 /\ Powers[3] = 65536 /\ Powers[4] = 16777216
      /\ Powers[5] = TwoTo32 /\ Powers[6] = 256 * TwoTo32 /\ Powers[7] = 65536 * TwoTo32
      /\ Powers[8] = 16777216 * TwoTo32 /\ Powers[9] = TwoTo64
  BY DEF Powers
<1>2. /\ TwoTo32 \in Nat /\ TwoTo32 = 256 * 16777216 /\ TwoTo64 = 256 * (16777216 * TwoTo32)
      /\ 256 * TwoTo32 \in Nat /\ 65536 * TwoTo32 \in Nat /\ 16777216 * TwoTo32 \in Nat
      /\ 65536 * TwoTo32 = 256 * (256 * TwoTo32)
      /\ 16777216 * TwoTo32 = 256 * (65536 * TwoTo32)
  BY SMT DEF TwoTo32, TwoTo64
<1>3. PICK power : power = Powers
  OBVIOUS
<1>4. /\ power[1] \in Nat /\ power[2] = 256 * power[1]
      /\ power[2] \in Nat /\ power[3] = 256 * power[2]
  BY <1>1, <1>3
<1>5. /\ power[3] \in Nat /\ power[4] = 256 * power[3]
      /\ power[4] \in Nat /\ power[5] = 256 * power[4]
      /\ power[5] \in Nat /\ power[6] = 256 * power[5]
  BY <1>1, <1>2, <1>3
<1>6. /\ power[6] \in Nat /\ power[7] = 256 * power[6]
      /\ power[7] \in Nat /\ power[8] = 256 * power[7]
      /\ power[8] \in Nat /\ power[9] = 256 * power[8]
  <2>1. PICK a, b, c, d : a = 256 * TwoTo32 /\ b = 65536 * TwoTo32 /\ c = 16777216 * TwoTo32
                          /\ d = TwoTo64
    OBVIOUS
  <2>2. /\ a \in Nat /\ b \in Nat /\ c \in Nat /\ b = 256 * a /\ c = 256 * b /\ d = 256 * c
    BY <1>2, <2>1
  <2>3. power[6] = a /\ power[7] = b /\ power[8] = c /\ power[9] = d
    <3>1. power[6] = 256 * TwoTo32 /\ power[7] = 65536 * TwoTo32
      BY <1>1, <1>3, SMT
    <3>2. power[8] = 16777216 * TwoTo32 /\ power[9] = TwoTo64
      BY <1>1, <1>3, SMT
    <3> QED
      BY <2>1, <3>1, <3>2, SMT
  <2> QED
    BY <2>2, <2>3
<1>7. \A k \in 1..8 : power[k] \in Nat /\ power[k + 1] = 256 * power[k]
  <2> SUFFICES ASSUME NEW k \in 1..8 PROVE power[k] \in Nat /\ power[k + 1] = 256 * power[k]
    OBVIOUS
  <2>1. CASE k = 1 \/ k = 2
    BY <1>4, <2>1
  <2>2. CASE k = 3 \/ k = 4 \/ k = 5
    BY <1>5, <2>2
  <2>3. CASE k = 6 \/ k = 7 \/ k = 8
    BY <1>6, <2>3
  <2> QED
    BY <2>1, <2>2, <2>3
<1>8. \A k \in 1..2 : k \in 1..8
  OBVIOUS
<1>9. PowersOf(256, 8, power) /\ PowersOf(256, 2, power)
  BY <1>1, <1>3, <1>7, <1>8 DEF PowersOf
<1> QED
  BY <1>1, <1>3, <1>9

\* A word has two bytes.
LEMMA TwoBytes ==
  ASSUME NEW x \in Word
  PROVE  x \in Nat /\ Shifted(256, 2, x)[2] = 0
<1>1. PICK base, n, power : base = 256 /\ n = 2 /\ power = Powers
  OBVIOUS
<1>2. PowersOf(base, n, power) /\ x \in Nat /\ x < power[n + 1]
  BY <1>1, PowersAre, WordIs
<1>3. Shifted(base, n, x)[n] = 0
  BY <1>2, AllCutOff
<1> QED
  BY <1>1, <1>2, <1>3

\* A number of 64 bits has eight bytes.
LEMMA EightBytes ==
  ASSUME NEW x \in Nat, x < TwoTo64
  PROVE  Shifted(256, 8, x)[8] = 0
<1>1. PICK base, n, power : base = 256 /\ n = 8 /\ power = Powers
  OBVIOUS
<1>2. PowersOf(base, n, power) /\ x < power[n + 1]
  BY <1>1, PowersAre
<1>3. Shifted(base, n, x)[n] = 0
  BY <1>2, AllCutOff
<1> QED
  BY <1>1, <1>3

\* Records the wire format can carry: the first time stamp fits 64 bits, time does not
\* run back, a gap fits 32 bits and their number 16.
Sendable(recs) ==
  /\ recs \in Seq(Record) /\ recs # <<>> /\ Len(recs) < 65536
  /\ recs[1].ts < TwoTo64
  /\ \A i \in 1..Len(recs) - 1 :
       recs[i].ts <= recs[i + 1].ts /\ recs[i + 1].ts - recs[i].ts < TwoTo32

\* The time stamp the differences of record i are taken from.
Before(recs, i) == IF i = 1 THEN recs[1].ts ELSE recs[i - 1].ts

\* The difference of time that travels is the one between the records, and fits 32 bits.
LEMMA ElapsedFacts ==
  ASSUME NEW recs, Sendable(recs), NEW i \in 1..Len(recs)
  PROVE  /\ Elapsed(recs, i) \in Nat /\ Elapsed(recs, i) < TwoTo32
         /\ Before(recs, i) + Elapsed(recs, i) = recs[i].ts
<1>1. recs \in Seq(Record) /\ Len(recs) \in Nat
  BY DEF Sendable
<1>2. \A j \in 1..Len(recs) : recs[j].ts \in Nat
  BY <1>1, RecordFields
<1>3. CASE i = 1
  <2>1. PICK a \in Nat : a = recs[1].ts
    BY <1>2, <1>3
  <2>2. Elapsed(recs, i) = 0 /\ Before(recs, i) = a
    BY <1>3, <2>1 DEF Elapsed, Before
  <2>3. 0 < TwoTo32
    BY SMT DEF TwoTo32
  <2> QED
    BY <1>3, <2>1, <2>2, <2>3
<1>4. CASE i # 1
  <2>1. i - 1 \in 1..Len(recs) - 1 /\ (i - 1) + 1 = i /\ i > 1
    BY <1>1, <1>4
  <2>2. recs[i - 1].ts <= recs[i].ts /\ recs[i].ts - recs[i - 1].ts < TwoTo32
    BY <2>1 DEF Sendable
  <2>3. PICK a \in Nat, b \in Nat : a = recs[i - 1].ts /\ b = recs[i].ts
    BY <1>2, <2>1
  <2>4. Elapsed(recs, i) = b - a /\ Before(recs, i) = a
    BY <1>4, <2>1, <2>2, <2>3 DEF Elapsed, Before
  <2> QED
    BY <2>2, <2>3, <2>4
<1> QED
  BY <1>3, <1>4

\* The ten bits of a mask that travel are a word, and select registers.
LEMMA MaskFacts ==
  ASSUME NEW m \in Nat
  PROVE  RegBits(m) \in Word /\ Selected(RegBits(m)) \in SUBSET Reg
<1>1. RegBits(m) \in Nat /\ RegBits(m) < 65536
  BY DEF RegBits
<1>2. RegBits(m) \in Word
  BY <1>1, WordBelow
<1>3. Selected(RegBits(m)) \in SUBSET Reg
  BY Zenon DEF Selected
<1> QED
  BY <1>2, <1>3

\* The parts of the bytes of a record: the elapsed time, the mask, the registers.
RecordParts(recs, i, m, e, bits, bs, code) ==
  /\ e = Elapsed(recs, i) /\ e \in Nat /\ e < TwoTo32
  /\ bits = RegBits(m) /\ bits \in Word
  /\ \A reg \in Reg : Unzigzag(code[reg]) = Delta(recs, i, reg)
  /\ RegisterBytes(bs, Selected(RegBits(m)), code)
  /\ CompressRecord(recs, i, m) = (Varint(e) \o LittleEndian(2, bits)) \o FlattenSeq(bs)

\* The code of a difference fits 32 bits and is decoded to the difference.
LEMMA CodesAre ==
  ASSUME NEW recs \in Seq(Record), NEW i \in 1..Len(recs), NEW code,
         code = [reg \in Reg |-> Zigzag(Delta(recs, i, reg))]
  PROVE  \A reg \in Reg : /\ code[reg] \in Nat /\ code[reg] < TwoTo32
                           /\ Unzigzag(code[reg]) = Delta(recs, i, reg)
<1> SUFFICES ASSUME NEW reg \in Reg
             PROVE  /\ code[reg] \in Nat /\ code[reg] < TwoTo32
                    /\ Unzigzag(code[reg]) = Delta(recs, i, reg)
  OBVIOUS
<1>1. PICK d : d = Delta(recs, i, reg)
  OBVIOUS
<1>2. code[reg] = Zigzag(d)
  BY <1>1, Zenon
<1>3. d \in Int /\ Zigzag(d) \in Nat /\ Zigzag(d) < TwoTo32
  BY <1>1, DeltaRange
<1>4. Unzigzag(Zigzag(d)) = d
  BY <1>3, ZigzagUndone
<1> QED
  BY <1>1, <1>2, <1>3, <1>4, Zenon

\* The bytes of a record: its difference of time, its mask and its registers.
LEMMA RecordPartsAre ==
  ASSUME NEW recs, Sendable(recs), NEW m \in Nat, NEW i \in 1..Len(recs)
  PROVE  \E e, bits, bs, code : RecordParts(recs, i, m, e, bits, bs, code)
<1>1. recs \in Seq(Record)
  BY DEF Sendable
<1>2. PICK bits : bits = RegBits(m) /\ bits \in Word /\ Selected(bits) \in SUBSET Reg
  BY MaskFacts
<1>3. PICK code : code = [reg \in Reg |-> Zigzag(Delta(recs, i, reg))]
  OBVIOUS
<1>4. \A reg \in Reg : /\ code[reg] \in Nat /\ code[reg] < TwoTo32
                        /\ Unzigzag(code[reg]) = Delta(recs, i, reg)
  BY <1>1, <1>3, CodesAre
<1>5. PICK e : e = Elapsed(recs, i)
  OBVIOUS
<1>6. e \in Nat /\ e < TwoTo32
  BY <1>5, ElapsedFacts
<1>7. PICK sel : sel = Selected(RegBits(m)) /\ sel \in SUBSET Reg
  BY MaskFacts
<1>8. PICK bs : bs = [k \in 1..10 |-> IF k - 1 \in sel THEN Varint(code[k - 1]) ELSE <<>>]
  OBVIOUS
<1>9. RegisterBytes(bs, sel, code)
  <2>1. \A reg \in sel : code[reg] \in Nat /\ code[reg] < TwoTo32
    BY <1>4, <1>7
  <2> QED
    BY <1>7, <1>8, <2>1, Zenon DEF RegisterBytes
<1>10. CompressRecord(recs, i, m) = (Varint(e) \o LittleEndian(2, bits)) \o FlattenSeq(bs)
  <2> DEFINE Bytes(reg) == IF reg \in Selected(RegBits(m)) THEN Varint(Zigzag(Delta(recs, i, reg))) ELSE <<>>
  <2>1. CompressRecord(recs, i, m) = (Varint(Elapsed(recs, i)) \o LittleEndian(2, RegBits(m)))
                                       \o FlattenSeq([k \in 1..10 |-> Bytes(k - 1)])
    BY Zenon DEF CompressRecord
  <2>2. \A reg \in Reg : Bytes(reg) = IF reg \in sel THEN Varint(code[reg]) ELSE <<>>
    BY <1>3, <1>7, Zenon
  <2>3. \A k \in 1..10 : k - 1 \in Reg
    BY RegIndex
  <2> HIDE DEF Bytes
  <2>4. PICK fs : fs = [k \in 1..10 |-> Bytes(k - 1)]
    BY Zenon
  <2>5. CompressRecord(recs, i, m)
          = (Varint(Elapsed(recs, i)) \o LittleEndian(2, RegBits(m))) \o FlattenSeq(fs)
    BY <2>1, <2>4, Zenon
  <2>6. bs = fs
    BY <1>8, <2>4, <2>2, <2>3, Zenon
  <2>7. bits = RegBits(m)
    BY <1>2
  <2> QED
    BY <1>5, <2>5, <2>6, <2>7
<1>11. \A reg \in Reg : Unzigzag(code[reg]) = Delta(recs, i, reg)
  BY <1>4
<1>12. RecordParts(recs, i, m, e, bits, bs, code)
  BY <1>2, <1>5, <1>6, <1>7, <1>9, <1>10, <1>11 DEF RecordParts
<1> QED
  BY <1>12

\* The server has read the records before i, and the bytes t follow those of i.
Facing(st, recs, i, m, t) ==
  /\ Sendable(recs) /\ m \in Nat /\ i \in 1..Len(recs) /\ t \in Seq(Byte)
  /\ st.rest = CompressRecord(recs, i, m) \o t /\ st.last \in [Reg -> Int]
  /\ st.ts = Before(recs, i)

\* What the server makes of the bytes of a record.
Faced(d, st, recs, i, sel, t) ==
  /\ d.rest = t /\ d.ts = recs[i].ts
  /\ d.last = [reg \in Reg |-> IF reg \in sel THEN Clamp(st.last[reg] + Delta(recs, i, reg))
                               ELSE st.last[reg]]
  /\ d.out = IF sel = {} THEN st.out
             ELSE Append(st.out, [ts |-> recs[i].ts, regs |-> [reg \in sel |-> d.last[reg]]])

\* The bytes of one record, and what the server makes of them.
LEMMA RecordRead ==
  ASSUME NEW st, NEW recs, NEW i, NEW m, NEW t, Facing(st, recs, i, m, t)
  PROVE  /\ CompressRecord(recs, i, m) \in Seq(Byte)
         /\ Faced(DecodeRecord(st), st, recs, i, Selected(RegBits(m)), t)
<1> DEFINE dt == GetVarint(st.rest)
           bitmap == FromLittleEndian(2, dt.rest)
           regs == Selected(bitmap.val)
           ts == st.ts + dt.val
           start == [rest |-> bitmap.rest, last |-> st.last]
           read == DecodeRegisters(start, regs)
           rec == [ts |-> ts, regs |-> [reg \in regs |-> read.last[reg]]]
<1>1. DecodeRecord(st) = [rest |-> read.rest, last |-> read.last, ts |-> ts,
                          out |-> IF regs = {} THEN st.out ELSE Append(st.out, rec)]
  BY Zenon DEF DecodeRecord
<1>2. PICK d : d = DecodeRecord(st)
  OBVIOUS
<1>3. PICK x : x = IF regs = {} THEN st.out ELSE Append(st.out, rec)
  OBVIOUS
<1> HIDE DEF read
<1>4. d.rest = read.rest /\ d.last = read.last /\ d.ts = ts /\ d.out = x
  <2> HIDE DEF ts, regs, rec
  <2> QED
    BY <1>1, <1>2, <1>3
<1>5. /\ Sendable(recs) /\ m \in Nat /\ i \in 1..Len(recs) /\ t \in Seq(Byte)
      /\ st.rest = CompressRecord(recs, i, m) \o t /\ st.last \in [Reg -> Int]
      /\ st.ts = Before(recs, i)
  BY DEF Facing
<1>6. PICK e, bits, bs, code : RecordParts(recs, i, m, e, bits, bs, code)
  BY <1>5, RecordPartsAre
<1>7. /\ e = Elapsed(recs, i) /\ e \in Nat /\ e < TwoTo32 /\ bits \in Word /\ bits = RegBits(m)
      /\ RegisterBytes(bs, Selected(RegBits(m)), code)
  BY <1>6, Zenon DEF RecordParts
<1>8. \A reg \in Reg : Unzigzag(code[reg]) = Delta(recs, i, reg)
  BY <1>6, Zenon DEF RecordParts
<1>9. PICK v, le, q : v = Varint(e) /\ le = LittleEndian(2, bits) /\ q = FlattenSeq(bs)
  OBVIOUS
<1>10. CompressRecord(recs, i, m) = (v \o le) \o q
  <2>1. CompressRecord(recs, i, m) = (Varint(e) \o LittleEndian(2, bits)) \o FlattenSeq(bs)
    BY <1>6, Zenon DEF RecordParts
  <2> QED
    BY <1>9, <2>1
<1>11. q \in Seq(Byte)
  BY <1>7, <1>9, RegisterBytesFacts, FlattenType
<1>12. \A u \in Seq(Byte) : le \in Seq(Byte) /\ FromLittleEndian(2, le \o u) = [val |-> bits, rest |-> u]
  <2>1. bits \in Nat /\ Shifted(256, 2, bits)[2] = 0
    BY <1>7, TwoBytes
  <2> QED
    BY <1>9, <2>1, LittleEndianRead
<1>13. \A u \in Seq(Byte) : v \in Seq(Byte) /\ GetVarint(v \o u) = [val |-> e, rest |-> u]
  BY <1>7, <1>9, VarintRead
<1>14. v \in Seq(Byte) /\ le \in Seq(Byte)
  BY <1>11, <1>12, <1>13
<1>15. PICK w, lw : w = q \o t /\ lw = le \o w
  OBVIOUS
<1>16. /\ CompressRecord(recs, i, m) \in Seq(Byte)
       /\ w \in Seq(Byte) /\ lw \in Seq(Byte) /\ st.rest = v \o lw
  <2>1. t \in Seq(Byte)
    BY <1>5
  <2>2. /\ (v \o le) \o q \in Seq(Byte) /\ le \o (q \o t) \in Seq(Byte) /\ q \o t \in Seq(Byte)
        /\ ((v \o le) \o q) \o t = v \o (le \o (q \o t))
    <3>1. ThreeSeqs(Byte, v, le, q) /\ ThreeSeqs(Byte, le, q, t)
      BY <1>11, <1>14, <2>1, Zenon DEF ThreeSeqs
    <3>2. Associates(Byte, v, le, q) /\ Associates(Byte, le, q, t)
      BY <3>1, ConcatAssoc, Zenon
    <3>3. /\ v \o le \in Seq(Byte) /\ q \o t \in Seq(Byte) /\ le \o q \in Seq(Byte)
          /\ (v \o le) \o q = v \o (le \o q)
      BY <3>2, Zenon DEF Associates
    <3>4. /\ ThreeSeqs(Byte, v \o le, q, t) /\ ThreeSeqs(Byte, v, le, q \o t)
          /\ ThreeSeqs(Byte, v, le \o q, t) /\ ThreeSeqs(Byte, le, q \o t, t)
      BY <1>11, <1>14, <2>1, <3>3, Zenon DEF ThreeSeqs
    <3>5. /\ Associates(Byte, v \o le, q, t) /\ Associates(Byte, v, le, q \o t)
          /\ Associates(Byte, v, le \o q, t) /\ Associates(Byte, le, q \o t, t)
      BY <3>4, ConcatAssoc, Zenon
    <3>6. /\ ((v \o le) \o q) \o t = (v \o le) \o (q \o t)
          /\ (v \o le) \o (q \o t) = v \o (le \o (q \o t))
          /\ le \o (q \o t) \in Seq(Byte) /\ v \o (le \o q) \in Seq(Byte)
      BY <3>5, Zenon DEF Associates
    <3> QED
      BY <3>3, <3>6, Zenon
  <2>3. st.rest = ((v \o le) \o q) \o t
    BY <1>5, <1>10
  <2> QED
    BY <1>10, <1>15, <2>2, <2>3
<1>17. dt.val = e /\ dt.rest = lw
  <2>1. GetVarint(v \o lw) = [val |-> e, rest |-> lw]
    BY <1>13, <1>16
  <2> QED
    BY <1>16, <2>1
<1> HIDE DEF dt
<1>18. bitmap.val = bits /\ bitmap.rest = w
  <2>1. FromLittleEndian(2, le \o w) = [val |-> bits, rest |-> w]
    BY <1>12, <1>16
  <2> QED
    BY <1>15, <1>17, <2>1
<1> HIDE DEF bitmap
<1>19. regs = Selected(RegBits(m))
  BY <1>7, <1>18
<1> HIDE DEF regs
<1>20. PastRegisters(read, start, regs, code, t)
  <2>1. AtRegisters(start, bs, t)
    BY <1>5, <1>9, <1>15, <1>18 DEF AtRegisters
  <2>2. RegisterBytes(bs, regs, code)
    BY <1>7, <1>19
  <2> HIDE DEF start
  <2> QED
    BY <2>1, <2>2, RegistersRead DEF read
<1>21. d.rest = t /\ d.last = [reg \in Reg |-> IF reg \in regs THEN Clamp(st.last[reg] + Delta(recs, i, reg))
                                               ELSE st.last[reg]]
  <2> DEFINE Sum(reg) == IF reg \in regs THEN Clamp(st.last[reg] + Unzigzag(code[reg])) ELSE st.last[reg]
             New(reg) == IF reg \in regs THEN Clamp(st.last[reg] + Delta(recs, i, reg)) ELSE st.last[reg]
  <2>1. start.last = st.last
    OBVIOUS
  <2>2. read.rest = t /\ read.last = [reg \in Reg |-> Sum(reg)]
    BY <1>20, <2>1, Zenon DEF PastRegisters
  <2>3. \A reg \in Reg : Sum(reg) = New(reg)
    BY <1>8, Zenon
  <2> HIDE DEF Sum, New
  <2>4. d.rest = t /\ d.last = [reg \in Reg |-> New(reg)]
    BY <1>4, <2>2, <2>3
  <2> QED
    BY <2>4, Zenon DEF New
<1>22. ts = recs[i].ts
  <2>1. Before(recs, i) + Elapsed(recs, i) = recs[i].ts
    BY <1>5, ElapsedFacts
  <2> QED
    BY <1>5, <1>7, <1>17, <2>1
<1>23. d.out = IF regs = {} THEN st.out
               ELSE Append(st.out, [ts |-> recs[i].ts, regs |-> [reg \in regs |-> d.last[reg]]])
  <2> HIDE DEF ts
  <2>1. rec = [ts |-> recs[i].ts, regs |-> [reg \in regs |-> d.last[reg]]]
    BY <1>4, <1>22, Zenon
  <2> HIDE DEF rec
  <2> QED
    BY <1>3, <1>4, <2>1, Zenon
<1>24. Faced(d, st, recs, i, regs, t)
  <2>1. d.ts = recs[i].ts
    BY <1>4, <1>22
  <2> QED
    BY <1>21, <1>23, <2>1, Zenon DEF Faced
<1> QED
  BY <1>2, <1>16, <1>19, <1>24

\* A record is compressed to bytes.
LEMMA RecordBytes ==
  ASSUME NEW recs, Sendable(recs), NEW m \in Nat, NEW i \in 1..Len(recs)
  PROVE  CompressRecord(recs, i, m) \in Seq(Byte)
<1>1. PICK st : st = [rest |-> CompressRecord(recs, i, m) \o <<>>, last |-> [reg \in Reg |-> 0],
                      ts |-> Before(recs, i)]
  OBVIOUS
<1>2. PICK t : t = <<>>
  OBVIOUS
<1>3. Facing(st, recs, i, m, t)
  BY <1>1, <1>2 DEF Facing
<1> QED
  BY <1>3, RecordRead

\* What the first ten bytes of a batch say; the states the decoder goes through after them.
Header(buf, base, nrecs, n, start) ==
  /\ base = FromLittleEndian(8, buf) /\ nrecs = FromLittleEndian(2, base.rest) /\ n = nrecs.val
  /\ start = [rest |-> nrecs.rest, last |-> [reg \in Reg |-> 0], ts |-> base.val, out |-> <<>>]

Decoding(buf, start, n, f) ==
  /\ f[0] = start
  /\ \A k \in 0..n : k < n => f[k + 1] = DecodeRecord(f[k])
  /\ DecompressDelta(buf) = f[n].out

\* The function behind DecompressDelta: one record is decoded after the other.
LEMMA DecompressIs ==
  ASSUME NEW buf, NEW start, NEW base, NEW nrecs, NEW n \in Nat,
         Header(buf, base, nrecs, n, start)
  PROVE  \E f : Decoding(buf, start, n, f)
<1> DEFINE Dec(y) == DecodeRecord(y)
           Is(g, m) == g = [k \in 0..m |-> IF k = 0 THEN start ELSE Dec(g[k - 1])]
           S == {m \in Nat : \E g : Is(g, m)}
<1>1. 0 \in S
  <2>1. Is([k \in 0..0 |-> start], 0)
    OBVIOUS
  <2> QED
    BY <2>1
<1>2. ASSUME NEW m \in Nat, m \in S PROVE m + 1 \in S
  <2>1. PICK g : Is(g, m)
    BY <1>2
  <2> DEFINE h == [k \in 0..m + 1 |-> IF k = m + 1 THEN Dec(g[m]) ELSE g[k]]
  <2> HIDE DEF Dec
  <2>2. \A k \in 0..m : h[k] = g[k] /\ g[k] = IF k = 0 THEN start ELSE Dec(g[k - 1])
    BY <2>1
  <2>3. h[m + 1] = Dec(g[m]) /\ h[m] = g[m]
    OBVIOUS
  <2>4. \A k \in 0..m + 1 : h[k] = IF k = 0 THEN start ELSE Dec(h[k - 1])
    <3> SUFFICES ASSUME NEW k \in 0..m + 1 PROVE h[k] = IF k = 0 THEN start ELSE Dec(h[k - 1])
      OBVIOUS
    <3> HIDE DEF h
    <3>1. CASE k = m + 1
      BY <2>3, <3>1
    <3>2. CASE k \in 0..m
      BY <2>2, <3>2
    <3> QED
      BY <3>1, <3>2
  <2>5. Is(h, m + 1)
    BY <2>4
  <2> HIDE DEF h, Is
  <2> QED
    BY <2>5
<1>3. \E g : Is(g, n)
  <2> HIDE DEF S
  <2>1. n \in S
    BY <1>1, <1>2, SetInduction
  <2> QED
    BY <2>1 DEF S
<1>4. PICK f : f = CHOOSE g : Is(g, n)
  OBVIOUS
<1>5. Is(f, n)
  BY <1>3, <1>4, Zenon
<1>6. DecompressDelta(buf) = f[n].out
  <2>1. /\ base = FromLittleEndian(8, buf) /\ nrecs = FromLittleEndian(2, base.rest)
        /\ n = nrecs.val
        /\ start = [rest |-> nrecs.rest, last |-> [reg \in Reg |-> 0], ts |-> base.val,
                    out |-> <<>>]
    BY Zenon DEF Header
  <2> QED
    BY <1>4, <2>1, Zenon DEF DecompressDelta
<1>7. f[0] = start /\ \A k \in 0..n : k < n => f[k + 1] = DecodeRecord(f[k])
  <2>1. \A k \in 0..n : f[k] = IF k = 0 THEN start ELSE DecodeRecord(f[k - 1])
    BY <1>5
  <2>2. \A k \in 0..n : k < n => k + 1 \in 0..n /\ k + 1 # 0 /\ (k + 1) - 1 = k
    OBVIOUS
  <2> QED
    BY <2>1, <2>2
<1> QED
  BY <1>6, <1>7, Zenon DEF Decoding

\* Values the device and the server agree on.
Small(recs) ==
  \A i \in 1..Len(recs) : \A reg \in DOMAIN recs[i].regs : recs[i].regs[reg] < 32768

\* A difference of small values, added to the last of them.
LEMMA DeltaArrives ==
  ASSUME NEW recs \in Seq(Record), Small(recs), NEW reg, NEW i \in 1..Len(recs)
  PROVE  Clamp(Current(recs, reg)[i - 1] + Delta(recs, i, reg)) = Current(recs, reg)[i]
<1>1. PICK c : c = Current(recs, reg)
  OBVIOUS
<1>2. PICK top \in Nat : top + 1 = 32768
  OBVIOUS
<1>3. \A j \in 1..Len(recs) : \A r \in DOMAIN recs[j].regs : recs[j].regs[r] \in 0..top
  <2>1. \A j \in 1..Len(recs) : \A r \in DOMAIN recs[j].regs : recs[j].regs[r] \in Word
    <3>1. \A j \in 1..Len(recs) : recs[j] \in Record
      OBVIOUS
    <3> QED
      BY <3>1, RecordFields
  <2>2. \A x \in Nat : x < 32768 => x \in 0..top
    BY <1>2
  <2> QED
    BY <2>1, <2>2, WordIs DEF Small
<1>4. c[i] \in 0..top /\ c[i - 1] \in 0..top
  <2>1. \A j \in 0..Len(recs) : Current(recs, reg)[j] \in 0..top
    BY <1>3, CurrentRange
  <2> QED
    BY <1>1, <2>1
<1>5. PICK x \in 0..top, y \in 0..top : x = c[i] /\ y = c[i - 1]
  BY <1>4
<1>6. Delta(recs, i, reg) = Int16(x) - Int16(y)
  BY <1>1, <1>5 DEF Delta
<1>7. Int16(x) = x /\ Int16(y) = y
  BY <1>2 DEF Int16
<1>8. Clamp(y + (x - y)) = x
  BY <1>2 DEF Clamp
<1> QED
  BY <1>1, <1>5, <1>6, <1>7, <1>8

\* out is what is left of recs on the other side when the registers sel travel.
ReadBack(out, recs, sel) ==
  /\ sel = {} => out = <<>>
  /\ sel # {} =>
       /\ out \in Seq([ts : Nat, regs : [sel -> Int]]) /\ Len(out) = Len(recs)
       /\ \A i \in 1..Len(recs) : out[i].ts = recs[i].ts
       /\ Small(recs) => \A i \in 1..Len(recs) : \A reg \in sel :
                           out[i].regs[reg] = Current(recs, reg)[i]

\* decompress_delta gives back what compressDelta was given: every record in order with
\* its time stamp and the selected registers, and for a register the value it had in the
\* record or, when the record lacks it, in the last record that had it.
THEOREM CodecRoundTrip ==
  ASSUME NEW recs, Sendable(recs), NEW m \in Nat,
         NEW sel, sel = Selected(RegBits(m)),
         NEW out, out = DecompressDelta(CompressDelta(recs, m))
  PROVE  ReadBack(out, recs, sel)
<1>1. PICK n \in Nat : n = Len(recs) /\ recs \in Seq(Record) /\ n >= 1 /\ n < 65536
  BY DEF Sendable
<1>2. sel \in SUBSET Reg
  BY MaskFacts
<1> DEFINE rs == [i \in 1..n |-> CompressRecord(recs, i, m)]
<1>3. rs \in Seq(Seq(Byte)) /\ Len(rs) = n
  <2>1. \A i \in 1..n : CompressRecord(recs, i, m) \in Seq(Byte)
    <3> SUFFICES ASSUME NEW i \in 1..n PROVE CompressRecord(recs, i, m) \in Seq(Byte)
      OBVIOUS
    <3>1. i \in 1..Len(recs)
      BY <1>1
    <3> HIDE DEF rs
    <3> QED
      BY <3>1, RecordBytes
  <2> QED
    BY <2>1
<1> HIDE DEF rs
<1>4. /\ After(rs, 0) = FlattenSeq(rs) /\ After(rs, n) = <<>>
      /\ \A k \in 0..n : After(rs, k) \in Seq(Byte)
      /\ \A k \in 0..n - 1 : After(rs, k) = rs[k + 1] \o After(rs, k + 1)
  BY <1>3, AfterFacts
<1>5. recs[1].ts \in Nat /\ recs[1].ts < TwoTo64
  BY <1>1, RecordFields DEF Sendable
<1>6. PICK a, b, c : /\ a = LittleEndian(8, recs[1].ts) /\ b = LittleEndian(2, n)
                     /\ c = FlattenSeq(rs)
  OBVIOUS
<1>7. c \in Seq(Byte)
  <2>1. 0 \in 0..n
    OBVIOUS
  <2> QED
    BY <1>4, <1>6, <2>1
<1>8. b \in Seq(Byte) /\ FromLittleEndian(2, b \o c) = [val |-> n, rest |-> c]
  <2>1. Shifted(256, 2, n)[2] = 0
    <3>1. n \in Word
      BY <1>1, WordBelow
    <3> QED
      BY <3>1, TwoBytes
  <2> QED
    BY <1>6, <1>7, <2>1, LittleEndianRead
<1>9. b \o c \in Seq(Byte)
  BY <1>7, <1>8
<1>10. /\ a \in Seq(Byte)
       /\ FromLittleEndian(8, a \o (b \o c)) = [val |-> recs[1].ts, rest |-> b \o c]
  <2>1. Shifted(256, 8, recs[1].ts)[8] = 0
    BY <1>5, EightBytes
  <2>2. recs[1].ts \in Nat
    BY <1>5
  <2>3. PICK bc \in Seq(Byte) : bc = b \o c
    BY <1>9
  <2> QED
    <3>1. PICK x \in Nat : x = recs[1].ts
      BY <2>2
    <3>2. Shifted(256, 8, x)[8] = 0 /\ a = LittleEndian(8, x)
      BY <1>6, <2>1, <3>1
    <3>3. a \in Seq(Byte) /\ FromLittleEndian(8, a \o bc) = [val |-> x, rest |-> bc]
      BY <3>2, LittleEndianRead
    <3> QED
      BY <2>3, <3>1, <3>3
<1>11. CompressDelta(recs, m) = a \o (b \o c)
  <2>1. CompressDelta(recs, m) = (a \o b) \o c
    <3>1. PICK l : l = Len(recs)
      OBVIOUS
    <3>2. PICK ss : ss = [i \in 1..Len(recs) |-> CompressRecord(recs, i, m)]
      OBVIOUS
    <3>3. CompressDelta(recs, m)
            = (LittleEndian(8, recs[1].ts) \o LittleEndian(2, Len(recs))) \o FlattenSeq(ss)
      BY <3>2, Zenon DEF CompressDelta
    <3>4. n = Len(recs)
      BY <1>1
    <3>5. rs = ss
      BY <3>2, <3>4, Zenon DEF rs
    <3> QED
      BY <1>6, <3>3, <3>4, <3>5, Zenon
  <2>2. (a \o b) \o c = a \o (b \o c)
    <3>1. ThreeSeqs(Byte, a, b, c)
      BY <1>7, <1>8, <1>10, Zenon DEF ThreeSeqs
    <3>2. Associates(Byte, a, b, c)
      BY <3>1, ConcatAssoc, Zenon
    <3> QED
      BY <3>2, Zenon DEF Associates
  <2> QED
    BY <2>1, <2>2
<1>12. PICK start : start = [rest |-> c, last |-> [reg \in Reg |-> 0], ts |-> recs[1].ts, out |-> <<>>]
  OBVIOUS
<1>13. PICK f : /\ f[0] = start
                /\ \A k \in 0..n : k < n => f[k + 1] = DecodeRecord(f[k])
                /\ out = f[n].out
  <2>1. PICK buf : buf = a \o (b \o c)
    OBVIOUS
  <2>2. PICK base : base = FromLittleEndian(8, buf)
    OBVIOUS
  <2>3. base.val = recs[1].ts /\ base.rest = b \o c
    BY <1>10, <2>1, <2>2
  <2>4. PICK nrecs : nrecs = FromLittleEndian(2, base.rest)
    OBVIOUS
  <2>5. n = nrecs.val /\ nrecs.rest = c
    BY <1>8, <2>3, <2>4
  <2>6. start = [rest |-> nrecs.rest, last |-> [reg \in Reg |-> 0], ts |-> base.val, out |-> <<>>]
    BY <1>12, <2>3, <2>5
  <2>7. out = DecompressDelta(buf)
    BY <1>11, <2>1
  <2>8. PICK f : Decoding(buf, start, n, f)
    <3>1. Header(buf, base, nrecs, n, start)
      BY <2>2, <2>4, <2>5, <2>6, Zenon DEF Header
    <3> HIDE DEF rs
    <3> QED
      BY <3>1, DecompressIs
  <2>9. out = f[n].out
    BY <2>7, <2>8, Zenon DEF Decoding
  <2> QED
    BY <2>8, <2>9, Zenon DEF Decoding
<1> DEFINE Rec(j) == [ts |-> recs[j].ts, regs |-> [reg \in sel |-> f[j].last[reg]]]
           Out(k) == IF sel = {} THEN <<>> ELSE [j \in 1..k |-> Rec(j)]
           Ok(k) == /\ f[k].rest = After(rs, k) /\ f[k].last \in [Reg -> Int]
                    /\ f[k].ts = (IF k = 0 THEN recs[1].ts ELSE recs[k].ts)
                    /\ Small(recs) => \A reg \in sel : f[k].last[reg] = Current(recs, reg)[k]
                    /\ f[k].out = Out(k)
           T == {k \in Nat : k <= n => Ok(k)}
<1>14. 0 \in T
  <2> HIDE DEF Rec
  <2>1. \A reg : Current(recs, reg)[0] = 0
    BY <1>1, CurrentIs
  <2>2. Out(0) = <<>>
    OBVIOUS
  <2> HIDE DEF Out
  <2> QED
    BY <1>2, <1>4, <1>6, <1>12, <1>13, <2>1, <2>2
<1>15. ASSUME NEW k \in Nat, k \in T PROVE k + 1 \in T
  <2> SUFFICES ASSUME k + 1 <= n PROVE Ok(k + 1)
    OBVIOUS
  <2>1. PICK x : x = f[k]
    OBVIOUS
  <2>2. /\ x.rest = After(rs, k) /\ x.last \in [Reg -> Int]
        /\ x.ts = IF k = 0 THEN recs[1].ts ELSE recs[k].ts
        /\ Small(recs) => \A reg \in sel : x.last[reg] = Current(recs, reg)[k]
        /\ x.out = Out(k)
    BY <1>15, <2>1
  <2>3. k \in 0..n /\ k < n /\ k \in 0..n - 1 /\ k + 1 \in 1..Len(recs) /\ k + 1 \in 0..n /\ (k + 1) - 1 = k
    BY <1>1
  <2>4. PICK t \in Seq(Byte) : t = After(rs, k + 1)
    BY <1>4, <2>3
  <2> HIDE DEF T, Rec, Out
  <2>5. x.rest = CompressRecord(recs, k + 1, m) \o t
    <3>1. rs[k + 1] = CompressRecord(recs, k + 1, m)
      BY <1>1, <2>3 DEF rs
    <3>2. After(rs, k) = rs[k + 1] \o After(rs, k + 1)
      BY <1>4, <2>3, Zenon
    <3> QED
      BY <2>2, <2>4, <3>1, <3>2, Zenon
  <2>6. x.ts = Before(recs, k + 1)
    BY <2>2, <2>3 DEF Before
  <2>7. PICK d : d = f[k + 1]
    OBVIOUS
  <2>8. d = DecodeRecord(x)
    BY <1>13, <2>1, <2>3, <2>7, Zenon
  <2>9. /\ d.rest = t /\ d.ts = recs[k + 1].ts
        /\ d.last = [reg \in Reg |-> IF reg \in sel THEN Clamp(x.last[reg] + Delta(recs, k + 1, reg))
                                     ELSE x.last[reg]]
        /\ d.out = IF sel = {} THEN x.out
                   ELSE Append(x.out, [ts |-> recs[k + 1].ts, regs |-> [reg \in sel |-> d.last[reg]]])
    <3>1. Facing(x, recs, k + 1, m, t)
      BY <2>2, <2>3, <2>5, <2>6 DEF Facing
    <3>2. Faced(d, x, recs, k + 1, sel, t)
      BY <2>8, <3>1, RecordRead
    <3> QED
      BY <3>2, Zenon DEF Faced
  <2>10. d.last \in [Reg -> Int]
    <3>1. \A reg \in Reg : x.last[reg] \in Int /\ Delta(recs, k + 1, reg) \in Int
      BY <1>1, <2>2, <2>3, DeltaRange
    <3>2. \A reg \in Reg : x.last[reg] + Delta(recs, k + 1, reg) \in Int
      BY <3>1
    <3>3. \A reg \in Reg : Clamp(x.last[reg] + Delta(recs, k + 1, reg)) \in Int
      BY <3>2, ClampRange
    <3> QED
      BY <2>9, <3>1, <3>3
  <2>11. Small(recs) => \A reg \in sel : d.last[reg] = Current(recs, reg)[k + 1]
    <3> SUFFICES ASSUME Small(recs), NEW reg \in sel PROVE d.last[reg] = Current(recs, reg)[k + 1]
      OBVIOUS
    <3>1. d.last[reg] = Clamp(x.last[reg] + Delta(recs, k + 1, reg))
      BY <1>2, <2>9
    <3>2. x.last[reg] = Current(recs, reg)[k]
      BY <2>2
    <3>3. Clamp(Current(recs, reg)[(k + 1) - 1] + Delta(recs, k + 1, reg)) = Current(recs, reg)[k + 1]
      BY <1>1, <2>3, DeltaArrives
    <3> QED
      BY <2>3, <3>1, <3>2, <3>3
  <2>12. d.out = Out(k + 1)
    <3>1. CASE sel = {}
      BY <2>2, <2>9, <3>1 DEF Out
    <3>2. CASE sel # {}
      <4>1. d.out = Append([j \in 1..k |-> Rec(j)], Rec(k + 1))
        <5>1. Rec(k + 1) = [ts |-> recs[k + 1].ts, regs |-> [reg \in sel |-> d.last[reg]]]
          BY <2>7 DEF Rec
        <5>2. x.out = [j \in 1..k |-> Rec(j)]
          BY <2>2, <3>2 DEF Out
        <5> QED
          <6>1. PICK new : new = [ts |-> recs[k + 1].ts, regs |-> [reg \in sel |-> d.last[reg]]]
            BY Zenon
          <6>2. d.out = Append(x.out, new)
            BY <2>9, <3>2, <6>1, Zenon
          <6> HIDE DEF Rec
          <6>3. d.out = Append(x.out, Rec(k + 1))
            BY <5>1, <6>1, <6>2, Zenon
          <6> QED
            BY <5>2, <6>3, Zenon
      <4>2. Append([j \in 1..k |-> Rec(j)], Rec(k + 1)) = [j \in 1..k + 1 |-> Rec(j)]
        <5>1. PICK S : S = {Rec(j) : j \in 1..k + 1}
          OBVIOUS
        <5>2. \A j \in 1..k + 1 : Rec(j) \in S
          BY <5>1
        <5>3. PICK u, w : u = [j \in 1..k |-> Rec(j)] /\ w = [j \in 1..k + 1 |-> Rec(j)]
          OBVIOUS
        <5>4. u \in Seq(S) /\ Len(u) = k /\ w \in Seq(S) /\ Len(w) = k + 1
          BY <5>2, <5>3
        <5>5. \A j \in 1..k + 1 : Append(u, Rec(k + 1))[j] = w[j]
          BY <5>3, <5>4
        <5>6. Append(u, Rec(k + 1)) \in Seq(S) /\ Len(Append(u, Rec(k + 1))) = k + 1
          BY <5>2, <5>4
        <5>7. Append(u, Rec(k + 1)) = w
          BY <5>4, <5>5, <5>6, SeqEqual
        <5> QED
          BY <5>3, <5>7
      <4> QED
        BY <3>2, <4>1, <4>2 DEF Out
    <3> QED
      BY <3>1, <3>2
  <2>13. k + 1 # 0
    OBVIOUS
  <2>14. f[k + 1].rest = After(rs, k + 1) /\ f[k + 1].ts = recs[k + 1].ts
    BY <2>4, <2>7, <2>9
  <2>15. f[k + 1].last \in [Reg -> Int]
    BY <2>7, <2>10
  <2>16. Small(recs) => \A reg \in sel : f[k + 1].last[reg] = Current(recs, reg)[k + 1]
    BY <2>7, <2>11
  <2>17. f[k + 1].out = Out(k + 1)
    BY <2>7, <2>12
  <2> QED
    BY <2>13, <2>14, <2>15, <2>16, <2>17, Zenon
<1>16. \A k \in 0..n : Ok(k)
  <2> HIDE DEF T, Ok
  <2>1. Nat \subseteq T
    BY <1>14, <1>15, SetInduction
  <2> QED
    BY <2>1 DEF T
<1>17. out = Out(n)
  <2> HIDE DEF Out
  <2> QED
    BY <1>13, <1>16
<1>18. CASE sel = {}
  <2>1. out = <<>>
    BY <1>17, <1>18
  <2> QED
    BY <1>18, <2>1, Zenon DEF ReadBack
<1>19. CASE sel # {}
  <2>1. out = [j \in 1..n |-> Rec(j)]
    BY <1>17, <1>19
  <2>2. \A j \in 1..n : recs[j].ts \in Nat /\ f[j].last \in [Reg -> Int]
    <3> HIDE DEF Out
    <3> SUFFICES ASSUME NEW j \in 1..n PROVE recs[j].ts \in Nat /\ f[j].last \in [Reg -> Int]
      OBVIOUS
    <3>1. Ok(j) /\ recs[j] \in Record
      BY <1>1, <1>16
    <3> QED
      BY <3>1, RecordFields
  <2>3. \A j \in 1..n : Rec(j) \in [ts : Nat, regs : [sel -> Int]]
    BY <1>2, <2>2
  <2>4. out \in Seq([ts : Nat, regs : [sel -> Int]]) /\ Len(out) = n
    <3> HIDE DEF Rec
    <3> QED
      BY <2>1, <2>3
  <2>5. \A j \in 1..n : out[j].ts = recs[j].ts
    BY <2>1
  <2>6. Small(recs) => \A j \in 1..n : \A reg \in sel : out[j].regs[reg] = Current(recs, reg)[j]
    <3> SUFFICES ASSUME Small(recs), NEW j \in 1..n, NEW reg \in sel
                 PROVE  out[j].regs[reg] = Current(recs, reg)[j]
      OBVIOUS
    <3>1. f[j].last[reg] = Current(recs, reg)[j]
      <4> HIDE DEF Out
      <4> QED
        BY <1>16
    <3> QED
      BY <2>1, <3>1
  <2> QED
    <3>1. sel # {} /\ n = Len(recs)
      BY <1>1, <1>19
    <3>2. /\ out \in Seq([ts : Nat, regs : [sel -> Int]]) /\ Len(out) = Len(recs)
          /\ \A j \in 1..Len(recs) : out[j].ts = recs[j].ts
          /\ Small(recs) => \A j \in 1..Len(recs) : \A reg \in sel :
                              out[j].regs[reg] = Current(recs, reg)[j]
      BY <2>4, <2>5, <2>6, <3>1
    <3> HIDE DEF Rec, Out, Ok, T
    <3> QED
      BY <3>1, <3>2, Zenon DEF ReadBack
<1> QED
  BY <1>18, <1>19

\* A value of 32768 or more never does: the device sends the difference to a
\* negative number, and the server clamps the sum to 0 (telemetry.py:109).
THEOREM HighValueIsLost ==
  ASSUME NEW prev \in Word, NEW cur \in Word, prev < 32768, cur >= 32768
  PROVE  Clamp(prev + Unzigzag(Zigzag(Int16(cur) - Int16(prev)))) = 0
<1>1. Int16(cur) = cur - 65536 /\ Int16(prev) = prev /\ (cur - 65536) - prev \in Int
  BY DEF Int16, Word
<1>2. Unzigzag(Zigzag((cur - 65536) - prev)) = (cur - 65536) - prev
  BY <1>1, ZigzagUndone
<1> QED
  BY <1>1, <1>2 DEF Clamp, Word

-----------------------------------------------------------------------------
(* Lines of time stamps.                                                   *)

\* Two joined sequences have the elements of both.
LEMMA ToSetConcat ==
  ASSUME NEW S, NEW s \in Seq(S), NEW t \in Seq(S)
  PROVE  ToSet(s \o t) = ToSet(s) \cup ToSet(t)
<1>1. PICK u : u = s \o t
  OBVIOUS
<1>2. /\ Len(s) \in Nat /\ Len(t) \in Nat /\ Len(u) = Len(s) + Len(t)
      /\ DOMAIN u = 1..Len(u) /\ DOMAIN s = 1..Len(s) /\ DOMAIN t = 1..Len(t)
      /\ \A i \in 1..Len(s) : u[i] = s[i]
      /\ \A i \in 1..Len(t) : u[Len(s) + i] = t[i]
      /\ \A i \in 1..Len(u) : u[i] = IF i <= Len(s) THEN s[i] ELSE t[i - Len(s)]
  BY <1>1, ConcatProperties
<1>3. ASSUME NEW i \in 1..Len(u) PROVE u[i] \in ToSet(s) \cup ToSet(t)
  <2>1. CASE i <= Len(s)
    BY <1>2, <2>1 DEF ToSet
  <2>2. CASE ~(i <= Len(s))
    <3>1. i - Len(s) \in 1..Len(t) /\ u[i] = t[i - Len(s)]
      BY <1>2, <2>2
    <3> QED
      BY <1>2, <3>1 DEF ToSet
  <2> QED
    BY <2>1, <2>2
<1>4. ASSUME NEW i \in 1..Len(s) PROVE s[i] \in ToSet(u)
  BY <1>2 DEF ToSet
<1>5. ASSUME NEW i \in 1..Len(t) PROVE t[i] \in ToSet(u)
  <2>1. Len(s) + i \in 1..Len(u) /\ u[Len(s) + i] = t[i]
    BY <1>2
  <2> QED
    BY <1>2, <2>1 DEF ToSet
<1>6. ToSet(u) \subseteq ToSet(s) \cup ToSet(t)
  <2>1. \A x \in ToSet(u) : \E i \in 1..Len(u) : x = u[i]
    BY <1>2 DEF ToSet
  <2> QED
    BY <1>3, <2>1
<1>7. ToSet(s) \subseteq ToSet(u) /\ ToSet(t) \subseteq ToSet(u)
  <2>1. \A x \in ToSet(s) : \E i \in 1..Len(s) : x = s[i]
    BY <1>2 DEF ToSet
  <2>2. \A x \in ToSet(t) : \E i \in 1..Len(t) : x = t[i]
    BY <1>2 DEF ToSet
  <2> QED
    BY <1>4, <1>5, <2>1, <2>2
<1> QED
  BY <1>1, <1>6, <1>7

\* All of s comes before all of t.
Precedes(s, t) == \A x \in ToSet(s) : \A y \in ToSet(t) : x < y

\* Two sequences make an increasing one if they increase and the first precedes the second.
LEMMA IncreasingConcat ==
  ASSUME NEW s \in Seq(Nat), NEW t \in Seq(Nat)
  PROVE  Increasing(s \o t) <=> Increasing(s) /\ Increasing(t) /\ Precedes(s, t)
<1>1. PICK u : u = s \o t
  OBVIOUS
<1>2. /\ Len(s) \in Nat /\ Len(t) \in Nat /\ Len(u) = Len(s) + Len(t)
      /\ DOMAIN s = 1..Len(s) /\ DOMAIN t = 1..Len(t)
      /\ \A i \in 1..Len(s) : u[i] = s[i]
      /\ \A i \in 1..Len(t) : u[Len(s) + i] = t[i]
      /\ \A i \in 1..Len(u) : u[i] = IF i <= Len(s) THEN s[i] ELSE t[i - Len(s)]
  BY <1>1, ConcatProperties
<1>3. ASSUME Increasing(u) PROVE Increasing(s) /\ Increasing(t) /\ Precedes(s, t)
  <2>1. Increasing(s)
    <3> SUFFICES ASSUME NEW i \in 1..Len(s), NEW j \in 1..Len(s), i < j PROVE s[i] < s[j]
      BY DEF Increasing
    <3>1. i \in 1..Len(u) /\ j \in 1..Len(u)
      BY <1>2
    <3>2. u[i] < u[j]
      BY <1>3, <3>1 DEF Increasing
    <3> QED
      BY <1>2, <3>2
  <2>2. Increasing(t)
    <3> SUFFICES ASSUME NEW i \in 1..Len(t), NEW j \in 1..Len(t), i < j PROVE t[i] < t[j]
      BY DEF Increasing
    <3>1. Len(s) + i \in 1..Len(u) /\ Len(s) + j \in 1..Len(u) /\ Len(s) + i < Len(s) + j
      BY <1>2
    <3>2. u[Len(s) + i] < u[Len(s) + j]
      BY <1>3, <3>1 DEF Increasing
    <3> QED
      BY <1>2, <3>2
  <2>3. ASSUME NEW i \in 1..Len(s), NEW j \in 1..Len(t) PROVE s[i] < t[j]
    <3>1. i \in 1..Len(u) /\ Len(s) + j \in 1..Len(u) /\ i < Len(s) + j
      BY <1>2
    <3>2. u[i] < u[Len(s) + j]
      BY <1>3, <3>1 DEF Increasing
    <3> QED
      BY <1>2, <3>2
  <2>4. Precedes(s, t)
    BY <1>2, <2>3 DEF Precedes, ToSet
  <2> QED
    BY <2>1, <2>2, <2>4
<1>4. ASSUME Increasing(s), Increasing(t), Precedes(s, t) PROVE Increasing(u)
  <2> SUFFICES ASSUME NEW i \in 1..Len(u), NEW j \in 1..Len(u), i < j PROVE u[i] < u[j]
    BY DEF Increasing
  <2>1. CASE j <= Len(s)
    <3>1. i \in 1..Len(s) /\ j \in 1..Len(s)
      BY <1>2, <2>1
    <3>2. s[i] < s[j]
      BY <1>4, <3>1 DEF Increasing
    <3> QED
      BY <1>2, <3>1, <3>2
  <2>2. CASE i <= Len(s) /\ ~(j <= Len(s))
    <3>1. i \in 1..Len(s) /\ j - Len(s) \in 1..Len(t)
      BY <1>2, <2>2
    <3>2. s[i] \in ToSet(s) /\ t[j - Len(s)] \in ToSet(t)
      BY <1>2, <3>1 DEF ToSet
    <3>3. s[i] < t[j - Len(s)]
      BY <1>4, <3>2 DEF Precedes
    <3> QED
      BY <1>2, <2>2, <3>3
  <2>3. CASE ~(i <= Len(s))
    <3>1. i - Len(s) \in 1..Len(t) /\ j - Len(s) \in 1..Len(t) /\ i - Len(s) < j - Len(s) /\ ~(j <= Len(s))
      BY <1>2, <2>3
    <3>2. t[i - Len(s)] < t[j - Len(s)]
      BY <1>4, <3>1 DEF Increasing
    <3> QED
      BY <1>2, <2>3, <3>1, <3>2
  <2> QED
    BY <2>1, <2>2, <2>3
<1> QED
  BY <1>1, <1>3, <1>4

\* A later stamp at the end.
LEMMA ExtendLine ==
  ASSUME NEW p \in Seq(Nat), Increasing(p), NEW v \in Nat, \A y \in ToSet(p) : y < v
  PROVE  Increasing(p \o <<v>>) /\ ToSet(p \o <<v>>) = ToSet(p) \cup {v}
<1>1. PICK t : t = <<v>>
  OBVIOUS
<1>2. t \in Seq(Nat) /\ Len(t) = 1 /\ t[1] = v /\ DOMAIN t = 1..1
  BY <1>1
<1>3. ToSet(t) = {v}
  BY <1>2 DEF ToSet
<1>4. Increasing(t)
  BY <1>2 DEF Increasing
<1>5. Precedes(p, t)
  BY <1>3 DEF Precedes
<1>6. Increasing(p \o t) /\ ToSet(p \o t) = ToSet(p) \cup ToSet(t)
  BY <1>2, <1>4, <1>5, IncreasingConcat, ToSetConcat
<1> QED
  BY <1>1, <1>3, <1>6

-----------------------------------------------------------------------------
(* Time stamps of records and of messages.                                 *)

\* The time stamps of records are a sequence of numbers, as long as the records.
LEMMA StampsFacts ==
  ASSUME NEW S, \A r \in S : r.ts \in Nat, NEW recs \in Seq(S)
  PROVE  /\ Stamps(recs) \in Seq(Nat) /\ Len(Stamps(recs)) = Len(recs)
         /\ \A i \in 1..Len(recs) : Stamps(recs)[i] = recs[i].ts
  BY DEF Stamps

\* The time stamps of joined records are the joined time stamps.
LEMMA StampsConcat ==
  ASSUME NEW S, \A r \in S : r.ts \in Nat, NEW s \in Seq(S), NEW t \in Seq(S)
  PROVE  Stamps(s \o t) = Stamps(s) \o Stamps(t)
<1>1. PICK u : u = s \o t
  OBVIOUS
<1>2. PICK a, b, c : a = Stamps(s) /\ b = Stamps(t) /\ c = Stamps(u)
  OBVIOUS
<1>3. /\ u \in Seq(S) /\ Len(u) = Len(s) + Len(t) /\ Len(s) \in Nat /\ Len(t) \in Nat
      /\ \A i \in 1..Len(u) : u[i] = IF i <= Len(s) THEN s[i] ELSE t[i - Len(s)]
  BY <1>1, ConcatProperties
<1>4. /\ a \in Seq(Nat) /\ Len(a) = Len(s) /\ \A i \in 1..Len(s) : a[i] = s[i].ts
      /\ b \in Seq(Nat) /\ Len(b) = Len(t) /\ \A i \in 1..Len(t) : b[i] = t[i].ts
      /\ c \in Seq(Nat) /\ Len(c) = Len(u) /\ \A i \in 1..Len(u) : c[i] = u[i].ts
  BY <1>2, <1>3, StampsFacts
<1>5. PICK d : d = a \o b
  OBVIOUS
<1>6. /\ d \in Seq(Nat) /\ Len(d) = Len(u)
      /\ \A i \in 1..Len(u) : d[i] = IF i <= Len(s) THEN a[i] ELSE b[i - Len(s)]
  <2>1. /\ d \in Seq(Nat) /\ Len(d) = Len(a) + Len(b)
        /\ \A i \in 1..Len(a) + Len(b) : d[i] = IF i <= Len(a) THEN a[i] ELSE b[i - Len(a)]
    BY <1>4, <1>5, ConcatProperties
  <2>2. Len(a) = Len(s) /\ Len(b) = Len(t) /\ Len(u) = Len(s) + Len(t)
    BY <1>3, <1>4
  <2> QED
    BY <2>1, <2>2
<1>7. ASSUME NEW i \in 1..Len(u) PROVE c[i] = d[i]
  <2>1. CASE i <= Len(s)
    <3>1. i \in 1..Len(s)
      BY <1>3, <2>1
    <3>2. d[i] = a[i] /\ u[i] = s[i]
      BY <1>3, <1>6, <2>1
    <3>3. a[i] = s[i].ts /\ c[i] = u[i].ts
      BY <1>4, <3>1
    <3> QED
      BY <3>2, <3>3
  <2>2. CASE ~(i <= Len(s))
    <3>1. i - Len(s) \in 1..Len(t)
      BY <1>3, <2>2
    <3>2. d[i] = b[i - Len(s)] /\ u[i] = t[i - Len(s)]
      BY <1>3, <1>6, <2>2
    <3>3. b[i - Len(s)] = t[i - Len(s)].ts /\ c[i] = u[i].ts
      BY <1>4, <3>1
    <3> QED
      BY <3>2, <3>3
  <2> QED
    BY <2>1, <2>2
<1>8. c = d
  BY <1>4, <1>6, <1>7, SeqEqual
<1> QED
  BY <1>1, <1>2, <1>5, <1>8

\* No records have no time stamps.
LEMMA NoStamps == Stamps(<<>>) = <<>>
  BY DEF Stamps

\* The time stamps of each batch.
Batches(msgs) == [i \in 1..Len(msgs) |-> Stamps(msgs[i].batch)]

\* The time stamp of a record is a number.
LEMMA RecordStamps == \A r \in Record : r.ts \in Nat
  BY RecordFields

\* The batch of a message is a sequence of records.
LEMMA MessageStamps ==
  ASSUME NEW m \in Message
  PROVE  m.batch \in Seq(Record) /\ Stamps(m.batch) \in Seq(Nat)
<1>1. m.batch \in Seq(Record)
  BY DEF Message
<1> QED
  BY <1>1, RecordStamps, StampsFacts

\* The time stamps of each message are a sequence of numbers.
LEMMA BatchesFacts ==
  ASSUME NEW msgs \in Seq(Message)
  PROVE  /\ Batches(msgs) \in Seq(Seq(Nat)) /\ Len(Batches(msgs)) = Len(msgs)
         /\ \A i \in 1..Len(msgs) : Batches(msgs)[i] = Stamps(msgs[i].batch)
         /\ StampsOf(msgs) = FlattenSeq(Batches(msgs))
<1>1. \A i \in 1..Len(msgs) : Stamps(msgs[i].batch) \in Seq(Nat)
  BY MessageStamps
<1> QED
  BY <1>1 DEF Batches, StampsOf

\* The time stamps of a queue are a sequence of numbers.
LEMMA StampsOfType ==
  ASSUME NEW msgs \in Seq(Message)
  PROVE  StampsOf(msgs) \in Seq(Nat)
  BY BatchesFacts, FlattenType

\* The time stamps of joined queues are the joined time stamps.
LEMMA StampsOfConcat ==
  ASSUME NEW s \in Seq(Message), NEW t \in Seq(Message)
  PROVE  StampsOf(s \o t) = StampsOf(s) \o StampsOf(t)
<1>1. PICK u : u = s \o t
  OBVIOUS
<1>2. PICK a, b, c : a = Batches(s) /\ b = Batches(t) /\ c = Batches(u)
  OBVIOUS
<1>3. /\ u \in Seq(Message) /\ Len(u) = Len(s) + Len(t) /\ Len(s) \in Nat /\ Len(t) \in Nat
      /\ \A i \in 1..Len(u) : u[i] = IF i <= Len(s) THEN s[i] ELSE t[i - Len(s)]
  BY <1>1, ConcatProperties
<1>4. /\ a \in Seq(Seq(Nat)) /\ Len(a) = Len(s) /\ \A i \in 1..Len(s) : a[i] = Stamps(s[i].batch)
      /\ b \in Seq(Seq(Nat)) /\ Len(b) = Len(t) /\ \A i \in 1..Len(t) : b[i] = Stamps(t[i].batch)
      /\ c \in Seq(Seq(Nat)) /\ Len(c) = Len(u) /\ \A i \in 1..Len(u) : c[i] = Stamps(u[i].batch)
  BY <1>2, <1>3, BatchesFacts
<1>5. PICK d : d = a \o b
  OBVIOUS
<1>6. /\ d \in Seq(Seq(Nat)) /\ Len(d) = Len(u)
      /\ \A i \in 1..Len(u) : d[i] = IF i <= Len(s) THEN a[i] ELSE b[i - Len(s)]
  <2>1. /\ d \in Seq(Seq(Nat)) /\ Len(d) = Len(a) + Len(b)
        /\ \A i \in 1..Len(a) + Len(b) : d[i] = IF i <= Len(a) THEN a[i] ELSE b[i - Len(a)]
    BY <1>4, <1>5, ConcatProperties
  <2>2. Len(a) = Len(s) /\ Len(b) = Len(t) /\ Len(u) = Len(s) + Len(t)
    BY <1>3, <1>4
  <2> QED
    BY <2>1, <2>2
<1>7. ASSUME NEW i \in 1..Len(u) PROVE c[i] = d[i]
  <2>1. CASE i <= Len(s)
    <3>1. i \in 1..Len(s)
      BY <1>3, <2>1
    <3>2. d[i] = a[i] /\ u[i] = s[i]
      BY <1>3, <1>6, <2>1
    <3>3. a[i] = Stamps(s[i].batch) /\ c[i] = Stamps(u[i].batch)
      BY <1>4, <3>1
    <3> QED
      BY <3>2, <3>3
  <2>2. CASE ~(i <= Len(s))
    <3>1. i - Len(s) \in 1..Len(t)
      BY <1>3, <2>2
    <3>2. d[i] = b[i - Len(s)] /\ u[i] = t[i - Len(s)]
      BY <1>3, <1>6, <2>2
    <3>3. b[i - Len(s)] = Stamps(t[i - Len(s)].batch) /\ c[i] = Stamps(u[i].batch)
      BY <1>4, <3>1
    <3> QED
      BY <3>2, <3>3
  <2> QED
    BY <2>1, <2>2
<1>8. c = d
  BY <1>4, <1>6, <1>7, SeqEqual
<1>9. FlattenSeq(c) = FlattenSeq(a) \o FlattenSeq(b)
  BY <1>4, <1>5, <1>8, FlattenConcat
<1> QED
  BY <1>1, <1>2, <1>3, <1>9, BatchesFacts

\* The time stamps of a single message are those of its batch.
LEMMA StampsOfOne ==
  ASSUME NEW m \in Message
  PROVE  <<m>> \in Seq(Message) /\ StampsOf(<<m>>) = Stamps(m.batch)
<1>1. PICK s : s = <<m>>
  OBVIOUS
<1>2. s \in Seq(Message) /\ Len(s) = 1 /\ s[1] = m
  BY <1>1
<1>3. PICK x : x = Stamps(m.batch)
  OBVIOUS
<1>4. x \in Seq(Nat)
  BY <1>3, MessageStamps
<1>5. Batches(s) = <<x>>
  BY <1>2, <1>3 DEF Batches
<1>6. StampsOf(s) = FlattenSeq(<<x>>)
  BY <1>2, <1>5, BatchesFacts
<1> QED
  BY <1>1, <1>2, <1>3, <1>4, <1>6, FlattenOne

\* An empty queue has no time stamps.
LEMMA NoMessages == StampsOf(<<>>) = <<>>
<1>1. <<>> \in Seq(Message) /\ Len(<<>>) = 0
  OBVIOUS
<1>2. Len(Batches(<<>>)) = 0 /\ Batches(<<>>) = <<>>
  BY DEF Batches
<1> QED
  BY <1>1, <1>2, BatchesFacts, FlattenEmpty

\* A message that is put at the end adds the time stamps of its batch there.
LEMMA StampsOfAppend ==
  ASSUME NEW msgs \in Seq(Message), NEW m \in Message
  PROVE  StampsOf(Append(msgs, m)) = StampsOf(msgs) \o Stamps(m.batch)
<1>1. Append(msgs, m) = msgs \o <<m>>
  BY AppendIsConcat
<1> QED
  BY <1>1, StampsOfOne, StampsOfConcat

\* The time stamps of a queue begin with those of its first message.
LEMMA StampsOfHead ==
  ASSUME NEW msgs \in Seq(Message), msgs # <<>>
  PROVE  /\ Head(msgs) \in Message /\ Tail(msgs) \in Seq(Message)
         /\ StampsOf(msgs) = Stamps(Head(msgs).batch) \o StampsOf(Tail(msgs))
<1>1. Head(msgs) \in Message /\ Tail(msgs) \in Seq(Message)
  BY HeadTailProperties
<1>2. msgs = <<Head(msgs)>> \o Tail(msgs)
  <2>1. SubSeq(msgs, 1, Len(msgs)) = <<msgs[1]>> \o SubSeq(msgs, 1 + 1, Len(msgs))
    <3>1. 1 \in 1..Len(msgs) /\ Len(msgs) \in 1..Len(msgs)
      OBVIOUS
    <3> QED
      BY <3>1, SubSeqRecursiveFirst
  <2>2. SubSeq(msgs, 1, Len(msgs)) = msgs
    BY SubSeqFull
  <2>3. Tail(msgs) = SubSeq(msgs, 2, Len(msgs)) /\ 1 + 1 = 2 /\ Head(msgs) = msgs[1]
    BY TailIsSubSeq
  <2> QED
    BY <2>1, <2>2, <2>3
<1>3. PICK one : one = <<Head(msgs)>>
  OBVIOUS
<1>4. one \in Seq(Message) /\ StampsOf(one) = Stamps(Head(msgs).batch)
  BY <1>1, <1>3, StampsOfOne
<1> QED
  BY <1>1, <1>2, <1>3, <1>4, StampsOfConcat

-----------------------------------------------------------------------------
(* The invariant of the pipeline.                                          *)

\* A batch is compressed to bytes.
LEMMA BatchBytes ==
  ASSUME NEW recs, Sendable(recs), NEW m \in Nat
  PROVE  CompressDelta(recs, m) \in Seq(Byte)
<1>1. PICK n \in Nat : n = Len(recs) /\ recs \in Seq(Record) /\ n >= 1 /\ n < 65536
  BY DEF Sendable
<1> DEFINE rs == [i \in 1..Len(recs) |-> CompressRecord(recs, i, m)]
<1>2. rs \in Seq(Seq(Byte))
  <2>1. \A i \in 1..Len(recs) : CompressRecord(recs, i, m) \in Seq(Byte)
    <3> HIDE DEF rs
    <3> QED
      BY RecordBytes
  <2>2. Len(recs) \in Nat
    BY <1>1
  <2> QED
    BY <2>1, <2>2
<1> HIDE DEF rs
<1>3. PICK a, b, c : /\ a = LittleEndian(8, recs[1].ts) /\ b = LittleEndian(2, Len(recs))
                     /\ c = FlattenSeq(rs)
  OBVIOUS
<1>4. c \in Seq(Byte)
  BY <1>2, <1>3, FlattenType
<1>5. b \in Seq(Byte)
  <2>1. <<>> \in Seq(Byte)
    OBVIOUS
  <2>2. b = LittleEndian(2, n) /\ Shifted(256, 2, n)[2] = 0
    <3>1. n \in Word
      BY <1>1, WordBelow
    <3>2. Shifted(256, 2, n)[2] = 0
      BY <3>1, TwoBytes
    <3> QED
      <4>1. b = LittleEndian(2, n)
        BY <1>1, <1>3
      <4> QED
        BY <3>2, <4>1, Zenon
  <2> QED
    BY <2>1, <2>2, LittleEndianRead
<1>6. a \in Seq(Byte)
  <2>1. recs[1] \in Record
    BY <1>1
  <2>2. PICK x \in Nat : x = recs[1].ts
    BY <2>1, RecordFields
  <2>3. Shifted(256, 8, x)[8] = 0
    BY <2>2, EightBytes DEF Sendable
  <2>4. <<>> \in Seq(Byte)
    OBVIOUS
  <2> QED
    BY <1>3, <2>2, <2>3, <2>4, LittleEndianRead
<1>7. CompressDelta(recs, m) = (a \o b) \o c
  BY <1>3, Zenon DEF CompressDelta, rs
<1> QED
  BY <1>4, <1>5, <1>6, <1>7

\* What the codec needs of the constants: the differences of time fit 32 bits, the
\* time 64 bits, and the number of records of a batch 16.
TimeFits == MaxPolls < TwoTo32 /\ \A gap \in Gap : gap < TwoTo32
RingFits == Cap < 65536

\* The records captured: time runs forward, in steps that fit 32 bits.
CapturedOk ==
  /\ captured \in Seq(Record) /\ Len(captured) <= MaxPolls
  /\ \A i \in 1..Len(captured) : captured[i].ts <= i * TwoTo32
  /\ \A i, j \in 1..Len(captured) : i < j => captured[i].ts < captured[j].ts
  /\ \A i \in 1..Len(captured) - 1 : captured[i + 1].ts - captured[i].ts < TwoTo32

\* The ring holds the last of them.
RingOk ==
  /\ RingInv(ring) /\ ring.size <= Len(captured) /\ Contents(ring) \in Seq(Record)
  /\ \A i \in 1..ring.size : Contents(ring)[i] = captured[Len(captured) - ring.size + i]

\* A message is the answer to a write or a batch the server can decode.
Sent(m) == m = WriteAck \/ (Sendable(m.batch) /\ \E k \in Nat : m.bytes = CompressDelta(m.batch, k))
QueueOk(q) == q \in Seq(Message) /\ \A i \in 1..Len(q) : Sent(q[i])

\* What the server shows of a register is an integer.
Partial == UNION {[S -> Int] : S \in SUBSET Reg}
Shown == [ts : Nat, regs : Partial]

RecordsOk == records \in Seq(Shown) /\ Len(records) <= MaxRecords

GoneOk == gone \subseteq ToSet(Stamps(captured))

PipelineInv ==
  /\ CapturedOk /\ RingOk /\ mask \in Word /\ QueueOk(txq) /\ QueueOk(air)
  /\ RecordsOk /\ GoneOk /\ Pipeline

\* The ring holds as many records as it says.
LEMMA RingLen ==
  ASSUME RingOk
  PROVE  ring.size \in 0..Cap /\ Len(Contents(ring)) = ring.size
<1>1. ring.size \in 0..Cap
  BY CapAssumption DEF RingOk, RingInv
<1>2. Len(Contents(ring)) = ring.size
  BY <1>1, CapAssumption DEF Contents
<1> QED
  BY <1>1, <1>2

\* So many steps of less than 32 bits stay below 64 bits.
LEMMA BelowTwoTo64 ==
  ASSUME NEW x \in Nat, NEW j \in Nat, j < TwoTo32, x <= j * TwoTo32
  PROVE  x < TwoTo64
<1>1. PICK k \in Nat : k = TwoTo32 /\ k > 0
  BY DEF TwoTo32
<1>2. j * k \in Nat /\ k * k \in Nat /\ j * k < k * k
  <2>1. k - j \in Nat /\ k - j > 0 /\ k * k = j * k + (k - j) * k /\ (k - j) * k > 0
    BY <1>1, SMT
  <2> QED
    BY <2>1, SMT
<1> QED
  BY <1>1, <1>2 DEF TwoTo64

\* What is drained can be sent.
LEMMA RingSendable ==
  ASSUME CapturedOk, RingOk, TimeFits, RingFits, ring.size > 0
  PROVE  Sendable(Contents(ring))
<1>1. PICK b, n, l : b = Contents(ring) /\ n = ring.size /\ l = Len(captured)
  OBVIOUS
<1>2. /\ b \in Seq(Record) /\ n \in Nat /\ n > 0 /\ n < 65536 /\ Len(b) = n
      /\ l \in Nat /\ n <= l /\ l <= MaxPolls /\ l < TwoTo32
      /\ captured \in Seq(Record)
  <2>1. b \in Seq(Record) /\ n <= l
    BY <1>1 DEF RingOk
  <2>2. n \in 0..Cap /\ Len(b) = n
    BY <1>1, RingLen
  <2>3. Cap \in Nat /\ Cap < 65536
    BY CapAssumption DEF RingFits
  <2>4. captured \in Seq(Record) /\ l <= MaxPolls
    BY <1>1 DEF CapturedOk
  <2>5. MaxPolls \in Nat /\ MaxPolls < TwoTo32
    BY TelemetryAssumption DEF TimeFits
  <2>6. l \in Nat
    BY <1>1, <2>4
  <2>7. n \in Nat /\ n < 65536
    BY <2>2, <2>3
  <2>8. l < TwoTo32
    BY <2>4, <2>5, <2>6 DEF TwoTo32
  <2> QED
    BY <1>1, <2>1, <2>2, <2>4, <2>6, <2>7, <2>8
<1>3. \A i \in 1..n : b[i] = captured[l - n + i]
  BY <1>1 DEF RingOk
<1>4. \A i \in 1..l : captured[i].ts \in Nat
  BY <1>1, <1>2, RecordFields
<1>5. b # <<>>
  BY <1>2
<1>6. b[1].ts < TwoTo64
  <2>1. PICK j \in 1..l : j = l - n + 1 /\ b[1] = captured[j]
    <3>1. l - n + 1 \in 1..l /\ 1 \in 1..n
      BY <1>2
    <3> QED
      BY <1>3, <3>1
  <2>2. PICK x : x = captured[j].ts
    OBVIOUS
  <2>3. x <= j * TwoTo32
    BY <1>1, <2>2 DEF CapturedOk
  <2>4. x \in Nat
    BY <1>4, <2>2
  <2>5. j \in Nat /\ j < TwoTo32
    BY <1>2, <2>1 DEF TwoTo32
  <2>6. x < TwoTo64
    BY <2>3, <2>4, <2>5, BelowTwoTo64
  <2> QED
    BY <2>1, <2>2, <2>6
<1>7. ASSUME NEW i \in 1..n - 1
      PROVE  b[i].ts <= b[i + 1].ts /\ b[i + 1].ts - b[i].ts < TwoTo32
  <2>1. PICK j \in 1..l - 1 : j = l - n + i
    BY <1>2
  <2>2. b[i] = captured[j] /\ b[i + 1] = captured[j + 1]
    <3>1. i \in 1..n /\ i + 1 \in 1..n /\ l - n + (i + 1) = j + 1
      BY <1>2, <2>1
    <3> QED
      BY <1>3, <2>1, <3>1
  <2>3. j \in 1..l /\ j + 1 \in 1..l /\ j < j + 1
    BY <1>2
  <2>4. captured[j].ts < captured[j + 1].ts
    BY <1>1, <2>3 DEF CapturedOk
  <2>5. captured[j + 1].ts - captured[j].ts < TwoTo32
    BY <1>1 DEF CapturedOk
  <2> QED
    BY <1>4, <2>2, <2>3, <2>4, <2>5
<1> QED
  BY <1>1, <1>2, <1>5, <1>6, <1>7 DEF Sendable

\* The message of a batch.
LEMMA BatchSent ==
  ASSUME CapturedOk, RingOk, mask \in Word, TimeFits, RingFits, ring.size > 0,
         NEW m, m = [bytes |-> CompressDelta(Contents(ring), mask), batch |-> Contents(ring)]
  PROVE  m \in Message /\ Sent(m)
<1>1. Sendable(Contents(ring)) /\ mask \in Nat
  BY RingSendable, WordIs
<1>2. m.bytes = CompressDelta(Contents(ring), mask) /\ m.batch = Contents(ring)
  OBVIOUS
<1>3. m.bytes \in Seq(Byte)
  BY <1>1, <1>2, BatchBytes
<1>4. m.batch \in Seq(Record)
  BY <1>2 DEF RingOk
<1>5. m \in Message
  BY <1>2, <1>3, <1>4, Zenon DEF Message
<1>6. Sent(m)
  BY <1>1, <1>2, Zenon DEF Sent
<1> QED
  BY <1>5, <1>6

\* The answer to a write is a message with no batch.
LEMMA AckSent == WriteAck \in Message /\ Sent(WriteAck)
<1>1. <<>> \in Seq(Byte) /\ <<>> \in Seq(Record)
  OBVIOUS
<1> QED
  BY <1>1 DEF WriteAck, Message, Sent

-----------------------------------------------------------------------------
(* The parts of the invariant, one after the other.                        *)

\* What is built from a reply is a record with the given time stamp.
LEMMA BuiltRecord ==
  ASSUME NEW reply \in Reply, NEW ts \in Nat
  PROVE  Built(ts, reply) \in Record /\ Built(ts, reply).ts = ts
<1> DEFINE S == {r \in Selected(mask) : r < Len(reply)}
           regs == [reg \in S |-> reply[reg + 1]]
<1>1. reply \in Seq(Word)
  BY TelemetryAssumption
<1>2. S \subseteq Reg /\ Reg \subseteq Nat
  BY DEF Selected, Reg
<1>3. \A reg \in S : reply[reg + 1] \in Word
  <2> SUFFICES ASSUME NEW reg \in S PROVE reply[reg + 1] \in Word
    OBVIOUS
  <2>1. reg \in Nat /\ reg < Len(reply)
    BY <1>2
  <2>2. reg + 1 \in 1..Len(reply)
    BY <1>1, <2>1
  <2> QED
    BY <1>1, <2>2
<1>4. regs \in Values
  <2>1. regs \in [S -> Word] /\ S \in SUBSET Reg
    BY <1>2, <1>3
  <2> HIDE DEF S, regs
  <2> QED
    BY <2>1, Zenon DEF Values
<1>5. Built(ts, reply) = [ts |-> ts, regs |-> regs]
  BY DEF Built
<1> HIDE DEF regs
<1> QED
  BY <1>4, <1>5 DEF Record

\* The last time stamp is the latest one.
LEMMA LastStampIs ==
  ASSUME CapturedOk
  PROVE  /\ LastStamp \in Nat /\ LastStamp <= Len(captured) * TwoTo32
         /\ \A i \in 1..Len(captured) : captured[i].ts <= LastStamp
         /\ captured # <<>> => LastStamp = captured[Len(captured)].ts
<1>1. captured \in Seq(Record) /\ Len(captured) \in Nat
  BY DEF CapturedOk
<1>2. \A i \in 1..Len(captured) : captured[i].ts \in Nat
  BY <1>1, RecordFields
<1>3. CASE captured = <<>>
  BY <1>3, SMT DEF LastStamp, TwoTo32
<1>4. CASE captured # <<>>
  <2>1. Len(captured) \in 1..Len(captured) /\ LastStamp = captured[Len(captured)].ts
    BY <1>1, <1>4 DEF LastStamp
  <2>2. LastStamp \in Nat /\ LastStamp <= Len(captured) * TwoTo32
    BY <1>2, <2>1 DEF CapturedOk
  <2>3. ASSUME NEW i \in 1..Len(captured) PROVE captured[i].ts <= LastStamp
    <3>1. CASE i = Len(captured)
      BY <1>2, <2>1, <3>1
    <3>2. CASE i # Len(captured)
      <4>1. i < Len(captured)
        BY <1>1, <3>2
      <4>2. captured[i].ts < captured[Len(captured)].ts
        BY <2>1, <4>1 DEF CapturedOk
      <4> QED
        BY <1>2, <2>1, <4>2
    <3> QED
      BY <3>1, <3>2
  <2> QED
    BY <2>1, <2>2, <2>3
<1> QED
  BY <1>3, <1>4

\* The record of a poll r and what the poll does with it.
Polled(r) ==
  /\ r \in Record /\ Len(captured) < MaxPolls
  /\ LastStamp < r.ts /\ r.ts - LastStamp < TwoTo32
  /\ captured' = Append(captured, r) /\ ring' = Pushed(ring, r)

\* A poll captures a record later than the last, by less than 32 bits.
LEMMA PollFacts ==
  ASSUME CapturedOk, TimeFits, Poll
  PROVE  \E r : Polled(r)
<1>1. PICK reply \in Reply, gap \in Gap :
        /\ captured' = Append(captured, Built(LastStamp + gap, reply))
        /\ ring' = Pushed(ring, Built(LastStamp + gap, reply))
  BY DEF Poll
<1>2. gap \in Nat /\ gap > 0 /\ gap < TwoTo32 /\ LastStamp \in Nat
  BY LastStampIs, TelemetryAssumption DEF TimeFits
<1>3. PICK ts \in Nat : ts = LastStamp + gap
  BY <1>2
<1>4. PICK r : r = Built(ts, reply)
  OBVIOUS
<1>5. r \in Record /\ r.ts = ts
  BY <1>4, BuiltRecord
<1>6. Len(captured) < MaxPolls
  BY DEF Poll
<1>7. captured' = Append(captured, r) /\ ring' = Pushed(ring, r)
  BY <1>1, <1>3, <1>4
<1>8. LastStamp < r.ts /\ r.ts - LastStamp < TwoTo32
  BY <1>2, <1>3, <1>5
<1> QED
  BY <1>5, <1>6, <1>7, <1>8 DEF Polled

\* Only a poll captures.
LEMMA OnlyPoll ==
  ASSUME [Next]_vars
  PROVE  Poll \/ captured' = captured
  BY DEF Next, vars, MainTask, CloudTask, Environment, Poll, Upload, UploadFails, AckWrite,
     ApplyConfig, Publish, PublishFails, Restart, Lose, Receive

\* Every step leaves what was captured in order.
LEMMA CapturedStep ==
  ASSUME CapturedOk, TimeFits, [Next]_vars
  PROVE  CapturedOk'
<1>1. CASE captured' = captured
  BY <1>1 DEF CapturedOk
<1>2. CASE Poll
  <2>1. PICK r : Polled(r)
    BY <1>2, PollFacts
  <2>2. PICK n, c, last : n = Len(captured) /\ c = captured' /\ last = LastStamp
    OBVIOUS
  <2>3. captured \in Seq(Record) /\ n \in Nat /\ n + 1 <= MaxPolls /\ r \in Record
    BY <2>1, <2>2, TelemetryAssumption DEF CapturedOk, Polled
  <2>4. /\ c \in Seq(Record) /\ Len(c) = n + 1 /\ c[n + 1] = r
        /\ \A i \in 1..n : c[i] = captured[i]
    BY <2>1, <2>2, <2>3, AppendProperties DEF Polled
  <2>5. /\ last \in Nat /\ last <= n * TwoTo32 /\ \A i \in 1..n : captured[i].ts <= last
        /\ n > 0 => last = captured[n].ts
    <3>1. n > 0 => captured # <<>>
      BY <2>2
    <3> QED
      BY <2>2, <3>1, LastStampIs
  <2>6. r.ts \in Nat /\ last < r.ts /\ r.ts - last < TwoTo32
    BY <2>1, <2>2, <2>3, RecordFields DEF Polled
  <2>7. \A i \in 1..n : captured[i].ts \in Nat
    BY <2>2, <2>3, RecordFields
  <2>8. ASSUME NEW i \in 1..n + 1 PROVE c[i].ts <= i * TwoTo32
    <3>1. CASE i \in 1..n
      <4>1. captured[i].ts <= i * TwoTo32
        BY <2>2, <3>1 DEF CapturedOk
      <4> QED
        BY <2>4, <3>1, <4>1
    <3>2. CASE i = n + 1
      BY <2>3, <2>4, <2>5, <2>6, <3>2, SMT DEF TwoTo32
    <3> QED
      BY <2>3, <3>1, <3>2
  <2>9. ASSUME NEW i \in 1..n + 1, NEW j \in 1..n + 1, i < j PROVE c[i].ts < c[j].ts
    <3>1. i \in 1..n
      BY <2>3, <2>9
    <3>2. CASE j \in 1..n
      <4>1. captured[i].ts < captured[j].ts
        BY <2>2, <2>9, <3>1, <3>2 DEF CapturedOk
      <4> QED
        BY <2>4, <3>1, <3>2, <4>1
    <3>3. CASE j = n + 1
      BY <2>4, <2>5, <2>6, <2>7, <3>1, <3>3
    <3> QED
      BY <2>3, <3>2, <3>3
  <2>10. ASSUME NEW i \in 1..n PROVE c[i + 1].ts - c[i].ts < TwoTo32
    <3>1. CASE i \in 1..n - 1
      <4>1. captured[i + 1].ts - captured[i].ts < TwoTo32
        BY <2>2, <3>1 DEF CapturedOk
      <4>2. i + 1 \in 1..n
        BY <2>3, <3>1
      <4> QED
        BY <2>4, <4>1, <4>2
    <3>2. CASE i = n
      BY <2>3, <2>4, <2>5, <2>6, <3>2
    <3> QED
      BY <2>3, <3>1, <3>2
  <2>11. (n + 1) - 1 = n
    BY <2>3
  <2> QED
    BY <2>2, <2>3, <2>4, <2>8, <2>9, <2>10, <2>11 DEF CapturedOk
<1> QED
  BY <1>1, <1>2, OnlyPoll

\* Every step leaves in the ring the last of the records captured.
LEMMA RingOkStep ==
  ASSUME CapturedOk, RingOk, TimeFits, [Next]_vars
  PROVE  RingOk'
<1>1. CASE Poll
  <2>1. PICK r : Polled(r)
    BY <1>1, PollFacts
  <2>2. PICK l, s, n, b, c, kept : /\ l = Len(captured) /\ s = captured' /\ n = ring.size
                                   /\ b = Contents(ring) /\ c = Contents(ring')
                                   /\ kept = IF n = Cap THEN Tail(b) ELSE b
    OBVIOUS
  <2>3. /\ n \in 0..Cap /\ Cap \in Nat \ {0} /\ Len(b) = n /\ b \in Seq(Record)
        /\ captured \in Seq(Record) /\ l \in Nat /\ n <= l /\ r \in Record
    BY <2>1, <2>2, CapAssumption, RingLen DEF RingOk, CapturedOk, Polled
  <2>4. \A i \in 1..n : b[i] = captured[l - n + i]
    BY <2>2 DEF RingOk
  <2>5. s \in Seq(Record) /\ Len(s) = l + 1 /\ s[l + 1] = r /\ \A i \in 1..l : s[i] = captured[i]
    BY <2>1, <2>2, <2>3, AppendProperties DEF Polled
  <2>6. RingInv(ring') /\ c = Append(kept, r)
    BY <2>1, <2>2, PushedOk, PushedContents DEF RingOk, Polled
  <2>7. ring'.size = IF n = Cap THEN Cap ELSE n + 1
    BY <2>1, <2>2, PushedFields DEF RingOk, Polled
  <2>8. CASE n = Cap
    <3>1. b # <<>> /\ kept = Tail(b)
      BY <2>2, <2>3, <2>8
    <3>2. kept \in Seq(Record) /\ Len(kept) = n - 1 /\ \A i \in 1..n - 1 : kept[i] = b[i + 1]
      BY <2>3, <3>1, HeadTailProperties
    <3>3. c \in Seq(Record) /\ \A i \in 1..n - 1 : c[i] = b[i + 1]
      BY <2>3, <2>6, <3>2, AppendProperties
    <3>4. c[n] = r
      <4>1. c[Len(kept) + 1] = r
        BY <2>3, <2>6, <3>2, AppendProperties
      <4> QED
        BY <2>3, <3>2, <4>1
    <3>5. ring'.size = n /\ n <= l + 1
      BY <2>3, <2>7, <2>8
    <3>6. ASSUME NEW i \in 1..n PROVE c[i] = s[l + 1 - n + i]
      <4>1. CASE i = n
        <5>1. l + 1 - n + i = l + 1
          BY <2>3, <4>1
        <5> QED
          BY <2>5, <3>4, <4>1, <5>1
      <4>2. CASE i # n
        <5>1. i \in 1..n - 1 /\ i + 1 \in 1..n
          BY <2>3, <4>2
        <5>2. PICK j : j = l - n + (i + 1)
          OBVIOUS
        <5>3. j \in 1..l /\ l + 1 - n + i = j
          BY <2>3, <5>1, <5>2
        <5>4. c[i] = captured[j]
          BY <2>4, <3>3, <5>1, <5>2
        <5> QED
          BY <2>5, <5>3, <5>4
      <4> QED
        BY <4>1, <4>2
    <3>7. \A i \in 1..ring'.size : c[i] = s[Len(s) - ring'.size + i]
      BY <2>3, <2>5, <3>5, <3>6
    <3>8. ring'.size <= Len(s)
      BY <2>5, <3>5
    <3> QED
      BY <2>2, <2>6, <3>3, <3>7, <3>8 DEF RingOk
  <2>9. CASE n # Cap
    <3>1. kept = b
      BY <2>2, <2>9
    <3>2. c \in Seq(Record) /\ c[n + 1] = r /\ \A i \in 1..n : c[i] = b[i]
      BY <2>3, <2>6, <3>1, AppendProperties
    <3>3. ring'.size = n + 1 /\ n + 1 <= l + 1
      BY <2>3, <2>7, <2>9
    <3>4. ASSUME NEW i \in 1..n + 1 PROVE c[i] = s[l + 1 - (n + 1) + i]
      <4>1. CASE i = n + 1
        <5>1. l + 1 - (n + 1) + i = l + 1
          BY <2>3, <4>1
        <5> QED
          BY <2>5, <3>2, <4>1, <5>1
      <4>2. CASE i # n + 1
        <5>1. i \in 1..n
          BY <2>3, <4>2
        <5>2. PICK j : j = l - n + i
          OBVIOUS
        <5>3. j \in 1..l /\ l + 1 - (n + 1) + i = j
          BY <2>3, <5>1, <5>2
        <5>4. c[i] = captured[j]
          BY <2>4, <3>2, <5>1, <5>2
        <5> QED
          BY <2>5, <5>3, <5>4
      <4> QED
        BY <4>1, <4>2
    <3>5. \A i \in 1..ring'.size : c[i] = s[Len(s) - ring'.size + i]
      BY <2>3, <2>5, <3>3, <3>4
    <3>6. ring'.size <= Len(s)
      BY <2>5, <3>3
    <3> QED
      BY <2>2, <2>6, <3>2, <3>5, <3>6 DEF RingOk
  <2> QED
    BY <2>8, <2>9
<1>2. CASE captured' = captured /\ (ring' = Drained(ring) \/ ring' = EmptyRing)
  <2>1. RingInv(ring') /\ Contents(ring') = <<>> /\ ring'.size = 0
    <3>1. RingInv(ring)
      BY DEF RingOk
    <3>2. RingInv(ring') /\ Contents(ring') = <<>>
      BY <1>2, <3>1, DrainedOk, EmptyRingOk
    <3>3. CASE ring' = Drained(ring)
      <4>1. "size" \in DOMAIN ring
        BY <3>1 DEF RingInv
      <4>2. ring'.size = 0
        BY <3>3, <4>1 DEF Drained
      <4> QED
        BY <3>2, <4>2
    <3>4. CASE ring' = EmptyRing
      <4>1. ring'.size = 0
        BY <3>4 DEF EmptyRing
      <4> QED
        BY <3>2, <4>1
    <3> QED
      BY <1>2, <3>3, <3>4
  <2>2. Len(captured') \in Nat /\ <<>> \in Seq(Record)
    BY <1>2 DEF CapturedOk
  <2> QED
    BY <2>1, <2>2 DEF RingOk
<1>3. CASE captured' = captured /\ ring' = ring
  BY <1>3 DEF RingOk
<1>4. Poll \/ (captured' = captured /\ (ring' = Drained(ring) \/ ring' = EmptyRing \/ ring' = ring))
  BY DEF Next, vars, MainTask, CloudTask, Environment, Upload, UploadFails, AckWrite,
     ApplyConfig, Publish, PublishFails, Restart, Lose, Receive
<1> QED
  BY <1>1, <1>2, <1>3, <1>4

\* A queue may take a message that can be sent.
LEMMA QueueAppend ==
  ASSUME NEW q, QueueOk(q), NEW m \in Message, Sent(m)
  PROVE  QueueOk(Append(q, m))
<1>1. q \in Seq(Message) /\ \A i \in 1..Len(q) : Sent(q[i])
  BY DEF QueueOk
<1>2. PICK n, u : n = Len(q) /\ u = Append(q, m)
  OBVIOUS
<1>3. /\ u \in Seq(Message) /\ n \in Nat /\ Len(u) = n + 1 /\ u[n + 1] = m
      /\ \A i \in 1..n : u[i] = q[i]
  BY <1>1, <1>2, AppendProperties
<1>4. ASSUME NEW i \in 1..n + 1 PROVE Sent(u[i])
  <2>1. CASE i \in 1..n
    BY <1>1, <1>2, <1>3, <2>1
  <2>2. CASE i = n + 1
    BY <1>3, <2>2
  <2> QED
    BY <1>3, <2>1, <2>2
<1> QED
  BY <1>2, <1>3, <1>4 DEF QueueOk

\* A queue without its first message is a queue.
LEMMA QueueHead ==
  ASSUME NEW q, QueueOk(q), q # <<>>
  PROVE  Head(q) \in Message /\ Sent(Head(q)) /\ QueueOk(Tail(q))
<1>1. q \in Seq(Message) /\ \A i \in 1..Len(q) : Sent(q[i])
  BY DEF QueueOk
<1>2. PICK n, u : n = Len(q) /\ u = Tail(q)
  OBVIOUS
<1>3. /\ u \in Seq(Message) /\ n \in Nat /\ n > 0 /\ Len(u) = n - 1
      /\ \A i \in 1..n - 1 : u[i] = q[i + 1]
  BY <1>1, <1>2, HeadTailProperties
<1>4. \A i \in 1..n - 1 : Sent(u[i])
  <2>1. \A i \in 1..n - 1 : i + 1 \in 1..n
    BY <1>3
  <2> QED
    BY <1>1, <1>2, <1>3, <2>1
<1>5. Head(q) = q[1] /\ 1 \in 1..n
  BY <1>1, <1>3
<1> QED
  BY <1>1, <1>2, <1>3, <1>4, <1>5 DEF QueueOk

\* A queue that lost a message is a queue.
LEMMA QueueRemove ==
  ASSUME NEW q, QueueOk(q), NEW i \in 1..Len(q)
  PROVE  QueueOk(RemoveAt(q, i))
<1>1. q \in Seq(Message) /\ \A j \in 1..Len(q) : Sent(q[j])
  BY DEF QueueOk
<1>2. PICK n, a, b, u : /\ n = Len(q) /\ a = SubSeq(q, 1, i - 1) /\ b = SubSeq(q, i + 1, n)
                        /\ u = RemoveAt(q, i)
  OBVIOUS
<1>3. n \in Nat /\ i \in Nat /\ i >= 1 /\ i <= n /\ \A j \in 1..n : q[j] \in Message
  BY <1>1, <1>2
<1>4. /\ a \in Seq(Message) /\ Len(a) = i - 1 /\ \A j \in 1..i - 1 : a[j] = q[j]
      /\ b \in Seq(Message) /\ Len(b) = n - i /\ \A j \in 1..n - i : b[j] = q[i + j]
  <2>1. 1 \in Nat /\ i - 1 \in Int /\ \A j \in 1..i - 1 : q[j] \in Message
    BY <1>3
  <2>2. i + 1 \in Nat /\ n \in Int /\ \A j \in i + 1..n : q[j] \in Message
    BY <1>3
  <2>3. a \in Seq(Message) /\ Len(a) = i - 1 /\ \A j \in 1..i - 1 : a[j] = q[j]
    BY <1>2, <1>3, <2>1, SubSeqProperties
  <2>4. b \in Seq(Message) /\ Len(b) = n - i /\ \A j \in 1..n - i : b[j] = q[i + j]
    BY <1>2, <1>3, <2>2, SubSeqProperties
  <2> QED
    BY <2>3, <2>4
<1>5. u = a \o b
  BY <1>2 DEF RemoveAt
<1>6. u \in Seq(Message) /\ Len(u) = n - 1
  <2>1. u \in Seq(Message) /\ Len(u) = Len(a) + Len(b)
    BY <1>4, <1>5, ConcatProperties
  <2> QED
    BY <1>3, <1>4, <2>1
<1>7. ASSUME NEW j \in 1..n - 1 PROVE Sent(u[j])
  <2>1. CASE j <= i - 1
    <3>1. j \in 1..i - 1 /\ j \in 1..n
      BY <1>3, <2>1
    <3>2. u[j] = a[j]
      BY <1>4, <1>5, <3>1
    <3> QED
      BY <1>1, <1>2, <1>4, <3>1, <3>2
  <2>2. CASE ~(j <= i - 1)
    <3>1. PICK k \in 1..n - i : j = (i - 1) + k
      <4>1. j - (i - 1) \in 1..n - i /\ j = (i - 1) + (j - (i - 1))
        BY <1>3, <2>2
      <4> QED
        BY <4>1
    <3>2. u[j] = b[k] /\ i + k \in 1..n
      BY <1>3, <1>4, <1>5, <3>1
    <3> QED
      BY <1>1, <1>2, <1>4, <3>2
  <2> QED
    BY <2>1, <2>2
<1> QED
  BY <1>2, <1>6, <1>7 DEF QueueOk

\* An empty queue is a queue.
LEMMA QueueEmpty == QueueOk(<<>>)
<1>1. <<>> \in Seq(Message) /\ Len(<<>>) = 0
  OBVIOUS
<1> QED
  BY <1>1 DEF QueueOk

\* Every step leaves in the queues only what can be sent.
LEMMA QueuesStep ==
  ASSUME CapturedOk, RingOk, mask \in Word, QueueOk(txq), QueueOk(air),
         TimeFits, RingFits, [Next]_vars
  PROVE  QueueOk(txq') /\ QueueOk(air')
<1>1. CASE Upload
  <2>1. ring.size > 0 /\ air' = air
    BY <1>1 DEF Upload, UploadDue
  <2>2. PICK m : m = [bytes |-> CompressDelta(Contents(ring), mask), batch |-> Contents(ring)]
    OBVIOUS
  <2>3. txq' = Append(txq, m) \/ txq' = txq
    BY <1>1, <2>2, Zenon DEF Upload
  <2>4. m \in Message /\ Sent(m)
    BY <2>1, <2>2, BatchSent
  <2> QED
    BY <2>1, <2>3, <2>4, QueueAppend
<1>2. CASE AckWrite
  BY <1>2, AckSent, QueueAppend DEF AckWrite
<1>3. CASE Publish
  BY <1>3, QueueHead, QueueAppend DEF Publish
<1>4. CASE PublishFails
  BY <1>4, QueueHead DEF PublishFails
<1>5. CASE Restart
  BY <1>5, QueueEmpty DEF Restart
<1>6. CASE Lose
  BY <1>6, QueueRemove DEF Lose
<1>7. CASE Receive
  BY <1>7, QueueHead DEF Receive
<1>8. CASE Poll \/ UploadFails \/ ApplyConfig \/ UNCHANGED vars
  BY <1>8 DEF Poll, UploadFails, ApplyConfig, vars
<1> QED
  BY <1>1, <1>2, <1>3, <1>4, <1>5, <1>6, <1>7, <1>8 DEF Next, MainTask, CloudTask, Environment

\* Every step leaves the mask a word.
LEMMA MaskStep ==
  ASSUME mask \in Word, [Next]_vars
  PROVE  mask' \in Word
<1>1. CASE ApplyConfig
  BY <1>1, TelemetryAssumption DEF ApplyConfig
<1>2. CASE Restart
  BY <1>2, TelemetryAssumption DEF Restart
<1>3. ApplyConfig \/ Restart \/ mask' = mask
  BY DEF Next, vars, MainTask, CloudTask, Environment, Poll, Upload, UploadFails, AckWrite,
     Publish, PublishFails, Lose, Receive
<1> QED
  BY <1>1, <1>2, <1>3

-----------------------------------------------------------------------------
(* What the server makes of a message.                                     *)

\* The time stamp of a record of the server is a number.
LEMMA ShownStamps == \A r \in Shown : r.ts \in Nat
  BY DEF Shown

\* What the server decodes from the bytes.
Decoded(m) == IF m.bytes = <<>> THEN <<>> ELSE DecompressDelta(m.bytes)

\* Records that stand for those of a batch: the same time stamps, and the same values
\* of the registers both have.
StandFor(recs, batch) ==
  /\ recs \in Seq(Shown) /\ Len(recs) = Len(batch)
  /\ \A i \in 1..Len(batch) : recs[i].ts = batch[i].ts
  /\ Small(batch) =>
       \A i \in 1..Len(batch) : \A reg \in DOMAIN recs[i].regs \cap DOMAIN batch[i].regs :
         recs[i].regs[reg] = batch[i].regs[reg]

\* What the server decodes from a message is nothing or stands for its batch.
LEMMA DecodedIs ==
  ASSUME NEW m, Sent(m)
  PROVE  Decoded(m) = <<>> \/ StandFor(Decoded(m), m.batch)
<1> SUFFICES ASSUME m.bytes # <<>>, Decoded(m) # <<>>
             PROVE  StandFor(Decoded(m), m.batch)
  BY DEF Decoded
<1>1. PICK b : b = m.batch
  OBVIOUS
<1>2. PICK k \in Nat : b = m.batch /\ Sendable(b) /\ m.bytes = CompressDelta(b, k)
  BY <1>1 DEF Sent, WriteAck
<1>3. PICK out, sel : out = DecompressDelta(CompressDelta(b, k)) /\ sel = Selected(RegBits(k))
  OBVIOUS
<1>4. out = Decoded(m) /\ out # <<>>
  BY <1>2, <1>3 DEF Decoded
<1>5. ReadBack(out, b, sel)
  BY <1>2, <1>3, CodecRoundTrip
<1>6. sel # {} /\ sel \in SUBSET Reg
  <2>1. sel # {}
    BY <1>4, <1>5 DEF ReadBack
  <2> QED
    BY <1>3, <2>1, MaskFacts
<1>7. out \in Seq([ts : Nat, regs : [sel -> Int]]) /\ Len(out) = Len(b)
  BY <1>5, <1>6 DEF ReadBack
<1>8. out \in Seq(Shown)
  <2>1. [sel -> Int] \subseteq Partial
    BY <1>6, Zenon DEF Partial
  <2>2. [ts : Nat, regs : [sel -> Int]] \subseteq Shown
    BY <2>1 DEF Shown
  <2> QED
    BY <1>7, <2>2, SeqMonotonic
<1>9. ASSUME Small(b), NEW i \in 1..Len(b), NEW reg \in DOMAIN out[i].regs \cap DOMAIN b[i].regs
      PROVE  out[i].regs[reg] = b[i].regs[reg]
  <2>1. i \in 1..Len(out) /\ Len(b) \in Nat
    BY <1>2, <1>9, <1>7 DEF Sendable
  <2>2. out[i].regs \in [sel -> Int]
    <3>1. out[i] \in [ts : Nat, regs : [sel -> Int]]
      BY <1>7, <2>1, ElementOfSeq
    <3> QED
      BY <3>1
  <2>3. reg \in sel
    <3>1. DOMAIN out[i].regs = sel
      BY <2>2
    <3> QED
      BY <1>9, <3>1
  <2>4. out[i].regs[reg] = Current(b, reg)[i]
    BY <1>5, <1>6, <1>9, <2>3 DEF ReadBack
  <2>5. Current(b, reg)[i] = b[i].regs[reg]
    BY <1>9, <2>1, CurrentIs
  <2> QED
    BY <2>4, <2>5
<1> QED
  BY <1>1, <1>4, <1>5, <1>6, <1>8, <1>9, <1>7 DEF StandFor, ReadBack

\* What trim_records cuts off and what it leaves.
LEMMA TrimmedSplit ==
  ASSUME NEW S, NEW recs \in Seq(S), NEW kept, kept = Trimmed(recs)
  PROVE  /\ kept \in Seq(S) /\ Len(kept) <= MaxRecords
         /\ \E p \in Seq(S) : recs = p \o kept
         /\ Len(recs) <= MaxRecords => kept = recs
<1>1. MaxRecords \in Nat /\ MaxRecords > 0 /\ Len(recs) \in Nat
  BY TelemetryAssumption
<1>2. CASE Len(recs) > MaxRecords
  <2>1. PICK k \in Nat : k = Len(recs) - MaxRecords
    BY <1>1, <1>2
  <2>2. kept = SubSeq(recs, k + 1, Len(recs))
    BY <1>2, <2>1 DEF Trimmed
  <2>3. PICK p : p = SubSeq(recs, 1, k)
    OBVIOUS
  <2>4. \A i \in 1..Len(recs) : recs[i] \in S
    OBVIOUS
  <2>5. /\ \A i \in 1..k : recs[i] \in S
        /\ \A i \in k + 1..Len(recs) : recs[i] \in S
    BY <1>1, <2>1, <2>4
  <2>6. p \in Seq(S) /\ kept \in Seq(S) /\ Len(kept) = MaxRecords
    BY <1>1, <1>2, <2>1, <2>2, <2>3, <2>5, SubSeqProperties
  <2>7. p \o kept = SubSeq(recs, 1, Len(recs))
    <3>1. 1 \in 1..Len(recs) + 1 /\ k \in 1 - 1..Len(recs) /\ Len(recs) \in k..Len(recs)
      BY <1>1, <1>2, <2>1
    <3> QED
      BY <2>2, <2>3, <3>1, ConcatAdjacentSubSeq
  <2>8. recs = p \o kept
    BY <2>7, SubSeqFull
  <2> QED
    BY <1>1, <1>2, <2>6, <2>8
<1>3. CASE ~(Len(recs) > MaxRecords)
  <2>1. kept = recs
    BY <1>3 DEF Trimmed
  <2>2. PICK p : p = <<>>
    OBVIOUS
  <2>3. p \in Seq(S)
    BY <2>2
  <2>4. recs = p \o kept
    BY <2>1, <2>2, ConcatEmptySeq
  <2> QED
    BY <1>1, <1>3, <2>1, <2>4, <2>3
<1> QED
  BY <1>2, <1>3

-----------------------------------------------------------------------------
(* Joining and cutting the pipeline, on its time stamps.  The provers take *)
(* joining apart position by position, so it has a name of its own here.   *)

Str == Seq(Nat)
Join(s, t) == s \o t

\* Joined lines are a line.
LEMMA JoinType == <<>> \in Str /\ \A s, t \in Str : Join(s, t) \in Str
  BY DEF Str, Join

\* Joining three lines does not depend on which two are joined first.
LEMMA JoinAssoc == \A s, t, u \in Str : Join(Join(s, t), u) = Join(s, Join(t, u))
<1> SUFFICES ASSUME NEW s \in Str, NEW t \in Str, NEW u \in Str
             PROVE  Join(Join(s, t), u) = Join(s, Join(t, u))
  OBVIOUS
<1>1. ThreeSeqs(Nat, s, t, u)
  BY Zenon DEF ThreeSeqs, Str
<1>2. Associates(Nat, s, t, u)
  BY <1>1, ConcatAssoc, Zenon
<1> QED
  BY <1>2, Zenon DEF Associates, Join

\* Joining nothing changes nothing.
LEMMA JoinEmpty == \A s \in Str : Join(s, <<>>) = s /\ Join(<<>>, s) = s
<1> SUFFICES ASSUME NEW s \in Seq(Nat) PROVE s \o <<>> = s /\ <<>> \o s = s
  BY Zenon DEF Str, Join
<1> QED
  BY ConcatEmptySeq

\* Joined lines have the time stamps of both.
LEMMA JoinSet == \A s, t \in Str : ToSet(Join(s, t)) = ToSet(s) \cup ToSet(t)
<1> SUFFICES ASSUME NEW s \in Seq(Nat), NEW t \in Seq(Nat)
             PROVE  ToSet(s \o t) = ToSet(s) \cup ToSet(t)
  BY Zenon DEF Str, Join
<1> QED
  BY ToSetConcat

\* Joined lines increase if they increase and the first precedes the second.
LEMMA JoinIncreasing ==
  \A s, t \in Str : Increasing(Join(s, t)) <=> Increasing(s) /\ Increasing(t) /\ Precedes(s, t)
<1> SUFFICES ASSUME NEW s \in Seq(Nat), NEW t \in Seq(Nat)
             PROVE  Increasing(s \o t) <=> Increasing(s) /\ Increasing(t) /\ Precedes(s, t)
  BY Zenon DEF Str, Join
<1> QED
  BY IncreasingConcat

\* One time stamp is a line.
LEMMA OneStamp == \A v \in Nat : <<v>> \in Str /\ ToSet(<<v>>) = {v}
<1> SUFFICES ASSUME NEW v \in Nat PROVE <<v>> \in Seq(Nat) /\ ToSet(<<v>>) = {v}
  BY Zenon DEF Str
<1> QED
  BY DEF ToSet

\* The parts of an increasing sequence have nothing in common.
LEMMA PartsDisjoint ==
  ASSUME NEW s \in Str, NEW t \in Str, Increasing(Join(s, t))
  PROVE  \A y \in ToSet(s) : y \notin ToSet(t)
<1>1. Precedes(s, t)
  BY JoinIncreasing
<1>2. \A y \in ToSet(s) : y \in Nat
  BY DEF ToSet, Str
<1>3. \A y \in Nat : ~(y < y)
  OBVIOUS
<1> QED
  BY <1>1, <1>2, <1>3 DEF Precedes

\* The line holds, in order, all that was captured and not given up.
Whole(line, all, lost) ==
  Increasing(line) /\ ToSet(line) = all \ lost /\ lost \subseteq all

\* Records taken out of the line are given up.
LEMMA CutKeeps ==
  ASSUME NEW p \in Str, NEW x \in Str, NEW q \in Str, NEW line, line = Join(p, Join(x, q)),
         NEW all, NEW lost, Whole(line, all, lost)
  PROVE  Whole(Join(p, q), all, lost \cup ToSet(x))
<1>1. PICK y : y = Join(x, q) /\ y \in Str /\ line = Join(p, y)
  BY JoinType
<1>2. Increasing(line) /\ ToSet(line) = all \ lost /\ lost \subseteq all
  BY DEF Whole
<1>3. /\ Increasing(p) /\ Increasing(y) /\ Precedes(p, y) /\ Increasing(x) /\ Increasing(q)
      /\ Precedes(x, q)
  BY <1>1, <1>2, JoinIncreasing
<1>4. /\ ToSet(line) = ToSet(p) \cup ToSet(y) /\ ToSet(y) = ToSet(x) \cup ToSet(q)
      /\ ToSet(Join(p, q)) = ToSet(p) \cup ToSet(q)
  BY <1>1, JoinSet
<1>5. Increasing(Join(p, q))
  <2>1. Precedes(p, q)
    BY <1>3, <1>4 DEF Precedes
  <2> QED
    BY <1>3, <2>1, JoinIncreasing
<1>6. /\ \A z \in ToSet(p) : z \notin ToSet(y)
      /\ \A z \in ToSet(x) : z \notin ToSet(q)
  BY <1>1, <1>2, <1>3, PartsDisjoint
<1>7. ToSet(Join(p, q)) = all \ (lost \cup ToSet(x)) /\ lost \cup ToSet(x) \subseteq all
  BY <1>2, <1>4, <1>6
<1> QED
  BY <1>5, <1>7, Zenon DEF Whole

\* A new record, later than all that were captured, is put at the end.
LEMMA ExtendKeeps ==
  ASSUME NEW line \in Str, NEW all, NEW lost, Whole(line, all, lost), NEW v \in Nat,
         \A y \in all : y < v
  PROVE  Whole(Join(line, <<v>>), all \cup {v}, lost)
<1>1. line \in Seq(Nat) /\ Increasing(line) /\ ToSet(line) = all \ lost /\ lost \subseteq all
  BY Zenon DEF Str, Whole
<1>2. \A y \in ToSet(line) : y < v
  BY <1>1
<1>3. Increasing(line \o <<v>>) /\ ToSet(line \o <<v>>) = ToSet(line) \cup {v}
  BY <1>1, <1>2, ExtendLine
<1>4. v \notin lost
  <2>1. ~(v < v)
    OBVIOUS
  <2> QED
    BY <1>1, <2>1
<1>5. (all \ lost) \cup {v} = (all \cup {v}) \ lost /\ lost \subseteq all \cup {v}
  BY <1>1, <1>4
<1> QED
  BY <1>1, <1>3, <1>5, Zenon DEF Whole, Join

\* The line of the server, the network, the transmit queue and the ring.
LineOf(a, b, c, d) == Join(Join(Join(a, b), c), d)

FourStr(a, b, c, d) == a \in Str /\ b \in Str /\ c \in Str /\ d \in Str

\* Four parts make a line.
LEMMA LineType ==
  ASSUME NEW a, NEW b, NEW c, NEW d, FourStr(a, b, c, d)
  PROVE  LineOf(a, b, c, d) \in Str
  BY JoinType DEF FourStr, LineOf

\* A batch leaves the ring for the queue.
LEMMA LineUpload ==
  ASSUME NEW a, NEW b, NEW c, NEW d, FourStr(a, b, c, d)
  PROVE  LineOf(a, b, Join(c, d), <<>>) = LineOf(a, b, c, d)
<1>1. a \in Str /\ b \in Str /\ c \in Str /\ d \in Str
  BY DEF FourStr
<1>2. PICK ab : ab = Join(a, b) /\ ab \in Str
  BY <1>1, JoinType
<1>3. Join(ab, Join(c, d)) = Join(Join(ab, c), d) /\ Join(ab, Join(c, d)) \in Str
  BY <1>1, <1>2, JoinAssoc, JoinType
<1>4. Join(Join(ab, Join(c, d)), <<>>) = Join(ab, Join(c, d))
  BY <1>3, JoinEmpty
<1> QED
  BY <1>2, <1>3, <1>4 DEF LineOf

\* A batch is dropped before it is queued.
LEMMA LineDrop ==
  ASSUME NEW a, NEW b, NEW c, NEW d, FourStr(a, b, c, d), NEW all, NEW lost,
         Whole(LineOf(a, b, c, d), all, lost)
  PROVE  Whole(LineOf(a, b, c, <<>>), all, lost \cup ToSet(d))
<1>1. a \in Str /\ b \in Str /\ c \in Str /\ d \in Str /\ <<>> \in Str
  BY JoinType DEF FourStr
<1>2. PICK p \in Str : p = Join(Join(a, b), c)
  BY <1>1, JoinType
<1>3. LineOf(a, b, c, d) = Join(p, Join(d, <<>>))
  BY <1>1, <1>2, JoinEmpty DEF LineOf
<1>4. Whole(Join(p, <<>>), all, lost \cup ToSet(d))
  BY <1>1, <1>2, <1>3, CutKeeps
<1> QED
  BY <1>2, <1>4, Zenon DEF LineOf

\* The first message x of the queue is published.
LEMMA LinePublish ==
  ASSUME NEW a, NEW b, NEW c, NEW d, FourStr(a, b, c, d), NEW x \in Str
  PROVE  LineOf(a, Join(b, x), c, d) = LineOf(a, b, Join(x, c), d)
<1>1. a \in Str /\ b \in Str /\ c \in Str /\ d \in Str
  BY DEF FourStr
<1>2. PICK ab : ab = Join(a, b) /\ ab \in Str
  BY <1>1, JoinType
<1>3. Join(a, Join(b, x)) = Join(ab, x)
  BY <1>1, <1>2, JoinAssoc
<1>4. Join(Join(ab, x), c) = Join(ab, Join(x, c))
  BY <1>1, <1>2, JoinAssoc
<1> QED
  BY <1>2, <1>3, <1>4, Zenon DEF LineOf

\* It cannot be sent.
LEMMA LineUnsent ==
  ASSUME NEW a, NEW b, NEW c, NEW d, FourStr(a, b, c, d), NEW x \in Str, NEW all, NEW lost,
         Whole(LineOf(a, b, Join(x, c), d), all, lost)
  PROVE  Whole(LineOf(a, b, c, d), all, lost \cup ToSet(x))
<1>1. a \in Str /\ b \in Str /\ c \in Str /\ d \in Str
  BY DEF FourStr
<1>2. PICK ab : ab = Join(a, b) /\ ab \in Str
  BY <1>1, JoinType
<1>3. PICK cd : cd = Join(c, d) /\ cd \in Str
  BY <1>1, JoinType
<1>4. Join(x, c) \in Str
  BY <1>1, JoinType
<1>5. Join(Join(ab, Join(x, c)), d) = Join(ab, Join(Join(x, c), d))
  BY <1>1, <1>2, <1>4, JoinAssoc
<1>6. Join(Join(x, c), d) = Join(x, cd)
  BY <1>1, <1>3, JoinAssoc
<1>7. LineOf(a, b, Join(x, c), d) = Join(ab, Join(x, cd))
  BY <1>2, <1>5, <1>6, Zenon DEF LineOf
<1>8. LineOf(a, b, c, d) = Join(ab, cd)
  BY <1>1, <1>2, <1>3, JoinAssoc DEF LineOf
<1>9. Whole(Join(ab, cd), all, lost \cup ToSet(x))
  BY <1>2, <1>3, <1>7, CutKeeps
<1> QED
  BY <1>8, <1>9

\* A restart loses what the queue and the ring held.
LEMMA LineRestart ==
  ASSUME NEW a, NEW b, NEW c, NEW d, FourStr(a, b, c, d), NEW all, NEW lost,
         Whole(LineOf(a, b, c, d), all, lost)
  PROVE  Whole(LineOf(a, b, <<>>, <<>>), all, (lost \cup ToSet(d)) \cup ToSet(c))
<1>1. a \in Str /\ b \in Str /\ c \in Str /\ d \in Str /\ <<>> \in Str
  BY JoinType DEF FourStr
<1>2. Whole(LineOf(a, b, c, <<>>), all, lost \cup ToSet(d))
  BY LineDrop
<1>3. c = Join(c, <<>>) /\ FourStr(a, b, <<>>, <<>>)
  BY <1>1, JoinEmpty DEF FourStr
<1>4. Whole(LineOf(a, b, Join(c, <<>>), <<>>), all, lost \cup ToSet(d))
  BY <1>2, <1>3
<1> QED
  BY <1>1, <1>3, <1>4, LineUnsent

\* The network loses a message x between the others.
LEMMA LineLose ==
  ASSUME NEW a, NEW p, NEW c, NEW d, FourStr(a, p, c, d), NEW q \in Str, NEW x \in Str,
         NEW all, NEW lost, Whole(LineOf(a, Join(p, Join(x, q)), c, d), all, lost)
  PROVE  Whole(LineOf(a, Join(p, q), c, d), all, lost \cup ToSet(x))
<1>1. a \in Str /\ p \in Str /\ c \in Str /\ d \in Str
  BY DEF FourStr
<1>2. PICK ap : ap = Join(a, p) /\ ap \in Str
  BY <1>1, JoinType
<1>3. PICK cd : cd = Join(c, d) /\ cd \in Str
  BY <1>1, JoinType
<1>4. PICK xq : xq = Join(x, q) /\ xq \in Str
  BY <1>1, JoinType
<1>5. PICK r : r = Join(q, cd) /\ r \in Str
  BY <1>3, JoinType
<1>6. \A s \in Str : LineOf(a, Join(p, s), c, d) = Join(ap, Join(s, cd))
  <2> SUFFICES ASSUME NEW s \in Str PROVE LineOf(a, Join(p, s), c, d) = Join(ap, Join(s, cd))
    OBVIOUS
  <2>1. Join(a, Join(p, s)) = Join(ap, s) /\ Join(ap, s) \in Str
    BY <1>1, <1>2, JoinAssoc, JoinType
  <2>2. Join(Join(Join(ap, s), c), d) = Join(Join(ap, s), cd)
    BY <1>1, <1>3, <2>1, JoinAssoc
  <2>3. Join(Join(ap, s), cd) = Join(ap, Join(s, cd))
    BY <1>2, <1>3, JoinAssoc
  <2> QED
    BY <2>1, <2>2, <2>3, Zenon DEF LineOf
<1>7. LineOf(a, Join(p, Join(x, q)), c, d) = Join(ap, Join(x, r))
  <2>1. Join(xq, cd) = Join(x, r)
    BY <1>3, <1>4, <1>5, JoinAssoc
  <2> QED
    BY <1>4, <1>6, <2>1
<1>8. LineOf(a, Join(p, q), c, d) = Join(ap, r)
  BY <1>5, <1>6
<1>9. Whole(Join(ap, r), all, lost \cup ToSet(x))
  BY <1>2, <1>5, <1>7, CutKeeps
<1> QED
  BY <1>8, <1>9

\* The server takes the first message x from the network and decodes nothing.
LEMMA LineIgnored ==
  ASSUME NEW a, NEW b, NEW c, NEW d, FourStr(a, b, c, d), NEW x \in Str, NEW all, NEW lost,
         Whole(LineOf(a, Join(x, b), c, d), all, lost)
  PROVE  Whole(LineOf(a, b, c, d), all, lost \cup ((ToSet(x) \cup ToSet(a)) \ ToSet(a)))
<1>1. a \in Str /\ b \in Str /\ c \in Str /\ d \in Str /\ <<>> \in Str
  BY JoinType DEF FourStr
<1>2. FourStr(a, <<>>, c, d) /\ Join(<<>>, Join(x, b)) = Join(x, b) /\ Join(<<>>, b) = b
  <2>1. Join(x, b) \in Str
    BY <1>1, JoinType
  <2> QED
    BY <1>1, <2>1, JoinEmpty DEF FourStr
<1>3. Whole(LineOf(a, Join(<<>>, b), c, d), all, lost \cup ToSet(x))
  <2>1. Whole(LineOf(a, Join(<<>>, Join(x, b)), c, d), all, lost)
    BY <1>2
  <2> QED
    BY <1>1, <1>2, <2>1, LineLose
<1>4. \A y \in ToSet(x) : y \notin ToSet(a)
  <2>1. PICK r, s : r = Join(b, Join(c, d)) /\ r \in Str /\ s = Join(x, r) /\ s \in Str
    BY <1>1, JoinType
  <2>2. LineOf(a, Join(x, b), c, d) = Join(a, s)
    <3>1. PICK xb, ax : xb = Join(x, b) /\ xb \in Str /\ ax = Join(a, xb) /\ ax \in Str
      BY <1>1, JoinType
    <3>2. PICK cd : cd = Join(c, d) /\ cd \in Str
      BY <1>1, JoinType
    <3>3. Join(Join(ax, c), d) = Join(ax, cd)
      BY <1>1, <3>1, <3>2, JoinAssoc
    <3>4. Join(ax, cd) = Join(a, Join(xb, cd))
      BY <1>1, <3>1, <3>2, JoinAssoc
    <3>5. Join(xb, cd) = s
      BY <1>1, <2>1, <3>1, <3>2, JoinAssoc
    <3> QED
      BY <3>1, <3>3, <3>4, <3>5, Zenon DEF LineOf
  <2>3. \A y \in ToSet(a) : y \notin ToSet(s)
    BY <1>1, <2>1, <2>2, PartsDisjoint DEF Whole
  <2>4. ToSet(x) \subseteq ToSet(s)
    BY <2>1, JoinSet
  <2> QED
    BY <2>3, <2>4
<1>5. (ToSet(x) \cup ToSet(a)) \ ToSet(a) = ToSet(x)
  BY <1>4
<1> QED
  BY <1>2, <1>3, <1>5

\* It decodes the records of x, appends them, and trims p off the front.
LEMMA LineReceive ==
  ASSUME NEW a, NEW b, NEW c, NEW d, FourStr(a, b, c, d), NEW x \in Str, NEW p \in Str,
         NEW kept \in Str, Join(a, x) = Join(p, kept), NEW all, NEW lost,
         Whole(LineOf(a, Join(x, b), c, d), all, lost)
  PROVE  Whole(LineOf(kept, b, c, d), all, lost \cup ((ToSet(x) \cup ToSet(a)) \ ToSet(kept)))
<1>1. a \in Str /\ b \in Str /\ c \in Str /\ d \in Str /\ <<>> \in Str
  BY JoinType DEF FourStr
<1>2. PICK cd, bcd, r : /\ cd = Join(c, d) /\ cd \in Str /\ bcd = Join(b, cd) /\ bcd \in Str
                        /\ r = Join(kept, bcd) /\ r \in Str
  BY <1>1, JoinType
<1>3. \A s \in Str : LineOf(s, b, c, d) = Join(s, bcd)
  <2> SUFFICES ASSUME NEW s \in Str PROVE LineOf(s, b, c, d) = Join(s, bcd)
    OBVIOUS
  <2>1. PICK sb : sb = Join(s, b) /\ sb \in Str
    BY <1>1, JoinType
  <2>2. Join(Join(sb, c), d) = Join(sb, cd)
    BY <1>1, <1>2, <2>1, JoinAssoc
  <2>3. Join(sb, cd) = Join(s, bcd)
    BY <1>1, <1>2, <2>1, JoinAssoc
  <2> QED
    BY <2>1, <2>2, <2>3, Zenon DEF LineOf
<1>4. LineOf(a, Join(x, b), c, d) = LineOf(Join(a, x), b, c, d)
  <2>1. Join(a, Join(x, b)) = Join(Join(a, x), b)
    BY <1>1, JoinAssoc
  <2> QED
    BY <2>1, Zenon DEF LineOf
<1>5. LineOf(Join(a, x), b, c, d) = Join(p, r)
  <2>1. Join(p, kept) \in Str
    BY JoinType
  <2>2. LineOf(Join(p, kept), b, c, d) = Join(Join(p, kept), bcd)
    BY <1>3, <2>1
  <2>3. Join(Join(p, kept), bcd) = Join(p, r)
    BY <1>2, JoinAssoc
  <2> QED
    BY <2>2, <2>3
<1>6. Whole(Join(p, r), all, lost)
  BY <1>4, <1>5
<1>7. Whole(r, all, lost \cup ToSet(p))
  <2>1. Join(p, r) = Join(<<>>, Join(p, r)) /\ Join(<<>>, r) = r
    <3>1. Join(p, r) \in Str
      BY <1>2, JoinType
    <3> QED
      BY <1>2, <3>1, JoinEmpty
  <2>2. Whole(Join(<<>>, r), all, lost \cup ToSet(p))
    BY <1>1, <1>2, <1>6, <2>1, CutKeeps
  <2> QED
    BY <2>1, <2>2
<1>8. (ToSet(x) \cup ToSet(a)) \ ToSet(kept) = ToSet(p)
  <2>1. ToSet(a) \cup ToSet(x) = ToSet(p) \cup ToSet(kept)
    <3>1. ToSet(Join(a, x)) = ToSet(a) \cup ToSet(x)
      BY <1>1, JoinSet
    <3>2. ToSet(Join(p, kept)) = ToSet(p) \cup ToSet(kept)
      BY JoinSet
    <3> QED
      BY <3>1, <3>2
  <2>2. \A y \in ToSet(p) : y \notin ToSet(r)
    BY <1>2, <1>6, PartsDisjoint DEF Whole
  <2>3. ToSet(kept) \subseteq ToSet(r)
    BY <1>2, JoinSet
  <2>4. \A y \in ToSet(p) : y \notin ToSet(kept)
    BY <2>2, <2>3
  <2> QED
    BY <2>1, <2>4, Zenon
<1>9. LineOf(kept, b, c, d) = r
  BY <1>2, <1>3
<1> QED
  BY <1>7, <1>8, <1>9

\* A record is put into the ring, which may have to give up its oldest one, u.
LEMMA LineCapture ==
  ASSUME NEW a, NEW b, NEW c, NEW d, FourStr(a, b, c, d), NEW all, NEW lost, NEW v \in Nat,
         Whole(LineOf(a, b, c, d), all, lost), \A y \in all : y < v
  PROVE  Whole(LineOf(a, b, c, Join(d, <<v>>)), all \cup {v}, lost)
<1>1. a \in Str /\ b \in Str /\ c \in Str /\ d \in Str /\ <<v>> \in Str
  BY OneStamp DEF FourStr
<1>2. PICK p \in Str : p = Join(Join(a, b), c)
  BY <1>1, JoinType
<1>3. LineOf(a, b, c, Join(d, <<v>>)) = Join(LineOf(a, b, c, d), <<v>>)
  <2>1. Join(p, Join(d, <<v>>)) = Join(Join(p, d), <<v>>)
    BY <1>1, <1>2, JoinAssoc
  <2> QED
    BY <1>2, <2>1, Zenon DEF LineOf
<1>4. LineOf(a, b, c, d) \in Str
  BY LineType
<1>5. Whole(Join(LineOf(a, b, c, d), <<v>>), all \cup {v}, lost)
  BY <1>4, ExtendKeeps
<1> QED
  BY <1>3, <1>5

\* A full ring gives up the first time stamp of its part.
LEMMA LineDisplace ==
  ASSUME NEW a, NEW b, NEW c, NEW d, FourStr(a, b, c, d), NEW all, NEW lost, NEW u \in Nat,
         Whole(LineOf(a, b, c, Join(<<u>>, d)), all, lost)
  PROVE  Whole(LineOf(a, b, c, d), all, lost \cup {u})
<1>1. a \in Str /\ b \in Str /\ c \in Str /\ d \in Str /\ <<u>> \in Str /\ ToSet(<<u>>) = {u}
  BY OneStamp DEF FourStr
<1>2. PICK p \in Str : p = Join(Join(a, b), c)
  BY <1>1, JoinType
<1>3. /\ LineOf(a, b, c, Join(<<u>>, d)) = Join(p, Join(<<u>>, d))
      /\ LineOf(a, b, c, d) = Join(p, d)
  BY <1>2, Zenon DEF LineOf
<1>4. PICK x \in Str : x = <<u>>
  BY <1>1
<1>5. Whole(Join(p, d), all, lost \cup ToSet(x))
  BY <1>1, <1>3, <1>4, CutKeeps
<1> QED
  BY <1>1, <1>3, <1>4, <1>5

-----------------------------------------------------------------------------
(* Each action keeps the line.                                             *)

\* The parts of the line in a state, and what was captured.
Parts(a, b, c, d, all) ==
  /\ a = Stamps(records) /\ b = StampsOf(air) /\ c = StampsOf(txq) /\ d = Stamps(Contents(ring))
  /\ all = ToSet(Stamps(captured))

\* The parts of the line make it up, and it is whole.
LEMMA PartsFacts ==
  ASSUME PipelineInv
  PROVE  \E a, b, c, d, all : /\ Parts(a, b, c, d, all) /\ FourStr(a, b, c, d)
                              /\ Whole(LineOf(a, b, c, d), all, gone)
<1>1. PICK a, b, c, d, all : /\ a = Stamps(records) /\ b = StampsOf(air) /\ c = StampsOf(txq)
                             /\ d = Stamps(Contents(ring)) /\ all = ToSet(Stamps(captured))
  OBVIOUS
<1>2. Parts(a, b, c, d, all)
  BY <1>1, Zenon DEF Parts
<1>3. a \in Str
  <2>1. records \in Seq(Shown)
    BY DEF PipelineInv, RecordsOk
  <2> QED
    BY <1>1, <2>1, ShownStamps, StampsFacts DEF Str
<1>4. b \in Str /\ c \in Str
  <2>1. air \in Seq(Message) /\ txq \in Seq(Message)
    BY DEF PipelineInv, QueueOk
  <2> QED
    BY <1>1, <2>1, StampsOfType DEF Str
<1>5. d \in Str
  <2>1. Contents(ring) \in Seq(Record)
    BY DEF PipelineInv, RingOk
  <2> QED
    BY <1>1, <2>1, RecordStamps, StampsFacts DEF Str
<1>6. Line = LineOf(a, b, c, d)
  BY <1>1, Zenon DEF Line, LineOf, Join
<1>7. Pipeline /\ GoneOk
  BY DEF PipelineInv
<1>8. Whole(LineOf(a, b, c, d), all, gone)
  BY <1>1, <1>6, <1>7, Zenon DEF Pipeline, GoneOk, Whole
<1>9. FourStr(a, b, c, d)
  BY <1>3, <1>4, <1>5 DEF FourStr
<1> QED
  BY <1>2, <1>8, <1>9

\* If the parts after a step make a whole line, the step kept the pipeline.
LEMMA PartsAfter ==
  ASSUME NEW a, NEW b, NEW c, NEW d, NEW all, Parts(a, b, c, d, all)',
         Whole(LineOf(a, b, c, d), all, gone')
  PROVE  (Pipeline /\ GoneOk)'
<1>1. /\ a = Stamps(records') /\ b = StampsOf(air') /\ c = StampsOf(txq')
      /\ d = Stamps(Contents(ring')) /\ all = ToSet(Stamps(captured'))
  BY Zenon DEF Parts
<1>2. Line' = LineOf(a, b, c, d)
  BY <1>1, Zenon DEF Line, LineOf, Join
<1> QED
  BY <1>1, <1>2, Zenon DEF Pipeline, GoneOk, Whole

\* A drained ring and a new one hold nothing.
LEMMA RingEmptied ==
  ASSUME RingOk, ring' = Drained(ring) \/ ring' = EmptyRing
  PROVE  Stamps(Contents(ring')) = <<>>
<1>1. RingInv(ring)
  BY DEF RingOk
<1>2. Contents(ring') = <<>>
  BY <1>1, DrainedOk, EmptyRingOk
<1> QED
  BY <1>2, NoStamps

\* The part of the ring is joined to that of the queue, or given up.
LEMMA LineAfterUpload ==
  ASSUME PipelineInv, TimeFits, RingFits, Upload
  PROVE  (Pipeline /\ GoneOk)'
<1>1. PICK a, b, c, d, all : /\ Parts(a, b, c, d, all) /\ FourStr(a, b, c, d)
                             /\ Whole(LineOf(a, b, c, d), all, gone)
  BY PartsFacts
<1>2. PICK m : m = [bytes |-> CompressDelta(Contents(ring), mask), batch |-> Contents(ring)]
  OBVIOUS
<1>3. /\ ring.size > 0 /\ ring' = Drained(ring)
      /\ air' = air /\ records' = records /\ captured' = captured
      /\ \/ txq' = Append(txq, m) /\ gone' = gone
         \/ txq' = txq /\ gone' = gone \cup ToSet(Stamps(Contents(ring)))
  BY <1>2, Zenon DEF Upload, UploadDue, GiveUp
<1>4. /\ a = Stamps(records') /\ b = StampsOf(air') /\ Stamps(Contents(ring')) = <<>>
      /\ all = ToSet(Stamps(captured')) /\ c = StampsOf(txq) /\ d = Stamps(Contents(ring))
  BY <1>1, <1>3, RingEmptied DEF Parts, PipelineInv
<1>5. CASE txq' = Append(txq, m) /\ gone' = gone
  <2>1. m \in Message /\ m.batch = Contents(ring)
    BY <1>2, <1>3, BatchSent DEF PipelineInv
  <2>2. txq \in Seq(Message)
    BY DEF PipelineInv, QueueOk
  <2>3. StampsOf(Append(txq, m)) = StampsOf(txq) \o Stamps(m.batch)
    BY <2>1, <2>2, StampsOfAppend
  <2>4. StampsOf(txq') = Join(c, d)
    BY <1>4, <1>5, <2>1, <2>3, Zenon DEF Join
  <2>5. Parts(a, b, Join(c, d), <<>>, all)'
    BY <1>4, <2>4, Zenon DEF Parts
  <2>6. Whole(LineOf(a, b, Join(c, d), <<>>), all, gone')
    BY <1>1, <1>5, LineUpload
  <2> QED
    BY <2>5, <2>6, PartsAfter
<1>6. CASE txq' = txq /\ gone' = gone \cup ToSet(Stamps(Contents(ring)))
  <2>1. Parts(a, b, c, <<>>, all)'
    BY <1>4, <1>6, Zenon DEF Parts
  <2>2. Whole(LineOf(a, b, c, <<>>), all, gone')
    BY <1>1, <1>4, <1>6, LineDrop
  <2> QED
    BY <2>1, <2>2, PartsAfter
<1> QED
  BY <1>3, <1>5, <1>6

\* The part of the ring is given up.
LEMMA LineAfterUploadFails ==
  ASSUME PipelineInv, UploadFails
  PROVE  (Pipeline /\ GoneOk)'
<1>1. PICK a, b, c, d, all : /\ Parts(a, b, c, d, all) /\ FourStr(a, b, c, d)
                             /\ Whole(LineOf(a, b, c, d), all, gone)
  BY PartsFacts
<1>2. /\ ring' = Drained(ring) /\ air' = air /\ txq' = txq /\ records' = records
      /\ captured' = captured /\ gone' = gone \cup ToSet(Stamps(Contents(ring)))
  BY Zenon DEF UploadFails, GiveUp
<1>3. Stamps(Contents(ring')) = <<>>
  BY <1>2, RingEmptied DEF PipelineInv
<1>4. Parts(a, b, c, <<>>, all)' /\ d = Stamps(Contents(ring))
  BY <1>1, <1>2, <1>3, Zenon DEF Parts
<1>5. Whole(LineOf(a, b, c, <<>>), all, gone')
  BY <1>1, <1>2, <1>4, LineDrop
<1> QED
  BY <1>4, <1>5, PartsAfter

\* An answer to a write holds no record.
LEMMA LineAfterAck ==
  ASSUME PipelineInv, AckWrite
  PROVE  (Pipeline /\ GoneOk)'
<1>1. PICK a, b, c, d, all : /\ Parts(a, b, c, d, all) /\ FourStr(a, b, c, d)
                             /\ Whole(LineOf(a, b, c, d), all, gone)
  BY PartsFacts
<1>2. /\ ring' = ring /\ air' = air /\ records' = records /\ captured' = captured /\ gone' = gone
      /\ txq' = Append(txq, WriteAck) \/ txq' = txq
  BY DEF AckWrite
<1>3. StampsOf(txq') = StampsOf(txq)
  <2>1. txq \in Seq(Message) /\ WriteAck \in Message /\ WriteAck.batch = <<>>
    BY AckSent DEF PipelineInv, QueueOk, WriteAck
  <2>2. StampsOf(Append(txq, WriteAck)) = StampsOf(txq) \o <<>>
    BY <2>1, StampsOfAppend, NoStamps
  <2>3. StampsOf(txq) \in Seq(Nat)
    BY <2>1, StampsOfType
  <2>4. StampsOf(txq) \o <<>> = StampsOf(txq)
    BY <2>3, ConcatEmptySeq
  <2> QED
    BY <1>2, <2>2, <2>4, Zenon
<1>4. Parts(a, b, c, d, all)'
  BY <1>1, <1>2, <1>3, Zenon DEF Parts
<1> QED
  BY <1>1, <1>2, <1>4, PartsAfter

\* The first message of the queue moves to the end of the network.
LEMMA LineAfterPublish ==
  ASSUME PipelineInv, Publish
  PROVE  (Pipeline /\ GoneOk)'
<1>1. PICK a, b, c, d, all : /\ Parts(a, b, c, d, all) /\ FourStr(a, b, c, d)
                             /\ Whole(LineOf(a, b, c, d), all, gone)
  BY PartsFacts
<1>2. /\ ring' = ring /\ records' = records /\ captured' = captured /\ gone' = gone
      /\ txq # <<>> /\ txq' = Tail(txq) /\ air' = Append(air, Head(txq))
  BY DEF Publish
<1>3. txq \in Seq(Message) /\ air \in Seq(Message)
  BY DEF PipelineInv, QueueOk
<1>4. PICK x, t : x = Stamps(Head(txq).batch) /\ t = StampsOf(Tail(txq))
  OBVIOUS
<1>5. /\ Head(txq) \in Message /\ Tail(txq) \in Seq(Message)
      /\ StampsOf(txq) = Stamps(Head(txq).batch) \o StampsOf(Tail(txq))
  BY <1>2, <1>3, StampsOfHead
<1>6. x \in Str /\ t \in Str
  BY <1>4, <1>5, MessageStamps, StampsOfType DEF Str
<1>7. c = Join(x, t)
  BY <1>1, <1>4, <1>5, Zenon DEF Join, Parts
<1>8. StampsOf(Append(air, Head(txq))) = StampsOf(air) \o Stamps(Head(txq).batch)
  BY <1>3, <1>5, StampsOfAppend
<1>9. Parts(a, Join(b, x), t, d, all)'
  <2>1. StampsOf(air') = Join(b, x)
    BY <1>1, <1>2, <1>4, <1>8, Zenon DEF Join, Parts
  <2> QED
    BY <1>1, <1>2, <1>4, <2>1, Zenon DEF Parts
<1>10. FourStr(a, b, t, d)
  BY <1>1, <1>6, Zenon DEF FourStr
<1>11. LineOf(a, Join(b, x), t, d) = LineOf(a, b, c, d)
  BY <1>6, <1>7, <1>10, LinePublish
<1> QED
  BY <1>1, <1>2, <1>9, <1>11, PartsAfter

\* The first message of the queue is given up.
LEMMA LineAfterPublishFails ==
  ASSUME PipelineInv, PublishFails
  PROVE  (Pipeline /\ GoneOk)'
<1>1. PICK a, b, c, d, all : /\ Parts(a, b, c, d, all) /\ FourStr(a, b, c, d)
                             /\ Whole(LineOf(a, b, c, d), all, gone)
  BY PartsFacts
<1>2. /\ ring' = ring /\ records' = records /\ captured' = captured /\ air' = air
      /\ txq # <<>> /\ txq' = Tail(txq) /\ gone' = gone \cup ToSet(Stamps(Head(txq).batch))
  BY DEF PublishFails, GiveUp
<1>3. txq \in Seq(Message)
  BY DEF PipelineInv, QueueOk
<1>4. PICK x, t : x = Stamps(Head(txq).batch) /\ t = StampsOf(Tail(txq))
  OBVIOUS
<1>5. /\ Head(txq) \in Message /\ Tail(txq) \in Seq(Message)
      /\ StampsOf(txq) = Stamps(Head(txq).batch) \o StampsOf(Tail(txq))
  BY <1>2, <1>3, StampsOfHead
<1>6. x \in Str /\ t \in Str
  BY <1>4, <1>5, MessageStamps, StampsOfType DEF Str
<1>7. c = Join(x, t)
  BY <1>1, <1>4, <1>5, Zenon DEF Join, Parts
<1>8. Parts(a, b, t, d, all)'
  BY <1>1, <1>2, <1>4, Zenon DEF Parts
<1>9. FourStr(a, b, t, d)
  BY <1>1, <1>6, Zenon DEF FourStr
<1>10. Whole(LineOf(a, b, t, d), all, gone \cup ToSet(x))
  BY <1>1, <1>6, <1>7, <1>9, LineUnsent
<1> QED
  BY <1>2, <1>4, <1>8, <1>10, PartsAfter

\* The parts of the ring and of the queue are given up.
LEMMA LineAfterRestart ==
  ASSUME PipelineInv, Restart
  PROVE  (Pipeline /\ GoneOk)'
<1>1. PICK a, b, c, d, all : /\ Parts(a, b, c, d, all) /\ FourStr(a, b, c, d)
                             /\ Whole(LineOf(a, b, c, d), all, gone)
  BY PartsFacts
<1>2. /\ ring' = EmptyRing /\ txq' = <<>> /\ air' = air /\ records' = records
      /\ captured' = captured
      /\ gone' = (gone \cup ToSet(Stamps(Contents(ring)))) \cup ToSet(StampsOf(txq))
  BY DEF Restart
<1>3. Stamps(Contents(ring')) = <<>> /\ StampsOf(txq') = <<>>
  BY <1>2, RingEmptied, NoMessages DEF PipelineInv
<1>4. Parts(a, b, <<>>, <<>>, all)'
  BY <1>1, <1>2, <1>3, Zenon DEF Parts
<1>5. gone' = (gone \cup ToSet(d)) \cup ToSet(c)
  BY <1>1, <1>2, Zenon DEF Parts
<1>6. Whole(LineOf(a, b, <<>>, <<>>), all, gone')
  BY <1>1, <1>5, LineRestart
<1> QED
  BY <1>4, <1>6, PartsAfter

\* The messages before and after the one that is lost.
Split(msgs, i, s, t) ==
  /\ msgs \in Seq(Message) /\ i \in 1..Len(msgs)
  /\ s = SubSeq(msgs, 1, i - 1) /\ t = SubSeq(msgs, i + 1, Len(msgs))

\* The time stamps before, of and after a message are those of the queue.
LEMMA SplitStamps ==
  ASSUME NEW msgs, NEW i, NEW p, NEW q, Split(msgs, i, p, q)
  PROVE  /\ p \in Seq(Message) /\ q \in Seq(Message)
         /\ StampsOf(msgs) = Join(StampsOf(p), Join(Stamps(msgs[i].batch), StampsOf(q)))
<1>1. /\ msgs \in Seq(Message) /\ i \in 1..Len(msgs)
      /\ p = SubSeq(msgs, 1, i - 1) /\ q = SubSeq(msgs, i + 1, Len(msgs))
  BY Zenon DEF Split
<1>2. /\ Len(msgs) \in Nat /\ i \in Nat /\ i >= 1 /\ i <= Len(msgs)
      /\ \A j \in 1..Len(msgs) : msgs[j] \in Message
  BY <1>1
<1>3. p \in Seq(Message) /\ q \in Seq(Message)
  BY <1>1, <1>2, SubSeqProperties
<1>4. PICK m \in Message : m = msgs[i]
  BY <1>2
<1>5. PICK one : one = <<m>>
  OBVIOUS
<1>6. one \in Seq(Message) /\ StampsOf(one) = Stamps(m.batch)
  BY <1>5, StampsOfOne
<1>7. PICK w : w = SubSeq(msgs, i, Len(msgs))
  OBVIOUS
<1>8. w = one \o q
  BY <1>1, <1>2, <1>4, <1>5, <1>7, SubSeqRecursiveFirst
<1>9. msgs = p \o w
  <2>1. SubSeq(msgs, 1, i - 1) \o SubSeq(msgs, (i - 1) + 1, Len(msgs)) = SubSeq(msgs, 1, Len(msgs))
    <3>1. 1 \in 1..Len(msgs) + 1 /\ i - 1 \in 1 - 1..Len(msgs) /\ Len(msgs) \in i - 1..Len(msgs)
      BY <1>2
    <3> QED
      BY <1>1, <3>1, ConcatAdjacentSubSeq
  <2>2. SubSeq(msgs, 1, Len(msgs)) = msgs
    BY <1>1, SubSeqFull
  <2>3. (i - 1) + 1 = i
    BY <1>2
  <2> QED
    BY <1>1, <1>7, <2>1, <2>2, <2>3
<1>10. w \in Seq(Message) /\ StampsOf(w) = StampsOf(one) \o StampsOf(q)
  BY <1>3, <1>6, <1>8, StampsOfConcat, ConcatProperties
<1>11. StampsOf(msgs) = StampsOf(p) \o StampsOf(w)
  BY <1>3, <1>9, <1>10, StampsOfConcat
<1> QED
  BY <1>3, <1>4, <1>6, <1>10, <1>11, Zenon DEF Join

\* A message of the network is given up.
LEMMA LineAfterLose ==
  ASSUME PipelineInv, Lose
  PROVE  (Pipeline /\ GoneOk)'
<1>1. PICK a, b, c, d, all : /\ Parts(a, b, c, d, all) /\ FourStr(a, b, c, d)
                             /\ Whole(LineOf(a, b, c, d), all, gone)
  BY PartsFacts
<1>2. PICK i \in 1..Len(air) : /\ air' = RemoveAt(air, i)
                               /\ gone' = gone \cup ToSet(Stamps(air[i].batch))
  BY DEF Lose, GiveUp
<1>3. ring' = ring /\ txq' = txq /\ records' = records /\ captured' = captured
  BY DEF Lose
<1>4. air \in Seq(Message)
  BY DEF PipelineInv, QueueOk
<1>5. PICK s, t, p, q, x : /\ s = SubSeq(air, 1, i - 1) /\ t = SubSeq(air, i + 1, Len(air))
                           /\ p = StampsOf(s) /\ q = StampsOf(t) /\ x = Stamps(air[i].batch)
  OBVIOUS
<1>6. /\ s \in Seq(Message) /\ t \in Seq(Message) /\ StampsOf(air) = Join(p, Join(x, q))
  <2>1. Split(air, i, s, t)
    BY <1>2, <1>4, <1>5, Zenon DEF Split
  <2>2. /\ s \in Seq(Message) /\ t \in Seq(Message)
        /\ StampsOf(air) = Join(StampsOf(s), Join(Stamps(air[i].batch), StampsOf(t)))
    BY <2>1, SplitStamps
  <2> QED
    BY <1>5, <2>2, Zenon
<1>7. p \in Str /\ q \in Str /\ x \in Str
  <2>1. air[i] \in Message
    BY <1>4
  <2> QED
    BY <1>5, <1>6, <2>1, MessageStamps, StampsOfType DEF Str
<1>8. b = Join(p, Join(x, q))
  BY <1>1, <1>6, Zenon DEF Parts
<1>9. StampsOf(air') = Join(p, q)
  <2>1. air' = s \o t
    BY <1>2, <1>5, Zenon DEF RemoveAt
  <2>2. StampsOf(s \o t) = StampsOf(s) \o StampsOf(t)
    BY <1>6, StampsOfConcat
  <2> QED
    BY <1>5, <2>1, <2>2, Zenon DEF Join
<1>10. Parts(a, Join(p, q), c, d, all)'
  BY <1>1, <1>3, <1>9, Zenon DEF Parts
<1>11. FourStr(a, p, c, d)
  BY <1>1, <1>7, Zenon DEF FourStr
<1>12. Whole(LineOf(a, Join(p, q), c, d), all, gone \cup ToSet(x))
  BY <1>1, <1>7, <1>8, <1>11, LineLose
<1> QED
  BY <1>2, <1>5, <1>10, <1>12, PartsAfter

\* A record at the end adds its time stamp there.
LEMMA AppendStamps ==
  ASSUME NEW recs \in Seq(Record), NEW r \in Record
  PROVE  Stamps(Append(recs, r)) = Join(Stamps(recs), <<r.ts>>)
<1>1. PICK one : one = <<r>>
  OBVIOUS
<1>2. one \in Seq(Record)
  BY <1>1
<1>3. Append(recs, r) = recs \o one
  BY <1>1, AppendIsConcat
<1>4. Stamps(recs \o one) = Stamps(recs) \o Stamps(one)
  BY <1>2, RecordStamps, StampsConcat
<1>5. Stamps(one) = <<r.ts>>
  BY <1>1 DEF Stamps
<1> QED
  BY <1>3, <1>4, <1>5, Zenon DEF Join

\* The time stamps of records begin with that of the first.
LEMMA TailStamps ==
  ASSUME NEW recs \in Seq(Record), recs # <<>>
  PROVE  /\ Tail(recs) \in Seq(Record) /\ recs[1] \in Record
         /\ Stamps(recs) = Join(<<recs[1].ts>>, Stamps(Tail(recs)))
<1>1. PICK n, t, h : n = Len(recs) /\ t = Tail(recs) /\ h = recs[1]
  OBVIOUS
<1>2. /\ n \in Nat /\ n > 0 /\ h \in Record /\ t \in Seq(Record) /\ Len(t) = n - 1
      /\ \A i \in 1..n - 1 : t[i] = recs[i + 1]
  BY <1>1, HeadTailProperties
<1>3. PICK one : one = <<h>>
  OBVIOUS
<1>4. one \in Seq(Record) /\ Stamps(one) = <<h.ts>>
  <2>1. one \in Seq(Record)
    BY <1>2, <1>3
  <2>2. Stamps(one) = <<h.ts>>
    BY <1>3 DEF Stamps
  <2> QED
    BY <2>1, <2>2
<1>5. recs = one \o t
  <2>1. SubSeq(recs, 1, Len(recs)) = <<recs[1]>> \o SubSeq(recs, 1 + 1, Len(recs))
    <3>1. 1 \in 1..Len(recs) /\ Len(recs) \in 1..Len(recs)
      BY <1>1, <1>2
    <3> QED
      BY <3>1, SubSeqRecursiveFirst
  <2>2. SubSeq(recs, 1, Len(recs)) = recs
    BY SubSeqFull
  <2>3. Tail(recs) = SubSeq(recs, 2, Len(recs)) /\ 1 + 1 = 2
    BY TailIsSubSeq
  <2> QED
    BY <1>1, <1>3, <2>1, <2>2, <2>3
<1>6. Stamps(one \o t) = Stamps(one) \o Stamps(t)
  BY <1>2, <1>4, RecordStamps, StampsConcat
<1>7. Stamps(recs) = Join(<<h.ts>>, Stamps(t))
  BY <1>4, <1>5, <1>6, Zenon DEF Join
<1> QED
  BY <1>1, <1>2, <1>7, Zenon

\* The stamp of a poll is later than all before it.
LEMMA PollIsLater ==
  ASSUME CapturedOk, NEW r, Polled(r)
  PROVE  r.ts \in Nat /\ \A y \in ToSet(Stamps(captured)) : y < r.ts
<1>1. r.ts \in Nat /\ LastStamp < r.ts /\ LastStamp \in Nat
  BY RecordFields, LastStampIs DEF Polled
<1>2. ASSUME NEW y \in ToSet(Stamps(captured)) PROVE y < r.ts
  <2>1. PICK i \in 1..Len(captured) : y = captured[i].ts
    BY <1>2 DEF ToSet, Stamps
  <2>2. y <= LastStamp
    BY <2>1, LastStampIs
  <2>3. y \in Nat
    <3>1. captured[i] \in Record
      BY DEF CapturedOk
    <3> QED
      BY <2>1, <3>1, RecordFields
  <2> QED
    BY <1>1, <2>2, <2>3
<1> QED
  BY <1>1, <1>2

\* A captured record is the last of the line; a full ring gives up its first.
LEMMA LineAfterPoll ==
  ASSUME PipelineInv, TimeFits, Poll
  PROVE  (Pipeline /\ GoneOk)'
<1>1. PICK a, b, c, d, all : /\ Parts(a, b, c, d, all) /\ FourStr(a, b, c, d)
                             /\ Whole(LineOf(a, b, c, d), all, gone)
  BY PartsFacts
<1>2. PICK r : Polled(r)
  BY PollFacts DEF PipelineInv
<1>3. PICK v, u, s : v = r.ts /\ u = Contents(ring)[1].ts /\ s = Contents(ring)
  OBVIOUS
<1>4. /\ air' = air /\ txq' = txq /\ records' = records
      /\ gone' = IF Full(ring) THEN gone \cup {u} ELSE gone
      /\ captured' = Append(captured, r) /\ ring' = Pushed(ring, r) /\ r \in Record
  <2>1. /\ air' = air /\ txq' = txq /\ records' = records
        /\ gone' = IF Full(ring) THEN gone \cup {Contents(ring)[1].ts} ELSE gone
    BY Zenon DEF Poll
  <2>2. captured' = Append(captured, r) /\ ring' = Pushed(ring, r) /\ r \in Record
    BY <1>2, Zenon DEF Polled
  <2> QED
    BY <1>3, <2>1, <2>2, Zenon
<1>5. v \in Nat /\ \A y \in all : y < v
  <2>1. v \in Nat /\ \A y \in ToSet(Stamps(captured)) : y < v
    BY <1>2, <1>3, PollIsLater DEF PipelineInv
  <2> QED
    BY <1>1, <2>1 DEF Parts
<1>6. ToSet(Stamps(captured')) = all \cup {v}
  <2>1. captured \in Seq(Record)
    BY DEF PipelineInv, CapturedOk
  <2>2. Stamps(captured') = Join(Stamps(captured), <<v>>)
    BY <1>3, <1>4, <2>1, AppendStamps
  <2>3. Stamps(captured) \in Str /\ <<v>> \in Str /\ ToSet(<<v>>) = {v}
    BY <1>5, <2>1, RecordStamps, StampsFacts, OneStamp DEF Str
  <2>4. ToSet(Join(Stamps(captured), <<v>>)) = ToSet(Stamps(captured)) \cup ToSet(<<v>>)
    BY <2>3, JoinSet
  <2>5. all = ToSet(Stamps(captured))
    BY <1>1 DEF Parts
  <2> QED
    BY <2>2, <2>3, <2>4, <2>5, Zenon
<1>7. s \in Seq(Record) /\ d = Stamps(s) /\ RingInv(ring)
  BY <1>1, <1>3 DEF PipelineInv, RingOk, Parts
<1>8. Contents(ring') = Append(IF ring.size = Cap THEN Tail(s) ELSE s, r)
  BY <1>3, <1>4, <1>7, PushedContents
<1>9. CASE ring.size # Cap
  <2>1. Stamps(Contents(ring')) = Join(d, <<v>>)
    <3>1. Contents(ring') = Append(s, r)
      BY <1>8, <1>9
    <3> QED
      BY <1>3, <1>4, <1>7, <3>1, AppendStamps
  <2>2. Parts(a, b, c, Join(d, <<v>>), all \cup {v})'
    BY <1>1, <1>4, <1>6, <2>1, Zenon DEF Parts
  <2>3. gone' = gone
    BY <1>4, <1>9 DEF Full
  <2>4. Whole(LineOf(a, b, c, Join(d, <<v>>)), all \cup {v}, gone')
    BY <1>1, <1>5, <2>3, LineCapture
  <2> QED
    BY <2>2, <2>4, PartsAfter
<1>10. CASE ring.size = Cap
  <2>1. s # <<>>
    <3>1. Len(s) = Cap /\ Cap # 0
      BY <1>3, <1>10, RingLen, CapAssumption DEF PipelineInv
    <3> QED
      BY <3>1
  <2>2. PICK e, t : e = Stamps(t) /\ t = Tail(s)
    OBVIOUS
  <2>3. t \in Seq(Record) /\ s[1] \in Record /\ d = Join(<<u>>, e) /\ u \in Nat
    <3>1. t \in Seq(Record) /\ s[1] \in Record /\ Stamps(s) = Join(<<s[1].ts>>, Stamps(t))
      BY <1>7, <2>1, <2>2, TailStamps
    <3>2. s[1].ts = u
      BY <1>3
    <3>3. u \in Nat
      BY <3>1, <3>2, RecordFields
    <3> QED
      BY <1>7, <2>2, <3>1, <3>2, <3>3, Zenon
  <2>4. Stamps(Contents(ring')) = Join(e, <<v>>)
    <3>1. Contents(ring') = Append(t, r)
      BY <1>8, <1>10, <2>2
    <3> QED
      BY <1>3, <1>4, <2>2, <2>3, <3>1, AppendStamps
  <2>5. Parts(a, b, c, Join(e, <<v>>), all \cup {v})'
    BY <1>1, <1>4, <1>6, <2>4, Zenon DEF Parts
  <2>6. gone' = gone \cup {u}
    BY <1>4, <1>10 DEF Full
  <2>7. FourStr(a, b, c, e)
    <3>1. e \in Str
      BY <2>2, <2>3, RecordStamps, StampsFacts DEF Str
    <3> QED
      BY <1>1, <3>1, Zenon DEF FourStr
  <2>8. Whole(LineOf(a, b, c, e), all, gone')
    BY <1>1, <2>3, <2>6, <2>7, LineDisplace
  <2>9. Whole(LineOf(a, b, c, Join(e, <<v>>)), all \cup {v}, gone')
    BY <1>5, <2>7, <2>8, LineCapture
  <2> QED
    BY <2>5, <2>9, PartsAfter
<1> QED
  BY <1>9, <1>10

-----------------------------------------------------------------------------
(* What the server does with a message m.                                  *)

Received(m, kept) ==
  /\ m \in Message /\ Sent(m)
  /\ air # <<>> /\ m = Head(air) /\ air' = Tail(air)
  /\ kept = Trimmed(records \o Decoded(m)) /\ records' = kept
  /\ gone' = gone \cup ((ToSet(Stamps(m.batch)) \cup ToSet(Stamps(records)))
                          \ ToSet(Stamps(kept)))
  /\ ring' = ring /\ txq' = txq /\ captured' = captured /\ mask' = mask

\* The message a Receive takes, and what it does with it.
LEMMA ReceiveFacts ==
  ASSUME QueueOk(air), Receive
  PROVE  \E m, kept : Received(m, kept)
<1>1. PICK m, recs, kept :
        /\ m = Head(air) /\ recs = Decoded(m) /\ kept = Trimmed(records \o recs)
  OBVIOUS
<1>2. /\ air # <<>> /\ air' = Tail(air) /\ ring' = ring /\ txq' = txq /\ captured' = captured
      /\ mask' = mask
  BY DEF Receive
<1>3. /\ records' = kept
      /\ gone' = gone \cup ((ToSet(Stamps(m.batch)) \cup ToSet(Stamps(records)))
                              \ ToSet(Stamps(kept)))
  BY <1>1, Zenon DEF Receive, Decoded
<1>4. m \in Message /\ Sent(m)
  BY <1>1, <1>2, QueueHead
<1> QED
  BY <1>1, <1>2, <1>3, <1>4, Zenon DEF Received

\* It keeps the records it had, or the last of these and those of the batch.
Kept(m, kept) ==
  \/ Decoded(m) = <<>> /\ kept = records
  \/ /\ StandFor(Decoded(m), m.batch) /\ kept \in Seq(Shown) /\ Len(kept) <= MaxRecords
     /\ \E p \in Seq(Shown) : records \o Decoded(m) = p \o kept

\* What the server keeps after a message.
LEMMA KeptFacts ==
  ASSUME RecordsOk, NEW m, NEW kept, Received(m, kept)
  PROVE  Kept(m, kept)
<1>1. records \in Seq(Shown) /\ Len(records) <= MaxRecords
  BY DEF RecordsOk
<1>2. PICK recs, both : recs = Decoded(m) /\ both = records \o recs
  OBVIOUS
<1>3. kept = Trimmed(both) /\ Sent(m)
  BY <1>2, Zenon DEF Received
<1>4. CASE recs = <<>>
  <2>1. both = records
    BY <1>1, <1>2, <1>4, ConcatEmptySeq
  <2>2. kept = records
    BY <1>1, <1>3, <2>1, TrimmedSplit
  <2> QED
    BY <1>2, <1>4, <2>2 DEF Kept
<1>5. CASE StandFor(recs, m.batch)
  <2>1. recs \in Seq(Shown)
    BY <1>5 DEF StandFor
  <2>2. both \in Seq(Shown)
    BY <1>1, <1>2, <2>1, ConcatProperties
  <2>3. kept \in Seq(Shown) /\ Len(kept) <= MaxRecords /\ \E p \in Seq(Shown) : both = p \o kept
    BY <1>3, <2>2, TrimmedSplit
  <2> QED
    BY <1>2, <1>5, <2>3, Zenon DEF Kept
<1> QED
  BY <1>2, <1>3, <1>4, <1>5, DecodedIs

\* A batch moves to the end of the server's part, which gives up what is trimmed.
LEMMA LineAfterReceive ==
  ASSUME PipelineInv, Receive
  PROVE  (Pipeline /\ GoneOk)'
<1>1. PICK a, b, c, d, all : /\ Parts(a, b, c, d, all) /\ FourStr(a, b, c, d)
                             /\ Whole(LineOf(a, b, c, d), all, gone)
  BY PartsFacts
<1>2. PICK m, kept : Received(m, kept)
  BY ReceiveFacts DEF PipelineInv
<1>3. Kept(m, kept)
  BY <1>2, KeptFacts DEF PipelineInv
<1>4. air \in Seq(Message) /\ air # <<>> /\ m = Head(air) /\ air' = Tail(air) /\ m \in Message
  BY <1>2 DEF PipelineInv, QueueOk, Received
<1>5. PICK x, rest, e : x = Stamps(m.batch) /\ rest = StampsOf(air') /\ e = Stamps(kept)
  OBVIOUS
<1>6. b = Join(x, rest) /\ x \in Str /\ rest \in Str
  <2>1. /\ air' \in Seq(Message)
        /\ StampsOf(air) = Stamps(m.batch) \o StampsOf(air')
    BY <1>4, StampsOfHead
  <2>2. x \in Str /\ rest \in Str
    BY <1>4, <1>5, <2>1, MessageStamps, StampsOfType DEF Str
  <2> QED
    BY <1>1, <1>5, <2>1, <2>2, Zenon DEF Parts, Join
<1>7. FourStr(a, rest, c, d) /\ Whole(LineOf(a, Join(x, rest), c, d), all, gone)
  BY <1>1, <1>6, Zenon DEF FourStr
<1>8. gone' = gone \cup ((ToSet(x) \cup ToSet(a)) \ ToSet(e))
  BY <1>1, <1>2, <1>5, Zenon DEF Parts, Received
<1>9. Parts(e, rest, c, d, all)'
  <2>1. records' = kept /\ ring' = ring /\ txq' = txq /\ captured' = captured
    BY <1>2, Zenon DEF Received
  <2> QED
    BY <1>1, <1>5, <2>1, Zenon DEF Parts
<1>10. CASE kept = records
  <2>1. e = a
    BY <1>1, <1>5, <1>10, Zenon DEF Parts
  <2>2. Whole(LineOf(a, rest, c, d), all, gone')
    BY <1>6, <1>7, <1>8, <2>1, LineIgnored
  <2> QED
    BY <1>9, <2>1, <2>2, PartsAfter
<1>11. CASE /\ StandFor(Decoded(m), m.batch) /\ kept \in Seq(Shown)
            /\ \E p \in Seq(Shown) : records \o Decoded(m) = p \o kept
  <2>1. PICK recs, q : recs = Decoded(m) /\ q = m.batch
    OBVIOUS
  <2>2. PICK p \in Seq(Shown) : records \o recs = p \o kept
    BY <1>11, <2>1, Zenon
  <2>3. /\ recs \in Seq(Shown) /\ Len(recs) = Len(q) /\ q \in Seq(Record)
        /\ \A i \in 1..Len(q) : recs[i].ts = q[i].ts
    BY <1>4, <1>11, <2>1, MessageStamps DEF StandFor
  <2>4. Stamps(recs) = x
    BY <1>5, <2>1, <2>3 DEF Stamps
  <2>5. records \in Seq(Shown)
    BY DEF PipelineInv, RecordsOk
  <2>6. Stamps(records \o recs) = Stamps(records) \o Stamps(recs)
    BY <2>3, <2>5, ShownStamps, StampsConcat
  <2>7. Stamps(p \o kept) = Stamps(p) \o Stamps(kept)
    BY <1>11, ShownStamps, StampsConcat
  <2>8. Join(a, x) = Join(Stamps(p), e)
    BY <1>1, <1>5, <2>2, <2>4, <2>6, <2>7, Zenon DEF Join, Parts
  <2>9. Stamps(p) \in Str /\ e \in Str
    BY <1>5, <1>11, ShownStamps, StampsFacts DEF Str
  <2>10. Whole(LineOf(e, rest, c, d), all, gone')
    BY <1>6, <1>7, <1>8, <2>8, <2>9, LineReceive
  <2> QED
    BY <1>9, <2>10, PartsAfter
<1> QED
  BY <1>3, <1>10, <1>11, Zenon DEF Kept

\* A change of configuration leaves the line alone.
LEMMA LineUnchanged ==
  ASSUME PipelineInv, ApplyConfig \/ UNCHANGED vars
  PROVE  (Pipeline /\ GoneOk)'
<1>1. PICK a, b, c, d, all : /\ Parts(a, b, c, d, all) /\ FourStr(a, b, c, d)
                             /\ Whole(LineOf(a, b, c, d), all, gone)
  BY PartsFacts
<1>2. /\ ring' = ring /\ txq' = txq /\ air' = air /\ records' = records
      /\ captured' = captured /\ gone' = gone
  BY DEF ApplyConfig, vars
<1>3. Parts(a, b, c, d, all)'
  BY <1>1, <1>2, Zenon DEF Parts
<1> QED
  BY <1>1, <1>2, <1>3, PartsAfter

\* Every step keeps the line whole.
LEMMA LineStep ==
  ASSUME PipelineInv, TimeFits, RingFits, [Next]_vars
  PROVE  (Pipeline /\ GoneOk)'
<1>1. CASE Poll
  BY <1>1, LineAfterPoll
<1>2. CASE Upload
  BY <1>2, LineAfterUpload
<1>3. CASE UploadFails
  BY <1>3, LineAfterUploadFails
<1>4. CASE AckWrite
  BY <1>4, LineAfterAck
<1>5. CASE Publish
  BY <1>5, LineAfterPublish
<1>6. CASE PublishFails
  BY <1>6, LineAfterPublishFails
<1>7. CASE Restart
  BY <1>7, LineAfterRestart
<1>8. CASE Lose
  BY <1>8, LineAfterLose
<1>9. CASE Receive
  BY <1>9, LineAfterReceive
<1>10. CASE ApplyConfig \/ UNCHANGED vars
  BY <1>10, LineUnchanged
<1> QED
  BY <1>1, <1>2, <1>3, <1>4, <1>5, <1>6, <1>7, <1>8, <1>9, <1>10, Zenon
     DEF Next, MainTask, CloudTask, Environment

\* Every step leaves at most MaxRecords records at the server.
LEMMA RecordsStep ==
  ASSUME QueueOk(air), RecordsOk, [Next]_vars
  PROVE  RecordsOk'
<1>1. CASE Receive
  <2>1. PICK m, kept : Received(m, kept)
    BY <1>1, ReceiveFacts
  <2>2. Kept(m, kept) /\ records' = kept
    BY <2>1, KeptFacts, Zenon DEF Received
  <2>3. kept = records \/ (kept \in Seq(Shown) /\ Len(kept) <= MaxRecords)
    BY <2>2, Zenon DEF Kept
  <2> QED
    BY <2>2, <2>3, Zenon DEF RecordsOk
<1>2. CASE records' = records
  BY <1>2 DEF RecordsOk
<1>3. Receive \/ records' = records
  BY DEF Next, vars, MainTask, CloudTask, Environment, Poll, Upload, UploadFails, AckWrite,
     ApplyConfig, Publish, PublishFails, Restart, Lose
<1> QED
  BY <1>1, <1>2, <1>3

\* The invariant holds at first.
LEMMA PipelineInvInit ==
  ASSUME Init
  PROVE  PipelineInv
<1>1. /\ ring = EmptyRing /\ mask = DefaultMask /\ txq = <<>> /\ air = <<>> /\ records = <<>>
      /\ captured = <<>> /\ gone = {}
  BY DEF Init
<1>2. CapturedOk
  BY <1>1, TelemetryAssumption DEF CapturedOk
<1>3. RingInv(ring) /\ Contents(ring) = <<>> /\ ring.size = 0
  <2>1. EmptyRing.size = 0
    BY DEF EmptyRing
  <2> QED
    BY <1>1, <2>1, EmptyRingOk
<1>4. RingOk
  BY <1>1, <1>3 DEF RingOk
<1>5. mask \in Word
  BY <1>1, TelemetryAssumption
<1>6. QueueOk(txq) /\ QueueOk(air)
  BY <1>1, QueueEmpty
<1>7. RecordsOk
  BY <1>1, TelemetryAssumption DEF RecordsOk
<1>8. Stamps(records) = <<>> /\ StampsOf(air) = <<>> /\ StampsOf(txq) = <<>>
      /\ Stamps(Contents(ring)) = <<>> /\ Stamps(captured) = <<>>
  BY <1>1, <1>3, NoStamps, NoMessages
<1>9. Line = <<>>
  <2>1. Line = LineOf(<<>>, <<>>, <<>>, <<>>)
    BY <1>8, Zenon DEF Line, LineOf, Join
  <2>2. LineOf(<<>>, <<>>, <<>>, <<>>) = <<>>
    BY JoinType, JoinEmpty DEF LineOf
  <2> QED
    BY <2>1, <2>2
<1>10. ToSet(Line) = {} /\ ToSet(Stamps(captured)) = {} /\ Increasing(Line)
  <2>1. ToSet(<<>>) = {}
    BY DEF ToSet
  <2>2. Increasing(<<>>)
    BY DEF Increasing
  <2> QED
    BY <1>8, <1>9, <2>1, <2>2
<1>11. GoneOk /\ Pipeline
  BY <1>1, <1>10 DEF GoneOk, Pipeline
<1> QED
  BY <1>2, <1>4, <1>5, <1>6, <1>7, <1>11 DEF PipelineInv

\* Every step keeps the invariant.
LEMMA PipelineInvStep ==
  ASSUME PipelineInv, TimeFits, RingFits, [Next]_vars
  PROVE  PipelineInv'
<1>1. /\ CapturedOk /\ RingOk /\ mask \in Word /\ QueueOk(txq) /\ QueueOk(air) /\ RecordsOk
  BY DEF PipelineInv
<1>2. CapturedOk' /\ RingOk'
  BY <1>1, CapturedStep, RingOkStep
<1>3. mask' \in Word
  BY <1>1, MaskStep
<1>4. QueueOk(txq') /\ QueueOk(air')
  BY <1>1, QueuesStep
<1>5. RecordsOk'
  BY <1>1, RecordsStep
<1>6. (Pipeline /\ GoneOk)'
  BY LineStep
<1> QED
  BY <1>2, <1>3, <1>4, <1>5, <1>6 DEF PipelineInv

\* Every record that was captured is in one place, in the order of capture, or was given
\* up, whatever the server decodes the batches with: for every capacity of the ring and of
\* the queue, every mask and every number of polls, faults and changes of configuration.
THEOREM PipelineAlways ==
  ASSUME TimeFits, RingFits
  PROVE  Spec => []Pipeline
<1>1. Init => PipelineInv
  BY PipelineInvInit
<1>2. PipelineInv /\ [Next]_vars => PipelineInv'
  BY PipelineInvStep
<1>3. PipelineInv => Pipeline
  BY DEF PipelineInv
<1> QED
  BY <1>1, <1>2, <1>3, PTL DEF Spec

-----------------------------------------------------------------------------
(* The values the server shows.                                            *)

\* Registers whose highest bit is never set: what the device and the server take for
\* different numbers does not occur (HighValueIsLost).
SmallReplies == \A reply \in Reply : \A i \in 1..Len(reply) : reply[i] < 32768

\* A record of the server shows a record that was captured.
Shows(r, c) ==
  /\ r.ts = c.ts
  /\ \A reg \in DOMAIN c.regs \cap DOMAIN r.regs : r.regs[reg] = c.regs[reg]

\* The records of a sequence, and those of the batches of a queue, were captured.
Among(recs, all) == \A i \in 1..Len(recs) : \E j \in 1..Len(all) : recs[i] = all[j]
BatchesAmong(q, all) == \A i \in 1..Len(q) : Among(q[i].batch, all)

\* Each record shows one that was captured.
AllShow(recs, all) == \A i \in 1..Len(recs) : \E j \in 1..Len(all) : Shows(recs[i], all[j])

ValuesInv ==
  /\ Small(captured) /\ BatchesAmong(txq, captured) /\ BatchesAmong(air, captured)
  /\ AllShow(records, captured)

\* A time stamp was captured once.
LEMMA CapturedOnce ==
  ASSUME CapturedOk, NEW j \in 1..Len(captured)
  PROVE  Captured(captured[j].ts) = j
<1>1. PICK n : n = Len(captured)
  OBVIOUS
<1>2. n \in Nat /\ \A i \in 1..n : captured[i].ts \in Nat
  BY <1>1, RecordFields DEF CapturedOk
<1>3. \A i, k \in 1..n : i < k => captured[i].ts < captured[k].ts
  BY <1>1 DEF CapturedOk
<1>4. \A i \in 1..n : captured[i].ts = captured[j].ts => i = j
  <2> SUFFICES ASSUME NEW i \in 1..n, captured[i].ts = captured[j].ts, i # j PROVE FALSE
    OBVIOUS
  <2>1. j \in 1..n
    BY <1>1
  <2>2. i < j \/ j < i
    BY <1>2, <2>1
  <2> QED
    BY <1>2, <1>3, <2>1, <2>2
<1> QED
  BY <1>1, <1>4 DEF Captured

\* If each record of the server shows one that was captured, its values are as read.
LEMMA ValuesInvShows ==
  ASSUME CapturedOk, ValuesInv
  PROVE  ValuesAsRead
<1> SUFFICES ASSUME NEW i \in 1..Len(records),
                    NEW reg \in DOMAIN captured[Captured(records[i].ts)].regs
                                  \cap DOMAIN records[i].regs
             PROVE  records[i].regs[reg] = captured[Captured(records[i].ts)].regs[reg]
  BY Zenon DEF ValuesAsRead
<1>1. PICK j \in 1..Len(captured) : Shows(records[i], captured[j])
  BY DEF ValuesInv, AllShow
<1>2. Captured(records[i].ts) = j
  <2>1. Captured(captured[j].ts) = j
    BY CapturedOnce
  <2> QED
    BY <1>1, <2>1 DEF Shows
<1> QED
  BY <1>1, <1>2 DEF Shows

\* What holds of the records captured holds of a part of them.
LEMMA AmongSmall ==
  ASSUME NEW recs, NEW all, Among(recs, all), Small(all)
  PROVE  Small(recs)
  BY DEF Among, Small

\* A poll changes none of the records captured before.
LEMMA AmongMore ==
  ASSUME CapturedOk, NEW r \in Record, captured' = Append(captured, r)
  PROVE  /\ \A recs : Among(recs, captured) => Among(recs, captured')
         /\ \A q : BatchesAmong(q, captured) => BatchesAmong(q, captured')
         /\ \A recs : AllShow(recs, captured) => AllShow(recs, captured')
<1>1. PICK n, s : n = Len(captured) /\ s = captured'
  OBVIOUS
<1>2. Len(s) = n + 1 /\ n \in Nat /\ \A i \in 1..n : s[i] = captured[i]
  BY <1>1, AppendProperties DEF CapturedOk
<1>3. \A j \in 1..n : j \in 1..Len(s) /\ s[j] = captured[j]
  BY <1>2
<1>4. \A recs : Among(recs, captured) => Among(recs, s)
  BY <1>1, <1>3, Zenon DEF Among
<1>5. \A q : BatchesAmong(q, captured) => BatchesAmong(q, s)
  BY <1>4, Zenon DEF BatchesAmong
<1>6. \A recs : AllShow(recs, captured) => AllShow(recs, s)
  BY <1>1, <1>3, Zenon DEF AllShow
<1> QED
  BY <1>1, <1>4, <1>5, <1>6, Zenon

\* The values of a record are those of a reply.
LEMMA PollSmall ==
  ASSUME CapturedOk, SmallReplies, Small(captured), Poll
  PROVE  Small(captured')
<1>1. PICK reply \in Reply, gap \in Gap :
        captured' = Append(captured, Built(LastStamp + gap, reply))
  BY DEF Poll
<1>2. PICK r : r = Built(LastStamp + gap, reply)
  OBVIOUS
<1>3. LastStamp + gap \in Nat
  BY LastStampIs, TelemetryAssumption
<1>4. r \in Record
  BY <1>2, <1>3, BuiltRecord
<1>5. reply \in Seq(Word) /\ \A i \in 1..Len(reply) : reply[i] < 32768
  BY TelemetryAssumption DEF SmallReplies
<1>6. \A reg \in DOMAIN r.regs : r.regs[reg] < 32768
  <2>1. \A reg \in DOMAIN r.regs : reg \in Reg /\ reg < Len(reply) /\ r.regs[reg] = reply[reg + 1]
    BY <1>2 DEF Built, Selected
  <2>2. \A reg \in Reg : reg < Len(reply) => reg + 1 \in 1..Len(reply)
    BY <1>5 DEF Reg
  <2> QED
    BY <1>5, <2>1, <2>2
<1>7. PICK n, s : n = Len(captured) /\ s = captured'
  OBVIOUS
<1>8. Len(s) = n + 1 /\ n \in Nat /\ s[n + 1] = r /\ \A i \in 1..n : s[i] = captured[i]
  BY <1>1, <1>2, <1>4, <1>7, AppendProperties DEF CapturedOk
<1>9. ASSUME NEW i \in 1..n + 1, NEW reg \in DOMAIN s[i].regs PROVE s[i].regs[reg] < 32768
  <2>1. CASE i = n + 1
    BY <1>6, <1>8, <1>9, <2>1
  <2>2. CASE i \in 1..n
    BY <1>7, <1>8, <1>9, <2>2 DEF Small
  <2> QED
    BY <1>8, <2>1, <2>2
<1> QED
  BY <1>7, <1>8, <1>9 DEF Small

\* What the ring holds was captured.
LEMMA RingAmong ==
  ASSUME CapturedOk, RingOk
  PROVE  Among(Contents(ring), captured)
<1>1. PICK b, n, l : b = Contents(ring) /\ n = ring.size /\ l = Len(captured)
  OBVIOUS
<1>2. n \in Nat /\ Len(b) = n /\ l \in Nat /\ n <= l
  BY <1>1, RingLen, CapAssumption DEF RingOk, CapturedOk
<1>3. \A i \in 1..n : b[i] = captured[l - n + i]
  BY <1>1 DEF RingOk
<1>4. \A i \in 1..n : l - n + i \in 1..l
  BY <1>2
<1> QED
  BY <1>1, <1>2, <1>3, <1>4 DEF Among

\* Sequences whose elements are elements of others.
Within(s, t) == \A i \in 1..Len(s) : \E j \in 1..Len(t) : s[i] = t[j]

\* A queue whose messages were in another has no other batches.
LEMMA BatchesWithin ==
  ASSUME NEW q, NEW u, NEW all, Within(u, q), BatchesAmong(q, all)
  PROVE  BatchesAmong(u, all)
<1> SUFFICES ASSUME NEW i \in 1..Len(u) PROVE Among(u[i].batch, all)
  BY DEF BatchesAmong
<1>1. PICK j \in 1..Len(q) : u[i] = q[j]
  BY DEF Within
<1> QED
  BY <1>1 DEF BatchesAmong

\* A queue without its first message has no others.
LEMMA TailWithin ==
  ASSUME NEW S, NEW q \in Seq(S), q # <<>>
  PROVE  Within(Tail(q), q) /\ Head(q) = q[1] /\ 1 \in 1..Len(q)
<1>1. PICK n, u : n = Len(q) /\ u = Tail(q)
  OBVIOUS
<1>2. n \in Nat /\ n > 0 /\ Len(u) = n - 1 /\ \A i \in 1..n - 1 : u[i] = q[i + 1]
  BY <1>1, HeadTailProperties
<1>3. \A i \in 1..n - 1 : i + 1 \in 1..n
  BY <1>2
<1>4. Within(u, q)
  BY <1>1, <1>2, <1>3 DEF Within
<1> QED
  BY <1>1, <1>2, <1>4

\* A queue that lost a message has no others.
LEMMA RemoveWithin ==
  ASSUME NEW q \in Seq(Message), NEW i \in 1..Len(q)
  PROVE  Within(RemoveAt(q, i), q)
<1>1. PICK n, a, b, u : /\ n = Len(q) /\ a = SubSeq(q, 1, i - 1) /\ b = SubSeq(q, i + 1, n)
                        /\ u = RemoveAt(q, i)
  OBVIOUS
<1>2. n \in Nat /\ i \in Nat /\ i >= 1 /\ i <= n /\ \A j \in 1..n : q[j] \in Message
  BY <1>1
<1>3. /\ a \in Seq(Message) /\ Len(a) = i - 1 /\ \A j \in 1..i - 1 : a[j] = q[j]
      /\ b \in Seq(Message) /\ Len(b) = n - i /\ \A j \in 1..n - i : b[j] = q[i + j]
  BY <1>1, <1>2, SubSeqProperties
<1>4. u = a \o b
  BY <1>1 DEF RemoveAt
<1>5. Len(u) = n - 1
  <2>1. Len(u) = Len(a) + Len(b)
    BY <1>3, <1>4, ConcatProperties
  <2> QED
    BY <1>1, <1>2, <1>3, <2>1
<1>6. ASSUME NEW j \in 1..n - 1 PROVE \E k \in 1..n : u[j] = q[k]
  <2>1. CASE j <= i - 1
    <3>1. j \in 1..i - 1 /\ j \in 1..n
      BY <1>2, <2>1
    <3>2. u[j] = a[j]
      BY <1>3, <1>4, <3>1
    <3> QED
      BY <1>3, <3>1, <3>2
  <2>2. CASE ~(j <= i - 1)
    <3>1. PICK k \in 1..n - i : j = (i - 1) + k
      <4>1. j - (i - 1) \in 1..n - i /\ j = (i - 1) + (j - (i - 1))
        BY <1>2, <2>2
      <4> QED
        BY <4>1
    <3>2. u[j] = b[k] /\ i + k \in 1..n
      BY <1>2, <1>3, <1>4, <3>1
    <3> QED
      BY <1>3, <3>1, <3>2
  <2> QED
    BY <2>1, <2>2
<1> QED
  BY <1>1, <1>5, <1>6 DEF Within

\* A queue takes a batch that was captured.
LEMMA BatchesAppend ==
  ASSUME NEW q \in Seq(Message), NEW m \in Message, NEW all, BatchesAmong(q, all),
         Among(m.batch, all)
  PROVE  BatchesAmong(Append(q, m), all)
<1>1. PICK n, u : n = Len(q) /\ u = Append(q, m)
  OBVIOUS
<1>2. Len(u) = n + 1 /\ n \in Nat /\ u[n + 1] = m /\ \A i \in 1..n : u[i] = q[i]
  BY <1>1, AppendProperties
<1>3. ASSUME NEW i \in 1..n + 1 PROVE Among(u[i].batch, all)
  <2>1. CASE i \in 1..n
    BY <1>1, <1>2, <2>1 DEF BatchesAmong
  <2>2. CASE i = n + 1
    BY <1>2, <2>2
  <2> QED
    BY <1>2, <2>1, <2>2
<1> QED
  BY <1>1, <1>2, <1>3 DEF BatchesAmong

\* Joined records show what was captured if both do.
LEMMA AllShowConcat ==
  ASSUME NEW s \in Seq(Shown), NEW t \in Seq(Shown), NEW all, AllShow(s, all), AllShow(t, all)
  PROVE  AllShow(s \o t, all)
<1>1. PICK n, k, u : n = Len(s) /\ k = Len(t) /\ u = s \o t
  OBVIOUS
<1>2. /\ n \in Nat /\ k \in Nat /\ Len(u) = n + k /\ \A i \in 1..n : u[i] = s[i]
      /\ \A i \in n + 1..n + k : u[i] = t[i - n]
  BY <1>1, ConcatProperties
<1>3. ASSUME NEW i \in 1..n + k PROVE \E j \in 1..Len(all) : Shows(u[i], all[j])
  <2>1. CASE i \in 1..n
    BY <1>1, <1>2, <2>1 DEF AllShow
  <2>2. CASE i \in n + 1..n + k
    <3>1. i - n \in 1..k
      BY <1>2, <2>2
    <3> QED
      BY <1>1, <1>2, <2>2, <3>1 DEF AllShow
  <2> QED
    BY <1>2, <2>1, <2>2
<1> QED
  BY <1>1, <1>2, <1>3 DEF AllShow

\* The last of the records show what was captured if all do.
LEMMA AllShowEnd ==
  ASSUME NEW p \in Seq(Shown), NEW t \in Seq(Shown), NEW all, NEW u, u = p \o t, AllShow(u, all)
  PROVE  AllShow(t, all)
<1>1. PICK n, k : n = Len(p) /\ k = Len(t)
  OBVIOUS
<1>2. /\ n \in Nat /\ k \in Nat /\ Len(u) = n + k
      /\ \A i \in n + 1..n + k : u[i] = t[i - n]
  BY <1>1, ConcatProperties
<1>3. ASSUME NEW i \in 1..k PROVE \E j \in 1..Len(all) : Shows(t[i], all[j])
  <2>1. n + i \in n + 1..n + k /\ (n + i) - n = i /\ n + i \in 1..Len(u)
    BY <1>2
  <2>2. u[n + i] = t[i]
    BY <1>2, <2>1
  <2> QED
    BY <2>1, <2>2 DEF AllShow
<1> QED
  BY <1>1, <1>3 DEF AllShow

\* Where there is nothing, all of it was captured.
LEMMA NoneAmong == \A all : Among(<<>>, all) /\ BatchesAmong(<<>>, all) /\ AllShow(<<>>, all)
  BY DEF Among, BatchesAmong, AllShow

\* The queues of a device that puts, takes or loses a message hold what was captured.
LEMMA BatchesStep ==
  ASSUME CapturedOk, RingOk, QueueOk(txq), QueueOk(air), mask \in Word, TimeFits, RingFits,
         BatchesAmong(txq, captured), BatchesAmong(air, captured), Next, captured' = captured
  PROVE  BatchesAmong(txq', captured) /\ BatchesAmong(air', captured)
<1>1. txq \in Seq(Message) /\ air \in Seq(Message)
  BY DEF QueueOk
<1>2. CASE Upload
  <2>1. ring.size > 0 /\ air' = air
    BY <1>2 DEF Upload, UploadDue
  <2>2. PICK m : m = [bytes |-> CompressDelta(Contents(ring), mask), batch |-> Contents(ring)]
    OBVIOUS
  <2>3. txq' = Append(txq, m) \/ txq' = txq
    BY <1>2, <2>2, Zenon DEF Upload
  <2>4. m \in Message /\ m.batch = Contents(ring)
    BY <2>1, <2>2, BatchSent
  <2>5. Among(m.batch, captured)
    BY <2>4, RingAmong
  <2> QED
    BY <1>1, <2>1, <2>3, <2>4, <2>5, BatchesAppend
<1>3. CASE AckWrite
  <2>1. WriteAck \in Message /\ Among(WriteAck.batch, captured)
    BY AckSent, NoneAmong DEF WriteAck
  <2> QED
    BY <1>1, <1>3, <2>1, BatchesAppend DEF AckWrite
<1>4. CASE txq # <<>> /\ txq' = Tail(txq) /\ (air' = air \/ air' = Append(air, Head(txq)))
  <2>1. PICK m : m = Head(txq)
    OBVIOUS
  <2>2. Within(txq', txq) /\ m = txq[1] /\ 1 \in 1..Len(txq) /\ m \in Message
    BY <1>1, <1>4, <2>1, TailWithin
  <2>3. BatchesAmong(txq', captured)
    BY <2>2, BatchesWithin
  <2>4. Among(m.batch, captured)
    BY <2>2 DEF BatchesAmong
  <2> QED
    BY <1>1, <1>4, <2>1, <2>2, <2>3, <2>4, BatchesAppend
<1>5. CASE Restart
  BY <1>5, NoneAmong DEF Restart
<1>6. CASE Lose
  <2>1. PICK i \in 1..Len(air) : air' = RemoveAt(air, i) /\ txq' = txq
    BY <1>6 DEF Lose
  <2>2. Within(air', air)
    BY <1>1, <2>1, RemoveWithin
  <2> QED
    BY <2>1, <2>2, BatchesWithin
<1>7. CASE Receive
  <2>1. air # <<>> /\ air' = Tail(air) /\ txq' = txq
    BY <1>7 DEF Receive
  <2>2. Within(air', air)
    BY <1>1, <2>1, TailWithin
  <2> QED
    BY <2>1, <2>2, BatchesWithin
<1>8. CASE txq' = txq /\ air' = air
  BY <1>8
<1>9. CASE Publish \/ PublishFails
  <2>1. txq # <<>> /\ txq' = Tail(txq) /\ (air' = air \/ air' = Append(air, Head(txq)))
    BY <1>9 DEF Publish, PublishFails
  <2> QED
    BY <1>4, <2>1
<1>10. CASE Poll \/ UploadFails \/ ApplyConfig
  BY <1>8, <1>10 DEF Poll, UploadFails, ApplyConfig
<1> QED
  BY <1>2, <1>3, <1>5, <1>6, <1>7, <1>9, <1>10 DEF Next, MainTask, CloudTask, Environment

\* What a message adds to the records of the server shows records that were captured.
LEMMA ReceiveShows ==
  ASSUME CapturedOk, QueueOk(air), RecordsOk, ValuesInv, Receive
  PROVE  AllShow(records', captured)
<1>1. PICK m, kept : Received(m, kept)
  BY ReceiveFacts
<1>2. Kept(m, kept)
  BY <1>1, KeptFacts
<1>3. records' = kept /\ air # <<>> /\ m = Head(air) /\ m \in Message
  BY <1>1, Zenon DEF Received
<1>4. AllShow(records, captured) /\ Small(captured) /\ BatchesAmong(air, captured)
  BY DEF ValuesInv
<1>5. Among(m.batch, captured)
  <2>1. m = air[1] /\ 1 \in 1..Len(air)
    BY <1>3, TailWithin DEF QueueOk
  <2> QED
    BY <1>4, <2>1 DEF BatchesAmong
<1>6. CASE kept = records
  BY <1>3, <1>4, <1>6
<1>7. CASE /\ StandFor(Decoded(m), m.batch) /\ kept \in Seq(Shown)
           /\ \E p \in Seq(Shown) : records \o Decoded(m) = p \o kept
  <2>1. PICK recs, q : recs = Decoded(m) /\ q = m.batch
    OBVIOUS
  <2>2. PICK p \in Seq(Shown) : records \o recs = p \o kept
    BY <1>7, <2>1, Zenon
  <2>3. Among(q, captured) /\ Small(q)
    BY <1>4, <1>5, <2>1, AmongSmall
  <2>4. recs \in Seq(Shown) /\ StandFor(recs, q)
    BY <1>7, <2>1 DEF StandFor
  <2>5. AllShow(recs, captured)
    <3> SUFFICES ASSUME NEW i \in 1..Len(recs)
                 PROVE  \E j \in 1..Len(captured) : Shows(recs[i], captured[j])
      BY DEF AllShow
    <3>1. /\ i \in 1..Len(q) /\ recs[i].ts = q[i].ts
          /\ \A reg \in DOMAIN recs[i].regs \cap DOMAIN q[i].regs :
               recs[i].regs[reg] = q[i].regs[reg]
      BY <2>3, <2>4 DEF StandFor
    <3>2. PICK j \in 1..Len(captured) : q[i] = captured[j]
      BY <2>3, <3>1 DEF Among
    <3> QED
      BY <3>1, <3>2 DEF Shows
  <2>6. AllShow(records \o recs, captured)
    BY <1>4, <2>4, <2>5, AllShowConcat DEF RecordsOk
  <2>7. AllShow(kept, captured)
    BY <1>7, <2>2, <2>6, AllShowEnd
  <2> QED
    BY <1>3, <2>7
<1> QED
  BY <1>2, <1>6, <1>7, Zenon DEF Kept

\* Every step keeps the invariant of the values.
LEMMA ValuesInvStep ==
  ASSUME PipelineInv, ValuesInv, TimeFits, RingFits, SmallReplies, [Next]_vars
  PROVE  ValuesInv'
<1>1. /\ CapturedOk /\ RingOk /\ mask \in Word /\ QueueOk(txq) /\ QueueOk(air) /\ RecordsOk
  BY DEF PipelineInv
<1>2. /\ Small(captured) /\ BatchesAmong(txq, captured) /\ BatchesAmong(air, captured)
      /\ AllShow(records, captured)
  BY DEF ValuesInv
<1>3. CASE Poll
  <2>1. PICK r : Polled(r)
    BY <1>1, <1>3, PollFacts
  <2>2. captured' = Append(captured, r) /\ r \in Record
    BY <2>1, Zenon DEF Polled
  <2>3. txq' = txq /\ air' = air /\ records' = records
    BY <1>3 DEF Poll
  <2>4. Small(captured')
    BY <1>1, <1>2, <1>3, PollSmall
  <2>5. /\ BatchesAmong(txq, captured') /\ BatchesAmong(air, captured')
        /\ AllShow(records, captured')
    BY <1>1, <1>2, <2>2, AmongMore
  <2> QED
    BY <2>3, <2>4, <2>5, Zenon DEF ValuesInv
<1>4. CASE captured' = captured /\ Next
  <2>1. BatchesAmong(txq', captured') /\ BatchesAmong(air', captured') /\ Small(captured')
    <3>1. BatchesAmong(txq', captured) /\ BatchesAmong(air', captured)
      BY <1>1, <1>2, <1>4, BatchesStep
    <3> QED
      BY <1>2, <1>4, <3>1
  <2>2. AllShow(records', captured')
    <3>1. CASE Receive
      <4>1. AllShow(records', captured)
        BY <1>1, <3>1, ReceiveShows
      <4> QED
        BY <1>4, <4>1
    <3>2. CASE records' = records
      BY <1>2, <1>4, <3>2
    <3>3. Receive \/ records' = records
      BY DEF Next, vars, MainTask, CloudTask, Environment, Poll, Upload, UploadFails, AckWrite,
         ApplyConfig, Publish, PublishFails, Restart, Lose
    <3> QED
      BY <3>1, <3>2, <3>3
  <2> QED
    BY <2>1, <2>2, Zenon DEF ValuesInv
<1>5. CASE UNCHANGED vars
  <2>1. captured' = captured /\ txq' = txq /\ air' = air /\ records' = records
    BY <1>5 DEF vars
  <2> QED
    BY <1>2, <2>1, Zenon DEF ValuesInv
<1> QED
  BY <1>3, <1>4, <1>5, OnlyPoll

\* When no register of the inverter has its highest bit set, the server shows for a register
\* what the inverter returned, whatever batch, mask and faults the value travelled through:
\* for every capacity and every number of polls.  HighValueIsLost is the other case.
THEOREM ValuesAsReadAlways ==
  ASSUME TimeFits, RingFits, SmallReplies
  PROVE  Spec => []ValuesAsRead
<1>1. Init => PipelineInv /\ ValuesInv
  <2> SUFFICES ASSUME Init PROVE PipelineInv /\ ValuesInv
    OBVIOUS
  <2>1. captured = <<>> /\ txq = <<>> /\ air = <<>> /\ records = <<>>
    BY DEF Init
  <2>2. Small(captured)
    BY <2>1 DEF Small
  <2> QED
    BY <2>1, <2>2, PipelineInvInit, NoneAmong DEF ValuesInv
<1>2. PipelineInv /\ ValuesInv /\ [Next]_vars => PipelineInv' /\ ValuesInv'
  BY PipelineInvStep, ValuesInvStep
<1>3. PipelineInv /\ ValuesInv => ValuesAsRead
  BY ValuesInvShows DEF PipelineInv
<1> QED
  BY <1>1, <1>2, <1>3, PTL DEF Spec

=============================================================================
