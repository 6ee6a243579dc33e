--------------------------- MODULE SecureLinkProofs ---------------------------
(***************************************************************************)
(* The numbers of the messages, for every number of threads and tasks and  *)
(* without the bounds of the run: the device handles no message twice, no  *)
(* message is refused and no number of the device is given twice, the last *)
(* two as long as no two threads, or tasks, seal at the same time.         *)
(***************************************************************************)
EXTENDS SecureLink, TLAPS

-----------------------------------------------------------------------------
(* The device gives each number once.  A restart counts the boot, so what was   *)
(* not saved of seq does not matter; within a boot every number given is at most *)
(* own.seq, and a task that has read it still finds it there.                    *)

DeviceType ==
  /\ own \in [boot : Nat, seq : Nat] /\ saved \in [boot : Nat, seq : Nat]
  /\ saved.boot = own.boot
  /\ tasks \in [Task -> [pc : {"idle", "write", "save"}, seq : Nat]]
  /\ used \subseteq Nat \X Nat /\ reused \in BOOLEAN
  /\ overlapped \in [threads : BOOLEAN, tasks : BOOLEAN]

UsedBelow == \A u \in used : u[1] < own.boot \/ (u[1] = own.boot /\ u[2] <= own.seq)

OneTask == \A j, k \in Task : j # k => tasks[j].pc = "idle" \/ tasks[k].pc = "idle"
ReadIsOwn == \A k \in Task : tasks[k].pc = "write" => tasks[k].seq = own.seq

DeviceInv == DeviceType /\ (~overlapped.tasks => UsedBelow /\ OneTask /\ ReadIsOwn /\ ~reused)

LEMMA DeviceStarts ==
  ASSUME Init
  PROVE  DeviceInv
<1>1. DeviceType
  BY DEF Init, DeviceType, TaskIdle
<1> QED
  BY <1>1 DEF Init, DeviceInv, UsedBelow, OneTask, ReadIsOwn, TaskIdle

LEMMA DeviceRead ==
  ASSUME DeviceInv, NEW k \in Task, SealRead(k)
  PROVE  DeviceInv'
<1>1. DeviceType'
  BY DEF DeviceInv, DeviceType, SealRead
<1>2. ASSUME ~overlapped'.tasks
      PROVE  ~overlapped.tasks /\ \A j \in Task : tasks[j].pc = "idle"
  BY <1>2 DEF DeviceInv, DeviceType, SealRead
<1>3. ASSUME ~overlapped'.tasks
      PROVE  (UsedBelow /\ OneTask /\ ReadIsOwn /\ ~reused)'
  <2>1. tasks' = [tasks EXCEPT ![k] = [pc |-> "write", seq |-> own.seq]] /\ UNCHANGED <<own, used, reused>>
    BY DEF SealRead
  <2>2. (UsedBelow /\ ~reused)'
    BY <1>2, <1>3, <2>1 DEF DeviceInv, UsedBelow
  <2>3. (OneTask /\ ReadIsOwn)'
    BY <1>2, <1>3, <2>1 DEF DeviceInv, DeviceType, OneTask, ReadIsOwn
  <2> QED
    BY <2>2, <2>3
<1> QED
  BY <1>1, <1>3 DEF DeviceInv

LEMMA DeviceWrite ==
  ASSUME DeviceInv, NEW k \in Task, SealWrite(k)
  PROVE  DeviceInv'
<1>1. /\ own' = [own EXCEPT !.seq = tasks[k].seq + 1] /\ tasks[k].pc = "write"
      /\ used' = used \cup {<<own.boot, tasks[k].seq + 1>>}
      /\ reused' = (reused \/ <<own.boot, tasks[k].seq + 1>> \in used)
      /\ tasks' = [tasks EXCEPT ![k].pc = "save"]
      /\ UNCHANGED <<saved, overlapped>>
  BY DEF SealWrite
<1>2. DeviceType'
  BY <1>1 DEF DeviceInv, DeviceType
<1>3. ASSUME ~overlapped'.tasks
      PROVE  (UsedBelow /\ OneTask /\ ReadIsOwn /\ ~reused)'
  <2>1. UsedBelow /\ OneTask /\ ReadIsOwn /\ ~reused
    BY <1>1, <1>3 DEF DeviceInv
  <2>2. tasks[k].seq = own.seq /\ own.seq \in Nat /\ own.boot \in Nat
    BY <1>1, <2>1 DEF ReadIsOwn, DeviceInv, DeviceType
  <2>3. own'.boot = own.boot /\ own'.seq = own.seq + 1
    BY <1>1, <2>2 DEF DeviceInv, DeviceType
  <2>4. <<own.boot, own.seq + 1>> \notin used
    BY <2>1, <2>2 DEF UsedBelow
  <2>5. UsedBelow'
    <3> SUFFICES ASSUME NEW u \in used'
                 PROVE  u[1] < own.boot \/ (u[1] = own.boot /\ u[2] <= own.seq + 1)
      BY <2>3 DEF UsedBelow
    <3>1. CASE u \in used
      BY <3>1, <2>1, <2>2 DEF UsedBelow, DeviceInv, DeviceType
    <3>2. CASE u = <<own.boot, own.seq + 1>>
      BY <3>2, <2>2
    <3> QED
      BY <1>1, <2>2, <3>1, <3>2
  <2>6. (OneTask /\ ReadIsOwn)'
    BY <1>1, <2>1 DEF OneTask, ReadIsOwn, DeviceInv, DeviceType
  <2> QED
    BY <1>1, <2>1, <2>2, <2>4, <2>5, <2>6
<1> QED
  BY <1>2, <1>3 DEF DeviceInv

LEMMA DeviceSave ==
  ASSUME DeviceInv, NEW k \in Task, SealSave(k)
  PROVE  DeviceInv'
<1>1. /\ tasks' = [tasks EXCEPT ![k] = TaskIdle] /\ UNCHANGED <<own, used, reused, overlapped>>
      /\ saved' \in {saved, [saved EXCEPT !.seq = own.seq]}
  BY DEF SealSave
<1>2. DeviceType'
  BY <1>1 DEF DeviceInv, DeviceType, TaskIdle
<1> QED
  BY <1>1, <1>2 DEF DeviceInv, DeviceType, UsedBelow, OneTask, ReadIsOwn, TaskIdle

LEMMA DeviceRestarts ==
  ASSUME DeviceInv, RestartDevice
  PROVE  DeviceInv'
<1>1. /\ own' = [boot |-> saved.boot + 1, seq |-> saved.seq] /\ saved' = [saved EXCEPT !.boot = @ + 1]
      /\ tasks' = [k \in Task |-> TaskIdle] /\ UNCHANGED <<used, reused, overlapped>>
  BY DEF RestartDevice
<1>2. DeviceType'
  BY <1>1 DEF DeviceInv, DeviceType, TaskIdle
<1>3. UsedBelow => UsedBelow'
  BY <1>1 DEF DeviceInv, DeviceType, UsedBelow
<1> QED
  BY <1>1, <1>2, <1>3 DEF DeviceInv, OneTask, ReadIsOwn, TaskIdle

\* What the server and the broker do is nothing to the device's numbers.
LEMMA DeviceKept ==
  ASSUME DeviceInv, UNCHANGED sealVars,
         overlapped' \in [threads : BOOLEAN, tasks : BOOLEAN], overlapped'.tasks = overlapped.tasks
  PROVE  DeviceInv'
  BY DEF sealVars, DeviceInv, DeviceType, UsedBelow, OneTask, ReadIsOwn

LEMMA DeviceSteps ==
  ASSUME DeviceInv, [Next]_vars
  PROVE  DeviceInv'
<1>1. overlapped \in [threads : BOOLEAN, tasks : BOOLEAN]
  BY DEF DeviceInv, DeviceType
<1>2. CASE \E t \in Thread : GetEntry(t)
  BY <1>1, <1>2, DeviceKept DEF GetEntry
<1>3. CASE \/ \E t \in Thread : ReadSeq(t) \/ WriteSeq(t) \/ StoreEntry(t) \/ Pack(t) \/ Publish(t)
           \/ Tick \/ RestartServer
  BY <1>1, <1>3, DeviceKept DEF ReadSeq, WriteSeq, StoreEntry, Pack, Publish, Tick, RestartServer
<1>4. CASE Copy \/ Lose \/ Open \/ UNCHANGED vars
  BY <1>1, <1>4, DeviceKept DEF Copy, Lose, Open, vars
<1> QED
  BY <1>2, <1>3, <1>4, DeviceRead, DeviceWrite, DeviceSave, DeviceRestarts DEF Next, Seal

\* No number of the device is given twice unless its tasks sealed at the same time
\* (_seq is read and written without a lock).
THEOREM NumbersDifferAlways == Spec => []NumbersDiffer
<1>1. DeviceInv => NumbersDiffer
  BY DEF DeviceInv, NumbersDiffer
<1> QED
  BY <1>1, DeviceStarts, DeviceSteps, PTL DEF Spec

-----------------------------------------------------------------------------
(* The order of numbers.                                                       *)

LEMMA NewerFacts ==
  ASSUME NEW a \in Nat \X Nat, NEW b \in Nat \X Nat, NEW c \in Nat \X Nat
  PROVE  /\ NewerOrSame(a, a) /\ ~Newer(a, a)
         /\ Newer(a, b) => NewerOrSame(a, b)
         /\ Newer(a, b) /\ NewerOrSame(b, c) => Newer(a, c)
         /\ NewerOrSame(a, b) /\ Newer(b, c) => Newer(a, c)
         /\ NewerOrSame(a, b) /\ NewerOrSame(b, c) => NewerOrSame(a, c)
  BY DEF Newer, NewerOrSame

LEMMA AppendFacts ==
  ASSUME NEW S, NEW s \in Seq(S), NEW e \in S
  PROVE  /\ Append(s, e) \in Seq(S) /\ Len(s) \in Nat /\ Len(Append(s, e)) = Len(s) + 1
         /\ Append(s, e)[Len(s) + 1] = e
         /\ \A i \in 1..Len(s) : Append(s, e)[i] = s[i]
  OBVIOUS

LEMMA SeqOf ==
  ASSUME NEW S, NEW T, NEW s \in Seq(S), \A i \in 1..Len(s) : s[i] \in T
  PROVE  s \in Seq(T)
  OBVIOUS

LEMMA TailFacts ==
  ASSUME NEW S, NEW s \in Seq(S), s # <<>>
  PROVE  /\ Tail(s) \in Seq(S) /\ Len(s) \in Nat \ {0} /\ Len(Tail(s)) = Len(s) - 1
         /\ Head(s) = s[1] /\ Head(s) \in S
         /\ \A i \in 1..Len(Tail(s)) : Tail(s)[i] = s[i + 1]
  OBVIOUS

-----------------------------------------------------------------------------
(* The link, whatever the threads do: types, and each message on its way or      *)
(* handled is one that was published.                                           *)

Place == {"idle", "read", "write", "store", "pack", "publish"}
Entry == [boot : Nat, seq : Nat]
Sent == [id : Nat, boot : Nat, seq : Nat, first : BOOLEAN]

LEMMA NumberType == \A m \in Sent : Number(m) \in Nat \X Nat
  BY DEF Number, Sent

LinkType ==
  /\ clock \in Nat \ {0}
  /\ entries \in Seq(Entry) /\ current \in 0..Len(entries)
  /\ threads \in [Thread -> [pc : Place, entry : 0..Len(entries), seq : Nat, boot : Nat]]
  /\ published \in Seq(Sent) /\ wire \in Seq(Sent) /\ handled \in Seq(Sent)
  /\ last \in Nat \X Nat
  /\ refused \in BOOLEAN /\ overlapped \in [threads : BOOLEAN, tasks : BOOLEAN]

\* A thread in seal_downlink has its entry.
HasEntry == \A t \in Thread : threads[t].pc \in {"read", "write", "store", "pack"} => threads[t].entry # 0

\* m is a copy of a message of h.
CopyFrom(m, h) == m.id \in 1..Len(h) /\ Number(m) = Number(h[m.id])

Copies ==
  /\ \A p \in 1..Len(published) : published[p].id = p
  /\ \A i \in 1..Len(wire) : CopyFrom(wire[i], published)
  /\ \A i \in 1..Len(handled) : CopyFrom(handled[i], published)
  /\ last = <<0, 0>> \/ \E p \in 1..Len(published) : last = Number(published[p])

\* No boot is from the future, or 0.
Boots ==
  /\ \A e \in 1..Len(entries) : entries[e].boot \in 1..clock
  /\ \A t \in Thread : threads[t].pc = "publish" => threads[t].boot \in 1..clock
  /\ \A p \in 1..Len(published) : published[p].boot \in 1..clock

\* What was handled is in the order of its numbers, and last is not behind it.
Window ==
  /\ \A i \in 1..Len(handled) : NewerOrSame(last, Number(handled[i]))
  /\ \A i, j \in 1..Len(handled) : i < j => Newer(Number(handled[j]), Number(handled[i]))

LinkInv == LinkType /\ HasEntry /\ Copies /\ Boots /\ Window

LEMMA LinkStarts ==
  ASSUME Init
  PROVE  LinkInv
<1>1. LinkType
  <2>1. Len(entries) = 0 /\ entries \in Seq(Entry) /\ \A S : <<>> \in Seq(S)
    BY DEF Init
  <2>2. threads \in [Thread -> [pc : Place, entry : 0..0, seq : Nat, boot : Nat]]
    BY DEF Init, ThreadIdle, Place
  <2>3. published \in Seq(Sent) /\ wire \in Seq(Sent) /\ handled \in Seq(Sent)
    BY <2>1 DEF Init
  <2>4. clock \in Nat \ {0} /\ current \in 0..Len(entries) /\ last \in Nat \X Nat
    BY <2>1 DEF Init
  <2>5. refused \in BOOLEAN /\ overlapped \in [threads : BOOLEAN, tasks : BOOLEAN]
    BY DEF Init
  <2> QED
    BY <2>1, <2>2, <2>3, <2>4, <2>5 DEF LinkType
<1>2. HasEntry /\ Copies /\ Window
  BY DEF Init, HasEntry, Copies, Window, ThreadIdle
<1>3. Boots
  BY DEF Init, Boots, ThreadIdle
<1> QED
  BY <1>1, <1>2, <1>3 DEF LinkInv

\* Neither messages nor the device's window are touched.
LEMMA LinkKept ==
  ASSUME LinkInv, LinkType', HasEntry', Boots', UNCHANGED <<published, wire, last, handled>>
  PROVE  LinkInv'
  BY DEF LinkInv, Copies, Window, CopyFrom, Number

LEMMA LinkGetEntry ==
  ASSUME LinkInv, NEW t \in Thread, GetEntry(t)
  PROVE  LinkInv'
<1> DEFINE n == IF current = 0 THEN Len(entries) + 1 ELSE current
<1>1. /\ entries' = IF current = 0 THEN Append(entries, [boot |-> clock, seq |-> 0]) ELSE entries
      /\ threads' = [threads EXCEPT ![t] = [pc |-> "read", seq |-> 0, boot |-> 0, entry |-> n]]
      /\ overlapped' \in [threads : BOOLEAN, tasks : BOOLEAN]
      /\ UNCHANGED <<clock, current, published, wire, last, handled, refused>>
  BY DEF GetEntry, openVars, LinkInv, LinkType
<1>2. /\ Len(entries') \in Nat /\ Len(entries) <= Len(entries') /\ n \in 1..Len(entries')
      /\ entries' \in Seq(Entry)
      /\ \A e \in 1..Len(entries') : entries'[e].boot \in 1..clock
  <2>1. CASE current = 0
    <3>1. [boot |-> clock, seq |-> 0] \in Entry /\ entries \in Seq(Entry)
      BY DEF LinkInv, LinkType, Entry
    <3>2. entries' = Append(entries, [boot |-> clock, seq |-> 0])
      BY <1>1, <2>1
    <3>3. clock \in 1..clock
      BY DEF LinkInv, LinkType
    <3> QED
      BY <2>1, <3>1, <3>2, <3>3, AppendFacts DEF LinkInv, Boots
  <2>2. CASE current # 0
    BY <1>1, <2>2 DEF LinkInv, LinkType, Boots
  <2> QED
    BY <2>1, <2>2
<1> HIDE DEF n
<1>3. LinkType'
  <2>1. threads' \in [Thread -> [pc : Place, entry : 0..Len(entries'), seq : Nat, boot : Nat]]
    BY <1>1, <1>2 DEF LinkInv, LinkType, Place
  <2> QED
    BY <1>1, <1>2, <2>1 DEF LinkInv, LinkType
<1>4. threads'[t].pc = "read" /\ threads'[t].entry = n /\ \A u \in Thread \ {t} : threads'[u] = threads[u]
  BY <1>1 DEF LinkInv, LinkType
<1>5. HasEntry'
  BY <1>2, <1>4 DEF LinkInv, HasEntry
<1>6. Boots'
  BY <1>1, <1>2, <1>4 DEF LinkInv, Boots
<1> QED
  BY <1>1, <1>3, <1>5, <1>6, LinkKept

LEMMA LinkThread ==
  ASSUME LinkInv, NEW t \in Thread, ReadSeq(t) \/ WriteSeq(t) \/ StoreEntry(t) \/ Pack(t)
  PROVE  LinkInv'
<1>1. /\ UNCHANGED <<clock, published, wire, last, handled, refused, overlapped>>
      /\ threads[t].entry \in 1..Len(entries) /\ threads[t] \in [pc : Place, entry : 0..Len(entries), seq : Nat, boot : Nat]
      /\ entries[threads[t].entry] \in [boot : Nat, seq : Nat] /\ entries[threads[t].entry].boot \in 1..clock
  <2>1. threads[t].pc \in {"read", "write", "store", "pack"} /\ UNCHANGED <<clock, published, wire, last, handled, refused, overlapped>>
    BY DEF ReadSeq, WriteSeq, StoreEntry, Pack, openVars
  <2>2. threads[t] \in [pc : Place, entry : 0..Len(entries), seq : Nat, boot : Nat] /\ Len(entries) \in Nat
    BY DEF LinkInv, LinkType
  <2>3. threads[t].entry \in 1..Len(entries)
    BY <2>1, <2>2 DEF LinkInv, HasEntry
  <2>4. entries[threads[t].entry] \in Entry /\ entries[threads[t].entry].boot \in 1..clock
    BY <2>3 DEF LinkInv, LinkType, Boots
  <2> QED
    BY <2>1, <2>2, <2>3, <2>4 DEF Entry
<1>2. CASE ReadSeq(t)
  <2>1. UNCHANGED <<entries, current>> /\ threads' = [threads EXCEPT ![t].pc = "write", ![t].seq = entries[threads[t].entry].seq]
        /\ threads[t].pc = "read"
    BY <1>2 DEF ReadSeq
  <2>2. LinkType' /\ HasEntry' /\ Boots'
    BY <1>1, <2>1 DEF LinkInv, LinkType, HasEntry, Boots, Place
  <2> QED
    BY <1>1, <2>2, LinkKept
<1>3. CASE WriteSeq(t)
  <2>1. UNCHANGED current /\ threads' = [threads EXCEPT ![t].pc = "store"] /\ threads[t].pc = "write"
        /\ entries' = [entries EXCEPT ![threads[t].entry].seq = threads[t].seq + 1]
    BY <1>3 DEF WriteSeq
  <2>2. /\ entries' \in Seq(Entry) /\ Len(entries') = Len(entries)
        /\ \A e \in 1..Len(entries') : entries'[e].boot = entries[e].boot
    <3>1. entries \in Seq(Entry) /\ threads[t].seq + 1 \in Nat
      BY <1>1 DEF LinkInv, LinkType
    <3>2. [entries[threads[t].entry] EXCEPT !.seq = threads[t].seq + 1] \in Entry
      BY <1>1, <3>1 DEF Entry
    <3>3. entries' = [entries EXCEPT ![threads[t].entry] = [entries[threads[t].entry] EXCEPT !.seq = threads[t].seq + 1]]
      BY <2>1
    <3>4. entries' \in Seq(Entry) /\ Len(entries') = Len(entries)
      BY <1>1, <3>1, <3>2, <3>3
    <3>5. \A e \in 1..Len(entries) : entries'[e].boot = entries[e].boot
      BY <1>1, <3>1, <3>3 DEF Entry
    <3> QED
      BY <3>4, <3>5
  <2>3. LinkType' /\ HasEntry' /\ Boots'
    BY <1>1, <2>1, <2>2 DEF LinkInv, LinkType, HasEntry, Boots, Place
  <2> QED
    BY <1>1, <2>3, LinkKept
<1>4. CASE StoreEntry(t)
  <2>1. UNCHANGED entries /\ threads' = [threads EXCEPT ![t].pc = "pack"] /\ threads[t].pc = "store"
        /\ current' = threads[t].entry
    BY <1>4 DEF StoreEntry
  <2>2. LinkType' /\ HasEntry' /\ Boots'
    BY <1>1, <2>1 DEF LinkInv, LinkType, HasEntry, Boots, Place
  <2> QED
    BY <1>1, <2>2, LinkKept
<1>5. CASE Pack(t)
  <2>1. UNCHANGED <<entries, current>>
        /\ threads' = [threads EXCEPT ![t].pc = "publish", ![t].boot = entries[threads[t].entry].boot,
                         ![t].seq = entries[threads[t].entry].seq]
    BY <1>5 DEF Pack
  <2>2. LinkType' /\ HasEntry' /\ Boots'
    BY <1>1, <2>1 DEF LinkInv, LinkType, HasEntry, Boots, Place
  <2> QED
    BY <1>1, <2>2, LinkKept
<1> QED
  BY <1>2, <1>3, <1>4, <1>5

LEMMA LinkClock ==
  ASSUME LinkInv, Tick \/ RestartServer
  PROVE  LinkInv'
<1>1. /\ clock' = clock + 1 /\ UNCHANGED <<entries, published, wire, last, handled, refused, overlapped>>
      /\ \/ UNCHANGED <<threads, current>>
         \/ current' = 0 /\ threads' = [t \in Thread |-> ThreadIdle]
  BY DEF Tick, RestartServer, openVars
<1>2. LinkType' /\ HasEntry'
  BY <1>1 DEF LinkInv, LinkType, HasEntry, ThreadIdle, Place
<1>3. Boots'
  <2>1. \A b : b \in 1..clock => b \in 1..clock'
    BY <1>1 DEF LinkInv, LinkType
  <2>2. \A u \in Thread : threads'[u].pc = "publish" => threads'[u] = threads[u]
    BY <1>1 DEF ThreadIdle
  <2> QED
    BY <1>1, <2>1, <2>2 DEF LinkInv, Boots
<1> QED
  BY <1>1, <1>2, <1>3, LinkKept

\* What is on its way, handled or accepted last stays published when one more is.
LEMMA LinkPublish ==
  ASSUME LinkInv, NEW t \in Thread, Publish(t)
  PROVE  LinkInv'
<1>1. /\ published' = Append(published, Message(t)) /\ wire' = Append(wire, Message(t))
      /\ threads' = [threads EXCEPT ![t] = ThreadIdle] /\ threads[t].pc = "publish"
      /\ UNCHANGED <<clock, entries, current, last, handled, refused, overlapped>>
  BY DEF Publish, openVars
<1>2. /\ Message(t) \in Sent /\ Message(t).id = Len(published) + 1 /\ Message(t).boot = threads[t].boot
      /\ Message(t).boot \in 1..clock
  BY <1>1 DEF LinkInv, LinkType, Boots, Message, Sent
<1>3. /\ published' \in Seq(Sent) /\ Len(published') = Len(published) + 1 /\ Len(published) \in Nat
      /\ published'[Len(published) + 1] = Message(t)
      /\ \A p \in 1..Len(published) : published'[p] = published[p]
      /\ wire' \in Seq(Sent) /\ Len(wire') = Len(wire) + 1 /\ wire'[Len(wire) + 1] = Message(t)
      /\ Len(wire) \in Nat /\ \A i \in 1..Len(wire) : wire'[i] = wire[i]
  BY <1>1, <1>2 DEF LinkInv, LinkType
<1>4. LinkType' /\ HasEntry'
  BY <1>1, <1>3 DEF LinkInv, LinkType, HasEntry, ThreadIdle, Place
<1>5. Boots'
  <2>1. \A u \in Thread : threads'[u].pc = "publish" => threads'[u] = threads[u]
    BY <1>1 DEF LinkInv, LinkType, ThreadIdle
  <2>2. \A p \in 1..Len(published') : published'[p].boot \in 1..clock
    BY <1>2, <1>3 DEF LinkInv, Boots
  <2> QED
    BY <1>1, <2>1, <2>2 DEF LinkInv, Boots
<1>6. Copies'
  <2>1. \A m : CopyFrom(m, published) => CopyFrom(m, published')
    BY <1>3 DEF CopyFrom, Number
  <2>2. CopyFrom(Message(t), published')
    BY <1>2, <1>3 DEF CopyFrom
  <2>3. \A i \in 1..Len(wire') : CopyFrom(wire'[i], published')
    BY <1>3, <2>1, <2>2 DEF LinkInv, Copies
  <2>4. \A i \in 1..Len(handled') : CopyFrom(handled'[i], published')
    BY <1>1, <2>1 DEF LinkInv, Copies
  <2>5. last' = <<0, 0>> \/ \E p \in 1..Len(published') : last' = Number(published'[p])
    BY <1>1, <1>3 DEF LinkInv, Copies
  <2>6. \A p \in 1..Len(published') : published'[p].id = p
    BY <1>2, <1>3 DEF LinkInv, Copies
  <2> QED
    BY <2>3, <2>4, <2>5, <2>6 DEF Copies
<1>7. Window'
  BY <1>1 DEF LinkInv, Window
<1> QED
  BY <1>4, <1>5, <1>6, <1>7 DEF LinkInv

LEMMA LinkBroker ==
  ASSUME LinkInv, Copy \/ Lose
  PROVE  LinkInv'
<1>1. UNCHANGED <<clock, entries, current, threads, published, last, handled, refused, overlapped>>
  BY DEF Copy, Lose, serverVars, openVars
<1>2. wire' \in Seq(Sent) /\ \A i \in 1..Len(wire') : CopyFrom(wire'[i], published)
  <2>1. CASE Lose
    <3>1. wire' = Tail(wire) /\ wire # <<>> /\ wire \in Seq(Sent)
      BY <2>1 DEF Lose, LinkInv, LinkType
    <3>2. \A i \in 1..Len(wire') : i + 1 \in 1..Len(wire) /\ wire'[i] = wire[i + 1]
      BY <3>1, TailFacts
    <3> QED
      BY <3>1, <3>2, TailFacts DEF LinkInv, Copies
  <2>2. CASE Copy
    <3>1. PICK p \in 1..Len(published) : wire' = Append(wire, [published[p] EXCEPT !.first = FALSE])
      BY <2>2 DEF Copy
    <3> DEFINE m == [published[p] EXCEPT !.first = FALSE]
    <3>0. published[p] \in Sent
      BY DEF LinkInv, LinkType
    <3>2. m \in Sent /\ m.id = published[p].id /\ Number(m) = Number(published[p])
      BY <3>0 DEF Sent, Number
    <3>3. CopyFrom(m, published)
      BY <3>2 DEF CopyFrom, LinkInv, Copies
    <3> HIDE DEF m
    <3>4. wire' = Append(wire, m)
      BY <3>1 DEF m
    <3> QED
      BY <3>2, <3>3, <3>4, AppendFacts DEF LinkInv, LinkType, Copies
  <2> QED
    BY <2>1, <2>2
<1> QED
  BY <1>1, <1>2 DEF LinkInv, LinkType, HasEntry, Copies, Boots, Window, CopyFrom, Number

LEMMA LinkOpen ==
  ASSUME LinkInv, Open
  PROVE  LinkInv'
<1> DEFINE m == Head(wire)
<1>1. /\ wire # <<>> /\ wire' = Tail(wire) /\ wire \in Seq(Sent)
      /\ UNCHANGED <<clock, entries, current, threads, published, overlapped>>
  BY DEF Open, serverVars, LinkInv, LinkType
<1>2. /\ \/ Newer(Number(m), last) /\ last' = Number(m) /\ handled' = Append(handled, m) /\ refused' = refused
         \/ last' = last /\ handled' = handled
      /\ refused' \in BOOLEAN
  BY <1>1 DEF Open, Fresh, LinkInv, LinkType, Sent
<1>3. /\ m \in Sent /\ CopyFrom(m, published) /\ Number(m) \in Nat \X Nat
      /\ wire' \in Seq(Sent) /\ \A i \in 1..Len(wire') : CopyFrom(wire'[i], published)
  <2>1. m \in Sent /\ m = wire[1] /\ 1 \in 1..Len(wire) /\ wire' \in Seq(Sent)
    BY <1>1, TailFacts
  <2>2. \A i \in 1..Len(wire') : i + 1 \in 1..Len(wire) /\ wire'[i] = wire[i + 1]
    BY <1>1, TailFacts
  <2>3. Number(m) \in Nat \X Nat
    BY <2>1 DEF Number, Sent
  <2> QED
    BY <2>1, <2>2, <2>3 DEF LinkInv, Copies
<1>4. LinkType' /\ HasEntry' /\ Boots'
  <2>1. handled \in Seq(Sent) /\ last \in Nat \X Nat
    BY DEF LinkInv, LinkType
  <2>2. handled' \in Seq(Sent) /\ last' \in Nat \X Nat
    <3>1. m \in Sent
      BY <1>3
    <3> HIDE DEF m
    <3>2. Append(handled, m) \in Seq(Sent)
      BY <2>1, <3>1, AppendFacts
    <3> QED
      BY <1>2, <1>3, <2>1, <3>2
  <2>3. LinkType'
    BY <1>1, <1>2, <1>3, <2>2 DEF LinkInv, LinkType
  <2> QED
    BY <1>1, <2>3 DEF LinkInv, HasEntry, Boots
<1>5. CASE last' = last /\ handled' = handled
  <2>1. Copies' /\ Window'
    BY <1>1, <1>3, <1>5 DEF LinkInv, Copies, Window
  <2> QED
    BY <1>4, <2>1 DEF LinkInv
<1>6. CASE Newer(Number(m), last) /\ last' = Number(m) /\ handled' = Append(handled, m)
  <2>1. /\ Len(handled') = Len(handled) + 1 /\ Len(handled) \in Nat /\ handled'[Len(handled) + 1] = m
        /\ \A i \in 1..Len(handled) : handled'[i] = handled[i] /\ Number(handled[i]) \in Nat \X Nat
    <3>1. handled \in Seq(Sent)
      BY DEF LinkInv, LinkType
    <3>2. \A i \in 1..Len(handled) : handled[i] \in Sent
      BY <3>1
    <3> HIDE DEF m
    <3> QED
      BY <1>3, <1>6, <3>1, <3>2, AppendFacts, NumberType
  <2>2. Copies'
    <3>1. ASSUME NEW i \in 1..Len(handled')
          PROVE  CopyFrom(handled'[i], published)
      <4>1. CASE i = Len(handled) + 1
        BY <1>3, <2>1, <4>1
      <4>2. CASE i # Len(handled) + 1
        <5>1. i \in 1..Len(handled) /\ handled'[i] = handled[i]
          BY <2>1, <4>2
        <5> QED
          BY <5>1 DEF LinkInv, Copies
      <4> QED
        BY <4>1, <4>2
    <3>2. \E p \in 1..Len(published) : last' = Number(published[p])
      BY <1>3, <1>6 DEF CopyFrom
    <3> QED
      BY <1>1, <1>3, <3>1, <3>2 DEF LinkInv, Copies
  <2>3. last \in Nat \X Nat /\ \A i \in 1..Len(handled) : NewerOrSame(last, Number(handled[i]))
    BY DEF LinkInv, LinkType, Window
  <2>4. \A i \in 1..Len(handled) : Newer(Number(m), Number(handled[i]))
    BY <1>3, <1>6, <2>1, <2>3, NewerFacts
  <2>5. \A i \in 1..Len(handled') : NewerOrSame(Number(m), Number(handled'[i]))
    <3> SUFFICES ASSUME NEW i \in 1..Len(handled')
                 PROVE  NewerOrSame(Number(m), Number(handled'[i]))
      OBVIOUS
    <3>1. CASE i = Len(handled) + 1
      BY <1>3, <2>1, <3>1, NewerFacts
    <3>2. CASE i # Len(handled) + 1
      <4>1. i \in 1..Len(handled)
        BY <2>1, <3>2
      <4>2. /\ Newer(Number(m), Number(handled[i])) /\ handled'[i] = handled[i]
            /\ Number(handled[i]) \in Nat \X Nat /\ Number(m) \in Nat \X Nat
        BY <1>3, <2>1, <2>4, <4>1
      <4> HIDE DEF m
      <4> QED
        BY <4>2, NewerFacts
    <3> QED
      BY <3>1, <3>2
  <2>6. \A i, j \in 1..Len(handled') : i < j => Newer(Number(handled'[j]), Number(handled'[i]))
    <3> SUFFICES ASSUME NEW i \in 1..Len(handled'), NEW j \in 1..Len(handled'), i < j
                 PROVE  Newer(Number(handled'[j]), Number(handled'[i]))
      OBVIOUS
    <3>1. i \in 1..Len(handled) /\ handled'[i] = handled[i]
      BY <2>1
    <3>2. CASE j = Len(handled) + 1
      BY <2>1, <2>4, <3>1, <3>2
    <3>3. CASE j # Len(handled) + 1
      <4>1. j \in 1..Len(handled) /\ handled'[j] = handled[j]
        <5>1. j \in 1..(Len(handled) + 1) /\ Len(handled) \in Nat
          BY <2>1
        <5>2. j \in 1..Len(handled)
          BY <5>1, <3>3
        <5> QED
          BY <2>1, <5>2
      <4> QED
        BY <3>1, <4>1 DEF LinkInv, Window
    <3> QED
      BY <3>2, <3>3
  <2>7. Window'
    BY <1>6, <2>5, <2>6 DEF Window
  <2> QED
    BY <1>4, <2>2, <2>7 DEF LinkInv
<1> QED
  BY <1>2, <1>5, <1>6

LEMMA LinkRestart ==
  ASSUME LinkInv, RestartDevice
  PROVE  LinkInv'
<1>1. /\ UNCHANGED <<clock, entries, current, threads, published, wire, refused, overlapped>>
      /\ last' = <<0, 0>> /\ handled' = <<>>
  BY DEF RestartDevice, serverVars
<1>2. LinkType' /\ HasEntry' /\ Boots'
  BY <1>1 DEF LinkInv, LinkType, HasEntry, Boots
<1>3. Copies' /\ Window'
  BY <1>1 DEF LinkInv, Copies, Window
<1> QED
  BY <1>2, <1>3 DEF LinkInv

LEMMA LinkSteps ==
  ASSUME LinkInv, [Next]_vars
  PROVE  LinkInv'
<1>1. CASE \E k \in Task : SealRead(k) \/ SealWrite(k) \/ SealSave(k)
  <2>1. /\ UNCHANGED <<clock, entries, current, threads, published, wire, last, handled, refused>>
        /\ overlapped' \in [threads : BOOLEAN, tasks : BOOLEAN]
    BY <1>1 DEF SealRead, SealWrite, SealSave, serverVars, openVars, LinkInv, LinkType
  <2>2. LinkType' /\ HasEntry' /\ Boots'
    BY <2>1 DEF LinkInv, LinkType, HasEntry, Boots
  <2> QED
    BY <2>1, <2>2, LinkKept
<1>2. CASE UNCHANGED vars
  BY <1>2 DEF vars, serverVars, openVars, LinkInv, LinkType, HasEntry, Copies, Boots, Window
<1> QED
  BY <1>1, <1>2, LinkGetEntry, LinkThread, LinkClock, LinkPublish, LinkBroker, LinkOpen, LinkRestart
     DEF Next, Seal

LEMMA LinkAlways == Spec => []LinkInv
  BY LinkStarts, LinkSteps, PTL DEF Spec

\* Between two starts the device handles no message twice, whatever the broker sends
\* again and whatever numbers the threads of the server give.
THEOREM HandledOnceAlways == Spec => []HandledOnce
<1>1. ASSUME LinkInv
      PROVE  HandledOnce
  <2> SUFFICES ASSUME NEW i \in 1..Len(handled), NEW j \in 1..Len(handled), i < j
               PROVE  handled[i].id # handled[j].id
    BY <1>1 DEF HandledOnce, LinkInv, LinkType
  <2>1. Newer(Number(handled[j]), Number(handled[i])) /\ Number(handled[i]) \in Nat \X Nat
    <3>1. handled[i] \in Sent
      BY <1>1 DEF LinkInv, LinkType
    <3> QED
      BY <1>1, <3>1, NumberType DEF LinkInv, Window
  <2>2. Number(handled[j]) # Number(handled[i])
    BY <2>1, NewerFacts
  <2> QED
    BY <1>1, <2>2 DEF LinkInv, Copies, CopyFrom
<1> QED
  BY <1>1, LinkAlways, PTL

-----------------------------------------------------------------------------
(* Types.                                                                      *)

Bounded == clock <= MaxClock /\ flush \in 0..(FlushEvery - 1)

LEMMA BoundedSteps ==
  ASSUME LinkInv, Bounded, [Next]_vars
  PROVE  Bounded'
<1>1. clock \in Nat /\ MaxClock \in Nat /\ FlushEvery \in Nat \ {0} /\ flush \in Nat
  BY SizeAssumption DEF LinkInv, LinkType, Bounded
<1>2. CASE Tick \/ RestartServer
  BY <1>1, <1>2 DEF Tick, RestartServer, sealVars, Bounded
<1>3. CASE \E k \in Task : SealSave(k)
  <2>1. flush' \in {(flush + 1) % FlushEvery, flush} /\ UNCHANGED clock
    BY <1>3 DEF SealSave, serverVars
  <2> QED
    BY <1>1, <2>1 DEF Bounded
<1>4. CASE RestartDevice
  BY <1>1, <1>4 DEF RestartDevice, serverVars, Bounded
<1>5. CASE \/ \E t \in Thread : Seal(t)
           \/ Copy \/ Lose \/ Open \/ \E k \in Task : SealRead(k) \/ SealWrite(k)
           \/ UNCHANGED vars
  BY <1>5 DEF Seal, GetEntry, ReadSeq, WriteSeq, StoreEntry, Pack, Publish, Copy, Lose, Open,
     SealRead, SealWrite, serverVars, sealVars, vars, Bounded
<1> QED
  BY <1>2, <1>3, <1>4, <1>5 DEF Next

\* Every variable keeps its type.
THEOREM TypeCorrect == Spec => []TypeOK
<1>1. Init => Bounded
  BY SizeAssumption DEF Init, Bounded
<1>2. ASSUME LinkInv, DeviceInv, Bounded
      PROVE  TypeOK
  <2>1. wire \in Seq([id : 1..Len(published), boot : Nat, seq : Nat, first : BOOLEAN])
    <3>1. \A i \in 1..Len(wire) : wire[i] \in Sent /\ wire[i].id \in 1..Len(published)
      BY <1>2 DEF LinkInv, LinkType, Copies, CopyFrom
    <3>2. \A i \in 1..Len(wire) : wire[i] \in [id : 1..Len(published), boot : Nat, seq : Nat, first : BOOLEAN]
      BY <3>1 DEF Sent
    <3>3. wire \in Seq(Sent)
      BY <1>2 DEF LinkInv, LinkType
    <3> QED
      BY <3>2, <3>3, SeqOf
  <2>2. clock \in 1..MaxClock /\ flush \in 0..(FlushEvery - 1)
    BY <1>2, SizeAssumption DEF LinkInv, LinkType, Bounded
  <2>3. {refused, reused, overlapped.threads, overlapped.tasks} \subseteq BOOLEAN
    BY <1>2 DEF LinkInv, LinkType, DeviceInv, DeviceType
  <2> QED
    BY <1>2, <2>1, <2>2, <2>3 DEF TypeOK, LinkInv, LinkType, DeviceInv, DeviceType, Entry, Place
<1> QED
  BY <1>1, <1>2, LinkStarts, LinkSteps, DeviceStarts, DeviceSteps, BoundedSteps, PTL DEF Spec

-----------------------------------------------------------------------------
(* Nothing is refused at its first arrival.  As long as one thread seals at a     *)
(* time, its entry is newer than everything published from the increment on, and *)
(* the header it packed is the entry's; so a message is published newer than all  *)
(* before it, arrives newer than what is ahead of it on the wire, and than last. *)
(* A restart of the server forgets the entry, and the time is then newer.         *)

NotBelow(n, h) == \A p \in 1..Len(h) : NewerOrSame(n, Number(h[p]))
Above(n, h) == \A p \in 1..Len(h) : Newer(n, Number(h[p]))

OneThread == \A t, u \in Thread : t # u => threads[t].pc = "idle" \/ threads[u].pc = "idle"

EntryIsLatest ==
  /\ current = 0 => \A p \in 1..Len(published) : published[p].boot < clock
  /\ current # 0 => NotBelow(Number(entries[current]), published)

\* What a thread knows of its entry at each place, pc, of seal_downlink.
AtPlace(th, es, c, h) ==
  /\ th.pc \in {"read", "write", "store"} => c \in {0, th.entry}
  /\ th.pc \in {"read", "write"} => NotBelow(Number(es[th.entry]), h)
  /\ th.pc = "write" => th.seq = es[th.entry].seq
  /\ th.pc \in {"store", "pack"} => Above(Number(es[th.entry]), h)
  /\ th.pc = "pack" => c = th.entry
  /\ th.pc = "publish" => /\ c # 0 /\ <<th.boot, th.seq>> = Number(es[c])
                          /\ Above(<<th.boot, th.seq>>, h)

AllAtPlace == \A t \in Thread : AtPlace(threads[t], entries, current, published)

FirstIsNewer ==
  \A j \in 1..Len(wire) : wire[j].first =>
    Newer(Number(wire[j]), last) /\ \A i \in 1..(j - 1) : Newer(Number(wire[j]), Number(wire[i]))

ServerInv ==
  ~overlapped.threads =>
    /\ OneThread /\ EntryIsLatest /\ AllAtPlace
    /\ FirstIsNewer /\ ~refused

LEMMA ServerStarts ==
  ASSUME Init
  PROVE  ServerInv
<1>1. OneThread /\ AllAtPlace
  BY DEF Init, OneThread, AtPlace, AllAtPlace, ThreadIdle
<1> QED
  BY <1>1 DEF Init, ServerInv, EntryIsLatest, FirstIsNewer

\* The numbers that are compared are pairs of naturals.
LEMMA Numbers ==
  ASSUME LinkInv
  PROVE  /\ \A p \in 1..Len(published) : Number(published[p]) \in Nat \X Nat
         /\ \A i \in 1..Len(wire) : Number(wire[i]) \in Nat \X Nat
         /\ \A e \in 1..Len(entries) : Number(entries[e]) \in Nat \X Nat
         /\ last \in Nat \X Nat /\ Len(entries) \in Nat
<1>1. \A p \in 1..Len(published) : published[p] \in Sent
  BY DEF LinkInv, LinkType
<1>2. \A i \in 1..Len(wire) : wire[i] \in Sent
  BY DEF LinkInv, LinkType
<1>3. \A e \in 1..Len(entries) : entries[e] \in Entry
  BY DEF LinkInv, LinkType
<1>4. \A e \in Entry : Number(e) \in Nat \X Nat
  BY DEF Number, Entry
<1>5. last \in Nat \X Nat /\ Len(entries) \in Nat
  BY DEF LinkInv, LinkType
<1> QED
  BY <1>1, <1>2, <1>3, <1>4, <1>5, NumberType

LEMMA NewerThanAll ==
  ASSUME LinkInv, NEW e \in 1..Len(entries), NEW n \in Nat \X Nat
  PROVE  /\ Newer(n, Number(entries[e])) /\ NotBelow(Number(entries[e]), published)
              => Above(n, published)
         /\ Above(n, published) => NotBelow(n, published)
<1>1. ASSUME NEW p \in 1..Len(published), Newer(n, Number(entries[e])),
             NewerOrSame(Number(entries[e]), Number(published[p]))
      PROVE  Newer(n, Number(published[p]))
  BY <1>1, Numbers, NewerFacts
<1>2. ASSUME NEW p \in 1..Len(published), Newer(n, Number(published[p]))
      PROVE  NewerOrSame(n, Number(published[p]))
  BY <1>2, Numbers, NewerFacts
<1> QED
  BY <1>1, <1>2 DEF Above, NotBelow

\* A step of thread t that leaves the messages and the device alone, when t seals alone.
LEMMA ServerThread ==
  ASSUME ServerInv, NEW t \in Thread, UNCHANGED <<published, wire, last, refused, overlapped>>,
         threads[t].pc # "idle", NEW th, threads' = [threads EXCEPT ![t] = th],
         DOMAIN threads = Thread,
         ~overlapped.threads /\ OneThread => EntryIsLatest' /\ AtPlace(th, entries', current', published)
  PROVE  ServerInv'
<1> SUFFICES ASSUME ~overlapped'.threads
             PROVE  (OneThread /\ EntryIsLatest /\ AllAtPlace /\ FirstIsNewer /\ ~refused)'
  BY DEF ServerInv
<1>1. OneThread /\ FirstIsNewer /\ ~refused /\ ~overlapped.threads
  BY DEF ServerInv
<1>2. threads'[t] = th /\ \A u \in Thread \ {t} : threads'[u] = threads[u] /\ threads[u].pc = "idle"
  BY <1>1 DEF OneThread
<1>3. OneThread'
  BY <1>2 DEF OneThread
<1>4. AllAtPlace'
  BY <1>1, <1>2 DEF AtPlace, AllAtPlace
<1> QED
  BY <1>1, <1>3, <1>4 DEF FirstIsNewer

LEMMA ServerGetEntry ==
  ASSUME LinkInv, ServerInv, NEW t \in Thread, GetEntry(t)
  PROVE  ServerInv'
<1> SUFFICES ASSUME ~overlapped'.threads
             PROVE  (OneThread /\ EntryIsLatest /\ AllAtPlace /\ FirstIsNewer /\ ~refused)'
  BY DEF ServerInv
<1> DEFINE n == IF current = 0 THEN Len(entries) + 1 ELSE current
           r == [pc |-> "read", seq |-> 0, boot |-> 0, entry |-> n]
<1>1. /\ overlapped' = [overlapped EXCEPT !.threads = @ \/ \E u \in Thread : threads[u].pc # "idle"]
      /\ entries' = IF current = 0 THEN Append(entries, [boot |-> clock, seq |-> 0]) ELSE entries
      /\ threads' = [threads EXCEPT ![t] = r]
      /\ UNCHANGED <<clock, current, published, wire, last, refused>>
  BY DEF GetEntry, openVars
<1>2. ~overlapped.threads /\ \A u \in Thread : threads[u].pc = "idle"
  BY <1>1 DEF LinkInv, LinkType
<1>3. EntryIsLatest /\ FirstIsNewer /\ ~refused
  BY <1>2 DEF ServerInv
<1>4. r.pc = "read" /\ r.entry = n
  OBVIOUS
<1>5. NotBelow(Number(entries'[n]), published) /\ (current # 0 => entries' = entries)
  <2>1. CASE current = 0
    <3>1. [boot |-> clock, seq |-> 0] \in Entry /\ entries \in Seq(Entry)
      BY DEF LinkInv, LinkType, Entry
    <3>2. entries'[n] = [boot |-> clock, seq |-> 0]
      BY <1>1, <2>1, <3>1, AppendFacts
    <3>3. Number(entries'[n]) = <<clock, 0>>
      BY <3>2 DEF Number
    <3>4. \A p \in 1..Len(published) : published[p].boot < clock
      BY <1>3, <2>1 DEF EntryIsLatest
    <3>5. \A p \in 1..Len(published) : NewerOrSame(<<clock, 0>>, Number(published[p]))
      BY <3>4 DEF NewerOrSame, Number, LinkInv, Boots, LinkType
    <3> QED
      BY <2>1, <3>3, <3>5 DEF NotBelow
  <2>2. CASE current # 0
    BY <1>1, <1>3, <2>2 DEF EntryIsLatest
  <2> QED
    BY <2>1, <2>2
<1> HIDE DEF n, r
<1>6. threads'[t] = r /\ \A u \in Thread \ {t} : threads'[u] = threads[u]
  BY <1>1 DEF LinkInv, LinkType
<1>7. OneThread'
  BY <1>2, <1>6 DEF OneThread
<1>8. EntryIsLatest'
  BY <1>1, <1>3, <1>5 DEF EntryIsLatest
<1>9. AllAtPlace'
  <2>1. current \in {0, n}
    BY DEF n
  <2> QED
    BY <1>1, <1>2, <1>4, <1>5, <1>6, <2>1 DEF AtPlace, AllAtPlace
<1> QED
  BY <1>1, <1>3, <1>7, <1>8, <1>9 DEF FirstIsNewer

LEMMA ServerWorks ==
  ASSUME LinkInv, ServerInv, NEW t \in Thread, ReadSeq(t) \/ WriteSeq(t) \/ StoreEntry(t) \/ Pack(t)
  PROVE  ServerInv'
<1> DEFINE e == threads[t].entry
<1>1. /\ UNCHANGED <<published, wire, last, refused, overlapped>>
      /\ threads[t].pc \in {"read", "write", "store", "pack"} /\ DOMAIN threads = Thread
      /\ threads[t] \in [pc : Place, entry : 0..Len(entries), seq : Nat, boot : Nat]
  BY DEF ReadSeq, WriteSeq, StoreEntry, Pack, openVars, LinkInv, LinkType
<1>2. e \in 1..Len(entries) /\ entries[e] \in Entry
  <2>1. e \in 1..Len(entries)
    <3>1. Len(entries) \in Nat
      BY DEF LinkInv, LinkType
    <3>2. e # 0
      BY <1>1 DEF LinkInv, HasEntry
    <3>3. e \in 0..Len(entries)
      BY <1>1
    <3> QED
      BY <3>1, <3>2, <3>3
  <2> QED
    BY <2>1 DEF LinkInv, LinkType
<1>3. ASSUME ~overlapped.threads /\ OneThread
      PROVE  EntryIsLatest /\ AtPlace(threads[t], entries, current, published)
  BY <1>3 DEF ServerInv, AllAtPlace
<1>4. CASE ReadSeq(t)
  <2> DEFINE r == [threads[t] EXCEPT !.pc = "write", !.seq = entries[e].seq]
  <2>1. threads' = [threads EXCEPT ![t] = r] /\ UNCHANGED <<clock, entries, current>> /\ threads[t].pc = "read"
    BY <1>4 DEF ReadSeq
  <2>2. r.pc = "write" /\ r.seq = entries[e].seq /\ r.entry = e
    BY <1>1
  <2> HIDE DEF r
  <2>3. ~overlapped.threads /\ OneThread => EntryIsLatest' /\ AtPlace(r, entries', current', published)
    BY <1>1, <1>3, <2>1, <2>2 DEF EntryIsLatest, AtPlace
  <2> QED
    BY <1>1, <2>1, <2>3, ServerThread
<1>5. CASE WriteSeq(t)
  <2> DEFINE r == [threads[t] EXCEPT !.pc = "store"]
  <2>1. /\ threads' = [threads EXCEPT ![t] = r] /\ UNCHANGED <<clock, current>> /\ threads[t].pc = "write"
        /\ entries' = [entries EXCEPT ![e] = [entries[e] EXCEPT !.seq = threads[t].seq + 1]]
    BY <1>5 DEF WriteSeq
  <2>2. r.pc = "store" /\ r.entry = e
    BY <1>1
  <2> HIDE DEF r
  <2>3. /\ \A x \in 1..Len(entries) \ {e} : entries'[x] = entries[x]
        /\ Number(entries'[e]) = <<entries[e].boot, threads[t].seq + 1>>
    <3>1. entries \in Seq(Entry)
      BY DEF LinkInv, LinkType
    <3>2. e \in DOMAIN entries /\ entries[e] \in [boot : Nat, seq : Nat]
      BY <1>2, <3>1 DEF Entry
    <3>3. entries'[e] = [entries[e] EXCEPT !.seq = threads[t].seq + 1]
      BY <2>1, <3>2
    <3>4. \A x \in 1..Len(entries) \ {e} : entries'[x] = entries[x]
      BY <2>1, <3>1
    <3> QED
      BY <3>2, <3>3, <3>4 DEF Number
  <2>4. ASSUME ~overlapped.threads /\ OneThread
        PROVE  EntryIsLatest' /\ AtPlace(r, entries', current', published)
    <3>1. Number(entries'[e]) = <<entries[e].boot, entries[e].seq + 1>> /\ NotBelow(Number(entries[e]), published)
      BY <1>3, <2>1, <2>3, <2>4 DEF AtPlace
    <3>2. Newer(Number(entries'[e]), Number(entries[e])) /\ Number(entries'[e]) \in Nat \X Nat
      BY <1>2, <3>1 DEF Newer, Number, Entry
    <3>3. Above(Number(entries'[e]), published) /\ NotBelow(Number(entries'[e]), published)
      BY <1>2, <3>1, <3>2, NewerThanAll
    <3>4. current \in {0, e}
      BY <1>3, <2>1, <2>4 DEF AtPlace
    <3> QED
      BY <1>1, <1>3, <2>1, <2>2, <2>4, <3>3, <3>4 DEF EntryIsLatest, AtPlace
  <2> QED
    BY <1>1, <2>1, <2>4, ServerThread
<1>6. CASE StoreEntry(t)
  <2> DEFINE r == [threads[t] EXCEPT !.pc = "pack"]
  <2>1. /\ threads' = [threads EXCEPT ![t] = r] /\ UNCHANGED <<clock, entries>> /\ current' = e /\ threads[t].pc = "store"
    BY <1>6 DEF StoreEntry
  <2>2. r.pc = "pack" /\ r.entry = e
    BY <1>1
  <2> HIDE DEF r
  <2>3. ASSUME ~overlapped.threads /\ OneThread
        PROVE  EntryIsLatest' /\ AtPlace(r, entries', current', published)
    <3>1. Above(Number(entries[e]), published)
      BY <1>3, <2>1, <2>3 DEF AtPlace
    <3>2. NotBelow(Number(entries[e]), published)
      BY <1>2, <3>1, Numbers, NewerThanAll
    <3> QED
      BY <1>1, <1>2, <2>1, <2>2, <3>1, <3>2 DEF EntryIsLatest, AtPlace
  <2> QED
    BY <1>1, <2>1, <2>3, ServerThread
<1>7. CASE Pack(t)
  <2> DEFINE r == [threads[t] EXCEPT !.pc = "publish", !.boot = entries[e].boot, !.seq = entries[e].seq]
  <2>1. /\ threads' = [threads EXCEPT ![t] = r] /\ UNCHANGED <<clock, entries, current>> /\ threads[t].pc = "pack"
    BY <1>7 DEF Pack
  <2>2. r.pc = "publish" /\ <<r.boot, r.seq>> = Number(entries[e])
    BY <1>1 DEF Number
  <2> HIDE DEF r
  <2>3. ~overlapped.threads /\ OneThread => EntryIsLatest' /\ AtPlace(r, entries', current', published)
    BY <1>1, <1>2, <1>3, <2>1, <2>2 DEF EntryIsLatest, AtPlace
  <2> QED
    BY <1>1, <2>1, <2>3, ServerThread
<1> QED
  BY <1>4, <1>5, <1>6, <1>7

LEMMA ServerPublish ==
  ASSUME LinkInv, ServerInv, NEW t \in Thread, Publish(t)
  PROVE  ServerInv'
<1> SUFFICES ASSUME ~overlapped'.threads
             PROVE  (OneThread /\ EntryIsLatest /\ AllAtPlace /\ FirstIsNewer /\ ~refused)'
  BY DEF ServerInv
<1> DEFINE m == Message(t)
           n == Number(m)
<1>1. /\ published' = Append(published, m) /\ wire' = Append(wire, m) /\ threads[t].pc = "publish"
      /\ threads' = [threads EXCEPT ![t] = ThreadIdle]
      /\ UNCHANGED <<clock, entries, current, last, refused, overlapped>>
  BY DEF Publish, openVars
<1>2. OneThread /\ AtPlace(threads[t], entries, current, published) /\ FirstIsNewer /\ ~refused
  BY <1>1 DEF ServerInv, AllAtPlace
<1>3. m \in Sent /\ n = <<threads[t].boot, threads[t].seq>> /\ n \in Nat \X Nat /\ published \in Seq(Sent) /\ wire \in Seq(Sent)
  BY DEF LinkInv, LinkType, Message, Sent, Number
<1>4. current # 0 /\ n = Number(entries[current]) /\ Above(n, published)
  BY <1>1, <1>2, <1>3 DEF AtPlace
<1> HIDE DEF m
<1>5. \A u \in Thread : threads'[u].pc = "idle"
  BY <1>1, <1>2 DEF OneThread, ThreadIdle, LinkInv, LinkType
<1>6. OneThread' /\ AllAtPlace'
  BY <1>5 DEF OneThread, AllAtPlace, AtPlace
<1>7. EntryIsLatest'
  <2>1. NotBelow(n, published)
    BY <1>3, <1>4, Numbers, NewerFacts DEF Above, NotBelow
  <2>2. \A p \in 1..Len(published') :
          \/ p \in 1..Len(published) /\ published'[p] = published[p]
          \/ published'[p] = m
    BY <1>1, <1>3, AppendFacts
  <2>3. NewerOrSame(n, Number(m))
    BY <1>3, NewerFacts
  <2>4. NotBelow(n, published')
    BY <2>1, <2>2, <2>3 DEF NotBelow
  <2> QED
    BY <1>1, <1>4, <2>4 DEF EntryIsLatest
<1>8. FirstIsNewer'
  <2>1. Newer(n, last)
    <3>1. CASE last = <<0, 0>>
      <4>1. threads[t].boot >= 1 /\ threads[t].boot \in Nat
        BY <1>1 DEF LinkInv, LinkType, Boots
      <4> QED
        BY <1>3, <3>1, <4>1 DEF Newer
    <3>2. CASE \E p \in 1..Len(published) : last = Number(published[p])
      BY <1>4, <3>2 DEF Above
    <3> QED
      BY <3>1, <3>2 DEF LinkInv, Copies
  <2>2. \A i \in 1..Len(wire) : Newer(n, Number(wire[i]))
    BY <1>4 DEF Above, LinkInv, Copies, CopyFrom
  <2>3. /\ Len(wire') = Len(wire) + 1 /\ Len(wire) \in Nat /\ wire'[Len(wire) + 1] = m
        /\ \A i \in 1..Len(wire) : wire'[i] = wire[i]
    BY <1>1, <1>3, AppendFacts
  <2> SUFFICES ASSUME NEW j \in 1..Len(wire'), wire'[j].first
               PROVE  /\ Newer(Number(wire'[j]), last)
                      /\ \A i \in 1..(j - 1) : Newer(Number(wire'[j]), Number(wire'[i]))
    BY <1>1 DEF FirstIsNewer
  <2>4. CASE j = Len(wire) + 1
    <3>1. \A i \in 1..(j - 1) : i \in 1..Len(wire)
      BY <2>3, <2>4
    <3> QED
      BY <2>1, <2>2, <2>3, <2>4, <3>1
  <2>5. CASE j \in 1..Len(wire)
    <3>1. \A i \in 1..(j - 1) : i \in 1..Len(wire)
      BY <2>3, <2>5
    <3> QED
      BY <1>2, <2>3, <2>5, <3>1 DEF FirstIsNewer
  <2> QED
    BY <2>3, <2>4, <2>5
<1> QED
  BY <1>1, <1>2, <1>6, <1>7, <1>8

LEMMA ServerClock ==
  ASSUME LinkInv, ServerInv, Tick \/ RestartServer
  PROVE  ServerInv'
<1>1. UNCHANGED <<entries, published, wire, last, refused, overlapped>> /\ clock' = clock + 1
  BY DEF Tick, RestartServer, openVars
<1>2. \A p \in 1..Len(published) : published[p].boot < clock'
  BY <1>1 DEF LinkInv, LinkType, Boots
<1>3. CASE Tick
  <2>1. UNCHANGED <<threads, current>>
    BY <1>3 DEF Tick
  <2> QED
    BY <1>1, <1>2, <2>1 DEF ServerInv, OneThread, EntryIsLatest, AllAtPlace, FirstIsNewer
<1>4. CASE RestartServer
  <2>1. current' = 0 /\ threads' = [t \in Thread |-> ThreadIdle]
    BY <1>4 DEF RestartServer
  <2>2. OneThread' /\ AllAtPlace'
    BY <2>1 DEF OneThread, AllAtPlace, AtPlace, ThreadIdle
  <2>3. EntryIsLatest'
    BY <1>1, <1>2, <2>1 DEF EntryIsLatest
  <2> QED
    BY <1>1, <2>2, <2>3 DEF ServerInv, FirstIsNewer
<1> QED
  BY <1>3, <1>4

\* What is left of the wire is in order.
LEMMA TailKeepsOrder ==
  ASSUME FirstIsNewer, last' = last, Len(wire) \in Nat \ {0}, Len(wire') = Len(wire) - 1,
         \A i \in 1..Len(wire') : wire'[i] = wire[i + 1]
  PROVE  FirstIsNewer'
<1> SUFFICES ASSUME NEW j \in 1..Len(wire'), wire'[j].first
             PROVE  /\ Newer(Number(wire'[j]), last')
                    /\ \A i \in 1..(j - 1) : Newer(Number(wire'[j]), Number(wire'[i]))
  BY DEF FirstIsNewer
<1>1. j + 1 \in 1..Len(wire) /\ wire'[j] = wire[j + 1]
  OBVIOUS
<1>2. \A i \in 1..(j - 1) : i + 1 \in 1..((j + 1) - 1) /\ wire'[i] = wire[i + 1]
  OBVIOUS
<1> QED
  BY <1>1, <1>2 DEF FirstIsNewer

\* A copy may come at any time, and what is ahead may be lost.
LEMMA ServerBroker ==
  ASSUME LinkInv, ServerInv, Copy \/ Lose
  PROVE  ServerInv'
<1>1. UNCHANGED <<clock, entries, current, threads, published, last, refused, overlapped>>
  BY DEF Copy, Lose, serverVars, openVars
<1>2. FirstIsNewer => FirstIsNewer'
  <2>1. CASE Lose
    <3>1. wire' = Tail(wire) /\ wire # <<>> /\ wire \in Seq(Sent)
      BY <2>1 DEF Lose, LinkInv, LinkType
    <3>2. /\ Len(wire) \in Nat \ {0} /\ Len(wire') = Len(wire) - 1
          /\ \A i \in 1..Len(wire') : i + 1 \in 1..Len(wire) /\ wire'[i] = wire[i + 1]
      BY <3>1, TailFacts
    <3> QED
      BY <1>1, <3>2, TailKeepsOrder
  <2>2. CASE Copy
    <3>1. PICK p \in 1..Len(published) : wire' = Append(wire, [published[p] EXCEPT !.first = FALSE])
      BY <2>2 DEF Copy
    <3> DEFINE m == [published[p] EXCEPT !.first = FALSE]
    <3>2. m \in Sent /\ m.first = FALSE
      <4>1. published[p] \in Sent
        BY DEF LinkInv, LinkType
      <4> QED
        BY <4>1 DEF Sent
    <3> HIDE DEF m
    <3>3. wire' = Append(wire, m) /\ wire \in Seq(Sent)
      BY <3>1 DEF m, LinkInv, LinkType
    <3>4. /\ Len(wire') = Len(wire) + 1 /\ Len(wire) \in Nat /\ wire'[Len(wire) + 1] = m
          /\ \A i \in 1..Len(wire) : wire'[i] = wire[i]
      BY <3>2, <3>3, AppendFacts
    <3>5. ASSUME FirstIsNewer, NEW j \in 1..Len(wire'), wire'[j].first
          PROVE  /\ Newer(Number(wire'[j]), last')
                 /\ \A i \in 1..(j - 1) : Newer(Number(wire'[j]), Number(wire'[i]))
      <4>1. j \in 1..Len(wire) /\ \A i \in 1..(j - 1) : i \in 1..Len(wire)
        BY <3>2, <3>4, <3>5
      <4> QED
        BY <1>1, <3>4, <3>5, <4>1 DEF FirstIsNewer
    <3> QED
      BY <3>5 DEF FirstIsNewer
  <2> QED
    BY <2>1, <2>2
<1> QED
  BY <1>1, <1>2 DEF ServerInv, OneThread, EntryIsLatest, AllAtPlace

LEMMA ServerOpen ==
  ASSUME LinkInv, ServerInv, Open
  PROVE  ServerInv'
<1>1. /\ wire # <<>> /\ wire' = Tail(wire) /\ wire \in Seq(Sent)
      /\ UNCHANGED <<clock, entries, current, threads, published, overlapped>>
  BY DEF Open, serverVars, LinkInv, LinkType
<1>2. /\ Len(wire) \in Nat \ {0} /\ Len(wire') = Len(wire) - 1 /\ Head(wire) = wire[1]
      /\ \A i \in 1..Len(wire') : i + 1 \in 1..Len(wire) /\ wire'[i] = wire[i + 1]
  BY <1>1, TailFacts
<1>3. ASSUME FirstIsNewer, ~refused
      PROVE  FirstIsNewer' /\ ~refused'
  <2>1. CASE Fresh(Head(wire))
    <3>1. last' = Number(wire[1]) /\ ~refused'
      BY <1>2, <1>3, <2>1 DEF Open
    <3> SUFFICES ASSUME NEW j \in 1..Len(wire'), wire'[j].first
                 PROVE  /\ Newer(Number(wire'[j]), last')
                        /\ \A i \in 1..(j - 1) : Newer(Number(wire'[j]), Number(wire'[i]))
      BY <3>1 DEF FirstIsNewer
    <3>2. j + 1 \in 1..Len(wire) /\ wire'[j] = wire[j + 1] /\ 1 \in 1..((j + 1) - 1)
      BY <1>2
    <3>3. ASSUME NEW i \in 1..(j - 1)
          PROVE  i + 1 \in 1..((j + 1) - 1) /\ wire'[i] = wire[i + 1]
      <4>1. i \in 1..Len(wire') /\ i + 1 \in 1..((j + 1) - 1)
        BY <1>2
      <4> QED
        BY <1>2, <4>1
    <3> QED
      BY <1>3, <3>1, <3>2, <3>3 DEF FirstIsNewer
  <2>2. CASE ~Fresh(Head(wire))
    <3>1. ~wire[1].first
      BY <1>2, <1>3, <2>2 DEF Fresh, FirstIsNewer
    <3>2. last' = last /\ ~refused'
      BY <1>2, <1>3, <2>2, <3>1 DEF Open
    <3> QED
      BY <1>2, <1>3, <3>2, TailKeepsOrder
  <2> QED
    BY <2>1, <2>2
<1> QED
  BY <1>1, <1>3 DEF ServerInv, OneThread, EntryIsLatest, AllAtPlace

\* A device that starts again has seen nothing, and every boot is newer than 0.
LEMMA ServerDevice ==
  ASSUME LinkInv, ServerInv, RestartDevice
  PROVE  ServerInv'
<1>1. /\ UNCHANGED <<clock, entries, current, threads, published, wire, refused, overlapped>>
      /\ last' = <<0, 0>>
  BY DEF RestartDevice, serverVars
<1>2. \A j \in 1..Len(wire) : Newer(Number(wire[j]), <<0, 0>>)
  <2> SUFFICES ASSUME NEW j \in 1..Len(wire)
               PROVE  Newer(Number(wire[j]), <<0, 0>>)
    OBVIOUS
  <2>1. wire[j].id \in 1..Len(published) /\ Number(wire[j]) = Number(published[wire[j].id])
    BY DEF LinkInv, Copies, CopyFrom
  <2>2. published[wire[j].id].boot \in 1..clock /\ clock \in Nat
    BY <2>1 DEF LinkInv, Boots, LinkType
  <2> QED
    BY <2>1, <2>2 DEF Newer, Number
<1>3. FirstIsNewer => FirstIsNewer'
  BY <1>1, <1>2 DEF FirstIsNewer
<1> QED
  BY <1>1, <1>3 DEF ServerInv, OneThread, EntryIsLatest, AllAtPlace

LEMMA ServerSteps ==
  ASSUME LinkInv, ServerInv, [Next]_vars
  PROVE  ServerInv'
<1>1. CASE \E k \in Task : SealRead(k) \/ SealWrite(k) \/ SealSave(k)
  <2>1. /\ UNCHANGED <<clock, entries, current, threads, published, wire, last, refused>>
        /\ overlapped'.threads = overlapped.threads
    BY <1>1 DEF SealRead, SealWrite, SealSave, serverVars, openVars, LinkInv, LinkType
  <2> QED
    BY <2>1 DEF ServerInv, OneThread, EntryIsLatest, AllAtPlace, FirstIsNewer
<1>2. CASE UNCHANGED vars
  BY <1>2 DEF vars, serverVars, openVars, ServerInv, OneThread, EntryIsLatest, AllAtPlace, FirstIsNewer
<1> QED
  BY <1>1, <1>2, ServerGetEntry, ServerWorks, ServerPublish, ServerClock, ServerBroker, ServerOpen,
     ServerDevice DEF Next, Seal

\* No message is refused at its first arrival unless two threads of the server sealed
\* at the same time, whatever is lost, copied or started again in between.
THEOREM NoneRefusedAlways == Spec => []NoneRefused
<1>1. ServerInv => NoneRefused
  BY DEF ServerInv, NoneRefused
<1> QED
  BY <1>1, LinkStarts, LinkSteps, ServerStarts, ServerSteps, PTL DEF Spec

=============================================================================
