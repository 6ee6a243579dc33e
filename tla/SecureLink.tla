------------------------------ MODULE SecureLink ------------------------------
(* The numbers of the messages between server and device: boot and seq of each  *)
(* header, how seal_downlink (securelink.py) and SecureLink::seal give them out *)
(* to threads that take no lock, and how SecureLink::open uses them to refuse   *)
(* what it has handled.  Keys, cipher and MAC are left out: every message is    *)
(* whole and from its sender.                                                   *)
EXTENDS Integers, Sequences

CONSTANTS
  Thread,      \* threads of the server that publish: requests, MQTT, transfer
  Task,        \* tasks of the device that publish
  FlushEvery,  \* seals between two saves of the device's number (16)
  MaxClock, MaxSends, MaxCopies, MaxLosses,   \* bounds of the downlink
  MaxSeals, MaxRestarts                       \* bounds of the device

ASSUME SizeAssumption ==
  /\ FlushEvery \in Nat \ {0} /\ MaxClock \in Nat \ {0}
  /\ {MaxSends, MaxCopies, MaxLosses, MaxSeals, MaxRestarts} \subseteq Nat

VARIABLES
  clock,       \* time of the server; it is never set back
  entries,     \* the dictionaries that seal_downlink made, [boot, seq]
  current,     \* which one is downlink[DEV_ID], 0 for none
  threads,     \* per thread: where it is, its dictionary, what it read, its header
  wire,        \* messages on their way, oldest first
  last,        \* _lastBoot and _lastSeq
  own,         \* _boot and _seq
  saved,       \* boot and seq in the device's Preferences
  flush,       \* flushCtr, of which the last digits count
  tasks,       \* per task: where it is, and the _seq it read
  published,   \* history: messages published
  handled,     \* history: messages opened since the device started
  refused,     \* history: a message was refused at its first arrival
  used,        \* history: numbers of the device's messages
  reused,      \* history: one of them was given twice
  overlapped,  \* history: threads, or tasks, sealed at the same time
  spent        \* messages, copies, losses, seals and restarts so far

serverVars == <<clock, entries, current, threads, published>>
openVars == <<last, handled, refused>>
sealVars == <<own, saved, flush, tasks, used, reused>>
vars == <<serverVars, wire, openVars, sealVars, overlapped, spent>>

Number(m) == <<m.boot, m.seq>>
NewerOrSame(a, b) == a[1] > b[1] \/ (a[1] = b[1] /\ a[2] >= b[2])   \* mutant
Newer(a, b) == a[1] > b[1] \/ (a[1] = b[1] /\ a[2] > b[2])

ThreadIdle == [pc |-> "idle", entry |-> 0, seq |-> 0, boot |-> 0]
TaskIdle == [pc |-> "idle", seq |-> 0]

-----------------------------------------------------------------------------
(* seal_downlink and publish, one access to shared data at a time.             *)

\* Mutant: the boot of a new entry is always the same.
GetEntryFixedBoot(t) ==
  /\ threads[t].pc = "idle" /\ spent.sends < MaxSends
  /\ spent' = [spent EXCEPT !.sends = @ + 1]
  /\ overlapped' = [overlapped EXCEPT !.threads = @ \/ \E u \in Thread : threads[u].pc # "idle"]
  /\ entries' = IF current = 0 THEN Append(entries, [boot |-> 1, seq |-> 0]) ELSE entries
  /\ threads' = [threads EXCEPT ![t] = [pc |-> "read", seq |-> 0, boot |-> 0,
                   entry |-> IF current = 0 THEN Len(entries) + 1 ELSE current]]
  /\ UNCHANGED <<clock, current, published, wire, openVars, sealVars>>

\* The entry of the device, or a new one with the time as its boot.
GetEntry(t) ==
  /\ threads[t].pc = "idle" /\ spent.sends < MaxSends
  /\ spent' = [spent EXCEPT !.sends = @ + 1]
  /\ overlapped' = [overlapped EXCEPT !.threads = @ \/ \E u \in Thread : threads[u].pc # "idle"]
  /\ entries' = IF current = 0 THEN Append(entries, [boot |-> clock, seq |-> 0]) ELSE entries
  /\ threads' = [threads EXCEPT ![t] = [pc |-> "read", seq |-> 0, boot |-> 0,
                   entry |-> IF current = 0 THEN Len(entries) + 1 ELSE current]]
  /\ UNCHANGED <<clock, current, published, wire, openVars, sealVars>>

ReadSeq(t) ==
  /\ threads[t].pc = "read"
  /\ threads' = [threads EXCEPT ![t].pc = "write", ![t].seq = entries[threads[t].entry].seq]
  /\ UNCHANGED <<clock, entries, current, published, wire, openVars, sealVars, overlapped, spent>>

WriteSeq(t) ==
  /\ threads[t].pc = "write"
  /\ entries' = [entries EXCEPT ![threads[t].entry].seq = threads[t].seq + 1]
  /\ threads' = [threads EXCEPT ![t].pc = "store"]
  /\ UNCHANGED <<clock, current, published, wire, openVars, sealVars, overlapped, spent>>

StoreEntry(t) ==
  /\ threads[t].pc = "store"
  /\ current' = threads[t].entry
  /\ threads' = [threads EXCEPT ![t].pc = "pack"]
  /\ UNCHANGED <<clock, entries, published, wire, openVars, sealVars, overlapped, spent>>

\* The header reads the entry again.
Pack(t) ==
  /\ threads[t].pc = "pack"
  /\ threads' = [threads EXCEPT ![t].pc = "publish",
                   ![t].boot = entries[threads[t].entry].boot,
                   ![t].seq = entries[threads[t].entry].seq]
  /\ UNCHANGED <<clock, entries, current, published, wire, openVars, sealVars, overlapped, spent>>

Message(t) == [id |-> Len(published) + 1, boot |-> threads[t].boot, seq |-> threads[t].seq,
               first |-> TRUE]

Publish(t) ==
  /\ threads[t].pc = "publish"
  /\ published' = Append(published, Message(t))
  /\ wire' = Append(wire, Message(t))
  /\ threads' = [threads EXCEPT ![t] = ThreadIdle]
  /\ UNCHANGED <<clock, entries, current, openVars, sealVars, overlapped, spent>>

Tick ==
  /\ clock < MaxClock /\ clock' = clock + 1
  /\ UNCHANGED <<entries, current, threads, published, wire, openVars, sealVars, overlapped, spent>>

\* The server starts again with an empty dictionary; what was not published is lost.
RestartServer ==
  /\ clock < MaxClock /\ clock' = clock + 1   \* it takes more than a millisecond
  /\ current' = 0 /\ threads' = [t \in Thread |-> ThreadIdle]
  /\ UNCHANGED <<entries, published, wire, openVars, sealVars, overlapped, spent>>

-----------------------------------------------------------------------------
(* The broker: in order, but QoS 1 may send again, and nothing is kept for a     *)
(* device that is offline.                                                      *)

Copy ==
  /\ spent.copies < MaxCopies /\ spent' = [spent EXCEPT !.copies = @ + 1]
  /\ \E i \in 1..Len(published) : wire' = Append(wire, [published[i] EXCEPT !.first = FALSE])
  /\ UNCHANGED <<serverVars, openVars, sealVars, overlapped>>

Lose ==
  /\ wire # <<>> /\ spent.losses < MaxLosses /\ spent' = [spent EXCEPT !.losses = @ + 1]
  /\ wire' = Tail(wire)
  /\ UNCHANGED <<serverVars, openVars, sealVars, overlapped>>

-----------------------------------------------------------------------------
(* SecureLink::open, on the cloud task.                                        *)

Fresh(m) == Newer(Number(m), last)

Open ==
  /\ wire # <<>> /\ wire' = Tail(wire)
  /\ IF Fresh(Head(wire))
     THEN /\ last' = Number(Head(wire))
          /\ handled' = Append(handled, Head(wire))
          /\ refused' = refused
     ELSE /\ refused' = (refused \/ Head(wire).first)
          /\ UNCHANGED <<last, handled>>
  /\ UNCHANGED <<serverVars, sealVars, overlapped, spent>>

-----------------------------------------------------------------------------
(* SecureLink::seal, on both tasks, and begin.                                 *)

SealRead(k) ==
  /\ tasks[k].pc = "idle" /\ spent.seals < MaxSeals
  /\ spent' = [spent EXCEPT !.seals = @ + 1]
  /\ overlapped' = [overlapped EXCEPT !.tasks = @ \/ \E j \in Task : tasks[j].pc # "idle"]
  /\ tasks' = [tasks EXCEPT ![k] = [pc |-> "write", seq |-> own.seq]]
  /\ UNCHANGED <<serverVars, wire, openVars, own, saved, flush, used, reused>>

SealWrite(k) ==
  /\ tasks[k].pc = "write"
  /\ own' = [own EXCEPT !.seq = tasks[k].seq + 1]
  /\ LET number == <<own.boot, tasks[k].seq + 1>>
     IN used' = used \cup {number} /\ reused' = (reused \/ number \in used)
  /\ tasks' = [tasks EXCEPT ![k].pc = "save"]
  /\ UNCHANGED <<serverVars, wire, openVars, saved, flush, overlapped, spent>>

\* An increment of flushCtr is lost when both tasks are at it.
SealSave(k) ==
  /\ tasks[k].pc = "save"
  /\ \E f \in {(flush + 1) % FlushEvery} \cup
              {f \in {flush} : \E j \in Task \ {k} : tasks[j].pc = "save"} :
       /\ flush' = f
       /\ saved' = IF f = 0 THEN [saved EXCEPT !.seq = own.seq] ELSE saved
  /\ tasks' = [tasks EXCEPT ![k] = TaskIdle]
  /\ UNCHANGED <<serverVars, wire, openVars, own, used, reused, overlapped, spent>>

\* Mutants: the boot is not counted, or not saved.
RestartDeviceSameBoot ==
  /\ spent.restarts < MaxRestarts /\ spent' = [spent EXCEPT !.restarts = @ + 1]
  /\ own' = saved /\ saved' = saved /\ flush' = 0 /\ tasks' = [k \in Task |-> TaskIdle]
  /\ last' = <<0, 0>> /\ handled' = <<>>
  /\ UNCHANGED <<serverVars, wire, refused, used, reused, overlapped>>

RestartDeviceUnsaved ==
  /\ spent.restarts < MaxRestarts /\ spent' = [spent EXCEPT !.restarts = @ + 1]
  /\ own' = [boot |-> saved.boot + 1, seq |-> saved.seq] /\ saved' = saved
  /\ flush' = 0 /\ tasks' = [k \in Task |-> TaskIdle]
  /\ last' = <<0, 0>> /\ handled' = <<>>
  /\ UNCHANGED <<serverVars, wire, refused, used, reused, overlapped>>

\* The device starts again: begin counts the boot and loads the number saved last.
RestartDevice ==
  /\ spent.restarts < MaxRestarts /\ spent' = [spent EXCEPT !.restarts = @ + 1]
  /\ own' = [boot |-> saved.boot + 1, seq |-> saved.seq]
  /\ saved' = [saved EXCEPT !.boot = @ + 1]
  /\ flush' = 0 /\ tasks' = [k \in Task |-> TaskIdle]
  /\ last' = <<0, 0>> /\ handled' = <<>>
  /\ UNCHANGED <<serverVars, wire, refused, used, reused, overlapped>>

-----------------------------------------------------------------------------
Init ==
  /\ clock = 1 /\ entries = <<>> /\ current = 0
  /\ threads = [t \in Thread |-> ThreadIdle] /\ wire = <<>> /\ published = <<>>
  /\ last = <<0, 0>> /\ handled = <<>> /\ refused = FALSE
  /\ own = [boot |-> 1, seq |-> 0] /\ saved = [boot |-> 1, seq |-> 0] /\ flush = 0
  /\ tasks = [k \in Task |-> TaskIdle] /\ used = {} /\ reused = FALSE
  /\ overlapped = [threads |-> FALSE, tasks |-> FALSE]
  /\ spent = [sends |-> 0, copies |-> 0, losses |-> 0, seals |-> 0, restarts |-> 0]

Seal(t) == GetEntry(t) \/ ReadSeq(t) \/ WriteSeq(t) \/ StoreEntry(t) \/ Pack(t) \/ Publish(t)

Next ==
  \/ \E t \in Thread : Seal(t)
  \/ Tick \/ RestartServer \/ Copy \/ Lose \/ Open \/ RestartDevice
  \/ \E k \in Task : SealRead(k) \/ SealWrite(k) \/ SealSave(k)

Spec == Init /\ [][Next]_vars

-----------------------------------------------------------------------------
(* Properties.                                                                *)

\* Every variable has its type.
TypeOK ==
  /\ clock \in 1..MaxClock
  /\ entries \in Seq([boot : Nat, seq : Nat]) /\ current \in 0..Len(entries)
  /\ threads \in [Thread -> [pc : {"idle", "read", "write", "store", "pack", "publish"},
                             entry : 0..Len(entries), seq : Nat, boot : Nat]]
  /\ wire \in Seq([id : 1..Len(published), boot : Nat, seq : Nat, first : BOOLEAN])
  /\ last \in Nat \X Nat
  /\ own \in [boot : Nat, seq : Nat] /\ saved \in [boot : Nat, seq : Nat]
  /\ flush \in 0..(FlushEvery - 1) /\ saved.boot = own.boot
  /\ tasks \in [Task -> [pc : {"idle", "write", "save"}, seq : Nat]]
  /\ {refused, reused, overlapped.threads, overlapped.tasks} \subseteq BOOLEAN

\* Between two starts the device handles no message twice, whatever the broker
\* sends again, and although two threads may have given two messages one number.
HandledOnce ==
  \A i, j \in 1..Len(handled) : i # j => handled[i].id # handled[j].id

\* A message is not refused at its first arrival, although server and device
\* restart, messages are lost and copies of old ones arrive in between, unless two
\* threads of the server sealed at the same time.
NoneRefused == refused => overlapped.threads

\* No two messages of the device carry the same number, although the number is
\* saved only now and then, unless its two tasks sealed at the same time.
NumbersDiffer == reused => overlapped.tasks

=============================================================================
