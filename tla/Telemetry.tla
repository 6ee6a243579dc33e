------------------------------- MODULE Telemetry -------------------------------
(***************************************************************************)
(* The way of a record from the inverter to the server's data_records.     *)
(* The main task polls into the ring, and when the upload period is over   *)
(* drains it, compresses the batch and puts it on the transmit queue; the  *)
(* cloud task publishes from that queue, which it shares with the answers  *)
(* to write commands; the server's MQTT thread decodes what arrives.       *)
(*                                                                         *)
(* Nothing is sent twice: what a full queue refuses, a publish fails to    *)
(* send or the network loses is gone.                                      *)
(***************************************************************************)
EXTENDS RingBuffer, DeltaCodec

CONSTANTS
  Reply,       \* replies of the inverter: the values of its first registers
  Mask,        \* values REG_REQ_ID_1 may be configured to
  DefaultMask, \* REG_REQ_ID_1 after a restart
  Gap,         \* seconds between two polls
  QueueCap,    \* slots of mqttTxQueue
  MaxRecords,  \* records the server keeps
  MaxPolls, MaxConfigs, MaxAcks, MaxFaults  \* bounds

ASSUME TelemetryAssumption ==
  /\ Reply \subseteq Seq(Word) /\ Gap \subseteq Nat \ {0}
  /\ Mask \subseteq Word /\ DefaultMask \in Word
  /\ {QueueCap, MaxRecords} \subseteq Nat \ {0}
  /\ {MaxPolls, MaxConfigs, MaxAcks, MaxFaults} \subseteq Nat

VARIABLES
  ring,      \* g_buffer
  mask,      \* REG_REQ_ID_1
  txq,       \* mqttTxQueue
  air,       \* messages published and not yet handled by the server
  records,   \* data_records of the server
  captured,  \* history: every record built from a reply of the inverter
  gone,      \* history: time stamps of the records that were given up
  spent      \* how much of each bound is used

vars == <<ring, mask, txq, air, records, captured, gone, spent>>

\* batch is history: the records in the bytes.
Message == [bytes : Seq(Byte), batch : Seq(Record)]
WriteAck == [bytes |-> <<>>, batch |-> <<>>]

Stamps(recs) == [i \in 1..Len(recs) |-> recs[i].ts]
StampsOf(msgs) == FlattenSeq([i \in 1..Len(msgs) |-> Stamps(msgs[i].batch)])

\* gone takes the time stamps of the records of a sequence.
GiveUp(recs) == gone' = gone \cup ToSet(Stamps(recs))

-----------------------------------------------------------------------------
(* The main task.                                                          *)

LastStamp == IF captured = <<>> THEN 0 ELSE captured[Len(captured)].ts

\* buildFromRTU_Select_NoCRC: the selected registers among those in the reply.
Built(ts, reply) ==
  [ts |-> ts,
   regs |-> [reg \in {r \in Selected(mask) : r < Len(reply)} |-> reply[reg + 1]]]

\* Poller::read with a good reply.
Poll ==
  /\ Len(captured) < MaxPolls
  /\ \E reply \in Reply, gap \in Gap :
       LET r == Built(LastStamp + gap, reply)
       IN /\ captured' = Append(captured, r)
          /\ ring' = Pushed(ring, r)
  /\ gone' = IF Full(ring) THEN gone \cup {Contents(ring)[1].ts} ELSE gone
  /\ UNCHANGED <<mask, txq, air, records, spent>>

\* mqttEnqueue
HasRoom == Len(txq) < QueueCap

\* Something to send.  Mutant: an upload waits until the ring is full.
UploadDueFull == Full(ring)

UploadDue == ring.size > 0

\* Mutant: the batch is taken without emptying the ring.
UploadKeepsRing ==
  /\ UploadDue
  /\ LET batch == Contents(ring)
         m == [bytes |-> CompressDelta(batch, mask), batch |-> batch]
     IN txq' = (IF HasRoom THEN Append(txq, m) ELSE txq)
  /\ UNCHANGED <<ring, mask, air, records, captured, gone, spent>>

\* The upload period is over: drainTo and uploadBatch, whose message a full
\* queue refuses.
Upload ==
  /\ UploadDue
  /\ LET batch == Contents(ring)
         m == [bytes |-> CompressDelta(batch, mask), batch |-> batch]
     IN IF HasRoom THEN txq' = Append(txq, m) /\ gone' = gone
        ELSE txq' = txq /\ GiveUp(batch)
  /\ ring' = Drained(ring)
  /\ UNCHANGED <<mask, air, records, captured, spent>>

\* seal fails: the drained batch is dropped.
UploadFails ==
  /\ UploadDue /\ spent.faults < MaxFaults
  /\ GiveUp(Contents(ring))
  /\ ring' = Drained(ring)
  /\ spent' = [spent EXCEPT !.faults = @ + 1]
  /\ UNCHANGED <<mask, txq, air, records, captured>>

\* One message of an attempt of Poller::write.
AckWrite ==
  /\ spent.acks < MaxAcks
  /\ txq' = IF HasRoom THEN Append(txq, WriteAck) ELSE txq
  /\ spent' = [spent EXCEPT !.acks = @ + 1]
  /\ UNCHANGED <<ring, mask, air, records, captured, gone>>

\* ApplyConfig
ApplyConfig ==
  /\ spent.configs < MaxConfigs
  /\ mask' \in Mask
  /\ spent' = [spent EXCEPT !.configs = @ + 1]
  /\ UNCHANGED <<ring, txq, air, records, captured, gone>>

-----------------------------------------------------------------------------
(* The cloud task.                                                         *)

Publish ==
  /\ txq # <<>>
  /\ txq' = Tail(txq) /\ air' = Append(air, Head(txq))
  /\ UNCHANGED <<ring, mask, records, captured, gone, spent>>

\* A message that cannot be sent is deleted as well.
PublishFails ==
  /\ txq # <<>> /\ spent.faults < MaxFaults
  /\ txq' = Tail(txq) /\ GiveUp(Head(txq).batch)
  /\ spent' = [spent EXCEPT !.faults = @ + 1]
  /\ UNCHANGED <<ring, mask, air, records, captured>>

\* Power loss or restart: the ring and the queue are in RAM.
Restart ==
  /\ spent.faults < MaxFaults
  /\ gone' = gone \cup ToSet(Stamps(Contents(ring))) \cup ToSet(StampsOf(txq))
  /\ ring' = EmptyRing /\ txq' = <<>> /\ mask' = DefaultMask
  /\ spent' = [spent EXCEPT !.faults = @ + 1]
  /\ UNCHANGED <<air, records, captured>>

-----------------------------------------------------------------------------
(* The network and the server.                                             *)

\* QoS 0
Lose ==
  /\ air # <<>> /\ spent.faults < MaxFaults
  /\ \E i \in 1..Len(air) : air' = RemoveAt(air, i) /\ GiveUp(air[i].batch)
  /\ spent' = [spent EXCEPT !.faults = @ + 1]
  /\ UNCHANGED <<ring, mask, txq, records, captured>>

\* trim_records
Trimmed(recs) ==
  IF Len(recs) > MaxRecords THEN SubSeq(recs, Len(recs) - MaxRecords + 1, Len(recs)) ELSE recs

\* on_message for the topic of the data.
Receive ==
  /\ air # <<>>
  /\ LET m == Head(air)
         recs == IF m.bytes = <<>> THEN <<>> ELSE DecompressDelta(m.bytes)
         kept == Trimmed(records \o recs)
     IN /\ records' = kept
        /\ gone' = gone \cup ((ToSet(Stamps(m.batch)) \cup ToSet(Stamps(records)))
                                \ ToSet(Stamps(kept)))
  /\ air' = Tail(air)
  /\ UNCHANGED <<ring, mask, txq, captured, spent>>

-----------------------------------------------------------------------------
Init ==
  /\ ring = EmptyRing /\ mask = DefaultMask
  /\ txq = <<>> /\ air = <<>> /\ records = <<>>
  /\ captured = <<>> /\ gone = {}
  /\ spent = [configs |-> 0, acks |-> 0, faults |-> 0]

MainTask == Poll \/ Upload \/ UploadFails \/ AckWrite \/ ApplyConfig
CloudTask == Publish \/ PublishFails
Environment == Restart \/ Lose

Next == MainTask \/ CloudTask \/ Environment \/ Receive

Spec == Init /\ [][Next]_vars

\* The upload period ends again and again, and both clients keep running: weak
\* fairness of Upload, Publish and Receive.  WF_vars(A) is written out with the guard
\* of A, which is what enables it, because to evaluate ENABLED A is to run the codec.
FairSpec ==
  /\ Spec
  /\ []<>(~UploadDue) \/ []<><<Upload>>_vars
  /\ []<>(txq = <<>>) \/ []<><<Publish>>_vars
  /\ []<>(air = <<>>) \/ []<><<Receive>>_vars

-----------------------------------------------------------------------------
(* Properties.                                                             *)

\* The ring is a queue that drops its oldest record and counts it.
Queue == INSTANCE DropOldestQueue WITH items <- Contents(ring), dropped <- ring.dropped

RingIsQueue == Queue!Spec

\* What the server, the network, the transmit queue and the ring hold, one after the
\* other: the time stamps, as the server decoded them.
Line == Stamps(records) \o StampsOf(air) \o StampsOf(txq) \o Stamps(Contents(ring))

Increasing(s) == \A i, j \in 1..Len(s) : i < j => s[i] < s[j]

\* Every record captured is in one place, in the order of capture, or was given up.
Pipeline == Increasing(Line) /\ ToSet(Line) = ToSet(Stamps(captured)) \ gone

Captured(ts) == CHOOSE i \in 1..Len(captured) : captured[i].ts = ts

\* The server shows for a register what the inverter returned for it, whatever
\* batch, mask and order of registers the value travelled with.
ValuesAsRead ==
  \A i \in 1..Len(records) :
    LET r == captured[Captured(records[i].ts)]
    IN \A reg \in DOMAIN r.regs \cap DOMAIN records[i].regs :
         records[i].regs[reg] = r.regs[reg]

\* Every record captured reaches the server or is given up.
EverythingSettles ==
  \A n \in 1..MaxPolls :
    Len(captured) >= n ~>
      Len(captured) >= n /\ captured[n].ts \in gone \cup ToSet(Stamps(records))

=============================================================================
