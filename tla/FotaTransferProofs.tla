-------------------------- MODULE FotaTransferProofs --------------------------
(***************************************************************************)
(* Proofs about FotaTransfer, for every set of firmware files, every chunk *)
(* size and every bound: types, the bound on the messages under way, what  *)
(* the device has written, and the life of the MQTT thread.                *)
(***************************************************************************)
EXTENDS FotaTransfer, Integers, TLAPS

USE DEF FaultModes, ControlOps

-----------------------------------------------------------------------------
(* What the actions build has the type of the variable it goes to.         *)

LEMMA WithoutType ==
  ASSUME NEW S, NEW s \in Seq(S), NEW i \in 1..Len(s)
  PROVE  /\ Without(s, i) \in Seq(S)
         /\ Len(Without(s, i)) = Len(s) - 1
<1> DEFINE l == SubSeq(s, 1, i - 1)
           r == SubSeq(s, i + 1, Len(s))
<1>1. l \in Seq(S) /\ Len(l) = i - 1
  <2>1. \A k \in 1..i - 1 : s[k] \in S
    OBVIOUS
  <2> QED
    BY <2>1
<1>2. r \in Seq(S) /\ Len(r) = Len(s) - i
  <2>1. \A k \in i + 1..Len(s) : s[k] \in S
    OBVIOUS
  <2> QED
    BY <2>1
<1> HIDE DEF l, r
<1>3. l \o r \in Seq(S) /\ Len(l \o r) = Len(l) + Len(r)
  BY <1>1, <1>2
<1>4. Len(l \o r) = Len(s) - 1
  BY <1>1, <1>2, <1>3
<1> QED
  BY <1>3, <1>4 DEF Without, l, r

LEMMA SliceType ==
  ASSUME NEW f \in Seq(Unit), NEW i \in Nat, NEW j \in Nat
  PROVE  Slice(f, i, j) \in Seq(Unit)
<1> DEFINE n == IF j < Len(f) THEN j ELSE Len(f)
<1>1. n \in Nat /\ n <= Len(f)
  OBVIOUS
<1>2. \A k \in i + 1..n : f[k] \in Unit
  BY <1>1
<1>3. SubSeq(f, i + 1, n) \in Seq(Unit)
  BY <1>1, <1>2
<1> QED
  BY <1>3 DEF Slice

\* A chunk cut from a slice is a chunk message, whatever the fault.
LEMMA CutsType ==
  ASSUME TypeOK, NEW buf \in Seq(Unit), NEW m \in Cuts(buf)
  PROVE  m \in Message
<1> DEFINE full == [op |-> "chunk", off |-> thread.off, data |-> buf,
              intact |-> session.fault # "bad_sha", sealed |-> session.fault # "bad_enc"]
<1>1. thread.off \in Nat
  BY DEF TypeOK, Thread
<1>2. full \in Message
  BY <1>1 DEF Message
<1>3. ASSUME NEW n \in 1..Len(buf), m = [full EXCEPT !.data = SubSeq(buf, 1, n)]
      PROVE  m \in Message
  <2>1. \A k \in 1..n : buf[k] \in Unit
    OBVIOUS
  <2>2. SubSeq(buf, 1, n) \in Seq(Unit)
    BY <2>1
  <2>3. m = [op |-> "chunk", off |-> thread.off, data |-> SubSeq(buf, 1, n),
             intact |-> session.fault # "bad_sha", sealed |-> session.fault # "bad_enc"]
    BY <1>3
  <2> QED
    BY <1>1, <2>2, <2>3 DEF Message
<1> QED
  BY <1>2, <1>3 DEF Cuts

LEMMA PublishType ==
  ASSUME TypeOK, NEW m \in Message, Publish(m)
  PROVE  down' \in Seq(Message) /\ Len(down') <= Len(down) + 1
BY DEF TypeOK, Publish

LEMMA RefusalType ==
  ASSUME NEW ev \in {"error", "chunk_sha_mismatch", "verify_ok", "verify_fail",
                     "rebooting"}
  PROVE  Refusal(ev) \in Report
BY DEF Refusal, Report

LEMMA StatusType ==
  ASSUME NEW ev \in {"need_chunks", "progress"}, NEW d \in DeviceJob, d.job # None
  PROVE  Status(ev, d) \in Report
<1>1. d.job \in Seq(Unit) /\ d.off \in Nat
  BY TransferAssumption DEF DeviceJob
<1> QED
  BY <1>1 DEF Status, Report

LEMMA AnswerType ==
  ASSUME TypeOK, NEW r \in Report, Answer(r)
  PROVE  up' \in Seq(Report) /\ Len(up') = Len(up) + 1
BY DEF TypeOK, Answer

LEMMA IdleType ==
  ASSUME NEW d \in DeviceJob
  PROVE  Idle(d) \in DeviceJob /\ ~Idle(d).pend
<1>1. <<>> \in Seq(Unit)
  OBVIOUS
<1> QED
  BY <1>1 DEF Idle, DeviceJob

\* One more of a bounded thing.
LEMMA SpentTypes ==
  ASSUME NEW s \in Spent
  PROVE  /\ s.uploads \in Nat /\ s.settings \in Nat /\ s.commands \in Nat /\ s.aborts \in Nat
         /\ s.restarts \in Nat /\ s.losses \in Nat
         /\ s.uploads < MaxUploads => [s EXCEPT !.uploads = s.uploads + 1] \in Spent
         /\ [s EXCEPT !.settings = s.settings + 1] \in Spent
         /\ [s EXCEPT !.commands = s.commands + 1, !.aborts = s.aborts] \in Spent
         /\ [s EXCEPT !.commands = s.commands + 1, !.aborts = s.aborts + 1] \in Spent
         /\ s.restarts < MaxRestarts => [s EXCEPT !.restarts = s.restarts + 1] \in Spent
         /\ s.losses < MaxLosses => [s EXCEPT !.losses = s.losses + 1] \in Spent
<1>1. {MaxUploads, MaxRestarts, MaxLosses} \subseteq Nat
  BY TransferAssumption
<1>2. /\ s.uploads \in Nat /\ s.settings \in Nat /\ s.commands \in Nat /\ s.aborts \in Nat
      /\ s.restarts \in Nat /\ s.losses \in Nat
  BY <1>1 DEF Spent
<1>3. /\ s.uploads < MaxUploads => [s EXCEPT !.uploads = s.uploads + 1] \in Spent
      /\ [s EXCEPT !.settings = s.settings + 1] \in Spent
  BY <1>1 DEF Spent
<1>4. /\ [s EXCEPT !.commands = s.commands + 1, !.aborts = s.aborts] \in Spent
      /\ [s EXCEPT !.commands = s.commands + 1, !.aborts = s.aborts + 1] \in Spent
  <2>1. ASSUME NEW c \in Nat, NEW n \in Nat
        PROVE  [s EXCEPT !.commands = c, !.aborts = n] \in Spent
    BY DEF Spent
  <2>2. s.commands + 1 \in Nat /\ s.aborts + 1 \in Nat
    BY <1>2
  <2> QED
    BY <1>2, <2>1, <2>2
<1>5. s.restarts < MaxRestarts => [s EXCEPT !.restarts = s.restarts + 1] \in Spent
  BY <1>1 DEF Spent
<1>6. s.losses < MaxLosses => [s EXCEPT !.losses = s.losses + 1] \in Spent
  BY <1>1 DEF Spent
<1> QED
  BY <1>2, <1>3, <1>4, <1>5, <1>6

LEMMA EmptySessionType == EmptySession \in Session
BY DEF EmptySession, Session

LEMMA AtRestType == AtRest \in Thread /\ AtRest.pc = "idle"
BY DEF AtRest, Thread

\* The thread about to publish a message.
LEMMA AtSendType ==
  ASSUME NEW m \in Message
  PROVE  /\ [AtRest EXCEPT !.pc = "send", !.msg = m] \in Thread
         /\ [AtRest EXCEPT !.pc = "send", !.msg = m].msg = m
         /\ [AtRest EXCEPT !.pc = "send", !.msg = m].pc = "send"
         /\ [AtRest EXCEPT !.pc = "send", !.msg = m].total = 0
BY DEF AtRest, Thread

-----------------------------------------------------------------------------
(* Types.                                                                  *)

LEMMA InitTypes == Init => TypeOK
<1> SUFFICES ASSUME Init PROVE TypeOK
  OBVIOUS
<1>1. device \in DeviceJob /\ ~device.pend
  <2>1. <<>> \in Seq(Unit)
    OBVIOUS
  <2> QED
    BY <2>1 DEF Init, DeviceJob, Chosen
<1>2. spent \in Spent
  BY TransferAssumption DEF Init, Spent
<1>3. down \in Seq(Message) /\ up \in Seq(Report)
  BY DEF Init
<1> QED
  BY <1>1, <1>2, <1>3, EmptySessionType, AtRestType DEF Init, TypeOK

\* fotaReceived.
LEMMA ReceiveTypes ==
  ASSUME TypeOK, Receive
  PROVE  TypeOK' /\ Len(up') <= Len(up) + 1 /\ Len(down') = Len(down) - 1
<1> DEFINE m == Head(down)
<1>1. m \in Message /\ down' \in Seq(Message) /\ Len(down') = Len(down) - 1
  BY DEF Receive, TypeOK
<1>2. UNCHANGED <<session, thread, posting, spent>>
  BY DEF Receive, server
<1>3. /\ device' \in DeviceJob /\ (device'.pend => device'.job # None)
      /\ up' \in Seq(Report) /\ Len(up') <= Len(up) + 1
  <2>1. CASE TakeManifest(m)
    <3>1. m.fw \in Firmware /\ m.fw # None
      BY <1>1, <2>1, TransferAssumption DEF TakeManifest, Message
    <3>2. device' \in DeviceJob /\ device'.job # None
      <4>1. CASE device.pend /\ device.job = m.fw
        BY <2>1, <3>1, <4>1 DEF TakeManifest, TypeOK
      <4>2. CASE ~(device.pend /\ device.job = m.fw)
        <5>1. device' = [device EXCEPT !.pend = TRUE, !.job = m.fw, !.off = 0,
                !.data = <<>>,
                !.chosen = IF @ = "verified" THEN "overwritten" ELSE @]
          BY <2>1, <4>2 DEF TakeManifest
        <5>2. <<>> \in Seq(Unit) /\ device \in DeviceJob
          BY DEF TypeOK
        <5> QED
          BY <3>1, <5>1, <5>2 DEF DeviceJob, Chosen
      <4> QED
        BY <4>1, <4>2
    <3>3. Status("need_chunks", device') \in Report
      BY <3>2, StatusType
    <3>4. Answer(Status("need_chunks", device'))
      BY <2>1 DEF TakeManifest
    <3> QED
      BY <3>2, <3>3, <3>4, AnswerType
  <2>2. CASE TakeChunk(m)
    <3>1. m.data \in Seq(Unit)
      BY <1>1, <2>2 DEF TakeChunk, Message
    <3>2. CASE ChunkFits(m)
      <4>1. PICK n, w : /\ n = device.off + Len(m.data) /\ w = device.data \o m.data
                        /\ device' = [device EXCEPT !.off = n, !.data = w]
        BY <2>2, <3>2 DEF TakeChunk
      <4>2. device \in DeviceJob /\ device.job # None
        BY <3>2 DEF TypeOK, ChunkFits
      <4>3. n \in Nat /\ w \in Seq(Unit)
        BY <3>1, <4>1, <4>2 DEF DeviceJob
      <4>4. device' \in DeviceJob /\ device'.job # None
        BY <4>1, <4>2, <4>3 DEF DeviceJob
      <4>5. Status("progress", device') \in Report
        BY <4>4, StatusType
      <4>6. Answer(Status("progress", device'))
        BY <2>2, <3>2 DEF TakeChunk
      <4> QED
        BY <4>4, <4>5, <4>6, AnswerType
    <3>3. CASE ~ChunkFits(m)
      BY <2>2, <3>3, RefusalType, AnswerType DEF TakeChunk, TypeOK
    <3> QED
      BY <3>2, <3>3
  <2>3. CASE DropTampered(m)
    BY <2>3 DEF TypeOK, DropTampered
  <2>4. CASE TakeFinish(m)
    <3>1. CASE ~device.pend \/ device.off # Len(device.job)
      BY <2>4, <3>1, RefusalType, AnswerType DEF TakeFinish, TypeOK
    <3>2. CASE device.pend /\ device.off = Len(device.job) /\ DigestMatches
      <4>1. device' = [device EXCEPT !.off = 0, !.data = <<>>, !.chosen = "verified",
                                     !.image = device.data]
        BY <2>4, <3>2 DEF TakeFinish
      <4>2. <<>> \in Seq(Unit) /\ device \in DeviceJob /\ device.job # None
        BY <3>2 DEF TypeOK
      <4>3. device' \in DeviceJob /\ device'.job # None
        BY <4>1, <4>2 DEF DeviceJob, Chosen
      <4> QED
        BY <2>4, <3>2, <4>3, RefusalType, AnswerType DEF TakeFinish
    <3>3. CASE device.pend /\ device.off = Len(device.job) /\ ~DigestMatches
      <4>1. device' = Idle(device)
        BY <2>4, <3>3 DEF TakeFinish
      <4> QED
        BY <2>4, <3>3, <4>1, IdleType, RefusalType, AnswerType DEF TakeFinish, TypeOK
    <3> QED
      BY <3>1, <3>2, <3>3
  <2>5. CASE TakeUnknown(m)
    BY <2>5, RefusalType, AnswerType DEF TypeOK, TakeUnknown
  <2> QED
    BY <2>1, <2>2, <2>3, <2>4, <2>5 DEF Receive
<1> HIDE DEF m
<1>4. TypeOK'
  BY <1>1, <1>2, <1>3 DEF TypeOK
<1> QED
  BY <1>1, <1>3, <1>4

LEMMA DeviceTypes ==
  ASSUME TypeOK, Device
  PROVE  TypeOK'
<1>1. CASE Receive
  BY <1>1, ReceiveTypes
<1>2. CASE TakeReboot
  <2>1. device' \in DeviceJob /\ device'.pend = device.pend /\ device'.job = device.job
    BY <1>2 DEF TakeReboot, GoDown, TypeOK, DeviceJob
  <2>2. up' \in Seq(Report) /\ down' \in Seq(Message)
    BY <1>2, RefusalType, AnswerType DEF TakeReboot, GoDown
  <2> QED
    BY <1>2, <2>1, <2>2 DEF TakeReboot, TypeOK, server
<1>3. CASE Start
  <2>1. PICK d \in {device, Idle(device)}, c \in {"running", device.chosen} :
          device' = [d EXCEPT !.online = TRUE, !.chosen = c]
    BY <1>3 DEF Start
  <2>2. d \in DeviceJob /\ c \in Chosen /\ (d.pend => d.job # None)
    BY IdleType DEF TypeOK, DeviceJob, Chosen
  <2>3. device' \in DeviceJob /\ (device'.pend => device'.job # None)
    BY <2>1, <2>2 DEF DeviceJob
  <2> QED
    BY <1>3, <2>3 DEF Start, TypeOK, server
<1> QED
  BY <1>1, <1>2, <1>3 DEF Device

\* on_message, and the second half of an HTTP handler.
LEMMA ServerTypes ==
  ASSUME TypeOK, MqttThread \/ Post
  PROVE  TypeOK'
<1> USE DEF TypeOK
<1>1. CASE TakeStatus
  <2>1. Head(up) \in Report /\ up' \in Seq(Report)
    BY <1>1 DEF TakeStatus
  <2>2. session' \in Session
    BY <1>1, <2>1 DEF TakeStatus, Session, Report
  <2>3. thread' \in Thread /\ thread'.pc # "send"
    BY <1>1, <2>1 DEF TakeStatus, Thread, Report
  <2> QED
    BY <1>1, <2>1, <2>2, <2>3 DEF TakeStatus
<1>2. CASE StoreTotal
  <2>1. session' \in Session
    BY <1>2 DEF StoreTotal, Session, Thread
  <2>2. thread' \in Thread /\ thread'.pc # "send"
    BY <1>2 DEF StoreTotal, Thread
  <2> QED
    BY <1>2, <2>1, <2>2 DEF StoreTotal
<1>3. CASE CheckActive
  <2>1. thread' \in Thread /\ thread'.pc # "send"
    BY <1>3, AtRestType DEF CheckActive, Thread
  <2> QED
    BY <1>3, <2>1 DEF CheckActive
<1>4. CASE ReadCursor
  <2>1. [op |-> "finish"] \in Message
    BY DEF Message
  <2>2. thread' \in Thread /\ (thread'.pc = "send" => thread'.msg \in Message)
    <3>1. CASE session.off >= session.total
      BY <1>4, <2>1, <3>1, AtSendType DEF ReadCursor
    <3>2. CASE ~(session.off >= session.total)
      BY <1>4, <3>2 DEF ReadCursor, Thread, Session
    <3> QED
      BY <3>1, <3>2
  <2> QED
    BY <1>4, <2>2 DEF ReadCursor
<1>5. CASE Cut
  <2>1. thread' \in Thread /\ (thread'.pc = "send" => thread'.msg \in Message)
    <3>1. CASE session.firmware = None
      BY <1>5, <3>1 DEF Cut, AtRest, Thread
    <3>2. CASE session.firmware # None
      <4> DEFINE buf == Slice(session.firmware, thread.off, End)
      <4>1. session.firmware \in Seq(Unit) /\ thread.off \in Nat /\ End \in Nat
        BY <3>2, TransferAssumption DEF Session, Thread, End
      <4>2. buf \in Seq(Unit)
        BY <4>1, SliceType
      <4>3. PICK m \in Cuts(buf) : thread' = [AtRest EXCEPT !.pc = "send", !.msg = m]
        BY <1>5, <3>2 DEF Cut
      <4>4. m \in Message
        BY <4>2, CutsType
      <4> QED
        BY <4>3, <4>4, AtSendType
    <3> QED
      BY <3>1, <3>2
  <2> QED
    BY <1>5, <2>1 DEF Cut
<1>6. CASE Send
  <2>1. down' \in Seq(Message)
    BY <1>6, PublishType DEF Send
  <2>2. session' \in Session
    BY <1>6 DEF Send, Session
  <2> QED
    BY <1>6, <2>1, <2>2, AtRestType DEF Send
<1>7. CASE Post
  <2>1. down' \in Seq(Message)
    BY <1>7, PublishType DEF Post
  <2> QED
    BY <1>7, <2>1 DEF Post
<1> QED
  BY <1>1, <1>2, <1>3, <1>4, <1>5, <1>6, <1>7 DEF MqttThread

\* Requests that only set the session, and requests with a command.
LEMMA OperatorTypes ==
  ASSUME TypeOK, Operator
  PROVE  /\ TypeOK'
         /\ UNCHANGED <<thread, down, up>>
         /\ \/ posting' = posting /\ spent'.uploads + spent'.commands
                                       = spent.uploads + spent.commands
            \/ posting = None /\ spent'.uploads + spent'.commands
                                       = spent.uploads + spent.commands + 1
<1> USE DEF TypeOK
<1>0. spent \in Spent /\ spent.uploads \in Nat /\ spent.commands \in Nat
  BY SpentTypes
<1>1. ASSUME Setting
      PROVE  /\ UNCHANGED <<thread, down, up, device>> /\ spent' \in Spent
             /\ spent'.uploads + spent'.commands = spent.uploads + spent.commands
  BY <1>1 DEF Setting, Spent
<1>2. ASSUME NEW op \in {"abort", "reboot"}, Command(op)
      PROVE  /\ UNCHANGED <<thread, down, up, device>> /\ spent' \in Spent
             /\ posting = None /\ posting' \in Message
             /\ spent'.uploads + spent'.commands = spent.uploads + spent.commands + 1
  <2>1. [op |-> op] \in Message
    BY DEF Message
  <2>2. \/ spent' = [spent EXCEPT !.commands = spent.commands + 1, !.aborts = spent.aborts]
        \/ spent' = [spent EXCEPT !.commands = spent.commands + 1, !.aborts = spent.aborts + 1]
    BY <1>2 DEF Command
  <2>3. spent'.uploads = spent.uploads /\ spent'.commands = spent.commands + 1
    BY <2>2 DEF Spent
  <2>4. /\ spent' \in Spent
        /\ spent'.uploads + spent'.commands = spent.uploads + spent.commands + 1
    <3>1. spent' \in Spent
      BY <1>0, <2>2, SpentTypes
    <3> QED
      BY <1>0, <2>3, <3>1
  <2> QED
    BY <1>2, <2>1, <2>4 DEF Command
<1>3. ASSUME NEW f \in Firmware, StartUpload(f)
      PROVE  /\ UNCHANGED <<thread, down, up, device>>
             /\ session' \in Session /\ posting = None /\ posting' \in Message
             /\ spent' \in Spent
             /\ spent'.uploads + spent'.commands = spent.uploads + spent.commands + 1
  <2>1. Len(f) \in Nat
    BY TransferAssumption
  <2>2. session' \in Session
    BY <1>3, <2>1 DEF StartUpload, EmptySession, Session
  <2>3. posting' \in Message
    BY <1>3 DEF StartUpload, Message
  <2>4. spent' = [spent EXCEPT !.uploads = spent.uploads + 1]
    BY <1>3 DEF StartUpload
  <2>5. spent'.uploads = spent.uploads + 1 /\ spent'.commands = spent.commands
    BY <2>4 DEF Spent
  <2>6. /\ spent' \in Spent
        /\ spent'.uploads + spent'.commands = spent.uploads + spent.commands + 1
    <3>1. spent' \in Spent
      BY <1>0, <1>3, <2>4, SpentTypes DEF StartUpload
    <3> QED
      BY <1>0, <2>5, <3>1
  <2> QED
    BY <1>3, <2>2, <2>3, <2>6 DEF StartUpload
<1>4. CASE \E mode \in FaultModes, once \in BOOLEAN : ArmFault(mode, once)
  <2>1. session' \in Session /\ UNCHANGED posting /\ Setting
    BY <1>4 DEF ArmFault, Session
  <2> QED
    BY <1>1, <2>1
<1>5. CASE Pause \/ Resume
  <2>1. session' \in Session /\ UNCHANGED posting /\ Setting
    BY <1>5 DEF Pause, Resume, Session
  <2> QED
    BY <1>1, <2>1
<1>6. CASE Abort
  <2>1. session' \in Session
    BY <1>6 DEF Abort, EmptySession, Session
  <2> QED
    BY <1>2, <1>6, <2>1 DEF Abort
<1>7. CASE AskReboot
  BY <1>2, <1>7 DEF AskReboot
<1> QED
  BY <1>3, <1>4, <1>5, <1>6, <1>7 DEF Operator

LEMMA EnvironmentTypes ==
  ASSUME TypeOK, Environment
  PROVE  /\ TypeOK'
         /\ Len(down') <= Len(down) /\ Len(up') <= Len(up)
         /\ UNCHANGED <<thread, posting>>
         /\ spent'.uploads = spent.uploads /\ spent'.commands = spent.commands
<1> USE DEF TypeOK
<1>1. CASE PowerLoss
  <2>1. device' \in DeviceJob /\ device'.pend = device.pend /\ device'.job = device.job
    BY <1>1 DEF PowerLoss, GoDown, DeviceJob
  <2>2. /\ spent' \in Spent
        /\ spent'.uploads = spent.uploads /\ spent'.commands = spent.commands
    <3>1. spent' = [spent EXCEPT !.restarts = spent.restarts + 1]
      BY <1>1 DEF PowerLoss
    <3>2. spent'.uploads = spent.uploads /\ spent'.commands = spent.commands
      BY <3>1 DEF Spent
    <3> QED
      BY <1>1, <3>1, <3>2, SpentTypes DEF PowerLoss
  <2>3. down' \in Seq(Message) /\ Len(down') = 0 /\ UNCHANGED <<session, thread, posting, up>>
    BY <1>1 DEF PowerLoss, GoDown, server
  <2> QED
    BY <2>1, <2>2, <2>3
<1>2. CASE Lose
  <2>1. /\ down' \in Seq(Message) /\ Len(down') <= Len(down)
        /\ up' \in Seq(Report) /\ Len(up') <= Len(up)
    <3>1. CASE \E i \in 1..Len(down) : down' = Without(down, i) /\ up' = up
      BY <3>1, WithoutType
    <3>2. CASE \E i \in 1..Len(up) : up' = Without(up, i) /\ down' = down
      BY <3>2, WithoutType
    <3> QED
      BY <1>2, <3>1, <3>2 DEF Lose
  <2>2. /\ spent' \in Spent
        /\ spent'.uploads = spent.uploads /\ spent'.commands = spent.commands
    <3>1. spent' = [spent EXCEPT !.losses = spent.losses + 1]
      BY <1>2 DEF Lose
    <3>2. spent'.uploads = spent.uploads /\ spent'.commands = spent.commands
      BY <3>1 DEF Spent
    <3> QED
      BY <1>2, <3>1, <3>2, SpentTypes DEF Lose
  <2> QED
    BY <1>2, <2>1, <2>2 DEF Lose, server
<1> QED
  BY <1>1, <1>2 DEF Environment

\* Every variable keeps its type: the device's offset and the two copies of the
\* total stay natural numbers, a pending job is a firmware, and a message about to
\* be published is one.
THEOREM TransferTypeCorrect == Spec => []TypeOK
  <1>1. Init => TypeOK
    BY InitTypes
  <1>2. TypeOK /\ [Next]_vars => TypeOK'
    <2> SUFFICES ASSUME TypeOK, [Next]_vars
                 PROVE  TypeOK'
      OBVIOUS
    <2>1. CASE UNCHANGED vars
      BY <2>1 DEF TypeOK, vars
    <2>2. CASE Next
      BY <2>2, DeviceTypes, ServerTypes, OperatorTypes, EnvironmentTypes DEF Next
    <2> QED
      BY <2>1, <2>2
  <1> QED
    BY <1>1, <1>2, PTL DEF Spec

-----------------------------------------------------------------------------
\* Who handles a message holds it: taking it off a queue pays for the answer.
LEMMA MessagesCounted ==
  ASSUME TypeOK, [Next]_vars, OneMessagePerRequest
  PROVE  OneMessagePerRequest'
<1> USE DEF OneMessagePerRequest, UnderWay
<1>1. /\ Len(down) \in Nat /\ Len(up) \in Nat
      /\ spent.uploads \in Nat /\ spent.commands \in Nat
  BY DEF TypeOK, Spent
<1>2. CASE UNCHANGED vars
  BY <1>2 DEF vars
<1>3. CASE Receive
  BY <1>1, <1>3, ReceiveTypes DEF Receive, server, TypeOK
<1>4. CASE TakeReboot
  <2>1. Len(up') = Len(up) + 1 /\ Len(down') = 0 /\ Len(down) >= 1
    BY <1>4, RefusalType, AnswerType DEF TakeReboot, GoDown, TypeOK
  <2> QED
    BY <1>1, <1>4, <2>1 DEF TakeReboot, server
<1>5. CASE Start
  BY <1>5 DEF Start, server
<1>6. CASE TakeStatus
  <2>1. Len(up') = Len(up) - 1
    BY <1>6 DEF TakeStatus, TypeOK
  <2> QED
    BY <1>1, <1>6, <2>1 DEF TakeStatus
<1>7. CASE StoreTotal \/ CheckActive \/ ReadCursor \/ Cut
  <2>1. thread.pc \notin {"idle", "dead"} /\ UNCHANGED <<posting, down, up, spent>>
    BY <1>7 DEF StoreTotal, CheckActive, ReadCursor, Cut
  <2> QED
    BY <1>1, <2>1
<1>8. CASE Send
  <2>1. Len(down') <= Len(down) + 1 /\ Len(down') \in Nat
    BY <1>8, PublishType DEF Send, TypeOK
  <2> QED
    BY <1>1, <1>8, <2>1, AtRestType DEF Send
<1>9. CASE Post
  <2>1. Len(down') <= Len(down) + 1 /\ Len(down') \in Nat
    BY <1>9, PublishType DEF Post, TypeOK
  <2> QED
    BY <1>1, <1>9, <2>1 DEF Post
<1>10. CASE Operator
  BY <1>1, <1>10, OperatorTypes
<1>11. CASE Environment
  <2>1. Len(down') \in Nat /\ Len(up') \in Nat
    BY <1>11, EnvironmentTypes DEF TypeOK
  <2> QED
    BY <1>1, <1>11, <2>1, EnvironmentTypes
<1> QED
  BY <1>2, <1>3, <1>4, <1>5, <1>6, <1>7, <1>8, <1>9, <1>10, <1>11
  DEF Next, MqttThread, Device

\* OneMessagePerRequest: however uploads, controls, restarts and losses interleave
\* with on_message and fotaReceived, each message descends from its own request.
THEOREM MessagesBounded == Spec => []OneMessagePerRequest
  <1>1. Init => OneMessagePerRequest
    BY DEF Init, OneMessagePerRequest, UnderWay, AtRest
  <1>2. TypeOK /\ OneMessagePerRequest /\ [Next]_vars => OneMessagePerRequest'
    BY MessagesCounted
  <1> QED
    BY <1>1, <1>2, TransferTypeCorrect, PTL DEF Spec

-----------------------------------------------------------------------------
(* One firmware.                                                           *)

\* What a chunk message carries is the part of the firmware at its offset.
PieceOf(f, m) ==
  m.op = "chunk" => /\ m.off + Len(m.data) <= Len(f)
                    /\ m.data = SubSeq(f, m.off + 1, m.off + Len(m.data))

\* Only pieces of the firmware are on their way to the device, and no total that
\* any side holds is longer than the firmware.
PiecesInv(f) ==
  /\ \A i \in 1..Len(down) : PieceOf(f, down[i])
  /\ thread.pc = "send" => PieceOf(f, thread.msg)
  /\ posting # None => PieceOf(f, posting)
  /\ session.total <= Len(f) /\ thread.total <= Len(f)
  /\ \A i \in 1..Len(up) : up[i].total <= Len(f)
  /\ thread.pc = "cut" => thread.off < thread.total

LEMMA SubSeqTwice ==
  ASSUME NEW f \in Seq(Unit), NEW i \in Nat, NEW j \in Nat, i <= j, j <= Len(f),
         NEW n \in Nat, n <= j - i
  PROVE  /\ Len(SubSeq(f, i + 1, j)) = j - i
         /\ SubSeq(SubSeq(f, i + 1, j), 1, n) = SubSeq(f, i + 1, i + n)
OBVIOUS

LEMMA SubSeqGrows ==
  ASSUME NEW f \in Seq(Unit), NEW i \in Nat, NEW n \in Nat, i + n <= Len(f)
  PROVE  SubSeq(f, 1, i) \o SubSeq(f, i + 1, i + n) = SubSeq(f, 1, i + n)
OBVIOUS

\* Publishing a piece, losing a message and taking one leave only pieces.
LEMMA PublishPieces ==
  ASSUME TypeOK, NEW f, NEW m \in Message, PieceOf(f, m), Publish(m),
         \A i \in 1..Len(down) : PieceOf(f, down[i])
  PROVE  \A i \in 1..Len(down') : PieceOf(f, down'[i])
<1>1. CASE device.online
  <2>1. down' = Append(down, m) /\ down \in Seq(Message)
    BY <1>1 DEF Publish, TypeOK
  <2> TAKE i \in 1..Len(down')
  <2>2. down'[i] = m \/ (i \in 1..Len(down) /\ down'[i] = down[i])
    BY <2>1
  <2> QED
    BY <2>2
<1>2. CASE ~device.online
  BY <1>2 DEF Publish
<1> QED
  BY <1>1, <1>2

LEMMA WithoutElements ==
  ASSUME NEW S, NEW s \in Seq(S), NEW i \in 1..Len(s), NEW j \in 1..Len(Without(s, i))
  PROVE  \E k \in 1..Len(s) : Without(s, i)[j] = s[k]
<1> DEFINE l == SubSeq(s, 1, i - 1)
           r == SubSeq(s, i + 1, Len(s))
<1>1. l \in Seq(S) /\ Len(l) = i - 1 /\ \A k \in 1..i - 1 : l[k] = s[k]
  <2>1. \A k \in 1..i - 1 : s[k] \in S
    OBVIOUS
  <2> QED
    BY <2>1
<1>2. r \in Seq(S) /\ Len(r) = Len(s) - i /\ \A k \in 1..Len(s) - i : r[k] = s[k + i]
  <2>1. \A k \in i + 1..Len(s) : s[k] \in S
    OBVIOUS
  <2> QED
    BY <2>1
<1> HIDE DEF l, r
<1>3. Without(s, i) = l \o r
  BY DEF Without, l, r
<1>4. j \in 1..(Len(s) - 1)
  BY WithoutType
<1>5. CASE j <= i - 1
  <2>1. (l \o r)[j] = s[j]
    BY <1>1, <1>2, <1>4, <1>5
  <2> QED
    BY <1>3, <1>4, <2>1
<1>6. CASE j > i - 1
  <2>1. (l \o r)[j] = r[j - (i - 1)]
    BY <1>1, <1>2, <1>4, <1>6
  <2>2. r[j - (i - 1)] = s[j - (i - 1) + i]
    BY <1>2, <1>4, <1>6
  <2> QED
    BY <1>3, <1>4, <2>1, <2>2
<1> QED
  BY <1>4, <1>5, <1>6

LEMMA PartOfFirmware ==
  ASSUME NEW f \in Seq(Unit), NEW o \in Nat, NEW e \in Nat, o < e, e <= Len(f),
         NEW buf, buf = SubSeq(f, o + 1, e)
  PROVE  /\ Len(buf) = e - o
         /\ \A n \in 1..(e - o) : /\ SubSeq(buf, 1, n) = SubSeq(f, o + 1, o + n)
                                  /\ Len(SubSeq(buf, 1, n)) = n
         /\ buf = SubSeq(f, o + 1, o + (e - o))
<1>1. Len(buf) = e - o /\ buf = SubSeq(f, o + 1, o + (e - o))
  OBVIOUS
<1>2. ASSUME NEW n \in 1..(e - o)
      PROVE  SubSeq(buf, 1, n) = SubSeq(f, o + 1, o + n) /\ Len(SubSeq(buf, 1, n)) = n
  <2>1. n \in Nat /\ n <= e - o
    OBVIOUS
  <2>2. SubSeq(buf, 1, n) = SubSeq(f, o + 1, o + n)
    BY <2>1, SubSeqTwice
  <2>3. Len(SubSeq(f, o + 1, o + n)) = n
    BY <2>1
  <2> QED
    BY <2>2, <2>3
<1> QED
  BY <1>1, <1>2

\* The chunk the MQTT thread cuts from the firmware is a piece of it.
LEMMA CutPiece ==
  ASSUME TypeOK, NEW f \in Seq(Unit), session.firmware = f,
         thread.total <= Len(f), thread.off < thread.total,
         NEW m \in Cuts(Slice(session.firmware, thread.off, End))
  PROVE  PieceOf(f, m)
<1>1. thread.off \in Nat /\ End \in Nat /\ thread.off < End /\ End <= Len(f)
  BY TransferAssumption DEF TypeOK, Thread, End
<1>2. PICK o \in Nat, e \in Nat : o = thread.off /\ e = End
  BY <1>1
<1>3. PICK buf : buf = SubSeq(f, o + 1, e)
  OBVIOUS
<1>4. Slice(session.firmware, thread.off, End) = buf
  <2>1. (IF e < Len(f) THEN e ELSE Len(f)) = e
    BY <1>1, <1>2
  <2>2. Slice(f, o, e) = SubSeq(f, o + 1, IF e < Len(f) THEN e ELSE Len(f))
    BY DEF Slice
  <2> QED
    BY <1>2, <1>3, <2>1, <2>2
<1>5. /\ Len(buf) = e - o /\ e - o \in Nat
      /\ \A n \in 1..(e - o) : /\ SubSeq(buf, 1, n) = SubSeq(f, o + 1, o + n)
                               /\ Len(SubSeq(buf, 1, n)) = n
      /\ buf = SubSeq(f, o + 1, o + (e - o))
  <2>1. o < e /\ e <= Len(f) /\ e - o \in Nat
    BY <1>1, <1>2
  <2> QED
    BY <1>3, <2>1, PartOfFirmware
<1>6. PICK n, w : /\ n \in 1..(e - o) /\ m.off = o /\ m.data = w /\ Len(w) = n
                  /\ w = SubSeq(f, o + 1, o + n)
  <2> DEFINE full == [op |-> "chunk", off |-> thread.off, data |-> buf,
               intact |-> session.fault # "bad_sha", sealed |-> session.fault # "bad_enc"]
  <2>1. CASE m = full
    <3>1. m.off = o /\ m.data = buf
      BY <1>2, <2>1
    <3>2. e - o \in 1..(e - o)
      BY <1>1, <1>2
    <3> QED
      BY <1>5, <3>1, <3>2
  <2>2. ASSUME NEW n \in 1..Len(buf), m = [full EXCEPT !.data = SubSeq(buf, 1, n)]
        PROVE  \E k, w : /\ k \in 1..(e - o) /\ m.off = o /\ m.data = w /\ Len(w) = k
                         /\ w = SubSeq(f, o + 1, o + k)
    <3>1. m.off = o /\ m.data = SubSeq(buf, 1, n)
      BY <1>2, <2>2
    <3> QED
      BY <1>5, <2>2, <3>1
  <2> QED
    BY <1>4, <2>1, <2>2 DEF Cuts
<1>7. o + n <= Len(f)
  BY <1>1, <1>2, <1>6
<1> QED
  BY <1>6, <1>7 DEF PieceOf

LEMMA PrefixInit ==
  ASSUME NEW f \in Firmware, Init
  PROVE  PiecesInv(f) /\ WrittenIsPrefix
<1>1. Len(f) \in Nat
  BY TransferAssumption
<1> QED
  BY <1>1 DEF Init, PiecesInv, WrittenIsPrefix, AtRest, EmptySession

\* fotaReceived with pieces of the only firmware.
LEMMA ReceivePrefix ==
  ASSUME NEW f, Firmware = {f}, TypeOK, TypeOK', PiecesInv(f), WrittenIsPrefix, Receive
  PROVE  PiecesInv(f)' /\ WrittenIsPrefix'
<1> DEFINE m == Head(down)
<1>1. f \in Seq(Unit)
  BY TransferAssumption
<1>2. m \in Message /\ PieceOf(f, m) /\ \A i \in 1..Len(down') : PieceOf(f, down'[i])
  <2>1. down \in Seq(Message) /\ down # <<>> /\ down' = Tail(down)
    BY DEF Receive, TypeOK
  <2>2. m = down[1] /\ \A i \in 1..Len(down') : i + 1 \in 1..Len(down) /\ down'[i] = down[i + 1]
    BY <2>1
  <2> QED
    BY <2>1, <2>2 DEF PiecesInv
<1>3. device \in DeviceJob /\ device' \in DeviceJob /\ (device.pend => device.job = f)
      /\ (device'.pend => device'.job = f)
  BY DEF TypeOK, DeviceJob
<1> HIDE DEF m
<1>4. ASSUME NEW r, Answer(r), r.total <= Len(f)
      PROVE  \A i \in 1..Len(up') : up'[i].total <= Len(f)
  <2>1. up \in Seq(Report) /\ up' = Append(up, r)
    BY <1>4 DEF Answer, TypeOK
  <2> TAKE i \in 1..Len(up')
  <2>2. up'[i] = r \/ (i \in 1..Len(up) /\ up'[i] = up[i])
    BY <2>1
  <2> QED
    BY <1>4, <2>2 DEF PiecesInv
<1>5. \A ev : Refusal(ev).total <= Len(f)
  BY <1>1 DEF Refusal
<1>6. \A ev : device'.job = f => Status(ev, device').total <= Len(f)
  BY <1>1 DEF Status
<1>7. /\ \A i \in 1..Len(up') : up'[i].total <= Len(f)
      /\ device'.pend => device'.off <= Len(f) /\ device'.data = SubSeq(f, 1, device'.off)
  <2>0. device.pend => device.off <= Len(f) /\ device.data = SubSeq(f, 1, device.off)
    BY <1>3 DEF WrittenIsPrefix
  <2>e. \A k : k = 0 => k <= Len(f) /\ SubSeq(f, 1, k) = <<>>
    BY <1>1
  <2>1. CASE TakeManifest(m)
    <3>1. Answer(Status("need_chunks", device'))
      BY <2>1 DEF TakeManifest
    <3>2. m.fw = f
      BY <1>2, <2>1 DEF TakeManifest, Message
    <3>3. device'.job = f /\ \/ device' = device /\ device.pend
                             \/ device'.off = 0 /\ device'.data = <<>>
      BY <1>3, <2>1, <3>2 DEF TakeManifest, DeviceJob
    <3>4. device'.off <= Len(f) /\ device'.data = SubSeq(f, 1, device'.off)
      BY <2>0, <2>e, <3>3
    <3>5. Status("need_chunks", device').total <= Len(f)
      BY <1>6, <3>3
    <3> QED
      BY <1>4, <3>1, <3>4, <3>5
  <2>2. CASE TakeChunk(m) /\ ChunkFits(m)
    <3>1. Answer(Status("progress", device'))
      BY <2>2 DEF TakeChunk
    <3>2. /\ device.pend /\ device'.job = device.job
          /\ device'.off = device.off + Len(m.data) /\ device'.data = device.data \o m.data
      BY <1>3, <2>2 DEF TakeChunk, ChunkFits, DeviceJob
    <3>3. m.op = "chunk" /\ m.off = device.off
      BY <2>2 DEF TakeChunk, ChunkFits
    <3>4. m.data \in Seq(Unit) /\ device.off \in Nat
      BY <1>2, <1>3, <3>3 DEF Message, DeviceJob
    <3>5. /\ device.off + Len(m.data) <= Len(f)
          /\ m.data = SubSeq(f, device.off + 1, device.off + Len(m.data))
      BY <1>2, <3>3 DEF PieceOf
    <3>6. device.data \o m.data = SubSeq(f, 1, device.off + Len(m.data))
      <4>1. Len(m.data) \in Nat
        BY <3>4
      <4>2. PICK n \in Nat, i \in Nat : n = Len(m.data) /\ i = device.off
        BY <3>4, <4>1
      <4>3. device.data = SubSeq(f, 1, i) /\ m.data = SubSeq(f, i + 1, i + n)
        BY <2>0, <3>2, <3>5, <4>2
      <4>4. SubSeq(f, 1, i) \o SubSeq(f, i + 1, i + n) = SubSeq(f, 1, i + n)
        BY <1>1, <3>5, <4>2, SubSeqGrows
      <4> QED
        BY <4>2, <4>3, <4>4
    <3> QED
      BY <1>3, <1>4, <1>6, <3>1, <3>2, <3>5, <3>6
  <2>3. CASE TakeChunk(m) /\ ~ChunkFits(m)
    BY <1>4, <1>5, <2>0, <2>3 DEF TakeChunk
  <2>4. CASE DropTampered(m)
    BY <2>0, <2>4 DEF DropTampered, PiecesInv
  <2>5. CASE TakeFinish(m)
    <3>1. \E ev : Answer(Refusal(ev))
      BY <2>5 DEF TakeFinish
    <3>2. \/ device' = device
          \/ device'.off = 0 /\ device'.data = <<>>
      BY <1>3, <2>5 DEF TakeFinish, Idle, DeviceJob
    <3>3. device'.pend => device'.off <= Len(f) /\ device'.data = SubSeq(f, 1, device'.off)
      BY <2>0, <2>e, <3>2
    <3> QED
      BY <1>4, <1>5, <3>1, <3>3
  <2>6. CASE TakeUnknown(m)
    BY <1>4, <1>5, <2>0, <2>6 DEF TakeUnknown
  <2> QED
    BY <2>1, <2>2, <2>3, <2>4, <2>5, <2>6 DEF Receive, m
<1> QED
  BY <1>2, <1>3, <1>7 DEF PiecesInv, WrittenIsPrefix, Receive, server

\* Everything but fotaReceived.
LEMMA OthersPrefix ==
  ASSUME NEW f, Firmware = {f}, TypeOK, TypeOK', PiecesInv(f), WrittenIsPrefix,
         Next, ~Receive
  PROVE  PiecesInv(f)' /\ WrittenIsPrefix'
<1>1. f \in Seq(Unit) /\ Len(f) \in Nat
  BY TransferAssumption
<1>2. /\ \A i \in 1..Len(down) : PieceOf(f, down[i])
      /\ \A i \in 1..Len(up) : up[i].total <= Len(f)
      /\ thread.pc = "send" => PieceOf(f, thread.msg)
      /\ posting # None => PieceOf(f, posting)
      /\ session.total <= Len(f) /\ thread.total <= Len(f)
      /\ thread.pc = "cut" => thread.off < thread.total
  BY DEF PiecesInv
<1>3. /\ session \in Session /\ thread \in Thread /\ device \in DeviceJob
      /\ down \in Seq(Message) /\ up \in Seq(Report)
  BY DEF TypeOK
<1>4. AtRest.pc = "idle" /\ AtRest.total <= Len(f)
  BY <1>1 DEF AtRest
<1>5. WrittenIsPrefix'
  <2>1. CASE TakeReboot \/ PowerLoss
    <3>1. device'.pend = device.pend /\ device'.off = device.off
          /\ device'.job = device.job /\ device'.data = device.data
      BY <1>3, <2>1 DEF TakeReboot, PowerLoss, GoDown, DeviceJob
    <3> QED
      BY <3>1 DEF WrittenIsPrefix
  <2>2. CASE Start
    <3>1. \/ ~device'.pend
          \/ device'.pend = device.pend /\ device'.off = device.off
             /\ device'.job = device.job /\ device'.data = device.data
      BY <1>3, <2>2 DEF Start, Idle, DeviceJob
    <3> QED
      BY <3>1 DEF WrittenIsPrefix
  <2>3. CASE UNCHANGED device
    BY <2>3 DEF WrittenIsPrefix
  <2> QED
    BY <2>1, <2>2, <2>3 DEF Next, Device, Environment, MqttThread, TakeStatus, StoreTotal,
      CheckActive, ReadCursor, Cut, Send, Post, Operator, StartUpload, ArmFault, Pause,
      Resume, Abort, AskReboot, Setting, Command, Lose
<1>6. PiecesInv(f)'
  <2>1. CASE TakeReboot
    <3>1. up' = Append(up, Refusal("rebooting")) /\ down' = <<>>
      BY <2>1 DEF TakeReboot, GoDown, Answer
    <3>2. \A i \in 1..Len(up') : up'[i] = Refusal("rebooting")
                                 \/ (i \in 1..Len(up) /\ up'[i] = up[i])
      BY <1>3, <3>1
    <3>3. \A i \in 1..Len(up') : up'[i].total <= Len(f)
      BY <1>1, <1>2, <3>2 DEF Refusal
    <3> QED
      BY <1>2, <2>1, <3>1, <3>3 DEF PiecesInv, TakeReboot, server
  <2>2. CASE Start
    BY <1>2, <2>2 DEF PiecesInv, Start, server
  <2>3. CASE PowerLoss
    <3>1. down' = <<>>
      BY <2>3 DEF PowerLoss, GoDown
    <3> QED
      BY <1>2, <2>3, <3>1 DEF PiecesInv, PowerLoss, server
  <2>4. CASE Lose
    <3>1. CASE \E i \in 1..Len(down) : down' = Without(down, i) /\ up' = up
      <4>1. \A j \in 1..Len(down') : PieceOf(f, down'[j])
        BY <1>2, <1>3, <3>1, WithoutElements
      <4> QED
        BY <1>2, <2>4, <3>1, <4>1 DEF PiecesInv, Lose, server
    <3>2. CASE \E i \in 1..Len(up) : up' = Without(up, i) /\ down' = down
      <4>1. \A j \in 1..Len(up') : up'[j].total <= Len(f)
        BY <1>2, <1>3, <3>2, WithoutElements
      <4> QED
        BY <1>2, <2>4, <3>2, <4>1 DEF PiecesInv, Lose, server
    <3> QED
      BY <2>4, <3>1, <3>2 DEF Lose
  <2>5. CASE TakeStatus
    <3>1. \A i \in 1..Len(up') : up'[i].total <= Len(f)
      <4>1. \A i \in 1..Len(up') : i + 1 \in 1..Len(up) /\ up'[i] = up[i + 1]
        BY <1>3, <2>5 DEF TakeStatus
      <4> QED
        BY <1>2, <4>1
    <3>2. Head(up) = up[1] /\ Head(up).total <= Len(f)
      BY <1>2, <1>3, <2>5 DEF TakeStatus
    <3>3. session'.total = session.total
      BY <1>3, <2>5 DEF TakeStatus, Session
    <3>4. thread'.pc \notin {"send", "cut"} /\ thread'.total <= Len(f)
      BY <1>2, <1>3, <2>5, <3>2 DEF TakeStatus, Thread
    <3> QED
      BY <1>2, <2>5, <3>1, <3>3, <3>4 DEF PiecesInv, TakeStatus
  <2>6. CASE StoreTotal
    <3>1. session'.total = thread.total
      BY <1>3, <2>6 DEF StoreTotal, Session
    <3>2. thread'.pc = "check" /\ thread'.total = thread.total
      BY <1>3, <2>6 DEF StoreTotal, Thread
    <3> QED
      BY <1>2, <2>6, <3>1, <3>2 DEF PiecesInv, StoreTotal
  <2>7. CASE CheckActive
    <3>1. thread'.pc \in {"cursor", "idle"} /\ thread'.total <= Len(f)
      BY <1>2, <1>3, <1>4, <2>7 DEF CheckActive, Thread
    <3> QED
      BY <1>2, <2>7, <3>1 DEF PiecesInv, CheckActive
  <2>8. CASE ReadCursor
    <3>1. /\ thread'.total <= Len(f)
          /\ \/ thread'.pc = "send" /\ thread'.msg = [op |-> "finish"]
             \/ thread'.pc = "cut" /\ thread'.off < thread'.total
      <4>1. CASE session.off >= session.total
        <5>1. [op |-> "finish"] \in Message
          BY DEF Message
        <5>2. thread' = [AtRest EXCEPT !.pc = "send", !.msg = [op |-> "finish"]]
          BY <2>8, <4>1 DEF ReadCursor
        <5>3. /\ thread'.pc = "send" /\ thread'.msg = [op |-> "finish"]
              /\ thread'.total = 0
          BY <5>1, <5>2, AtSendType
        <5> QED
          BY <1>1, <5>3
      <4>2. CASE ~(session.off >= session.total)
        <5>1. session.off < session.total
          BY <1>3, <4>2 DEF Session
        <5> QED
          BY <1>2, <1>3, <2>8, <4>2, <5>1 DEF ReadCursor, Thread
      <4> QED
        BY <4>1, <4>2
    <3>2. PieceOf(f, [op |-> "finish"])
      BY DEF PieceOf
    <3> QED
      BY <1>2, <2>8, <3>1, <3>2 DEF PiecesInv, ReadCursor
  <2>9. CASE Cut
    <3>1. /\ thread'.pc # "cut" /\ thread'.total <= Len(f)
          /\ thread'.pc = "send" => PieceOf(f, thread'.msg)
      <4>1. CASE session.firmware = None
        BY <1>1, <2>9, <4>1 DEF Cut, AtRest
      <4>2. CASE session.firmware # None
        <5>1. session.firmware = f
          BY <1>3, <4>2 DEF Session
        <5>2. PICK m \in Cuts(Slice(session.firmware, thread.off, End)) :
                thread' = [AtRest EXCEPT !.pc = "send", !.msg = m]
          BY <2>9, <4>2 DEF Cut
        <5>3. thread.off < thread.total
          BY <1>2, <2>9 DEF Cut
        <5>4. PieceOf(f, m)
          BY <1>1, <1>2, <5>1, <5>3, CutPiece
        <5> QED
          BY <1>1, <5>2, <5>4 DEF AtRest
      <4> QED
        BY <4>1, <4>2
    <3> QED
      BY <1>2, <2>9, <3>1 DEF PiecesInv, Cut
  <2>10. CASE Send
    <3>1. \A i \in 1..Len(down') : PieceOf(f, down'[i])
      BY <1>2, <2>10, PublishPieces DEF Send, TypeOK
    <3>2. session'.total = session.total
      BY <1>3, <2>10 DEF Send, Session
    <3> QED
      BY <1>2, <1>4, <2>10, <3>1, <3>2 DEF PiecesInv, Send
  <2>11. CASE Post
    <3>1. \A i \in 1..Len(down') : PieceOf(f, down'[i])
      BY <1>2, <2>11, PublishPieces DEF Post, TypeOK
    <3> QED
      BY <1>2, <2>11, <3>1 DEF PiecesInv, Post
  <2>12. CASE Operator
    <3>1. UNCHANGED <<thread, down, up>>
      BY <2>12, OperatorTypes
    <3>2. CASE \E g \in Firmware : StartUpload(g)
      <4>1. StartUpload(f)
        BY <3>2
      <4>2. session'.total = Len(f)
        BY <4>1 DEF StartUpload, EmptySession
      <4>3. posting' = [op |-> "manifest", fw |-> f]
        BY <4>1 DEF StartUpload
      <4>4. PieceOf(f, posting')
        BY <4>3 DEF PieceOf
      <4> QED
        BY <1>1, <1>2, <3>1, <4>2, <4>4 DEF PiecesInv
    <3>3. CASE \/ \E mode \in FaultModes, once \in BOOLEAN : ArmFault(mode, once)
               \/ Pause \/ Resume
      <4>1. session'.total = session.total /\ posting' = posting
        BY <1>3, <3>3 DEF ArmFault, Pause, Resume, Session
      <4> QED
        BY <1>2, <3>1, <4>1 DEF PiecesInv
    <3>4. CASE Abort \/ AskReboot
      <4>1. session'.total <= Len(f)
        <5>1. CASE Abort
          <6>1. session'.total = 0
            BY <5>1 DEF Abort, EmptySession
          <6> QED
            BY <1>1, <6>1
        <5>2. CASE AskReboot
          BY <1>2, <5>2 DEF AskReboot
        <5> QED
          BY <3>4, <5>1, <5>2
      <4>2. \E op \in {"abort", "reboot"} : posting' = [op |-> op]
        BY <3>4 DEF Abort, AskReboot, Command
      <4>3. PieceOf(f, posting')
        BY <4>2 DEF PieceOf
      <4> QED
        BY <1>2, <3>1, <4>1, <4>3 DEF PiecesInv
    <3> QED
      BY <2>12, <3>2, <3>3, <3>4 DEF Operator
  <2> QED
    BY <2>1, <2>2, <2>3, <2>4, <2>5, <2>6, <2>7, <2>8, <2>9, <2>10, <2>11, <2>12
    DEF Next, Device, Environment, MqttThread
<1> QED
  BY <1>5, <1>6

\* WrittenIsPrefix: while only one firmware is uploaded, what the device has written
\* is its beginning, whatever is lost, cut short, altered or sent twice.
THEOREM PrefixWritten ==
  ASSUME NEW f, Firmware = {f}
  PROVE  Spec => []WrittenIsPrefix
<1> DEFINE I == PiecesInv(f) /\ WrittenIsPrefix
<1>1. Init => I
  BY PrefixInit
<1>2. TypeOK /\ TypeOK' /\ I /\ [Next]_vars => I'
  <2> SUFFICES ASSUME TypeOK, TypeOK', I, [Next]_vars
               PROVE  I'
    OBVIOUS
  <2>1. CASE UNCHANGED vars
    BY <2>1 DEF PiecesInv, WrittenIsPrefix, vars
  <2>2. CASE Receive
    BY <2>2, ReceivePrefix
  <2>3. CASE Next /\ ~Receive
    BY <2>3, OthersPrefix
  <2> QED
    BY <2>1, <2>2, <2>3
<1>3. I => WrittenIsPrefix
  OBVIOUS
<1> HIDE DEF I
<1> QED
  BY <1>1, <1>2, <1>3, TransferTypeCorrect, PTL DEF Spec

-----------------------------------------------------------------------------
(* A thread that lives.                                                    *)

\* Until the first upload nobody asks for a chunk: the device is sent nothing but
\* reboots, and answers nothing but that it reboots.
BeforeUploads ==
  /\ thread.pc = "idle"
  /\ posting # None => posting.op = "reboot"
  /\ \A i \in 1..Len(down) : down[i].op = "reboot"
  /\ \A i \in 1..Len(up) : up[i].ev = "rebooting"

\* The session loses its firmware by an abort only.
AliveInv == ThreadAlive /\ (spent.aborts = 0 /\ session.firmware = None => BeforeUploads)

LEMMA AliveStarts == Init => AliveInv
  BY DEF Init, AliveInv, ThreadAlive, BeforeUploads, EmptySession, AtRest

\* The count of aborts grows with an abort and never shrinks.
LEMMA AbortsGrow ==
  ASSUME TypeOK, [Next]_vars
  PROVE  /\ spent.aborts \in Nat
         /\ spent'.aborts = spent.aborts \/ spent'.aborts = spent.aborts + 1
         /\ Abort => spent'.aborts = spent.aborts + 1
<1>1. spent \in Spent /\ spent.aborts \in Nat
  BY SpentTypes DEF TypeOK
<1>2. Abort => spent'.aborts = spent.aborts + 1
  BY <1>1 DEF Abort, Command, Spent
<1>3. AskReboot => spent'.aborts = spent.aborts
  BY <1>1 DEF AskReboot, Command, Spent
<1>4. (\E f \in Firmware : StartUpload(f)) => spent'.aborts = spent.aborts
  BY <1>1 DEF StartUpload, Spent
<1>5. Setting => spent'.aborts = spent.aborts
  BY <1>1 DEF Setting, Spent
<1>6. PowerLoss \/ Lose => spent'.aborts = spent.aborts
  BY <1>1 DEF PowerLoss, Lose, Spent
<1>7. MqttThread \/ Post \/ Device \/ UNCHANGED vars => spent'.aborts = spent.aborts
  BY DEF MqttThread, TakeStatus, StoreTotal, CheckActive, ReadCursor, Cut, Send,
    Post, Device, Receive, TakeReboot, Start, vars
<1>8. (\E mode \in FaultModes, once \in BOOLEAN : ArmFault(mode, once)) \/ Pause \/ Resume
        => Setting
  BY DEF ArmFault, Pause, Resume
<1> QED
  BY <1>1, <1>2, <1>3, <1>4, <1>5, <1>6, <1>7, <1>8 DEF Next, Operator, Environment

LEMMA AliveSteps ==
  ASSUME TypeOK, AliveInv, [Next]_vars
  PROVE  AliveInv'
<1> SUFFICES ASSUME spent'.aborts = 0
             PROVE  thread'.pc # "dead" /\ (session'.firmware = None => BeforeUploads')
  BY DEF AliveInv, ThreadAlive
<1>0. spent.aborts = 0 /\ ~Abort
  BY AbortsGrow
<1>1. thread.pc # "dead" /\ (session.firmware = None => BeforeUploads)
  BY <1>0 DEF AliveInv, ThreadAlive
<1>2. session \in Session /\ thread \in Thread /\ down \in Seq(Message) /\ up \in Seq(Report)
  BY DEF TypeOK
<1>3. CASE UNCHANGED vars
  BY <1>1, <1>3 DEF vars, BeforeUploads
<1>4. CASE Receive
  <2>1. UNCHANGED <<session, thread>>
    BY <1>4 DEF Receive, server
  <2>2. ~BeforeUploads
    <3>1. down # <<>> /\ Head(down).op # "reboot"
      BY <1>4 DEF Receive
    <3>2. 1 \in 1..Len(down) /\ Head(down) = down[1]
      BY <1>2, <3>1
    <3> QED
      BY <3>1, <3>2 DEF BeforeUploads
  <2> QED
    BY <1>1, <2>1, <2>2
<1>5. CASE TakeReboot
  <2>1. UNCHANGED <<session, thread, posting>> /\ down' = <<>> /\ up' = Append(up, Refusal("rebooting"))
    BY <1>5 DEF TakeReboot, GoDown, Answer, server
  <2>2. ASSUME BeforeUploads, NEW i \in 1..Len(up')
        PROVE  up'[i].ev = "rebooting"
    <3>1. Refusal("rebooting").ev = "rebooting"
      BY DEF Refusal
    <3>2. up'[i] = Refusal("rebooting") \/ (i \in 1..Len(up) /\ up'[i] = up[i])
      BY <1>2, <2>1
    <3> QED
      BY <2>2, <3>1, <3>2 DEF BeforeUploads
  <2> QED
    BY <1>1, <2>1, <2>2 DEF BeforeUploads
<1>6. CASE Start
  BY <1>1, <1>6 DEF Start, server, BeforeUploads
<1>7. CASE PowerLoss
  <2>1. UNCHANGED <<session, thread, posting, up>> /\ down' = <<>>
    BY <1>7 DEF PowerLoss, GoDown, server
  <2> QED
    BY <1>1, <2>1 DEF BeforeUploads
<1>8. CASE Lose
  <2>1. UNCHANGED <<session, thread, posting>>
    BY <1>8 DEF Lose, server
  <2>2. CASE \E i \in 1..Len(down) : down' = Without(down, i) /\ up' = up
    <3>1. \A j \in 1..Len(down') : \E k \in 1..Len(down) : down'[j] = down[k]
      BY <1>2, <2>2, WithoutElements
    <3> QED
      BY <1>1, <2>1, <2>2, <3>1 DEF BeforeUploads
  <2>3. CASE \E i \in 1..Len(up) : up' = Without(up, i) /\ down' = down
    <3>1. \A j \in 1..Len(up') : \E k \in 1..Len(up) : up'[j] = up[k]
      BY <1>2, <2>3, WithoutElements
    <3> QED
      BY <1>1, <2>1, <2>3, <3>1 DEF BeforeUploads
  <2> QED
    BY <1>8, <2>2, <2>3 DEF Lose
<1>9. CASE Operator
  <2>1. CASE \E f \in Firmware : StartUpload(f)
    <3>1. PICK f \in Firmware : StartUpload(f)
      BY <2>1
    <3>2. thread' = thread /\ session'.firmware = f
      BY <3>1 DEF StartUpload, EmptySession
    <3>3. f # None
      BY TransferAssumption
    <3> QED
      BY <1>1, <3>2, <3>3
  <2>2. CASE (\E mode \in FaultModes, once \in BOOLEAN : ArmFault(mode, once)) \/ Pause \/ Resume
    <3>1. UNCHANGED <<thread, posting, down, up>>
      BY <2>2 DEF ArmFault, Pause, Resume, Setting
    <3>2. session'.firmware = session.firmware
      BY <1>2, <2>2 DEF ArmFault, Pause, Resume, Session
    <3> QED
      BY <1>1, <3>1, <3>2 DEF BeforeUploads
  <2>3. CASE AskReboot
    <3>1. UNCHANGED <<session, thread, down, up>> /\ posting'.op = "reboot"
      BY <2>3 DEF AskReboot, Command
    <3> QED
      BY <1>1, <3>1 DEF BeforeUploads
  <2> QED
    BY <1>0, <1>9, <2>1, <2>2, <2>3 DEF Operator
<1>10. CASE Post
  <2>1. UNCHANGED <<session, thread, up>> /\ posting' = None /\ posting # None /\ Publish(posting)
    BY <1>10 DEF Post
  <2>2. ASSUME BeforeUploads, NEW i \in 1..Len(down')
        PROVE  down'[i].op = "reboot"
    <3>1. down' = Append(down, posting) \/ down' = down
      BY <2>1 DEF Publish
    <3>2. down'[i] = posting \/ (i \in 1..Len(down) /\ down'[i] = down[i])
      BY <1>2, <3>1
    <3> QED
      BY <2>1, <2>2, <3>2 DEF BeforeUploads
  <2> QED
    BY <1>1, <2>1, <2>2 DEF BeforeUploads
<1>11. CASE TakeStatus
  <2>1. UNCHANGED <<posting, down>> /\ up # <<>> /\ up' = Tail(up)
    BY <1>11 DEF TakeStatus
  <2>2. 1 \in 1..Len(up) /\ Head(up) = up[1] /\ \A i \in 1..Len(up') : i + 1 \in 1..Len(up) /\ up'[i] = up[i + 1]
    BY <1>2, <2>1
  <2>3. CASE Head(up).ev \in {"need_chunks", "progress"}
    <3>1. session'.firmware = session.firmware /\ thread'.pc = "total"
      BY <1>2, <1>11, <2>3 DEF TakeStatus, Session, Thread
    <3>2. ~BeforeUploads
      BY <2>2, <2>3 DEF BeforeUploads
    <3> QED
      BY <1>1, <3>1, <3>2
  <2>4. CASE Head(up).ev \notin {"need_chunks", "progress"}
    <3>1. UNCHANGED <<session, thread>>
      BY <1>11, <2>4 DEF TakeStatus
    <3> QED
      BY <1>1, <2>1, <2>2, <3>1 DEF BeforeUploads
  <2> QED
    BY <2>3, <2>4
<1>12. CASE StoreTotal \/ CheckActive \/ ReadCursor \/ Cut \/ Send
  <2>1. thread.pc # "idle" /\ session.firmware # None
    BY <1>1, <1>12 DEF StoreTotal, CheckActive, ReadCursor, Cut, Send, BeforeUploads
  <2>2. session'.firmware = session.firmware
    BY <1>2, <1>12 DEF StoreTotal, CheckActive, ReadCursor, Cut, Send, Session
  <2>3. thread'.pc # "dead"
    <3>1. CASE StoreTotal
      BY <1>2, <3>1 DEF StoreTotal, Thread
    <3>2. CASE CheckActive
      BY <1>2, <3>2, AtRestType DEF CheckActive, Thread
    <3>3. CASE ReadCursor
      BY <1>2, <3>3, AtRestType DEF ReadCursor, Thread
    <3>4. CASE Cut
      <4>1. PICK m : thread' = [AtRest EXCEPT !.pc = "send", !.msg = m]
        BY <2>1, <3>4 DEF Cut
      <4> QED
        BY <4>1, AtRestType DEF Thread
    <3>5. CASE Send
      BY <3>5, AtRestType DEF Send
    <3> QED
      BY <1>12, <3>1, <3>2, <3>3, <3>4, <3>5
  <2> QED
    BY <2>1, <2>2, <2>3
<1> QED
  BY <1>3, <1>4, <1>5, <1>6, <1>7, <1>8, <1>9, <1>10, <1>11, <1>12
  DEF Next, MqttThread, Device, Environment

\* ThreadAlive: until somebody aborts, send_next_chunk never meets a session without
\* firmware, however many uploads replace the session between its reads.
THEOREM ThreadAliveAlways == Spec => []ThreadAlive
<1>1. AliveInv => ThreadAlive
  BY DEF AliveInv
<1> QED
  BY <1>1, AliveStarts, AliveSteps, TransferTypeCorrect, PTL DEF Spec

=============================================================================
