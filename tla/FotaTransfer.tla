----------------------------- MODULE FotaTransfer -----------------------------
(***************************************************************************)
(* Transfer of a firmware from the server to the device: the session of    *)
(* fota_manager.py, the MQTT thread of mqtt_client.py that serves it, the  *)
(* HTTP handlers of app.py that change it, and fotaReceived (Mqtt.cpp) at  *)
(* the other end of two MQTT topics.                                       *)
(*                                                                         *)
(* Nobody has a timer: an answer of the device makes the MQTT thread send  *)
(* the next message, and a message of the server makes the device answer.  *)
(*                                                                         *)
(* The session is a dict shared by the HTTP threads and the MQTT thread    *)
(* without a lock, so on_message takes one step per access to it.  The     *)
(* device handles a message in one step; what a power loss inside a        *)
(* handler does is the subject of FotaDevice.  A firmware stands for its   *)
(* version, size and digest.                                               *)
(***************************************************************************)
EXTENDS Naturals, Sequences

CONSTANTS
  Unit,         \* contents of one unit of firmware
  Firmware,     \* the firmware files: non-empty sequences of units
  ChunkSize,    \* units per chunk
  None,         \* no firmware, no fault, no message
  Faults,       \* the faults api_fota_inject may arm
  Controls,     \* the other HTTP requests that may be made
  MaxUploads, MaxControls, MaxRestarts, MaxLosses  \* bounds

FaultModes == {"short", "bad_sha", "bad_enc"}
ControlOps == {"pause", "resume", "abort", "reboot"}

ASSUME TransferAssumption ==
  /\ ChunkSize \in Nat \ {0}
  /\ Firmware \subseteq Seq(Unit) \ {<<>>}
  /\ Faults \subseteq FaultModes /\ Controls \subseteq ControlOps
  /\ None \notin Seq(Unit) \cup FaultModes
  /\ {MaxUploads, MaxControls, MaxRestarts, MaxLosses} \subseteq Nat

VARIABLES
  session,  \* the dict "state" of the server
  thread,   \* the MQTT thread: where it is in on_message, and its locals
  posting,  \* the message an HTTP handler has yet to publish
  down,     \* topic fota/cmd: messages published and not delivered
  up,       \* topic fota/status
  device,   \* the job of the device
  spent     \* how much of each bound is used, and the aborts among the commands

vars == <<session, thread, posting, down, up, device, spent>>
server == <<session, thread, posting>>

-----------------------------------------------------------------------------
(* What the variables hold.                                                *)

\* chosen: the partition selected for boot holds verified firmware, or held it
\* until a later manifest erased it.
Chosen == {"running", "verified", "overwritten"}

Message ==
  [op : {"manifest"}, fw : Firmware]
    \cup [op : {"chunk"}, off : Nat, data : Seq(Unit), intact : BOOLEAN, sealed : BOOLEAN]
    \cup [op : {"finish", "abort", "reboot"}]

Report ==
  [ev : {"need_chunks", "progress", "error", "chunk_sha_mismatch", "verify_ok",
         "verify_fail", "rebooting"},
   off : Nat, total : Nat]

Session ==
  [firmware : Firmware \cup {None}, off : Nat, total : Nat, active : BOOLEAN,
   fault : FaultModes \cup {None}, once : BOOLEAN]

Thread ==
  [pc : {"idle", "total", "check", "cursor", "cut", "send", "dead"},
   off : Nat, total : Nat, msg : Message \cup {None}]

DeviceJob ==
  [online : BOOLEAN, pend : BOOLEAN, job : Firmware \cup {None}, off : Nat,
   data : Seq(Unit), chosen : Chosen, image : Seq(Unit) \cup {None}]

Spent ==
  [uploads : 0..MaxUploads, settings : Nat, commands : Nat, aborts : Nat,
   restarts : 0..MaxRestarts, losses : 0..MaxLosses]

-----------------------------------------------------------------------------
(* The device.                                                             *)

\* clearState
Idle(d) == [d EXCEPT !.pend = FALSE, !.job = None, !.off = 0, !.data = <<>>]

Answer(msg) == up' = Append(up, msg)

Status(ev, d) == [ev |-> ev, off |-> d.off, total |-> Len(d.job)]
Refusal(ev) == [ev |-> ev, off |-> 0, total |-> 0]

\* handleManifest: the same job goes on where it stands.
TakeManifest(m) ==
  LET same == device.pend /\ device.job = m.fw
      fresh == [device EXCEPT !.pend = TRUE, !.job = m.fw, !.off = 0, !.data = <<>>,
                  !.chosen = IF @ = "verified" THEN "overwritten" ELSE @]
  IN /\ m.op = "manifest"
     /\ device' = IF same THEN device ELSE fresh
     /\ Answer(Status("need_chunks", device'))

\* Mutant: a chunk is taken at any offset.
ChunkFitsAnywhere(m) == device.pend /\ m.data # <<>> /\ m.intact

\* The checks of fotaReceived and of handleChunk.
ChunkFits(m) == device.pend /\ m.data # <<>> /\ m.intact /\ m.off = device.off

TakeChunk(m) ==
  /\ m.op = "chunk" /\ m.sealed
  /\ IF ChunkFits(m)
     THEN /\ device' = [device EXCEPT !.off = @ + Len(m.data), !.data = @ \o m.data]
          /\ Answer(Status("progress", device'))
     ELSE /\ device' = device
          /\ Answer(Refusal(IF m.data # <<>> /\ ~m.intact THEN "chunk_sha_mismatch"
                            ELSE "error"))

\* mqttDecrypt fails: the message is dropped without an answer.
DropTampered(m) ==
  /\ m.op = "chunk" /\ ~m.sealed
  /\ UNCHANGED <<device, up>>

DigestMatches == device.data = device.job

TakeFinish(m) ==
  /\ m.op = "finish"
  /\ IF ~device.pend \/ device.off # Len(device.job)
     THEN device' = device /\ Answer(Refusal("verify_fail"))
     ELSE IF DigestMatches
     THEN /\ device' = [device EXCEPT !.off = 0, !.data = <<>>, !.chosen = "verified",
                                      !.image = device.data]
          /\ Answer(Refusal("verify_ok"))
     ELSE device' = Idle(device) /\ Answer(Refusal("verify_fail"))

\* "abort" is not an operation of the device.
TakeUnknown(m) ==
  /\ m.op = "abort"
  /\ device' = device /\ Answer(Refusal("error"))

\* client.loop(): the next message of the broker.
Receive ==
  /\ device.online /\ down # <<>> /\ Head(down).op # "reboot"
  /\ LET m == Head(down)
     IN \/ TakeManifest(m) \/ TakeChunk(m) \/ DropTampered(m)
        \/ TakeFinish(m) \/ TakeUnknown(m)
  /\ down' = Tail(down)
  /\ UNCHANGED <<server, spent>>

\* The broker keeps nothing for a clean session that is not connected.
GoDown == device' = [device EXCEPT !.online = FALSE] /\ down' = <<>>

TakeReboot ==
  /\ device.online /\ down # <<>> /\ Head(down).op = "reboot"
  /\ GoDown
  /\ Answer(Refusal("rebooting"))
  /\ UNCHANGED <<server, spent>>

PowerLoss ==
  /\ device.online /\ spent.restarts < MaxRestarts
  /\ GoDown
  /\ spent' = [spent EXCEPT !.restarts = @ + 1]
  /\ UNCHANGED <<server, up>>

\* setup(): the job in NVS is restored.  The self-test clears it when the boot
\* loader started the selected image and left it to be verified.
Start ==
  /\ ~device.online
  /\ \E cleared \in IF device.chosen = "running" THEN {FALSE} ELSE BOOLEAN :
       LET d == IF cleared THEN Idle(device) ELSE device
       IN device' = [d EXCEPT !.online = TRUE,
            !.chosen = IF cleared \/ @ = "verified" THEN "running" ELSE @]
  /\ UNCHANGED <<server, down, up, spent>>

-----------------------------------------------------------------------------
(* The server.                                                             *)

\* A message published while the device is away is not kept.
Publish(m) == down' = IF device.online THEN Append(down, m) ELSE down

\* Mutant: the total is cleared to None like the firmware.
EmptySessionNoTotal == [firmware |-> None, off |-> 0, total |-> None, active |-> FALSE,
                        fault |-> None, once |-> FALSE]

EmptySession == [firmware |-> None, off |-> 0, total |-> 0, active |-> FALSE,
                 fault |-> None, once |-> FALSE]

\* Mutant: an armed fault survives the next upload.
StartUploadKeepsFault(f) ==
  /\ posting = None /\ spent.uploads < MaxUploads
  /\ session' = [EmptySession EXCEPT !.firmware = f, !.total = Len(f), !.active = TRUE,
                                    !.fault = session.fault, !.once = session.once]
  /\ posting' = [op |-> "manifest", fw |-> f]
  /\ spent' = [spent EXCEPT !.uploads = @ + 1]
  /\ UNCHANGED <<thread, down, up, device>>

\* start_fota_upload
StartUpload(f) ==
  /\ posting = None /\ spent.uploads < MaxUploads
  /\ session' = [EmptySession EXCEPT !.firmware = f, !.total = Len(f), !.active = TRUE]
  /\ posting' = [op |-> "manifest", fw |-> f]
  /\ spent' = [spent EXCEPT !.uploads = @ + 1]
  /\ UNCHANGED <<thread, down, up, device>>

\* The second half of start_fota_upload, abort_fota and api_reboot.
Post ==
  /\ posting # None
  /\ Publish(posting)
  /\ posting' = None
  /\ UNCHANGED <<session, thread, up, device, spent>>

\* A request that changes the session only, and one that also sends a command.
Setting ==
  /\ posting = None /\ spent.settings + spent.commands < MaxControls
  /\ spent' = [spent EXCEPT !.settings = @ + 1]
  /\ UNCHANGED <<thread, down, up, device>>

Command(op) ==
  /\ posting = None /\ spent.settings + spent.commands < MaxControls
  /\ posting' = [op |-> op]
  /\ spent' = [spent EXCEPT !.commands = @ + 1,
                            !.aborts = IF op = "abort" THEN @ + 1 ELSE @]
  /\ UNCHANGED <<thread, down, up, device>>

Pause ==
  /\ "pause" \in Controls /\ Setting
  /\ session' = [session EXCEPT !.active = FALSE]
  /\ UNCHANGED posting

\* Mutant: resuming sends the next chunk.
ResumeSends ==
  /\ "resume" \in Controls /\ Setting
  /\ session' = [session EXCEPT !.active = TRUE]
  /\ posting' = IF session.firmware = None THEN None
                ELSE [op |-> "chunk", off |-> session.off, intact |-> TRUE, sealed |-> TRUE,
                      data |-> SubSeq(session.firmware, session.off + 1, session.off + 1)]

Resume ==
  /\ "resume" \in Controls /\ Setting
  /\ session' = [session EXCEPT !.active = TRUE]
  /\ UNCHANGED posting

\* abort_fota leaves the armed fault.
Abort ==
  /\ "abort" \in Controls /\ Command("abort")
  /\ session' = [EmptySession EXCEPT !.fault = session.fault, !.once = session.once]

AskReboot ==
  /\ "reboot" \in Controls /\ Command("reboot")
  /\ UNCHANGED session

\* arm_fault
ArmFault(mode, once) ==
  /\ mode \in Faults /\ Setting
  /\ session' = [session EXCEPT !.fault = mode, !.once = once]
  /\ UNCHANGED posting

AtRest == [pc |-> "idle", off |-> 0, total |-> 0, msg |-> None]

\* on_message: a status other than need_chunks and progress is logged only.
TakeStatus ==
  /\ thread.pc = "idle" /\ up # <<>>
  /\ up' = Tail(up)
  /\ LET m == Head(up)
     IN IF m.ev \in {"need_chunks", "progress"}
        THEN /\ session' = [session EXCEPT !.off = m.off]
             /\ thread' = [thread EXCEPT !.pc = "total", !.total = m.total]
        ELSE UNCHANGED <<session, thread>>
  /\ UNCHANGED <<posting, down, device, spent>>

StoreTotal ==
  /\ thread.pc = "total"
  /\ session' = [session EXCEPT !.total = thread.total]
  /\ thread' = [thread EXCEPT !.pc = "check"]
  /\ UNCHANGED <<posting, down, up, device, spent>>

\* send_next_chunk
CheckActive ==
  /\ thread.pc = "check"
  /\ thread' = IF session.active THEN [thread EXCEPT !.pc = "cursor"] ELSE AtRest
  /\ UNCHANGED <<session, posting, down, up, device, spent>>

ReadCursor ==
  /\ thread.pc = "cursor"
  /\ IF session.off >= session.total
     THEN thread' = [AtRest EXCEPT !.pc = "send", !.msg = [op |-> "finish"]]
     ELSE thread' = [thread EXCEPT !.pc = "cut", !.off = session.off,
                                   !.total = session.total]
  /\ UNCHANGED <<session, posting, down, up, device, spent>>

\* firmware[off:end] of a Python bytes object.
Slice(f, from, to) == SubSeq(f, from + 1, IF to < Len(f) THEN to ELSE Len(f))

End == IF thread.off + ChunkSize < thread.total THEN thread.off + ChunkSize
       ELSE thread.total

\* The chunks that may be cut from buf under the armed fault.
Cuts(buf) ==
  LET full == [op |-> "chunk", off |-> thread.off, data |-> buf,
               intact |-> session.fault # "bad_sha", sealed |-> session.fault # "bad_enc"]
  IN IF session.fault = "short" /\ buf # <<>>
     THEN {[full EXCEPT !.data = SubSeq(buf, 1, n)] : n \in 1..Len(buf)}
     ELSE {full}

\* A session without firmware raises in the MQTT thread.
Cut ==
  /\ thread.pc = "cut"
  /\ IF session.firmware = None
     THEN thread' = [AtRest EXCEPT !.pc = "dead"]
     ELSE \E m \in Cuts(Slice(session.firmware, thread.off, End)) :
            thread' = [AtRest EXCEPT !.pc = "send", !.msg = m]
  /\ UNCHANGED <<session, posting, down, up, device, spent>>

\* Mutant: the whole session is cleared with a one-shot fault.
SendClearsSession ==
  /\ thread.pc = "send"
  /\ Publish(thread.msg)
  /\ session' = IF thread.msg.op = "chunk" /\ session.once
                THEN [EmptySession EXCEPT !.active = session.active] ELSE session
  /\ thread' = AtRest
  /\ UNCHANGED <<posting, up, device, spent>>

\* Publish, then clear a one-shot fault.
Send ==
  /\ thread.pc = "send"
  /\ Publish(thread.msg)
  /\ session' = IF thread.msg.op = "chunk" /\ session.once
                THEN [session EXCEPT !.fault = None, !.once = FALSE] ELSE session
  /\ thread' = AtRest
  /\ UNCHANGED <<posting, up, device, spent>>

-----------------------------------------------------------------------------
(* The channels lose messages: QoS 0 upward, a lost session or a message   *)
(* overtaken by one with a higher SecureLink number downward.              *)

Without(s, i) == SubSeq(s, 1, i - 1) \o SubSeq(s, i + 1, Len(s))

Lose ==
  /\ spent.losses < MaxLosses
  /\ spent' = [spent EXCEPT !.losses = @ + 1]
  /\ \/ \E i \in 1..Len(down) : down' = Without(down, i) /\ up' = up
     \/ \E i \in 1..Len(up) : up' = Without(up, i) /\ down' = down
  /\ UNCHANGED <<server, device>>

-----------------------------------------------------------------------------
Init ==
  /\ session = EmptySession /\ thread = AtRest /\ posting = None
  /\ down = <<>> /\ up = <<>>
  /\ device = [online |-> TRUE, pend |-> FALSE, job |-> None, off |-> 0,
               data |-> <<>>, chosen |-> "running", image |-> None]
  /\ spent = [uploads |-> 0, settings |-> 0, commands |-> 0, aborts |-> 0,
              restarts |-> 0, losses |-> 0]

MqttThread ==
  TakeStatus \/ StoreTotal \/ CheckActive \/ ReadCursor \/ Cut \/ Send

Device == Receive \/ TakeReboot \/ Start

Operator ==
  \/ \E f \in Firmware : StartUpload(f)
  \/ \E mode \in FaultModes, once \in BOOLEAN : ArmFault(mode, once)
  \/ Pause \/ Resume \/ Abort \/ AskReboot

Environment == PowerLoss \/ Lose

Next == MqttThread \/ Post \/ Device \/ Operator \/ Environment

Spec == Init /\ [][Next]_vars

\* Both MQTT clients keep running, and a device that is down starts again.
Running == WF_vars(MqttThread) /\ WF_vars(Post) /\ WF_vars(Device)

FairSpec == Spec /\ Running

\* Messages of the update that are under way, wherever they are.
UnderWay ==
  Len(down) + Len(up) + (IF posting = None THEN 0 ELSE 1)
    + (IF thread.pc \in {"idle", "dead"} THEN 0 ELSE 1)

\* An operator who uploads the firmware again whenever the device is there and
\* nothing moves any more.
Retry ==
  /\ UnderWay = 0 /\ device.online /\ device.image = None
  /\ \E f \in Firmware : StartUpload(f)

Interference ==
  \E mode \in FaultModes, once \in BOOLEAN : ArmFault(mode, once)

RetryNext ==
  MqttThread \/ Post \/ Device \/ Retry \/ Pause \/ AskReboot \/ Interference \/ Environment

RetrySpec == Init /\ [][RetryNext]_vars /\ Running /\ WF_vars(Retry)

-----------------------------------------------------------------------------
(* Properties.                                                             *)

\* Every variable has its type, a pending job is a firmware, and what is about to
\* be published is a message.
TypeOK ==
  /\ session \in Session /\ thread \in Thread /\ posting \in Message \cup {None}
  /\ down \in Seq(Message) /\ up \in Seq(Report)
  /\ device \in DeviceJob /\ spent \in Spent
  /\ device.pend => device.job # None
  /\ thread.pc = "send" => thread.msg \in Message

\* Every message under way descends from one request of its own: however status
\* messages, uploads and controls interleave, no answer is answered twice, so
\* chunks cannot multiply.
OneMessagePerRequest == UnderWay <= spent.uploads + spent.commands

\* What the device has written for its job is the beginning of that firmware,
\* while uploads of one firmware overlap, chunks are cut short, altered or lost
\* and the device restarts.
WrittenIsPrefix ==
  device.pend => device.off <= Len(device.job)
                   /\ device.data = SubSeq(device.job, 1, device.off)

\* Until somebody aborts, the MQTT thread survives: it never cuts a chunk from a
\* session without firmware, although uploads, pauses and answers to earlier uploads
\* change the session between any two of its reads.
ThreadAlive == spent.aborts = 0 => thread.pc # "dead"

\* Uploading again whenever nothing moves completes the update in spite of the
\* losses, restarts, pauses and faulty chunks before.
RetriedUploadCompletes == spent.uploads > 0 ~> device.image # None

\* "automatic resume after power loss or reboot" (FotaManager.h).
AutoResume ==
  (spent.restarts > 0 /\ device.online /\ device.pend) ~>
    (device.image # None \/ ~device.pend)

=============================================================================
