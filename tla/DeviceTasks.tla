----------------------------- MODULE DeviceTasks -----------------------------
(* What the two tasks of the device share without a lock: the configuration in   *)
(* EEPROM (ConfigUpdate.cpp) and the one write command (Mqtt.cpp, main.cpp,      *)
(* Poller::write and the transport).  The cloud task stores what arrives, the    *)
(* main task applies it, one access at a time.                                   *)
EXTENDS Integers

CONSTANTS
  Params,    \* number of parameters of the configuration (4)
  Low, High, \* per parameter, the range that validateConfig accepts
  Offered,   \* configurations the server sends, a number per parameter
  Default,   \* the parameters' values in main.cpp
  Attempts,  \* attempts of Poller::write (3)
  MaxMessages, MaxRestarts   \* bounds on messages of either kind, and on restarts

Param == 1..Params
Byte == 0..255
Word == 0..(256 * 256 - 1)
Cell == 1..(2 * Params)   \* EEPROM cells: the high byte of a parameter, then the low

ASSUME ParamsAssumption == Params \in Nat \ {0} /\ Attempts \in Nat \ {0}
ASSUME RangeAssumption ==
  /\ Low \in [Param -> Word] /\ High \in [Param -> Nat] /\ Default \in [Param -> Word]
  /\ Offered \subseteq [Param -> Nat]
ASSUME BoundAssumption == {MaxMessages, MaxRestarts} \subseteq Nat

VARIABLES
  cloud,    \* the cloud task: where it is, and the message it handles
  main,     \* the main task: where it is, and its local variables
  cells,    \* the EEPROM library's copy in memory
  flash,    \* what was committed last, erased at first
  changed,  \* config_changed
  params,   \* POLL_PERIOD_MS, UPLOAD_PERIOD_MS, BUFFER_CAPACITY, REG_REQ_ID_1
  slot,     \* WRITE_ADDR, WRITE_VALUE and the fault, by the command they came from
  wflag,    \* writecommandreceived
  eflag,    \* writeemulationreceived
  posted,   \* history: frames and faults posted to the inverter's service, number of faults
  calls,    \* history: calls of Poller::write: their number and arguments
  torn,     \* history: a configuration was stored while one was being applied
  busy,     \* history: a command met one that was still in the slot, or was taken half stored
  spent     \* messages, the commands among them, and restarts so far

vars == <<cloud, main, cells, flash, changed, params, slot, wflag, eflag, posted, calls,
          torn, busy, spent>>
configState == <<cells, flash, changed, params, torn>>
writeState == <<slot, wflag, eflag, posted, calls, busy>>

ErasedCells == [k \in Cell |-> 255]
CloudIdle == [pc |-> "idle", conf |-> Default, k |-> 1, n |-> 0, emulates |-> FALSE]
MainIdle == [pc |-> "write?", read |-> {}, got |-> ErasedCells, address |-> 0, value |-> 0,
             fault |-> 0, left |-> 0, emulates |-> FALSE]

-----------------------------------------------------------------------------
(* Storing a configuration, on the cloud task.                                 *)

Hi(w) == w \div 256
Lo(w) == w % 256

AsWordUnchecked(n) == n   \* mutant: kept in more bits
\* ArduinoJson gives 0 for a number that an uint16_t cannot hold.
AsWord(n) == IF n \in Word THEN n ELSE 0
Converted(c) == [p \in Param |-> AsWord(c[p])]

\* validateConfig
Valid(w) == \A p \in Param : Low[p] <= w[p] /\ w[p] <= High[p]

AcceptedAsSent(c) == Valid(c)   \* mutant: checked before the conversion
Accepted(c) == Valid(Converted(c))

\* The bytes of a configuration, in the order in which updateConfig writes them.
Bytes(w) == [k \in Cell |-> IF k % 2 = 1 THEN Hi(w[(k + 1) \div 2]) ELSE Lo(w[k \div 2])]

Applying == main.pc \in {"apply", "assign", "applied"}
Saving == cloud.pc \in {"store", "commit", "raise"}

\* SaveConfig up to its checks; a message without all the keys ends there too.
ReceiveConfig ==
  /\ cloud.pc = "idle" /\ spent.messages < MaxMessages
  /\ spent' = [spent EXCEPT !.messages = @ + 1]
  /\ \E c \in Offered :
       IF Accepted(c)
       THEN cloud' = [cloud EXCEPT !.pc = "store", !.conf = Converted(c), !.k = 1]
       ELSE cloud' = cloud
  /\ torn' = (torn \/ (Applying /\ cloud' # cloud))
  /\ UNCHANGED <<main, cells, flash, changed, params, writeState>>

\* Mutant: every byte is committed.
StoreCommitted ==
  /\ cloud.pc = "store"
  /\ cells' = [cells EXCEPT ![cloud.k] = Bytes(cloud.conf)[cloud.k]] /\ flash' = cells'
  /\ cloud' = IF cloud.k = 2 * Params THEN [cloud EXCEPT !.pc = "raise"]
              ELSE [cloud EXCEPT !.k = @ + 1]
  /\ UNCHANGED <<main, changed, params, torn, writeState, spent>>

\* updateConfig, and the flag
Store ==
  /\ cloud.pc = "store"
  /\ cells' = [cells EXCEPT ![cloud.k] = Bytes(cloud.conf)[cloud.k]]
  /\ cloud' = IF cloud.k = 2 * Params THEN [cloud EXCEPT !.pc = "commit"]
              ELSE [cloud EXCEPT !.k = @ + 1]
  /\ UNCHANGED <<main, flash, changed, params, torn, writeState, spent>>

Commit ==
  /\ cloud.pc = "commit" /\ flash' = cells
  /\ cloud' = [cloud EXCEPT !.pc = "raise"]
  /\ UNCHANGED <<main, cells, changed, params, torn, writeState, spent>>

\* Mutant: the flag is forgotten.
RaiseNothing ==
  /\ cloud.pc = "raise" /\ cloud' = CloudIdle
  /\ UNCHANGED <<main, cells, flash, changed, params, torn, writeState, spent>>

Raise ==
  /\ cloud.pc = "raise" /\ changed' = TRUE
  /\ cloud' = CloudIdle
  /\ UNCHANGED <<main, cells, flash, params, torn, writeState, spent>>

-----------------------------------------------------------------------------
(* Applying it, on the main task.                                              *)

ApplyStarts ==
  /\ main.pc = "config?"
  /\ main' = IF changed THEN [main EXCEPT !.pc = "apply", !.read = {}] ELSE [main EXCEPT !.pc = "write?"]
  /\ torn' = (torn \/ (changed /\ Saving))
  /\ UNCHANGED <<cloud, cells, flash, changed, params, writeState, spent>>

\* retrieveConfig: parameter by parameter, and within one the compiler may read
\* either byte first.
ApplyReads ==
  /\ main.pc = "apply"
  /\ \E k \in Cell \ main.read :
       /\ \A j \in Cell : (j + 1) \div 2 < (k + 1) \div 2 => j \in main.read
       /\ main' = [main EXCEPT !.read = @ \cup {k}, !.got[k] = cells[k],
                               !.pc = IF main.read \cup {k} = Cell THEN "assign" ELSE "apply"]
  /\ UNCHANGED <<cloud, configState, writeState, spent>>

WordAt(b, p) == 256 * b[2 * p - 1] + b[2 * p]

ApplyAssigns ==
  /\ main.pc = "assign"
  /\ params' = [p \in Param |-> WordAt(main.got, p)]
  /\ main' = [MainIdle EXCEPT !.pc = "applied"]
  /\ UNCHANGED <<cloud, cells, flash, changed, torn, writeState, spent>>

ApplyEnds ==
  /\ main.pc = "applied" /\ changed' = FALSE
  /\ main' = MainIdle
  /\ UNCHANGED <<cloud, cells, flash, params, torn, writeState, spent>>

-----------------------------------------------------------------------------
(* Storing a write command, on the cloud task (writeReceived).  Commands are     *)
(* numbered; the slot's fields hold the number of the command they come from,    *)
(* 0 for the values in main.cpp.                                                 *)

Writing == main.pc \in {"address", "value", "attempt", "choose", "post", "clear_w", "clear_e"}
Storing == cloud.pc \in {"emulate", "fault", "address", "value", "command"}

ReceiveCommand ==
  /\ cloud.pc = "idle" /\ spent.messages < MaxMessages
  /\ spent' = [spent EXCEPT !.messages = @ + 1, !.commands = @ + 1]
  /\ \E kind \in {"emulate", "address"} :
       cloud' = [cloud EXCEPT !.pc = kind, !.n = spent.commands + 1, !.emulates = kind = "emulate"]
  /\ busy' = (busy \/ Writing \/ wflag \/ eflag)
  /\ UNCHANGED <<main, configState, slot, wflag, eflag, posted, calls>>

\* Mutant: the flag is raised with the address.
StoreCommandFlagFirst ==
  /\ \/ /\ cloud.pc = "emulate" /\ eflag' = TRUE /\ UNCHANGED <<slot, wflag>>
        /\ cloud' = [cloud EXCEPT !.pc = "fault"]
     \/ /\ cloud.pc = "fault" /\ slot' = [slot EXCEPT !.fault = cloud.n] /\ UNCHANGED <<wflag, eflag>>
        /\ cloud' = [cloud EXCEPT !.pc = "address"]
     \/ /\ cloud.pc = "address" /\ slot' = [slot EXCEPT !.address = cloud.n] /\ eflag' = eflag
        /\ wflag' = (wflag \/ ~cloud.emulates)
        /\ cloud' = [cloud EXCEPT !.pc = "value"]
     \/ /\ cloud.pc = "value" /\ slot' = [slot EXCEPT !.value = cloud.n] /\ UNCHANGED <<wflag, eflag>>
        /\ cloud' = CloudIdle
  /\ UNCHANGED <<main, configState, posted, calls, busy, spent>>

\* With optional keys: the flag, the fault, the address and the value.  Without:
\* the address, the value and the flag.
StoreCommand ==
  /\ \/ /\ cloud.pc = "emulate" /\ eflag' = TRUE /\ UNCHANGED <<slot, wflag>>
        /\ cloud' = [cloud EXCEPT !.pc = "fault"]
     \/ /\ cloud.pc = "fault" /\ slot' = [slot EXCEPT !.fault = cloud.n] /\ UNCHANGED <<wflag, eflag>>
        /\ cloud' = [cloud EXCEPT !.pc = "address"]
     \/ /\ cloud.pc = "address" /\ slot' = [slot EXCEPT !.address = cloud.n] /\ UNCHANGED <<wflag, eflag>>
        /\ cloud' = [cloud EXCEPT !.pc = "value"]
     \/ /\ cloud.pc = "value" /\ slot' = [slot EXCEPT !.value = cloud.n] /\ UNCHANGED <<wflag, eflag>>
        /\ cloud' = IF cloud.emulates THEN CloudIdle ELSE [cloud EXCEPT !.pc = "command"]
     \/ /\ cloud.pc = "command" /\ wflag' = TRUE /\ UNCHANGED <<slot, eflag>>
        /\ cloud' = CloudIdle
  /\ UNCHANGED <<main, configState, posted, calls, busy, spent>>

-----------------------------------------------------------------------------
(* Carrying it out, on the main task.                                          *)

\* Mutant: an emulated command is not looked for.
WriteStartsPlain ==
  /\ main.pc = "write?"
  /\ main' = [main EXCEPT !.pc = IF wflag THEN "address" ELSE "config?"]
  /\ UNCHANGED <<cloud, configState, writeState, spent>>

WriteStarts ==
  /\ main.pc = "write?"
  /\ main' = [main EXCEPT !.pc = IF wflag \/ eflag THEN "address" ELSE "config?"]
  /\ busy' = (busy \/ (eflag /\ Storing /\ cloud.emulates))
  /\ UNCHANGED <<cloud, configState, slot, wflag, eflag, posted, calls, spent>>

\* The arguments of Poller::write.
ReadArguments ==
  /\ \/ /\ main.pc = "address"
        /\ main' = [main EXCEPT !.pc = "value", !.address = slot.address]
        /\ calls' = calls
     \/ /\ main.pc = "value"
        /\ main' = [main EXCEPT !.pc = "attempt", !.value = slot.value, !.left = Attempts]
        /\ calls' = [made |-> calls.made + 1,
                     with |-> calls.with \cup {<<main.address, slot.value>>}]
  /\ UNCHANGED <<cloud, configState, slot, wflag, eflag, posted, busy, spent>>

\* Whether Poller::write tries again: not after success or an illegal address or
\* value.
Answer == {"ok", "illegal", "error"}
Again(answer) == answer = "error" /\ main.left > 1
Answered(answer) ==
  main' = IF Again(answer)
          THEN [main EXCEPT !.left = @ - 1, !.pc = "attempt", !.fault = 0, !.emulates = FALSE]
          ELSE [MainIdle EXCEPT !.pc = "clear_w"]

\* writeRequest reads the emulation flag to choose the address and the body, ...
Choose ==
  /\ main.pc = "attempt"
  /\ \/ main' = [main EXCEPT !.pc = "choose", !.emulates = eflag,
                              !.fault = IF eflag THEN slot.fault ELSE 0]
     \/ Answered("error")   \* http.begin fails
  /\ UNCHANGED <<cloud, configState, writeState, spent>>

\* ... and again to choose which body is posted.
ChooseBody ==
  /\ main.pc = "choose"
  /\ posted' = IF ~eflag
               THEN [posted EXCEPT !.frames = @ \cup {<<main.address, main.value>>}]
               ELSE IF main.emulates THEN [posted EXCEPT !.faults = @ \cup {main.fault}, !.made = @ + 1]
               ELSE posted   \* the body is empty
  /\ IF eflag THEN main' = [main EXCEPT !.pc = "post"] ELSE \E a \in Answer : Answered(a)
  /\ UNCHANGED <<cloud, configState, slot, wflag, eflag, calls, busy, spent>>

\* The flag is cleared when the post has returned.
PostEnds ==
  /\ main.pc = "post" /\ eflag' = FALSE
  /\ \E a \in Answer : Answered(a)
  /\ UNCHANGED <<cloud, configState, slot, wflag, posted, calls, busy, spent>>

\* Mutant: only one flag is cleared.
WriteEndsHalf ==
  /\ main.pc \in {"clear_w", "clear_e"} /\ eflag' = FALSE
  /\ main' = [MainIdle EXCEPT !.pc = "config?"]
  /\ UNCHANGED <<cloud, configState, slot, wflag, posted, calls, busy, spent>>

WriteEnds ==
  /\ \/ /\ main.pc = "clear_w" /\ wflag' = FALSE /\ eflag' = eflag
        /\ main' = [main EXCEPT !.pc = "clear_e"]
     \/ /\ main.pc = "clear_e" /\ eflag' = FALSE /\ wflag' = wflag
        /\ main' = [MainIdle EXCEPT !.pc = "config?"]
  /\ UNCHANGED <<cloud, configState, slot, posted, calls, busy, spent>>

-----------------------------------------------------------------------------
\* A restart at any moment: what was committed is all that is left.
Restart ==
  /\ spent.restarts < MaxRestarts /\ spent' = [spent EXCEPT !.restarts = @ + 1]
  /\ cloud' = CloudIdle /\ main' = MainIdle
  /\ cells' = flash /\ flash' = flash
  /\ changed' = TRUE /\ params' = Default /\ torn' = FALSE
  /\ slot' = [address |-> 0, value |-> 0, fault |-> 0] /\ wflag' = FALSE /\ eflag' = FALSE
  /\ UNCHANGED <<posted, calls, busy>>

Init ==
  /\ cloud = CloudIdle /\ main = MainIdle
  /\ flash = ErasedCells /\ cells = ErasedCells /\ changed = TRUE /\ params = Default /\ torn = FALSE
  /\ slot = [address |-> 0, value |-> 0, fault |-> 0] /\ wflag = FALSE /\ eflag = FALSE
  /\ posted = [frames |-> {}, faults |-> {}, made |-> 0] /\ calls = [made |-> 0, with |-> {}] /\ busy = FALSE
  /\ spent = [messages |-> 0, commands |-> 0, restarts |-> 0]

CloudTask == ReceiveConfig \/ Store \/ Commit \/ Raise \/ ReceiveCommand \/ StoreCommand
MainTask ==
  \/ ApplyStarts \/ ApplyReads \/ ApplyAssigns \/ ApplyEnds
  \/ WriteStarts \/ ReadArguments \/ Choose \/ ChooseBody \/ PostEnds \/ WriteEnds

Next == CloudTask \/ MainTask \/ Restart

Spec == Init /\ [][Next]_vars

\* Both tasks run; messages and restarts need not come.
FairSpec == Spec /\ WF_vars(MainTask) /\ WF_vars(Store \/ Commit \/ Raise \/ StoreCommand)

-----------------------------------------------------------------------------
(* Properties.                                                                *)

\* Every variable has its type.
TypeOK ==
  /\ cloud.pc \in {"idle", "store", "commit", "raise", "emulate", "fault", "address", "value",
                   "command"}
  /\ cloud.conf \in [Param -> Word] /\ cloud.k \in Cell
  /\ main.read \subseteq Cell /\ main.got \in [Cell -> Byte] /\ main.left \in 0..Attempts
  /\ cells \in [Cell -> Byte] /\ flash \in [Cell -> Byte]
  /\ params \in [Param -> Word]
  /\ {slot.address, slot.value, slot.fault} \subseteq 0..MaxMessages
  /\ {changed, torn, wflag, eflag, busy} \subseteq BOOLEAN

\* What survives a restart is a whole configuration that passed the checks,
\* although power may fail between any two of its bytes.
CommittedIsValid ==
  flash # ErasedCells =>
    \A p \in Param : Low[p] <= WordAt(flash, p) /\ WordAt(flash, p) <= High[p]

\* Even a configuration that was read while it was being replaced, which mixes the
\* bytes of two, leaves every period at least the first multiple of 256 below its
\* minimum: the tasks never run without a pause.
AppliedIsBounded ==
  \A p \in Param : params[p] >= 256 * Hi(Low[p]) \/ params[p] = Default[p]

\* A valid configuration that is committed is applied, unless one arrived while
\* another was being applied, or the next one replaces it.
ConfigTakesEffect ==
  \A c \in Offered :
    (flash = Bytes(Converted(c)) /\ cloud.pc = "idle") ~> (params = Converted(c) \/ torn \/ Saving)

\* Nothing is done to the inverter that nobody asked for: Poller::write is called at
\* most once for each command received, and an emulated fault is posted at most
\* once per command, in spite of the two flags for one slot.  The retries inside one
\* call are not counted.
NothingUnasked == calls.made <= spent.commands /\ posted.made <= spent.commands

\* Address and value of every write belong to one command, and like every fault to
\* one that came in, unless commands overlapped.
WritesAreWhole ==
  ~busy => (\A f \in posted.frames : f[1] = f[2] /\ f[1] > 0) /\ 0 \notin posted.faults

\* The last command is carried out, unless commands overlapped or the device restarted.
CommandIsCarriedOut ==
  \A n \in 1..MaxMessages :
    (cloud.pc = "idle" /\ spent.commands = n)
      ~> (busy \/ spent.restarts > 0 \/ <<n, n>> \in calls.with)

=============================================================================
