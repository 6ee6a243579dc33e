--------------------------- MODULE DeviceTasksProofs ---------------------------
(***************************************************************************)
(* What the two tasks of the device share, for every number of parameters, *)
(* every range and every configuration offered: what is committed is a     *)
(* valid configuration, what is applied is bounded even when it mixes two, *)
(* and no write is done that was not commanded.                            *)
(***************************************************************************)
EXTENDS DeviceTasks, TLAPS

-----------------------------------------------------------------------------
(* Bytes.                                                                      *)

LEMMA RangeIs ==
  ASSUME NEW a \in Int, NEW b \in Int
  PROVE  \A n : n \in a..(b - 1) <=> n \in Int /\ a <= n /\ n < b
  OBVIOUS

LEMMA WordIs == \A n : n \in Word <=> n \in Int /\ 0 <= n /\ n < 256 * 256
<1>1. 0 \in Int /\ 256 * 256 \in Int
  OBVIOUS
<1> QED
  BY <1>1, RangeIs DEF Word

LEMMA ByteIs == \A n : n \in Byte <=> n \in Int /\ 0 <= n /\ n <= 255
  BY DEF Byte

LEMMA HiLo ==
  ASSUME NEW w \in Word
  PROVE  Hi(w) \in Byte /\ Lo(w) \in Byte /\ 256 * Hi(w) + Lo(w) = w
<1>1. w \in Int /\ 0 <= w /\ w < 256 * 256
  BY WordIs
<1>2. /\ w \div 256 \in Int /\ w % 256 \in Int /\ 0 <= w % 256 /\ w % 256 <= 255
      /\ 256 * (w \div 256) + (w % 256) = w
  BY <1>1
<1>3. 0 <= w \div 256 /\ w \div 256 <= 255
  BY <1>1, <1>2
<1> QED
  BY <1>2, <1>3, ByteIs DEF Hi, Lo

LEMMA HiMonotone ==
  ASSUME NEW v \in Word, NEW w \in Word, v <= w
  PROVE  Hi(v) <= Hi(w)
  BY WordIs DEF Hi

LEMMA CellsOfParam ==
  /\ Params \in Nat \ {0}
  /\ \A p \in Param : /\ 2 * p - 1 \in Cell /\ 2 * p \in Cell
                      /\ (2 * p - 1) % 2 = 1 /\ ((2 * p - 1) + 1) \div 2 = p
                      /\ (2 * p) % 2 = 0 /\ (2 * p) \div 2 = p
  /\ \A k \in Cell : /\ k % 2 = 1 => (k + 1) \div 2 \in Param
                     /\ k % 2 # 1 => k \div 2 \in Param
  BY ParamsAssumption DEF Param, Cell

LEMMA BytesFacts ==
  ASSUME NEW w \in [Param -> Word]
  PROVE  /\ Bytes(w) \in [Cell -> Byte]
         /\ \A p \in Param : Bytes(w)[2 * p - 1] = Hi(w[p]) /\ Bytes(w)[2 * p] = Lo(w[p])
         /\ \A p \in Param : WordAt(Bytes(w), p) = w[p]
<1>1. \A k \in Cell : Bytes(w)[k] \in Byte
  <2> SUFFICES ASSUME NEW k \in Cell
               PROVE  Bytes(w)[k] \in Byte
    OBVIOUS
  <2>1. CASE k % 2 = 1
    <3>1. (k + 1) \div 2 \in Param
      BY <2>1, CellsOfParam
    <3>2. Bytes(w)[k] = Hi(w[(k + 1) \div 2])
      BY <2>1 DEF Bytes
    <3> QED
      BY <3>1, <3>2, HiLo
  <2>2. CASE k % 2 # 1
    <3>1. k \div 2 \in Param /\ Bytes(w)[k] = Lo(w[k \div 2])
      BY <2>2, CellsOfParam DEF Bytes
    <3> QED
      BY <3>1, HiLo
  <2> QED
    BY <2>1, <2>2
<1>2. \A p \in Param : Bytes(w)[2 * p - 1] = Hi(w[p]) /\ Bytes(w)[2 * p] = Lo(w[p])
  BY CellsOfParam DEF Bytes
<1>3. \A p \in Param : WordAt(Bytes(w), p) = w[p]
  BY <1>2, HiLo DEF WordAt
<1> QED
  BY <1>1, <1>2, <1>3 DEF Bytes

LEMMA ConvertedType ==
  ASSUME NEW c \in Offered
  PROVE  Converted(c) \in [Param -> Word]
<1>1. \A n : AsWord(n) \in Word
  <2>1. 0 \in Word
    BY WordIs
  <2> QED
    BY <2>1 DEF AsWord
<1> QED
  BY <1>1 DEF Converted

-----------------------------------------------------------------------------
(* Types.                                                                      *)

CloudPlace == {"idle", "store", "commit", "raise", "emulate", "fault", "address", "value", "command"}
MainPlace == {"write?", "config?", "apply", "assign", "applied", "address", "value", "attempt",
              "choose", "post", "clear_w", "clear_e"}
Command == 0..MaxMessages
CloudState == [pc : CloudPlace, conf : [Param -> Word], k : Cell, n : Command, emulates : BOOLEAN]
MainState == [pc : MainPlace, read : SUBSET Cell, got : [Cell -> Byte], address : Command,
              value : Command, fault : Command, left : 0..Attempts, emulates : BOOLEAN]
Posts == [frames : SUBSET (Command \X Command), faults : SUBSET Command, made : Nat]
Slot == [address : Command, value : Command, fault : Command]

TypeInv ==
  /\ cloud \in CloudState /\ main \in MainState /\ slot \in Slot
  /\ cells \in [Cell -> Byte] /\ flash \in [Cell -> Byte] /\ params \in [Param -> Word]
  /\ changed \in BOOLEAN /\ torn \in BOOLEAN /\ wflag \in BOOLEAN /\ eflag \in BOOLEAN /\ busy \in BOOLEAN
  /\ spent.commands \in 0..spent.messages /\ spent.messages \in 0..MaxMessages
  /\ spent \in [messages : Nat, commands : Nat, restarts : Nat]
  /\ calls.made \in Nat /\ posted \in Posts

LEMMA IdleTypes ==
  /\ CloudIdle \in CloudState /\ MainIdle \in MainState
  /\ ErasedCells \in [Cell -> Byte] /\ Default \in [Param -> Word] /\ 0 \in Command
<1>1. 1 \in Cell /\ 0 \in Command /\ 0 \in 0..Attempts /\ Default \in [Param -> Word]
  BY ParamsAssumption, RangeAssumption, BoundAssumption DEF Cell, Command
<1>2. ErasedCells \in [Cell -> Byte]
  BY DEF ErasedCells, Byte
<1> QED
  BY <1>1, <1>2 DEF CloudIdle, MainIdle, CloudState, MainState, CloudPlace, MainPlace

LEMMA TypeStarts ==
  ASSUME Init
  PROVE  TypeInv
<1>1. slot \in Slot
  BY IdleTypes DEF Init, Slot
<1>2. /\ spent.commands \in 0..spent.messages /\ spent.messages \in 0..MaxMessages
      /\ spent \in [messages : Nat, commands : Nat, restarts : Nat]
  BY BoundAssumption DEF Init
<1>3. calls.made \in Nat /\ posted \in Posts
  BY DEF Init, Posts
<1> QED
  BY <1>1, <1>2, <1>3, IdleTypes DEF Init, TypeInv

\* The cloud task.
LEMMA CloudTypes ==
  ASSUME TypeInv, CloudTask
  PROVE  TypeInv'
<1>1. CASE ReceiveConfig
  <2>1. cloud' \in CloudState
    <3>1. PICK c \in Offered : cloud' \in {cloud, [cloud EXCEPT !.pc = "store", !.conf = Converted(c), !.k = 1]}
      BY <1>1 DEF ReceiveConfig
    <3>2. 1 \in Cell /\ Converted(c) \in [Param -> Word]
      BY ConvertedType, ParamsAssumption DEF Cell
    <3> QED
      BY <3>1, <3>2 DEF TypeInv, CloudState, CloudPlace
  <2>2. spent' = [spent EXCEPT !.messages = @ + 1] /\ spent.messages < MaxMessages
    BY <1>1 DEF ReceiveConfig
  <2>3. spent'.commands \in 0..spent'.messages /\ spent'.messages \in 0..MaxMessages
        /\ spent' \in [messages : Nat, commands : Nat, restarts : Nat]
    BY <2>2, BoundAssumption DEF TypeInv
  <2>4. torn' \in BOOLEAN /\ UNCHANGED <<main, cells, flash, changed, params, slot, wflag, eflag, posted, calls, busy>>
    BY <1>1 DEF ReceiveConfig, writeState, TypeInv
  <2> QED
    BY <2>1, <2>3, <2>4 DEF TypeInv
<1>2. CASE Store
  <2>1. /\ cells' = [cells EXCEPT ![cloud.k] = Bytes(cloud.conf)[cloud.k]]
        /\ cloud' = IF cloud.k = 2 * Params THEN [cloud EXCEPT !.pc = "commit"] ELSE [cloud EXCEPT !.k = @ + 1]
        /\ UNCHANGED <<main, flash, changed, params, torn, slot, wflag, eflag, posted, calls, busy, spent>>
    BY <1>2 DEF Store, writeState
  <2>2. cells' \in [Cell -> Byte]
    <3>1. cloud.conf \in [Param -> Word] /\ cloud.k \in Cell
      BY DEF TypeInv, CloudState
    <3>2. Bytes(cloud.conf)[cloud.k] \in Byte
      BY <3>1, BytesFacts
    <3>3. cells \in [Cell -> Byte]
      BY DEF TypeInv
    <3> QED
      BY <2>1, <3>2, <3>3
  <2>3. cloud' \in CloudState
    <3>1. cloud \in CloudState /\ (cloud.k # 2 * Params => cloud.k + 1 \in Cell)
      <4>1. cloud \in CloudState /\ cloud.k \in Cell
        BY DEF TypeInv, CloudState
      <4> QED
        BY <4>1, ParamsAssumption DEF Cell
    <3> QED
      BY <2>1, <3>1 DEF CloudState, CloudPlace
  <2> QED
    BY <2>1, <2>2, <2>3 DEF TypeInv
<1>3. CASE Commit
  BY <1>3 DEF Commit, writeState, TypeInv, CloudState, CloudPlace
<1>4. CASE Raise
  BY <1>4, IdleTypes DEF Raise, writeState, TypeInv
<1>5. CASE ReceiveCommand
  <2>1. /\ spent' = [spent EXCEPT !.messages = @ + 1, !.commands = @ + 1] /\ spent.messages < MaxMessages
        /\ \E kind \in {"emulate", "address"} :
             cloud' = [cloud EXCEPT !.pc = kind, !.n = spent.commands + 1, !.emulates = kind = "emulate"]
        /\ UNCHANGED <<main, cells, flash, changed, params, torn, slot, wflag, eflag, posted, calls>>
        /\ busy' \in BOOLEAN
    BY <1>5 DEF ReceiveCommand, configState, TypeInv
  <2>2. /\ spent'.commands \in 0..spent'.messages /\ spent'.messages \in 0..MaxMessages
        /\ spent' \in [messages : Nat, commands : Nat, restarts : Nat] /\ spent.commands + 1 \in Command
    <3>1. /\ spent.commands \in 0..spent.messages /\ spent.messages \in 0..MaxMessages
          /\ spent \in [messages : Nat, commands : Nat, restarts : Nat] /\ MaxMessages \in Nat
      BY BoundAssumption DEF TypeInv
    <3>2. spent'.messages = spent.messages + 1 /\ spent'.commands = spent.commands + 1
      BY <2>1, <3>1
    <3>3. spent' \in [messages : Nat, commands : Nat, restarts : Nat]
      <4>1. spent' = [[spent EXCEPT !.messages = spent.messages + 1] EXCEPT !.commands = spent.commands + 1]
        BY <2>1, <3>1
      <4>2. spent.messages + 1 \in Nat /\ spent.commands + 1 \in Nat
        BY <3>1
      <4> QED
        BY <3>1, <4>1, <4>2
    <3> QED
      BY <2>1, <3>1, <3>2, <3>3 DEF Command
  <2>3. cloud' \in CloudState
    BY <2>1, <2>2 DEF TypeInv, CloudState, CloudPlace
  <2> QED
    BY <2>1, <2>2, <2>3 DEF TypeInv
<1>6. CASE StoreCommand
  <2>1. /\ UNCHANGED <<main, cells, flash, changed, params, torn, posted, calls, busy, spent>>
        /\ wflag' \in BOOLEAN /\ eflag' \in BOOLEAN
    BY <1>6 DEF StoreCommand, configState, TypeInv
  <2>2. slot' \in Slot
    BY <1>6 DEF StoreCommand, TypeInv, Slot, CloudState
  <2>3. cloud' \in CloudState
    <3>1. cloud' = CloudIdle \/ \E p \in CloudPlace : cloud' = [cloud EXCEPT !.pc = p]
      BY <1>6 DEF StoreCommand, CloudPlace
    <3> QED
      BY <3>1, IdleTypes DEF TypeInv, CloudState
  <2> QED
    BY <2>1, <2>2, <2>3 DEF TypeInv
<1> QED
  BY <1>1, <1>2, <1>3, <1>4, <1>5, <1>6 DEF CloudTask

LEMMA AnsweredType ==
  ASSUME TypeInv, NEW a, Answered(a)
  PROVE  main' \in MainState
<1>1. CASE Again(a)
  <2>1. main' = [main EXCEPT !.left = @ - 1, !.pc = "attempt", !.fault = 0, !.emulates = FALSE] /\ main.left > 1
    BY <1>1 DEF Answered, Again
  <2>2. main.left - 1 \in 0..Attempts
    BY <2>1, ParamsAssumption DEF TypeInv, MainState
  <2> QED
    BY <2>1, <2>2, IdleTypes DEF TypeInv, MainState, MainPlace
<1>2. CASE ~Again(a)
  BY <1>2, IdleTypes DEF Answered, MainState, MainPlace
<1> QED
  BY <1>1, <1>2

\* The main task.
LEMMA MainTypes ==
  ASSUME TypeInv, MainTask
  PROVE  TypeInv'
<1>1. CASE ApplyStarts \/ ApplyReads \/ ApplyAssigns \/ ApplyEnds
  <2>1. /\ UNCHANGED <<cloud, cells, flash, slot, wflag, eflag, posted, calls, busy, spent>>
        /\ changed' \in BOOLEAN /\ torn' \in BOOLEAN
    BY <1>1 DEF ApplyStarts, ApplyReads, ApplyAssigns, ApplyEnds, configState, writeState, TypeInv
  <2>2. main' \in MainState /\ params' \in [Param -> Word]
    <3>1. CASE ApplyStarts
      <4>1. main' \in {[main EXCEPT !.pc = "apply", !.read = {}], [main EXCEPT !.pc = "write?"]} /\ params' = params
        BY <3>1 DEF ApplyStarts
      <4> QED
        BY <4>1 DEF TypeInv, MainState, MainPlace
    <3>2. CASE ApplyReads
      <4>1. PICK k \in Cell, p \in {"assign", "apply"} :
              main' = [main EXCEPT !.read = @ \cup {k}, !.got[k] = cells[k], !.pc = p]
        BY <3>2 DEF ApplyReads
      <4>2. [main.got EXCEPT ![k] = cells[k]] \in [Cell -> Byte] /\ main.read \cup {k} \subseteq Cell
        BY DEF TypeInv, MainState
      <4>3. main' = [main EXCEPT !.read = main.read \cup {k}, !.got = [main.got EXCEPT ![k] = cells[k]], !.pc = p]
        BY <4>1 DEF TypeInv, MainState
      <4>4. main' \in MainState
        BY <4>2, <4>3 DEF TypeInv, MainState, MainPlace
      <4> QED
        BY <3>2, <4>4 DEF ApplyReads, configState, TypeInv
    <3>3. CASE ApplyAssigns
      <4>1. main' \in MainState
        BY <3>3, IdleTypes DEF ApplyAssigns, MainState, MainPlace
      <4>2. \A p \in Param : WordAt(main.got, p) \in Word
        <5>1. \A k \in Cell : main.got[k] \in Byte
          BY DEF TypeInv, MainState
        <5>2. \A h \in Byte, l \in Byte : 256 * h + l \in Word
          BY WordIs, ByteIs
        <5> QED
          BY <5>1, <5>2, CellsOfParam DEF WordAt
      <4> QED
        BY <3>3, <4>1, <4>2 DEF ApplyAssigns
    <3>4. CASE ApplyEnds
      BY <3>4, IdleTypes DEF ApplyEnds, TypeInv
    <3> QED
      BY <1>1, <3>1, <3>2, <3>3, <3>4
  <2> QED
    BY <2>1, <2>2 DEF TypeInv
<1>2. CASE WriteStarts \/ ReadArguments \/ Choose \/ ChooseBody \/ PostEnds \/ WriteEnds
  <2>1. /\ UNCHANGED <<cloud, cells, flash, changed, params, torn, slot, spent>>
        /\ wflag' \in BOOLEAN /\ eflag' \in BOOLEAN /\ busy' \in BOOLEAN
    BY <1>2 DEF WriteStarts, ReadArguments, Choose, ChooseBody, PostEnds, WriteEnds, configState, writeState, TypeInv
  <2>2. main' \in MainState
    <3>1. CASE WriteStarts \/ WriteEnds
      BY <3>1, IdleTypes DEF WriteStarts, WriteEnds, TypeInv, MainState, MainPlace
    <3>2. CASE ReadArguments
      <4>1. /\ main \in MainState /\ slot.address \in Command /\ slot.value \in Command
            /\ Attempts \in 0..Attempts
        BY ParamsAssumption DEF TypeInv, Slot
      <4>2. \/ main' = [main EXCEPT !.pc = "value", !.address = slot.address]
            \/ main' = [main EXCEPT !.pc = "attempt", !.value = slot.value, !.left = Attempts]
        BY <3>2 DEF ReadArguments
      <4> QED
        BY <4>1, <4>2 DEF MainState, MainPlace
    <3>3. CASE Choose
      <4>1. CASE Answered("error")
        BY <4>1, AnsweredType
      <4>2. CASE main' = [main EXCEPT !.pc = "choose", !.emulates = eflag, !.fault = IF eflag THEN slot.fault ELSE 0]
        <5>1. (IF eflag THEN slot.fault ELSE 0) \in Command /\ eflag \in BOOLEAN
          BY IdleTypes DEF TypeInv, Slot
        <5> QED
          BY <4>2, <5>1 DEF TypeInv, MainState, MainPlace
      <4> QED
        BY <3>3, <4>1, <4>2 DEF Choose
    <3>4. CASE ChooseBody \/ PostEnds
      <4>1. main' = [main EXCEPT !.pc = "post"] \/ \E a \in Answer : Answered(a)
        BY <3>4 DEF ChooseBody, PostEnds
      <4> QED
        BY <4>1, AnsweredType DEF TypeInv, MainState, MainPlace
    <3> QED
      BY <1>2, <3>1, <3>2, <3>3, <3>4
  <2>3. calls'.made \in Nat
    BY <1>2 DEF WriteStarts, ReadArguments, Choose, ChooseBody, PostEnds, WriteEnds, writeState, TypeInv
  <2>4. posted' \in Posts
    <3>1. CASE ChooseBody
      <4>1. \/ posted' = [posted EXCEPT !.frames = @ \cup {<<main.address, main.value>>}]
            \/ posted' = [posted EXCEPT !.faults = @ \cup {main.fault}, !.made = @ + 1]
            \/ posted' = posted
        BY <3>1 DEF ChooseBody
      <4>2. posted \in Posts /\ main.address \in Command /\ main.value \in Command /\ main.fault \in Command
        BY DEF TypeInv, MainState
      <4>3. /\ posted.frames \cup {<<main.address, main.value>>} \in SUBSET (Command \X Command)
            /\ posted.faults \cup {main.fault} \in SUBSET Command /\ posted.made + 1 \in Nat
        BY <4>2 DEF Posts
      <4> QED
        BY <4>1, <4>2, <4>3 DEF Posts
    <3>2. CASE WriteStarts \/ ReadArguments \/ Choose \/ PostEnds \/ WriteEnds
      <4>1. posted' = posted
        BY <3>2 DEF WriteStarts, ReadArguments, Choose, PostEnds, WriteEnds, writeState
      <4> QED
        BY <4>1 DEF TypeInv
    <3> QED
      BY <1>2, <3>1, <3>2
  <2> QED
    BY <2>1, <2>2, <2>3, <2>4 DEF TypeInv
<1> QED
  BY <1>1, <1>2 DEF MainTask

LEMMA TypeSteps ==
  ASSUME TypeInv, [Next]_vars
  PROVE  TypeInv'
<1>1. CASE Restart
  <2>1. /\ cloud' = CloudIdle /\ main' = MainIdle /\ cells' = flash /\ flash' = flash /\ changed' = TRUE
        /\ params' = Default /\ torn' = FALSE /\ wflag' = FALSE /\ eflag' = FALSE
        /\ slot' = [address |-> 0, value |-> 0, fault |-> 0]
        /\ spent' = [spent EXCEPT !.restarts = @ + 1] /\ UNCHANGED <<posted, calls, busy>>
    BY <1>1 DEF Restart
  <2>2. slot' \in Slot
    BY <2>1, IdleTypes DEF Slot
  <2>3. /\ spent'.commands \in 0..spent'.messages /\ spent'.messages \in 0..MaxMessages
        /\ spent' \in [messages : Nat, commands : Nat, restarts : Nat]
    BY <2>1 DEF TypeInv
  <2>4. /\ posted' = posted /\ calls' = calls /\ busy' = busy
        /\ calls.made \in Nat /\ posted \in Posts /\ busy \in BOOLEAN
    BY <2>1 DEF TypeInv
  <2>5. cells' \in [Cell -> Byte] /\ flash' \in [Cell -> Byte] /\ params' \in [Param -> Word]
    BY <2>1, IdleTypes DEF TypeInv
  <2> QED
    BY <2>1, <2>2, <2>3, <2>4, <2>5, IdleTypes DEF TypeInv
<1>2. CASE UNCHANGED vars
  BY <1>2 DEF vars, TypeInv
<1> QED
  BY <1>1, <1>2, CloudTypes, MainTypes DEF Next

LEMMA TypesAlways == Spec => []TypeInv
  BY TypeStarts, TypeSteps, PTL DEF Spec

\* Every variable keeps its type.
THEOREM TypeCorrect == Spec => []TypeOK
<1>1. TypeInv => TypeOK
  BY DEF TypeInv, TypeOK, CloudState, MainState, Slot, CloudPlace, Command
<1> QED
  BY <1>1, TypesAlways, PTL

-----------------------------------------------------------------------------
(* The configuration.  A high byte is never below the one of its minimum: of a   *)
(* valid configuration, or erased; so whatever is mixed from such bytes is       *)
(* bounded.  Cells are committed only when all of one configuration are stored.   *)

Bounded(b) == \A p \in Param : b[2 * p - 1] >= Hi(Low[p])
Whole(b) == b = ErasedCells \/ \E w \in [Param -> Word] : Valid(w) /\ b = Bytes(w)

ConfigInv ==
  /\ cloud.pc \in {"store", "commit"} => Valid(cloud.conf)
  /\ cloud.pc = "store" => \A k \in Cell : k < cloud.k => cells[k] = Bytes(cloud.conf)[k]
  /\ cloud.pc = "commit" => cells = Bytes(cloud.conf)
  /\ Whole(flash)
  /\ Bounded(cells) /\ Bounded(flash) /\ Bounded(main.got)
  /\ \A p \in Param : params[p] >= 256 * Hi(Low[p]) \/ params[p] = Default[p]

LEMMA ErasedBounded == Bounded(ErasedCells)
<1>1. \A p \in Param : 2 * p - 1 \in Cell /\ Hi(Low[p]) \in Byte
  BY CellsOfParam, HiLo, RangeAssumption
<1> QED
  BY <1>1 DEF Bounded, ErasedCells, Byte

LEMMA ValidBounded ==
  ASSUME NEW w \in [Param -> Word], Valid(w)
  PROVE  Bounded(Bytes(w))
<1> SUFFICES ASSUME NEW p \in Param
             PROVE  Bytes(w)[2 * p - 1] >= Hi(Low[p])
  BY DEF Bounded
<1>1. Low[p] \in Word /\ w[p] \in Word /\ Low[p] <= w[p]
  BY RangeAssumption DEF Valid
<1>2. Hi(Low[p]) <= Hi(w[p]) /\ Hi(Low[p]) \in Byte /\ Hi(w[p]) \in Byte
  BY <1>1, HiMonotone, HiLo
<1> QED
  BY <1>2, BytesFacts DEF Byte

LEMMA ConfigStarts ==
  ASSUME Init
  PROVE  ConfigInv
  BY ErasedBounded DEF Init, ConfigInv, CloudIdle, MainIdle, Whole

LEMMA ConfigReceived ==
  ASSUME TypeInv, ConfigInv, ReceiveConfig
  PROVE  ConfigInv'
<1>1. UNCHANGED <<main, cells, flash, params>>
  BY DEF ReceiveConfig
<1>2. PICK c \in Offered : IF Accepted(c)
                           THEN cloud' = [cloud EXCEPT !.pc = "store", !.conf = Converted(c), !.k = 1]
                           ELSE cloud' = cloud
  BY DEF ReceiveConfig
<1>3. CASE Accepted(c)
  <2>1. cloud'.pc = "store" /\ cloud'.conf = Converted(c) /\ cloud'.k = 1
    BY <1>2, <1>3 DEF TypeInv, CloudState
  <2>2. Valid(cloud'.conf)
    BY <1>3, <2>1 DEF Accepted
  <2> QED
    BY <1>1, <2>1, <2>2 DEF ConfigInv, Cell
<1>4. CASE ~Accepted(c)
  BY <1>1, <1>2, <1>4 DEF ConfigInv
<1> QED
  BY <1>3, <1>4

LEMMA ConfigStored ==
  ASSUME TypeInv, ConfigInv, Store
  PROVE  ConfigInv'
<1> DEFINE w == cloud.conf
<1>1. /\ cells' = [cells EXCEPT ![cloud.k] = Bytes(w)[cloud.k]] /\ cloud.pc = "store"
      /\ cloud' = IF cloud.k = 2 * Params THEN [cloud EXCEPT !.pc = "commit"] ELSE [cloud EXCEPT !.k = @ + 1]
      /\ UNCHANGED <<main, flash, params>>
  BY DEF Store
<1>2. /\ w \in [Param -> Word] /\ cloud.k \in Cell /\ cells \in [Cell -> Byte] /\ cloud \in CloudState
      /\ Valid(w) /\ \A k \in Cell : k < cloud.k => cells[k] = Bytes(w)[k]
  BY <1>1 DEF TypeInv, CloudState, ConfigInv
<1>3. cloud'.conf = w /\ cells' \in [Cell -> Byte]
  BY <1>1, <1>2, BytesFacts DEF CloudState
<1>4. Bounded(cells')
  <2> SUFFICES ASSUME NEW p \in Param
               PROVE  cells'[2 * p - 1] >= Hi(Low[p])
    BY DEF Bounded
  <2>1. cells'[2 * p - 1] \in {cells[2 * p - 1], Bytes(w)[2 * p - 1]}
    BY <1>1, <1>2, CellsOfParam
  <2> QED
    BY <1>2, <2>1, ValidBounded DEF ConfigInv, Bounded
<1>5. \A k \in Cell : k <= cloud.k => cells'[k] = Bytes(w)[k]
  BY <1>1, <1>2 DEF Cell
<1>6. CASE cloud.k = 2 * Params
  <2>1. cloud'.pc = "commit"
    BY <1>1, <1>2, <1>6 DEF CloudState
  <2>2. \A k \in Cell : cells'[k] = Bytes(w)[k]
    BY <1>5, <1>6, ParamsAssumption DEF Cell
  <2>3. cells' = Bytes(w)
    BY <1>2, <1>3, <2>2, BytesFacts
  <2> QED
    BY <1>1, <1>2, <1>3, <1>4, <2>1, <2>3 DEF ConfigInv
<1>7. CASE cloud.k # 2 * Params
  <2>1. cloud'.pc = "store" /\ cloud'.k = cloud.k + 1
    BY <1>1, <1>2, <1>7 DEF CloudState
  <2>2. \A k \in Cell : k < cloud'.k => cells'[k] = Bytes(w)[k]
    BY <1>2, <1>5, <2>1 DEF Cell
  <2> QED
    BY <1>1, <1>2, <1>3, <1>4, <2>1, <2>2 DEF ConfigInv
<1> QED
  BY <1>6, <1>7

LEMMA ConfigApplied ==
  ASSUME TypeInv, ConfigInv, ApplyStarts \/ ApplyReads \/ ApplyAssigns \/ ApplyEnds
  PROVE  ConfigInv'
<1>1. UNCHANGED <<cloud, cells, flash>>
  BY DEF ApplyStarts, ApplyReads, ApplyAssigns, ApplyEnds, configState
<1>2. Bounded(main'.got) /\ \A p \in Param : params'[p] >= 256 * Hi(Low[p]) \/ params'[p] = Default[p]
  <2>1. CASE ApplyStarts
    <3>1. main'.got = main.got /\ params' = params
      BY <2>1 DEF ApplyStarts, TypeInv, MainState
    <3> QED
      BY <3>1 DEF ConfigInv
  <2>2. CASE ApplyReads
    <3>1. params' = params
      BY <2>2 DEF ApplyReads, configState
    <3>2. PICK k \in Cell : main'.got = [main.got EXCEPT ![k] = cells[k]]
      BY <2>2 DEF ApplyReads, TypeInv, MainState
    <3>3. main.got \in [Cell -> Byte] /\ Bounded(main.got) /\ Bounded(cells)
      BY DEF TypeInv, MainState, ConfigInv
    <3>4. Bounded(main'.got)
      BY <3>2, <3>3, CellsOfParam DEF Bounded
    <3> QED
      BY <3>1, <3>4 DEF ConfigInv
  <2>3. CASE ApplyAssigns
    <3>1. main'.got = ErasedCells /\ params' = [p \in Param |-> WordAt(main.got, p)]
      BY <2>3, IdleTypes DEF ApplyAssigns, MainIdle
    <3>2. \A p \in Param : WordAt(main.got, p) >= 256 * Hi(Low[p])
      <4> SUFFICES ASSUME NEW p \in Param
                   PROVE  WordAt(main.got, p) >= 256 * Hi(Low[p])
        OBVIOUS
      <4>1. main.got[2 * p - 1] \in Byte /\ main.got[2 * p] \in Byte
        BY CellsOfParam DEF TypeInv, MainState
      <4>2. main.got[2 * p - 1] >= Hi(Low[p]) /\ Hi(Low[p]) \in Byte
        BY HiLo, RangeAssumption DEF ConfigInv, Bounded
      <4>3. \A h, l, b \in Byte : h >= b => 256 * h + l >= 256 * b
        BY DEF Byte
      <4> QED
        BY <4>1, <4>2, <4>3 DEF WordAt
    <3> QED
      BY <3>1, <3>2, ErasedBounded
  <2>4. CASE ApplyEnds
    <3>1. main'.got = ErasedCells /\ params' = params
      BY <2>4 DEF ApplyEnds, MainIdle
    <3> QED
      BY <3>1, ErasedBounded DEF ConfigInv
  <2> QED
    BY <2>1, <2>2, <2>3, <2>4
<1> QED
  BY <1>1, <1>2 DEF ConfigInv

\* Storing and carrying out commands does not touch the configuration.
LEMMA ConfigKept ==
  ASSUME TypeInv, ConfigInv,
         \/ ReceiveCommand \/ StoreCommand \/ WriteStarts \/ ReadArguments \/ Choose \/ ChooseBody
         \/ PostEnds \/ WriteEnds \/ Restart
  PROVE  ConfigInv'
<1>1. CASE ReceiveCommand \/ StoreCommand
  <2>1. UNCHANGED <<main, cells, flash, params>>
    BY <1>1 DEF ReceiveCommand, StoreCommand, configState
  <2>2. cloud'.pc \notin {"store", "commit"}
    <3>1. cloud \in CloudState
      BY DEF TypeInv
    <3>2. CASE ReceiveCommand
      BY <3>1, <3>2 DEF ReceiveCommand, CloudState
    <3>3. CASE StoreCommand
      BY <3>1, <3>3 DEF StoreCommand, CloudIdle, CloudState
    <3> QED
      BY <1>1, <3>2, <3>3
  <2> QED
    BY <2>1, <2>2 DEF ConfigInv
<1>2. CASE WriteStarts \/ ReadArguments \/ Choose \/ ChooseBody \/ PostEnds \/ WriteEnds
  <2>1. UNCHANGED <<cloud, cells, flash, params>>
    BY <1>2 DEF WriteStarts, ReadArguments, Choose, ChooseBody, PostEnds, WriteEnds, configState
  <2>2. main'.got \in {main.got, ErasedCells}
    BY <1>2 DEF WriteStarts, ReadArguments, Choose, ChooseBody, PostEnds, WriteEnds, Answered, MainIdle,
       TypeInv, MainState
  <2> QED
    BY <2>1, <2>2, ErasedBounded DEF ConfigInv
<1>3. CASE Restart
  BY <1>3, ErasedBounded DEF Restart, ConfigInv, CloudIdle, MainIdle
<1> QED
  BY <1>1, <1>2, <1>3

LEMMA ConfigSteps ==
  ASSUME TypeInv, ConfigInv, [Next]_vars
  PROVE  ConfigInv'
<1>1. CASE Commit
  <2>1. flash' = cells /\ cells = Bytes(cloud.conf) /\ Valid(cloud.conf) /\ UNCHANGED <<main, cells, params>>
    BY <1>1 DEF Commit, ConfigInv
  <2>2. cloud'.pc = "raise"
    BY <1>1 DEF Commit, TypeInv, CloudState
  <2>3. Whole(flash')
    BY <2>1 DEF Whole, TypeInv, CloudState
  <2> QED
    BY <2>1, <2>2, <2>3 DEF ConfigInv
<1>2. CASE Raise
  BY <1>2 DEF Raise, ConfigInv, CloudIdle
<1>3. CASE UNCHANGED vars
  BY <1>3 DEF vars, ConfigInv
<1> QED
  BY <1>1, <1>2, <1>3, ConfigReceived, ConfigStored, ConfigApplied, ConfigKept
     DEF Next, CloudTask, MainTask

LEMMA ConfigAlways == Spec => []ConfigInv
  BY TypeStarts, TypeSteps, ConfigStarts, ConfigSteps, PTL DEF Spec

\* What survives a restart is erased or a whole configuration that passed
\* validateConfig, wherever the power failed in updateConfig.
THEOREM CommittedIsValidAlways == Spec => []CommittedIsValid
<1>1. ASSUME ConfigInv
      PROVE  CommittedIsValid
  BY <1>1, BytesFacts DEF ConfigInv, Whole, CommittedIsValid, Valid
<1> QED
  BY <1>1, ConfigAlways, PTL

\* What ApplyConfig assigns is bounded even when it mixes the bytes of several
\* configurations.
THEOREM AppliedIsBoundedAlways == Spec => []AppliedIsBounded
<1>1. ConfigInv => AppliedIsBounded
  BY DEF ConfigInv, AppliedIsBounded
<1> QED
  BY <1>1, ConfigAlways, PTL

-----------------------------------------------------------------------------
(* Commands are counted: a call that may still come of a command, because a flag  *)
(* is up or is about to be raised, is paid for by a command that came in and has  *)
(* not been called for.                                                         *)

OneIf(b) == IF b THEN 1 ELSE 0

\* The cloud task will raise a flag.
ToRaise == OneIf(\/ cloud.pc \in {"emulate", "command"}
                 \/ cloud.pc \in {"address", "value"} /\ ~cloud.emulates)

\* The main task will call Poller::write for the flags that are up.  Once it has
\* called, it clears both, wflag first.
ToCall == OneIf(\/ main.pc \in {"address", "value"}
                \/ main.pc \in {"write?", "config?", "apply", "assign", "applied"} /\ (wflag \/ eflag)
                \/ main.pc = "clear_e" /\ wflag)

\* A fault will be posted for the flag.
ToPost == OneIf(eflag /\ main.pc # "post")
ToRaiseFault == OneIf(cloud.pc = "emulate")

CountInv ==
  /\ cloud.pc \in {"emulate", "fault"} => cloud.emulates
  /\ calls.made + ToCall + ToRaise <= spent.commands
  /\ posted.made + ToPost + ToRaiseFault <= spent.commands

LEMMA CountStarts == Init => CountInv
  BY DEF Init, CountInv, ToCall, ToRaise, ToPost, ToRaiseFault, OneIf, CloudIdle, MainIdle

\* The sums stay below the number of commands when none of their parts grows.
LEMMA CountKept ==
  ASSUME TypeInv, TypeInv', CountInv,
         calls'.made + ToCall' + ToRaise' <= calls.made + ToCall + ToRaise,
         posted'.made + ToPost' + ToRaiseFault' <= posted.made + ToPost + ToRaiseFault,
         spent'.commands = spent.commands, cloud'.pc \in {"emulate", "fault"} => cloud'.emulates
  PROVE  CountInv'
<1>1. {ToCall, ToRaise, ToPost, ToRaiseFault, ToCall', ToRaise', ToPost', ToRaiseFault'} \subseteq {0, 1}
  BY DEF ToCall, ToRaise, ToPost, ToRaiseFault, OneIf
<1>2. {calls.made, calls'.made, posted.made, posted'.made, spent.commands} \subseteq Nat
  BY DEF TypeInv, Posts
<1> QED
  BY <1>1, <1>2 DEF CountInv

LEMMA CountCloud ==
  ASSUME TypeInv, TypeInv', CountInv, CloudTask
  PROVE  CountInv'
<1>1. cloud \in CloudState
  BY DEF TypeInv
<1>2. CASE ReceiveCommand
  <2>1. /\ cloud.pc = "idle" /\ spent'.commands = spent.commands + 1
        /\ \E kind \in {"emulate", "address"} :
             cloud' = [cloud EXCEPT !.pc = kind, !.n = spent.commands + 1, !.emulates = kind = "emulate"]
        /\ UNCHANGED <<main, wflag, eflag, posted, calls>>
    BY <1>2 DEF ReceiveCommand, configState, TypeInv
  <2>2. ToRaise = 0 /\ ToRaiseFault = 0 /\ ToCall' = ToCall /\ ToPost' = ToPost
    BY <2>1 DEF ToRaise, ToRaiseFault, ToCall, ToPost, OneIf
  <2>3. {ToCall, ToPost, ToRaise', ToRaiseFault'} \subseteq {0, 1}
    BY DEF ToCall, ToRaise, ToPost, ToRaiseFault, OneIf
  <2>4. {calls.made, posted.made, spent.commands} \subseteq Nat
    BY DEF TypeInv, Posts
  <2>5. cloud'.pc \in {"emulate", "fault"} => cloud'.emulates
    BY <1>1, <2>1 DEF CloudState
  <2> QED
    BY <2>1, <2>2, <2>3, <2>4, <2>5 DEF CountInv
<1>3. CASE ReceiveConfig \/ Store \/ Commit \/ Raise
  <2>1. /\ UNCHANGED <<main, wflag, eflag, posted, calls>> /\ spent'.commands = spent.commands
        /\ cloud'.pc \in {"idle", "store", "commit", "raise"} /\ cloud.pc \in {"idle", "store", "commit", "raise"}
    <3>1. UNCHANGED <<main, wflag, eflag, posted, calls>> /\ cloud.pc \in {"idle", "store", "commit", "raise"}
      BY <1>3 DEF ReceiveConfig, Store, Commit, Raise, writeState
    <3>2. spent'.commands = spent.commands
      BY <1>3 DEF ReceiveConfig, Store, Commit, Raise, TypeInv
    <3>3. cloud'.pc \in {"idle", "store", "commit", "raise"}
      <4>1. CASE ReceiveConfig
        BY <1>1, <4>1 DEF ReceiveConfig, CloudState
      <4>2. CASE Store
        BY <1>1, <4>2 DEF Store, CloudState
      <4>3. CASE Commit
        BY <1>1, <4>3 DEF Commit, CloudState
      <4>4. CASE Raise
        BY <4>4 DEF Raise, CloudIdle
      <4> QED
        BY <1>3, <4>1, <4>2, <4>3, <4>4
    <3> QED
      BY <3>1, <3>2, <3>3
  <2>2. ToRaise' = ToRaise /\ ToRaiseFault' = ToRaiseFault /\ ToCall' = ToCall /\ ToPost' = ToPost
    BY <2>1 DEF ToRaise, ToRaiseFault, ToCall, ToPost, OneIf
  <2> QED
    BY <2>1, <2>2 DEF CountInv
<1>4. CASE StoreCommand
  <2>1. UNCHANGED <<main, posted, calls>> /\ spent' = spent
    BY <1>4 DEF StoreCommand, configState
  <2>2. {ToRaise, ToRaiseFault, ToCall, ToPost, ToRaise', ToRaiseFault', ToCall', ToPost'} \subseteq {0, 1}
    BY DEF ToCall, ToRaise, ToPost, ToRaiseFault, OneIf
  <2>3. /\ ToCall' + ToRaise' <= ToCall + ToRaise /\ ToPost' + ToRaiseFault' <= ToPost + ToRaiseFault
        /\ cloud'.pc \in {"emulate", "fault"} => cloud'.emulates
    <3>1. CASE cloud.pc = "emulate"
      <4>1. cloud'.pc = "fault" /\ cloud'.emulates /\ ToRaise = 1 /\ ToRaiseFault = 1
        BY <1>1, <1>4, <3>1 DEF StoreCommand, CloudState, CountInv, ToRaise, ToRaiseFault, OneIf
      <4>2. ToRaise' = 0 /\ ToRaiseFault' = 0
        BY <4>1 DEF ToRaise, ToRaiseFault, OneIf
      <4> QED
        BY <2>2, <4>1, <4>2
    <3>2. CASE cloud.pc \in {"fault", "address"} \/ cloud.pc = "value"
      <4>1. /\ UNCHANGED <<wflag, eflag>>
            /\ cloud.pc = "fault" => cloud'.pc = "address" /\ cloud'.emulates
            /\ cloud.pc = "address" => cloud'.pc = "value" /\ cloud'.emulates = cloud.emulates
            /\ cloud.pc = "value" /\ cloud.emulates => cloud'.pc = "idle"
            /\ cloud.pc = "value" /\ ~cloud.emulates => cloud'.pc = "command"
        BY <1>1, <1>4, <3>2 DEF StoreCommand, CloudState, CountInv, CloudIdle
      <4>2. ToCall' = ToCall /\ ToPost' = ToPost
        BY <2>1, <4>1 DEF ToCall, ToPost
      <4>3. ToRaise' = ToRaise /\ ToRaiseFault' = ToRaiseFault
        BY <3>2, <4>1 DEF ToRaise, ToRaiseFault, OneIf
      <4>4. cloud'.pc \notin {"emulate", "fault"}
        BY <3>2, <4>1
      <4> QED
        BY <2>2, <4>2, <4>3, <4>4
    <3>3. CASE cloud.pc = "command"
      <4>1. cloud'.pc = "idle" /\ eflag' = eflag
        BY <1>4, <3>3 DEF StoreCommand, CloudIdle
      <4>2. ToRaise = 1 /\ ToRaise' = 0 /\ ToRaiseFault = 0 /\ ToRaiseFault' = 0 /\ ToPost' = ToPost
        BY <2>1, <3>3, <4>1 DEF ToRaise, ToRaiseFault, ToPost, OneIf
      <4> QED
        BY <2>2, <4>1, <4>2
    <3> QED
      BY <1>4, <3>1, <3>2, <3>3 DEF StoreCommand
  <2>4. calls.made \in Nat /\ posted.made \in Nat
    BY DEF TypeInv, Posts
  <2>5. /\ calls'.made + ToCall' + ToRaise' <= calls.made + ToCall + ToRaise
        /\ posted'.made + ToPost' + ToRaiseFault' <= posted.made + ToPost + ToRaiseFault
    BY <2>1, <2>2, <2>3, <2>4
  <2> QED
    BY <2>1, <2>3, <2>5, CountKept
<1> QED
  BY <1>2, <1>3, <1>4 DEF CloudTask

\* The same for a step that leaves the cloud task alone: only what the main task
\* will call for and post matters.
LEMMA CountMain ==
  ASSUME TypeInv, TypeInv', CountInv, UNCHANGED <<cloud, spent>>,
         calls'.made + ToCall' <= calls.made + ToCall,
         posted'.made + ToPost' <= posted.made + ToPost
  PROVE  CountInv'
<1>1. {ToRaise, ToRaiseFault, ToCall, ToPost, ToCall', ToPost'} \subseteq {0, 1}
  BY DEF ToCall, ToRaise, ToPost, ToRaiseFault, OneIf
<1>2. {calls.made, calls'.made, posted.made, posted'.made, spent.commands} \subseteq Nat
  BY DEF TypeInv, Posts
<1>3. ToRaise' = ToRaise /\ ToRaiseFault' = ToRaiseFault
  BY DEF ToRaise, ToRaiseFault
<1> QED
  BY <1>1, <1>2, <1>3 DEF CountInv

LEMMA CountMainTask ==
  ASSUME TypeInv, TypeInv', CountInv, MainTask
  PROVE  CountInv'
<1>1. main \in MainState /\ calls.made \in Nat /\ posted \in Posts /\ posted.made \in Nat
  BY DEF TypeInv, Posts
<1>2. {ToCall, ToPost, ToCall', ToPost'} \subseteq {0, 1}
  BY DEF ToCall, ToPost, OneIf
<1>3. CASE ApplyStarts \/ ApplyReads \/ ApplyAssigns \/ ApplyEnds
  <2> DEFINE Rest == {"write?", "config?", "apply", "assign", "applied"}
  <2>1. UNCHANGED <<cloud, spent, wflag, eflag, calls, posted>> /\ main.pc \in Rest
    BY <1>3 DEF ApplyStarts, ApplyReads, ApplyAssigns, ApplyEnds, configState, writeState
  <2>2. main'.pc \in Rest
    <3>1. main' = MainIdle \/ main'.pc \in Rest
      <4>1. CASE ApplyStarts
        BY <1>1, <4>1 DEF ApplyStarts, MainState
      <4>2. CASE ApplyReads
        <5>1. main'.pc \in {"assign", "apply"}
          BY <1>1, <4>2 DEF ApplyReads, MainState
        <5> QED
          BY <5>1
      <4>3. CASE ApplyAssigns
        BY <4>3 DEF ApplyAssigns, MainIdle
      <4>4. CASE ApplyEnds
        BY <4>4 DEF ApplyEnds
      <4> QED
        BY <1>3, <4>1, <4>2, <4>3, <4>4
    <3> QED
      BY <3>1 DEF MainIdle
  <2>3. ToCall' = ToCall /\ ToPost' = ToPost
    BY <2>1, <2>2 DEF ToCall, ToPost, OneIf
  <2> QED
    BY <1>1, <1>2, <2>1, <2>3, CountMain
<1>4. CASE WriteStarts
  <2>1. /\ UNCHANGED <<cloud, spent, wflag, eflag, calls, posted>> /\ main.pc = "write?"
        /\ main'.pc = IF wflag \/ eflag THEN "address" ELSE "config?"
    BY <1>1, <1>4 DEF WriteStarts, configState, MainState
  <2>2. ToCall' = ToCall /\ ToPost' = ToPost
    BY <2>1 DEF ToCall, ToPost, OneIf
  <2> QED
    BY <1>1, <1>2, <2>1, <2>2, CountMain
<1>5. CASE ReadArguments
  <2>1. /\ UNCHANGED <<cloud, spent, wflag, eflag, posted>>
        /\ \/ main.pc = "address" /\ main'.pc = "value" /\ calls' = calls
           \/ main.pc = "value" /\ main'.pc = "attempt" /\ calls'.made = calls.made + 1
    <3>1. CASE main.pc = "address" /\ main' = [main EXCEPT !.pc = "value", !.address = slot.address] /\ calls' = calls
      BY <1>1, <1>5, <3>1 DEF ReadArguments, MainState
    <3>2. CASE /\ main.pc = "value" /\ main' = [main EXCEPT !.pc = "attempt", !.value = slot.value, !.left = Attempts]
               /\ calls' = [made |-> calls.made + 1, with |-> calls.with \cup {<<main.address, slot.value>>}]
      BY <1>1, <1>5, <3>2 DEF ReadArguments, MainState
    <3> QED
      BY <1>5, <3>1, <3>2 DEF ReadArguments
  <2>2. ToPost' = ToPost
    BY <2>1 DEF ToPost, OneIf
  <2>3. calls'.made + ToCall' <= calls.made + ToCall
    <3>1. CASE main.pc = "address"
      <4>1. ToCall = 1 /\ calls' = calls
        BY <2>1, <3>1 DEF ToCall, OneIf
      <4> QED
        BY <1>1, <1>2, <4>1
    <3>2. CASE main.pc = "value"
      <4>1. ToCall = 1 /\ ToCall' = 0 /\ calls'.made = calls.made + 1
        BY <2>1, <3>2 DEF ToCall, OneIf
      <4> QED
        BY <1>1, <4>1
    <3> QED
      BY <2>1, <3>1, <3>2
  <2> QED
    BY <1>1, <1>2, <2>1, <2>2, <2>3, CountMain
<1>6. CASE Choose \/ ChooseBody \/ PostEnds
  <2>1. /\ UNCHANGED <<cloud, spent, wflag, calls>> /\ main.pc \in {"attempt", "choose", "post"}
    BY <1>6 DEF Choose, ChooseBody, PostEnds, configState, writeState
  <2>2. \A a : Answered(a) => main'.pc \in {"attempt", "clear_w"}
    BY <1>1 DEF Answered, MainState
  <2>3. main'.pc \in {"attempt", "choose", "post", "clear_w"}
    BY <1>1, <1>6, <2>2 DEF Choose, ChooseBody, PostEnds, MainState
  <2>4. ToCall = 0 /\ ToCall' = 0
    BY <2>1, <2>3 DEF ToCall, OneIf
  <2>5. posted'.made + ToPost' <= posted.made + ToPost
    <3>1. CASE Choose
      <4>1. UNCHANGED <<eflag, posted>> /\ main.pc = "attempt"
        BY <3>1 DEF Choose, writeState
      <4>2. ToPost' = ToPost
        <5>1. main'.pc # "post"
          BY <1>1, <2>2, <3>1 DEF Choose, MainState
        <5> QED
          BY <4>1, <5>1 DEF ToPost
      <4> QED
        BY <1>1, <1>2, <4>1, <4>2
    <3>2. CASE ChooseBody /\ eflag
      <4>1. main.pc = "choose" /\ main'.pc = "post" /\ posted'.made \in {posted.made, posted.made + 1}
        BY <1>1, <3>2 DEF ChooseBody, MainState, Posts
      <4>2. ToPost = 1 /\ ToPost' = 0
        BY <3>2, <4>1 DEF ToPost, OneIf
      <4> QED
        BY <1>1, <4>1, <4>2
    <3>3. CASE ChooseBody /\ ~eflag
      <4>1. eflag' = eflag /\ posted'.made = posted.made
        BY <1>1, <3>3 DEF ChooseBody, Posts
      <4>2. ToPost = 0 /\ ToPost' = 0
        BY <3>3, <4>1 DEF ToPost, OneIf
      <4> QED
        BY <1>1, <4>1, <4>2
    <3>4. CASE PostEnds
      <4>1. eflag' = FALSE /\ posted' = posted
        BY <3>4 DEF PostEnds
      <4>2. ToPost' = 0
        BY <4>1 DEF ToPost, OneIf
      <4> QED
        BY <1>1, <1>2, <4>1, <4>2
    <3> QED
      BY <1>6, <3>1, <3>2, <3>3, <3>4
  <2> QED
    BY <1>1, <2>1, <2>4, <2>5, CountMain
<1>7. CASE WriteEnds
  <2>1. /\ UNCHANGED <<cloud, spent, calls, posted>>
        /\ \/ main.pc = "clear_w" /\ ~wflag' /\ eflag' = eflag /\ main'.pc = "clear_e"
           \/ main.pc = "clear_e" /\ ~eflag' /\ wflag' = wflag /\ main'.pc = "config?"
    BY <1>1, <1>7 DEF WriteEnds, configState, MainIdle, MainState
  <2>2. ToCall' = ToCall /\ (ToPost' = ToPost \/ ToPost' = 0)
    BY <2>1 DEF ToCall, ToPost, OneIf
  <2> QED
    BY <1>1, <1>2, <2>1, <2>2, CountMain
<1> QED
  BY <1>3, <1>4, <1>5, <1>6, <1>7 DEF MainTask

LEMMA CountSteps ==
  ASSUME TypeInv, TypeInv', CountInv, [Next]_vars
  PROVE  CountInv'
<1>1. CASE Restart
  <2>1. /\ UNCHANGED <<posted, calls>> /\ spent'.commands = spent.commands
        /\ cloud'.pc = "idle" /\ main'.pc = "write?" /\ ~wflag' /\ ~eflag'
    BY <1>1 DEF Restart, CloudIdle, MainIdle, TypeInv
  <2>2. ToCall' = 0 /\ ToRaise' = 0 /\ ToPost' = 0 /\ ToRaiseFault' = 0
    BY <2>1 DEF ToCall, ToRaise, ToPost, ToRaiseFault, OneIf
  <2>3. {ToCall, ToRaise, ToPost, ToRaiseFault} \subseteq {0, 1}
    BY DEF ToCall, ToRaise, ToPost, ToRaiseFault, OneIf
  <2>4. calls.made \in Nat /\ posted.made \in Nat
    BY DEF TypeInv, Posts
  <2>5. /\ calls'.made + ToCall' + ToRaise' <= calls.made + ToCall + ToRaise
        /\ posted'.made + ToPost' + ToRaiseFault' <= posted.made + ToPost + ToRaiseFault
    BY <2>1, <2>2, <2>3, <2>4
  <2> QED
    BY <2>1, <2>5, CountKept
<1>2. CASE UNCHANGED vars
  BY <1>2 DEF vars, CountInv, ToCall, ToRaise, ToPost, ToRaiseFault
<1> QED
  BY <1>1, <1>2, CountCloud, CountMainTask DEF Next

\* Poller::write is called at most once for each command received, and a fault is
\* posted at most once for each.
THEOREM NothingUnaskedAlways == Spec => []NothingUnasked
<1>1. ASSUME TypeInv, CountInv
      PROVE  NothingUnasked
  <2>1. {ToCall, ToRaise, ToPost, ToRaiseFault} \subseteq {0, 1}
    BY DEF ToCall, ToRaise, ToPost, ToRaiseFault, OneIf
  <2>2. {calls.made, posted.made, spent.commands} \subseteq Nat
    BY <1>1 DEF TypeInv, Posts
  <2> QED
    BY <1>1, <2>1, <2>2 DEF CountInv, NothingUnasked
<1> QED
  BY <1>1, TypeStarts, TypeSteps, CountStarts, CountSteps, PTL DEF Spec

-----------------------------------------------------------------------------
(* Commands stay whole.  While none has met another, storing one and carrying one  *)
(* out exclude each other, although nothing in the code makes them: the slot and   *)
(* the arguments that the main task has read belong to the command under way.      *)

PostsWhole == (\A f \in posted.frames : f[1] = f[2] /\ f[1] > 0) /\ 0 \notin posted.faults

\* While a command is stored no other is carried out; the emulation flag of an
\* emulated one is up already.
StoredAlone ==
  Storing => /\ ~Writing /\ ~wflag /\ cloud.n > 0
             /\ eflag <=> (cloud.emulates /\ cloud.pc # "emulate")

\* What has been stored of it so far, and all of it once a flag is up.
SlotWhole ==
  /\ cloud.pc \in {"emulate", "fault"} => cloud.emulates
  /\ cloud.pc \in {"value", "command"} => slot.address = cloud.n
  /\ cloud.pc = "command" => slot.value = cloud.n /\ ~cloud.emulates
  /\ cloud.pc \in {"address", "value"} /\ cloud.emulates => slot.fault = cloud.n
  /\ ~Storing /\ (wflag \/ eflag) => slot.address = slot.value /\ slot.address > 0
  /\ ~Storing /\ eflag => slot.fault > 0

\* What the main task has read of it.
CallWhole ==
  /\ main.pc \in {"address", "value"} => wflag \/ eflag
  /\ main.pc = "value" => main.address = slot.address
  /\ main.pc \in {"attempt", "choose", "post"} => main.address = main.value /\ main.address > 0
  /\ main.pc = "choose" /\ main.emulates => main.fault > 0

WholeInv == ~busy => PostsWhole /\ StoredAlone /\ SlotWhole /\ CallWhole

LEMMA WholeStarts == Init => WholeInv
  BY DEF Init, WholeInv, PostsWhole, StoredAlone, SlotWhole, CallWhole, CloudIdle, MainIdle, Storing

LEMMA WholeCloud ==
  ASSUME TypeInv, WholeInv, CloudTask
  PROVE  WholeInv'
<1> SUFFICES ASSUME ~busy'
             PROVE  PostsWhole' /\ StoredAlone' /\ SlotWhole' /\ CallWhole'
  BY DEF WholeInv
<1>1. UNCHANGED <<main, posted, calls>> /\ (busy => busy')
  <2>1. UNCHANGED <<main, posted, calls>> /\ (busy' = busy \/ ReceiveCommand)
    BY DEF CloudTask, ReceiveConfig, Store, Commit, Raise, ReceiveCommand, StoreCommand, writeState
  <2>2. CASE busy' = busy
    BY <2>1, <2>2
  <2>3. CASE ReceiveCommand
    BY <2>1, <2>3 DEF ReceiveCommand
  <2> QED
    BY <2>1, <2>2, <2>3
<1>2. PostsWhole /\ StoredAlone /\ SlotWhole /\ CallWhole
  BY <1>1 DEF WholeInv
<1>3. cloud \in CloudState
  BY DEF TypeInv
<1>4. PostsWhole' /\ Writing' = Writing
  BY <1>1, <1>2 DEF PostsWhole, Writing
<1>5. CASE ReceiveConfig \/ Store \/ Commit \/ Raise
  <2>1. UNCHANGED <<slot, wflag, eflag>>
    BY <1>5 DEF ReceiveConfig, Store, Commit, Raise, writeState
  <2>2. /\ cloud.pc \in {"idle", "store", "commit", "raise"}
        /\ cloud'.pc \in {"idle", "store", "commit", "raise"}
    <3>1. CASE ReceiveConfig
      BY <1>3, <3>1 DEF ReceiveConfig, CloudState
    <3>2. CASE Store
      BY <1>3, <3>2 DEF Store, CloudState
    <3>3. CASE Commit
      BY <1>3, <3>3 DEF Commit, CloudState
    <3>4. CASE Raise
      BY <3>4 DEF Raise, CloudIdle
    <3> QED
      BY <1>5, <3>1, <3>2, <3>3, <3>4
  <2>3. ~Storing /\ ~Storing'
    BY <2>2 DEF Storing
  <2> QED
    BY <1>1, <1>2, <1>4, <2>1, <2>2, <2>3 DEF StoredAlone, SlotWhole, CallWhole
<1>6. CASE ReceiveCommand
  <2>1. ~Writing /\ ~wflag /\ ~eflag /\ UNCHANGED <<slot, wflag, eflag>>
    BY <1>6 DEF ReceiveCommand
  <2>2. /\ cloud'.n > 0 /\ cloud'.pc \in {"emulate", "address"}
        /\ cloud'.emulates <=> cloud'.pc = "emulate"
    <3>1. PICK kind \in {"emulate", "address"} :
            cloud' = [cloud EXCEPT !.pc = kind, !.n = spent.commands + 1, !.emulates = kind = "emulate"]
      BY <1>6 DEF ReceiveCommand
    <3>2. spent.commands \in Nat
      BY DEF TypeInv
    <3>3. cloud'.pc = kind /\ cloud'.n = spent.commands + 1 /\ (cloud'.emulates <=> kind = "emulate")
      BY <1>3, <3>1 DEF CloudState
    <3>4. cloud'.n > 0
      BY <3>2, <3>3
    <3> QED
      BY <3>3, <3>4
  <2>3. Storing'
    BY <2>2 DEF Storing
  <2>4. StoredAlone'
    BY <1>4, <2>1, <2>2 DEF StoredAlone
  <2>5. SlotWhole'
    BY <2>2, <2>3 DEF SlotWhole
  <2> QED
    BY <1>1, <1>2, <1>4, <2>1, <2>4, <2>5 DEF CallWhole
<1>7. CASE StoreCommand
  <2>1. Storing /\ ~Writing /\ ~wflag /\ cloud.n > 0 /\ (eflag <=> (cloud.emulates /\ cloud.pc # "emulate"))
    BY <1>2, <1>7 DEF StoreCommand, Storing, StoredAlone
  <2>2. CallWhole'
    BY <1>1, <2>1 DEF CallWhole, Writing
  <2>3. CASE cloud.pc = "emulate"
    <3>1. eflag' /\ ~wflag' /\ cloud' = [cloud EXCEPT !.pc = "fault"] /\ cloud.emulates
      BY <1>2, <1>7, <2>1, <2>3 DEF StoreCommand, SlotWhole
    <3>2. cloud'.pc = "fault" /\ cloud'.emulates /\ cloud'.n > 0
      BY <1>3, <2>1, <3>1 DEF CloudState
    <3> QED
      BY <1>4, <2>1, <2>2, <3>1, <3>2 DEF StoredAlone, SlotWhole, Storing
  <2>4. CASE cloud.pc = "fault"
    <3>1. UNCHANGED <<wflag, eflag>> /\ slot' = [slot EXCEPT !.fault = cloud.n]
            /\ cloud' = [cloud EXCEPT !.pc = "address"] /\ cloud.emulates
      BY <1>2, <1>7, <2>4 DEF StoreCommand, SlotWhole
    <3>2. cloud'.pc = "address" /\ cloud'.emulates /\ cloud'.n = cloud.n /\ slot'.fault = cloud.n
      BY <1>3, <3>1 DEF CloudState, TypeInv, Slot
    <3> QED
      BY <1>4, <2>1, <2>2, <2>4, <3>1, <3>2 DEF StoredAlone, SlotWhole, Storing
  <2>5. CASE cloud.pc = "address"
    <3>1. UNCHANGED <<wflag, eflag>> /\ slot' = [slot EXCEPT !.address = cloud.n]
            /\ cloud' = [cloud EXCEPT !.pc = "value"]
      BY <1>7, <2>5 DEF StoreCommand
    <3>2. /\ cloud'.pc = "value" /\ cloud'.emulates = cloud.emulates /\ cloud'.n = cloud.n
          /\ slot'.fault = slot.fault /\ slot'.address = cloud.n
      BY <1>3, <3>1 DEF CloudState, TypeInv, Slot
    <3> QED
      BY <1>2, <1>4, <2>1, <2>2, <2>5, <3>1, <3>2 DEF StoredAlone, SlotWhole, Storing
  <2>6. CASE cloud.pc = "value"
    <3>1. UNCHANGED <<wflag, eflag>> /\ slot' = [slot EXCEPT !.value = cloud.n]
            /\ cloud' = IF cloud.emulates THEN CloudIdle ELSE [cloud EXCEPT !.pc = "command"]
      BY <1>7, <2>6 DEF StoreCommand
    <3>2. slot'.address = cloud.n /\ slot'.value = cloud.n /\ slot'.fault = slot.fault
      BY <1>2, <2>6, <3>1 DEF TypeInv, Slot, SlotWhole
    <3>3. CASE cloud.emulates
      <4>1. cloud'.pc = "idle" /\ slot'.fault = cloud.n
        BY <1>2, <2>6, <3>1, <3>2, <3>3 DEF CloudIdle, SlotWhole
      <4> QED
        BY <1>4, <2>1, <2>2, <3>2, <4>1 DEF StoredAlone, SlotWhole, Storing
    <3>4. CASE ~cloud.emulates
      <4>1. cloud'.pc = "command" /\ ~cloud'.emulates /\ cloud'.n = cloud.n
        BY <1>3, <3>1, <3>4 DEF CloudState
      <4> QED
        BY <1>4, <2>1, <2>2, <3>1, <3>2, <3>4, <4>1 DEF StoredAlone, SlotWhole, Storing
    <3> QED
      BY <3>3, <3>4
  <2>7. CASE cloud.pc = "command"
    <3>1. wflag' /\ UNCHANGED <<slot, eflag>> /\ cloud'.pc = "idle"
      BY <1>7, <2>7 DEF StoreCommand, CloudIdle
    <3>2. ~eflag /\ slot.address = cloud.n /\ slot.value = cloud.n
      BY <1>2, <2>1, <2>7 DEF SlotWhole
    <3> QED
      BY <1>4, <2>1, <2>2, <3>1, <3>2 DEF StoredAlone, SlotWhole, Storing
  <2> QED
    BY <1>7, <2>3, <2>4, <2>5, <2>6, <2>7 DEF StoreCommand
<1> QED
  BY <1>5, <1>6, <1>7 DEF CloudTask

LEMMA WholeMain ==
  ASSUME TypeInv, WholeInv, MainTask
  PROVE  WholeInv'
<1> SUFFICES ASSUME ~busy'
             PROVE  PostsWhole' /\ StoredAlone' /\ SlotWhole' /\ CallWhole'
  BY DEF WholeInv
<1>1. UNCHANGED <<cloud, slot>> /\ (busy => busy')
  <2>1. CASE ApplyStarts \/ ApplyReads \/ ApplyAssigns \/ ApplyEnds \/ Choose
    <3>1. UNCHANGED <<cloud, slot, busy>>
      BY <2>1 DEF ApplyStarts, ApplyReads, ApplyAssigns, ApplyEnds, Choose, writeState
    <3> QED
      BY <3>1
  <2>2. CASE ReadArguments \/ ChooseBody \/ PostEnds \/ WriteEnds
    <3>1. UNCHANGED <<cloud, slot, busy>>
      BY <2>2 DEF ReadArguments, ChooseBody, PostEnds, WriteEnds
    <3> QED
      BY <3>1
  <2>3. CASE WriteStarts
    BY <2>3 DEF WriteStarts
  <2> QED
    BY <2>1, <2>2, <2>3 DEF MainTask
<1>2. PostsWhole /\ StoredAlone /\ SlotWhole /\ CallWhole
  BY <1>1 DEF WholeInv
<1>3. main \in MainState
  BY DEF TypeInv
<1>4. Storing' = Storing
  BY <1>1 DEF Storing
<1>5. CASE ApplyStarts \/ ApplyReads \/ ApplyAssigns \/ ApplyEnds
  <2>1. UNCHANGED <<wflag, eflag, posted>>
    BY <1>5 DEF ApplyStarts, ApplyReads, ApplyAssigns, ApplyEnds, configState, writeState
  <2>2. main'.pc \in {"write?", "config?", "apply", "assign", "applied"}
    <3>1. CASE ApplyStarts
      BY <1>3, <3>1 DEF ApplyStarts, MainState
    <3>2. CASE ApplyReads
      <4>1. main'.pc \in {"assign", "apply"}
        BY <1>3, <3>2 DEF ApplyReads, MainState
      <4> QED
        BY <4>1
    <3>3. CASE ApplyAssigns
      BY <3>3 DEF ApplyAssigns, MainIdle
    <3>4. CASE ApplyEnds
      BY <3>4 DEF ApplyEnds, MainIdle
    <3> QED
      BY <1>5, <3>1, <3>2, <3>3, <3>4
  <2>3. ~Writing'
    BY <2>2 DEF Writing
  <2> QED
    BY <1>1, <1>2, <1>4, <2>1, <2>2, <2>3 DEF PostsWhole, StoredAlone, SlotWhole, CallWhole
<1>6. CASE WriteStarts
  <2>1. /\ UNCHANGED <<wflag, eflag, posted>> /\ ~(eflag /\ Storing /\ cloud.emulates)
        /\ main'.pc = IF wflag \/ eflag THEN "address" ELSE "config?"
    BY <1>3, <1>6 DEF WriteStarts, configState, MainState
  <2>2. Storing => ~wflag /\ ~eflag
    BY <1>2, <2>1 DEF StoredAlone
  <2>3. CASE wflag \/ eflag
    <3>1. main'.pc = "address" /\ ~Storing
      BY <2>1, <2>2, <2>3
    <3> QED
      BY <1>1, <1>2, <1>4, <2>1, <2>3, <3>1 DEF PostsWhole, StoredAlone, SlotWhole, CallWhole
  <2>4. CASE ~(wflag \/ eflag)
    <3>1. main'.pc = "config?" /\ ~Writing'
      BY <2>1, <2>4 DEF Writing
    <3> QED
      BY <1>1, <1>2, <1>4, <2>1, <3>1 DEF PostsWhole, StoredAlone, SlotWhole, CallWhole
  <2> QED
    BY <2>3, <2>4
<1>7. CASE ReadArguments \/ Choose \/ ChooseBody \/ PostEnds \/ WriteEnds
  <2>1. Writing /\ ~Storing
    BY <1>2, <1>7 DEF ReadArguments, Choose, ChooseBody, PostEnds, WriteEnds, Writing, StoredAlone
  <2>2. StoredAlone'
    BY <1>4, <2>1 DEF StoredAlone
  <2>3. (wflag' => wflag) /\ (eflag' => eflag)
    BY <1>7 DEF ReadArguments, Choose, ChooseBody, PostEnds, WriteEnds, writeState
  <2>4. SlotWhole'
    BY <1>1, <1>2, <1>4, <2>1, <2>3 DEF SlotWhole
  <2>5. \A a : Answered(a) =>
          \/ main'.pc = "attempt" /\ main'.address = main.address /\ main'.value = main.value
          \/ main'.pc = "clear_w"
    BY <1>3 DEF Answered, MainState
  <2>6. CASE ReadArguments
    <3>1. UNCHANGED <<wflag, eflag, posted>>
      BY <2>6 DEF ReadArguments, configState
    <3>2. slot.address = slot.value /\ slot.address > 0 /\ (wflag \/ eflag)
      BY <1>2, <2>1, <2>6 DEF ReadArguments, SlotWhole, CallWhole
    <3>3. CASE main.pc = "address"
      <4>1. main'.pc = "value" /\ main'.address = slot.address
        BY <1>3, <2>6, <3>3 DEF ReadArguments, MainState
      <4> QED
        BY <1>1, <1>2, <2>2, <2>4, <3>1, <3>2, <4>1 DEF PostsWhole, CallWhole
    <3>4. CASE main.pc = "value"
      <4>1. main'.pc = "attempt" /\ main'.address = main.address /\ main'.value = slot.value
        BY <1>3, <2>6, <3>4 DEF ReadArguments, MainState
      <4>2. main.address = slot.address
        BY <1>2, <3>4 DEF CallWhole
      <4> QED
        BY <1>1, <1>2, <2>2, <2>4, <3>1, <3>2, <4>1, <4>2 DEF PostsWhole, CallWhole
    <3> QED
      BY <2>6, <3>3, <3>4 DEF ReadArguments
  <2>7. CASE Choose
    <3>1. UNCHANGED <<wflag, eflag, posted>> /\ main.pc = "attempt"
      BY <2>7 DEF Choose, writeState
    <3>2. main.address = main.value /\ main.address > 0
      BY <1>2, <3>1 DEF CallWhole
    <3>3. CASE main' = [main EXCEPT !.pc = "choose", !.emulates = eflag,
                                     !.fault = IF eflag THEN slot.fault ELSE 0]
      <4>1. /\ main'.pc = "choose" /\ main'.address = main.address /\ main'.value = main.value
            /\ main'.emulates = eflag /\ main'.fault = IF eflag THEN slot.fault ELSE 0
        BY <1>3, <3>3 DEF MainState
      <4>2. eflag => slot.fault > 0
        BY <1>2, <2>1 DEF SlotWhole
      <4> QED
        BY <1>2, <2>2, <2>4, <3>1, <3>2, <4>1, <4>2 DEF PostsWhole, CallWhole
    <3>4. CASE Answered("error")
      BY <1>2, <2>2, <2>4, <2>5, <3>1, <3>2, <3>4 DEF PostsWhole, CallWhole
    <3> QED
      BY <2>7, <3>3, <3>4 DEF Choose
  <2>8. CASE ChooseBody
    <3>1. UNCHANGED <<wflag, eflag>> /\ main.pc = "choose" /\ posted \in Posts
      BY <2>8 DEF ChooseBody, TypeInv
    <3>2. main.address = main.value /\ main.address > 0 /\ (main.emulates => main.fault > 0)
      BY <1>2, <3>1 DEF CallWhole
    <3>3. PostsWhole'
      <4>1. CASE ~eflag
        <5>1. posted'.frames = posted.frames \cup {<<main.address, main.value>>} /\ posted'.faults = posted.faults
          BY <2>8, <3>1, <4>1 DEF ChooseBody, Posts
        <5> QED
          BY <1>2, <3>2, <5>1 DEF PostsWhole
      <4>2. CASE eflag /\ main.emulates
        <5>1. posted'.frames = posted.frames /\ posted'.faults = posted.faults \cup {main.fault}
          BY <2>8, <3>1, <4>2 DEF ChooseBody, Posts
        <5>2. main.fault # 0
          BY <3>2, <4>2
        <5> QED
          BY <1>2, <5>1, <5>2 DEF PostsWhole
      <4>3. CASE eflag /\ ~main.emulates
        BY <1>2, <2>8, <4>3 DEF ChooseBody, PostsWhole
      <4> QED
        BY <4>1, <4>2, <4>3
    <3>4. \/ main'.pc \in {"attempt", "post"} /\ main'.address = main.address /\ main'.value = main.value
          \/ main'.pc = "clear_w"
      <4>1. CASE eflag
        <5>1. main' = [main EXCEPT !.pc = "post"]
          BY <2>8, <4>1 DEF ChooseBody
        <5> QED
          BY <1>3, <5>1 DEF MainState
      <4>2. CASE ~eflag
        BY <2>5, <2>8, <4>2 DEF ChooseBody
      <4> QED
        BY <4>1, <4>2
    <3> QED
      BY <1>2, <2>2, <2>4, <3>1, <3>2, <3>3, <3>4 DEF CallWhole
  <2>9. CASE PostEnds
    <3>1. posted' = posted /\ main.pc = "post"
      BY <2>9 DEF PostEnds
    <3>2. \E a \in Answer : Answered(a)
      BY <2>9 DEF PostEnds
    <3> QED
      BY <1>2, <2>2, <2>4, <2>5, <3>1, <3>2 DEF PostsWhole, CallWhole
  <2>10. CASE WriteEnds
    <3>1. posted' = posted /\ main'.pc \in {"clear_e", "config?"}
      BY <1>3, <2>10 DEF WriteEnds, MainIdle, MainState
    <3> QED
      BY <1>2, <2>2, <2>4, <3>1 DEF PostsWhole, CallWhole
  <2> QED
    BY <1>7, <2>6, <2>7, <2>8, <2>9, <2>10
<1> QED
  BY <1>5, <1>6, <1>7 DEF MainTask

LEMMA WholeSteps ==
  ASSUME TypeInv, WholeInv, [Next]_vars
  PROVE  WholeInv'
<1>1. CASE Restart
  <2>1. /\ UNCHANGED <<posted, busy>>
        /\ cloud'.pc = "idle" /\ main'.pc = "write?" /\ ~wflag' /\ ~eflag'
    BY <1>1 DEF Restart, CloudIdle, MainIdle
  <2>2. ~Storing'
    BY <2>1 DEF Storing
  <2> QED
    BY <2>1, <2>2 DEF WholeInv, PostsWhole, StoredAlone, SlotWhole, CallWhole
<1>2. CASE UNCHANGED vars
  BY <1>2 DEF vars, WholeInv, PostsWhole, StoredAlone, SlotWhole, CallWhole, Storing, Writing
<1> QED
  BY <1>1, <1>2, WholeCloud, WholeMain DEF Next

\* Address and value of every frame that was posted come from one command, and no
\* fault was posted that none had brought, as long as no command met another
\* (writeReceived stores and Poller::write reads the same three variables unlocked).
THEOREM WritesAreWholeAlways == Spec => []WritesAreWhole
<1>1. WholeInv => WritesAreWhole
  BY DEF WholeInv, PostsWhole, WritesAreWhole
<1> QED
  BY <1>1, TypeStarts, TypeSteps, WholeStarts, WholeSteps, PTL DEF Spec

=============================================================================
