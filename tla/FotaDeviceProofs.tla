-------------------------- MODULE FotaDeviceProofs --------------------------
(***************************************************************************)
(* Proofs about FotaDevice, for every set of images, partition size, chunk *)
(* contents and, where a theorem does not say otherwise, every set of      *)
(* flash faults.                                                           *)
(***************************************************************************)
EXTENDS FotaDevice, TLAPS

-----------------------------------------------------------------------------
(* The operators the actions are built from.                               *)

\* A job written to NVS up to any key, or removed from it up to any key, leaves
\* well-typed keys.
LEMMA MixType ==
  ASSUME NEW old \in Nvs, NEW new \in Nvs, NEW keys, NEW k
  PROVE  /\ Mix(old, new, keys, k) \in Nvs
         /\ Mix(old, new, keys, k).off \in {old.off, new.off}
         /\ Mix(old, new, keys, k).label \in {old.label, new.label}
BY DEF Mix, Nvs

LEMMA EmptyNvsType == EmptyNvs \in Nvs
BY DEF EmptyNvs, Nvs

LEMMA BlankRamType == BlankRam \in Ram
<1>1. <<>> \in Seq(Cell)
  OBVIOUS
<1> QED
  BY <1>1 DEF BlankRam, Ram

LEMMA ClearedRamType ==
  ASSUME NEW r \in Ram
  PROVE  /\ ClearedRam(r) \in Ram
         /\ ClearedRam(r).off = 0 /\ ClearedRam(r).part = None
         /\ ClearedRam(r).active = FALSE /\ ClearedRam(r).pend = 0
<1>1. <<>> \in Seq(Cell)
  OBVIOUS
<1> QED
  BY <1>1 DEF ClearedRam, Ram

LEMMA JobNvsType ==
  ASSUME NEW j \in Job, running \in Part
  PROVE  JobNvs(j) \in Nvs /\ JobNvs(j).off = 0
<1>1. Len(j.img) \in Nat
  BY ImageAssumption DEF Job
<1> QED
  BY <1>1 DEF JobNvs, Nvs, Job, Part, Target, Other

FlashType == [Part -> [1..PartSize -> Cell]]

\* Erasing and programming touch one partition only, and only the units named.
LEMMA ErasedToFacts ==
  ASSUME flash \in FlashType, NEW p \in Part, NEW n \in Nat
  PROVE  /\ ErasedTo(p, n) \in FlashType
         /\ \A q \in Part : q # p => ErasedTo(p, n)[q] = flash[q]
<1>1. [i \in 1..PartSize |-> IF i <= n THEN Erased ELSE flash[p][i]]
        \in [1..PartSize -> Cell]
  BY DEF FlashType, Cell
<1>2. ErasedTo(p, n) = [flash EXCEPT ![p] =
        [i \in 1..PartSize |-> IF i <= n THEN Erased ELSE flash[p][i]]]
  BY DEF ErasedTo, FlashType
<1> QED
  BY <1>1, <1>2 DEF FlashType

LEMMA ProgrammedFacts ==
  ASSUME flash \in FlashType, NEW p \in Part, NEW off \in Nat,
         NEW d \in Data, NEW k \in 0..Len(d)
  PROVE  /\ Programmed(p, off, d, k) \in FlashType
         /\ \A q \in Part : q # p => Programmed(p, off, d, k)[q] = flash[q]
         /\ \A i \in 1..PartSize :
              Programmed(p, off, d, k)[p][i] =
                IF i \in off + 1 .. off + k THEN Program(flash[p][i], d[i - off])
                                            ELSE flash[p][i]
<1> DEFINE W == [i \in 1..PartSize |->
                  IF i \in off + 1 .. off + k THEN Program(flash[p][i], d[i - off])
                                              ELSE flash[p][i]]
<1>1. \A i \in off + 1 .. off + k : d[i - off] \in Unit
  <2>1. d \in Seq(Unit) /\ Len(d) \in Nat
    BY ImageAssumption
  <2> QED
    BY <2>1
<1>2. \A i \in 1..PartSize : flash[p][i] \in Cell
  BY DEF FlashType
<1>3. W \in [1..PartSize -> Cell]
  <2>1. ASSUME NEW i \in 1..PartSize PROVE W[i] \in Cell
    BY <1>1, <1>2 DEF Program, Cell
  <2> QED
    BY <2>1
<1>4. Programmed(p, off, d, k) = [flash EXCEPT ![p] = W]
  BY DEF Programmed, FlashType
<1> HIDE DEF W
<1>5. /\ [flash EXCEPT ![p] = W] \in FlashType
      /\ \A q \in Part : q # p => [flash EXCEPT ![p] = W][q] = flash[q]
      /\ [flash EXCEPT ![p] = W][p] = W
  BY <1>3 DEF FlashType
<1> QED
  BY <1>4, <1>5 DEF W

\* Programming one partition leaves the other as it was.
LEMMA ProgrammedElsewhere ==
  ASSUME flash \in FlashType, NEW p \in Part, NEW off, NEW d, NEW k, NEW q \in Part, q # p
  PROVE  Programmed(p, off, d, k)[q] = flash[q]
BY DEF Programmed, FlashType

\* The units rehashed at a resume.
LEMMA RehashFacts ==
  ASSUME flash \in FlashType, NEW p \in Part, NEW n \in 0..PartSize
  PROVE  /\ Rehash(p, n) \in Seq(Cell)
         /\ Len(Rehash(p, n)) = n
         /\ \A i \in 1..n : Rehash(p, n)[i] = flash[p][i]
<1>1. flash[p] \in Seq(Cell) /\ Len(flash[p]) = PartSize
  BY BoundAssumption DEF FlashType
<1> QED
  BY <1>1, BoundAssumption DEF Rehash

LEMMA DataFacts ==
  ASSUME NEW d \in Data
  PROVE  d \in Seq(Unit) /\ d \in Seq(Cell) /\ Len(d) \in Nat
BY ImageAssumption DEF Cell

LEMMA HashType ==
  ASSUME TypeOK, ram.part # None, NEW d \in Seq(Cell)
  PROVE  Hash(d) \in Seq(Cell)
<1>1. ram.sha \in Seq(Cell) /\ ram.part \in Part /\ ram.off \in 0..PartSize
  BY BoundAssumption DEF TypeOK, Ram
<1>2. flash \in FlashType
  BY DEF TypeOK, FlashType
<1>3. Rehash(ram.part, ram.off) \in Seq(Cell)
  BY <1>1, <1>2, RehashFacts
<1> QED
  BY <1>1, <1>3 DEF Hash

-----------------------------------------------------------------------------
(* Type correctness.                                                       *)

LEMMA TypeInit == Init => TypeOK
<1> SUFFICES ASSUME Init PROVE TypeOK
  OBVIOUS
<1>1. flash \in [Part -> [1..PartSize -> Cell]]
  <2>1. ASSUME NEW p \in Part, NEW i \in 1..PartSize
        PROVE  (IF p = 0 /\ i <= Len(Factory) THEN Factory[i] ELSE Erased) \in Cell
    BY ImageAssumption DEF Cell
  <2> QED
    BY <2>1 DEF Init
<1>2. nvs \in Nvs /\ nvs.off = 0 /\ ram \in Ram /\ ram.off = 0
  BY EmptyNvsType, BlankRamType DEF Init, EmptyNvs, BlankRam
<1>3. 0 \in Part /\ 0 <= PartSize
  BY BoundAssumption DEF Part
<1>4. ota \in [Part -> OtaState]
  BY DEF Init, OtaState
<1>5. phase \in {"off", "boot", "run"} /\ running \in Part /\ boot \in Part
  BY <1>3 DEF Init
<1>6. vetted \subseteq Part /\ reused \in BOOLEAN
  BY <1>3 DEF Init
<1>7. nvs.off <= PartSize /\ ram.off <= PartSize
  BY <1>2, <1>3
<1> QED
  BY <1>1, <1>2, <1>4, <1>5, <1>6, <1>7 DEF TypeOK

\* What an action does to the history of jobs used.
LEMMA TypeUses == TypeOK /\ (Uses \/ UNCHANGED reused) => reused' \in BOOLEAN
BY DEF TypeOK, Uses

LEMMA TypePowerLost == PowerLost => phase' = "off" /\ ram' \in Ram /\ ram'.off = 0
BY BlankRamType DEF PowerLost, BlankRam

LEMMA TypeManifest == TypeOK /\ Manifest => TypeOK'
<1> SUFFICES ASSUME TypeOK, NEW j \in Job, NEW n \in 0..PartSize, NEW k,
                    \/ ManifestFresh(j)
                    \/ ManifestResume(j)
                    \/ ManifestEraseFails(j, n)
                    \/ ManifestPowerLoss(j, n, k)
             PROVE  TypeOK'
  BY BoundAssumption DEF Manifest
<1>1. flash \in FlashType /\ Target \in Part
  BY DEF TypeOK, FlashType, Target, Other, Part
<1>2. JobNvs(j) \in Nvs /\ JobNvs(j).off = 0
  BY JobNvsType DEF TypeOK
<1>3. Len(j.img) \in Nat
  BY ImageAssumption DEF Job
<1>4. NewJobRam(j) \in Ram /\ NewJobRam(j).off = 0
  BY <1>1, <1>3 DEF NewJobRam, TypeOK, Ram, Job
<1>5. \A m \in Nat : ErasedTo(Target, m) \in FlashType
  BY <1>1, ErasedToFacts
<1>6. CASE ManifestFresh(j)
  <2>1. ram' \in Ram /\ ram'.off = 0
    <3>1. <<>> \in Seq(Cell)
      OBVIOUS
    <3> QED
      BY <1>4, <1>6, <3>1 DEF ManifestFresh, Ram
  <2> QED
    BY <1>2, <1>3, <1>5, <1>6, <2>1, BoundAssumption
    DEF ManifestFresh, TypeOK, FlashType, Vetted
<1>7. CASE ManifestResume(j)
  <2> DEFINE p == IF ram.part = None THEN nvs.label ELSE ram.part
  <2>1. p \in Part
    BY <1>7 DEF ManifestResume, TypeOK, Ram, Nvs
  <2>2. Rehash(p, ram.off) \in Seq(Cell)
    BY <1>1, <2>1, RehashFacts, BoundAssumption DEF TypeOK, Ram
  <2> HIDE DEF p
  <2>3. ram' \in Ram /\ ram'.off = ram.off
    <3>1. ram' = [ram EXCEPT !.part = p, !.active = TRUE,
                   !.sha = IF ram.active THEN ram.sha ELSE Rehash(p, ram.off)]
      BY <1>7 DEF ManifestResume, p, TypeOK, Ram
    <3> QED
      BY <2>1, <2>2, <3>1 DEF TypeOK, Ram
  <2> QED
    BY <1>7, <2>3 DEF ManifestResume, TypeOK
<1>8. CASE ManifestEraseFails(j, n)
  BY <1>4, <1>5, <1>8, BoundAssumption
  DEF ManifestEraseFails, TypeOK, FlashType, Vetted
<1>9. CASE ManifestPowerLoss(j, n, k)
  <2>1. nvs' \in Nvs /\ nvs'.off <= PartSize
    <3>1. /\ Mix(nvs, JobNvs(j), ManifestKeys, k) \in Nvs
          /\ Mix(nvs, JobNvs(j), ManifestKeys, k).off \in {nvs.off, 0}
      BY <1>2, MixType DEF TypeOK
    <3>2. nvs' = Mix(nvs, JobNvs(j), ManifestKeys, k)
      BY <1>9 DEF ManifestPowerLoss
    <3>3. nvs.off <= PartSize /\ 0 <= PartSize
      BY BoundAssumption DEF TypeOK
    <3> QED
      BY <3>1, <3>2, <3>3
  <2> QED
    BY <1>5, <1>9, <2>1, TypePowerLost, BoundAssumption
    DEF ManifestPowerLoss, TypeOK, FlashType, Vetted
<1> QED
  BY <1>6, <1>7, <1>8, <1>9

LEMMA TypeChunk == TypeOK /\ Chunk => TypeOK'
<1> SUFFICES ASSUME TypeOK, NEW off \in 0..PartSize, NEW d \in Data,
                    NEW k \in 0..Len(d),
                    \/ ChunkRefused(off)
                    \/ ChunkWritten(off, d)
                    \/ ChunkWriteFails(off, d, k)
                    \/ ChunkPowerLoss(off, d, k)
             PROVE  TypeOK'
  <2>1. \A d \in Data : 0 \in 0..Len(d)
    BY DataFacts
  <2> QED
    BY <2>1 DEF Chunk
<1>1. CASE ChunkRefused(off)
  BY <1>1 DEF ChunkRefused, TypeOK
<1>2. ASSUME ChunkExpected(off)
      PROVE  /\ ram.part \in Part /\ off \in Nat
             /\ Hash(d) \in Seq(Cell)
             /\ \A m \in 0..Len(d) : Programmed(ram.part, off, d, m) \in FlashType
  <2>1. ram.part \in Part /\ off \in Nat /\ ram.part # None
    BY <1>2, BoundAssumption DEF ChunkExpected, TypeOK, Ram
  <2>2. Hash(d) \in Seq(Cell)
    BY <2>1, HashType, DataFacts
  <2>3. flash \in FlashType
    BY DEF TypeOK, FlashType
  <2> QED
    BY <2>1, <2>2, <2>3, ProgrammedFacts
<1>3. Len(d) \in Nat /\ Len(d) \in 0..Len(d)
  BY DataFacts
<1>4. CASE ChunkWritten(off, d)
  <2>1. /\ off + Len(d) \in Nat /\ Hash(d) \in Seq(Cell)
        /\ Programmed(ram.part, off, d, Len(d)) \in FlashType
    BY <1>2, <1>3, <1>4 DEF ChunkWritten
  <2>2. ram' \in Ram /\ ram'.off = off + Len(d)
    BY <1>4, <2>1 DEF ChunkWritten, TypeOK, Ram
  <2>3. nvs' \in Nvs /\ nvs'.off = off + Len(d)
    BY <1>4, <2>1 DEF ChunkWritten, TypeOK, Nvs
  <2> QED
    BY <1>4, <2>1, <2>2, <2>3, TypeUses DEF ChunkWritten, TypeOK, FlashType, Vetted
<1>5. CASE ChunkWriteFails(off, d, k)
  <2>1. /\ Hash(d) \in Seq(Cell)
        /\ Programmed(ram.part, off, d, k) \in FlashType
    BY <1>2, <1>5 DEF ChunkWriteFails
  <2>2. ram' \in Ram /\ ram'.off = ram.off
    BY <1>5, <2>1 DEF ChunkWriteFails, TypeOK, Ram
  <2> QED
    BY <1>5, <2>1, <2>2, TypeUses DEF ChunkWriteFails, TypeOK, FlashType, Vetted
<1>6. CASE ChunkPowerLoss(off, d, k)
  BY <1>2, <1>6, TypeUses, TypePowerLost, BoundAssumption
  DEF ChunkPowerLoss, TypeOK, FlashType, Vetted
<1> QED
  BY <1>1, <1>4, <1>5, <1>6

\* clearState, complete or cut short.
LEMMA TypeCleared ==
  ASSUME TypeOK, NEW k
  PROVE  ClearedNvs(k) \in Nvs /\ ClearedNvs(k).off <= PartSize
<1>1. nvs \in Nvs /\ nvs.off <= PartSize /\ EmptyNvs.off = 0
  BY DEF TypeOK, EmptyNvs
<1>2. /\ Mix(nvs, EmptyNvs, ClearKeys, k) \in Nvs
      /\ Mix(nvs, EmptyNvs, ClearKeys, k).off \in {nvs.off, EmptyNvs.off}
  BY <1>1, MixType, EmptyNvsType
<1> QED
  BY <1>1, <1>2, BoundAssumption DEF ClearedNvs

LEMMA TypeClearedAll ==
  ASSUME TypeOK
  PROVE  /\ ClearedNvs(Len(ClearKeys)) \in Nvs
         /\ ClearedNvs(Len(ClearKeys)).off <= PartSize
BY TypeCleared

LEMMA TypeFinish == TypeOK /\ Finish => TypeOK'
<1> SUFFICES ASSUME TypeOK, NEW k,
                    \/ FinishRefused
                    \/ FinishCleared
                    \/ FinishSelected
                    \/ FinishSelectPowerLoss
                    \/ FinishClearPowerLoss(k)
             PROVE  TypeOK'
  BY DEF Finish
<1>1. CASE FinishRefused
  BY <1>1 DEF FinishRefused, TypeOK
<1>2. CASE FinishCleared
  <2>1. ram' \in Ram /\ ram'.off = 0
    BY <1>2, ClearedRamType DEF FinishCleared, TypeOK
  <2> QED
    BY <1>2, <2>1, TypeClearedAll, BoundAssumption DEF FinishCleared, TypeOK
<1>3. ASSUME FinishExpected PROVE ram.part \in Part
  BY <1>3 DEF FinishExpected, TypeOK, Ram
<1>4. CASE FinishSelected
  <2>1. ram' \in Ram /\ ram'.off = 0
    <3>1. <<>> \in Seq(Cell)
      OBVIOUS
    <3> QED
      BY <1>4, <3>1 DEF FinishSelected, TypeOK, Ram
  <2>2. nvs' \in Nvs /\ nvs'.off = 0
    BY <1>4 DEF FinishSelected, TypeOK, Nvs
  <2> QED
    BY <1>3, <1>4, <2>1, <2>2, TypeUses, BoundAssumption
    DEF FinishSelected, TypeOK, OtaState
<1>5. CASE FinishSelectPowerLoss
  BY <1>3, <1>5, TypeUses, TypePowerLost, BoundAssumption
  DEF FinishSelectPowerLoss, TypeOK, OtaState
<1>6. CASE FinishClearPowerLoss(k)
  BY <1>6, TypeCleared, TypePowerLost, BoundAssumption
  DEF FinishClearPowerLoss, TypeOK
<1> QED
  BY <1>1, <1>2, <1>4, <1>5, <1>6

LEMMA BootFacts ==
  ASSUME TypeOK
  PROVE  BootChoice \in Part /\ BootState \in OtaState /\ CoreStates \subseteq OtaState
BY DEF TypeOK, BootChoice, BootState, CoreStates, Tried, OtaState, Other, Part

LEMMA LoadedType ==
  ASSUME TypeOK
  PROVE  Loaded \in Ram /\ Loaded.off = nvs.off
BY BlankRamType DEF TypeOK, Loaded, Nvs, Ram

LEMMA TypeRestart == TypeOK /\ Restart => TypeOK'
<1> SUFFICES ASSUME TypeOK, Restart PROVE TypeOK'
  OBVIOUS
<1>1. CASE Reboot \/ PowerLoss
  BY <1>1, TypePowerLost, BlankRamType, BoundAssumption
  DEF Reboot, PowerLoss, PowerLost, BlankRam, TypeOK
<1>2. CASE Boot
  <2>1. running' \in Part /\ ota' \in [Part -> OtaState]
    <3>1. PICK s \in OtaState : ota' = [ota EXCEPT ![boot] = s]
      BY <1>2, BootFacts DEF Boot
    <3> QED
      BY <1>2, <3>1, BootFacts DEF Boot, TypeOK
  <2>2. /\ phase' \in {"off", "boot", "run"}
        /\ nvs' \in Nvs /\ nvs'.off <= PartSize
        /\ ram' \in Ram /\ ram'.off <= PartSize
    <3>1. CASE BeginIdle
      BY <3>1, LoadedType DEF BeginIdle, TypeOK
    <3>2. CASE BeginResumes
      <4>1. nvs.label \in Part /\ nvs.off \in 0..PartSize
        BY <3>2, BoundAssumption DEF BeginResumes, JobStored, TypeOK, Nvs
      <4>2. Rehash(nvs.label, nvs.off) \in Seq(Cell)
        BY <4>1, RehashFacts DEF TypeOK, FlashType
      <4>3. ram' \in Ram /\ ram'.off = nvs.off
        BY <3>2, <4>1, <4>2, LoadedType DEF BeginResumes, Ram
      <4> QED
        BY <3>2, <4>3 DEF BeginResumes, TypeOK
    <3>3. CASE BeginClears
      <4>1. ram' \in Ram /\ ram'.off = 0
        BY <3>3, LoadedType, ClearedRamType DEF BeginClears
      <4> QED
        BY <3>3, <4>1, TypeClearedAll, BoundAssumption DEF BeginClears
    <3>4. ASSUME NEW k, BeginClearPowerLoss(k)
          PROVE  /\ phase' \in {"off", "boot", "run"}
                 /\ nvs' \in Nvs /\ nvs'.off <= PartSize
                 /\ ram' \in Ram /\ ram'.off <= PartSize
      BY <3>4, TypeCleared, TypePowerLost, BoundAssumption DEF BeginClearPowerLoss
    <3> QED
      BY <1>2, <3>1, <3>2, <3>3, <3>4 DEF Boot
  <2> QED
    BY <1>2, <2>1, <2>2 DEF Boot, TypeOK
<1>3. CASE BootPowerLoss
  BY <1>3, BootFacts DEF BootPowerLoss, TypeOK
<1> QED
  BY <1>1, <1>2, <1>3 DEF Restart

LEMMA TypeSelfTest == TypeOK /\ SelfTest => TypeOK'
<1> SUFFICES ASSUME TypeOK, NEW k,
                    \/ SelfTestNothing
                    \/ SelfTestValidates
                    \/ SelfTestRollsBack
                    \/ SelfTestKeepsImage
                    \/ SelfTestPowerLoss(k)
             PROVE  TypeOK'
  BY DEF SelfTest
<1>1. CASE SelfTestNothing \/ SelfTestKeepsImage
  BY <1>1 DEF SelfTestNothing, SelfTestKeepsImage, TypeOK
<1>2. CASE SelfTestValidates
  <2>1. ram' \in Ram /\ ram'.off = 0
    BY <1>2, ClearedRamType DEF SelfTestValidates, TypeOK
  <2> QED
    BY <1>2, <2>1, TypeClearedAll, BoundAssumption
    DEF SelfTestValidates, TypeOK, OtaState
<1>3. CASE SelfTestRollsBack
  BY <1>3, TypePowerLost, BoundAssumption DEF SelfTestRollsBack, TypeOK, OtaState
<1>4. CASE SelfTestPowerLoss(k)
  BY <1>4, TypeCleared, TypePowerLost, BoundAssumption
  DEF SelfTestPowerLoss, TypeOK, OtaState
<1> QED
  BY <1>1, <1>2, <1>3, <1>4

\* Every reachable state of the device is well typed, whatever fails.
THEOREM TypeCorrect == Spec => []TypeOK
<1>1. TypeOK /\ [Next]_vars => TypeOK'
  <2>1. CASE UNCHANGED vars
    BY <2>1 DEF vars, TypeOK
  <2> QED
    BY <2>1, TypeManifest, TypeChunk, TypeFinish, TypeRestart, TypeSelfTest DEF Next
<1> QED
  BY <1>1, TypeInit, PTL DEF Spec

-----------------------------------------------------------------------------
(* The device always has a complete image to start, and executes one, until a job
   on the partition that executes is used.  The argument: Home, the partition that
   executes after a boot or takes over when a new image is given up, is neither
   erased (manifests take the other one) nor programmed (a job on it would count
   as used); it changes only to a partition with a complete image, when this image
   is marked valid or the device rolls back to it.                              *)

LEMMA HomeType ==
  ASSUME TypeOK
  PROVE  Home \in Part /\ Other(Home) \in Part /\ Other(Home) # Home
BY DEF TypeOK, Home, Other, Part

LEMMA HomeInit == Init => HomeInv
<1> SUFFICES ASSUME Init PROVE HomeInv
  OBVIOUS
<1>1. Home = 0 /\ ota[Home] = "valid"
  BY DEF Init, Home, Part
<1>2. Holds(flash, 0, Factory)
  <2>1. Len(Factory) \in 1..PartSize
    BY ImageAssumption
  <2> QED
    BY <2>1, BoundAssumption DEF Init, Holds, Part
<1>3. HoldsImage(Home)
  BY <1>1, <1>2, ImageAssumption DEF HoldsImage
<1> QED
  BY <1>1, <1>3 DEF Init, HomeInv, HomeSafe

\* What a step that leaves the OTA data alone must respect.
LEMMA HomeFrame ==
  ASSUME HomeSafe,
         boot' = boot, ota' = ota, running' = running,
         flash'[Home] = flash[Home],
         \/ phase' = "off"
         \/ phase' = phase /\ phase = "run"
         \/ phase' = phase /\ flash' = flash
  PROVE  HomeSafe'
<1>1. Home' = Home
  BY DEF Home
<1>2. HoldsImage(Home)'
  BY <1>1 DEF HomeSafe, HoldsImage, Holds
<1>3. phase' = "boot" => phase = "boot" /\ flash' = flash
  OBVIOUS
<1>4. phase' = "boot" => (HoldsImage(boot)' <=> HoldsImage(boot))
  BY <1>3 DEF HoldsImage, Holds
<1>5. CASE phase' = "boot"
  BY <1>1, <1>2, <1>3, <1>4, <1>5 DEF HomeSafe
<1>6. CASE phase' # "boot"
  BY <1>1, <1>2, <1>6 DEF HomeSafe
<1> QED
  BY <1>5, <1>6

\* A chunk or a finish counts when its job is on the executing partition.
LEMMA UsedElsewhere ==
  ASSUME Uses, ~reused'
  PROVE  ~reused /\ ram.part # running
BY DEF Uses

LEMMA HomeManifest ==
  ASSUME TypeOK, HomeSafe, Manifest
  PROVE  HomeSafe'
<1>1. PICK j \in Job, n \in 0..PartSize :
        \/ ManifestFresh(j)
        \/ ManifestResume(j)
        \/ ManifestEraseFails(j, n)
        \/ \E k \in 0..Len(ManifestKeys) - 1 : ManifestPowerLoss(j, n, k)
  BY BoundAssumption DEF Manifest
<1>2. running = Home /\ phase = "run"
  BY <1>1 DEF ManifestFresh, ManifestResume, ManifestEraseFails, ManifestPowerLoss, HomeSafe
<1>3. Home \in Part /\ Target \in Part /\ Target # Home
  BY <1>2, HomeType DEF Target
<1>4. \A m \in Nat : ErasedTo(Target, m)[Home] = flash[Home]
  BY <1>3, ErasedToFacts DEF TypeOK, FlashType
<1>5. Len(j.img) \in Nat /\ n \in Nat
  BY ImageAssumption, BoundAssumption DEF Job
<1>6. flash'[Home] = flash[Home]
  BY <1>1, <1>4, <1>5
  DEF ManifestFresh, ManifestResume, ManifestEraseFails, ManifestPowerLoss
<1>7. /\ boot' = boot /\ ota' = ota /\ running' = running
      /\ phase' = "off" \/ phase' = phase
  BY <1>1
  DEF ManifestFresh, ManifestResume, ManifestEraseFails, ManifestPowerLoss, PowerLost
<1> QED
  BY <1>2, <1>6, <1>7, HomeFrame

LEMMA HomeChunk ==
  ASSUME TypeOK, HomeSafe, Chunk, ~reused'
  PROVE  HomeSafe'
<1>1. PICK off \in 0..PartSize, d \in Data :
        \/ ChunkRefused(off)
        \/ ChunkWritten(off, d)
        \/ \E k \in 0..Len(d) : ChunkWriteFails(off, d, k) \/ ChunkPowerLoss(off, d, k)
  BY DEF Chunk
<1>2. CASE ChunkRefused(off)
  BY <1>2, HomeFrame DEF ChunkRefused
<1>3. CASE \/ ChunkWritten(off, d)
           \/ \E k \in 0..Len(d) : ChunkWriteFails(off, d, k) \/ ChunkPowerLoss(off, d, k)
  <2>1. phase = "run" /\ ChunkExpected(off) /\ Uses
    BY <1>3 DEF ChunkWritten, ChunkWriteFails, ChunkPowerLoss
  <2>2. running = Home /\ ram.part # Home
    BY <2>1, UsedElsewhere DEF HomeSafe
  <2>3. ram.part \in Part /\ off \in Nat /\ Home \in Part /\ flash \in FlashType
    BY <2>1, HomeType, BoundAssumption DEF ChunkExpected, TypeOK, Ram, FlashType
  <2>4. ASSUME NEW m \in 0..Len(d)
        PROVE  Programmed(ram.part, off, d, m)[Home] = flash[Home]
    BY <2>2, <2>3, ProgrammedElsewhere
  <2>5. Len(d) \in 0..Len(d)
    BY DataFacts
  <2>6. flash'[Home] = flash[Home]
    BY <1>3, <2>4, <2>5 DEF ChunkWritten, ChunkWriteFails, ChunkPowerLoss
  <2>7. /\ boot' = boot /\ ota' = ota /\ running' = running
        /\ phase' = "off" \/ phase' = phase
    BY <1>3 DEF ChunkWritten, ChunkWriteFails, ChunkPowerLoss, PowerLost
  <2> QED
    BY <2>1, <2>6, <2>7, HomeFrame
<1> QED
  BY <1>1, <1>2, <1>3

LEMMA HomeFinish ==
  ASSUME TypeOK, HomeSafe, Finish, ~reused'
  PROVE  HomeSafe'
<1>1. CASE FinishRefused
  BY <1>1, HomeFrame DEF FinishRefused
<1>2. CASE FinishCleared \/ \E k \in 1..Len(ClearKeys) - 1 : FinishClearPowerLoss(k)
  <2>1. /\ boot' = boot /\ ota' = ota /\ running' = running /\ flash' = flash
        /\ phase' = "off" \/ phase' = phase
    BY <1>2 DEF FinishCleared, FinishClearPowerLoss, PowerLost
  <2> QED
    BY <2>1, HomeFrame
<1>3. CASE FinishSelected \/ FinishSelectPowerLoss
  <2>1. /\ phase = "run" /\ FinishExpected /\ Uses
        /\ boot' = ram.part /\ ota' = [ota EXCEPT ![ram.part] = "new"]
        /\ running' = running /\ flash' = flash
        /\ phase' = "run" \/ phase' = "off"
    BY <1>3 DEF FinishSelected, FinishSelectPowerLoss, PowerLost
  <2>2. running = Home /\ ram.part # Home
    BY <2>1, UsedElsewhere DEF HomeSafe
  <2>3. ram.part \in Part /\ Home \in Part /\ ota \in [Part -> OtaState]
    BY <2>1, HomeType DEF FinishExpected, TypeOK, Ram
  <2>4. Other(ram.part) = Home
    BY <2>2, <2>3 DEF Other, Part
  <2>5. Home' = Home /\ ota'[Home] = ota[Home]
    BY <2>1, <2>2, <2>3, <2>4 DEF Home, Other
  <2>6. HoldsImage(Home)'
    BY <2>1, <2>5 DEF HomeSafe, HoldsImage, Holds
  <2> QED
    BY <2>1, <2>2, <2>5, <2>6 DEF HomeSafe
<1> QED
  BY <1>1, <1>2, <1>3 DEF Finish

\* The boot loader and the core: Home executes, or a new image that either is
\* pending or, marked valid, has become Home.
LEMMA HomeBoot ==
  ASSUME TypeOK, HomeSafe, phase = "off", HoldsImage(BootChoice),
         boot' = boot, flash' = flash,
         NEW st \in CoreStates \cup {BootState}, ota' = [ota EXCEPT ![boot] = st],
         \/ phase' = "off"
         \/ phase' = "boot" /\ running' = BootChoice
  PROVE  HomeSafe'
<1>1. boot \in Part /\ Home \in Part /\ ota \in [Part -> OtaState]
  BY HomeType DEF TypeOK
<1>2. \A p : HoldsImage(p)' <=> HoldsImage(p)
  BY DEF HoldsImage, Holds
<1>3. ota'[boot] = st /\ \A p \in Part : p # boot => ota'[p] = ota[p]
  BY <1>1
<1>4. CASE ota[boot] = "valid"
  <2>1. Home = boot /\ BootState = "valid" /\ st = "valid"
    BY <1>4 DEF Home, BootState, CoreStates, Tried
  <2>2. BootChoice = Home
    BY <1>4, <2>1 DEF BootChoice, Tried, HomeSafe
  <2>3. Home' = Home /\ ota'[Home] = "valid"
    BY <1>3, <2>1 DEF Home
  <2>4. HoldsImage(Home)' /\ boot' = Home
    BY <1>2, <2>1, <2>3 DEF HomeSafe
  <2> QED
    BY <2>2, <2>3, <2>4 DEF HomeSafe
<1>5. CASE ota[boot] # "valid" /\ BootChoice = boot
  <2>1. Home = Other(boot) /\ Home # boot
    BY <1>1, <1>5 DEF Home, Other, Part
  <2>2. Tried # "invalid" /\ HoldsImage(boot)
    BY <1>5, <2>1 DEF BootChoice
  <2>3. BootState = "pending" /\ st \in {"pending", "valid"}
    <3>1. Tried = "new"
      BY <1>1, <1>5, <2>2 DEF Tried, OtaState
    <3> QED
      BY <1>5, <3>1 DEF BootState, CoreStates
  <2>4. CASE st = "valid"
    <3>1. Home' = boot /\ ota'[Home'] = "valid"
      BY <1>1, <1>3, <2>4 DEF Home
    <3>2. HoldsImage(Home)'
      BY <1>2, <2>2, <3>1
    <3> QED
      BY <1>5, <3>1, <3>2 DEF HomeSafe
  <2>5. CASE st = "pending"
    <3>1. Home' = Home /\ ota'[Home'] # "invalid"
      BY <1>1, <1>3, <2>1, <2>5 DEF Home, HomeSafe
    <3>2. HoldsImage(Home)' /\ HoldsImage(boot)'
      BY <1>2, <2>2, <3>1 DEF HomeSafe
    <3> QED
      BY <1>3, <1>5, <2>5, <3>1, <3>2 DEF HomeSafe
  <2> QED
    BY <2>3, <2>4, <2>5
<1>6. CASE ota[boot] # "valid" /\ BootChoice # boot
  <2>1. Home = Other(boot) /\ Home # boot /\ BootChoice = Home
    BY <1>1, <1>6 DEF Home, BootChoice, Other, Part
  <2>2. BootState = Tried /\ (Tried = "invalid" \/ ~HoldsImage(boot))
    BY <1>6 DEF BootState, BootChoice
  <2>3. st = Tried /\ st # "valid"
    BY <1>6, <2>2 DEF CoreStates, Tried
  <2>4. Home' = Home /\ ota'[Home'] # "invalid"
    BY <1>1, <1>3, <2>1, <2>3 DEF Home, HomeSafe
  <2>5. HoldsImage(Home)' /\ (ota'[boot] = "invalid" \/ ~HoldsImage(boot)')
    BY <1>2, <1>3, <2>2, <2>3, <2>4 DEF HomeSafe
  <2> QED
    BY <2>1, <2>4, <2>5 DEF HomeSafe
<1> QED
  BY <1>4, <1>5, <1>6

LEMMA HomeRestart ==
  ASSUME TypeOK, HomeSafe, Restart
  PROVE  HomeSafe'
<1>1. CASE Reboot \/ PowerLoss
  <2>1. /\ phase' = "off" /\ boot' = boot /\ ota' = ota /\ running' = running
        /\ flash' = flash
    BY <1>1 DEF Reboot, PowerLoss, PowerLost
  <2> QED
    BY <2>1, HomeFrame
<1>2. CASE BootPowerLoss
  BY <1>2, HomeBoot DEF BootPowerLoss
<1>3. CASE Boot
  <2>1. PICK st \in CoreStates : ota' = [ota EXCEPT ![boot] = st]
    BY <1>3 DEF Boot
  <2>2. phase' = "off" \/ phase' = "boot"
    BY <1>3 DEF Boot, BeginIdle, BeginResumes, BeginClears, BeginClearPowerLoss, PowerLost
  <2> QED
    BY <1>3, <2>1, <2>2, HomeBoot DEF Boot
<1> QED
  BY <1>1, <1>2, <1>3 DEF Restart

LEMMA HomeSelfTest ==
  ASSUME TypeOK, HomeSafe, SelfTest
  PROVE  HomeSafe'
<1>1. /\ phase = "boot" /\ boot \in Part /\ Home \in Part /\ running \in Part
      /\ ota \in [Part -> OtaState]
  BY HomeType DEF SelfTest, SelfTestNothing, SelfTestValidates, SelfTestRollsBack,
     SelfTestKeepsImage, SelfTestPowerLoss, SelfTestFails, TypeOK
<1>2. \/ running = Home /\ (Home = boot \/ ota[boot] = "invalid" \/ ~HoldsImage(boot))
      \/ /\ running = boot /\ ota[boot] = "pending" /\ HoldsImage(boot)
         /\ Home = Other(boot) /\ Home # boot
  BY <1>1 DEF HomeSafe, Home, Other, Part
<1>3. boot' = boot /\ flash' = flash
  BY DEF SelfTest, SelfTestNothing, SelfTestValidates, SelfTestRollsBack,
     SelfTestKeepsImage, SelfTestPowerLoss
<1>4. \A p : HoldsImage(p)' <=> HoldsImage(p)
  BY <1>3 DEF HoldsImage, Holds
<1>5. HoldsImage(Home) /\ ota[Home] # "invalid"
  BY DEF HomeSafe
<1>6. ASSUME running = Home, running' = running, ota' = ota, phase' = "run"
      PROVE  HomeSafe'
  <2>1. Home' = Home
    BY <1>3, <1>6 DEF Home
  <2> QED
    BY <1>4, <1>5, <1>6, <2>1 DEF HomeSafe
<1>7. CASE SelfTestNothing
  <2>1. running = Home
    BY <1>2, <1>7 DEF SelfTestNothing
  <2> QED
    BY <1>6, <1>7, <2>1 DEF SelfTestNothing
<1>8. CASE SelfTestValidates \/ \E k \in 0..Len(ClearKeys) - 1 : SelfTestPowerLoss(k)
  <2>1. /\ ota[running] = "pending" /\ ota' = [ota EXCEPT ![running] = "valid"]
        /\ running' = running /\ (phase' = "run" \/ phase' = "off")
    BY <1>8 DEF SelfTestValidates, SelfTestPowerLoss, PowerLost
  <2>2. ota'[running] = "valid" /\ \A p \in Part : p # running => ota'[p] = ota[p]
    BY <1>1, <2>1
  <2>3. CASE running = boot
    <3>1. Home' = running /\ HoldsImage(running)
      BY <1>2, <1>3, <1>5, <2>2, <2>3 DEF Home
    <3> QED
      BY <1>4, <2>1, <2>2, <3>1 DEF HomeSafe
  <2>4. CASE running # boot
    <3>1. running = Home /\ Home = Other(boot) /\ ota[boot] # "valid"
      BY <1>1, <1>2, <2>4 DEF Home
    <3>2. Home' = Home
      BY <1>1, <1>3, <2>2, <2>4, <3>1 DEF Home
    <3> QED
      BY <1>4, <1>5, <2>1, <2>2, <3>1, <3>2 DEF HomeSafe
  <2> QED
    BY <2>3, <2>4
<1>9. CASE SelfTestRollsBack
  <2>1. /\ ota' = [ota EXCEPT ![running] = "invalid"] /\ phase' = "off"
        /\ ota[Other(running)] # "invalid" /\ HoldsImage(Other(running))
    BY <1>9 DEF SelfTestRollsBack, RollbackPossible, PowerLost
  <2>2. running = boot
    BY <1>1, <1>2, <2>1 DEF Home, Other, Part
  <2>3. Home' = Other(boot) /\ ota'[Other(boot)] = ota[Other(boot)]
    BY <1>1, <1>3, <2>1, <2>2 DEF Home, Other, Part
  <2> QED
    BY <1>4, <2>1, <2>2, <2>3 DEF HomeSafe
<1>10. CASE SelfTestKeepsImage
  <2>1. ~(ota[Other(running)] # "invalid" /\ HoldsImage(Other(running)))
    BY <1>10 DEF SelfTestKeepsImage, RollbackPossible
  <2>2. running = Home
    BY <1>2, <1>5, <2>1
  <2> QED
    BY <1>6, <1>10, <2>2 DEF SelfTestKeepsImage
<1> QED
  BY <1>7, <1>8, <1>9, <1>10 DEF SelfTest

\* The inductive invariant, whatever fails and whichever way the image is
\* validated.
LEMMA HomeCorrect == Spec => []HomeInv
<1>1. ASSUME TypeOK, HomeInv, [Next]_vars PROVE HomeInv'
  <2> SUFFICES ASSUME ~reused' PROVE HomeSafe'
    BY DEF HomeInv
  <2>1. ASSUME UNCHANGED reused PROVE HomeSafe
    BY <1>1, <2>1 DEF HomeInv
  <2>2. CASE UNCHANGED vars
    <3>1. HomeSafe
      BY <2>1, <2>2 DEF vars
    <3> QED
      BY <2>2, <3>1, HomeFrame DEF vars
  <2>3. CASE Manifest
    <3>1. UNCHANGED reused
      BY <2>3 DEF Manifest, ManifestFresh, ManifestResume, ManifestEraseFails,
         ManifestPowerLoss
    <3> QED
      BY <1>1, <2>1, <2>3, <3>1, HomeManifest
  <2>4. CASE Chunk
    <3>1. Uses \/ UNCHANGED reused
      BY <2>4 DEF Chunk, ChunkRefused, ChunkWritten, ChunkWriteFails, ChunkPowerLoss
    <3>2. ~reused
      BY <3>1, UsedElsewhere
    <3> QED
      BY <1>1, <2>4, <3>2, HomeChunk DEF HomeInv
  <2>5. CASE Finish
    <3>1. Uses \/ UNCHANGED reused
      BY <2>5 DEF Finish, FinishRefused, FinishCleared, FinishSelected,
         FinishSelectPowerLoss, FinishClearPowerLoss
    <3>2. ~reused
      BY <3>1, UsedElsewhere
    <3> QED
      BY <1>1, <2>5, <3>2, HomeFinish DEF HomeInv
  <2>6. CASE Restart
    <3>1. UNCHANGED reused
      BY <2>6 DEF Restart, Reboot, PowerLoss, BootPowerLoss, Boot
    <3> QED
      BY <1>1, <2>1, <2>6, <3>1, HomeRestart
  <2>7. CASE SelfTest
    <3>1. UNCHANGED reused
      BY <2>7 DEF SelfTest, SelfTestNothing, SelfTestValidates, SelfTestRollsBack,
         SelfTestKeepsImage, SelfTestPowerLoss
    <3> QED
      BY <1>1, <2>1, <2>7, <3>1, HomeSelfTest
  <2> QED
    BY <1>1, <2>2, <2>3, <2>4, <2>5, <2>6, <2>7 DEF Next
<1> QED
  BY <1>1, HomeInit, TypeCorrect, PTL DEF Spec

\* Whatever is interrupted and whatever fails, in a build that validates in setup()
\* or before it: the image that executes is complete until a chunk or a finish is
\* taken for a job recorded on its own partition.
THEOREM RunningSafe == Spec => []RunningHoldsImage
<1>1. TypeOK /\ HomeInv => RunningHoldsImage
  BY DEF HomeInv, HomeSafe, RunningHoldsImage, TypeOK
<1> QED
  BY <1>1, HomeCorrect, TypeCorrect, PTL

\* Until then the boot loader finds a complete image, after a power loss at any
\* point of a flash operation, of the NVS writes, of the boot or of the self-test.
THEOREM BootSafe == Spec => []NeverBricked
<1>1. HomeInv => NeverBricked
  BY DEF HomeInv, HomeSafe, NeverBricked, BootChoice, Home, Tried
<1> QED
  BY <1>1, HomeCorrect, PTL

-----------------------------------------------------------------------------
(* Only the declared image is selected for boot.  The argument: while flash
   operations succeed, the SHA context has hashed exactly the units before
   _next_off, and each of them holds the unit hashed or garbage.  The image
   check accepts no garbage, so the image it finds and the image declared agree
   on their common length; as no image is a proper prefix of another, they are
   the same.                                                                 *)

FlashSound == "erase" \notin FlashFaults /\ "write" \notin FlashFaults

LEMMA HashInit == Init => HashTracksFlash
BY DEF Init, HashTracksFlash, BlankRam

LEMMA HashIdle == ram'.active = FALSE => HashTracksFlash'
BY DEF HashTracksFlash

LEMMA HashFrame ==
  ASSUME HashTracksFlash, ram' = ram, flash' = flash
  PROVE  HashTracksFlash'
BY DEF HashTracksFlash

\* What ensureShaActive leaves in the context.
LEMMA HashValue ==
  ASSUME TypeOK, HashTracksFlash, ram.part # None, NEW d \in Seq(Cell)
  PROVE  /\ Hash(d) \in Seq(Cell)
         /\ Len(Hash(d)) = ram.off + Len(d)
         /\ \A i \in 1..ram.off : flash[ram.part][i] \in {Hash(d)[i], Garbage}
         /\ \A i \in ram.off + 1 .. ram.off + Len(d) : Hash(d)[i] = d[i - ram.off]
<1> DEFINE H == IF ram.active THEN ram.sha ELSE Rehash(ram.part, ram.off)
<1>1. ram.part \in Part /\ ram.off \in 0..PartSize /\ ram.sha \in Seq(Cell)
  BY BoundAssumption DEF TypeOK, Ram
<1>2. /\ Rehash(ram.part, ram.off) \in Seq(Cell)
      /\ Len(Rehash(ram.part, ram.off)) = ram.off
      /\ \A i \in 1..ram.off : Rehash(ram.part, ram.off)[i] = flash[ram.part][i]
  BY <1>1, RehashFacts DEF TypeOK, FlashType
<1>3. /\ H \in Seq(Cell) /\ Len(H) = ram.off
      /\ \A i \in 1..ram.off : flash[ram.part][i] \in {H[i], Garbage}
  BY <1>1, <1>2 DEF HashTracksFlash
<1>4. Hash(d) = H \o d
  BY DEF Hash
<1> HIDE DEF H
<1>5. ram.off \in Nat
  BY <1>1, BoundAssumption
<1> QED
  BY <1>3, <1>4, <1>5

LEMMA HashManifest ==
  ASSUME FlashSound
  PROVE  TypeOK /\ HashTracksFlash /\ Manifest => HashTracksFlash'
<1> SUFFICES ASSUME TypeOK, HashTracksFlash, NEW j \in Job, NEW n, NEW k,
                    \/ ManifestFresh(j)
                    \/ ManifestResume(j)
                    \/ ManifestPowerLoss(j, n, k)
             PROVE  HashTracksFlash'
  BY DEF Manifest, ManifestEraseFails, FlashSound
<1>1. CASE ManifestFresh(j)
  <2>1. /\ ram'.off = 0 /\ ram'.sha = <<>> /\ ram'.part = Target
        /\ Target # None
    BY <1>1, ImageAssumption
    DEF ManifestFresh, NewJobRam, TypeOK, Ram, Target, Other, Part
  <2> QED
    BY <2>1 DEF HashTracksFlash
<1>2. CASE ManifestResume(j)
  <2> DEFINE p == IF ram.part = None THEN nvs.label ELSE ram.part
  <2>1. p \in Part /\ p # None /\ ram.off \in 0..PartSize
    BY <1>2, BoundAssumption DEF ManifestResume, TypeOK, Ram, Nvs
  <2>2. /\ Len(Rehash(p, ram.off)) = ram.off
        /\ \A i \in 1..ram.off : Rehash(p, ram.off)[i] = flash[p][i]
    BY <2>1, RehashFacts DEF TypeOK, FlashType
  <2>3. ram.active => p = ram.part
    BY DEF HashTracksFlash
  <2>4. /\ ram'.part = p /\ ram'.off = ram.off /\ flash' = flash
        /\ ram'.sha = IF ram.active THEN ram.sha ELSE Rehash(p, ram.off)
    BY <1>2 DEF ManifestResume, TypeOK, Ram
  <2> HIDE DEF p
  <2>5. CASE ram.active
    BY <2>1, <2>3, <2>4, <2>5 DEF HashTracksFlash
  <2>6. CASE ~ram.active
    BY <2>1, <2>2, <2>4, <2>6 DEF HashTracksFlash
  <2> QED
    BY <2>5, <2>6
<1>3. CASE ManifestPowerLoss(j, n, k)
  BY <1>3, HashIdle DEF ManifestPowerLoss, PowerLost, BlankRam
<1> QED
  BY <1>1, <1>2, <1>3

LEMMA HashChunk ==
  ASSUME FlashSound
  PROVE  TypeOK /\ HashTracksFlash /\ Chunk => HashTracksFlash'
<1> SUFFICES ASSUME TypeOK, HashTracksFlash, NEW off \in 0..PartSize, NEW d \in Data,
                    NEW k,
                    \/ ChunkRefused(off)
                    \/ ChunkWritten(off, d)
                    \/ ChunkPowerLoss(off, d, k)
             PROVE  HashTracksFlash'
  BY DEF Chunk, ChunkWriteFails, FlashSound
<1>1. CASE ChunkRefused(off)
  BY <1>1, HashFrame DEF ChunkRefused
<1>2. CASE ChunkWritten(off, d)
  <2>1. /\ off = ram.off /\ ram.part # None /\ ram.part \in Part /\ off \in Nat
        /\ off + Len(d) <= PartSize /\ Len(d) \in 0..Len(d) /\ Len(d) \in Nat
        /\ d \in Seq(Cell)
    BY <1>2, DataFacts, BoundAssumption
    DEF ChunkWritten, ChunkExpected, TypeOK, Ram
  <2>2. /\ Len(Hash(d)) = off + Len(d)
        /\ \A i \in 1..off : flash[ram.part][i] \in {Hash(d)[i], Garbage}
        /\ \A i \in off + 1 .. off + Len(d) : Hash(d)[i] = d[i - off]
    BY <2>1, HashValue
  <2>3. \A i \in 1..PartSize :
          flash'[ram.part][i] =
            IF i \in off + 1 .. off + Len(d)
            THEN Program(flash[ram.part][i], d[i - off]) ELSE flash[ram.part][i]
    <3>1. flash \in FlashType
      BY DEF TypeOK, FlashType
    <3>2. flash' = Programmed(ram.part, off, d, Len(d))
      BY <1>2 DEF ChunkWritten
    <3>3. \A i \in 1..PartSize :
            Programmed(ram.part, off, d, Len(d))[ram.part][i] =
              IF i \in off + 1 .. off + Len(d)
              THEN Program(flash[ram.part][i], d[i - off]) ELSE flash[ram.part][i]
      <4>1. Len(d) \in 0..Len(d) /\ ram.part \in Part /\ off \in Nat /\ d \in Data
        BY <2>1
      <4> QED
        BY <4>1, <3>1, ProgrammedFacts
    <3> QED
      BY <3>2, <3>3
  <2> DEFINE New == off + 1 .. off + Len(d)
  <2>4. /\ \A i \in 1..(off + Len(d)) : i \in 1..PartSize /\ (i \in 1..off \/ i \in New)
        /\ \A i \in 1..off : i \notin New
    BY <2>1, BoundAssumption
  <2> HIDE DEF New
  <2>5. ASSUME NEW i \in 1..(off + Len(d))
        PROVE  flash'[ram.part][i] \in {Hash(d)[i], Garbage}
    <3>1. flash'[ram.part][i] =
            IF i \in New THEN Program(flash[ram.part][i], d[i - off]) ELSE flash[ram.part][i]
      BY <2>3, <2>4 DEF New
    <3>2. CASE i \in 1..off
      BY <2>2, <2>4, <3>1, <3>2
    <3>3. CASE i \in New
      <4>1. Hash(d)[i] = d[i - off]
        BY <2>2, <3>3 DEF New
      <4> QED
        BY <3>1, <3>3, <4>1 DEF Program
    <3> QED
      BY <2>4, <3>2, <3>3
  <2>6. ram'.off = off + Len(d) /\ ram'.sha = Hash(d) /\ ram'.part = ram.part
    BY <1>2 DEF ChunkWritten, TypeOK, Ram
  <2> QED
    BY <2>1, <2>2, <2>5, <2>6 DEF HashTracksFlash
<1>3. CASE ChunkPowerLoss(off, d, k)
  BY <1>3, HashIdle DEF ChunkPowerLoss, PowerLost, BlankRam
<1> QED
  BY <1>1, <1>2, <1>3

LEMMA HashFinish == TypeOK /\ HashTracksFlash /\ Finish => HashTracksFlash'
<1> SUFFICES ASSUME TypeOK, HashTracksFlash, NEW k,
                    \/ FinishRefused
                    \/ FinishCleared
                    \/ FinishSelected
                    \/ FinishSelectPowerLoss
                    \/ FinishClearPowerLoss(k)
             PROVE  HashTracksFlash'
  BY DEF Finish
<1>1. CASE FinishRefused
  BY <1>1, HashFrame DEF FinishRefused
<1>2. CASE FinishCleared
  BY <1>2, ClearedRamType, HashIdle DEF FinishCleared, TypeOK
<1>3. CASE FinishSelected
  BY <1>3, HashIdle DEF FinishSelected, TypeOK, Ram
<1>4. CASE FinishSelectPowerLoss \/ FinishClearPowerLoss(k)
  BY <1>4, HashIdle
  DEF FinishSelectPowerLoss, FinishClearPowerLoss, PowerLost, BlankRam
<1> QED
  BY <1>1, <1>2, <1>3, <1>4

LEMMA HashRestart == TypeOK /\ HashTracksFlash /\ Restart => HashTracksFlash'
<1> SUFFICES ASSUME TypeOK, HashTracksFlash, Restart PROVE HashTracksFlash'
  OBVIOUS
<1>1. CASE Reboot \/ PowerLoss
  BY <1>1, HashIdle DEF Reboot, PowerLoss, PowerLost, BlankRam
<1>2. CASE Boot /\ BeginIdle
  BY <1>2, HashIdle DEF BeginIdle, Loaded, BlankRam
<1>3. CASE Boot /\ BeginResumes
  <2>1. /\ nvs.label \in Part /\ nvs.label # None /\ nvs.off \in 0..PartSize
    BY <1>3, BoundAssumption DEF BeginResumes, JobStored, TypeOK, Nvs
  <2>2. /\ Len(Rehash(nvs.label, nvs.off)) = nvs.off
        /\ \A i \in 1..nvs.off : Rehash(nvs.label, nvs.off)[i] = flash[nvs.label][i]
    BY <2>1, RehashFacts DEF TypeOK, FlashType
  <2>3. /\ ram'.part = nvs.label /\ ram'.off = nvs.off
        /\ ram'.sha = Rehash(nvs.label, nvs.off)
    BY <1>3 DEF BeginResumes, Loaded, BlankRam
  <2>4. flash' = flash
    BY <1>3 DEF Boot
  <2> QED
    BY <2>1, <2>2, <2>3, <2>4 DEF HashTracksFlash
<1>4. CASE Boot /\ BeginClears
  BY <1>4, LoadedType, ClearedRamType, HashIdle DEF BeginClears
<1>5. ASSUME NEW k, Boot, BeginClearPowerLoss(k) PROVE HashTracksFlash'
  BY <1>5, HashIdle DEF BeginClearPowerLoss, PowerLost, BlankRam
<1>6. CASE BootPowerLoss
  BY <1>6, HashFrame DEF BootPowerLoss
<1> QED
  BY <1>1, <1>2, <1>3, <1>4, <1>5, <1>6 DEF Restart, Boot

LEMMA HashSelfTest == TypeOK /\ HashTracksFlash /\ SelfTest => HashTracksFlash'
<1> SUFFICES ASSUME TypeOK, HashTracksFlash, NEW k,
                    \/ SelfTestNothing
                    \/ SelfTestValidates
                    \/ SelfTestRollsBack
                    \/ SelfTestKeepsImage
                    \/ SelfTestPowerLoss(k)
             PROVE  HashTracksFlash'
  BY DEF SelfTest
<1>1. CASE SelfTestNothing \/ SelfTestKeepsImage
  BY <1>1, HashFrame DEF SelfTestNothing, SelfTestKeepsImage
<1>2. CASE SelfTestValidates
  BY <1>2, ClearedRamType, HashIdle DEF SelfTestValidates, TypeOK
<1>3. CASE SelfTestRollsBack \/ SelfTestPowerLoss(k)
  BY <1>3, HashIdle DEF SelfTestRollsBack, SelfTestPowerLoss, PowerLost, BlankRam
<1> QED
  BY <1>1, <1>2, <1>3

\* The SHA context always stands for the flash contents before _next_off.
THEOREM HashCorrect ==
  ASSUME FlashSound
  PROVE  Spec => []HashTracksFlash
<1>1. TypeOK /\ HashTracksFlash /\ [Next]_vars => HashTracksFlash'
  <2>1. HashTracksFlash /\ UNCHANGED vars => HashTracksFlash'
    BY HashFrame DEF vars
  <2> QED
    BY <2>1, HashManifest, HashChunk, HashFinish, HashRestart, HashSelfTest DEF Next
<1> QED
  BY <1>1, HashInit, TypeCorrect, PTL DEF Spec

\* A digest that matches, over a partition that passes the image check.
LEMMA MatchIsImage ==
  ASSUME TypeOK, HashTracksFlash, FinishExpected, DigestMatches, CanSelect
  PROVE  nvs.sha # None /\ Holds(flash, ram.part, nvs.sha)
<1>1. ram.part # None /\ ram.part \in Part
  BY DEF FinishExpected, TypeOK, Ram
<1>2. /\ nvs.sha \in Seq(Cell) /\ Len(nvs.sha) = ram.off
      /\ \A i \in 1..ram.off : flash[ram.part][i] \in {nvs.sha[i], Garbage}
  <2>1. <<>> \in Seq(Cell) /\ Len(<<>>) = 0 /\ ram.off \in Nat
    BY DEF TypeOK, Ram
  <2>2. /\ Hash(<<>>) \in Seq(Cell)
        /\ Len(Hash(<<>>)) = ram.off + Len(<<>>)
        /\ \A i \in 1..ram.off : flash[ram.part][i] \in {Hash(<<>>)[i], Garbage}
    BY <1>1, <2>1, HashValue
  <2> QED
    BY <2>1, <2>2 DEF DigestMatches
<1>3. nvs.sha \in Image /\ nvs.sha # None
  BY <1>2, ImageAssumption DEF TypeOK, Nvs, Cell
<1>4. PICK img \in Image : Holds(flash, ram.part, img)
  BY DEF CanSelect, HoldsImage
<1>5. /\ img \in Seq(Unit) /\ Len(img) \in Nat
      /\ nvs.sha \in Seq(Unit) /\ Len(nvs.sha) \in Nat
  BY <1>3, ImageAssumption
<1>6. ASSUME NEW i \in 1..Len(img), i <= Len(nvs.sha)
      PROVE  img[i] = nvs.sha[i]
  <2>1. img[i] \in Unit /\ flash[ram.part][i] = img[i]
    BY <1>4, <1>5 DEF Holds
  <2>2. flash[ram.part][i] \in {nvs.sha[i], Garbage}
    BY <1>2, <1>5, <1>6
  <2> QED
    BY <2>1, <2>2, ImageAssumption
<1>7. img = nvs.sha
  <2>1. CASE Len(img) <= Len(nvs.sha)
    <3>1. \A i \in 1..Len(img) : img[i] = nvs.sha[i]
      BY <1>5, <1>6, <2>1
    <3> QED
      BY <1>3, <2>1, <3>1, ImageAssumption
  <2>2. CASE Len(nvs.sha) <= Len(img)
    <3>1. \A i \in 1..Len(nvs.sha) : nvs.sha[i] = img[i]
      BY <1>5, <1>6, <2>2
    <3> QED
      BY <1>3, <2>2, <3>1, ImageAssumption
  <2> QED
    BY <1>5, <2>1, <2>2
<1> QED
  BY <1>3, <1>4, <1>7

\* Only finishAndVerify selects a partition.
LEMMA SelectsOnlyFinish ==
  ASSUME TypeOK, [Next]_vars, NEW p \in Part, Selects(p)
  PROVE  FinishExpected /\ DigestMatches /\ CanSelect /\ p = ram.part
<1>1. phase = "run" /\ boot' = p /\ ota'[p] = "new"
  BY DEF Selects
<1>2. ASSUME boot' = boot, ota' = ota, vetted' \subseteq vetted PROVE FALSE
  BY <1>1, <1>2 DEF Selects
<1>3. CASE Manifest
  BY <1>2, <1>3 DEF Manifest, ManifestFresh, ManifestResume, ManifestEraseFails,
     ManifestPowerLoss, Vetted
<1>4. CASE Chunk
  BY <1>2, <1>4 DEF Chunk, ChunkRefused, ChunkWritten, ChunkWriteFails,
     ChunkPowerLoss, Vetted
<1>5. CASE Finish
  BY <1>1, <1>2, <1>5 DEF Finish, FinishRefused, FinishCleared, FinishSelected,
     FinishSelectPowerLoss, FinishClearPowerLoss
<1>6. CASE Restart
  BY <1>1, <1>2, <1>6 DEF Restart, Reboot, PowerLoss, Boot, BootPowerLoss
<1>7. CASE SelfTest
  BY <1>1, <1>7 DEF SelfTest, SelfTestNothing, SelfTestValidates,
     SelfTestRollsBack, SelfTestKeepsImage, SelfTestPowerLoss, SelfTestFails
<1>8. CASE UNCHANGED vars
  BY <1>2, <1>8 DEF vars
<1> QED
  BY <1>3, <1>4, <1>5, <1>6, <1>7, <1>8 DEF Next

\* finishAndVerify selects a partition only when it holds the declared image.
THEOREM SelectionVerified ==
  ASSUME FlashSound
  PROVE  Spec => SelectedIsVerified
<1>1. TypeOK /\ HashTracksFlash /\ [Next]_vars =>
        [\A p \in Part : Selects(p) => nvs.sha # None /\ Holds(flash, p, nvs.sha)]_vars
  BY SelectsOnlyFinish, MatchIsImage
<1> QED
  BY <1>1, HashCorrect, TypeCorrect, PTL DEF Spec, SelectedIsVerified

-----------------------------------------------------------------------------
(* The job in RAM is the one in NVS, from the moment begin() has loaded it.       *)

EraseSound == "erase" \notin FlashFaults

JobKept ==
  /\ nvs.pend = 1 /\ nvs.off = ram.off /\ nvs.size = ram.total
  /\ nvs.ver = ram.ver /\ nvs.sha = ram.expect /\ nvs.label = ram.part

\* The members hold a job only while the processor runs, the self-test included.
StoredInv == ram.pend = 1 => phase # "off" /\ JobKept

LEMMA NoJobStored ==
  ASSUME ram'.pend = 0
  PROVE  StoredInv'
BY DEF StoredInv

LEMMA LostHasNoJob == PowerLost => ram'.pend = 0
BY DEF PowerLost, BlankRam

LEMMA ClearedHasNoJob ==
  ASSUME NEW r \in Ram
  PROVE  ClearedRam(r).pend = 0
BY DEF ClearedRam, Ram

LEMMA StoredSteps ==
  ASSUME EraseSound, TypeOK, StoredInv, [Next]_vars
  PROVE  StoredInv'
<1>1. ram \in Ram /\ nvs \in Nvs
  BY DEF TypeOK
<1>2. ASSUME UNCHANGED <<nvs, ram>>, phase' = phase \/ phase' # "off"
      PROVE  StoredInv'
  BY <1>2 DEF StoredInv, JobKept
<1>3. CASE UNCHANGED vars
  BY <1>2, <1>3 DEF vars
<1>4. CASE Manifest
  <2>1. PICK j \in Job : \/ ManifestFresh(j) \/ ManifestResume(j)
                         \/ \E n \in 0..PartSize : \/ ManifestEraseFails(j, n)
                                                   \/ \E k \in 0..Len(ManifestKeys) - 1 : ManifestPowerLoss(j, n, k)
    BY <1>4 DEF Manifest
  <2>2. CASE ManifestFresh(j)
    <3>1. phase' = "run" /\ nvs' = JobNvs(j)
          /\ ram' = [NewJobRam(j) EXCEPT !.pend = 1, !.active = TRUE, !.sha = <<>>]
      BY <2>2 DEF ManifestFresh
    <3>2. /\ ram'.off = 0 /\ ram'.total = Len(j.img) /\ ram'.ver = j.ver /\ ram'.expect = j.img
          /\ ram'.part = Target
      BY <1>1, <3>1 DEF NewJobRam, Ram
    <3> QED
      BY <3>1, <3>2 DEF StoredInv, JobKept, JobNvs
  <2>3. CASE ManifestResume(j)
    <3>1. UNCHANGED <<phase, nvs>> /\ ram.pend = 1
      BY <2>3 DEF ManifestResume, SameJob
    <3>2. phase # "off" /\ JobKept
      BY <3>1 DEF StoredInv
    <3>3. ram'.part = (IF ram.part = None THEN nvs.label ELSE ram.part)
      BY <1>1, <2>3 DEF ManifestResume, Ram
    <3>4. ram'.part = nvs.label
      BY <3>2, <3>3 DEF JobKept
    <3>5. /\ ram'.off = ram.off /\ ram'.total = ram.total /\ ram'.ver = ram.ver
          /\ ram'.expect = ram.expect
      BY <1>1, <2>3 DEF ManifestResume, Ram
    <3> QED
      BY <3>1, <3>2, <3>4, <3>5 DEF StoredInv, JobKept
  <2>4. ~\E n : ManifestEraseFails(j, n)
    BY DEF ManifestEraseFails, EraseSound
  <2>5. CASE \E n, k : ManifestPowerLoss(j, n, k)
    BY <2>5, NoJobStored, LostHasNoJob DEF ManifestPowerLoss
  <2> QED
    BY <2>1, <2>2, <2>3, <2>4, <2>5
<1>5. CASE Chunk
  <2>1. PICK off \in 0..PartSize, d \in Data :
          \/ ChunkRefused(off) \/ ChunkWritten(off, d)
          \/ \E k \in 0..Len(d) : ChunkWriteFails(off, d, k) \/ ChunkPowerLoss(off, d, k)
    BY <1>5 DEF Chunk
  <2>2. CASE ChunkRefused(off)
    BY <1>2, <2>2 DEF ChunkRefused
  <2>3. CASE ChunkWritten(off, d)
    <3>1. phase' = phase /\ ram.pend = 1 /\ nvs' = [nvs EXCEPT !.off = off + Len(d)]
          /\ ram' = [ram EXCEPT !.off = off + Len(d), !.active = TRUE, !.sha = Hash(d)]
      BY <2>3 DEF ChunkWritten, ChunkExpected
    <3>2. phase # "off" /\ JobKept
      BY <3>1 DEF StoredInv
    <3>3. /\ nvs'.pend = nvs.pend /\ nvs'.off = off + Len(d) /\ nvs'.size = nvs.size
          /\ nvs'.ver = nvs.ver /\ nvs'.sha = nvs.sha /\ nvs'.label = nvs.label
      BY <1>1, <3>1 DEF Nvs
    <3>4. /\ ram'.off = off + Len(d) /\ ram'.total = ram.total
          /\ ram'.ver = ram.ver /\ ram'.expect = ram.expect /\ ram'.part = ram.part
      BY <1>1, <3>1 DEF Ram
    <3> QED
      BY <3>1, <3>2, <3>3, <3>4 DEF StoredInv, JobKept
  <2>4. CASE \E k \in 0..Len(d) : ChunkWriteFails(off, d, k)
    <3>1. UNCHANGED <<phase, nvs>> /\ ram' = [ram EXCEPT !.active = TRUE, !.sha = Hash(d)]
      BY <2>4 DEF ChunkWriteFails
    <3>2. /\ ram'.pend = ram.pend /\ ram'.off = ram.off /\ ram'.total = ram.total
          /\ ram'.ver = ram.ver /\ ram'.expect = ram.expect /\ ram'.part = ram.part
      BY <1>1, <3>1 DEF Ram
    <3> QED
      BY <3>1, <3>2 DEF StoredInv, JobKept
  <2>5. CASE \E k \in 0..Len(d) : ChunkPowerLoss(off, d, k)
    BY <2>5, NoJobStored, LostHasNoJob DEF ChunkPowerLoss
  <2> QED
    BY <2>1, <2>2, <2>3, <2>4, <2>5
<1>6. CASE Finish
  <2>1. CASE FinishRefused
    BY <1>2, <2>1 DEF FinishRefused
  <2>2. CASE FinishCleared
    BY <1>1, <2>2, NoJobStored, ClearedHasNoJob DEF FinishCleared
  <2>3. CASE FinishSelected
    <3>1. phase' = phase /\ nvs' = [nvs EXCEPT !.off = 0]
          /\ ram' = [ram EXCEPT !.off = 0, !.active = FALSE, !.sha = <<>>]
      BY <2>3 DEF FinishSelected
    <3>2. /\ nvs'.pend = nvs.pend /\ nvs'.off = 0 /\ nvs'.size = nvs.size
          /\ nvs'.ver = nvs.ver /\ nvs'.sha = nvs.sha /\ nvs'.label = nvs.label
      BY <1>1, <3>1 DEF Nvs
    <3>3. /\ ram'.pend = ram.pend /\ ram'.off = 0 /\ ram'.total = ram.total
          /\ ram'.ver = ram.ver /\ ram'.expect = ram.expect /\ ram'.part = ram.part
      BY <1>1, <3>1 DEF Ram
    <3> QED
      BY <3>1, <3>2, <3>3 DEF StoredInv, JobKept
  <2>4. CASE FinishSelectPowerLoss \/ \E k \in 1..Len(ClearKeys) - 1 : FinishClearPowerLoss(k)
    BY <2>4, NoJobStored, LostHasNoJob DEF FinishSelectPowerLoss, FinishClearPowerLoss
  <2> QED
    BY <1>6, <2>1, <2>2, <2>3, <2>4 DEF Finish
<1>7. CASE Restart
  <2>1. CASE Reboot
    <3>1. ram'.pend = 0
      BY <2>1 DEF Reboot, BlankRam
    <3> QED
      BY <3>1, NoJobStored
  <2>2. CASE PowerLoss
    BY <2>2, NoJobStored, LostHasNoJob DEF PowerLoss
  <2>3. CASE Boot
    <3>1. /\ Loaded.off = nvs.off /\ Loaded.total = nvs.size /\ Loaded.ver = nvs.ver
          /\ Loaded.pend = nvs.pend /\ (nvs.pend = 1 => Loaded.expect = nvs.sha)
      BY DEF Loaded, BlankRam
    <3>2. CASE BeginIdle
      BY <3>1, <3>2, NoJobStored DEF BeginIdle
    <3>3. CASE BeginResumes
      <4>1. phase' = "boot" /\ nvs' = nvs /\ nvs.pend = 1
            /\ ram' = [Loaded EXCEPT !.part = nvs.label, !.active = TRUE,
                                     !.sha = Rehash(nvs.label, nvs.off)]
        BY <3>3 DEF BeginResumes, JobStored
      <4>2. /\ ram'.off = Loaded.off /\ ram'.total = Loaded.total /\ ram'.ver = Loaded.ver
            /\ ram'.expect = Loaded.expect /\ ram'.part = nvs.label
        BY <4>1 DEF Loaded, BlankRam
      <4> QED
        BY <3>1, <4>1, <4>2 DEF StoredInv, JobKept
    <3>4. CASE BeginClears
      BY <1>1, <3>4, NoJobStored, ClearedHasNoJob, LoadedType DEF BeginClears, TypeOK
    <3>5. CASE \E k \in 1..Len(ClearKeys) - 1 : BeginClearPowerLoss(k)
      BY <3>5, NoJobStored, LostHasNoJob DEF BeginClearPowerLoss
    <3> QED
      BY <2>3, <3>2, <3>3, <3>4, <3>5 DEF Boot
  <2>4. CASE BootPowerLoss
    <3>1. UNCHANGED <<phase, nvs, ram>>
      BY <2>4 DEF BootPowerLoss
    <3> QED
      BY <1>2, <3>1
  <2> QED
    BY <1>7, <2>1, <2>2, <2>3, <2>4 DEF Restart
<1>8. CASE SelfTest
  <2>1. CASE SelfTestNothing \/ SelfTestKeepsImage
    <3>1. UNCHANGED <<nvs, ram>> /\ phase' # "off"
      BY <2>1 DEF SelfTestNothing, SelfTestKeepsImage
    <3> QED
      BY <1>2, <3>1
  <2>2. CASE SelfTestValidates
    BY <1>1, <2>2, NoJobStored, ClearedHasNoJob DEF SelfTestValidates
  <2>3. CASE SelfTestRollsBack \/ \E k \in 0..Len(ClearKeys) - 1 : SelfTestPowerLoss(k)
    BY <2>3, NoJobStored, LostHasNoJob DEF SelfTestRollsBack, SelfTestPowerLoss
  <2> QED
    BY <1>8, <2>1, <2>2, <2>3 DEF SelfTest
<1> QED
  BY <1>3, <1>4, <1>5, <1>6, <1>7, <1>8 DEF Next

\* Whatever was interrupted before, the job the members describe is the one that
\* begin() would load, at the same offset.  Without EraseSound it is not: after an
\* erase that fails the members name the new job while the old one is pending.
THEOREM JobIsStoredAlways ==
  ASSUME EraseSound
  PROVE  Spec => []JobIsStored
<1>1. Init => StoredInv
  BY DEF Init, StoredInv, BlankRam
<1>2. StoredInv => JobIsStored
  BY DEF StoredInv, JobKept, JobIsStored
<1>3. TypeOK /\ StoredInv /\ [Next]_vars => StoredInv'
  BY StoredSteps
<1> QED
  BY <1>1, <1>2, <1>3, TypeCorrect, PTL DEF Spec

=============================================================================
