------------------------------ MODULE FotaDevice ------------------------------
(***************************************************************************)
(* Firmware update on the device: class FotaManager (FotaManager.h), the   *)
(* branches of fotaReceived (Mqtt.cpp) that call it, and the order of      *)
(* setup (main.cpp) at boot.                                               *)
(*                                                                         *)
(* State is split the way the hardware splits it: what survives a power    *)
(* loss (flash partitions, OTA data of the boot loader, NVS) and what does *)
(* not (the members of FotaManager).  Every handler that performs more     *)
(* than one NVS write has a second action in which power is lost after the *)
(* first k of them.                                                        *)
(*                                                                         *)
(* Flash is a sequence of programming units.  NOR flash only clears bits:  *)
(* programming a unit that is not erased gives the new data when the old   *)
(* data was the same, and garbage otherwise.  SHA-256 is taken to be free  *)
(* of collisions, so a digest is represented by the sequence it hashes.    *)
(***************************************************************************)
EXTENDS Naturals, Sequences

CONSTANTS
  Unit,            \* contents of one programming unit
  Image,           \* firmware images: sequences of units
  Factory,         \* the image the device was delivered with
  Version,         \* version strings of manifests
  PartSize,        \* units in an OTA partition
  Data,            \* payloads of chunks: non-empty sequences of units
  MaxHash,         \* bound: units fed to one SHA-256 context
  None,            \* an absent NVS key, or a null partition pointer
  Erased, Garbage, \* contents of a flash unit that are not data
  FlashFaults,     \* the flash operations that may fail; "write" includes the
                   \* refusal of a chunk that runs past the partition
  CoreValidates    \* the Arduino core validates the image before setup(), as the
                   \* one of platformio.ini does unless verifyOta is overridden

Faults == {"erase", "write", "read", "state", "otadata"}

ASSUME ImageAssumption ==
  /\ Image \subseteq {img \in Seq(Unit) : Len(img) \in 1..PartSize}
  /\ Factory \in Image
  /\ Data \subseteq Seq(Unit) \ {<<>>}
  /\ \A x, y \in Image :      \* the header of an image tells its length
       Len(x) <= Len(y) /\ (\A i \in 1..Len(x) : x[i] = y[i]) => x = y
  /\ None \notin Seq(Unit \cup {Erased, Garbage}) /\ None \notin Version /\ None \notin {0, 1}
  /\ Erased # Garbage /\ Erased \notin Unit /\ Garbage \notin Unit

ASSUME BoundAssumption ==
  /\ PartSize \in Nat /\ MaxHash \in Nat

ASSUME FaultAssumption ==
  /\ FlashFaults \subseteq Faults
  /\ CoreValidates \in BOOLEAN

VARIABLES
  phase,    \* "off", "boot" (setup before the self-test) or "run"
  running,  \* the partition the processor executes
  boot,     \* the partition selected in the OTA data
  ota,      \* state of each partition in the OTA data
  flash,    \* contents of each partition
  nvs,      \* the keys of the "fota" NVS namespace
  ram,      \* the members of FotaManager
  vetted,   \* history: partitions whose contents passed finishAndVerify
  reused    \* history: a chunk or a finish was taken for a job on the partition
            \* that executed

vars == <<phase, running, boot, ota, flash, nvs, ram, vetted, reused>>

-----------------------------------------------------------------------------
Part == {0, 1}
Other(p) == 1 - p
Cell == Unit \cup {Erased, Garbage}
Job == [ver : Version, img : Image]
OtaState == {"new", "pending", "valid", "invalid"}

Nvs == [off : Nat, size : Nat, ver : Version \cup {None},
        sha : Image \cup {None}, pend : {0, 1}, label : Part \cup {None}]

Ram == [off : Nat, total : Nat, ver : Version \cup {None},
        expect : Image \cup {None}, pend : {0, 1}, active : BOOLEAN,
        sha : Seq(Cell), part : Part \cup {None}]

\* The partition starts with a complete image: what the image check of the
\* boot loader and of esp_ota_set_boot_partition accepts.
Holds(f, p, img) == \A i \in 1..Len(img) : f[p][i] = img[i]
HoldsImage(p) == \E img \in Image : Holds(flash, p, img)

-----------------------------------------------------------------------------
(* NVS keys, in the order in which the code writes or removes them.        *)

ManifestKeys == <<"off", "size", "ver", "sha", "pend", "label">>
ClearKeys == <<"off", "size", "ver", "sha", "label", "pend">>

\* NVS after the first k keys of the list took their value from new.
Mix(old, new, keys, k) ==
  LET done == {keys[i] : i \in 1..k}
  IN [off   |-> IF "off" \in done THEN new.off ELSE old.off,
      size  |-> IF "size" \in done THEN new.size ELSE old.size,
      ver   |-> IF "ver" \in done THEN new.ver ELSE old.ver,
      sha   |-> IF "sha" \in done THEN new.sha ELSE old.sha,
      pend  |-> IF "pend" \in done THEN new.pend ELSE old.pend,
      label |-> IF "label" \in done THEN new.label ELSE old.label]

EmptyNvs == [off |-> 0, size |-> 0, ver |-> None, sha |-> None,
             pend |-> 0, label |-> None]

BlankRam == [off |-> 0, total |-> 0, ver |-> None, expect |-> None, pend |-> 0,
             active |-> FALSE, sha |-> <<>>, part |-> None]

\* clearState: every member but _expect; an inactive SHA context holds nothing.
ClearedRam(r) == [r EXCEPT !.off = 0, !.total = 0, !.pend = 0, !.ver = None,
                           !.active = FALSE, !.sha = <<>>, !.part = None]

ClearedNvs(k) == Mix(nvs, EmptyNvs, ClearKeys, k)

PowerLost == phase' = "off" /\ ram' = BlankRam

-----------------------------------------------------------------------------
(* Flash.                                                                  *)

Program(cell, u) == IF cell \in {Erased, u} THEN u ELSE Garbage

\* The first k units of d programmed at offset off of partition p.
Programmed(p, off, d, k) ==
  [flash EXCEPT ![p] = [i \in 1..PartSize |->
     IF i \in off + 1 .. off + k THEN Program(@[i], d[i - off]) ELSE @[i]]]

\* The first n units of partition p erased.
ErasedTo(p, n) ==
  [flash EXCEPT ![p] = [i \in 1..PartSize |-> IF i <= n THEN Erased ELSE @[i]]]

RehashShort(p, n) == SubSeq(flash[p], 1, n - 1)  \* mutant: off by one
\* rehashPartitionPrefix
Rehash(p, n) == SubSeq(flash[p], 1, n)

Vetted == vetted' = {p \in vetted : flash'[p] = flash[p]}
Uses == reused' = (reused \/ ram.part = running)

-----------------------------------------------------------------------------
(* op "manifest": handleManifest.                                          *)

SameJob(j) ==
  /\ ram.pend = 1
  /\ ram.total = Len(j.img)
  /\ ram.ver = j.ver
  /\ ram.expect = j.img

\* Mutants: the partition of the job before is kept; the partition is taken that is
\* not selected for boot.
TargetKept == IF ram.part = None THEN Other(running) ELSE ram.part
TargetUnselected == Other(boot)

\* esp_ota_get_next_update_partition(nullptr): the one that does not execute.
Target == Other(running)

\* The members a fresh manifest sets before the erase.
NewJobRam(j) == [ram EXCEPT !.off = 0, !.total = Len(j.img), !.ver = j.ver,
                            !.expect = j.img, !.part = Target]

JobNvs(j) == [off |-> 0, size |-> Len(j.img), ver |-> j.ver, sha |-> j.img,
              pend |-> 1, label |-> Target]

ManifestFresh(j) ==
  /\ phase = "run" /\ ~SameJob(j)
  /\ flash' = ErasedTo(Target, Len(j.img))
  /\ ram' = [NewJobRam(j) EXCEPT !.pend = 1, !.active = TRUE, !.sha = <<>>]
  /\ nvs' = JobNvs(j)
  /\ Vetted
  /\ UNCHANGED <<phase, running, boot, ota, reused>>

\* esp_partition_erase_range fails after n units: the members keep the new job.
ManifestEraseFails(j, n) ==
  /\ phase = "run" /\ ~SameJob(j)
  /\ "erase" \in FlashFaults /\ n < Len(j.img)
  /\ flash' = ErasedTo(Target, n)
  /\ ram' = NewJobRam(j)
  /\ Vetted
  /\ UNCHANGED <<phase, running, boot, ota, nvs, reused>>

\* Power lost while erasing, or after k NVS writes.
ManifestPowerLoss(j, n, k) ==
  /\ phase = "run" /\ ~SameJob(j)
  /\ n <= Len(j.img) /\ (n < Len(j.img) => k = 0)
  /\ flash' = ErasedTo(Target, n)
  /\ nvs' = Mix(nvs, JobNvs(j), ManifestKeys, k)
  /\ PowerLost
  /\ Vetted
  /\ UNCHANGED <<running, boot, ota, reused>>

ManifestResume(j) ==
  /\ phase = "run" /\ SameJob(j)
  /\ LET p == IF ram.part = None THEN nvs.label ELSE ram.part
     IN /\ p # None
        /\ ram' = [ram EXCEPT !.part = p, !.active = TRUE,
                     !.sha = IF ram.active THEN @ ELSE Rehash(p, ram.off)]
  /\ UNCHANGED <<phase, running, boot, ota, flash, nvs, vetted, reused>>

-----------------------------------------------------------------------------
(* op "chunk": handleChunk.                                                *)

\* ensureShaActive, then mbedtls_sha256_update_ret
Hash(d) == (IF ram.active THEN ram.sha ELSE Rehash(ram.part, ram.off)) \o d

ChunkExpected(off) == ram.pend = 1 /\ off = ram.off /\ ram.part # None

ChunkRefused(off) ==
  /\ phase = "run" /\ ~ChunkExpected(off)
  /\ UNCHANGED <<phase, running, boot, ota, flash, nvs, ram, vetted, reused>>

\* Mutants: the result of the write is ignored; the offset is not stored.
ChunkWrittenUnchecked(off, d) ==
  /\ phase = "run" /\ ChunkExpected(off)
  /\ flash' = Programmed(ram.part, off, d, Len(d))
  /\ ram' = [ram EXCEPT !.off = off + Len(d), !.active = TRUE, !.sha = Hash(d)]
  /\ nvs' = [nvs EXCEPT !.off = off + Len(d)]
  /\ Vetted /\ Uses
  /\ UNCHANGED <<phase, running, boot, ota>>

ChunkWrittenUnsaved(off, d) ==
  /\ phase = "run" /\ ChunkExpected(off)
  /\ off + Len(d) <= PartSize /\ Len(Hash(d)) <= MaxHash
  /\ flash' = Programmed(ram.part, off, d, Len(d))
  /\ ram' = [ram EXCEPT !.off = off + Len(d), !.active = TRUE, !.sha = Hash(d)]
  /\ Vetted /\ Uses
  /\ UNCHANGED <<phase, running, boot, ota, nvs>>

ChunkWritten(off, d) ==
  /\ phase = "run" /\ ChunkExpected(off)
  /\ off + Len(d) <= PartSize /\ Len(Hash(d)) <= MaxHash
  /\ flash' = Programmed(ram.part, off, d, Len(d))
  /\ ram' = [ram EXCEPT !.off = off + Len(d), !.active = TRUE, !.sha = Hash(d)]
  /\ nvs' = [nvs EXCEPT !.off = off + Len(d)]
  /\ Vetted /\ Uses
  /\ UNCHANGED <<phase, running, boot, ota>>

\* esp_partition_write refuses a range past the partition, or fails after k
\* units; the hash has taken the chunk already.
ChunkWriteFails(off, d, k) ==
  /\ phase = "run" /\ ChunkExpected(off)
  /\ "write" \in FlashFaults /\ Len(Hash(d)) <= MaxHash
  /\ IF off + Len(d) > PartSize THEN k = 0 ELSE k < Len(d)
  /\ flash' = Programmed(ram.part, off, d, k)
  /\ ram' = [ram EXCEPT !.active = TRUE, !.sha = Hash(d)]
  /\ Vetted /\ Uses
  /\ UNCHANGED <<phase, running, boot, ota, nvs>>

\* Power lost after k units were programmed and before the offset was stored.
ChunkPowerLoss(off, d, k) ==
  /\ phase = "run" /\ ChunkExpected(off)
  /\ off + Len(d) <= PartSize /\ k \in 1..Len(d)
  /\ flash' = Programmed(ram.part, off, d, k)
  /\ PowerLost
  /\ Vetted /\ Uses
  /\ UNCHANGED <<running, boot, ota, nvs>>

-----------------------------------------------------------------------------
(* op "finish": finishAndVerify.                                           *)

FinishExpected == ram.pend = 1 /\ ram.off = ram.total /\ ram.part # None

\* Mutant: the digests are compared by length only.
DigestLengthMatches == nvs.sha # None /\ Len(Hash(<<>>)) = Len(nvs.sha)

\* finish of the SHA context equals the digest stored in NVS.
DigestMatches == Hash(<<>>) = nvs.sha

\* esp_ota_set_boot_partition checks the image in the partition.
CanSelect == HoldsImage(ram.part)

FinishRefused ==
  /\ phase = "run" /\ ~FinishExpected
  /\ UNCHANGED <<phase, running, boot, ota, flash, nvs, ram, vetted, reused>>

FinishFails ==
  \/ ~DigestMatches
  \/ DigestMatches /\ (~CanSelect \/ "otadata" \in FlashFaults)

FinishCleared ==
  /\ phase = "run" /\ FinishExpected /\ FinishFails
  /\ nvs' = ClearedNvs(Len(ClearKeys))
  /\ ram' = ClearedRam(ram)
  /\ UNCHANGED <<phase, running, boot, ota, flash, vetted, reused>>

FinishSelected ==
  /\ phase = "run" /\ FinishExpected /\ DigestMatches /\ CanSelect
  /\ boot' = ram.part
  /\ ota' = [ota EXCEPT ![ram.part] = "new"]
  /\ ram' = [ram EXCEPT !.off = 0, !.active = FALSE, !.sha = <<>>]
  /\ nvs' = [nvs EXCEPT !.off = 0]
  /\ vetted' = vetted \cup {ram.part} /\ Uses
  /\ UNCHANGED <<phase, running, flash>>

\* Power lost inside clearState, or with the partition selected and the offset
\* not reset.
FinishClearPowerLoss(k) ==
  /\ phase = "run" /\ FinishExpected /\ FinishFails
  /\ nvs' = ClearedNvs(k)
  /\ PowerLost
  /\ UNCHANGED <<running, boot, ota, flash, vetted, reused>>

FinishSelectPowerLoss ==
  /\ phase = "run" /\ FinishExpected /\ DigestMatches /\ CanSelect
  /\ boot' = ram.part
  /\ ota' = [ota EXCEPT ![ram.part] = "new"]
  /\ vetted' = vetted \cup {ram.part} /\ Uses
  /\ PowerLost
  /\ UNCHANGED <<running, flash, nvs>>

-----------------------------------------------------------------------------
(* Restart: op "reboot", power loss, the boot loader, setup().             *)

Reboot ==
  /\ phase = "run"
  /\ phase' = "off" /\ ram' = BlankRam
  /\ UNCHANGED <<running, boot, ota, flash, nvs, vetted, reused>>

PowerLoss ==
  /\ phase # "off"
  /\ PowerLost
  /\ UNCHANGED <<running, boot, ota, flash, nvs, vetted, reused>>

\* Boot loader: an image left pending by its first boot is given up; a
\* partition without an image, or given up, is passed over for the other one.
Tried == IF ota[boot] = "pending" THEN "invalid" ELSE ota[boot]
BootChoice ==
  IF Tried # "invalid" /\ HoldsImage(boot) THEN boot ELSE Other(boot)
BootState == IF BootChoice = boot /\ Tried = "new" THEN "pending" ELSE Tried

\* initArduino, before setup(): a pending image is marked valid, or not if that
\* fails; its result is not looked at.
CoreStates ==
  IF CoreValidates /\ BootState = "pending"
  THEN {"valid"} \cup {s \in {"pending"} : "otadata" \in FlashFaults}
  ELSE {BootState}

\* The members begin() loads from NVS.
Loaded == [BlankRam EXCEPT !.off = nvs.off, !.total = nvs.size, !.ver = nvs.ver,
             !.pend = nvs.pend,
             !.expect = IF nvs.pend = 1 THEN nvs.sha ELSE None]

JobStored == nvs.pend = 1 /\ nvs.sha # None /\ nvs.label # None

BeginIdle ==
  /\ nvs.pend = 0
  /\ ram' = Loaded /\ phase' = "boot"
  /\ nvs' = nvs

BeginResumes ==
  /\ JobStored
  /\ ram' = [Loaded EXCEPT !.part = nvs.label, !.active = TRUE,
                           !.sha = Rehash(nvs.label, nvs.off)]
  /\ phase' = "boot"
  /\ nvs' = nvs

BeginGivesUp ==
  /\ nvs.pend = 1
  /\ ~JobStored \/ ("read" \in FlashFaults /\ nvs.off > 0)

BeginClears ==
  /\ BeginGivesUp
  /\ nvs' = ClearedNvs(Len(ClearKeys))
  /\ ram' = ClearedRam(Loaded) /\ phase' = "boot"

BeginClearPowerLoss(k) ==
  /\ BeginGivesUp
  /\ nvs' = ClearedNvs(k)
  /\ PowerLost

Boot ==
  /\ phase = "off"
  /\ HoldsImage(BootChoice)
  /\ running' = BootChoice
  /\ \E s \in CoreStates : ota' = [ota EXCEPT ![boot] = s]
  /\ \/ BeginIdle
     \/ BeginResumes
     \/ BeginClears
     \/ \E k \in 1..Len(ClearKeys) - 1 : BeginClearPowerLoss(k)
  /\ UNCHANGED <<boot, flash, vetted, reused>>

\* Power lost between the boot loader and setup().
BootPowerLoss ==
  /\ phase = "off"
  /\ HoldsImage(BootChoice)
  /\ ota' = [ota EXCEPT ![boot] = BootState]
  /\ UNCHANGED <<phase, running, boot, flash, nvs, ram, vetted, reused>>

-----------------------------------------------------------------------------
(* bootSelfTestFinalize(TRUE): setup() never calls it with FALSE, because  *)
(* wifiConnect() has set a bit of status_reg by then.                      *)

SelfTestNothing ==
  /\ phase = "boot" /\ ota[running] # "pending"
  /\ phase' = "run"
  /\ UNCHANGED <<running, boot, ota, flash, nvs, ram, vetted, reused>>

SelfTestValidates ==
  /\ phase = "boot" /\ ota[running] = "pending"
  /\ ota' = [ota EXCEPT ![running] = "valid"]
  /\ nvs' = ClearedNvs(Len(ClearKeys))
  /\ ram' = ClearedRam(ram)
  /\ phase' = "run"
  /\ UNCHANGED <<running, boot, flash, vetted, reused>>

SelfTestPowerLoss(k) ==
  /\ phase = "boot" /\ ota[running] = "pending"
  /\ ota' = [ota EXCEPT ![running] = "valid"]
  /\ nvs' = ClearedNvs(k)
  /\ PowerLost
  /\ UNCHANGED <<running, boot, flash, vetted, reused>>

\* The state of the image cannot be read, or the image not be marked valid.
SelfTestFails ==
  /\ phase = "boot"
  /\ \/ "state" \in FlashFaults
     \/ ota[running] = "pending" /\ "otadata" \in FlashFaults

RollbackPossible == ota[Other(running)] # "invalid" /\ HoldsImage(Other(running))

SelfTestRollsBack ==
  /\ SelfTestFails /\ RollbackPossible
  /\ ota' = [ota EXCEPT ![running] = "invalid"]
  /\ PowerLost
  /\ UNCHANGED <<running, boot, flash, nvs, vetted, reused>>

\* esp_ota_mark_app_invalid_rollback_and_reboot returns.
SelfTestKeepsImage ==
  /\ SelfTestFails /\ ~RollbackPossible
  /\ phase' = "run"
  /\ UNCHANGED <<running, boot, ota, flash, nvs, ram, vetted, reused>>

-----------------------------------------------------------------------------
Manifest ==
  \E j \in Job :
    \/ ManifestFresh(j)
    \/ ManifestResume(j)
    \/ \E n \in 0..PartSize :
         \/ ManifestEraseFails(j, n)
         \/ \E k \in 0..Len(ManifestKeys) - 1 : ManifestPowerLoss(j, n, k)

Chunk ==
  \E off \in 0..PartSize, d \in Data :
    \/ ChunkRefused(off)
    \/ ChunkWritten(off, d)
    \/ \E k \in 0..Len(d) : \/ ChunkWriteFails(off, d, k)
                           \/ ChunkPowerLoss(off, d, k)

Finish ==
  \/ FinishRefused
  \/ FinishCleared
  \/ FinishSelected
  \/ FinishSelectPowerLoss
  \/ \E k \in 1..Len(ClearKeys) - 1 : FinishClearPowerLoss(k)

SelfTest ==
  \/ SelfTestNothing
  \/ SelfTestValidates
  \/ SelfTestRollsBack
  \/ SelfTestKeepsImage
  \/ \E k \in 0..Len(ClearKeys) - 1 : SelfTestPowerLoss(k)

Restart == Reboot \/ PowerLoss \/ Boot \/ BootPowerLoss

Next == Manifest \/ Chunk \/ Finish \/ Restart \/ SelfTest

\* A delivered device: the factory image in partition 0, nothing in NVS.
Init ==
  /\ phase = "run" /\ running = 0 /\ boot = 0
  /\ ota = [p \in Part |-> "valid"]
  /\ flash = [p \in Part |-> [i \in 1..PartSize |->
       IF p = 0 /\ i <= Len(Factory) THEN Factory[i] ELSE Erased]]
  /\ nvs = EmptyNvs /\ ram = BlankRam
  /\ vetted = {0} /\ reused = FALSE

Spec == Init /\ [][Next]_vars

-----------------------------------------------------------------------------
(* Properties.                                                             *)

\* Every variable has its type.
TypeOK ==
  /\ phase \in {"off", "boot", "run"}
  /\ running \in Part /\ boot \in Part
  /\ ota \in [Part -> OtaState]
  /\ flash \in [Part -> [1..PartSize -> Cell]]
  /\ nvs \in Nvs /\ nvs.off <= PartSize
  /\ ram \in Ram /\ ram.off <= PartSize
  /\ vetted \subseteq Part /\ reused \in BOOLEAN

\* The SHA context has hashed what was sent for the units before _next_off, and
\* each of these units holds what was hashed or is visibly damaged.
HashTracksFlash ==
  ram.active =>
    /\ ram.part # None
    /\ Len(ram.sha) = ram.off
    /\ \A i \in 1..ram.off : flash[ram.part][i] \in {ram.sha[i], Garbage}

\* A step of finishAndVerify that selects partition p for the next boot.
Selects(p) ==
  /\ phase = "run" /\ boot' = p /\ ota'[p] = "new"
  /\ boot # p \/ ota[p] # "new" \/ p \in vetted' \ vetted

\* finishAndVerify selects a partition for boot only when the partition holds
\* exactly the image whose digest the manifest declared.
SelectedIsVerified ==
  [][\A p \in Part : Selects(p) => nvs.sha # None /\ Holds(flash, p, nvs.sha)]_vars

\* A job that validation left behind on the partition that executes is the only
\* way to damage the image that executes, whatever else is interrupted or fails.
RunningHoldsImage == phase # "off" /\ ~reused => HoldsImage(running)

\* And it is the only way to leave the boot loader without a complete image after
\* a power loss at any point.
NeverBricked == phase = "off" /\ ~reused => HoldsImage(BootChoice)

\* The job the members describe is the one a restart would resume, at the same
\* offset: a manifest that was answered need_chunks is stored in full.
JobIsStored ==
  phase = "run" /\ ram.pend = 1 =>
    /\ nvs.pend = 1 /\ nvs.off = ram.off /\ nvs.size = ram.total
    /\ nvs.ver = ram.ver /\ nvs.sha = ram.expect /\ nvs.label = ram.part

\* The partition the device falls back to, unless the one it is to boot from is valid.
Home == IF ota[boot] = "valid" THEN boot ELSE Other(boot)

\* Why both hold: until a job on it is used, nothing writes to Home, which is what
\* executes after a boot, or becomes so when the new image is given up.
HomeSafe ==
  /\ ota[Home] # "invalid" /\ HoldsImage(Home)
  /\ phase = "run" => running = Home
  /\ phase = "boot" =>
       \/ running = Home /\ (Home = boot \/ ota[boot] = "invalid" \/ ~HoldsImage(boot))
       \/ running = boot /\ ota[boot] = "pending" /\ HoldsImage(boot)
HomeInv == ~reused => HomeSafe

\* While firmware executes, no update is pending on the partition it executes from:
\* the job is kept "until new app marks itself valid" and cleared "after successful
\* validation" (FotaManager.h:290, 313).
NoJobOnRunning == phase = "run" /\ ram.pend = 1 => ram.part # running

=============================================================================
