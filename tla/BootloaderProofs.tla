--------------------------- MODULE BootloaderProofs ----------------------------
(***************************************************************************)
(* Proofs about Bootloader, for every set of images, every number of       *)
(* chunks and sectors, and every number of faults and power losses.        *)
(*                                                                         *)
(* The safety properties speak of the moments between two boots or of the  *)
(* end of one; the invariant that carries them says what has been done at  *)
(* each call in between: InstallProgress for firmware_update(), Ordering   *)
(* and Outcome for update_apply() and main(), BleInv for ble_update().     *)
(***************************************************************************)
EXTENDS Bootloader, BleUpdateProofs

(* How far firmware_update() is at each of its calls. *)
InstallProgress ==
  /\ pc \in Firmware => fw # NoFile
  /\ pc \in {"fwErase", "fwWrite", "fwClose", "fwUnlink"} => SizeOk(fw)
  /\ pc = "fwErase" =>
       /\ idx <= Sectors
       /\ \A c \in Chunks : SectorOf[c] < idx => app[c] = Erased
  /\ pc = "fwWrite" =>
       /\ idx <= ImageSize[fw] + 1
       /\ app = [c \in Chunks |-> IF c < idx THEN fw ELSE Erased]
  /\ pc \in {"fwClose", "fwUnlink"} => app = Installed(fw)

(* The places after firmware.bin has had its turn. *)
Served ==
  \/ pc \in {"statBle", "ble", "check", "app"}
  \/ pc = "resolve" /\ rc = "ok"

(* firmware.bin had its turn and is gone, or was not seen; ble.bin only     *)
(* has its turn inside ble_update().                                        *)
Ordering ==
  /\ Served => fw = NoFile \/ "fw" \in missed
  /\ stage \in BleActive => pc = "ble"

(* No complete BLE update is left on the card, but for one not seen. *)
BleServed == ble = NoFile \/ ~flm \/ "ble" \in missed

(* How a boot comes to its end: what ble_update() has done at its return is *)
(* all there was to do, and green is lit after that and not before.         *)
Outcome ==
  /\ stage # "idle" => pc \in {"ble", "resolve", "check"} \cup Halted
  /\ stage = "done" => BleServed
  /\ pc = "resolve" /\ rc = "ok" => BleServed
  /\ pc \in {"check", "app"} => BleServed
  /\ "green" \in led => pc \in {"check", "app"}

IInv ==
  TypeOK /\ InstallProgress /\ Ordering /\ Outcome /\ AppRecoverable /\ BleInv

-------------------------------------------------------------------------------
(* bleVars changes only as the promise of ble_update() allows. *)
LEMMA BleFollows == Next => BleNext \/ UNCHANGED bleVars
  BY DEF Next, main, update_apply, firmware_update, ble_update,
     Mount, MountFails, FirmwareFound, FirmwareAbsent, FirmwareStatFails,
     Fail, Open, CallFails, SizeRejected, SizeAccepted, EraseSector, EraseFails,
     WriteChunk, WriteFails, EndOfFile, Close, Unlink, BleFound, BleAbsent,
     FlmAbsent, BleWorks, BleGivesUp, BleReturns, Resolve, StartApp, ErrorLoop,
     PowerLoss, PowerOff, PowerOn, UserLoads, RoutineEnds, BleNext, BleStep

LEMMA InitInv == Init => IInv
<1> SUFFICES ASSUME Init PROVE IInv
  OBVIOUS
<1>1. BleInv
  BY BleInitInv DEF Init
<1>2. TypeOK
  <2>1. app \in [Chunks -> Images \cup {Erased, Torn}]
    BY DEF Init, Installed, Blank
  <2>2. pc \in Running \cup Halted \cup {"off"} /\ rc \in {"ok", "err"}
    BY DEF Init, Running, Halted
  <2>3. idx \in Nat \ {0} /\ fw \in Images \cup {NoFile} /\ led \subseteq {"red", "green"}
    BY DEF Init
  <2>4. missed \subseteq {"fw", "ble"}
    BY DEF Init
  <2>5. faults \in 0..MaxFaults
    BY BootAssumption DEF Init
  <2> QED
    BY <1>1, <2>1, <2>2, <2>3, <2>4, <2>5 DEF TypeOK, BleInv
<1>3. InstallProgress /\ Ordering /\ Outcome
  BY DEF Init, BleInit, InstallProgress, Ordering, Served, Outcome, Firmware, BleActive
<1>4. AppRecoverable
  BY DEF Init, AppRecoverable, Intact
<1> QED
  BY <1>1, <1>2, <1>3, <1>4 DEF IInv

(* The BLE part, by the proof about ble_update() alone. *)
LEMMA BleKept == IInv /\ Next => BleInv'
  BY BleFollows, BleNextInv DEF IInv

(* Every step writes chunks of images, erased chunks or torn ones. *)
LEMMA AppTyped == IInv /\ Next => app' \in [Chunks -> Images \cup {Erased, Torn}]
<1> SUFFICES ASSUME IInv, Next PROVE app' \in [Chunks -> Images \cup {Erased, Torn}]
  OBVIOUS
<1> USE DEF IInv, TypeOK
<1>1. CASE EraseSector \/ EraseFails
  BY <1>1 DEF EraseSector, EraseFails, WithSector
<1>2. CASE WriteChunk \/ WriteFails
  <2>1. fw \in Images
    BY <1>2 DEF WriteChunk, WriteFails, InstallProgress, Firmware
  <2>2. Programmed(app[idx], fw) \in Images \cup {Erased, Torn}
    BY <2>1 DEF Programmed
  <2> QED
    BY <1>2, <2>2 DEF WriteChunk, WriteFails
<1>3. CASE PowerLoss
  BY <1>3 DEF PowerLoss, WithSector
<1>4. ASSUME ~(EraseSector \/ EraseFails \/ WriteChunk \/ WriteFails \/ PowerLoss)
      PROVE  UNCHANGED app
  BY <1>4
  DEF Next, main, update_apply, firmware_update, ble_update,
      Mount, MountFails, FirmwareFound, FirmwareAbsent, FirmwareStatFails,
      Open, CallFails, SizeRejected, SizeAccepted, EndOfFile, Close, Unlink,
      BleFound, BleAbsent, FlmAbsent, BleWorks, BleGivesUp, BleReturns,
      Resolve, StartApp, ErrorLoop, PowerOff, PowerOn, UserLoads, RoutineEnds
<1> QED
  BY <1>1, <1>2, <1>3, <1>4

LEMMA TypeKept == IInv /\ Next => TypeOK'
<1> SUFFICES ASSUME IInv, Next PROVE TypeOK'
  OBVIOUS
<1> USE DEF IInv, TypeOK, Next, main, update_apply, firmware_update, ble_update,
      Mount, MountFails, FirmwareFound, FirmwareAbsent, FirmwareStatFails,
      Fail, Open, CallFails, SizeRejected, SizeAccepted, EraseSector, EraseFails,
      WriteChunk, WriteFails, EndOfFile, Close, Unlink, BleFound, BleAbsent,
      FlmAbsent, BleWorks, BleGivesUp, BleReturns, Resolve, StartApp, ErrorLoop,
      PowerLoss, PowerOff, PowerOn, UserLoads, RoutineEnds
<1>1. pc' \in Running \cup Halted \cup {"off"} /\ rc' \in {"ok", "err"}
  BY DEF Running, Halted, Firmware
<1>2. idx' \in Nat \ {0} /\ fw' \in Images \cup {NoFile}
  OBVIOUS
<1>3. led' \subseteq {"red", "green"}
  BY DEF Toggled
<1>4. missed' \subseteq {"fw", "ble"}
  BY DEF BleUnseen
<1>5. faults' \in 0..MaxFaults
  BY BootAssumption DEF Fault, BleUnseen
<1> QED
  BY <1>1, <1>2, <1>3, <1>4, <1>5, AppTyped, BleKept DEF BleInv

(* The burn: each sector erased, then each chunk written, in order. *)
LEMMA InstallKept == IInv /\ Next => InstallProgress'
<1> SUFFICES ASSUME IInv, Next PROVE InstallProgress'
  OBVIOUS
<1> USE BootAssumption DEF IInv, TypeOK, InstallProgress, Firmware
<1>1. CASE FirmwareFound \/ Open \/ Close
  BY <1>1 DEF FirmwareFound, Open, Close, Installed, SizeOk
<1>2. CASE SizeAccepted
  <2>1. \A c \in Chunks : ~(SectorOf[c] < 1)
    OBVIOUS
  <2> QED
    BY <1>2, <2>1 DEF SizeAccepted, SizeOk
<1>3. CASE EraseSector
  <2>1. \A c \in Chunks : SectorOf[c] < idx + 1 => app'[c] = Erased
    BY <1>3 DEF EraseSector, WithSector
  <2>2. CASE idx = Sectors
    <3>1. \A c \in Chunks : app'[c] = Erased
      BY <2>1, <2>2
    <3>2. app' = [c \in Chunks |-> IF c < 1 THEN fw ELSE Erased]
      BY <1>3, <3>1 DEF EraseSector, WithSector, Chunks
    <3> QED
      BY <1>3, <2>2, <3>2 DEF EraseSector, SizeOk, Chunks
  <2>3. CASE idx # Sectors
    BY <1>3, <2>1, <2>3 DEF EraseSector, SizeOk
  <2> QED
    BY <2>2, <2>3
<1>4. CASE WriteChunk
  <2>1. idx \in Chunks /\ idx <= ImageSize[fw] /\ ImageSize[fw] \in Nat
    BY <1>4 DEF WriteChunk, SizeOk, Chunks
  <2>2. app = [c \in Chunks |-> IF c < idx THEN fw ELSE Erased]
    BY <1>4 DEF WriteChunk
  <2>3. app[idx] = Erased
    BY <2>1, <2>2 DEF Chunks
  <2>4. app' = [app EXCEPT ![idx] = fw]
    BY <1>4, <2>3 DEF WriteChunk, Programmed
  <2>5. \A c \in Chunks : app'[c] = IF c < idx + 1 THEN fw ELSE Erased
    BY <2>1, <2>2, <2>4 DEF Chunks
  <2>6. app' = [c \in Chunks |-> IF c < idx + 1 THEN fw ELSE Erased]
    BY <2>2, <2>4, <2>5
  <2>7. pc' = "fwWrite" /\ idx' = idx + 1 /\ fw' = fw
    BY <1>4 DEF WriteChunk
  <2>8. SizeOk(fw) /\ fw # NoFile
    BY <1>4 DEF WriteChunk
  <2> QED
    BY <2>1, <2>6, <2>7, <2>8 DEF SizeOk
<1>5. CASE EndOfFile
  <2>1. ImageSize[fw] \in Nat /\ idx = ImageSize[fw] + 1
    BY <1>5 DEF EndOfFile, SizeOk, Chunks
  <2>2. app = Installed(fw)
    BY <1>5, <2>1 DEF EndOfFile, Installed, Chunks
  <2> QED
    BY <1>5, <2>2 DEF EndOfFile, SizeOk, Installed
<1>6. CASE RoutineEnds
  BY <1>6 DEF RoutineEnds, SizeOk, Installed
<1>7. ASSUME ~( \/ FirmwareFound \/ Open \/ Close \/ SizeAccepted \/ EraseSector
                \/ WriteChunk \/ EndOfFile \/ RoutineEnds)
      PROVE  pc' \notin Firmware
  BY <1>7
  DEF Next, main, update_apply, firmware_update, ble_update,
      Mount, MountFails, FirmwareAbsent, FirmwareStatFails, Fail, CallFails,
      SizeRejected, EraseFails, WriteFails, Unlink, BleFound, BleAbsent, FlmAbsent,
      BleWorks, BleGivesUp, BleReturns, Resolve, StartApp, ErrorLoop,
      PowerLoss, PowerOff, PowerOn, UserLoads
<1> QED
  BY <1>1, <1>2, <1>3, <1>4, <1>5, <1>6, <1>7

(* firmware.bin before ble.bin. *)
LEMMA OrderKept == IInv /\ Next => Ordering'
<1> SUFFICES ASSUME IInv, Next PROVE Ordering'
  OBVIOUS
<1> USE DEF IInv, TypeOK, Ordering, Served, BleActive
<1>1. CASE Mount \/ MountFails \/ FirmwareFound \/ FirmwareAbsent \/ FirmwareStatFails
  BY <1>1
  DEF Mount, MountFails, FirmwareFound, FirmwareAbsent, FirmwareStatFails, bleVars
<1>2. CASE firmware_update
  BY <1>2
  DEF firmware_update, Fail, Open, CallFails, SizeRejected, SizeAccepted, EraseSector,
      EraseFails, WriteChunk, WriteFails, EndOfFile, Close, Unlink, bleVars
<1>3. CASE BleFound \/ BleAbsent \/ ble_update
  BY <1>3
  DEF BleFound, BleAbsent, ble_update, FlmAbsent, BleWorks, BleGivesUp, BleReturns,
      BleUnseen, BleSkip, BleStart, BleTouch, BleProgram, BleVerify, BleUnlinkBle,
      BleUnlinkFlm, BleGiveUp, bleVars
<1>4. CASE Resolve \/ StartApp \/ ErrorLoop
  BY <1>4 DEF Resolve, StartApp, ErrorLoop, bleVars
<1>5. CASE PowerLoss \/ PowerOff \/ PowerOn \/ UserLoads \/ RoutineEnds
  BY <1>5
  DEF PowerLoss, PowerOff, PowerOn, UserLoads, RoutineEnds, BleReset, BleLoad,
      BleSettle, bleVars
<1> QED
  BY <1>1, <1>2, <1>3, <1>4, <1>5 DEF Next, main, update_apply

(* The application or its replacement: only three kinds of step touch them. *)
LEMMA RecoverableKept == IInv /\ Next => AppRecoverable'
<1> SUFFICES ASSUME IInv, Next PROVE AppRecoverable'
  OBVIOUS
<1> USE DEF IInv, TypeOK, AppRecoverable, Intact, InstallProgress, Firmware
<1>1. CASE EraseSector \/ EraseFails \/ WriteChunk \/ WriteFails
  BY <1>1 DEF EraseSector, EraseFails, WriteChunk, WriteFails, Fail, SizeOk
<1>2. CASE PowerLoss
  BY <1>2 DEF PowerLoss, SizeOk, Installed
<1>3. CASE Unlink
  BY <1>3 DEF Unlink, SizeOk, Installed
<1>4. CASE UserLoads
  BY <1>4 DEF UserLoads, SizeOk, Installed
<1>5. ASSUME ~( \/ EraseSector \/ EraseFails \/ WriteChunk \/ WriteFails
                \/ PowerLoss \/ Unlink \/ UserLoads)
      PROVE  UNCHANGED <<app, fw>>
  BY <1>5
  DEF Next, main, update_apply, firmware_update, ble_update,
      Mount, MountFails, FirmwareFound, FirmwareAbsent, FirmwareStatFails,
      Fail, Open, CallFails, SizeRejected, SizeAccepted, EndOfFile, Close,
      BleFound, BleAbsent, FlmAbsent, BleWorks, BleGivesUp, BleReturns,
      Resolve, StartApp, ErrorLoop, PowerOff, PowerOn, RoutineEnds
<1> QED
  BY <1>1, <1>2, <1>3, <1>4, <1>5 DEF SizeOk, Installed

(* What the boot leaves undone, and when green is lit. *)
LEMMA OutcomeKept == IInv /\ Next => Outcome'
<1> SUFFICES ASSUME IInv, Next PROVE Outcome'
  OBVIOUS
<1> USE DEF IInv, TypeOK, Outcome, BleServed, Halted
<1>1. CASE Mount \/ MountFails \/ FirmwareFound \/ FirmwareAbsent \/ FirmwareStatFails
  BY <1>1
  DEF Mount, MountFails, FirmwareFound, FirmwareAbsent, FirmwareStatFails, bleVars
<1>2. CASE firmware_update
  BY <1>2
  DEF firmware_update, Fail, Open, CallFails, SizeRejected, SizeAccepted, EraseSector,
      EraseFails, WriteChunk, WriteFails, EndOfFile, Close, Unlink, Firmware, Toggled,
      bleVars
<1>3. CASE BleFound \/ BleAbsent
  BY <1>3 DEF BleFound, BleAbsent, BleUnseen, bleVars
<1>4. CASE ble_update
  BY <1>4
  DEF ble_update, FlmAbsent, BleWorks, BleGivesUp, BleReturns, BleUnseen, Toggled,
      BleSkip, BleStart, BleTouch, BleProgram, BleVerify, BleUnlinkBle, BleUnlinkFlm,
      BleGiveUp, bleVars
<1>5. CASE Resolve \/ StartApp \/ ErrorLoop
  BY <1>5 DEF Resolve, StartApp, ErrorLoop, bleVars
<1>6. CASE PowerLoss \/ PowerOff \/ PowerOn \/ UserLoads \/ RoutineEnds
  BY <1>6
  DEF PowerLoss, PowerOff, PowerOn, UserLoads, RoutineEnds, BleReset, BleLoad,
      BleSettle, bleVars
<1> QED
  BY <1>1, <1>2, <1>3, <1>4, <1>5, <1>6 DEF Next, main, update_apply

-------------------------------------------------------------------------------
(* The inductive invariant holds in every reachable state. *)
THEOREM Invariance == Spec => []IInv
<1>1. IInv /\ [Next]_vars => IInv'
  <2>1. IInv /\ Next => IInv'
    BY BleKept, TypeKept, InstallKept, OrderKept, OutcomeKept, RecoverableKept
    DEF IInv
  <2>2. IInv /\ UNCHANGED vars => IInv'
    BY DEF IInv, vars, TypeOK, InstallProgress, Ordering, Served, AppRecoverable,
       Intact, Outcome, BleServed, BleInv, BleTypeOK, BleOrder, BleRecoverable, SizeOk, Installed
  <2> QED
    BY <2>1, <2>2
<1> QED
  BY InitInv, <1>1, PTL DEF Spec

(* Every variable keeps to its type. *)
THEOREM TypeCorrect == Spec => []TypeOK
  BY Invariance, PTL DEF IInv

(* A complete application or a firmware.bin to install it from, always.     *)
THEOREM AppStaysRecoverable == Spec => []AppRecoverable
  BY Invariance, PTL DEF IInv

(* No FR8016HA without an image unless both files of the repair are there.  *)
THEOREM FrStaysRecoverable == Spec => []BleRecoverable
<1>1. IInv => BleRecoverable
  BY DEF IInv, BleInv
<1> QED
  BY Invariance, <1>1, PTL

(* ble.bin is flashed only when no firmware.bin waits, or none was seen.    *)
THEOREM FirmwareComesFirst == Spec => []FirmwareFirst
<1>1. IInv => FirmwareFirst
  BY DEF IInv, Ordering, Served, FirmwareFirst
<1> QED
  BY Invariance, <1>1, PTL

(* main() jumps to a complete image, unless this boot missed its repair.    *)
THEOREM JumpsToIntact == Spec => []JumpOnlyIntact
<1>1. IInv => JumpOnlyIntact
  BY DEF IInv, Ordering, Served, AppRecoverable, JumpOnlyIntact
<1> QED
  BY Invariance, <1>1, PTL

(* Green stands for a device with nothing left to install, whatever failed  *)
(* in this boot or in those before it.                                      *)
THEOREM GreenOnlyWhenDone == Spec => []GreenMeansDone
<1>1. IInv => GreenMeansDone
  BY DEF IInv, Ordering, Served, Outcome, BleServed, BleInv, BleRecoverable,
     GreenMeansDone
<1> QED
  BY Invariance, <1>1, PTL

(* firmware.bin is deleted only by the unlink after a complete install.     *)
THEOREM DeletesOnlyInstalled == Spec => DeletedOnlyWhenInstalled
<1>1. IInv /\ [Next]_vars =>
        [fw # NoFile /\ fw' = NoFile => SizeOk(fw) /\ app = Installed(fw)]_vars
  <2> SUFFICES ASSUME IInv, Next, fw # NoFile, fw' = NoFile
               PROVE  SizeOk(fw) /\ app = Installed(fw)
    BY DEF vars
  <2>1. Unlink
    BY DEF Next, main, update_apply, firmware_update, ble_update,
       Mount, MountFails, FirmwareFound, FirmwareAbsent, FirmwareStatFails,
       Fail, Open, CallFails, SizeRejected, SizeAccepted, EraseSector, EraseFails,
       WriteChunk, WriteFails, EndOfFile, Close, BleFound, BleAbsent,
       FlmAbsent, BleWorks, BleGivesUp, BleReturns, Resolve, StartApp, ErrorLoop,
       PowerLoss, PowerOff, PowerOn, UserLoads, RoutineEnds
  <2> QED
    BY <2>1 DEF Unlink, IInv, InstallProgress
<1> QED
  BY Invariance, <1>1, PTL DEF Spec, DeletedOnlyWhenInstalled
===============================================================================
