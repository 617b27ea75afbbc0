------------------------------ MODULE Bootloader ------------------------------
(***************************************************************************)
(* One STM32 bootloader over its whole life: power on, mount the TF card,  *)
(* install firmware.bin, then ble.bin, resolve the LEDs and start the      *)
(* application or stop in the error loop (main.c, update.c, tf.c,          *)
(* firmware_update.c, ble_update.c, led.c).  Power can go at any step; the *)
(* card, the flash and the BLE co-processor keep what they hold.           *)
(*                                                                         *)
(* The program is sequential, so pc is the place of the next call that can *)
(* fail or be cut short.  ble_update() is the promise of BleUpdate.        *)
(***************************************************************************)
EXTENDS AppImage, BleUpdate

CONSTANTS
  Images,      \* contents that firmware.bin can have
  Erased,      \* a chunk of flash that holds all ones
  AppChunks,   \* the application region, in units of FW_CHUNK_SIZE
  Sectors,     \* the flash sectors that cover the region
  SectorOf,    \* the sector of each chunk
  ImageSize,   \* the size of each image, in chunks
  Vector,      \* the vector table of each image
  MaxFaults    \* bound: failing calls and power losses in one behaviour

Chunks == 1..AppChunks

ASSUME BootAssumption ==
  /\ AppChunks \in Nat \ {0} /\ Sectors \in Nat \ {0} /\ MaxFaults \in Nat
  /\ SectorOf \in [Chunks -> 1..Sectors]
  /\ ImageSize \in [Images -> Nat]
  /\ Vector \in [Images -> VectorTable]
  /\ {NoFile, Torn, Erased} \cap Images = {}
  /\ NoFile # Torn /\ NoFile # Erased /\ Torn # Erased

VARIABLES
  pc,      \* the next call of the program
  rc,      \* what update_apply() returned: "ok", or "err" for a negative errno
  idx,     \* next sector to erase or chunk to write
  fw,      \* firmware.bin on the card
  app,     \* what each chunk of the application flash holds
  led,     \* the LEDs that are lit
  missed,  \* history: the updates on the card that this boot did not see
  faults   \* how many faults have happened

vars == <<pc, rc, idx, fw, app, led, missed, faults, stage, ble, flm, fr, inflight>>

(* firmware_update() lets an image pass that is not empty and fits. *)
SizeOk(v) == ImageSize[v] \in Chunks

(* The region after a complete erase and write of image v. *)
Installed(v) == [c \in Chunks |-> IF c <= ImageSize[v] THEN v ELSE Erased]

Blank == [c \in Chunks |-> Erased]

(* NOR flash: only an erased chunk takes new data. *)
Programmed(old, new) == IF old = Erased THEN new ELSE Torn

(* led_toggle(ALONZO_LED_RED) *)
Toggled == IF "red" \in led THEN led \ {"red"} ELSE led \cup {"red"}

Firmware == {"fwOpen", "fwCheck", "fwErase", "fwWrite", "fwClose", "fwUnlink"}
Running == {"mount", "statFw", "statBle", "ble", "resolve", "check"} \cup Firmware
Halted == {"app", "error"}

TypeOK ==
  /\ pc \in Running \cup Halted \cup {"off"}
  /\ rc \in {"ok", "err"}
  /\ idx \in Nat \ {0}
  /\ fw \in Images \cup {NoFile}
  /\ app \in [Chunks -> Images \cup {Erased, Torn}]
  /\ led \subseteq {"red", "green"}
  /\ missed \subseteq {"fw", "ble"}
  /\ faults \in 0..MaxFaults
  /\ BleTypeOK

(* A device that has run: an application is installed, or the flash is     *)
(* blank and the first firmware.bin is on the card.                        *)
Init ==
  /\ pc = "off" /\ rc = "ok" /\ idx = 1
  /\ fw \in Images \cup {NoFile}
  /\ \/ \E v \in Images : SizeOk(v) /\ app = Installed(v)
     \/ app = Blank /\ fw # NoFile /\ SizeOk(fw)
  /\ led = {} /\ missed = {} /\ faults = 0
  /\ BleInit

Fault == faults < MaxFaults /\ faults' = faults + 1

-------------------------------------------------------------------------------
(* main(): mount.  A card that does not mount counts as "nothing to do".   *)
Mount ==
  /\ pc = "mount"
  /\ pc' = "statFw"
  /\ UNCHANGED <<rc, idx, fw, app, led, missed, faults, bleVars>>

MountFails ==
  /\ pc = "mount"
  /\ Fault
  /\ pc' = "resolve"
  /\ missed' = (IF fw # NoFile THEN {"fw"} ELSE {}) \cup (IF ble # NoFile THEN {"ble"} ELSE {})
  /\ UNCHANGED <<rc, idx, fw, app, led, bleVars>>

-------------------------------------------------------------------------------
(* update_apply(), first half: tf_file_exists() says no for any stat error. *)
FirmwareFound ==
  /\ pc = "statFw"
  /\ fw # NoFile
  /\ pc' = "fwOpen"
  /\ UNCHANGED <<rc, idx, fw, app, led, missed, faults, bleVars>>

FirmwareAbsent ==
  /\ pc = "statFw"
  /\ fw = NoFile
  /\ pc' = "statBle"
  /\ UNCHANGED <<rc, idx, fw, app, led, missed, faults, bleVars>>

FirmwareStatFails ==
  /\ pc = "statFw"
  /\ fw # NoFile
  /\ Fault
  /\ missed' = missed \cup {"fw"}
  /\ pc' = "statBle"
  /\ UNCHANGED <<rc, idx, fw, app, led, bleVars>>

-------------------------------------------------------------------------------
(* firmware_update() *)

(* Seeded fault: update_apply() goes on with ble.bin after a failure. *)
FailAndGoOn ==
  /\ pc' = "statBle"
  /\ rc' = "err"
  /\ UNCHANGED <<fw, missed, bleVars>>

(* Seeded fault: the error path removes firmware.bin. *)
FailAndDelete ==
  /\ pc' = "resolve"
  /\ rc' = "err"
  /\ fw' = NoFile
  /\ UNCHANGED <<missed, bleVars>>

(* Any failure: the file is closed and kept, and update_apply() returns the *)
(* error without looking at ble.bin.                                        *)
Fail ==
  /\ pc' = "resolve"
  /\ rc' = "err"
  /\ UNCHANGED <<fw, missed, bleVars>>

Open ==
  /\ pc = "fwOpen"
  /\ pc' = "fwCheck"
  /\ UNCHANGED <<rc, idx, fw, app, led, missed, faults, bleVars>>

(* The flash device is not ready, or open, stat, close or unlink fails. *)
CallFails ==
  /\ pc \in {"fwOpen", "fwCheck", "fwClose", "fwUnlink"}
  /\ Fault
  /\ Fail
  /\ UNCHANGED <<idx, app, led>>

SizeRejected ==
  /\ pc = "fwCheck"
  /\ ~SizeOk(fw)
  /\ Fail
  /\ UNCHANGED <<idx, app, led, faults>>

(* Seeded fault: sectors counted from 0. *)
SizeAcceptedFromZero ==
  /\ pc = "fwCheck"
  /\ SizeOk(fw)
  /\ pc' = "fwErase"
  /\ idx' = 0
  /\ led' = led \cup {"red"}
  /\ UNCHANGED <<rc, fw, app, missed, faults, bleVars>>

SizeAccepted ==
  /\ pc = "fwCheck"
  /\ SizeOk(fw)
  /\ pc' = "fwErase"
  /\ idx' = 1
  /\ led' = led \cup {"red"}
  /\ UNCHANGED <<rc, fw, app, missed, faults, bleVars>>

WithSector(s, x) == [c \in Chunks |-> IF SectorOf[c] = s THEN x ELSE app[c]]

(* Seeded fault: the end of the region is not erased. *)
EraseSectorShort ==
  /\ pc = "fwErase"
  /\ app' = IF idx = Sectors THEN app ELSE WithSector(idx, Erased)
  /\ led' = Toggled
  /\ IF idx = Sectors THEN pc' = "fwWrite" /\ idx' = 1
                      ELSE pc' = pc /\ idx' = idx + 1
  /\ UNCHANGED <<rc, fw, missed, faults, bleVars>>

(* erase_app_region(): one sector, and the red LED toggles. *)
EraseSector ==
  /\ pc = "fwErase"
  /\ app' = WithSector(idx, Erased)
  /\ led' = Toggled
  /\ IF idx = Sectors THEN pc' = "fwWrite" /\ idx' = 1
                      ELSE pc' = pc /\ idx' = idx + 1
  /\ UNCHANGED <<rc, fw, missed, faults, bleVars>>

EraseFails ==
  /\ pc = "fwErase"
  /\ Fault
  /\ app' \in {app, WithSector(idx, Torn), WithSector(idx, Erased)}
  /\ Fail
  /\ UNCHANGED <<idx, led>>

(* One fs_read() and flash_write(); burn_blink() toggles red by the clock. *)
WriteChunk ==
  /\ pc = "fwWrite"
  /\ idx <= ImageSize[fw]
  /\ app' = [app EXCEPT ![idx] = Programmed(@, fw)]
  /\ idx' = idx + 1
  /\ led' \in {led, Toggled}
  /\ UNCHANGED <<pc, rc, fw, missed, faults, bleVars>>

(* The read fails, or the write does, which can leave the chunk torn. *)
WriteFails ==
  /\ pc = "fwWrite"
  /\ Fault
  /\ \/ UNCHANGED app
     \/ /\ idx <= ImageSize[fw]
        /\ \E x \in {Torn, Programmed(app[idx], fw)} : app' = [app EXCEPT ![idx] = x]
  /\ Fail
  /\ UNCHANGED <<idx, led>>

EndOfFile ==
  /\ pc = "fwWrite"
  /\ idx > ImageSize[fw]
  /\ pc' = "fwClose"
  /\ UNCHANGED <<rc, idx, fw, app, led, missed, faults, bleVars>>

Close ==
  /\ pc = "fwClose"
  /\ pc' = "fwUnlink"
  /\ UNCHANGED <<rc, idx, fw, app, led, missed, faults, bleVars>>

(* Seeded fault: the installed firmware.bin stays on the card. *)
UnlinkForgotten ==
  /\ pc = "fwUnlink"
  /\ pc' = "statBle"
  /\ UNCHANGED <<rc, idx, fw, app, led, missed, faults, bleVars>>

Unlink ==
  /\ pc = "fwUnlink"
  /\ fw' = NoFile
  /\ pc' = "statBle"
  /\ UNCHANGED <<rc, idx, app, led, missed, faults, bleVars>>

firmware_update ==
  \/ Open \/ CallFails \/ SizeRejected \/ SizeAccepted
  \/ EraseSector \/ EraseFails \/ WriteChunk \/ WriteFails \/ EndOfFile
  \/ Close \/ Unlink

-------------------------------------------------------------------------------
(* update_apply(), second half, and ble_update() *)
BleFound ==
  /\ pc = "statBle"
  /\ ble # NoFile
  /\ pc' = "ble"
  /\ UNCHANGED <<rc, idx, fw, app, led, missed, faults, bleVars>>

(* tf_file_exists() says no of a file that is there. *)
BleUnseen == Fault /\ missed' = missed \cup {"ble"}

(* No ble.bin, or its stat fails. *)
BleAbsent ==
  /\ pc = "statBle"
  /\ IF ble = NoFile THEN UNCHANGED <<faults, missed>> ELSE BleUnseen
  /\ pc' = "resolve"
  /\ rc' = "ok"
  /\ UNCHANGED <<idx, fw, app, led, bleVars>>

FlmAbsent ==
  /\ pc = "ble"
  /\ IF flm THEN BleUnseen ELSE UNCHANGED <<faults, missed>>
  /\ BleSkip
  /\ UNCHANGED <<pc, rc, idx, fw, app, led>>

(* fr8016_update(): fr_erase() toggles the red LED. *)
BleWorks ==
  /\ pc = "ble"
  /\ \/ BleStart \/ BleTouch \/ BleProgram \/ BleVerify
     \/ BleUnlinkBle \/ BleUnlinkFlm
  /\ led' \in {led, Toggled}
  /\ UNCHANGED <<pc, rc, idx, fw, app, missed, faults>>

(* A ble.bin of an unusable size fails before anything is erased; any      *)
(* other failure is a fault.                                               *)
BleGivesUp ==
  /\ pc = "ble"
  /\ \/ stage = "prepare" /\ ble \notin BleUsable /\ UNCHANGED faults
     \/ Fault
  /\ BleGiveUp
  /\ UNCHANGED <<pc, rc, idx, fw, app, led, missed>>

(* Seeded fault: update_apply() returns 0 whatever ble_update() returned. *)
BleErrorSwallowed ==
  /\ pc = "ble"
  /\ stage \in {"done", "failed"}
  /\ rc' = "ok"
  /\ pc' = "resolve"
  /\ UNCHANGED <<idx, fw, app, led, missed, faults, bleVars>>

BleReturns ==
  /\ pc = "ble"
  /\ stage \in {"done", "failed"}
  /\ rc' = IF stage = "done" THEN "ok" ELSE "err"
  /\ pc' = "resolve"
  /\ UNCHANGED <<idx, fw, app, led, missed, faults, bleVars>>

ble_update == FlmAbsent \/ BleWorks \/ BleGivesUp \/ BleReturns

update_apply ==
  \/ FirmwareFound \/ FirmwareAbsent \/ FirmwareStatFails \/ firmware_update
  \/ BleFound \/ BleAbsent \/ ble_update

-------------------------------------------------------------------------------
(* main(): the end of the boot *)

(* What the processor can read as the image's vector table. *)
VectorsRead ==
  CASE app[1] \in Images -> {Vector[app[1]]}
    [] app[1] = Erased   -> {ErasedVector}
    [] OTHER             -> {ErasedVector} \cup {Vector[v] : v \in Images}

(* Seeded fault: main() does not look at what update_apply() returned. *)
ResolveAnyway ==
  /\ pc = "resolve"
  /\ led' = {"green"}
  /\ pc' = "check"
  /\ UNCHANGED <<rc, idx, fw, app, missed, faults, bleVars>>

(* No error came back: led_all_off(), then green. *)
Resolve ==
  /\ pc = "resolve"
  /\ rc = "ok"
  /\ led' = {"green"}
  /\ pc' = "check"
  /\ UNCHANGED <<rc, idx, fw, app, missed, faults, bleVars>>

StartApp ==
  /\ pc = "check"
  /\ \E vt \in VectorsRead : app_image_valid(vt)
  /\ pc' = "app"
  /\ UNCHANGED <<rc, idx, fw, app, led, missed, faults, bleVars>>

(* error_loop(): "update failed", or "no valid application". *)
ErrorLoop ==
  /\ \/ pc = "resolve" /\ rc = "err"
     \/ pc = "check" /\ \E vt \in VectorsRead : ~app_image_valid(vt)
  /\ led' = {"red"}
  /\ pc' = "error"
  /\ UNCHANGED <<rc, idx, fw, app, missed, faults, bleVars>>

main == Mount \/ MountFails \/ update_apply \/ Resolve \/ StartApp \/ ErrorLoop

-------------------------------------------------------------------------------
(* The world around the program *)

(* Power is lost, or the STM32 is reset, in the middle of a boot. *)
PowerLoss ==
  /\ pc \in Running
  /\ Fault
  /\ \/ UNCHANGED app
     \/ pc = "fwErase" /\ app' = WithSector(idx, Torn)
     \/ pc = "fwWrite" /\ idx <= ImageSize[fw] /\ app' = [app EXCEPT ![idx] = Torn]
  /\ BleReset
  /\ pc' = "off"
  /\ led' = {}
  /\ UNCHANGED <<rc, idx, fw, missed>>

(* The user turns the device off after a boot has ended. *)
PowerOff ==
  /\ pc \in Halted
  /\ BleReset
  /\ pc' = "off"
  /\ led' = {}
  /\ UNCHANGED <<rc, idx, fw, app, missed, faults>>

PowerOn ==
  /\ pc = "off"
  /\ pc' = "mount"
  /\ rc' = "ok"
  /\ missed' = {}
  /\ UNCHANGED <<idx, fw, app, led, faults, bleVars>>

(* The user copies an update to the card, which holds no such file yet. *)
UserLoads ==
  /\ pc = "off"
  /\ \/ fw = NoFile /\ fw' \in Images /\ UNCHANGED bleVars
     \/ BleLoad /\ UNCHANGED fw
  /\ UNCHANGED <<pc, rc, idx, app, led, missed, faults>>

RoutineEnds ==
  /\ BleSettle
  /\ UNCHANGED <<pc, rc, idx, fw, app, led, missed, faults>>

Next == main \/ PowerLoss \/ PowerOff \/ PowerOn \/ UserLoads \/ RoutineEnds

Spec == Init /\ [][Next]_vars

(* The processor runs, and someone keeps switching the device off and on.  *)
(* Faults are never fair, and there are at most MaxFaults of them.         *)
Good == main /\ UNCHANGED faults

Fairness ==
  /\ WF_vars(Good) /\ WF_vars(PowerOff) /\ WF_vars(PowerOn) /\ WF_vars(RoutineEnds)

FairSpec == Spec /\ Fairness

-------------------------------------------------------------------------------
(* Properties *)

Intact == \E v \in Images : SizeOk(v) /\ app = Installed(v)

(* The application region holds a complete image, or firmware.bin is still  *)
(* on the card and good enough to be installed: no crash or failure of      *)
(* firmware_update() between the first erase and the unlink strands the     *)
(* device without both.                                                     *)
AppRecoverable == Intact \/ (fw # NoFile /\ SizeOk(fw))

(* firmware.bin leaves the card only once all of it is in flash and nothing *)
(* else is (firmware_update.h: "on success the update file is deleted. On   *)
(* failure the file is kept").                                              *)
DeletedOnlyWhenInstalled ==
  [][fw # NoFile /\ fw' = NoFile => SizeOk(fw) /\ app = Installed(fw)]_vars

(* While ble.bin is being flashed, no firmware.bin waits on the card,       *)
(* unless its stat failed in this boot (update.c: "always firmware.bin      *)
(* first, then ble.bin").                                                   *)
FirmwareFirst == stage \in BleActive => fw = NoFile \/ "fw" \in missed

(* The application that main() starts is a complete image, unless this boot *)
(* could not see the firmware.bin that repairs it.                          *)
JumpOnlyIntact == pc = "app" => Intact \/ "fw" \in missed

(* Green is lit only over a device on which nothing is left to do: no       *)
(* firmware.bin waits, no BLE update waits, and the FR8016HA holds a        *)
(* complete image with no operation of a boot gone by still changing it.    *)
(* The one excuse is an update on the card that this boot could not see     *)
(* (main.c: "Final LED state is resolved here, exactly once, from the       *)
(* update result", which two updates return through one rc).                *)
GreenMeansDone ==
  "green" \in led =>
    /\ fw = NoFile \/ "fw" \in missed
    /\ ((ble = NoFile \/ ~flm) /\ fr # Torn /\ ~inflight) \/ "ble" \in missed

(* An installable firmware.bin is installed and removed after some number   *)
(* of boots, whatever fails on the way: every cut leaves a retry.           *)
FirmwareInstalled ==
  \A v \in Images :
    (fw = v /\ SizeOk(v)) ~> (fw = NoFile /\ app = Installed(v))

(* The same for a complete BLE update, which a firmware.bin of a bad size   *)
(* holds up for ever: update_apply() returns before it looks at ble.bin.    *)
BleInstalled ==
  \A b \in BleUsable :
    (ble = b /\ flm) ~>
      ((ble = NoFile /\ fr = b) \/ (fw # NoFile /\ ~SizeOk(fw)))

(* Said of the program, and not so: see the runs that expect a violation.   *)

(* update.c: "Hard rule: always firmware.bin first, then ble.bin".          *)
AlwaysFirmwareFirst == stage \in BleActive => fw = NoFile

(* An installed image whose reset vector is a Thumb address, as flm_elf.c   *)
(* says every entry function is, is not refused as "no valid application".  *)
ThumbAppStarts ==
  pc = "error" /\ rc = "ok" =>
    ~ \E v \in Images : ThumbEntry(Vector[v]) /\ app = Installed(v)
===============================================================================
