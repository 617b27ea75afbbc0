------------------------------ MODULE BleUpdate -------------------------------
(***************************************************************************)
(* What ble_update() promises to its caller, without how it does it: the   *)
(* two files of an update on the TF card, the content of the FR8016HA      *)
(* flash, and how far the update has come.  Bootloader uses these actions  *)
(* as its BLE stage; Fr8016Update is the step-by-step program that         *)
(* implements them.                                                        *)
(*                                                                         *)
(* A flash operation runs on the FR8016HA itself, so one that the STM32    *)
(* has given up on (a time-out, a lost SWD answer, a reset of the STM32    *)
(* alone) may still be running: inflight says so, and BleSettle ends it.   *)
(***************************************************************************)
CONSTANTS
  BleImages,  \* contents that ble.bin and the FR8016HA flash can have
  BleUsable,  \* those whose size suits the flash that the .FLM describes
  NoFile,     \* ble.bin is not on the card
  Torn        \* flash content that is no complete image

ASSUME BleValuesAssumption ==
  /\ BleUsable \subseteq BleImages
  /\ NoFile \notin BleImages
  /\ Torn \notin BleImages
  /\ NoFile # Torn

VARIABLES
  stage,     \* how far ble_update() is
  ble,       \* ble.bin on the card
  flm,       \* FR8010H.FLM is on the card
  fr,        \* content of the FR8016HA flash
  inflight   \* a flash operation given up on still runs on the FR8016HA

bleVars == <<stage, ble, flm, fr, inflight>>

BleStages == {"idle", "prepare", "flashing", "verified", "orphan", "done", "failed"}

(* Between the call and the return of fr8016_update(). *)
BleActive == {"prepare", "flashing", "verified", "orphan"}

BleTypeOK ==
  /\ stage \in BleStages
  /\ ble \in BleImages \cup {NoFile}
  /\ flm \in BOOLEAN
  /\ fr \in BleImages \cup {Torn}
  /\ inflight \in BOOLEAN

BleInit ==
  /\ stage = "idle"
  /\ ble \in BleImages \cup {NoFile}
  /\ flm \in BOOLEAN
  /\ fr \in BleUsable
  /\ inflight = FALSE

(* Flash contents an operation cut short in the current stage can leave,   *)
(* and whether the FR8016HA may go on with it.                             *)
CutShort ==
  {fr} \cup (IF inflight \/ stage \in {"prepare", "flashing"} THEN {Torn} ELSE {})
       \cup (IF inflight \/ stage = "flashing" THEN {ble} ELSE {})

StillRunning ==
  IF stage \in {"prepare", "flashing"} THEN BOOLEAN ELSE {FALSE, inflight}

(* The .FLM is missing, or its stat fails: no update, ble.bin is kept. *)
BleSkip ==
  /\ stage = "idle"
  /\ ble # NoFile
  /\ stage' = "done"
  /\ UNCHANGED <<ble, flm, fr, inflight>>

BleStart ==
  /\ stage = "idle"
  /\ ble # NoFile
  /\ flm
  /\ stage' = "prepare"
  /\ UNCHANGED <<ble, flm, fr, inflight>>

(* The first erase: the old image is gone. *)
BleTouch ==
  /\ stage = "prepare"
  /\ ble \in BleUsable
  /\ ~inflight
  /\ fr' = Torn
  /\ stage' = "flashing"
  /\ UNCHANGED <<ble, flm, inflight>>

(* The last page is written: the flash holds ble.bin. *)
BleProgram ==
  /\ stage = "flashing"
  /\ fr # ble
  /\ fr' = ble
  /\ UNCHANGED <<stage, ble, flm, inflight>>

(* Seeded fault: no read-back, ble.bin is given up whatever the flash holds. *)
BleVerifySkipped ==
  /\ stage = "flashing"
  /\ stage' = "verified"
  /\ UNCHANGED <<ble, flm, fr, inflight>>

(* Read-back found in flash what ble.bin holds. *)
BleVerify ==
  /\ stage = "flashing"
  /\ fr = ble
  /\ stage' = "verified"
  /\ UNCHANGED <<ble, flm, fr, inflight>>

(* Seeded fault: the file that marks the update as pending stays behind. *)
BleUnlinkForgotten ==
  /\ stage = "verified"
  /\ stage' = "done"
  /\ UNCHANGED <<ble, flm, fr, inflight>>

BleUnlinkBle ==
  /\ stage = "verified"
  /\ ble' = NoFile
  /\ stage' = "orphan"
  /\ UNCHANGED <<flm, fr, inflight>>

BleUnlinkFlm ==
  /\ stage = "orphan"
  /\ flm' = FALSE
  /\ stage' = "done"
  /\ UNCHANGED <<ble, fr, inflight>>

(* Any step failed: ble_update() returns a negative errno. *)
BleGiveUp ==
  /\ stage \in BleActive
  /\ fr' \in CutShort
  /\ inflight' \in StillRunning
  /\ stage' = "failed"
  /\ UNCHANGED <<ble, flm>>

(* The operation left behind ends: it completes, or the halt of the next   *)
(* attach cuts it short.                                                   *)
BleSettle ==
  /\ inflight
  /\ fr' \in {fr, Torn, ble}
  /\ inflight' = FALSE
  /\ UNCHANGED <<stage, ble, flm>>

(* The STM32 restarts, alone or together with the FR8016HA. *)
BleReset ==
  /\ fr' \in CutShort
  /\ inflight' \in StillRunning
  /\ stage' = "idle"
  /\ UNCHANGED <<ble, flm>>

(* Between two updates the user completes the files on the card. *)
BleLoad ==
  /\ stage = "idle"
  /\ \/ ble = NoFile /\ ble' \in BleImages /\ UNCHANGED flm
     \/ ~flm /\ flm' = TRUE /\ UNCHANGED ble
  /\ UNCHANGED <<stage, fr, inflight>>

BleStep == BleSkip \/ BleStart \/ BleTouch \/ BleProgram \/ BleVerify \/ BleUnlinkBle \/ BleUnlinkFlm

BleNext == BleStep \/ BleGiveUp \/ BleSettle \/ BleReset \/ BleLoad

BleSpec == BleInit /\ [][BleNext]_bleVars

-------------------------------------------------------------------------------
(* A FR8016HA without a complete image, or about to lose it, can be        *)
(* repaired: both files are on the card, so that the next boot retries     *)
(* (fr8016.h: "on failure both files are kept for the next boot").         *)
BleRecoverable == (fr = Torn \/ inflight) => (ble # NoFile /\ flm)
===============================================================================
