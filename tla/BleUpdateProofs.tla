---------------------------- MODULE BleUpdateProofs ----------------------------
(***************************************************************************)
(* Proof that the promise of ble_update() keeps the FR8016HA recoverable.  *)
(* BleRecoverable is not inductive: a step that deletes a file must know   *)
(* that the flash is complete, which BleOrder says of each stage.          *)
(***************************************************************************)
EXTENDS BleUpdate, TLAPS

(* What each stage of an update has reached. *)
BleOrder ==
  /\ stage \in {"prepare", "flashing", "verified"} => ble # NoFile /\ flm
  /\ stage \in {"flashing", "verified", "orphan"} => ~inflight
  /\ stage = "verified" => fr = ble
  /\ stage = "orphan" => fr # Torn

BleInv == BleTypeOK /\ BleOrder /\ BleRecoverable

(* The initial states: the FR8016HA runs a complete image and nothing is in *)
(* progress.                                                                *)
LEMMA BleInitInv == BleInit => BleInv
  BY BleValuesAssumption
  DEF BleInit, BleInv, BleTypeOK, BleOrder, BleRecoverable, BleStages

(* Every step of ble_update(), and every way it is cut short, keeps BleInv. *)
LEMMA BleNextInv == BleInv /\ (BleNext \/ UNCHANGED bleVars) => BleInv'
<1> SUFFICES ASSUME BleInv, BleNext \/ UNCHANGED bleVars PROVE BleInv'
  OBVIOUS
<1> USE BleValuesAssumption
    DEF BleInv, BleTypeOK, BleOrder, BleRecoverable, BleStages
<1>1. CASE BleSkip BY <1>1 DEF BleSkip
<1>2. CASE BleStart BY <1>2 DEF BleStart
<1>3. CASE BleTouch BY <1>3 DEF BleTouch
<1>4. CASE BleProgram BY <1>4 DEF BleProgram
<1>5. CASE BleVerify BY <1>5 DEF BleVerify
<1>6. CASE BleUnlinkBle BY <1>6 DEF BleUnlinkBle
<1>7. CASE BleUnlinkFlm BY <1>7 DEF BleUnlinkFlm
<1>8. CASE BleGiveUp BY <1>8 DEF BleGiveUp, CutShort, StillRunning, BleActive
<1>9. CASE BleSettle BY <1>9 DEF BleSettle
<1>10. CASE BleReset BY <1>10 DEF BleReset, CutShort, StillRunning
<1>11. CASE BleLoad BY <1>11 DEF BleLoad
<1>12. CASE UNCHANGED bleVars BY <1>12 DEF bleVars
<1> QED
  BY <1>1, <1>2, <1>3, <1>4, <1>5, <1>6, <1>7, <1>8, <1>9, <1>10, <1>11, <1>12
  DEF BleNext, BleStep

(* Whatever is cut short, lost or retried, and for any set of images, a     *)
(* FR8016HA without a complete image can be repaired from the card.         *)
THEOREM BleStaysRecoverable == BleSpec => []BleRecoverable
<1>1. BleInv => BleRecoverable
  BY DEF BleInv
<1> QED
  BY BleInitInv, BleNextInv, <1>1, PTL DEF BleSpec
===============================================================================
