----------------------------- MODULE Fr8016Update ------------------------------
(***************************************************************************)
(* fr8016_update() (fr8016.c) step by step, with what it works on: the two *)
(* files, the FR8016HA's flash in pages, its core, the pins PA2/PA3 shared *)
(* by USART2 and SWD, and the open file.  It implements BleUpdate.         *)
(*                                                                         *)
(* A flash operation is a routine of the .FLM that runs on the FR8016HA.   *)
(* The call returns with its result, or with an error while the routine    *)
(* goes on alone (flm_call() gives up on a time-out or on one failed read  *)
(* of DHCSR and does not halt the core): op is that routine.               *)
(***************************************************************************)
EXTENDS Integers, FiniteSets

CONSTANTS
  BleImages, NoFile, Torn,
  Erased,          \* an erased page
  FlashPages,      \* the flash, in units of the .FLM's page_size
  PagesPerSector,  \* the .FLM's sector_size
  BleSize,         \* the size of each image, in pages (rounded up)
  MaxFaults        \* bound: faults in one behaviour

Pages == 1..FlashPages

ASSUME FrAssumption ==
  /\ FlashPages \in Nat \ {0} /\ PagesPerSector \in Nat \ {0} /\ MaxFaults \in Nat
  /\ FlashPages % PagesPerSector = 0
  /\ BleSize \in [BleImages -> Nat]
  /\ {NoFile, Torn, Erased} \cap BleImages = {}
  /\ NoFile # Torn /\ NoFile # Erased /\ Torn # Erased

VARIABLES
  pc,      \* the next call
  rc,      \* "ok", or "err" for a negative errno
  ble, flm, \* the files, see BleUpdate
  flash,   \* what each page of the FR8016HA's flash holds
  idx,     \* next sector to erase, page to program or page to verify
  pins,    \* who owns PA2/PA3: "uart", "swd", "half" or "stuck" in between
  core,    \* the FR8016HA: "app" (its firmware), "halted" or "busy" (a routine)
  op,      \* the routine left running: it turns op.pages to op.to
  opened,  \* ble.bin is open
  faults

vars == <<pc, rc, ble, flm, flash, idx, pins, core, op, opened, faults>>

BleUsable == {b \in BleImages : BleSize[b] \in Pages}

NoOp == [pages |-> {}, to |-> Erased]

(* The calls of the program, and the label it goes to when one fails. *)
OnError ==
  [loadFlm |-> "returned", enterSwd |-> "returned", attach |-> "outRestore",
   load |-> "outRestore", open |-> "outRestore", check |-> "outClose",
   init |-> "outClose", erase |-> "outUninit", program |-> "outUninit",
   verify |-> "outUninit", uninit |-> "outClose", reset |-> "outClose",
   run |-> "outClose", unlinkBle |-> "returned", unlinkFlm |-> "returned"]

Calls == DOMAIN OnError
Cleanup == {"outUninit", "outClose", "outRestore", "close"}

TypeOK ==
  /\ pc \in Calls \cup Cleanup \cup {"idle", "returned"}
  /\ rc \in {"ok", "err"}
  /\ ble \in BleImages \cup {NoFile}
  /\ flm \in BOOLEAN
  /\ flash \in [Pages -> BleImages \cup {Erased, Torn}]
  /\ idx \in Pages
  /\ pins \in {"uart", "swd", "half", "stuck"}
  /\ core \in {"app", "halted", "busy"}
  /\ op \in [pages : SUBSET Pages, to : BleImages \cup {Erased, Torn}]
  /\ opened \in BOOLEAN
  /\ faults \in 0..MaxFaults

Holds(b) == \A p \in 1..BleSize[b] : flash[p] = b

Init ==
  /\ pc = "idle" /\ rc = "ok"
  /\ ble \in BleImages \cup {NoFile}
  /\ flm \in BOOLEAN
  /\ \E b \in BleUsable :
       flash = [p \in Pages |-> IF p <= BleSize[b] THEN b ELSE Erased]
  /\ idx = 1 /\ pins = "uart" /\ core = "app" /\ op = NoOp
  /\ opened = FALSE /\ faults = 0

Fault == faults < MaxFaults /\ faults' = faults + 1

Goto(label) == pc' = label /\ UNCHANGED rc

FailTo(label) == pc' = label /\ rc' = "err"

files == <<ble, flm>>

(* The flash after a routine has worked on pages ps: finished, or cut. *)
Write(ps, x) == [p \in Pages |-> IF p \in ps THEN x ELSE flash[p]]

(* NOR flash: only an erased page takes new data. *)
Programmed(p, b) == IF flash[p] = Erased THEN b ELSE Torn

SectorPages(i) == ((i - 1) * PagesPerSector + 1)..(i * PagesPerSector)

(* Seeded fault: the last, partly used sector is not counted. *)
SectorCountFloor(b) == BleSize[b] \div PagesPerSector

SectorCount(b) == (BleSize[b] + PagesPerSector - 1) \div PagesPerSector

(* The routine that the call at pc runs on the FR8016HA. *)
Routine ==
  CASE pc = "erase"   -> [pages |-> SectorPages(idx), to |-> Erased]
    [] pc = "program" -> [pages |-> {idx}, to |-> Programmed(idx, ble)]
    [] OTHER          -> NoOp

(* The core stops; a routine that ran is finished or cut. *)
HaltCore ==
  /\ core' = "halted"
  /\ op' = NoOp
  /\ flash' \in {flash, Write(op.pages, Torn), Write(op.pages, op.to)}

-------------------------------------------------------------------------------
(* ble_update(): both files must be there. *)
Skip ==
  /\ pc = "idle"
  /\ ble # NoFile
  /\ IF flm THEN Fault ELSE UNCHANGED faults
  /\ pc' = "returned" /\ rc' = "ok"
  /\ UNCHANGED <<files, flash, idx, pins, core, op, opened>>

Start ==
  /\ pc = "idle"
  /\ ble # NoFile /\ flm
  /\ Goto("loadFlm")
  /\ UNCHANGED <<files, flash, idx, pins, core, op, opened, faults>>

LoadFlm ==
  /\ pc = "loadFlm"
  /\ Goto("enterSwd")
  /\ UNCHANGED <<files, flash, idx, pins, core, op, opened, faults>>

EnterSwd ==
  /\ pc = "enterSwd"
  /\ pins' = "swd"
  /\ Goto("attach")
  /\ UNCHANGED <<files, flash, idx, core, op, opened, faults>>

(* swd_init() fails before SWCLK is set up, or after. *)
EnterSwdFails ==
  /\ pc = "enterSwd"
  /\ Fault
  /\ pins' \in {"uart", "half"}
  /\ FailTo("returned")
  /\ UNCHANGED <<files, flash, idx, core, op, opened>>

(* Seeded fault: the attach goes without cm_halt(). *)
AttachWithoutHalt ==
  /\ pc = "attach"
  /\ Goto("load")
  /\ UNCHANGED <<files, flash, idx, pins, core, op, opened, faults>>

(* fr_attach(): the halt cuts a routine that an earlier boot left running. *)
Attach ==
  /\ pc = "attach"
  /\ HaltCore
  /\ Goto("load")
  /\ UNCHANGED <<files, idx, pins, opened, faults>>

Load ==
  /\ pc = "load"
  /\ Goto("open")
  /\ UNCHANGED <<files, flash, idx, pins, core, op, opened, faults>>

Open ==
  /\ pc = "open"
  /\ opened' = TRUE
  /\ Goto("check")
  /\ UNCHANGED <<files, flash, idx, pins, core, op, faults>>

(* Seeded fault: the size check leaves by the wrong label. *)
CheckLeavesOpen ==
  /\ pc = "check"
  /\ IF ble \in BleUsable THEN Goto("init") ELSE FailTo("outRestore")
  /\ UNCHANGED <<files, flash, idx, pins, core, op, opened, faults>>

Check ==
  /\ pc = "check"
  /\ IF ble \in BleUsable THEN Goto("init") ELSE FailTo(OnError[pc])
  /\ UNCHANGED <<files, flash, idx, pins, core, op, opened, faults>>

(* Seeded fault: sectors counted from 0. *)
FlmInitFromZero ==
  /\ pc = "init"
  /\ idx' = 0
  /\ Goto("erase")
  /\ UNCHANGED <<files, flash, pins, core, op, opened, faults>>

FlmInit ==
  /\ pc = "init"
  /\ idx' = 1
  /\ Goto("erase")
  /\ UNCHANGED <<files, flash, pins, core, op, opened, faults>>

(* fr_erase(): one sector, then the next one or the first page. *)
EraseSector ==
  /\ pc = "erase"
  /\ flash' = Write(SectorPages(idx), Erased)
  /\ IF idx >= SectorCount(ble) THEN idx' = 1 /\ Goto("program")
                                ELSE idx' = idx + 1 /\ Goto("erase")
  /\ UNCHANGED <<files, pins, core, op, opened, faults>>

(* fr_program(): one page; a bad page that the routine does not report is  *)
(* a fault.                                                                *)
ProgramPage ==
  /\ pc = "program"
  /\ \/ flash' = Write({idx}, Programmed(idx, ble)) /\ UNCHANGED faults
     \/ flash' = Write({idx}, Torn) /\ Fault
  /\ IF idx = BleSize[ble] THEN idx' = 1 /\ Goto("verify")
                           ELSE idx' = idx + 1 /\ Goto("program")
  /\ UNCHANGED <<files, pins, core, op, opened>>

(* Seeded fault: the read-back compares only the first page. *)
VerifyFirstPage ==
  /\ pc = "verify"
  /\ IF idx = 1 /\ flash[idx] # ble THEN FailTo(OnError[pc]) /\ UNCHANGED idx
     ELSE IF idx = BleSize[ble] THEN idx' = 1 /\ Goto("uninit")
     ELSE idx' = idx + 1 /\ Goto("verify")
  /\ UNCHANGED <<files, flash, pins, core, op, opened, faults>>

(* fr_verify(): one page read back through the MEM-AP and compared. *)
VerifyPage ==
  /\ pc = "verify"
  /\ IF flash[idx] # ble THEN FailTo(OnError[pc]) /\ UNCHANGED idx
     ELSE IF idx = BleSize[ble] THEN idx' = 1 /\ Goto("uninit")
     ELSE idx' = idx + 1 /\ Goto("verify")
  /\ UNCHANGED <<files, flash, pins, core, op, opened, faults>>

FlmUninit ==
  /\ pc = "uninit"
  /\ Goto("reset")
  /\ UNCHANGED <<files, flash, idx, pins, core, op, opened, faults>>

(* cm_reset() leaves the core halted at the reset vector. *)
CmReset ==
  /\ pc = "reset"
  /\ Goto("run")
  /\ UNCHANGED <<files, flash, idx, pins, core, op, opened, faults>>

CmRun ==
  /\ pc = "run"
  /\ core' = "app"
  /\ Goto("close")
  /\ UNCHANGED <<files, flash, idx, pins, op, opened, faults>>

(* The results of fs_close() and fr_restore_usart2() are ignored. *)
Restore ==
  \/ pins' = "uart" /\ UNCHANGED faults
  \/ pins' = "stuck" /\ Fault

CloseAndRestore ==
  /\ pc = "close"
  /\ opened' = FALSE
  /\ Restore
  /\ Goto("unlinkBle")
  /\ UNCHANGED <<files, flash, idx, core, op>>

UnlinkBle ==
  /\ pc = "unlinkBle"
  /\ ble' = NoFile
  /\ Goto("unlinkFlm")
  /\ UNCHANGED <<flm, flash, idx, pins, core, op, opened, faults>>

UnlinkFlm ==
  /\ pc = "unlinkFlm"
  /\ flm' = FALSE
  /\ Goto("returned")
  /\ UNCHANGED <<ble, flash, idx, pins, core, op, opened, faults>>

-------------------------------------------------------------------------------
(* A call fails and has done nothing to the flash: a file operation, a     *)
(* check, an SWD transfer before the routine started, a read-back; only a  *)
(* cm_run() that fails may have let the core go.                           *)
CallFails ==
  /\ pc \in Calls \ {"enterSwd", "attach"}
  /\ Fault
  /\ FailTo(OnError[pc])
  /\ core' \in IF pc = "run" THEN {"halted", "app"} ELSE {core}
  /\ UNCHANGED <<files, flash, idx, pins, op, opened>>

(* Before the halt, or after it: the poll of S_HALT can fail as well. *)
AttachFails ==
  /\ pc = "attach"
  /\ Fault
  /\ FailTo(OnError[pc])
  /\ UNCHANGED <<core, flash, op>> \/ HaltCore
  /\ UNCHANGED <<files, idx, pins, opened>>

(* A routine ends with R0 # 0 and its pages in any state. *)
RoutineFails ==
  /\ pc \in {"erase", "program"}
  /\ Fault
  /\ \E x \in {Torn, Routine.to} : flash' = Write(Routine.pages, x)
  /\ FailTo(OnError[pc])
  /\ UNCHANGED <<files, idx, pins, core, op, opened>>

(* The routine that the call has started goes on without its caller. *)
Detach ==
  /\ pc \in {"init", "erase", "program", "uninit"}
  /\ core' = "busy"
  /\ op' = Routine
  /\ flash' \in {flash, Write(Routine.pages, Torn)}

(* flm_call() gives up: its poll fails, or FLM_CALL_TIMEOUT_MS are over. *)
RoutineLost ==
  /\ Detach
  /\ Fault
  /\ FailTo(OnError[pc])
  /\ UNCHANGED <<files, idx, pins, opened>>

(* out_uninit: with a routine still running, flm_uninit() writes registers *)
(* of a core that is not halted, and at best waits for that routine.       *)
OutUninit ==
  /\ pc = "outUninit"
  /\ UNCHANGED <<core, flash, op>> \/ (core = "busy" /\ HaltCore)
  /\ Goto("outClose")
  /\ UNCHANGED <<files, idx, pins, opened, faults>>

OutClose ==
  /\ pc = "outClose"
  /\ opened' = FALSE
  /\ Goto("outRestore")
  /\ UNCHANGED <<files, flash, idx, pins, core, op, faults>>

OutRestore ==
  /\ pc = "outRestore"
  /\ Restore
  /\ Goto("returned")
  /\ UNCHANGED <<files, flash, idx, core, op, opened>>

fr8016_update ==
  \/ LoadFlm \/ EnterSwd \/ EnterSwdFails \/ Attach \/ Load \/ Open \/ Check
  \/ FlmInit \/ EraseSector \/ ProgramPage \/ VerifyPage \/ FlmUninit \/ CmReset
  \/ CmRun \/ CloseAndRestore \/ UnlinkBle \/ UnlinkFlm
  \/ CallFails \/ AttachFails \/ RoutineFails \/ RoutineLost
  \/ OutUninit \/ OutClose \/ OutRestore

-------------------------------------------------------------------------------
(* The world around the program *)

(* The routine that was left running reaches its BKPT. *)
RoutineEnds ==
  /\ core = "busy"
  /\ HaltCore
  /\ UNCHANGED <<pc, rc, files, idx, pins, opened, faults>>

(* A restart of the STM32 in the middle of an update is a fault; after the *)
(* return it is the next boot.                                             *)
Restart ==
  /\ pc # "idle"
  /\ IF pc = "returned" THEN UNCHANGED faults ELSE Fault
  /\ pc' = "idle" /\ rc' = "ok"
  /\ pins' = "uart"
  /\ opened' = FALSE
  /\ UNCHANGED <<files, idx>>

(* Both chips lose power: what was being erased or programmed is cut. *)
PowerCycle ==
  /\ Restart
  /\ core' = "app"
  /\ op' = NoOp
  /\ LET cut == IF op = NoOp THEN Routine ELSE op
     IN flash' \in {flash, Write(cut.pages, Torn), Write(cut.pages, cut.to)}

(* The STM32 alone restarts; the FR8016HA does not notice. *)
HostReset ==
  /\ Restart
  /\ UNCHANGED <<core, op, flash>> \/ Detach

UserLoads ==
  /\ pc = "idle"
  /\ \/ ble = NoFile /\ ble' \in BleImages /\ UNCHANGED flm
     \/ ~flm /\ flm' = TRUE /\ UNCHANGED ble
  /\ UNCHANGED <<pc, rc, flash, idx, pins, core, op, opened, faults>>

Next ==
  \/ Skip \/ Start \/ fr8016_update
  \/ RoutineEnds \/ PowerCycle \/ HostReset \/ UserLoads

Spec == Init /\ [][Next]_vars

(* The bootloader calls ble_update() at every boot that finds the files    *)
(* and there is a next boot; a routine on the FR8016HA ends.  No fault is  *)
(* fair.                                                                   *)
Good == (Start \/ fr8016_update) /\ UNCHANGED faults

Fairness ==
  /\ WF_vars(Good) /\ WF_vars(PowerCycle /\ UNCHANGED faults) /\ WF_vars(RoutineEnds)

FairSpec == Spec /\ Fairness

-------------------------------------------------------------------------------
(* The abstract update that this program implements *)

StageView ==
  IF rc = "err" THEN "failed"
  ELSE CASE pc = "idle" -> "idle"
         [] pc = "returned" -> "done"
         [] pc \in {"program", "verify"} \/ (pc = "erase" /\ idx > 1) -> "flashing"
         [] pc \in {"uninit", "reset", "run", "close", "unlinkBle"} -> "verified"
         [] pc = "unlinkFlm" -> "orphan"
         [] OTHER -> "prepare"

(* An image is in flash when all its pages are. *)
FlashView ==
  IF \E b \in BleUsable : Holds(b) THEN CHOOSE b \in BleUsable : Holds(b) ELSE Torn

Abstract ==
  INSTANCE BleUpdate WITH stage <- StageView, fr <- FlashView, inflight <- op.pages # {}

-------------------------------------------------------------------------------
(* Properties *)

(* Every step is one of BleUpdate or changes nothing there: whatever fails, *)
(* is lost, or goes on alone on the FR8016HA, the files are given up in     *)
(* order and only for a flash that holds ble.bin.                           *)
ImplementsBleUpdate == Abstract!BleSpec

(* ble.bin is deleted only while the FR8016HA runs from a flash that holds  *)
(* all of it, no routine is left running, and the pins are out of SWD.      *)
DeletedOnlyWhenRunning ==
  [][ble # NoFile /\ ble' = NoFile =>
       Holds(ble) /\ core = "app" /\ op = NoOp /\ pins # "swd"]_vars

(* fr8016_update() returns, on every path, with ble.bin closed and an       *)
(* attempt made to give PA2/PA3 back to USART2 if it took both of them.     *)
ReturnClean == pc = "returned" => ~opened /\ pins # "swd"

(* With no fault, a usable pair of files never ends in an error: the erase  *)
(* covers what the program step writes, whatever the flash held before.     *)
FaultFreeSucceeds == faults = 0 /\ rc = "err" => ble \notin BleUsable

(* A usable pair of files is installed after some number of boots.          *)
UpdateSucceeds ==
  \A b \in BleUsable : (ble = b /\ flm) ~> (ble = NoFile /\ Holds(b))

(* Said of the program, and not so: see the runs that expect a violation.   *)

(* fr8016.h: "On failure both files are kept for the next boot".            *)
BothFilesKept == pc = "returned" /\ rc = "err" => ble # NoFile /\ flm
===============================================================================
