-------------------------- MODULE Fr8016UpdateProofs ---------------------------
(***************************************************************************)
(* Proofs about fr8016_update(), for every flash, sector size, set of      *)
(* images and number of faults: it cleans up, fails only when something    *)
(* does, deletes ble.bin only when the FR8016HA runs it, and implements    *)
(* the promise of BleUpdate, so that the FR8016HA stays recoverable.       *)
(*                                                                         *)
(* The invariant has three parts beside the type: Control says which files *)
(* and pins are whose at each call, Alone what a routine may do that runs  *)
(* without its caller, and Progress how far the flash is.                  *)
(***************************************************************************)
EXTENDS Fr8016Update, TLAPS

(* Who runs, which files are there and who owns the pins at each call. *)
Control ==
  /\ pc \in (Calls \cup {"idle", "close"}) => rc = "ok"
  /\ pc \in {"outUninit", "outClose", "outRestore"} => rc = "err"
  /\ pc \in (Calls \cup {"close"}) \ {"unlinkFlm"} => ble # NoFile /\ flm
  /\ pc \in {"init", "erase", "program", "verify", "uninit", "reset", "run", "close", "unlinkBle"}
       => ble \in BleUsable
  /\ opened => pc \in (Calls \cup Cleanup) \ {"loadFlm", "enterSwd", "attach", "load", "open",
                                              "outRestore", "unlinkBle", "unlinkFlm"}
  /\ pins = "swd" => pc \in (Calls \cup Cleanup) \ {"loadFlm", "enterSwd", "unlinkBle", "unlinkFlm"}

(* The routine that runs without its caller: it works for the ble.bin that *)
(* is still there, and never once an attempt has halted the core.          *)
Alone ==
  /\ core # "busy" => op = NoOp
  /\ op.pages # {} => ble # NoFile /\ flm /\ op.to \in {ble, Erased, Torn}
  /\ pc \in {"load", "open", "check", "init", "erase", "program", "verify", "uninit", "reset", "run"}
       => core = "halted"
  /\ pc \in {"close", "unlinkBle", "unlinkFlm"} => core = "app"

ErasedTo(n) == \A p \in Pages : p <= n => flash[p] = Erased

(* How far the flash is. *)
Progress ==
  /\ pc = "erase" => idx <= SectorCount(ble) /\ ErasedTo((idx - 1) * PagesPerSector)
  /\ pc \in {"program", "verify"} => idx <= BleSize[ble]
  /\ pc = "program" =>
       /\ \A p \in Pages : idx <= p /\ p <= BleSize[ble] => flash[p] = Erased
       /\ \A p \in Pages : p < idx => flash[p] \in {ble, Torn}
       /\ faults = 0 => \A p \in Pages : p < idx => flash[p] = ble
  /\ pc = "verify" =>
       /\ \A p \in Pages : p < idx => flash[p] = ble
       /\ flash[1] \in {ble, Torn}
       /\ faults = 0 => Holds(ble)
  /\ pc \in {"uninit", "reset", "run", "close", "unlinkBle"} => Holds(ble)

IInv == TypeOK /\ Control /\ Alone /\ Progress /\ FaultFreeSucceeds

-------------------------------------------------------------------------------
(* Arithmetic of sectors *)

LEMMA DivBounds ==
  ASSUME NEW a \in Nat, NEW k \in Nat \ {0}
  PROVE  LET q == a \div k IN q \in Nat /\ k * q <= a /\ a < k * (q + 1)
OBVIOUS

(* The sectors of an image cover its pages and lie in the flash. *)
LEMMA SectorsCover ==
  ASSUME NEW b \in BleUsable
  PROVE  /\ SectorCount(b) \in Nat \ {0}
         /\ BleSize[b] \in Pages
         /\ BleSize[b] <= SectorCount(b) * PagesPerSector
         /\ SectorCount(b) * PagesPerSector <= FlashPages
         /\ SectorCount(b) <= FlashPages
<1> DEFINE s == BleSize[b]
           k == PagesPerSector
           c == SectorCount(b)
           n == FlashPages \div k
<1>1. s \in Nat \ {0} /\ s <= FlashPages /\ k \in Nat \ {0} /\ FlashPages \in Nat \ {0}
  BY FrAssumption DEF BleUsable, Pages
<1>2. c \in Nat /\ k * c <= s + k - 1 /\ s + k - 1 < k * (c + 1)
  <2>1. s + k - 1 \in Nat
    BY <1>1
  <2>2. c = (s + k - 1) \div k
    BY DEF SectorCount
  <2> HIDE DEF s, k, c
  <2> QED
    BY <1>1, <2>1, <2>2, DivBounds
<1>3. n \in Nat /\ FlashPages = k * n
  BY <1>1, FrAssumption
<1> HIDE DEF s, k, c, n
<1>4. s <= k * c /\ c # 0
  BY <1>1, <1>2
<1>5. c <= n
  <2> SUFFICES ASSUME n + 1 <= c PROVE FALSE
    BY <1>2, <1>3
  <2>1. k * (n + 1) <= k * c
    BY <1>1, <1>2, <1>3
  <2> QED
    BY <2>1, <1>1, <1>2, <1>3
<1>6. k * c <= k * n
  BY <1>1, <1>2, <1>3, <1>5
<1>7. c <= k * c
  BY <1>1, <1>2
<1> QED
  BY <1>1, <1>2, <1>3, <1>4, <1>6, <1>7 DEF s, k, c, Pages

-------------------------------------------------------------------------------
(* Routines and what they write *)

Content == BleImages \cup {Erased, Torn}

LEMMA SectorInFlash ==
  ASSUME NEW b \in BleUsable, NEW i \in Pages, i <= SectorCount(b)
  PROVE  /\ SectorPages(i) \subseteq Pages
         /\ \A p \in Pages : p \in SectorPages(i) <=>
              p <= i * PagesPerSector /\ ~(p <= (i - 1) * PagesPerSector)
         /\ 1 \in SectorPages(1)
<1> DEFINE k == PagesPerSector
           c == SectorCount(b)
<1>1. k \in Nat \ {0} /\ c \in Nat /\ c * k <= FlashPages /\ FlashPages \in Nat
  BY SectorsCover, FrAssumption
<1>2. i \in Nat \ {0} /\ i <= c
  BY DEF Pages
<1> HIDE DEF k, c
<1>3. i * k <= c * k
  BY <1>1, <1>2
<1>4. (i - 1) * k \in Nat /\ i * k \in Nat
  BY <1>1, <1>2
<1>5. SectorPages(i) = ((i - 1) * k + 1)..(i * k)
  BY DEF SectorPages, k
<1>6. SectorPages(1) = 1..k
  BY <1>1 DEF SectorPages, k
<1> QED
  BY <1>1, <1>3, <1>4, <1>5, <1>6 DEF Pages, k

LEMMA RoutineType ==
  ASSUME TypeOK, Control, Progress
  PROVE  /\ Routine \in [pages : SUBSET Pages, to : Content]
         /\ Routine.to \in {ble, Erased, Torn}
         /\ pc \notin {"erase", "program"} => Routine = NoOp
<1>1. CASE pc = "erase"
  <2>1. SectorPages(idx) \subseteq Pages
    BY <1>1, SectorInFlash DEF Control, Progress, TypeOK
  <2> QED
    BY <1>1, <2>1 DEF Routine, Content
<1>2. CASE pc = "program"
  BY <1>2, FrAssumption DEF Routine, Content, Programmed, Control, TypeOK, BleUsable
<1>3. CASE pc \notin {"erase", "program"}
  BY <1>3 DEF Routine, NoOp, Content
<1> QED
  BY <1>1, <1>2, <1>3

LEMMA WriteType ==
  ASSUME TypeOK, NEW ps, NEW x \in Content
  PROVE  /\ Write(ps, x) \in [Pages -> Content]
         /\ Write({}, x) = flash
BY DEF TypeOK, Write, Content

LEMMA HaltType ==
  ASSUME TypeOK, HaltCore
  PROVE  core' = "halted" /\ op' = NoOp /\ flash' \in [Pages -> Content]
BY WriteType DEF HaltCore, TypeOK, Content

LEMMA DetachType ==
  ASSUME TypeOK, Control, Progress, Detach
  PROVE  /\ core' = "busy" /\ op' = Routine
         /\ pc \in {"init", "erase", "program", "uninit"}
         /\ flash' \in [Pages -> Content]
BY RoutineType, WriteType DEF Detach, TypeOK, Content

-------------------------------------------------------------------------------
(* The invariant *)

LEMMA InitInv == Init => IInv
<1> SUFFICES ASSUME Init PROVE IInv
  OBVIOUS
<1>1. TypeOK
  <2>1. flash \in [Pages -> BleImages \cup {Erased, Torn}]
    BY DEF Init, BleUsable
  <2>2. 1 \in Pages /\ 0 \in 0..MaxFaults
    BY FrAssumption DEF Pages
  <2> QED
    BY <2>1, <2>2 DEF Init, TypeOK, NoOp
<1>2. Control
  BY DEF Init, Control, Calls, OnError, Cleanup
<1>3. Alone /\ Progress /\ FaultFreeSucceeds
  BY DEF Init, Alone, Progress, FaultFreeSucceeds, NoOp
<1> QED
  BY <1>1, <1>2, <1>3 DEF IInv

LEMMA TypeNext == IInv /\ [Next]_vars => TypeOK'
<1> SUFFICES ASSUME IInv, [Next]_vars PROVE TypeOK'
  OBVIOUS
<1>t. 1 \in Pages /\ (Fault => faults' \in 0..MaxFaults)
  BY FrAssumption DEF IInv, TypeOK, Fault, Pages
<1> USE <1>t DEF IInv, Goto, FailTo, files, Calls, OnError, Cleanup
<1>1. CASE Skip \/ Start \/ UserLoads
  <2>1. CASE Skip
    BY <2>1 DEF TypeOK, Skip
  <2>2. CASE Start
    BY <2>2 DEF TypeOK, Start
  <2>3. CASE UserLoads
    BY <2>3 DEF TypeOK, UserLoads
  <2> QED
    BY <1>1, <2>1, <2>2, <2>3
<1>2. CASE LoadFlm \/ EnterSwd \/ EnterSwdFails \/ Load \/ Open \/ Check
  <2>1. CASE LoadFlm
    BY <2>1 DEF TypeOK, LoadFlm
  <2>2. CASE EnterSwd
    BY <2>2 DEF TypeOK, EnterSwd
  <2>3. CASE EnterSwdFails
    BY <2>3 DEF TypeOK, EnterSwdFails
  <2>4. CASE Load
    BY <2>4 DEF TypeOK, Load
  <2>5. CASE Open
    BY <2>5 DEF TypeOK, Open
  <2>6. CASE Check
    BY <2>6 DEF TypeOK, Check
  <2> QED
    BY <1>2, <2>1, <2>2, <2>3, <2>4, <2>5, <2>6
<1>3. CASE FlmUninit \/ CmReset \/ CmRun \/ CloseAndRestore \/ UnlinkBle \/ UnlinkFlm
  <2>1. CASE FlmUninit
    BY <2>1 DEF TypeOK, FlmUninit
  <2>2. CASE CmReset
    BY <2>2 DEF TypeOK, CmReset
  <2>3. CASE CmRun
    BY <2>3 DEF TypeOK, CmRun
  <2>4. CASE CloseAndRestore
    BY <2>4 DEF TypeOK, CloseAndRestore, Restore
  <2>5. CASE UnlinkBle
    BY <2>5 DEF TypeOK, UnlinkBle
  <2>6. CASE UnlinkFlm
    BY <2>6 DEF TypeOK, UnlinkFlm
  <2> QED
    BY <1>3, <2>1, <2>2, <2>3, <2>4, <2>5, <2>6
<1>4. CASE Attach \/ RoutineEnds
  BY <1>4, HaltType DEF TypeOK, Attach, RoutineEnds, NoOp, Content
<1>5. CASE FlmInit
  BY <1>5, <1>t DEF TypeOK, FlmInit
<1>6. CASE EraseSector
  <2>1. ble \in BleUsable /\ idx <= SectorCount(ble)
    BY <1>6 DEF EraseSector, Control, Progress
  <2>2. flash' \in [Pages -> Content]
    BY <1>6, WriteType DEF EraseSector, Content
  <2>3. idx' \in Pages
    BY <1>6, <2>1, SectorsCover, FrAssumption DEF EraseSector, TypeOK, Pages
  <2> QED
    BY <1>6, <2>2, <2>3 DEF EraseSector, TypeOK, Content
<1>7. CASE ProgramPage
  <2>1. ble \in BleUsable /\ idx <= BleSize[ble] /\ BleSize[ble] \in Pages
    BY <1>7, SectorsCover DEF ProgramPage, Control, Progress
  <2>2. flash' \in [Pages -> Content]
    BY <1>7, <2>1, WriteType DEF ProgramPage, Content, Programmed, BleUsable
  <2>3. idx' \in Pages
    BY <1>7, <2>1, FrAssumption DEF ProgramPage, TypeOK, Pages
  <2>4. faults' \in 0..MaxFaults
    BY <1>7 DEF ProgramPage, TypeOK
  <2> QED
    BY <1>7, <2>2, <2>3, <2>4 DEF ProgramPage, TypeOK, Content
<1>8. CASE VerifyPage
  <2>1. ble \in BleUsable /\ idx <= BleSize[ble] /\ BleSize[ble] \in Pages
    BY <1>8, SectorsCover DEF VerifyPage, Control, Progress
  <2>2. idx' \in Pages
    BY <1>8, <2>1, FrAssumption DEF VerifyPage, TypeOK, Pages
  <2> QED
    BY <1>8, <2>2 DEF VerifyPage, TypeOK
<1>9. CASE CallFails
  BY <1>9 DEF TypeOK, CallFails
<1>10. CASE AttachFails \/ OutUninit
  BY <1>10, HaltType DEF TypeOK, AttachFails, OutUninit, NoOp, Content
<1>11. CASE RoutineFails
  <2>1. flash' \in [Pages -> Content]
    BY <1>11, RoutineType, WriteType DEF RoutineFails, Content
  <2> QED
    BY <1>11, <2>1 DEF TypeOK, RoutineFails, Content
<1>12. CASE RoutineLost
  BY <1>12, DetachType, RoutineType DEF TypeOK, RoutineLost, Content
<1>13. CASE OutClose \/ OutRestore
  BY <1>13 DEF TypeOK, OutClose, OutRestore, Restore
<1>14. CASE PowerCycle
  <2> DEFINE cut == IF op = NoOp THEN Routine ELSE op
  <2>1. cut.to \in Content
    BY RoutineType DEF TypeOK, Content
  <2>2. flash' \in [Pages -> Content]
    BY <1>14, <2>1, WriteType DEF PowerCycle, Content
  <2> QED
    BY <1>14, <2>2 DEF TypeOK, PowerCycle, Restart, NoOp, Content
<1>15. CASE HostReset
  BY <1>15, DetachType, RoutineType DEF TypeOK, HostReset, Restart, Content
<1>16. CASE UNCHANGED vars
  BY <1>16 DEF TypeOK, vars
<1> QED
  BY <1>1, <1>2, <1>3, <1>4, <1>5, <1>6, <1>7, <1>8, <1>9, <1>10, <1>11, <1>12, <1>13, <1>14,
     <1>15, <1>16 DEF Next, fr8016_update

LEMMA ControlNext == IInv /\ [Next]_vars => Control'
<1> SUFFICES ASSUME IInv, [Next]_vars PROVE Control'
  OBVIOUS
<1> USE DEF IInv, Control, Goto, FailTo, files, Calls, OnError, Cleanup
<1>1. CASE Skip \/ Start \/ UserLoads
  BY <1>1 DEF Skip, Start, UserLoads
<1>2. CASE LoadFlm \/ EnterSwd \/ EnterSwdFails \/ Load \/ Open \/ Check
  BY <1>2 DEF LoadFlm, EnterSwd, EnterSwdFails, Load, Open, Check
<1>3. CASE FlmUninit \/ CmReset \/ CmRun \/ CloseAndRestore \/ UnlinkBle \/ UnlinkFlm
  BY <1>3 DEF FlmUninit, CmReset, CmRun, CloseAndRestore, UnlinkBle, UnlinkFlm, Restore
<1>4. CASE Attach \/ AttachFails \/ RoutineEnds
  BY <1>4 DEF Attach, AttachFails, RoutineEnds
<1>5. CASE FlmInit \/ EraseSector \/ ProgramPage \/ VerifyPage
  BY <1>5 DEF FlmInit, EraseSector, ProgramPage, VerifyPage
<1>6. CASE CallFails
  BY <1>6 DEF CallFails
<1>7. CASE RoutineFails
  BY <1>7 DEF RoutineFails
<1>8. CASE RoutineLost
  BY <1>8, DetachType DEF RoutineLost
<1>9. CASE OutUninit \/ OutClose \/ OutRestore
  BY <1>9 DEF OutUninit, OutClose, OutRestore, Restore
<1>10. CASE PowerCycle \/ HostReset
  BY <1>10 DEF PowerCycle, HostReset, Restart
<1>11. CASE UNCHANGED vars
  BY <1>11 DEF vars
<1> QED
  BY <1>1, <1>2, <1>3, <1>4, <1>5, <1>6, <1>7, <1>8, <1>9, <1>10, <1>11 DEF Next, fr8016_update

LEMMA AloneNext == IInv /\ [Next]_vars => Alone'
<1> SUFFICES ASSUME IInv, [Next]_vars PROVE Alone'
  OBVIOUS
<1> USE DEF IInv, Alone, Goto, FailTo, files
<1>1. CASE Skip \/ Start \/ UserLoads
  BY <1>1 DEF Skip, Start, UserLoads
<1>2. CASE LoadFlm \/ EnterSwd \/ EnterSwdFails \/ Load \/ Open \/ Check
  BY <1>2 DEF LoadFlm, EnterSwd, EnterSwdFails, Load, Open, Check, OnError
<1>3. CASE FlmUninit \/ CmReset \/ CmRun \/ CloseAndRestore \/ UnlinkBle \/ UnlinkFlm
  BY <1>3 DEF FlmUninit, CmReset, CmRun, CloseAndRestore, UnlinkBle, UnlinkFlm, NoOp
<1>4. CASE Attach \/ RoutineEnds
  BY <1>4 DEF Attach, RoutineEnds, HaltCore, NoOp
<1>5. CASE FlmInit \/ EraseSector \/ ProgramPage \/ VerifyPage
  BY <1>5 DEF FlmInit, EraseSector, ProgramPage, VerifyPage, OnError
<1>6. CASE CallFails
  BY <1>6 DEF CallFails, OnError, Calls, NoOp
<1>7. CASE RoutineFails
  BY <1>7 DEF RoutineFails, OnError
<1>8. CASE RoutineLost
  BY <1>8, DetachType, RoutineType DEF RoutineLost, OnError, NoOp, Control, Calls
<1>9. CASE AttachFails \/ OutUninit \/ OutClose \/ OutRestore
  BY <1>9 DEF AttachFails, OutUninit, OutClose, OutRestore, HaltCore, NoOp, OnError
<1>10. CASE PowerCycle
  BY <1>10 DEF PowerCycle, Restart, NoOp
<1>11. CASE HostReset
  BY <1>11, DetachType, RoutineType DEF HostReset, Restart, NoOp, Control, Calls, OnError
<1>12. CASE UNCHANGED vars
  BY <1>12 DEF vars
<1> QED
  BY <1>1, <1>2, <1>3, <1>4, <1>5, <1>6, <1>7, <1>8, <1>9, <1>10, <1>11, <1>12
  DEF Next, fr8016_update

(* The calls at which Progress says something. *)
Working == {"erase", "program", "verify", "uninit", "reset", "run", "close", "unlinkBle"}

LEMMA ProgressNext == IInv /\ [Next]_vars => Progress'
<1> SUFFICES ASSUME IInv, [Next]_vars PROVE Progress'
  OBVIOUS
<1> USE DEF IInv, Goto, FailTo, files
<1>1. CASE pc' \notin Working
  BY <1>1 DEF Progress, Working
<1>2. CASE FlmInit
  <2>1. ble \in BleUsable /\ SectorCount(ble) \in Nat \ {0}
    BY <1>2, SectorsCover DEF FlmInit, Control
  <2>2. idx' <= SectorCount(ble') /\ ble' = ble /\ (idx' - 1) * PagesPerSector = 0
    BY <1>2, <2>1, FrAssumption DEF FlmInit, SectorCount
  <2>3. \A p \in Pages : ~(p <= (idx' - 1) * PagesPerSector)
    BY <2>2 DEF Pages
  <2> QED
    BY <1>2, <2>2, <2>3 DEF FlmInit, Progress, ErasedTo
<1>3. CASE EraseSector
  <2> DEFINE k == PagesPerSector
  <2>1. /\ ble \in BleUsable /\ ble' = ble /\ idx \in Pages /\ idx \in Nat
        /\ idx <= SectorCount(ble) /\ ErasedTo((idx - 1) * k)
        /\ SectorCount(ble) \in Nat \ {0} /\ BleSize[ble] \in Pages
        /\ BleSize[ble] <= SectorCount(ble) * k
        /\ SectorCount(ble)' = SectorCount(ble)
    BY <1>3, SectorsCover DEF EraseSector, Control, Progress, TypeOK, Pages, SectorCount
  <2>2. \A p \in Pages : p <= idx * k => flash'[p] = Erased
    <3> TAKE p \in Pages
    <3> HAVE p <= idx * k
    <3>1. p <= (idx - 1) * k => flash[p] = Erased
      BY <2>1 DEF ErasedTo
    <3>2. p \in SectorPages(idx) \/ p <= (idx - 1) * k
      BY <2>1, SectorInFlash
    <3> QED
      BY <1>3, <3>1, <3>2 DEF EraseSector, Write
  <2>3. CASE idx < SectorCount(ble)
    <3>1. idx' = idx + 1 /\ pc' = "erase"
      BY <1>3, <2>1, <2>3 DEF EraseSector
    <3>2. idx' - 1 = idx /\ idx' <= SectorCount(ble)'
      BY <2>1, <2>3, <3>1
    <3> QED
      BY <2>2, <3>1, <3>2 DEF Progress, ErasedTo
  <2>4. CASE ~(idx < SectorCount(ble))
    <3>1. idx = SectorCount(ble) /\ idx' = 1 /\ pc' = "program"
      BY <1>3, <2>1, <2>4 DEF EraseSector
    <3>2. \A p \in Pages : p <= BleSize[ble] => flash'[p] = Erased
      BY <2>1, <2>2, <3>1, FrAssumption DEF Pages
    <3> QED
      BY <2>1, <3>1, <3>2 DEF Progress, Pages
  <2> QED
    BY <2>3, <2>4
<1>4. CASE ProgramPage
  <2>1. /\ ble \in BleUsable /\ ble' = ble /\ idx \in Pages
        /\ BleSize[ble] \in Pages /\ idx <= BleSize[ble]
        /\ Programmed(idx, ble) = ble
        /\ \A p \in Pages : p < idx => flash[p] \in {ble, Torn}
        /\ \A p \in Pages : idx <= p /\ p <= BleSize[ble] => flash[p] = Erased
        /\ faults = 0 => \A p \in Pages : p < idx => flash[p] = ble
    BY <1>4, SectorsCover DEF ProgramPage, Control, Progress, TypeOK, Pages, Programmed
  <2>2. /\ \A p \in Pages : p # idx => flash'[p] = flash[p]
        /\ flash'[idx] \in {ble, Torn}
        /\ faults' = 0 => faults = 0 /\ flash'[idx] = ble
    BY <1>4, <2>1 DEF ProgramPage, Write, Fault, TypeOK
  <2>3. \A p \in Pages : p <= idx => flash'[p] \in {ble, Torn} /\ (faults' = 0 => flash'[p] = ble)
    BY <2>1, <2>2 DEF Pages
  <2>4. CASE idx = BleSize[ble]
    <3>1. idx' = 1 /\ pc' = "verify"
      BY <1>4, <2>4 DEF ProgramPage
    <3>2. 1 \in Pages /\ \A p \in 1..BleSize[ble] : p \in Pages
      BY <2>1, FrAssumption DEF Pages
    <3> QED
      BY <2>1, <2>3, <2>4, <3>1, <3>2 DEF Progress, Holds, Pages
  <2>5. CASE idx # BleSize[ble]
    <3>1. idx' = idx + 1 /\ pc' = "program"
      BY <1>4, <2>5 DEF ProgramPage
    <3> QED
      BY <2>1, <2>2, <2>3, <2>5, <3>1 DEF Progress, Pages
  <2> QED
    BY <2>4, <2>5
<1>5. CASE VerifyPage
  <2>1. /\ ble \in BleUsable /\ ble' = ble /\ idx \in Pages /\ flash' = flash
        /\ BleSize[ble] \in Pages /\ idx <= BleSize[ble] /\ faults' = faults
        /\ \A p \in Pages : p < idx => flash[p] = ble
        /\ flash[1] \in {ble, Torn} /\ (faults = 0 => Holds(ble))
    BY <1>5, SectorsCover DEF VerifyPage, Control, Progress, TypeOK
  <2>2. CASE flash[idx] # ble
    BY <1>1, <1>5, <2>2 DEF VerifyPage, OnError, Working
  <2>3. CASE flash[idx] = ble /\ idx = BleSize[ble]
    <3>1. pc' = "uninit" /\ Holds(ble)'
      BY <1>5, <2>1, <2>3, FrAssumption DEF VerifyPage, Holds, Pages
    <3> QED
      BY <2>1, <3>1 DEF Progress
  <2>4. CASE flash[idx] = ble /\ idx # BleSize[ble]
    <3>1. pc' = "verify" /\ idx' = idx + 1
      BY <1>5, <2>4 DEF VerifyPage
    <3> QED
      BY <2>1, <2>4, <3>1 DEF Progress, Holds, Pages
  <2> QED
    BY <2>2, <2>3, <2>4
<1>6. CASE FlmUninit \/ CmReset \/ CmRun \/ CloseAndRestore
  BY <1>6 DEF FlmUninit, CmReset, CmRun, CloseAndRestore, Progress, Holds
<1>7. CASE UNCHANGED vars
  BY <1>7 DEF vars, Progress, Holds, ErasedTo, SectorCount
<1>8. CASE RoutineEnds
  <2>1. pc \notin Working
    BY <1>8 DEF RoutineEnds, Alone, Working
  <2> QED
    BY <1>1, <1>8, <2>1 DEF RoutineEnds
<1>9. CASE ~(FlmInit \/ EraseSector \/ ProgramPage \/ VerifyPage \/ FlmUninit \/ CmReset
             \/ CmRun \/ CloseAndRestore \/ RoutineEnds \/ UNCHANGED vars)
  <2>1. pc' \notin Working
    <3> USE DEF Working, OnError
    <3>1. CASE Skip \/ Start \/ UserLoads \/ LoadFlm \/ EnterSwd \/ EnterSwdFails
      BY <3>1 DEF Skip, Start, UserLoads, LoadFlm, EnterSwd, EnterSwdFails
    <3>2. CASE Attach \/ Load \/ Open \/ Check \/ UnlinkBle \/ UnlinkFlm
      BY <3>2 DEF Attach, Load, Open, Check, UnlinkBle, UnlinkFlm
    <3>3. CASE CallFails \/ AttachFails \/ RoutineFails \/ RoutineLost
      BY <3>3 DEF CallFails, AttachFails, RoutineFails, RoutineLost, Detach, Calls
    <3>4. CASE OutUninit \/ OutClose \/ OutRestore \/ PowerCycle \/ HostReset
      BY <3>4 DEF OutUninit, OutClose, OutRestore, PowerCycle, HostReset, Restart
    <3> QED
      BY <1>9, <3>1, <3>2, <3>3, <3>4 DEF Next, fr8016_update
  <2> QED
    BY <1>1, <2>1
<1> QED
  BY <1>2, <1>3, <1>4, <1>5, <1>6, <1>7, <1>8, <1>9

LEMMA FaultFreeNext == IInv /\ [Next]_vars => FaultFreeSucceeds'
<1> SUFFICES ASSUME IInv, [Next]_vars, (faults = 0 /\ rc = "err")'
             PROVE  ble' \notin BleUsable
  BY DEF FaultFreeSucceeds
<1> USE DEF IInv, Goto, FailTo, files
<1>f. faults' = 0 /\ ~Fault
  BY DEF Fault, TypeOK
<1>1. CASE rc = "err" /\ ble' = ble /\ faults' = faults
  BY <1>1 DEF FaultFreeSucceeds
<1>2. CASE Check
  BY <1>2 DEF Check, Control, Calls, OnError
<1>3. CASE VerifyPage
  <2>1. rc = "ok" /\ faults = 0 /\ idx <= BleSize[ble] /\ idx \in Pages /\ ble \in BleUsable
    BY <1>3, <1>f DEF VerifyPage, Control, Calls, OnError, Progress, TypeOK
  <2>2. flash[idx] = ble
    BY <1>3, <2>1, SectorsCover DEF VerifyPage, Progress, Holds, Pages
  <2> QED
    BY <1>3, <2>1, <2>2 DEF VerifyPage
<1>4. CASE Skip \/ Start \/ LoadFlm \/ EnterSwd \/ EnterSwdFails \/ UserLoads
  BY <1>4, <1>f DEF Skip, Start, LoadFlm, EnterSwd, EnterSwdFails, UserLoads, Control, Calls, OnError
<1>5. CASE Attach \/ Load \/ Open \/ FlmInit \/ EraseSector \/ ProgramPage
  BY <1>5 DEF Attach, Load, Open, FlmInit, EraseSector, ProgramPage, Control, Calls, OnError
<1>6. CASE FlmUninit \/ CmReset \/ CmRun \/ CloseAndRestore \/ UnlinkBle \/ UnlinkFlm
  BY <1>6 DEF FlmUninit, CmReset, CmRun, CloseAndRestore, UnlinkBle, UnlinkFlm, Control, Calls, OnError
<1>7. CASE CallFails \/ AttachFails \/ RoutineFails \/ RoutineLost
  BY <1>7, <1>f DEF CallFails, AttachFails, RoutineFails, RoutineLost
<1>8. CASE OutUninit \/ OutClose \/ OutRestore
  BY <1>8, <1>1, <1>f DEF OutUninit, OutClose, OutRestore, Restore, Control
<1>9. CASE PowerCycle \/ HostReset
  BY <1>9 DEF PowerCycle, HostReset, Restart
<1>10. CASE RoutineEnds \/ UNCHANGED vars
  BY <1>10, <1>1 DEF RoutineEnds, vars
<1> QED
  BY <1>2, <1>3, <1>4, <1>5, <1>6, <1>7, <1>8, <1>9, <1>10 DEF Next, fr8016_update

LEMMA Invariant == Spec => []IInv
<1>1. IInv /\ [Next]_vars => IInv'
  BY TypeNext, ControlNext, AloneNext, ProgressNext, FaultFreeNext DEF IInv
<1> QED
  BY InitInv, <1>1, PTL DEF Spec

(* Each variable keeps to its type: sectors, pages and the pages of a lost *)
(* routine stay in the flash.                                              *)
THEOREM TypeCorrect == Spec => []TypeOK
<1>1. IInv => TypeOK
  BY DEF IInv
<1> QED
  BY Invariant, <1>1, PTL

(* No path of fr8016_update() returns with ble.bin open or, if it took both *)
(* pins, without an attempt to give them back.                             *)
THEOREM ReturnsClean == Spec => []ReturnClean
<1>1. IInv => ReturnClean
  BY DEF IInv, Control, ReturnClean, Calls, OnError, Cleanup
<1> QED
  BY Invariant, <1>1, PTL

(* Without a fault an image of a good size is never refused, whatever the   *)
(* geometry of the flash and whatever it held.                             *)
THEOREM FailsOnlyWithFaults == Spec => []FaultFreeSucceeds
<1>1. IInv => FaultFreeSucceeds
  BY DEF IInv
<1> QED
  BY Invariant, <1>1, PTL

(* ble.bin is given up only for a FR8016HA that runs all of it. *)
THEOREM DeletesOnlyRunning == Spec => DeletedOnlyWhenRunning
<1> DEFINE Deletes == ble # NoFile /\ ble' = NoFile
           Running == Holds(ble) /\ core = "app" /\ op = NoOp /\ pins # "swd"
<1>1. IInv /\ [Next]_vars => [Deletes => Running]_vars
  <2> SUFFICES ASSUME IInv, Next, Deletes PROVE Running
    OBVIOUS
  <2>1. CASE UnlinkBle
    BY <2>1 DEF UnlinkBle, IInv, Progress, Alone, Control, Calls, OnError, Cleanup
  <2>2. CASE UserLoads
    BY <2>2, FrAssumption DEF UserLoads
  <2>3. CASE ~(UnlinkBle \/ UserLoads)
    <3>1. ble' = ble
      BY <2>3 DEF Next, fr8016_update, files, Skip, Start, LoadFlm, EnterSwd, EnterSwdFails,
         Attach, Load, Open, Check, FlmInit, EraseSector, ProgramPage, VerifyPage, FlmUninit,
         CmReset, CmRun, CloseAndRestore, UnlinkFlm, CallFails, AttachFails, RoutineFails,
         RoutineLost, OutUninit, OutClose, OutRestore, RoutineEnds, PowerCycle, HostReset, Restart
    <3> QED
      BY <3>1
  <2> QED
    BY <2>1, <2>2, <2>3
<1> QED
  BY Invariant, <1>1, PTL DEF Spec, DeletedOnlyWhenRunning

-------------------------------------------------------------------------------
(* What BleUpdate sees of the flash *)

HoldsIn(f, b) == \A p \in 1..BleSize[b] : f[p] = b

ViewOf(f) ==
  IF \E b \in BleUsable : HoldsIn(f, b) THEN CHOOSE b \in BleUsable : HoldsIn(f, b) ELSE Torn

LEMMA ViewOfFlash == FlashView = ViewOf(flash) /\ FlashView' = ViewOf(flash')
BY DEF FlashView, ViewOf, Holds, HoldsIn

LEMMA ViewIs ==
  ASSUME NEW f, NEW b \in BleUsable, HoldsIn(f, b)
  PROVE  ViewOf(f) = b
<1>1. \A c \in BleUsable : 1 \in 1..BleSize[c]
  BY FrAssumption DEF BleUsable, Pages
<1>2. \A c \in BleUsable : HoldsIn(f, c) => c = b
  BY <1>1 DEF HoldsIn
<1> QED
  BY <1>2 DEF ViewOf

(* The first page tells the images apart from everything else. *)
LEMMA ViewTorn ==
  ASSUME NEW f, f[1] \notin BleUsable
  PROVE  ViewOf(f) = Torn
<1>1. \A c \in BleUsable : 1 \in 1..BleSize[c]
  BY FrAssumption DEF BleUsable, Pages
<1> QED
  BY <1>1 DEF ViewOf, HoldsIn

(* A routine leaves the view as it was, spoils it, or completes the image   *)
(* that it writes.                                                          *)
LEMMA ViewAfter ==
  ASSUME TypeOK, NEW ps, NEW x
  PROVE  LET view == ViewOf(Write(ps, x))
         IN  /\ view \in {ViewOf(flash), Torn, x}
             /\ x \in {Erased, Torn} => view \in {ViewOf(flash), Torn}
             /\ ps = {} => view = ViewOf(flash)
<1> DEFINE g == Write(ps, x)
<1>0. ps = {} => g = flash
  BY DEF Write, TypeOK
<1>1. CASE \E b \in BleUsable : HoldsIn(g, b)
  <2>1. PICK b \in BleUsable : HoldsIn(g, b)
    BY <1>1
  <2>2. ViewOf(g) = b
    BY <2>1, ViewIs
  <2>3. b \notin {Erased, Torn}
    BY FrAssumption DEF BleUsable
  <2>4. b # x => HoldsIn(flash, b)
    <3>1. \A p \in 1..BleSize[b] : p \in Pages
      BY FrAssumption DEF BleUsable, Pages
    <3> QED
      BY <2>1, <3>1 DEF HoldsIn, Write
  <2>5. b # x => ViewOf(flash) = b
    BY <2>4, ViewIs
  <2> QED
    BY <1>0, <2>2, <2>3, <2>5
<1>2. CASE ~\E b \in BleUsable : HoldsIn(g, b)
  BY <1>0, <1>2 DEF ViewOf
<1> QED
  BY <1>1, <1>2

(* The routine at pc, cut or finished. *)
LEMMA CutRoutine ==
  ASSUME TypeOK, Control, Progress,
         flash' \in {flash, Write(Routine.pages, Torn), Write(Routine.pages, Routine.to)}
  PROVE  /\ pc = "program" => FlashView' \in {FlashView, Torn, ble}
         /\ pc = "erase" => FlashView' \in {FlashView, Torn}
         /\ pc \notin {"erase", "program"} => FlashView' = FlashView
<1>1. pc = "erase" => Routine.to = Erased
  BY DEF Routine
<1>2. pc \notin {"erase", "program"} => Routine.pages = {}
  BY RoutineType DEF NoOp
<1> QED
  BY <1>1, <1>2, RoutineType, ViewAfter, ViewOfFlash

(* The routine that was left running, cut or finished. *)
LEMMA CutOp ==
  ASSUME TypeOK, Alone, flash' \in {flash, Write(op.pages, Torn), Write(op.pages, op.to)}
  PROVE  /\ op.pages # {} => FlashView' \in {FlashView, Torn, ble}
         /\ op.pages = {} => FlashView' = FlashView
BY ViewAfter, ViewOfFlash DEF Alone

-------------------------------------------------------------------------------
(* The refinement *)

Stage == StageView
View == FlashView
Lost == op.pages # {}

(* Steps that BleUpdate does not see, or sees as one of its actions. *)
LEMMA Stutters ==
  ASSUME Stage' = Stage, UNCHANGED <<files, op>>, View' = View
  PROVE  UNCHANGED Abstract!bleVars
BY DEF Abstract!bleVars, Stage, View, files

LEMMA GivesUp ==
  ASSUME Stage \in {"prepare", "flashing", "verified", "orphan"}, Stage' = "failed",
         UNCHANGED files, View' = View, Lost' \in {FALSE, Lost}
  PROVE  Abstract!BleNext
<1>1. Lost' \in BOOLEAN
  BY DEF Lost
<1> QED
  BY <1>1 DEF Abstract!BleNext, Abstract!BleGiveUp, Abstract!BleActive, Abstract!CutShort,
              Abstract!StillRunning, Stage, View, Lost, files

LEMMA Settles ==
  ASSUME TypeOK, Alone, HaltCore, Stage' = Stage, UNCHANGED files
  PROVE  Abstract!BleNext \/ UNCHANGED Abstract!bleVars
<1>1. op' = NoOp
  BY DEF HaltCore
<1>2. CASE Lost
  <2>1. FlashView' \in {FlashView, Torn, ble}
    BY <1>2, CutOp DEF HaltCore, Lost
  <2> QED
    BY <1>1, <1>2, <2>1 DEF Abstract!BleNext, Abstract!BleSettle, Stage, Lost, files, NoOp
<1>3. CASE ~Lost
  <2>1. FlashView' = FlashView
    BY <1>3, CutOp DEF HaltCore, Lost
  <2> QED
    BY <1>1, <1>3, <2>1 DEF Abstract!bleVars, Stage, Lost, files, NoOp
<1> QED
  BY <1>2, <1>3

LEMMA StepImplements ==
  ASSUME IInv, IInv', [Next]_vars
  PROVE  Abstract!BleNext \/ UNCHANGED Abstract!bleVars
<1> USE DEF IInv, Goto, FailTo
<1>q. flash' = flash => View' = View
  BY ViewOfFlash DEF View
<1>l. op' = op => Lost' = Lost
  BY DEF Lost
<1>1. CASE Skip \/ Start \/ UserLoads
  <2>1. Stage = "idle" /\ View' = View /\ op' = op
    BY <1>1, <1>q DEF Skip, Start, UserLoads, Stage, StageView, Control
  <2>2. CASE Skip
    BY <2>1, <2>2 DEF Skip, Stage, StageView, View, files, Abstract!BleNext, Abstract!BleStep, Abstract!BleSkip
  <2>3. CASE Start
    BY <2>1, <2>3 DEF Start, Stage, StageView, View, files, Control, Calls, OnError,
       Abstract!BleNext, Abstract!BleStep, Abstract!BleStart
  <2>4. CASE UserLoads
    <3>1. Stage' = "idle"
      BY <2>1, <2>4 DEF UserLoads, Stage, StageView
    <3> QED
      BY <2>1, <2>4, <3>1 DEF UserLoads, Stage, View, Abstract!BleNext, Abstract!BleLoad
  <2> QED
    BY <1>1, <2>2, <2>3, <2>4
<1>2. CASE LoadFlm \/ EnterSwd \/ Load \/ Open \/ FlmInit \/ (Check /\ rc' = "ok")
  <2>1. Stage = "prepare" /\ Stage' = "prepare"
    BY <1>2 DEF LoadFlm, EnterSwd, Load, Open, FlmInit, Check, Stage, StageView, Control, Calls, OnError
  <2>2. UNCHANGED <<files, op, flash>>
    BY <1>2 DEF LoadFlm, EnterSwd, Load, Open, FlmInit, Check
  <2> QED
    BY <1>q, <2>1, <2>2, Stutters
<1>3. CASE EnterSwdFails \/ (Check /\ rc' = "err") \/ CallFails \/ (VerifyPage /\ rc' = "err")
  <2>1. Stage \in {"prepare", "flashing", "verified", "orphan"}
    BY <1>3 DEF EnterSwdFails, Check, CallFails, VerifyPage, Stage, StageView, Control, Calls, OnError
  <2>2. Stage' = "failed" /\ UNCHANGED <<files, op, flash>>
    BY <1>3 DEF EnterSwdFails, Check, CallFails, VerifyPage, Stage, StageView, Calls, OnError
  <2> QED
    BY <1>q, <1>l, <2>1, <2>2, GivesUp
<1>4. CASE Attach \/ RoutineEnds \/ (OutUninit /\ HaltCore)
  <2>1. Stage' = Stage /\ UNCHANGED files /\ HaltCore
    BY <1>4 DEF Attach, RoutineEnds, OutUninit, Stage, StageView, Control, Calls, OnError
  <2> QED
    BY <2>1, Settles
<1>5. CASE AttachFails
  <2>1. Stage = "prepare" /\ Stage' = "failed" /\ UNCHANGED files
    BY <1>5 DEF AttachFails, Stage, StageView, Control, Calls, OnError
  <2>2. CASE UNCHANGED <<core, flash, op>>
    BY <1>q, <1>l, <2>1, <2>2, GivesUp
  <2>3. CASE HaltCore
    <3>1. ~Lost' /\ ((View' \in {View, Torn, ble} /\ Lost) \/ View' = View)
      BY <2>3, CutOp DEF HaltCore, NoOp, Lost, View
    <3> QED
      BY <2>1, <3>1 DEF Stage, View, Lost, files, Abstract!BleNext, Abstract!BleGiveUp,
         Abstract!BleActive, Abstract!CutShort, Abstract!StillRunning
  <2> QED
    BY <1>5, <2>2, <2>3 DEF AttachFails
<1>6. CASE EraseSector
  <2> DEFINE k == PagesPerSector
  <2>1. /\ ble \in BleUsable /\ ble # NoFile /\ op = NoOp /\ op' = op /\ UNCHANGED files
        /\ idx \in Pages /\ rc = "ok" /\ rc' = "ok" /\ idx <= SectorCount(ble)
        /\ k \in Nat \ {0} /\ 1 \in Pages
        /\ flash' = Write(SectorPages(idx), Erased)
    BY <1>6, FrAssumption DEF EraseSector, Control, Alone, Progress, Calls, OnError, TypeOK, Pages
  <2>2. idx > 1 => flash[1] = Erased
    <3>1. idx > 1 => 1 <= (idx - 1) * k
      BY <2>1 DEF Pages
    <3> QED
      BY <1>6, <2>1, <3>1 DEF EraseSector, Progress, ErasedTo
  <2>3. flash'[1] = Erased
    BY <2>1, <2>2, SectorInFlash DEF Write, Pages
  <2>4. View' = Torn /\ (idx > 1 => View = Torn)
    BY <2>2, <2>3, ViewTorn, ViewOfFlash, FrAssumption DEF View, BleUsable
  <2>5. Stage' = "flashing" /\ Stage = IF idx > 1 THEN "flashing" ELSE "prepare"
    BY <1>6, <2>1 DEF EraseSector, Stage, StageView, Pages
  <2>6. CASE idx > 1
    BY <2>1, <2>4, <2>5, <2>6, Stutters
  <2>7. CASE ~(idx > 1)
    BY <2>1, <2>4, <2>5, <2>7 DEF Stage, View, files, NoOp, Abstract!BleNext, Abstract!BleStep, Abstract!BleTouch
  <2> QED
    BY <2>6, <2>7
<1>7. CASE ProgramPage
  <2>1. /\ ble \in BleUsable /\ UNCHANGED files /\ op' = op /\ Stage = "flashing" /\ Stage' = "flashing"
        /\ idx \in 1..BleSize[ble] /\ flash[idx] = Erased /\ 1 \in Pages
    BY <1>7, FrAssumption DEF ProgramPage, Control, Progress, TypeOK, Pages, Stage, StageView, Calls, OnError, BleUsable
  <2>2. View = Torn
    <3>1. ~HoldsIn(flash, ble)
      BY <2>1, FrAssumption DEF HoldsIn, BleUsable
    <3>2. flash[1] \in {ble, Torn, Erased}
      BY <1>7, <2>1 DEF ProgramPage, Progress, Pages
    <3>3. CASE flash[1] = ble
      <4>1. \A b \in BleUsable : 1 \in 1..BleSize[b]
        BY FrAssumption DEF BleUsable, Pages
      <4> QED
        BY <3>1, <3>3, <4>1, ViewOfFlash DEF View, ViewOf, HoldsIn
    <3>4. CASE flash[1] # ble
      BY <3>2, <3>4, ViewTorn, ViewOfFlash, FrAssumption DEF View, BleUsable
    <3> QED
      BY <3>3, <3>4
  <2>3. View' \in {Torn, ble}
    <3>1. Programmed(idx, ble) \in {ble, Torn}
      BY DEF Programmed
    <3> QED
      BY <1>7, <2>2, <3>1, ViewAfter, ViewOfFlash DEF ProgramPage, View
  <2>4. CASE View' = Torn
    BY <2>1, <2>2, <2>4, Stutters
  <2>5. CASE View' = ble
    BY <2>1, <2>2, <2>5, FrAssumption
    DEF Stage, View, files, BleUsable, Abstract!BleNext, Abstract!BleStep, Abstract!BleProgram
  <2> QED
    BY <2>3, <2>4, <2>5
<1>8. CASE VerifyPage /\ rc' = "ok"
  <2>1. Stage = "flashing" /\ Stage' \in {"flashing", "verified"} /\ UNCHANGED <<files, op, flash>>
    BY <1>8 DEF VerifyPage, Control, Stage, StageView, Calls, OnError
  <2>2. CASE Stage' = "flashing"
    BY <1>q, <2>1, <2>2, Stutters
  <2>3. CASE Stage' = "verified"
    <3>1. pc' = "uninit" /\ ble \in BleUsable
      BY <1>8, <2>3 DEF VerifyPage, Stage, StageView, Control
    <3>2. HoldsIn(flash, ble)
      BY <2>1, <3>1 DEF Progress, Holds, HoldsIn, files
    <3>3. View = ble
      BY <3>1, <3>2, ViewIs, ViewOfFlash DEF View
    <3> QED
      BY <1>q, <2>1, <2>3, <3>3 DEF Stage, View, files, Abstract!BleNext, Abstract!BleStep, Abstract!BleVerify
  <2> QED
    BY <2>1, <2>2, <2>3
<1>9. CASE FlmUninit \/ CmReset \/ CmRun \/ CloseAndRestore
  <2>1. Stage = "verified" /\ Stage' = "verified" /\ UNCHANGED <<files, op, flash>>
    BY <1>9 DEF FlmUninit, CmReset, CmRun, CloseAndRestore, Stage, StageView, Control, Calls, OnError
  <2> QED
    BY <1>q, <2>1, Stutters
<1>10. CASE UnlinkBle
  BY <1>q, <1>10 DEF UnlinkBle, Stage, StageView, View, Control, Calls, OnError,
     Abstract!BleNext, Abstract!BleStep, Abstract!BleUnlinkBle
<1>11. CASE UnlinkFlm
  BY <1>q, <1>11 DEF UnlinkFlm, Stage, StageView, View, Control, Calls, OnError,
     Abstract!BleNext, Abstract!BleStep, Abstract!BleUnlinkFlm
<1>12. CASE RoutineFails \/ RoutineLost
  <2>1. /\ Stage \in {"prepare", "flashing", "verified"} /\ Stage' = "failed" /\ UNCHANGED files
        /\ pc = "program" => Stage = "flashing"
        /\ pc = "erase" => Stage \in {"prepare", "flashing"}
        /\ pc = "init" => Stage = "prepare"
        /\ pc \in {"init", "erase", "program", "uninit"}
    BY <1>12 DEF RoutineFails, RoutineLost, Detach, Stage, StageView, Control, Calls, OnError
  <2>2. /\ pc = "program" => View' \in {View, Torn, ble}
        /\ pc = "erase" => View' \in {View, Torn}
        /\ pc \notin {"erase", "program"} => View' = View
    BY <1>12, CutRoutine DEF RoutineFails, RoutineLost, Detach, View
  <2>3. Lost' \in BOOLEAN /\ (pc = "uninit" => ~Lost')
    BY <1>12, <2>1, RoutineType DEF RoutineFails, RoutineLost, Detach, Lost, NoOp
  <2> QED
    BY <2>1, <2>2, <2>3 DEF Stage, View, Lost, files, Abstract!BleNext, Abstract!BleGiveUp,
       Abstract!BleActive, Abstract!CutShort, Abstract!StillRunning
<1>13. CASE OutClose \/ OutRestore \/ (OutUninit /\ UNCHANGED <<core, flash, op>>)
  <2>1. Stage = "failed" /\ Stage' = "failed" /\ UNCHANGED <<files, op, flash>>
    BY <1>13 DEF OutClose, OutRestore, OutUninit, Stage, StageView, Control
  <2> QED
    BY <1>q, <2>1, Stutters
<1>14. CASE PowerCycle \/ HostReset
  <2>1. /\ Stage' = "idle" /\ UNCHANGED files
        /\ pc = "program" => Stage = "flashing"
        /\ pc = "erase" => Stage \in {"prepare", "flashing"}
        /\ pc = "init" => Stage = "prepare"
    BY <1>14 DEF PowerCycle, HostReset, Restart, Stage, StageView, Control, Calls, OnError
  <2>2. \/ /\ pc = "program" => View' \in {View, Torn, ble}
           /\ pc = "erase" => View' \in {View, Torn}
           /\ pc \notin {"erase", "program"} => View' = View
        \/ Lost /\ View' \in {View, Torn, ble}
        \/ View' = View
    BY <1>14, <1>q, CutRoutine, CutOp DEF PowerCycle, HostReset, Detach, View, Lost
  <2>3. Lost' \in {FALSE, Lost} \/ pc \in {"init", "erase", "program"}
    <3>1. CASE PowerCycle
      BY <3>1 DEF PowerCycle, Lost, NoOp
    <3>2. CASE HostReset /\ UNCHANGED <<core, op, flash>>
      BY <1>l, <3>2
    <3>3. CASE HostReset /\ Detach
      <4>1. /\ op' = Routine
            /\ pc \in {"init", "erase", "program", "uninit"}
        BY <3>3, DetachType
      <4>2. pc = "uninit" => op'.pages = {}
        BY <4>1, RoutineType DEF NoOp
      <4>3. pc = "uninit" => Lost' = FALSE
        BY <4>2 DEF Lost
      <4> QED
        BY <4>1, <4>3
    <3> QED
      BY <1>14, <3>1, <3>2, <3>3 DEF HostReset
  <2>4. Lost' \in BOOLEAN
    BY DEF Lost
  <2> QED
    BY <2>1, <2>2, <2>3, <2>4 DEF Stage, View, Lost, files, Abstract!BleNext, Abstract!BleReset,
       Abstract!CutShort, Abstract!StillRunning
<1>15. CASE UNCHANGED vars
  BY <1>q, <1>15, Stutters DEF vars, Stage, StageView, files
<1> QED
  <2>1. Check \/ VerifyPage => rc' \in {"ok", "err"}
    BY DEF TypeOK
  <2> QED
    BY <2>1, <1>1, <1>2, <1>3, <1>4, <1>5, <1>6, <1>7, <1>8, <1>9, <1>10, <1>11, <1>12, <1>13,
       <1>14, <1>15 DEF Next, fr8016_update, OutUninit

(* fr8016_update() with all its failures, lost routines and restarts does   *)
(* nothing that the promise of BleUpdate, on which Bootloader builds, does  *)
(* not allow.                                                               *)
THEOREM ImplementsPromise == Spec => ImplementsBleUpdate
<1>1. Init => Abstract!BleInit
  <2> SUFFICES ASSUME Init PROVE Abstract!BleInit
    OBVIOUS
  <2>1. PICK b \in BleUsable : flash = [p \in Pages |-> IF p <= BleSize[b] THEN b ELSE Erased]
    BY DEF Init
  <2>2. HoldsIn(flash, b)
    BY <2>1, FrAssumption DEF HoldsIn, BleUsable, Pages
  <2>3. FlashView \in BleUsable
    BY <2>2, ViewIs, ViewOfFlash
  <2> QED
    BY <2>3 DEF Init, Abstract!BleInit, StageView, NoOp
<1>2. IInv /\ IInv' /\ [Next]_vars => [Abstract!BleNext]_(Abstract!bleVars)
  BY StepImplements
<1> QED
  BY <1>1, <1>2, Invariant, PTL DEF Spec, ImplementsBleUpdate, Abstract!BleSpec

-------------------------------------------------------------------------------
(* What the promise is worth *)

(* What each stage has reached, in terms of the promise. *)
Promised ==
  /\ Stage \in {"prepare", "flashing", "verified"} => ble # NoFile /\ flm
  /\ Stage \in {"flashing", "verified", "orphan"} => ~Lost
  /\ Stage = "verified" => View = ble
  /\ Stage = "orphan" => View # Torn
  /\ Abstract!BleRecoverable

LEMMA PromisedNext ==
  ASSUME TypeOK, Promised, Abstract!BleNext \/ UNCHANGED Abstract!bleVars
  PROVE  Promised'
<1> USE DEF Promised, Abstract!BleRecoverable, Stage, View, Lost
<1>1. ble # Torn
  BY FrAssumption DEF TypeOK
<1>2. CASE Abstract!BleStep
  BY <1>1, <1>2 DEF Abstract!BleStep, Abstract!BleSkip, Abstract!BleStart, Abstract!BleTouch,
     Abstract!BleProgram, Abstract!BleVerify, Abstract!BleUnlinkBle, Abstract!BleUnlinkFlm
<1>3. CASE Abstract!BleGiveUp
  BY <1>3 DEF Abstract!BleGiveUp, Abstract!CutShort, Abstract!StillRunning, Abstract!BleActive
<1>4. CASE Abstract!BleSettle
  BY <1>4 DEF Abstract!BleSettle
<1>5. CASE Abstract!BleReset
  BY <1>5 DEF Abstract!BleReset, Abstract!CutShort, Abstract!StillRunning
<1>6. CASE Abstract!BleLoad
  BY <1>6, FrAssumption DEF Abstract!BleLoad
<1>7. CASE UNCHANGED Abstract!bleVars
  BY <1>7 DEF Abstract!bleVars
<1> QED
  BY <1>2, <1>3, <1>4, <1>5, <1>6, <1>7 DEF Abstract!BleNext

(* A FR8016HA whose flash is not complete, or about to be changed by a lost *)
(* routine, has both files still on the card for the next boot.            *)
THEOREM StaysRecoverable == Spec => []Abstract!BleRecoverable
<1>1. Abstract!BleInit => Promised
  BY FrAssumption DEF Abstract!BleInit, Promised, Abstract!BleRecoverable, Stage, View, Lost, BleUsable
<1>2. Promised /\ IInv /\ [Abstract!BleNext]_(Abstract!bleVars) => Promised'
  BY PromisedNext DEF IInv
<1>3. Promised => Abstract!BleRecoverable
  BY DEF Promised
<1> QED
  BY <1>1, <1>2, <1>3, Invariant, ImplementsPromise, PTL DEF ImplementsBleUpdate, Abstract!BleSpec
===============================================================================
