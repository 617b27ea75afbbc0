------------------------------ MODULE FlmRuntime ------------------------------
(***************************************************************************)
(* How one update runs the routines of the .FLM on the FR8016HA: attach    *)
(* and halt, load, then for each routine set the core's registers, resume, *)
(* poll for the BKPT halt and read R0 (flm.c), and at the end the          *)
(* reset-and-run handshake (cortexm.c), all over memory accesses that can  *)
(* fail, or be lost without a word (dap.c, swd.c).                         *)
(*                                                                         *)
(* Two processors step independently: the STM32, whose next access is pc,  *)
(* and the core of the FR8016HA, which halts, resets and ends routines in  *)
(* its own time.  Polls read what the core shows at that moment.           *)
(***************************************************************************)
EXTENDS Integers, Sequences, SequencesExt

CONSTANTS
  Calls,       \* the routines of one update in order: "init", ..., "uninit"
  MaxFaults    \* bound: failing or lost accesses, failing routines, restarts

ASSUME CallsAssumption ==
  /\ Calls \in Seq({"init", "erase", "program", "uninit"})
  /\ Len(Calls) > 1
  /\ \A c \in DOMAIN Calls :
       (Calls[c] = "init" <=> c = 1) /\ (Calls[c] = "uninit" <=> c = Len(Calls))
  /\ MaxFaults \in Nat

CallIds == DOMAIN Calls

VARIABLES
  pc,      \* the next access of the STM32
  rc,      \* fr8016_update(): "ok", or "err" once a call has failed
  call,    \* the routine that flm_run() is at
  ret,     \* what the last flm_run() returned
  wr,      \* the next register that flm_call() writes
  core,    \* "app" (the firmware of the FR8016HA), "routine" or "halted"
  regs,    \* for which call each register is set
  r0,      \* R0 of a halted core: <<the call it is the result of, it is 0>>
  chalt,   \* DHCSR.C_HALT
  vc,      \* DEMCR.VC_CORERESET
  pending, \* a system reset is requested and has not happened yet
  ram,     \* the work area: "other", "partial", or "flm" (code, data, BKPT)
  buf,     \* for which call the page buffer is filled, 0 for none
  sticky,  \* a sticky error of the DP: every access answers FAULT
  ran,     \* history: the calls whose routine ran and succeeded in this
           \* attach; 0 for a run on registers that are not all of one call
  faults

host == <<pc, rc, call, ret, wr>>
target == <<core, regs, r0, chalt, vc, pending, ran>>
memory == <<ram, buf>>
vars == <<host, target, memory, sticky, faults>>

RegOrder == <<"R9", "SP", "LR", "R0", "R1", "R2", "R3", "PC">>
RegNames == Range(RegOrder)

(* Values that are not of a call.  PC can be in code that a halt has        *)
(* interrupted, at the BKPT stub, or at the reset vector.                  *)
other == 0
stub == -1
vector == -2

Attaching == {"attach", "haltWrite", "haltWait", "load"}
Between == {"buffer", "verify"}
Calling == Between \cup {"regs", "resume", "poll", "result", "flm"}
Resetting == {"vcSet", "resetHalt", "resetHaltWait", "resetReq", "resetWait",
              "vcClear", "runWrite", "runWait"}

TypeOK ==
  /\ pc \in Attaching \cup Calling \cup Resetting \cup {"off", "returned"}
  /\ rc \in {"ok", "err"} /\ ret \in {"ok", "err"}
  /\ call \in CallIds /\ wr \in DOMAIN RegOrder
  /\ core \in {"app", "routine", "halted"}
  /\ regs \in [RegNames -> CallIds \cup {other, stub, vector}]
  /\ r0 \in (CallIds \cup {0}) \X BOOLEAN
  /\ chalt \in BOOLEAN /\ vc \in BOOLEAN /\ pending \in BOOLEAN
  /\ ram \in {"other", "partial", "flm"} /\ buf \in CallIds \cup {0}
  /\ sticky \in BOOLEAN
  /\ ran \in Seq(CallIds \cup {0})
  /\ faults \in 0..MaxFaults

Init ==
  /\ pc = "off" /\ rc = "ok" /\ call = 1 /\ ret = "ok" /\ wr = 1
  /\ core = "app" /\ regs = [r \in RegNames |-> other] /\ r0 \in {0} \X BOOLEAN
  /\ chalt = FALSE /\ vc = FALSE /\ pending = FALSE
  /\ ram = "other" /\ buf = 0 /\ sticky = FALSE /\ ran = <<>> /\ faults = 0

Fault == faults < MaxFaults /\ faults' = faults + 1

-------------------------------------------------------------------------------
(* One access through the MEM-AP, and what the caller does when it fails.  *)

Goto(label) == pc' = label /\ UNCHANGED <<rc, call, ret, wr>>

(* fr8016_update(): before flm_init() and after UnInit an error returns.   *)
(* In a call it becomes the result of flm_run(), and between two calls it  *)
(* goes to out_uninit.                                                     *)
AccessError ==
  IF pc \in Calling \ Between
  THEN pc' = "flm" /\ ret' = "err" /\ UNCHANGED <<rc, call, wr>>
  ELSE IF pc \in Between
  THEN pc' = "regs" /\ rc' = "err" /\ call' = Len(Calls) /\ wr' = 1 /\ UNCHANGED ret
  ELSE pc' = "returned" /\ rc' = "err" /\ UNCHANGED <<call, ret, wr>>

Sends == (Attaching \cup Calling \cup Resetting) \ {"flm"}

(* No valid ACK, bad parity of the answer: a single access that is not     *)
(* carried out.  Or a bus error, which also sets STICKYERR.                *)
AccessFails ==
  /\ pc \in Sends
  /\ Fault
  /\ AccessError
  /\ sticky' \in {sticky, TRUE}
  /\ UNCHANGED <<target, buf>>
  /\ IF pc = "load" THEN ram' = "partial" ELSE UNCHANGED ram

(* A sticky error is set: FAULT, for DP writes as well as AP accesses, and *)
(* nothing in the update path calls cm_clear_errors().                     *)
AccessFaults ==
  /\ pc \in Sends
  /\ sticky
  /\ AccessError
  /\ UNCHANGED <<target, memory, sticky, faults>>

(* A write that the host takes for done is not: its data phase had a bad   *)
(* parity or its bus access an error, and the DP keeps that for the next.  *)
WriteDropped(next) ==
  /\ Fault
  /\ sticky' = TRUE
  /\ Goto(next)
  /\ UNCHANGED <<target, memory>>

(* DHCSR with C_HALT clear: a halted core goes on where its PC is; at the  *)
(* stub it meets the BKPT again at once.                                   *)
Resume ==
  /\ chalt' = (core = "halted" /\ regs["PC"] = stub)
  /\ core' = IF core # "halted" THEN core
             ELSE IF regs["PC"] \in CallIds THEN "routine"
             ELSE IF regs["PC"] = stub THEN "halted" ELSE "app"
  /\ UNCHANGED <<regs, r0, vc, pending, ran>>

WriteDhcsrRun(next) ==
  \/ Resume /\ Goto(next) /\ UNCHANGED <<memory, sticky, faults>>
  \/ WriteDropped(next)

WriteDhcsrHalt(next) ==
  \/ /\ chalt' = TRUE /\ Goto(next)
     /\ UNCHANGED <<core, regs, r0, vc, pending, ran, memory, sticky, faults>>
  \/ WriteDropped(next)

(* cm_wait_dhcsr() on S_HALT *)
WaitHalted(next) ==
  /\ core = "halted"
  /\ Goto(next)
  /\ UNCHANGED <<target, memory, sticky, faults>>

-------------------------------------------------------------------------------
(* fr_attach() and flm_load() *)

(* fr8016_update() starts; the last boot's reset request is long served.   *)
Begin ==
  /\ pc = "off"
  /\ ~pending
  /\ pc' = "attach" /\ rc' = "ok" /\ call' = 1
  /\ UNCHANGED <<ret, wr, target, memory, sticky, faults>>

(* swd_line_reset() and dap_init(): neither clears a sticky error. *)
Attach ==
  /\ pc = "attach" /\ ~sticky
  /\ Goto("haltWrite")
  /\ UNCHANGED <<target, memory, sticky, faults>>

(* Seeded fault: the attach waits for a halt that nobody asked for. *)
HaltForgotten ==
  /\ pc = "haltWrite" /\ ~sticky
  /\ Goto("haltWait")
  /\ UNCHANGED <<target, memory, sticky, faults>>

HaltWrite == pc = "haltWrite" /\ ~sticky /\ WriteDhcsrHalt("haltWait")

(* Seeded fault: cm_halt() does not wait for S_HALT. *)
HaltNotAwaited ==
  /\ pc = "haltWait" /\ ~sticky
  /\ Goto("load")
  /\ UNCHANGED <<target, memory, sticky, faults>>

HaltWait == pc = "haltWait" /\ ~sticky /\ WaitHalted("load")

(* Code, data and the BKPT stub are copied; flm_load() then halts again,   *)
(* which changes nothing in a core that is halted.                         *)
Load ==
  /\ pc = "load" /\ ~sticky
  /\ ram' = "flm" /\ buf' = 0
  /\ pc' = "regs" /\ call' = 1 /\ wr' = 1
  /\ ran' = <<>>
  /\ UNCHANGED <<rc, ret, core, regs, r0, chalt, vc, pending, sticky, faults>>

-------------------------------------------------------------------------------
(* flm_call() *)

(* fr_program(): the page goes to the buffer before flm_program_page(); its *)
(* last write can be the one that is dropped.                              *)
FillBuffer ==
  /\ pc = "buffer" /\ ~sticky
  /\ \/ buf' = call /\ UNCHANGED <<sticky, faults>>
     \/ UNCHANGED buf /\ sticky' = TRUE /\ Fault
  /\ pc' = "regs" /\ wr' = 1
  /\ UNCHANGED <<rc, call, ret, target, ram>>

(* Seeded fault: one register too many. *)
NextRegPastEnd ==
  IF wr > Len(RegOrder) THEN Goto("resume")
                        ELSE wr' = wr + 1 /\ UNCHANGED <<pc, rc, call, ret>>

NextReg ==
  IF wr = Len(RegOrder) THEN Goto("resume")
                        ELSE wr' = wr + 1 /\ UNCHANGED <<pc, rc, call, ret>>

(* cm_write_reg(): DCRDR, DCRSR, wait for S_REGRDY.  The registers of a    *)
(* core that runs do not change, and S_REGRDY then says nothing: the wait  *)
(* ends or times out.                                                      *)
WriteReg ==
  /\ pc = "regs" /\ ~sticky
  /\ IF core = "halted"
     THEN regs' = [regs EXCEPT ![RegOrder[wr]] = call] /\ NextReg
     ELSE UNCHANGED regs /\ (NextReg \/ AccessError)
  /\ UNCHANGED <<core, r0, chalt, vc, pending, ran, memory, sticky, faults>>

(* The access fails after the register took its value. *)
WriteRegUnconfirmed ==
  /\ pc = "regs" /\ ~sticky
  /\ core = "halted"
  /\ Fault
  /\ regs' = [regs EXCEPT ![RegOrder[wr]] = call]
  /\ AccessError
  /\ sticky' \in BOOLEAN
  /\ UNCHANGED <<core, r0, chalt, vc, pending, ran, memory>>

(* Seeded fault: the result is awaited without cm_resume(). *)
ResumeForgotten ==
  /\ pc = "resume" /\ ~sticky
  /\ Goto("poll")
  /\ UNCHANGED <<target, memory, sticky, faults>>

ResumeCore == pc = "resume" /\ ~sticky /\ WriteDhcsrRun("poll")

(* cm_is_halted() *)
Poll == pc = "poll" /\ ~sticky /\ WaitHalted("result")

(* FLM_CALL_TIMEOUT_MS are over, or the poll of S_HALT in a halt or a run: *)
(* too late for a core that would still have got there.                    *)
PollTimesOut ==
  /\ pc \in {"haltWait", "poll", "resetHaltWait", "resetWait", "runWait"}
  /\ ~sticky
  /\ core # "halted" \/ pc = "runWait"
  /\ Fault
  /\ AccessError
  /\ UNCHANGED <<target, memory, sticky>>

(* R0 is read, and flm_run() maps a result that is not 0 to -EIO. *)
ReadResult ==
  /\ pc = "result" /\ ~sticky
  /\ IF core = "halted" THEN ret' = IF r0[2] THEN "ok" ELSE "err"
                        ELSE ret' \in {"ok", "err"}
  /\ pc' = "flm"
  /\ UNCHANGED <<rc, call, wr, target, memory, sticky, faults>>

(* fr8016_update() takes the result: the next routine, fr_verify() after   *)
(* the last program or, after UnInit, cm_reset(); an error in an erase or  *)
(* a program goes to out_uninit, whose result nobody looks at.             *)
FlmReturns ==
  /\ pc = "flm"
  /\ IF rc = "err" \/ (ret = "err" /\ call \in {1, Len(Calls)})
     THEN pc' = "returned" /\ rc' = "err" /\ UNCHANGED <<call, wr>>
     ELSE IF ret = "err"
     THEN pc' = "regs" /\ rc' = "err" /\ call' = Len(Calls) /\ wr' = 1
     ELSE IF call = Len(Calls)
     THEN Goto("vcSet")
     ELSE /\ pc' = CASE Calls[call + 1] = "program" -> "buffer"
                     [] Calls[call + 1] = "uninit"  -> "verify"
                     [] OTHER                       -> "regs"
          /\ call' = call + 1 /\ wr' = 1 /\ UNCHANGED rc
  /\ UNCHANGED <<ret, target, memory, sticky, faults>>

(* fr_verify(): the flash is read back through the MEM-AP, and holds what   *)
(* the file does; or the file cannot be read again, or there is a mismatch. *)
Verify ==
  /\ pc = "verify" /\ ~sticky
  /\ \/ Goto("regs") /\ UNCHANGED faults
     \/ AccessError /\ Fault
  /\ UNCHANGED <<target, memory, sticky>>

-------------------------------------------------------------------------------
(* cm_reset() and cm_run() *)

WriteDemcr(value, next) ==
  \/ /\ vc' = value /\ Goto(next)
     /\ UNCHANGED <<core, regs, r0, chalt, pending, ran, memory, sticky, faults>>
  \/ WriteDropped(next)

CatchReset == pc = "vcSet" /\ ~sticky /\ WriteDemcr(TRUE, "resetHalt")

ResetHalt == pc = "resetHalt" /\ ~sticky /\ WriteDhcsrHalt("resetHaltWait")

ResetHaltWait == pc = "resetHaltWait" /\ ~sticky /\ WaitHalted("resetReq")

RequestReset ==
  /\ pc = "resetReq" /\ ~sticky
  /\ \/ /\ pending' = TRUE /\ Goto("resetWait")
        /\ UNCHANGED <<core, regs, r0, chalt, vc, ran, memory, sticky, faults>>
     \/ WriteDropped("resetWait")

(* S_HALT of the reset vector, or the one from before the reset. *)
ResetWait == pc = "resetWait" /\ ~sticky /\ WaitHalted("vcClear")

UncatchReset == pc = "vcClear" /\ ~sticky /\ WriteDemcr(FALSE, "runWrite")

RunWrite == pc = "runWrite" /\ ~sticky /\ WriteDhcsrRun("runWait")

(* Seeded fault: cm_run() does not look whether the core has left debug state. *)
RunNotAwaited ==
  /\ pc = "runWait"
  /\ Goto("returned")
  /\ UNCHANGED <<target, memory, sticky, faults>>

(* S_HALT is clear. *)
RunWait ==
  /\ pc = "runWait" /\ ~sticky
  /\ core # "halted"
  /\ Goto("returned")
  /\ UNCHANGED <<target, memory, sticky, faults>>

-------------------------------------------------------------------------------
(* The core of the FR8016HA *)

Clobbered(pcAt) == [r \in RegNames |-> IF r = "PC" THEN pcAt ELSE other]

CoreHalts ==
  /\ chalt /\ core # "halted"
  /\ core' = "halted"
  /\ regs' = Clobbered(other) /\ r0' \in {0} \X BOOLEAN
  /\ UNCHANGED <<host, chalt, vc, pending, ran, memory, sticky, faults>>

(* The routine finds its code, its arguments and its page. *)
OwnCall(c) ==
  /\ ram = "flm"
  /\ \A r \in RegNames : regs[r] = c
  /\ Calls[c] = "program" => buf = c

(* The routine returns into the BKPT stub; one that fails, or that runs on *)
(* a mixture, has any result.                                              *)
RoutineEnds ==
  /\ core = "routine"
  /\ core' = "halted" /\ chalt' = TRUE
  /\ regs' = Clobbered(stub)
  /\ IF OwnCall(regs["PC"])
     THEN \/ /\ r0' = <<regs["PC"], TRUE>> /\ UNCHANGED faults
             /\ ran' = Append(ran, regs["PC"])
          \/ r0' = <<regs["PC"], FALSE>> /\ Fault /\ UNCHANGED ran
     ELSE \E ok \in BOOLEAN :
            r0' = <<0, ok>> /\ ran' = Append(ran, 0) /\ UNCHANGED faults
  /\ UNCHANGED <<host, vc, pending, memory, sticky>>

CoreResets ==
  /\ pending
  /\ pending' = FALSE
  /\ core' = IF vc THEN "halted" ELSE "app"
  /\ chalt' = vc
  /\ regs' = Clobbered(vector)
  /\ UNCHANGED <<host, r0, vc, ran, memory, sticky, faults>>

-------------------------------------------------------------------------------
(* The STM32 restarts alone, and the core goes on; or both lose power.     *)
Restart ==
  /\ pc # "off"
  /\ IF pc = "returned" THEN UNCHANGED faults ELSE Fault
  /\ pc' = "off" /\ UNCHANGED <<rc, call, ret, wr>>

HostReset == Restart /\ UNCHANGED <<target, memory, sticky>>

PowerCycle ==
  /\ Restart
  /\ core' = "app" /\ regs' = Clobbered(vector)
  /\ chalt' = FALSE /\ vc' = FALSE /\ pending' = FALSE
  /\ ram' = "other" /\ buf' = 0 /\ sticky' = FALSE
  /\ UNCHANGED <<r0, ran>>

attach == Attach \/ HaltWrite \/ HaltWait
flm_call == WriteReg \/ WriteRegUnconfirmed \/ ResumeCore \/ Poll \/ PollTimesOut \/ ReadResult
cm_reset == CatchReset \/ ResetHalt \/ ResetHaltWait \/ RequestReset \/ ResetWait \/ UncatchReset
cm_run == RunWrite \/ RunWait

Host ==
  \/ Begin \/ attach \/ Load \/ FillBuffer \/ Verify \/ flm_call \/ FlmReturns
  \/ cm_reset \/ cm_run \/ AccessFails \/ AccessFaults

Target == CoreHalts \/ RoutineEnds \/ CoreResets

Next == Host \/ Target \/ HostReset \/ PowerCycle

Spec == Init /\ [][Next]_vars

(* The STM32 runs, the core obeys and its routines end. *)
Fairness ==
  /\ WF_vars(Host /\ UNCHANGED faults)
  /\ WF_vars(CoreHalts)
  /\ WF_vars(RoutineEnds /\ UNCHANGED faults)
  /\ WF_vars(CoreResets)

FairSpec == Spec /\ Fairness

-------------------------------------------------------------------------------
(* Properties *)

(* As long as no call has failed, a 0 from flm_run() is the result of this  *)
(* call's routine, which ran once, after all the earlier ones, with its own *)
(* registers and its own page: no stale halt, no dropped write and no       *)
(* leftover of an earlier boot is taken for it.                             *)
OwnResult ==
  pc = "flm" /\ rc = "ok" /\ ret = "ok" =>
    ran = [c \in 1..call |-> c] /\ r0 = <<call, TRUE>>

(* As long as no call has failed, registers and work area are written only  *)
(* to a halted core (flm.c: "Halt the target before the first call so       *)
(* register setup is stable"): nothing that still runs on the FR8016HA can  *)
(* be overwritten under its feet.                                           *)
StableSetup == pc \in {"load", "buffer", "regs"} /\ rc = "ok" => core = "halted"

(* After an update that succeeded the FR8016HA comes to run its firmware,   *)
(* also when the reset happens later than cm_reset() thinks.                *)
FirmwareRestarts == pc = "returned" /\ rc = "ok" ~> core = "app"

(* With no sticky error and no further fault the next attempt succeeds,     *)
(* whatever an earlier one left on the FR8016HA: a routine still running, a *)
(* core halted anywhere, half a load, a vector catch.                       *)
RetrySucceeds ==
  pc = "off" /\ ~sticky /\ faults = MaxFaults ~> pc = "returned" /\ rc = "ok"

(* Said of the program, and not so: see the runs that expect a violation.   *)

(* flm.h: "Run the FLM entry points. Each returns 0 on success, -errno      *)
(* otherwise."                                                              *)
ZeroMeansRan == pc = "flm" /\ ret = "ok" => ran # <<>> /\ Last(ran) = call

(* cortexm.h: cm_reset() will "wait for the core to halt at the reset       *)
(* vector".                                                                 *)
HaltedAtVector == pc = "runWrite" => core = "halted" /\ regs["PC"] = vector

(* cortexm.h, cm_clear_errors(): "Call after any FAULT/error before         *)
(* retrying".                                                               *)
RetriedClean == pc = "attach" => ~sticky
===============================================================================
