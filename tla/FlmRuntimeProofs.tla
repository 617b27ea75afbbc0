--------------------------- MODULE FlmRuntimeProofs ---------------------------
(***************************************************************************)
(* Proof that, until a call has failed, flm_run() returns the results of   *)
(* its own routines, for any number of routines and faults.  The invariant *)
(* follows one call through its accesses: the core is halted and fills     *)
(* with the registers of this call, then runs its routine or has ended it. *)
(* A write that was dropped shows up as a sticky error, which no later     *)
(* access of the call gets past.                                           *)
(***************************************************************************)
EXTENDS FlmRuntime, SequenceTheorems, TLAPS

UpTo(n) == [c \in 1..n |-> c]

(* R0 belongs to this call, and a success is one that is on record. *)
Answered == r0 = <<call, FALSE>> \/ (r0 = <<call, TRUE>> /\ ran = UpTo(call))

(* The routine of this call runs, or it has ended. *)
Awaited ==
  \/ /\ core = "routine" /\ ~chalt
     /\ OwnCall(call) /\ ran = UpTo(call - 1)
  \/ core = "halted" /\ Answered

(* No reset is pending before cm_reset() asks for one. *)
NoReset ==
  pc \in Attaching \cup Calling \cup {"vcSet", "resetHalt", "resetHaltWait", "resetReq"}
    => ~pending

CallProgress ==
  rc = "ok" =>
    /\ pc \in {"load", "buffer", "verify", "regs", "resume"} => core = "halted"
    /\ pc \in Calling => ram = "flm"
    /\ pc \in {"buffer", "verify", "regs", "resume"} => ran = UpTo(call - 1)
    /\ pc = "verify" => Calls[call] = "uninit" /\ wr = 1
    /\ pc \in {"regs", "resume"} /\ ~sticky /\ Calls[call] = "program" => buf = call
    /\ pc = "regs" => \A i \in 1..(wr - 1) : regs[RegOrder[i]] = call
    /\ pc = "resume" => \A r \in RegNames : regs[r] = call
    /\ pc = "poll" /\ ~sticky => Awaited
    /\ pc = "result" /\ ~sticky => core = "halted" /\ Answered
    /\ pc = "flm" /\ ret = "ok" =>
         core = "halted" /\ r0 = <<call, TRUE>> /\ ran = UpTo(call)

(* Only the PC of a call starts a routine. *)
RoutineOfCall == core = "routine" => regs["PC"] \in CallIds

IInv == TypeOK /\ RoutineOfCall /\ NoReset /\ CallProgress

-------------------------------------------------------------------------------
(* The eight registers, and where each is in the order of flm_call(). *)
LEMMA Registers ==
  /\ Len(RegOrder) = 8 /\ DOMAIN RegOrder = 1..8
  /\ \A i \in 1..8 : RegOrder[i] \in RegNames
  /\ \A r \in RegNames : \E i \in 1..8 : RegOrder[i] = r
  /\ \A i, j \in 1..8 : RegOrder[i] = RegOrder[j] => i = j
  /\ "PC" \in RegNames
<1>1. Len(RegOrder) = 8 /\ DOMAIN RegOrder = 1..8
  BY DEF RegOrder
<1>2. RegNames = {RegOrder[i] : i \in DOMAIN RegOrder}
  BY DEF RegNames, Range
<1>3. RegOrder[8] = "PC"
  BY DEF RegOrder
<1>4. \A i, j \in 1..8 : RegOrder[i] = RegOrder[j] => i = j
  BY DEF RegOrder
<1> QED
  BY <1>1, <1>2, <1>3, <1>4

(* Calls are numbers, and the marks for code of no call are not. *)
LEMMA CallNumbers ==
  /\ Len(Calls) \in Nat /\ Len(Calls) > 1
  /\ CallIds = 1..Len(Calls)
  /\ Calls[1] = "init"
  /\ other \notin CallIds /\ stub \notin CallIds /\ vector \notin CallIds
<1>1. Calls \in Seq({"init", "erase", "program", "uninit"}) /\ Len(Calls) > 1
  BY CallsAssumption
<1>2. Len(Calls) \in Nat /\ CallIds = 1..Len(Calls)
  BY <1>1 DEF CallIds
<1>3. Calls[1] = "init"
  BY <1>1, <1>2, CallsAssumption DEF CallIds
<1> QED
  BY <1>1, <1>2, <1>3 DEF other, stub, vector

(* The history grows by the call that has just succeeded. *)
LEMMA UpToNext == ASSUME NEW c \in CallIds PROVE Append(UpTo(c - 1), c) = UpTo(c)
<1>1. c \in Nat /\ c > 0
  BY CallNumbers
<1>2. UpTo(c - 1) \in Seq(CallIds) /\ Len(UpTo(c - 1)) = c - 1
  BY <1>1, CallNumbers DEF UpTo
<1>3. Append(UpTo(c - 1), c) = [i \in 1..c |-> IF i = c THEN c ELSE UpTo(c - 1)[i]]
  BY <1>1, <1>2
<1>4. \A i \in 1..c : (IF i = c THEN c ELSE UpTo(c - 1)[i]) = i
  BY <1>1 DEF UpTo
<1> QED
  BY <1>3, <1>4 DEF UpTo

(* A FR8016HA that runs its firmware, and no update begun. *)
LEMMA InitInv == Init => IInv
<1> SUFFICES ASSUME Init PROVE IInv
  OBVIOUS
<1>1. TypeOK
  <2>1. regs \in [RegNames -> CallIds \cup {other, stub, vector}] /\ wr \in DOMAIN RegOrder
    BY Registers DEF Init
  <2>2. call \in CallIds /\ ran \in Seq(CallIds \cup {0})
    BY CallNumbers DEF Init
  <2>3. r0 \in (CallIds \cup {0}) \X BOOLEAN
    BY DEF Init
  <2>4. faults \in 0..MaxFaults
    BY CallsAssumption DEF Init
  <2> QED
    BY <2>1, <2>2, <2>3, <2>4 DEF Init, TypeOK
<1> QED
  BY <1>1
  DEF IInv, Init, RoutineOfCall, NoReset, CallProgress, Attaching, Calling, Between

(* A register write moves to the next register or, after the last, on. *)
LEMMA NextRegTyped ==
  ASSUME TypeOK, NextReg
  PROVE  pc' \in {"resume", pc} /\ wr' \in DOMAIN RegOrder /\ UNCHANGED <<rc, call, ret>>
<1>1. Len(RegOrder) = 8 /\ DOMAIN RegOrder = 1..8 /\ wr \in 1..8
  BY Registers DEF TypeOK
<1> QED
  BY <1>1 DEF NextReg, Goto

(* The STM32's variables keep to their types. *)
LEMMA HostTyped ==
  ASSUME IInv, Next
  PROVE  /\ pc' \in Attaching \cup Calling \cup Resetting \cup {"off", "returned"}
         /\ rc' \in {"ok", "err"} /\ ret' \in {"ok", "err"}
         /\ call' \in CallIds /\ wr' \in DOMAIN RegOrder
<1> USE DEF IInv, TypeOK
<1>1. 1 \in CallIds /\ Len(Calls) \in CallIds /\ 1 \in DOMAIN RegOrder
  BY CallNumbers, Registers
<1>2. call # Len(Calls) => call + 1 \in CallIds
  BY CallNumbers
<1>3. CASE Begin \/ attach \/ Load \/ FillBuffer \/ Verify
  BY <1>1, <1>3
  DEF Begin, attach, Attach, HaltWrite, HaltWait, Load, FillBuffer, Verify, WriteDhcsrHalt,
      WriteDropped, WaitHalted, AccessError, Goto, Attaching, Calling, Between
<1>4. CASE WriteReg \/ WriteRegUnconfirmed
  BY <1>1, <1>4, NextRegTyped DEF WriteReg, WriteRegUnconfirmed, AccessError, Calling, Between
<1>5. CASE ResumeCore \/ Poll \/ PollTimesOut \/ ReadResult
  BY <1>1, <1>5
  DEF ResumeCore, Poll, PollTimesOut, ReadResult, WriteDhcsrRun, WriteDropped, WaitHalted,
      AccessError, Goto, Calling, Between
<1>6. CASE FlmReturns
  BY <1>1, <1>2, <1>6 DEF FlmReturns, Goto, Calling, Between, Resetting
<1>7. CASE cm_reset \/ cm_run
  BY <1>7
  DEF cm_reset, CatchReset, ResetHalt, ResetHaltWait, RequestReset, ResetWait, UncatchReset,
      cm_run, RunWrite, RunWait, WriteDemcr, WriteDhcsrHalt, WriteDhcsrRun, WriteDropped,
      WaitHalted, Goto, Resetting
<1>8. CASE AccessFails \/ AccessFaults
  BY <1>1, <1>8 DEF AccessFails, AccessFaults, AccessError, Calling, Between
<1>9. CASE Target \/ HostReset \/ PowerCycle
  BY <1>9
  DEF Target, CoreHalts, RoutineEnds, CoreResets, HostReset, PowerCycle, Restart, host
<1> QED
  BY <1>3, <1>4, <1>5, <1>6, <1>7, <1>8, <1>9 DEF Next, Host, flm_call

(* Registers hold calls or the marks of code that is of no call. *)
LEMMA RegsTyped ==
  ASSUME IInv, Next
  PROVE  regs' \in [RegNames -> CallIds \cup {other, stub, vector}]
<1> USE DEF IInv, TypeOK
<1>1. CASE WriteReg \/ WriteRegUnconfirmed
  <2>1. RegOrder[wr] \in RegNames
    BY Registers
  <2> QED
    BY <1>1, <2>1 DEF WriteReg, WriteRegUnconfirmed
<1>2. CASE Target \/ PowerCycle
  BY <1>2 DEF Target, CoreHalts, RoutineEnds, CoreResets, PowerCycle, Clobbered
<1>3. ASSUME ~(WriteReg \/ WriteRegUnconfirmed \/ Target \/ PowerCycle)
      PROVE  UNCHANGED regs
  BY <1>3
  DEF Next, Host, attach, flm_call, cm_reset, cm_run, Begin, Attach, HaltWrite, HaltWait,
      Load, FillBuffer, Verify, ResumeCore, Poll, PollTimesOut, ReadResult, FlmReturns,
      CatchReset, ResetHalt, ResetHaltWait, RequestReset, ResetWait, UncatchReset,
      RunWrite, RunWait, AccessFails, AccessFaults, HostReset, WriteDhcsrHalt,
      WriteDhcsrRun, WriteDemcr, WriteDropped, WaitHalted, Resume, target
<1> QED
  BY <1>1, <1>2, <1>3

(* The history and R0 name calls. *)
LEMMA HistoryTyped ==
  ASSUME IInv, Next
  PROVE  ran' \in Seq(CallIds \cup {0}) /\ r0' \in (CallIds \cup {0}) \X BOOLEAN
<1> USE DEF IInv, TypeOK
<1>1. CASE Load
  BY <1>1 DEF Load
<1>2. CASE RoutineEnds
  <2>1. regs["PC"] \in CallIds
    BY <1>2 DEF RoutineEnds, RoutineOfCall
  <2>2. ran' \in {ran, Append(ran, regs["PC"]), Append(ran, 0)}
    BY <1>2 DEF RoutineEnds
  <2>3. \E c \in {0, regs["PC"]}, ok \in BOOLEAN : r0' = <<c, ok>>
    <3>1. CASE OwnCall(regs["PC"])
      BY <1>2, <3>1 DEF RoutineEnds
    <3>2. CASE ~OwnCall(regs["PC"])
      BY <1>2, <3>2 DEF RoutineEnds
    <3> QED
      BY <3>1, <3>2
  <2>4. ran' \in Seq(CallIds \cup {0})
    <3>1. Append(ran, regs["PC"]) \in Seq(CallIds \cup {0})
      BY <2>1, AppendProperties
    <3>2. Append(ran, 0) \in Seq(CallIds \cup {0})
      BY AppendProperties
    <3> QED
      BY <2>2, <3>1, <3>2
  <2> QED
    BY <2>1, <2>3, <2>4
<1>3. CASE CoreHalts
  BY <1>3 DEF CoreHalts
<1>4. ASSUME ~(Load \/ RoutineEnds \/ CoreHalts)
      PROVE  UNCHANGED <<ran, r0>>
  BY <1>4
  DEF Next, Host, attach, flm_call, cm_reset, cm_run, Begin, Attach, HaltWrite, HaltWait,
      FillBuffer, Verify, WriteReg, WriteRegUnconfirmed, ResumeCore, Poll, PollTimesOut, ReadResult,
      FlmReturns, CatchReset, ResetHalt, ResetHaltWait, RequestReset, ResetWait, UncatchReset,
      RunWrite, RunWait, AccessFails, AccessFaults, Target, CoreResets, HostReset, PowerCycle,
      WriteDhcsrHalt, WriteDhcsrRun, WriteDemcr, WriteDropped, WaitHalted, Resume, target
<1> QED
  BY <1>1, <1>2, <1>3, <1>4

LEMMA TypeKept == ASSUME IInv, Next PROVE TypeOK'
<1> USE DEF IInv, TypeOK
<1>1. core' \in {"app", "routine", "halted"}
  BY DEF Next, Host, attach, flm_call, cm_reset, cm_run, Begin, Attach, HaltWrite, HaltWait,
      Load, FillBuffer, Verify, WriteReg, WriteRegUnconfirmed, ResumeCore, Poll, PollTimesOut,
      ReadResult, FlmReturns, CatchReset, ResetHalt, ResetHaltWait, RequestReset, ResetWait,
      UncatchReset, RunWrite, RunWait, AccessFails, AccessFaults, Target, CoreHalts,
      RoutineEnds, CoreResets, HostReset, PowerCycle, WriteDhcsrHalt, WriteDhcsrRun,
      WriteDemcr, WriteDropped, WaitHalted, Resume, target, memory
<1>2. chalt' \in BOOLEAN /\ vc' \in BOOLEAN /\ pending' \in BOOLEAN /\ sticky' \in BOOLEAN
  BY DEF Next, Host, attach, flm_call, cm_reset, cm_run, Begin, Attach, HaltWrite, HaltWait,
      Load, FillBuffer, Verify, WriteReg, WriteRegUnconfirmed, ResumeCore, Poll, PollTimesOut,
      ReadResult, FlmReturns, CatchReset, ResetHalt, ResetHaltWait, RequestReset, ResetWait,
      UncatchReset, RunWrite, RunWait, AccessFails, AccessFaults, Target, CoreHalts,
      RoutineEnds, CoreResets, HostReset, PowerCycle, WriteDhcsrHalt, WriteDhcsrRun,
      WriteDemcr, WriteDropped, WaitHalted, Resume, target, memory
<1>3. ram' \in {"other", "partial", "flm"} /\ buf' \in CallIds \cup {0}
  BY DEF Next, Host, attach, flm_call, cm_reset, cm_run, Begin, Attach, HaltWrite, HaltWait,
      Load, FillBuffer, Verify, WriteReg, WriteRegUnconfirmed, ResumeCore, Poll, PollTimesOut,
      ReadResult, FlmReturns, CatchReset, ResetHalt, ResetHaltWait, RequestReset, ResetWait,
      UncatchReset, RunWrite, RunWait, AccessFails, AccessFaults, Target, CoreHalts,
      RoutineEnds, CoreResets, HostReset, PowerCycle, WriteDhcsrHalt, WriteDhcsrRun,
      WriteDemcr, WriteDropped, WaitHalted, Resume, target, memory
<1>4. faults' \in 0..MaxFaults
  <2>1. UNCHANGED faults \/ Fault
    BY DEF Next, Host, attach, flm_call, cm_reset, cm_run, Begin, Attach, HaltWrite, HaltWait,
      Load, FillBuffer, Verify, WriteReg, WriteRegUnconfirmed, ResumeCore, Poll, PollTimesOut,
      ReadResult, FlmReturns, CatchReset, ResetHalt, ResetHaltWait, RequestReset, ResetWait,
      UncatchReset, RunWrite, RunWait, AccessFails, AccessFaults, Target, CoreHalts,
      RoutineEnds, CoreResets, HostReset, PowerCycle, WriteDhcsrHalt, WriteDhcsrRun,
      WriteDemcr, WriteDropped, WaitHalted, Resume, target, memory, Restart
  <2> QED
    BY <2>1, CallsAssumption DEF Fault
<1> QED
  BY <1>1, <1>2, <1>3, <1>4, HostTyped, RegsTyped, HistoryTyped

(* Registers change only in a halted core, so a routine keeps its PC. *)
LEMMA RoutineOfCallKept == ASSUME IInv, Next PROVE RoutineOfCall'
<1> USE DEF IInv, RoutineOfCall
<1>1. CASE ResumeCore \/ RunWrite
  BY <1>1 DEF ResumeCore, RunWrite, WriteDhcsrRun, WriteDropped, Resume, target
<1>2. CASE Target \/ PowerCycle
  BY <1>2 DEF Target, CoreHalts, RoutineEnds, CoreResets, PowerCycle
<1>3. CASE WriteReg \/ WriteRegUnconfirmed
  BY <1>3 DEF WriteReg, WriteRegUnconfirmed
<1>4. ASSUME ~( \/ ResumeCore \/ RunWrite \/ Target \/ PowerCycle
                \/ WriteReg \/ WriteRegUnconfirmed)
      PROVE  UNCHANGED <<core, regs>>
  BY <1>4
  DEF Next, Host, attach, flm_call, cm_reset, cm_run, Begin, Attach, HaltWrite, HaltWait,
      Load, FillBuffer, Verify, WriteReg, WriteRegUnconfirmed, ResumeCore, Poll, PollTimesOut,
      ReadResult, FlmReturns, CatchReset, ResetHalt, ResetHaltWait, RequestReset, ResetWait,
      UncatchReset, RunWrite, RunWait, AccessFails, AccessFaults, Target, CoreHalts,
      RoutineEnds, CoreResets, HostReset, PowerCycle, WriteDhcsrHalt, WriteDhcsrRun,
      WriteDemcr, WriteDropped, WaitHalted, Resume, target, memory
<1> QED
  BY <1>1, <1>2, <1>3, <1>4

(* The reset is asked for only after the last call, and served before the   *)
(* next update begins.                                                      *)
LEMMA NoResetKept == ASSUME IInv, Next PROVE NoReset'
<1> USE DEF IInv, TypeOK, NoReset, Attaching, Calling, Between
<1>1. CASE Target \/ HostReset \/ PowerCycle
  BY <1>1
  DEF Target, CoreHalts, RoutineEnds, CoreResets, HostReset, PowerCycle, Restart, host, target
<1>2. CASE WriteReg \/ WriteRegUnconfirmed
  BY <1>2, NextRegTyped DEF WriteReg, WriteRegUnconfirmed, AccessError
<1>3. CASE Begin \/ attach \/ Load \/ FillBuffer \/ Verify \/ FlmReturns
  BY <1>3
  DEF Begin, attach, Attach, HaltWrite, HaltWait, Load, FillBuffer, Verify, FlmReturns,
      WriteDhcsrHalt, WriteDropped, WaitHalted, AccessError, Goto, target
<1>4. CASE ResumeCore \/ Poll \/ PollTimesOut \/ ReadResult \/ AccessFails \/ AccessFaults
  BY <1>4
  DEF ResumeCore, Poll, PollTimesOut, ReadResult, AccessFails, AccessFaults,
      WriteDhcsrRun, WriteDropped, WaitHalted, Resume, AccessError, Goto, target
<1>5. CASE cm_reset \/ cm_run
  BY <1>5
  DEF cm_reset, CatchReset, ResetHalt, ResetHaltWait, RequestReset, ResetWait, UncatchReset,
      cm_run, RunWrite, RunWait, WriteDemcr, WriteDhcsrHalt, WriteDhcsrRun, WriteDropped,
      WaitHalted, Resume, Goto, target
<1> QED
  BY <1>1, <1>2, <1>3, <1>4, <1>5 DEF Next, Host, flm_call

-------------------------------------------------------------------------------
(* CallProgress, action by action. *)

(* The attach ends with a halted core, the load with the first call. *)
LEMMA AttachProgress ==
  ASSUME IInv, Begin \/ attach \/ Load
  PROVE  CallProgress'
<1> USE DEF IInv, TypeOK, CallProgress, Calling, Between
<1>1. CASE Begin \/ attach
  BY <1>1
  DEF Begin, attach, Attach, HaltWrite, HaltWait, WriteDhcsrHalt, WriteDropped, WaitHalted,
      Goto, target
<1>2. CASE Load
  <2>1. UpTo(1 - 1) = <<>>
    BY DEF UpTo
  <2> QED
    BY <1>2, <2>1, CallNumbers DEF Load
<1> QED
  BY <1>1, <1>2

(* The page goes to the buffer, or the flash is read back; then each        *)
(* register is set in turn.                                                *)
LEMMA SetupProgress ==
  ASSUME IInv, FillBuffer \/ Verify \/ WriteReg \/ WriteRegUnconfirmed
  PROVE  CallProgress'
<1> USE DEF IInv, TypeOK, CallProgress, Calling, Between
<1>1. CASE FillBuffer
  BY <1>1 DEF FillBuffer, target
<1>2. CASE Verify
  <2>1. UNCHANGED <<core, ran, ram>>
    BY <1>2 DEF Verify, target, memory
  <2>2. pc = "verify" /\ pc' = "regs"
    BY <1>2 DEF Verify, AccessError, Goto
  <2>3. rc' = "err" \/ UNCHANGED <<rc, call, wr>>
    BY <1>2, <2>2 DEF Verify, AccessError, Goto
  <2>4. CASE UNCHANGED <<rc, call, wr>>
    <3>1. rc = "ok" => /\ Calls[call] = "uninit" /\ wr = 1
                       /\ core = "halted" /\ ram = "flm" /\ ran = UpTo(call - 1)
      BY <2>2
    <3>2. \A i \in 1..(1 - 1) : regs'[RegOrder[i]] = call'
      OBVIOUS
    <3> QED
      BY <2>1, <2>2, <2>4, <3>1, <3>2
  <2> QED
    BY <2>2, <2>3, <2>4
<1>3. CASE WriteReg
  <2>1. CASE rc # "ok"
    BY <1>3, <2>1, NextRegTyped DEF WriteReg, AccessError
  <2>2. CASE rc = "ok"
    <3>1. core = "halted" /\ regs' = [regs EXCEPT ![RegOrder[wr]] = call] /\ NextReg
      BY <1>3, <2>2 DEF WriteReg
    <3>2. wr \in 1..8 /\ Len(RegOrder) = 8
      BY Registers
    <3>3. \A i \in 1..wr : regs'[RegOrder[i]] = call
      BY <1>3, <2>2, <3>1, <3>2, Registers DEF WriteReg
    <3>4. CASE wr = 8
      <4>1. \A r \in RegNames : regs'[r] = call
        BY <3>3, <3>4, Registers
      <4>2. pc' = "resume" /\ UNCHANGED <<rc, call, ret, wr, core, ran, ram, buf>>
        BY <1>3, <3>1, <3>2, <3>4 DEF WriteReg, NextReg, Goto, memory
      <4> QED
        BY <1>3, <2>2, <4>1, <4>2 DEF WriteReg
    <3>5. CASE wr # 8
      <4>1. pc' = "regs" /\ wr' = wr + 1 /\ UNCHANGED <<rc, call, ret, core, ran, ram, buf>>
        BY <1>3, <3>1, <3>2, <3>5 DEF WriteReg, NextReg, memory
      <4>2. \A i \in 1..(wr' - 1) : regs'[RegOrder[i]] = call
        BY <3>2, <3>3, <4>1
      <4> QED
        BY <1>3, <2>2, <4>1, <4>2 DEF WriteReg
    <3> QED
      BY <3>4, <3>5
  <2> QED
    BY <2>1, <2>2
<1>4. CASE WriteRegUnconfirmed
  BY <1>4 DEF WriteRegUnconfirmed, AccessError, memory
<1> QED
  BY <1>1, <1>2, <1>3, <1>4

(* The core starts with the registers of this call, and a halt ends it. *)
LEMMA CallProgressKept ==
  ASSUME IInv, ResumeCore \/ Poll \/ PollTimesOut \/ ReadResult \/ FlmReturns
  PROVE  CallProgress'
<1> USE DEF IInv, TypeOK, CallProgress, Calling, Between
<1>1. CASE ResumeCore
  <2>1. CASE Resume /\ UNCHANGED <<memory, sticky>>
    <3> SUFFICES ASSUME rc' = "ok" PROVE CallProgress'
      OBVIOUS
    <3>1. pc = "resume" /\ pc' = "poll" /\ rc = "ok" /\ ~sticky /\ ~sticky' /\ call' = call
      BY <1>1, <2>1 DEF ResumeCore, WriteDhcsrRun, WriteDropped, Goto
    <3>2. core = "halted" /\ ram = "flm" /\ ran = UpTo(call - 1) /\ OwnCall(call)
      BY <3>1 DEF OwnCall
    <3>3. regs["PC"] = call /\ regs["PC"] \in CallIds /\ regs["PC"] # stub
      BY <3>1, Registers, CallNumbers
    <3>4. core' = "routine" /\ ~chalt' /\ UNCHANGED <<regs, ran, ram, buf>>
      BY <2>1, <3>2, <3>3 DEF Resume, memory
    <3>5. OwnCall(call)'
      BY <3>1, <3>2, <3>4 DEF OwnCall
    <3> QED
      BY <3>1, <3>2, <3>4, <3>5 DEF Awaited
  <2>2. CASE WriteDropped("poll")
    BY <1>1, <2>2 DEF ResumeCore, WriteDropped, Goto, target, memory
  <2> QED
    BY <1>1, <2>1, <2>2 DEF ResumeCore, WriteDhcsrRun
<1>2. CASE Poll
  BY <1>2 DEF Poll, WaitHalted, Goto, target, memory, Awaited, Answered
<1>3. CASE PollTimesOut
  BY <1>3 DEF PollTimesOut, AccessError, target, memory
<1>4. CASE ReadResult
  <2>1. CASE pc' = "flm" /\ rc' = "ok" /\ ret' = "ok"
    <3>1. core = "halted" /\ Answered
      BY <1>4, <2>1 DEF ReadResult
    <3>2. r0 # <<call, FALSE>>
      <4>1. ret' = IF r0[2] THEN "ok" ELSE "err"
        BY <1>4, <3>1 DEF ReadResult
      <4>2. ASSUME r0 = <<call, FALSE>> PROVE ~r0[2]
        BY <4>2
      <4> QED
        BY <2>1, <4>1, <4>2
    <3> QED
      BY <1>4, <3>1, <3>2 DEF ReadResult, Answered, target, memory
  <2>2. CASE ~(rc' = "ok" /\ ret' = "ok")
    BY <1>4, <2>2 DEF ReadResult, memory
  <2> QED
    BY <1>4, <2>1, <2>2 DEF ReadResult
<1>5. CASE FlmReturns
  <2>1. call \in Nat /\ call + 1 - 1 = call
    BY CallNumbers
  <2>2. UNCHANGED <<core, ran, ram>>
    BY <1>5 DEF FlmReturns, target, memory
  <2>3. CASE rc' = "ok" /\ pc' \in Calling
    <3>1. pc = "flm" /\ rc = "ok" /\ ret = "ok"
      BY <1>5, <2>3 DEF FlmReturns, Goto
    <3>2. core = "halted" /\ ran = UpTo(call) /\ ram = "flm"
      BY <3>1
    <3>3. /\ call' = call + 1 /\ wr' = 1
          /\ pc' \in {"buffer", "verify", "regs"}
          /\ pc' = "verify" => Calls[call'] = "uninit"
          /\ pc' = "regs" => Calls[call'] # "program"
      BY <1>5, <2>3, <3>1 DEF FlmReturns, Goto
    <3>4. ran' = UpTo(call' - 1)
      BY <2>1, <2>2, <3>2, <3>3
    <3>5. \A i \in 1..(wr' - 1) : regs'[RegOrder[i]] = call'
      BY <3>3
    <3>6. core' = "halted" /\ ram' = "flm"
      BY <2>1, <2>2, <3>2, <3>3
    <3>7. pc' \notin {"resume", "poll", "result", "flm"}
      BY <3>3
    <3> HIDE DEF TypeOK
    <3> QED
      BY <3>3, <3>4, <3>5, <3>6, <3>7
  <2>4. CASE ~(rc' = "ok" /\ pc' \in Calling)
    BY <1>5, <2>4 DEF FlmReturns, Goto
  <2> QED
    BY <2>3, <2>4
<1> QED
  BY <1>1, <1>2, <1>3, <1>4, <1>5

(* Steps outside a call leave nothing to a call that goes on. *)
LEMMA OtherProgress ==
  ASSUME IInv, cm_reset \/ cm_run \/ AccessFails \/ AccessFaults \/ HostReset \/ PowerCycle
  PROVE  CallProgress'
<1> USE DEF IInv, TypeOK, CallProgress, Calling, Between
<1>1. CASE cm_reset \/ cm_run
  BY <1>1
  DEF cm_reset, CatchReset, ResetHalt, ResetHaltWait, RequestReset, ResetWait, UncatchReset,
      cm_run, RunWrite, RunWait, WriteDemcr, WriteDhcsrHalt, WriteDhcsrRun, WriteDropped,
      WaitHalted, Goto
<1>2. CASE AccessFails \/ AccessFaults
  BY <1>2 DEF AccessFails, AccessFaults, AccessError, target, memory, Sends
<1>3. CASE HostReset \/ PowerCycle
  BY <1>3 DEF HostReset, PowerCycle, Restart
<1> QED
  BY <1>1, <1>2, <1>3

(* The core: in a call it is halted, or it runs this call's routine.        *)
LEMMA TargetProgress == ASSUME IInv, Target PROVE CallProgress'
<1> USE DEF IInv, TypeOK, CallProgress, Calling, Between
<1> SUFFICES ASSUME rc' = "ok" PROVE CallProgress'
  OBVIOUS
<1>0. UNCHANGED <<host, memory, sticky>>
  BY DEF Target, CoreHalts, RoutineEnds, CoreResets
<1>1. CASE CoreHalts
  <2>1. core # "halted" /\ chalt
    BY <1>1 DEF CoreHalts
  <2>2. ~(pc = "poll" /\ ~sticky) /\ ~(pc = "result" /\ ~sticky)
    BY <1>0, <2>1 DEF host, Awaited
  <2>3. pc \notin {"load", "buffer", "verify", "regs", "resume"} /\ ~(pc = "flm" /\ ret = "ok")
    BY <1>0, <2>1 DEF host
  <2> QED
    BY <1>0, <2>2, <2>3 DEF host, memory
<1>2. CASE CoreResets
  <2>1. pc \notin Attaching \cup Calling
    BY <1>2 DEF CoreResets, NoReset
  <2> QED
    BY <1>0, <2>1 DEF host, Attaching
<1>3. CASE RoutineEnds
  <2>1. core = "routine" /\ core' = "halted"
    BY <1>3 DEF RoutineEnds
  <2>2. CASE pc = "poll" /\ ~sticky
    <3>1. OwnCall(call) /\ ran = UpTo(call - 1) /\ regs["PC"] = call
      BY <1>0, <2>1, <2>2, Registers DEF host, Awaited, OwnCall
    <3>2. (r0' = <<call, TRUE>> /\ ran' = UpTo(call)) \/ r0' = <<call, FALSE>>
      BY <1>3, <3>1, UpToNext DEF RoutineEnds
    <3>3. Awaited'
      BY <1>0, <2>1, <3>2 DEF host, Awaited, Answered
    <3> QED
      BY <1>0, <2>2, <3>3 DEF host, memory
  <2>3. CASE ~(pc = "poll" /\ ~sticky)
    BY <1>0, <2>1, <2>3 DEF host, memory
  <2> QED
    BY <2>2, <2>3
<1> QED
  BY <1>1, <1>2, <1>3 DEF Target

-------------------------------------------------------------------------------
(* The inductive invariant holds in every reachable state. *)
THEOREM Invariance == Spec => []IInv
<1>1. IInv /\ [Next]_vars => IInv'
  <2>1. ASSUME IInv, Next PROVE CallProgress'
    BY <2>1, AttachProgress, SetupProgress, CallProgressKept, OtherProgress, TargetProgress
    DEF Next, Host, flm_call
  <2>2. ASSUME IInv, Next PROVE IInv'
    BY <2>1, <2>2, TypeKept, RoutineOfCallKept, NoResetKept DEF IInv
  <2>3. ASSUME IInv, UNCHANGED vars PROVE IInv'
    <3>1. TypeOK' /\ RoutineOfCall' /\ NoReset'
      BY <2>3 DEF IInv, vars, host, target, memory, TypeOK, RoutineOfCall, NoReset
    <3>2. Awaited' = Awaited /\ Answered' = Answered
      BY <2>3 DEF vars, host, target, memory, Awaited, Answered, OwnCall
    <3>3. CallProgress'
      BY <2>3, <3>2 DEF IInv, vars, host, target, memory, CallProgress
    <3> QED
      BY <3>1, <3>3 DEF IInv
  <2> QED
    BY <2>2, <2>3
<1> QED
  BY InitInv, <1>1, PTL DEF Spec

(* Every variable keeps to its type. *)
THEOREM TypeCorrect == Spec => []TypeOK
  BY Invariance, PTL DEF IInv

(* Until a call fails, a 0 from flm_run() is the result of its own routine, *)
(* and the routines before it ran once each and in order.                   *)
THEOREM ReturnsOwnResult == Spec => []OwnResult
<1>1. IInv => OwnResult
  BY DEF IInv, CallProgress, OwnResult, UpTo
<1> QED
  BY Invariance, <1>1, PTL

(* Until a call fails, registers and memory of the FR8016HA are written     *)
(* only while its core is halted.                                           *)
THEOREM SetupIsStable == Spec => []StableSetup
<1>1. IInv => StableSetup
  BY DEF IInv, CallProgress, StableSetup
<1> QED
  BY Invariance, <1>1, PTL
===============================================================================
