------------------------------- MODULE SwdWire --------------------------------
(***************************************************************************)
(* The SWD transport (swd.c) clock cycle by clock cycle.  The STM32 and    *)
(* the debug port of the FR8016HA share one wire: in each cycle of SWCLK   *)
(* one of them, or the pull-up, gives the bit, and both move on.  Nothing  *)
(* but the count of cycles keeps them in step.                             *)
(*                                                                         *)
(* The debug port is no part of the repository.  RequestParity, ReadTrn    *)
(* and RefusalTrn are the details in which the port that the driver is     *)
(* written for differs from the one that ARM describes.                    *)
(***************************************************************************)
EXTENDS Naturals, Sequences, FiniteSets

CONSTANTS
  WordBits,         \* 32
  Words,            \* the values that occur
  Requests,         \* the registers that are accessed, see Request
  SWD_MAX_RETRIES,
  LineHigh,         \* cycles of one line reset: 51
  ResetOnes,        \* a port that has seen so many ones in a row starts anew: 50
  RequestParity,    \* what the request's parity bit adds up to with the four before it
  ReadTrn,          \* a turnaround cycle between ACK and read data: 1 or 0
  RefusalTrn,       \* a turnaround cycle after WAIT and FAULT: 1 or 0
  MaxBusy,          \* bound: requests that one slow access holds up
  MaxFaults         \* bound: faults in one behaviour

Bit == {0, 1}
Z == 2              \* nobody drives
Request == [ap : Bit, rn : Bit, a2 : Bit, a3 : Bit]

ASSUME WireAssumption ==
  /\ WordBits \in Nat \ {0} /\ Words \subseteq [1..WordBits -> Bit] /\ Words # {}
  /\ Requests \subseteq Request
  /\ SWD_MAX_RETRIES \in Nat \ {0} /\ MaxBusy \in Nat /\ MaxFaults \in Nat
  /\ ResetOnes \in Nat \ {0} /\ LineHigh \in Nat /\ LineHigh >= ResetOnes
  /\ {RequestParity, ReadTrn, RefusalTrn} \subseteq Bit

VARIABLES
  (* the driver *)
  pc,        \* the phase of the transaction
  n,         \* the bit of the phase
  req, data, \* the arguments of the access; data also takes a word that is read
  got,       \* bits read in this phase
  attempt,   \* of swd_read_raw() and swd_write_raw()
  rc,
  out,       \* swdio_is_output
  failures,  \* failed accesses since the line reset
  clean,     \* history: nothing disturbed the line reset
  (* the debug port *)
  t, heard,  \* its phase, and the bits it has heard or sent in it
  treq, answer, word,  \* the request it is at, its ACK, and the word it sends
  ones,      \* ones in a row
  busy,      \* requests that it will put off, an access to the AP being slow
  sticky,    \* WDATAERR
  taken,     \* history: the last write it took
  (* the line *)
  noise,     \* a bit of this access was misread
  faults

host == <<pc, n, req, data, got, attempt, rc, out, failures, clean>>
port == <<t, heard, treq, answer, word, ones, busy, sticky, taken>>
vars == <<host, port, noise, faults>>

ParityOf(f) == Cardinality({i \in DOMAIN f : f[i] = 1}) % 2

Four(r) == <<r.ap, r.rn, r.a2, r.a3>>

(* start, APnDP, RnW, A2, A3, parity, stop, park: as they are sent *)
swd_build_request(r) == <<1, r.ap, r.rn, r.a2, r.a3, (ParityOf(Four(r)) + 1) % 2, 0, 1>>

SWD_SWITCH_SEQUENCE == <<0, 1, 1, 1, 1, 0, 0, 1, 1, 1, 1, 0, 0, 1, 1, 1>>

AckBits == [OK |-> <<1, 0, 0>>, WAIT |-> <<0, 1, 0>>, FAULT |-> <<0, 0, 1>>]

Fault == faults < MaxFaults /\ faults' = faults + 1

-------------------------------------------------------------------------------
(* The debug port *)

PortDrives == t \in {"ack", "read"}

PortBit ==
  CASE t = "ack" -> AckBits[answer][Len(heard) + 1]
    [] t = "read" -> IF Len(heard) < WordBits THEN word[Len(heard) + 1] ELSE ParityOf(word)
    [] OTHER -> Z

PortGoes(phase) == t' = phase /\ heard' = <<>>

(* A request is good, or the port is deaf until the next line reset. *)
Understood(bits) ==
  /\ ParityOf(SubSeq(bits, 1, 5)) = RequestParity
  /\ bits[6] = 0 /\ bits[7] = 1

(* With a sticky error only DPIDR and CTRL/STAT are read, which never wait. *)
Answers(r) ==
  /\ answer' = IF r.ap = 0 /\ r.rn = 1 /\ r.a3 = 0 THEN "OK"
               ELSE IF sticky THEN "FAULT" ELSE IF busy > 0 THEN "WAIT" ELSE "OK"
  /\ busy' \in IF answer' = "WAIT" THEN {busy - 1}
               ELSE IF answer' = "OK" /\ r.ap = 1 THEN 0..MaxBusy ELSE {busy}
  /\ word' \in IF answer' = "OK" /\ r.rn = 1 THEN Words ELSE {word}

HearsRequest(bit) ==
  LET bits == Append(heard, bit)
      r == [ap |-> bits[1], rn |-> bits[2], a2 |-> bits[3], a3 |-> bits[4]]
  IN  IF Len(bits) = 7 /\ Understood(bits)
      THEN PortGoes("toAck") /\ treq' = r /\ Answers(r)
      ELSE /\ IF Len(bits) < 7 THEN t' = t /\ heard' = bits ELSE PortGoes("deaf")
           /\ UNCHANGED <<treq, answer, word, busy>>

SendsAck ==
  /\ IF Len(heard) < 2 THEN t' = t /\ heard' = Append(heard, PortBit)
     ELSE PortGoes(CASE answer # "OK" -> IF RefusalTrn = 1 THEN "turn" ELSE "idle"
                     [] answer = "OK" /\ treq.rn = 0 -> "toWrite"
                     [] OTHER -> IF ReadTrn = 1 THEN "toRead" ELSE "read")

SendsWord ==
  /\ IF Len(heard) < WordBits THEN t' = t /\ heard' = Append(heard, PortBit)
                              ELSE PortGoes("turn")

(* The last bit is the parity; a write with a wrong one is dropped. *)
HearsWord(bit) ==
  IF Len(heard) < WordBits
  THEN t' = t /\ heard' = Append(heard, bit) /\ UNCHANGED <<sticky, taken>>
  ELSE /\ PortGoes("idle")
       /\ IF ParityOf(heard) = bit THEN taken' = <<treq, heard>> /\ UNCHANGED sticky
                                   ELSE sticky' = TRUE /\ taken' = <<>>

(* Phases of one cycle, and of waiting. *)
PortWaits(bit) ==
  PortGoes(CASE t = "idle" /\ bit = 1 -> "request" [] t = "toAck" -> "ack"
             [] t = "toRead" -> "read" [] t = "toWrite" -> "write"
             [] t = "deaf" -> "deaf" [] OTHER -> "idle")

PortMoves(bit) ==
  \/ t = "request" /\ HearsRequest(bit) /\ UNCHANGED <<sticky, taken>>
  \/ t = "write" /\ HearsWord(bit) /\ UNCHANGED <<treq, answer, word, busy>>
  \/ /\ \/ t = "ack" /\ SendsAck
        \/ t = "read" /\ SendsWord
        \/ t \notin {"request", "write", "ack", "read"} /\ PortWaits(bit)
     /\ UNCHANGED <<treq, answer, word, busy, sticky, taken>>

PortClock(bit) ==
  LET high == IF PortDrives \/ bit = 0 THEN 0 ELSE IF ones < ResetOnes THEN ones + 1 ELSE ones
  IN  /\ ones' = high
      /\ IF high = ResetOnes
         THEN PortGoes("idle") /\ UNCHANGED <<treq, answer, word, busy, sticky, taken>>
         ELSE PortMoves(bit)

-------------------------------------------------------------------------------
(* The driver *)

(* One cycle of SWCLK: bit is what the wire carries, or noise. *)
Cycle(hostBit, bit) ==
  LET b == IF hostBit # Z THEN hostBit ELSE IF PortBit # Z THEN PortBit ELSE 1
  IN  /\ \/ bit = b /\ UNCHANGED <<noise, faults>>
         \/ bit # b /\ ~noise /\ noise' = TRUE /\ Fault
      /\ PortClock(bit)

(* The next bit of a phase of k bits, or the phase after it. *)
NextBit(k, phase) ==
  IF n < k THEN n' = n + 1 /\ pc' = pc ELSE n' = 1 /\ pc' = phase

Goto(phase) == n' = 1 /\ pc' = phase

Return(code) ==
  /\ Goto("returned")
  /\ rc' = code
  /\ failures' = IF code = "ok" THEN failures ELSE failures + 1
  /\ UNCHANGED clean

(* swd_read_dp() .. swd_write_ap().  fr8016_update() goes on until one      *)
(* fails; then flm_uninit() makes some more, until one fails.              *)
Access(r, w) ==
  /\ pc = "returned" /\ rc # "reset" /\ failures < 2
  /\ req' = r /\ data' = w
  /\ r.rn = 1 => w = data
  /\ attempt' = 1
  /\ out' = TRUE
  /\ noise' = FALSE
  /\ Goto("request")
  /\ UNCHANGED <<got, rc, failures, clean, port, faults>>

(* swd_transaction(): the request, then the line is released. *)
SendRequestBit ==
  /\ pc = "request"
  /\ \E bit \in Bit : Cycle(swd_build_request(req)[n], bit)
  /\ NextBit(8, "trnAck")
  /\ out' = (n < 8)
  /\ got' = <<>>
  /\ UNCHANGED <<req, data, attempt, rc, failures, clean>>

(* The direction has been switched before. *)
swd_turnaround(from, hostBit, to) ==
  /\ pc = from
  /\ \E bit \in Bit : Cycle(hostBit, bit)
  /\ Goto(to)
  /\ UNCHANGED <<req, data, got, attempt, rc, out, failures, clean>>

(* Seeded fault: no end to it. *)
RetryForever ==
  /\ attempt' = attempt + 1 /\ out' = TRUE /\ Goto("request")
  /\ UNCHANGED <<rc, failures, clean>>

(* WAIT: swd_read_raw() and swd_write_raw() try again at once. *)
Retry ==
  IF attempt < SWD_MAX_RETRIES
  THEN attempt' = attempt + 1 /\ out' = TRUE /\ Goto("request") /\ UNCHANGED <<rc, failures, clean>>
  ELSE Return("ETIMEDOUT") /\ UNCHANGED <<attempt, out>>

(* Seeded fault: SWDIO taken back before a read, too. *)
DrivesAfterAny(ack) == ack = AckBits["OK"]

DrivesAfter(ack) == ack = AckBits["OK"] /\ req.rn = 0

ReadAck(ack) ==
  \/ ack = AckBits["WAIT"] /\ Retry
  \/ /\ ack # AckBits["WAIT"]
     /\ UNCHANGED attempt
     /\ out' = DrivesAfter(ack)
     /\ CASE ack = AckBits["OK"] -> /\ Goto(IF req.rn = 1 THEN "trnRead" ELSE "trnWrite")
                                    /\ UNCHANGED <<rc, failures, clean>>
          [] ack = AckBits["FAULT"] -> Return("EIO")
          [] OTHER -> Return("EPROTO")

ReadAckBit ==
  /\ pc = "ack"
  /\ \E bit \in Bit :
       /\ Cycle(Z, bit)
       /\ IF n < 3
          THEN got' = Append(got, bit) /\ n' = n + 1 /\ UNCHANGED <<pc, attempt, rc, out, failures, clean>>
          ELSE got' = <<>> /\ ReadAck(Append(got, bit))
  /\ UNCHANGED <<req, data>>

(* The word and its parity; then the host takes the line back. *)
ReadDataBit ==
  /\ pc = "rdata"
  /\ \E bit \in Bit : Cycle(Z, bit) /\ got' = Append(got, bit)
  /\ NextBit(WordBits + 1, "trnBack")
  /\ out' = (n > WordBits)
  /\ UNCHANGED <<req, data, attempt, rc, failures, clean>>

(* Seeded fault: the parity is read but not compared. *)
ReadResultUnchecked == "ok"

ReadResult == IF ParityOf(data') = got[WordBits + 1] THEN "ok" ELSE "EBADMSG"

TakeWord ==
  /\ data' = SubSeq(got, 1, WordBits)
  /\ Return(ReadResult)
  /\ got' = <<>>
  /\ UNCHANGED <<req, attempt, out>>

(* Seeded fault: no cycle in which the port lets go of the line. *)
TurnBackUnclocked == pc = "trnBack" /\ TakeWord /\ UNCHANGED <<port, noise, faults>>

TurnBack == pc = "trnBack" /\ TakeWord /\ \E bit \in Bit : Cycle(0, bit)

WriteDataBit ==
  /\ pc = "wdata"
  /\ \E bit \in Bit : Cycle(IF n <= WordBits THEN data[n] ELSE ParityOf(data), bit)
  /\ IF n <= WordBits THEN n' = n + 1 /\ UNCHANGED <<pc, rc, failures, clean>> ELSE Return("ok")
  /\ UNCHANGED <<req, data, got, attempt, out>>

(* gpio_pin_configure() fails where the direction of SWDIO changes. *)
DirectionFails ==
  /\ \/ pc \in {"trnAck", "trnWrite", "trnBack"}
     \/ pc = "request" /\ n = 1 /\ (attempt > 1 \/ failures > 0)
  /\ out' = ~out
  /\ Fault
  /\ Return("EGPIO")
  /\ got' = <<>>
  /\ UNCHANGED <<req, data, attempt, port, noise>>

(* swd_init() and swd_line_reset(), at the next boot at the latest, when   *)
(* no access is pending any more.  One that fails at its first step is, for *)
(* the port, a restart of the STM32 before it.                             *)
LineReset ==
  /\ pc = "returned" /\ rc # "ready"
  /\ out' = TRUE
  /\ noise' = FALSE
  /\ failures' = 0
  /\ busy' = 0
  /\ Goto("high1")
  /\ UNCHANGED <<req, data, got, attempt, rc, clean, faults>>
  /\ UNCHANGED <<t, heard, treq, answer, word, ones, sticky, taken>>

(* Seeded fault: no second line reset after the switch sequence. *)
ResetPhasesOnce == [high1 |-> "switch", switch |-> "low", high2 |-> "low", low |-> "returned"]

ResetPhases == [high1 |-> "switch", switch |-> "high2", high2 |-> "low", low |-> "returned"]

LineResetBit ==
  /\ pc \in DOMAIN ResetPhases
  /\ \E bit \in Bit :
       Cycle(CASE pc = "low" -> 0 [] pc = "switch" -> SWD_SWITCH_SEQUENCE[n] [] OTHER -> 1, bit)
  /\ NextBit(CASE pc = "switch" -> 16 [] pc = "low" -> 2 [] OTHER -> LineHigh, ResetPhases[pc])
  /\ IF pc' = "returned" THEN rc' = "ready" ELSE rc' = rc
  /\ clean' = ~noise'
  /\ UNCHANGED <<req, data, got, attempt, out, failures>>

(* The STM32 restarts anywhere; the port notices nothing. *)
HostReset ==
  /\ Fault
  /\ Goto("returned")
  /\ rc' = "reset"
  /\ out' = FALSE
  /\ got' = <<>>
  /\ UNCHANGED <<req, data, attempt, failures, clean, port, noise>>

swd_transaction ==
  \/ SendRequestBit \/ ReadAckBit \/ ReadDataBit \/ TurnBack \/ WriteDataBit \/ DirectionFails
  \/ swd_turnaround("trnAck", Z, "ack")
  \/ swd_turnaround("trnRead", Z, "rdata")
  \/ swd_turnaround("trnWrite", 0, "wdata")

Init ==
  /\ pc = "returned" /\ rc = "reset" /\ n = 1 /\ got = <<>> /\ attempt = 1 /\ out = FALSE
  /\ failures = 0 /\ clean = FALSE
  /\ req \in Requests /\ data \in Words
  /\ t = "idle" /\ heard = <<>> /\ treq = req /\ answer = "OK" /\ word = data
  /\ ones = 0 /\ busy = 0 /\ sticky = FALSE /\ taken = <<>>
  /\ noise = FALSE /\ faults = 0

Next ==
  \/ \E r \in Requests, w \in Words : Access(r, w)
  \/ swd_transaction \/ LineReset \/ LineResetBit \/ HostReset

Spec == Init /\ [][Next]_vars

(* Every attempt at an update makes finitely many accesses and begins with *)
(* fr_attach(), so with a line reset; no fault is fair.                    *)
FairSpec ==
  /\ Spec
  /\ WF_vars(swd_transaction \/ LineResetBit)
  /\ WF_vars(\E r \in Requests, w \in Words : Access(r, w))
  /\ SF_vars(LineReset)

TypeOK ==
  /\ pc \in {"returned", "request", "trnAck", "ack", "trnRead", "rdata", "trnBack",
             "trnWrite", "wdata", "high1", "switch", "high2", "low"}
  /\ n \in Nat \ {0} /\ req \in Requests /\ data \in Seq(Bit) /\ got \in Seq(Bit)
  /\ attempt \in 1..SWD_MAX_RETRIES /\ out \in BOOLEAN
  /\ failures \in 0..2 /\ clean \in BOOLEAN
  /\ rc \in {"ok", "ready", "reset", "EIO", "EPROTO", "EBADMSG", "ETIMEDOUT", "EGPIO"}
  /\ t \in {"idle", "request", "toAck", "ack", "toRead", "read", "toWrite", "write", "turn", "deaf"}
  /\ heard \in Seq(Bit) /\ treq \in Request /\ answer \in DOMAIN AckBits
  /\ ones \in 0..ResetOnes /\ busy \in 0..MaxBusy
  /\ sticky \in BOOLEAN /\ noise \in BOOLEAN /\ faults \in 0..MaxFaults

-------------------------------------------------------------------------------
(* Properties *)

Resetting == pc \in DOMAIN ResetPhases

(* An undisturbed line reset is over, and no access has failed since. *)
trusted == clean /\ failures = 0 /\ rc # "reset" /\ ~Resetting

(* While every access has succeeded, 0 is never a lie: the port was at the *)
(* very access that the driver asked for, a read returned the word that    *)
(* was sent, and a write was taken, or the port has dropped it and says so *)
(* with a sticky error at the next access to the AP.  One misread bit per  *)
(* access is caught by one of the parities, the fixed bits or the ACK.     *)
OkIsTrue ==
  pc = "returned" /\ rc = "ok" /\ trusted =>
    /\ treq = req
    /\ IF req.rn = 1 THEN data = word ELSE taken = <<req, data>> \/ (sticky /\ noise)

(* Nothing but the count of cycles tells the two ends when to let go of    *)
(* SWDIO: they never drive it at the same time.                            *)
NoContention == trusted => ~(out /\ PortDrives)

(* However one of its bits was misread, an access that succeeds leaves the *)
(* port ready for the start bit of the next one: host and port agree on    *)
(* where they are.                                                         *)
InStep == pc = "returned" /\ trusted => t = "idle"

(* However the line was disturbed, and wherever the STM32 was reset, once  *)
(* the faults are over another attempt's line reset brings the port back   *)
(* and an access succeeds, unless a sticky error is pending.               *)
Recovers ==
  faults = MaxFaults ~> (pc = "returned" /\ rc = "ok" /\ trusted) \/ sticky

(* swd.h:50: after swd_line_reset() "the target is in SWD mode and ready   *)
(* for a DPIDR read", which, with no fault at all, succeeds.               *)
ReadyForDpidr ==
  /\ faults = 0 /\ pc = "returned" /\ rc \notin {"reset", "ready"}
  /\ req = [ap |-> 0, rn |-> 1, a2 |-> 0, a3 |-> 0]
  => rc = "ok"
===============================================================================
