------------------------------- MODULE FlmLoad --------------------------------
(***************************************************************************)
(* Loading the .FLM into the FR8016HA, access by access: fr_load_flm(),    *)
(* fr_attach(), fr_work_layout() and flm_load() over mem_read32() and      *)
(* mem_write32(), of which each is a few accesses to the registers of the  *)
(* debug port and the MEM-AP (dap.c).                                      *)
(*                                                                         *)
(* What one access may do is what SwdWire shows of swd.c: it succeeds, it  *)
(* returns an error, or a write is dropped and the port, which answers 0   *)
(* to that one, answers FAULT from then on.                                *)
(*                                                                         *)
(* The firmware of the FR8016HA runs, and writes its RAM, until halted.    *)
(***************************************************************************)
EXTENDS FlmImage

CONSTANTS
  Files,       \* the .FLM files that may be on the card, see FlmImage
  Retries,     \* bound of a poll: CM_HALT_RETRIES and DAP_POWERUP_RETRIES
  MaxFaults    \* bound: failing or dropped accesses and restarts

ASSUME LoadAssumption ==
  /\ Retries \in Nat \ {0} /\ MaxFaults \in Nat
  /\ \A f \in Files :
       /\ \A i \in DOMAIN f.sections : i \in Nat /\ f.sections[i].size \in Nat
       /\ DOMAIN f.symbols \subseteq Nat
  /\ RAM_BASE # 0                      \* DHCSR is not in the RAM

(* The linker: a global symbol of a routine has the address of its first   *)
(* instruction, which the model gives a word of its own and its name.      *)
ASSUME LinkAssumption ==
  \A f \in Files : Parses(f) =>
    \A i \in DOMAIN f.symbols :
      LET code == sec_get(f, "PrgCode")
          s == f.symbols[i]
          at == s.value - (s.value % 2) - code.addr
      IN  s.global /\ s.name \in Routines =>
            /\ s.value \in Nat /\ code.addr \in Nat
            /\ at \in 0..(code.size - 1) /\ at % 4 = 0
            /\ code.words[(at \div 4) + 1] = s.name

VARIABLES
  pc,          \* "off", "attach", "load" or "returned"
  rc,          \* of the loading: "ok" or "err"
  n,           \* the access of todo that is next
  tries,       \* reads left to the poll under way, or to the next one
  img, work,   \* the parsed image and the layout
  file,        \* the .FLM on the card
  (* the debug port and the MEM-AP *)
  power, select, csw, tar, rdbuff, sticky,
  (* the FR8016HA *)
  core,        \* "running", "halting" or "halted"
  mem,         \* its RAM, word by word
  faults

host == <<pc, rc, n, tries, img, work>>
dap == <<power, select, csw, tar, rdbuff, sticky>>
target == <<core, mem>>
vars == <<host, file, dap, target, faults>>

DHCSR == 0                             \* an address outside of the RAM
Fw == "Fw"                             \* what the firmware keeps in a word
BKPT == "BKPT"
RamWords == {a \in RAM_BASE..(RAM_BASE + RAM_SIZE - 1) : a % 4 = 0}

Fault == faults < MaxFaults /\ faults' = faults + 1

-------------------------------------------------------------------------------
(* The accesses of each function *)

To(reg, v) == [reg |-> reg, v |-> v]
From(reg) == [reg |-> reg, v |-> 0]

dap_select == To("SELECT", 0)

mem_ap_setup(addr) == <<dap_select, To("CSW", "word"), To("TAR", addr)>>

mem_write32(addr, word) == mem_ap_setup(addr) \o <<To("DRW", word)>>

(* mem_read32(DHCSR): the read of DRW posts, RDBUFF has the value. *)
PollHalt == mem_ap_setup(DHCSR) \o <<From("readDRW"), From("RDBUFF")>>

(* Seeded fault: no dap_power_up(). *)
dap_init_unpowered == <<dap_select>>

dap_init == <<To("CTRLSTAT", "powerup"), From("readCTRLSTAT"), dap_select>>

(* Seeded fault: the halt is requested, not awaited. *)
cm_halt_unawaited == mem_write32(DHCSR, "halt")

cm_halt == mem_write32(DHCSR, "halt") \o PollHalt

fr_attach == dap_init \o cm_halt

(* flm_copy_to_ram(): EINVAL before the first word unless both are aligned; *)
(* then four accesses for the four bytes of each word.                     *)
flm_copy_to_ram(dst, words, len) ==
  IF dst % 4 # 0 \/ len % 4 # 0 THEN <<From("EINVAL")>>
  ELSE [k \in 1..len |->
          LET i == (k - 1) \div 4
          IN  mem_write32(dst + 4 * i, words[i + 1])[((k - 1) % 4) + 1]]

(* Seeded fault: the halt comes before the copy. *)
flm_load_halt_first ==
  dap_init \o cm_halt
  \o flm_copy_to_ram(work.code_base, img.code, img.code_size)
  \o flm_copy_to_ram(work.data_base, img.data, img.data_size)
  \o mem_write32(BkptOf(work, img.data_size), BKPT)

flm_load ==
  dap_init
  \o flm_copy_to_ram(work.code_base, img.code, img.code_size)
  \o flm_copy_to_ram(work.data_base, img.data, img.data_size)
  \o mem_write32(BkptOf(work, img.data_size), BKPT)
  \o cm_halt

(* The accesses before the next decision. *)
todo == CASE pc = "attach" -> fr_attach [] pc = "load" -> flm_load [] OTHER -> <<>>

-------------------------------------------------------------------------------
(* What the debug port, the MEM-AP and the core do with an access *)

(* CSW for words, the bank of DRW selected: DRW is the word at TAR, and TAR *)
(* moves on.                                                                *)
Transfers == select = 0 /\ csw = "word"

Perform(a) ==
  /\ power' = IF a.reg = "CTRLSTAT" /\ power = "off" THEN "requested" ELSE power
  /\ select' = IF a.reg = "SELECT" THEN a.v ELSE select
  /\ csw' = IF a.reg = "CSW" THEN a.v ELSE csw
  /\ tar' = CASE a.reg = "TAR" -> a.v
              [] a.reg \in {"DRW", "readDRW"} /\ Transfers -> tar + 4
              [] OTHER -> tar
  /\ rdbuff' = IF a.reg = "readDRW" /\ Transfers THEN tar = DHCSR /\ core = "halted" ELSE rdbuff
  /\ core' = IF a.reg = "DRW" /\ Transfers /\ tar = DHCSR /\ core = "running"
             THEN "halting" ELSE core
  /\ mem' = IF a.reg = "DRW" /\ Transfers /\ tar \in RamWords
            THEN [mem EXCEPT ![tar] = a.v] ELSE mem
  /\ UNCHANGED sticky

Writes == {"CTRLSTAT", "SELECT", "CSW", "TAR", "DRW"}
ToAP == {"CSW", "TAR", "DRW", "readDRW", "RDBUFF"}

(* FAULT: a sticky error, or the AP has no power. *)
Refused(a) ==
  \/ sticky /\ a.reg # "readCTRLSTAT"
  \/ power # "on" /\ a.reg \in ToAP

-------------------------------------------------------------------------------
(* The driver *)

Return(code) == pc' = "returned" /\ rc' = code /\ n' = 1 /\ UNCHANGED <<tries, img, work>>

(* The reads whose value a poll waits for; the accesses that only lead up  *)
(* to one leave its count alone.                                           *)
Polls == {"readCTRLSTAT", "RDBUFF"}

(* After the last access of fr_attach() the layout is checked, after the   *)
(* last one of flm_load() it is done.                                      *)
Proceed ==
  \/ /\ n < Len(todo)
     /\ n' = n + 1 /\ tries' = IF todo[n].reg \in Polls THEN Retries ELSE tries
     /\ UNCHANGED <<pc, rc, img, work>>
  \/ n = Len(todo) /\ pc = "load" /\ Return("ok")
  \/ /\ n = Len(todo) /\ pc = "attach"
     /\ pc' = "layout" /\ n' = 1
     /\ UNCHANGED <<rc, tries, img, work>>

(* Seeded fault: one poll more. *)
PollOnceMore(length) ==
  IF tries > 0 THEN /\ n' = n - (length - 1)
                    /\ tries' = tries - 1
                    /\ UNCHANGED <<pc, rc, img, work>>
  ELSE Return("err")

(* The value read is not the one awaited: the accesses of the read are made *)
(* again, or after Retries reads in all the poll times out.                 *)
PollAgain(length) ==
  IF tries > 1 THEN /\ n' = n - (length - 1)
                    /\ tries' = tries - 1
                    /\ UNCHANGED <<pc, rc, img, work>>
  ELSE Return("err")

AccessDone(a) ==
  /\ Perform(a)
  /\ CASE a.reg = "readCTRLSTAT" /\ power # "on" -> PollAgain(1)
       [] a.reg = "RDBUFF" /\ ~rdbuff -> PollAgain(Len(PollHalt))
       [] OTHER -> Proceed
  /\ UNCHANGED <<file, faults>>

Accesses == pc \in {"attach", "load"}

Access ==
  /\ Accesses
  /\ todo[n].reg # "EINVAL" /\ ~Refused(todo[n])
  /\ AccessDone(todo[n])

(* The first error ends the update. *)
AccessFaults ==
  /\ Accesses
  /\ todo[n].reg = "EINVAL" \/ Refused(todo[n])
  /\ Return("err")
  /\ UNCHANGED <<file, dap, target, faults>>

(* No valid ACK, or a bad parity: carried out or not. *)
AccessFails ==
  /\ Accesses
  /\ todo[n].reg # "EINVAL"
  /\ Fault
  /\ IF Refused(todo[n]) THEN UNCHANGED <<dap, target>>
     ELSE Perform(todo[n]) \/ UNCHANGED <<dap, target>>
  /\ Return("err")
  /\ UNCHANGED file

(* The port has not got the word of a write, or the bus reports an error. *)
AccessDropped ==
  /\ Accesses
  /\ todo[n].reg \in Writes \cup {"readDRW"} /\ ~Refused(todo[n])
  /\ Fault
  /\ sticky' = TRUE
  /\ Proceed
  /\ UNCHANGED <<file, power, select, csw, tar, rdbuff, target>>

(* Seeded fault: the target is halted before the file is parsed. *)
StartAttachFirst ==
  /\ pc = "off"
  /\ pc' = "attach" /\ n' = 1 /\ tries' = Retries
  /\ img' = IF Parses(file) THEN flm_image(file) ELSE img
  /\ UNCHANGED <<rc, work, file, dap, target, faults>>

(* fr8016_update(): fr_load_flm() comes before fr_attach(). *)
Start ==
  /\ pc = "off"
  /\ IF Parses(file)
     THEN /\ img' = flm_image(file)
          /\ pc' = "attach" /\ n' = 1 /\ tries' = Retries
          /\ UNCHANGED <<rc, work>>
     ELSE Return("err")
  /\ UNCHANGED <<file, dap, target, faults>>

(* fr_work_layout() and the checks of flm_load(). *)
Layout ==
  /\ pc = "layout"
  /\ LET w == fr_work(img.code_size, img.data_size)
     IN  IF LaidOut(w) /\ LoadAccepts(w, img.code_size, img.data_size)
         THEN /\ work' = w /\ pc' = "load" /\ n' = 1 /\ tries' = Retries
              /\ UNCHANGED <<rc, img>>
         ELSE Return("err")
  /\ UNCHANGED <<file, dap, target, faults>>

(* The next boot.  An update that went on ended with cm_run(). *)
Boot ==
  /\ pc' = "off" /\ n' = 1 /\ UNCHANGED <<rc, tries, img, work>>
  /\ UNCHANGED <<file, dap>>

NextBoot ==
  /\ pc = "returned"
  /\ Boot
  /\ core' = IF rc = "ok" THEN "running" ELSE core
  /\ UNCHANGED <<mem, faults>>

HostReset == pc \notin {"off", "returned"} /\ Fault /\ Boot /\ UNCHANGED target

(* The FR8016HA by itself *)
PowerComes ==
  /\ power = "requested" /\ power' = "on"
  /\ UNCHANGED <<host, file, select, csw, tar, rdbuff, sticky, target, faults>>

CoreHalts ==
  /\ core = "halting" /\ core' = "halted"
  /\ UNCHANGED <<host, file, dap, mem, faults>>

(* Running, the firmware uses its RAM; all of it at once, to keep the      *)
(* number of states small.                                                 *)
FirmwareWrites ==
  /\ core # "halted"
  /\ \E a \in RamWords : mem[a] # Fw
  /\ mem' = [a \in RamWords |-> Fw]
  /\ UNCHANGED <<host, file, dap, core, faults>>

NoImage == [code |-> <<>>, code_size |-> 0, data |-> <<>>, data_size |-> 0,
            entry |-> [r \in Routines |-> 0]]

Init ==
  /\ pc = "off" /\ rc = "err" /\ n = 1 /\ tries = Retries
  /\ img = NoImage /\ work = fr_work(0, 0)
  /\ file \in Files
  /\ power = "off" /\ select \in {0, 1} /\ csw = "byte" /\ tar = RAM_BASE /\ rdbuff = FALSE
  /\ sticky = FALSE
  /\ core = "running" /\ mem = [a \in RamWords |-> Fw]
  /\ faults = 0

Driver == Start \/ Access \/ AccessFaults \/ AccessFails \/ AccessDropped \/ Layout
Next == Driver \/ NextBoot \/ HostReset \/ PowerComes \/ CoreHalts \/ FirmwareWrites

Spec == Init /\ [][Next]_vars

(* The STM32 and the core run; the device is switched on again and again.  *)
FairSpec ==
  Spec /\ WF_vars(Driver) /\ WF_vars(NextBoot) /\ WF_vars(PowerComes) /\ WF_vars(CoreHalts)

-------------------------------------------------------------------------------
(* Properties *)

TypeOK ==
  /\ pc \in {"off", "attach", "layout", "load", "returned"} /\ rc \in {"ok", "err"}
  /\ tries \in 1..Retries
  /\ IF Accesses THEN n \in 1..Len(todo) ELSE n = 1
  /\ power \in {"off", "requested", "on"} /\ select \in {0, 1} /\ csw \in {"byte", "word"}
  /\ tar \in Nat /\ rdbuff \in BOOLEAN /\ sticky \in BOOLEAN
  /\ core \in {"running", "halting", "halted"}
  /\ DOMAIN mem = RamWords /\ faults \in 0..MaxFaults

(* What belongs into a word of the work area. *)
Wanted(a) ==
  LET i(base) == (a - base) \div 4 + 1
  IN  CASE a \in work.code_base..(work.code_base + img.code_size - 1) -> img.code[i(work.code_base)]
        [] a \in work.data_base..(work.data_base + img.data_size - 1) -> img.data[i(work.data_base)]
        [] a = BkptOf(work, img.data_size) -> BKPT
        [] OTHER -> Fw

Loaded == pc = "returned" /\ rc = "ok"

(* flm_load() returns 0: the core is halted and its RAM holds the code,    *)
(* the data and the stub, each word of them, though a write that the port  *)
(* has dropped has returned 0: the halt after the last one would fail.     *)
LoadedExactly ==
  Loaded => core = "halted" /\ \A a \in RamWords : Wanted(a) # Fw => mem[a] = Wanted(a)

(* Whatever access fails or is dropped before, a word that the STM32       *)
(* writes to the RAM is the right one at its own address, and the firmware *)
(* of the FR8016HA does not run any more.                                  *)
NoStrayWrite ==
  [][\A a \in RamWords : mem'[a] \notin {mem[a], Fw} =>
       core = "halted" /\ pc = "load" /\ mem'[a] = Wanted(a)]_vars

(* Where a call will set the PC, the first instruction of that routine is, *)
(* whatever address the code was linked for and whatever else has its name. *)
CallsTheRoutine ==
  Loaded => \A r \in Routines : mem[work.code_base + (img.entry[r] - (img.entry[r] % 2))] = r

(* fr8016.c and flm.c lay out the work area each for itself: still code,   *)
(* data, stub, page buffer and stack are apart and in the RAM.             *)
RegionsApart ==
  pc = "load" =>
    LET bkpt == BkptOf(work, img.data_size)
    IN  /\ RAM_BASE <= work.code_base
        /\ work.code_base + img.code_size <= work.data_base
        /\ work.data_base + img.data_size <= bkpt
        /\ bkpt + 4 <= work.page_buf
        /\ work.page_buf + FR_PAGE_BUF_SIZE <= work.stack_top - FLM_REQUIRED_STACK_SIZE
        /\ work.stack_top <= RAM_BASE + RAM_SIZE

Loadable ==
  /\ Parses(file)
  /\ LET c == sec_get(file, "PrgCode").size
         d == sec_get(file, "PrgData").size
     IN  /\ c % 4 = 0 /\ d % 4 = 0
         /\ c + d + 4 + FR_PAGE_BUF_SIZE + FLM_REQUIRED_STACK_SIZE <= RAM_SIZE

(* Without a fault exactly the files that can be loaded are, an exact fit  *)
(* among them, unless a poll has run out.                                  *)
FaultFreeLoads ==
  pc = "returned" /\ faults = 0 => (Loaded <=> Loadable) \/ (~Loaded /\ tries = 1)

(* A .FLM that does not parse leaves the FR8016HA as it was: the file is   *)
(* read "before touching USART2" (fr8016.c:375).                           *)
UntouchedByBadFile == ~Parses(file) => power = "off" /\ core = "running"

(* Wherever the STM32 was reset or an access failed, a later boot loads    *)
(* the file, unless a sticky error is pending.                             *)
RetryLoads == faults = MaxFaults /\ Loadable ~> Loaded \/ sticky
===============================================================================
