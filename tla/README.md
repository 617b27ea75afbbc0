# A verification of the Alonzo bootloader

TLA+ models of the bootloader in this repository, the model checking that TLC
does on small instances of them, and theorems that TLAPS proves for all
instances. Paths such as `main.c` and `fr8016.c` are those of `src/`,
`src/fr8016/` and `include/` of the repository.

## The system

The bootloader runs once per boot on an STM32F411, in one thread. It mounts a TF
card, installs what it finds there, and starts the application or stops in an
error loop with the red LED on. Two updates can be on the card:

* `firmware.bin`, for the STM32's own application flash, and
* `ble.bin` together with `FR8010H.FLM`, for the FR8016HA BLE co-processor. The
  `.FLM` is the vendor's flash algorithm; the bootloader loads it into the RAM of
  the FR8016HA over bit-banged SWD and runs its routines there.

Whatever happens, an installed file is deleted and a file that was not installed
is kept, and the next boot tries again. All state that outlives a boot is on the
card and in the two flash memories; there is one application slot and one BLE
image, so an interrupted update leaves nothing to fall back to but the file.

| Part | State it keeps | Operations | Correct when | Module |
|---|---|---|---|---|
| boot outcome (`main.c`) | `rc`, the LEDs | `main`, `error_loop` | starts only what is complete; green only when nothing is left to do | `Bootloader` |
| update order (`update.c`, `tf.c`) | files on the card | `update_apply`, `tf_mount`, `tf_file_exists` | firmware before BLE, over failures and boots | `Bootloader` |
| application update (`firmware_update.c`) | application flash, `firmware.bin` | `firmware_update`, `erase_app_region` | never without image and file; deleted only when installed; eventually installed | `Bootloader` |
| LEDs (`led.c`) | which are lit | `led_set`, `led_toggle`, `led_all_off` | as for the boot outcome | `Bootloader` |
| image check (`app_jump.c`, `memory_layout.h`) | - | `app_image_valid` | accepts what is installed, refuses erased flash | `AppImage` |
| hand-off (`app_jump.c`) | interrupt and stack registers | `app_jump` | the application starts as after a reset | not modelled |
| BLE update (`ble_update.c`) | both files, FR8016HA flash | `ble_update` | never without image and files; deleted only when verified | `BleUpdate` (promise) |
| FR8016HA programming (`fr8016.c`) | the above, PA2/PA3, the open file | `fr8016_update` and its loops | implements the promise, cleans up on every path | `Fr8016Update` |
| loading (`fr8016.c`, `flm.c`) | RAM of the FR8016HA | `fr_load_flm`, `fr_attach`, `fr_work_layout`, `flm_load` | a 0 means that the RAM holds the file, and nothing else was written | `FlmLoad` |
| FLM runtime (`flm.c`) | registers of the FR8016HA | `flm_call`, `flm_run` | a 0 is the result of the routine that was asked for | `FlmRuntime` |
| debug driver (`cortexm.c`) | DHCSR, DEMCR, AIRCR | `cm_halt`, `cm_resume`, `cm_reset`, `cm_run`, register access | the core is where the driver says it is | `FlmRuntime` |
| DAP (`dap.c`) | power, SELECT, CSW, TAR, sticky errors | `mem_read32`, `mem_write32`, `dap_init` | an access happens at its address or is reported | `FlmLoad` (`FlmRuntime` takes its outcomes) |
| SWD wire (`swd.c`) | direction of SWDIO | `swd_transaction`, its retries, `swd_line_reset` | both ends agree on the cycle and on who drives the line; a 0 is true | `SwdWire` |
| .FLM parser (`flm_elf.c`) | - | `flm_elf_parse`, `sec_get`, `sym_get` | only complete files; entries are those of the routines | `FlmImage` |

The bring-up self-tests (`CONFIG_ALONZO_FR8016_SWD_SELFTEST`, `cm_selftest`,
`dap_selftest`, `flm_selftest`) are left out.

### How the parts interact, and what is hard

The STM32's program is sequential: parts call each other and share the card.
Four things make it hard all the same.

* **Power goes at any step.** Erase and program are not atomic; a boot can be cut
  between any two calls, and the next boot sees only files and flash.
* **The FR8016HA is a second processor.** A routine that `flm_call()` gives up on
  (a time-out, or one failed read of DHCSR) keeps running, also over a reset of
  the STM32, while the bootloader cleans up, returns, and later comes back.
* **Any call can fail, and so can the clean-up.** Errors of `stat` read as "no such
  file"; a mount error reads as "no card"; results of the clean-up are ignored.
  An SWD write can be lost after its acknowledge, and a sticky error turns
  every later access into a failure.
* **One wire, no framing.** On SWDIO only the count of clock cycles tells the two
  ends which bit it is and who drives it. A misread bit or a reset of the STM32
  puts them out of step until the next line reset.

`PROJECT.json` lists these hazards at their lines with the properties that would
catch them.

## The modules

* `AppImage` - the vector check as operators, over a memory map of CONSTANTS.
* `BleUpdate` - the promise of `ble_update()`: two files, the content of the
  FR8016HA flash, a stage, and whether an operation was left running. It is the
  abstract specification of `Fr8016Update` and the BLE stage of `Bootloader`.
* `Bootloader` - EXTENDS both. `pc` names the next call that can fail or be cut;
  one action is one such call with its effects and its place in the callers:
  `Mount`, `FirmwareFound`, `Open`, `SizeAccepted`, `EraseSector`, `WriteChunk`,
  `EndOfFile`, `Close`, `Unlink`, ... Error returns are `Fail`, shared as in the
  code. `app` is the application region in chunks of `FW_CHUNK_SIZE`; sectors
  group chunks. NOR flash takes new data only where it is erased (`Programmed`);
  anything else and anything cut short is `Torn`. `Resolve`, `StartApp` and
  `ErrorLoop` are the end of `main()`: it takes the final LED state from `rc`, reads
  the two vector words from flash, where a torn first chunk can read as anything
  the flash may show, and starts the application or stops. `missed` is a history of
  the updates on the card that this boot did not see.
* `Fr8016Update` - `fr8016_update()` call by call. `OnError` is the table of its
  `goto`s. `flash` is the FR8016HA flash in pages, `core` and `op` the routine that
  may be running there without its caller. `Abstract` maps it to `BleUpdate`: the
  content is an image when all its pages are there, and something is in flight
  while a lost routine still has pages to change.
* `FlmRuntime` - below it: the accesses that make up the calls, and the core as a
  process of its own. `call` goes through the routines of one update; between the
  last program and UnInit, `Verify` is `fr_verify()`, which succeeds or, as a fault,
  cannot read or finds a mismatch. `regs` says for which call each of the eight registers is
  set, `chalt`, `vc`, `pending` are the debug controls, `sticky` the DP's error
  state, `ran` a history of the routines that really ran. `WriteDropped` is a write
  that the host takes for done.
* `FlmImage` - the parser and the two layouts as operators: which files
  `flm_elf_parse()` accepts, where the routines are entered, what
  `fr_work_layout()` and `flm_load()` compute each for itself. A file is a record:
  its sections, its symbols, and whether the ELF header and the sector
  addresses are as wanted.
* `FlmLoad` - EXTENDS it: loading, access by access. `todo` is the list of
  register accesses of the phase the driver is in, built by operators with the
  names of the functions that make them (`mem_write32`, `cm_halt`, `flm_load`), and
  `n` the one that is next; a poll goes back in it, at most `Retries - 1` times, and
  `tries` counts over the whole poll, all accesses of a repeated read included. `select`, `csw`, `tar`, `rdbuff`, `power`, `sticky` are the debug port
  and the MEM-AP, `core` and `mem` the FR8016HA, whose firmware writes its RAM
  until it is halted.
* `SwdWire` - below all of them: the wire, cycle by cycle. `pc` and `n` are the
  phase of `swd_transaction()` or `swd_line_reset()` and the bit in it, `t` and
  `heard` those of the debug port; `Cycle` is one cycle of SWCLK, in which both
  move. `noise` says that a bit of this access was misread. `FlmLoad` and
  `FlmRuntime` may use that an access either returns an error or does what it
  says because `OkIsTrue` is proved of it; the exception, a write dropped with a
  0, is an action in both.
* `MCBootloader`, `MCFr8016Update`, `MCFlmRuntime`, `MCFlmLoad`, `MCSwdWire` - small
  instances.
* `BleUpdateProofs`, `BootloaderProofs`, `Fr8016UpdateProofs`, `FlmRuntimeProofs`,
  `FlmLoadProofs`, `SwdWireProofs` - the theorems.

`PROJECT.json` maps each definition to the lines it stands for. Definitions
marked "Seeded fault" are no part of any specification: each is a plausible bug
in the code, put in place of the real definition to see that a property catches it.

### What the models assume

* An unlink is atomic with respect to a power loss, and one that fails leaves
  the file. File content does not change while the device is on.
* The STM32's flash driver is honest: a write that returns 0 wrote what it was
  given (the code has no read-back there). The routines of the `.FLM` are not
  trusted: a page can come out wrong with a result of 0.
* The user copies only files that the card does not hold yet, with the device
  off. A new device has an application or a blank flash with a good file.
* Above `FlmLoad`, which has files of all kinds, a `.FLM` that is on the card can be
  parsed; one that cannot counts as a fault, as do an absent card and a full
  table of open files.
* Registers of a running core do not change when they are written over SWD, and
  S_REGRDY then says nothing (the architecture leaves it open).
* A core obeys C_HALT; a requested reset is served before the STM32 has booted
  again. The reset clears C_HALT and keeps the vector catch.
* Sizes are units: chunks of the application region and pages of the FR8016HA.
  The blink timing and messages are left out. `FlmImage` counts bytes; the
  sections of a file that parses are in the file, far too small for the sums of
  32 bits to wrap.
* The debug port of the FR8016HA is not in the repository. `SwdWire` has three
  constants for what is in doubt, the parity of a request, a turnaround before
  read data and one after WAIT and FAULT. `swd_safety` sets them to the port that
  the driver is written for, `swd_arm` to the one that ARM describes.
* A bit is sampled in its cycle, or misread; at most one of an access is, for
  two would get past any parity. A port that has heard 50 ones in a row starts
  anew, in whatever phase.
* The linker gives a global symbol of a routine the address of its first
  instruction, with bit 0 as it likes (`LinkAssumption`). `flm_elf_parse()` cannot
  check that, and `CallsTheRoutine` is about what the bootloader makes of it.
* In `FlmLoad` SELECT is anything at power-on, and the firmware, as long as it
  runs, overwrites the whole RAM at any time, in one step to keep the states few.

## The runs

Faults are bounded by `MaxFaults` in the guards: failing calls, lost answers,
misread bits, power losses and restarts in the middle of something all count,
in any mix and at any point. Boots are not bounded. Two faults let a failing
clean-up follow a failure, or a power loss hit the retry of a failure; the runs
take three.

* `Bootloader`, `Fr8016Update`: `Images` has one image for each outcome of the size
  and vector checks; three chunks in two sectors give a sector with two chunks,
  one with one, and an image that ends inside a sector; four pages in two
  sectors do the same for the FR8016HA, and `odd` ends inside a sector.
* `FlmRuntime`: the one update has a routine of each kind and two pages for one
  buffer.
* `FlmLoad`: 48 bytes of RAM hold the code, the stub, a page buffer, a stack and
  one, two or three words of data, of which two fit exactly and three do not; files
  that the parser refuses (a bad header or sector address, a section that is
  missing or not in the file, a `DevDscr` one byte too short, a symbol that is local
  or lies outside the code) or that the copy refuses. A poll
  ends after two reads, that of `CTRL/STAT` and that of DHCSR alike: so a boot can
  give up on a core that has not halted yet, without any fault, and `RetryLoads`
  has to hold through such boots.
* `SwdWire`: words of 8 bits, one of each parity, since nothing but the end of a
  word depends on its length; a read and a write of the AP and a read of the
  debug port that a sticky error does not stop; up to two WAITs, which is one
  more than two tries survive; line resets in full length (51 and 50 cycles,
  as the margin of one is the point). One fault: a restart or misread bit in any
  cycle of any access, with all that follows from it.

| Run | Shows |
|---|---|
| `boot_safety` | `AppRecoverable`, `DeletedOnlyWhenInstalled`, `FirmwareFirst`, `BleRecoverable`, `JumpOnlyIntact`, `GreenMeansDone`: no sequence of failures and power losses strands the device, drops a file too early, flashes BLE out of turn, starts a torn image that this boot could have repaired, or lights green while something is left to do that this boot could see. `FirmwareInstalled`, `BleInstalled`: every usable update is installed in the end - the BLE one unless a `firmware.bin` of a bad size sits on the card, which stops every boot before it |
| `fr_safety` | `DeletedOnlyWhenRunning`, `ReturnClean`, `FaultFreeSucceeds`, `ImplementsBleUpdate`: the detailed update is a refinement of `BleUpdate`, deletes `ble.bin` only once the FR8016HA runs it, cleans up on every path, and fails only when something does. `UpdateSucceeds`: whatever was in the flash and whatever failed before, the pair is installed in the end |
| `flm_safety` | `OwnResult`, `StableSetup`: before the first failure, a 0 is the result of the routine that was asked for, and nothing is written under a running core. `FirmwareRestarts`, `RetrySucceeds`: the FR8016HA comes back to its firmware after a success, and a retry copes with everything an earlier boot can leave except a sticky error |
| `load_safety` | `LoadedExactly`, `CallsTheRoutine`: a 0 means that the core is halted, the RAM holds the file and the stub, and each routine is entered at its first instruction. `NoStrayWrite`, `UntouchedByBadFile`: the STM32 writes right words at their addresses only, to a halted core, and does not touch the FR8016HA for a file that does not parse. `RegionsApart`, `FaultFreeLoads`, `RetryLoads`: the two layouts agree, exactly the files that fit are loaded, and a later boot loads what an earlier one failed to |
| `swd_safety` | `OkIsTrue`: from a line reset to the first failure, an access that returns 0 was that access, with that word. `NoContention`, `InStep`: the two ends never drive at once, and every access that succeeds, misread bit or not, ends with the port ready for the next start bit. `Recovers`: the next line reset repairs whatever went wrong |

Two things that `load_safety` shows come about in a way one would not guess. The
last write of the load, if the port drops it, is noticed only because
`flm_load()` ends with a `cm_halt()`: in any other order of the same calls
`LoadedExactly` fails. And the checks of `flm_load()` never refuse what
`fr_work_layout()` has accepted; but both come after `fr_attach()`, so a file that
is too large, or whose sections are no multiple of four, is refused only when
the FR8016HA is halted already, and leaves it halted.

Runs that expect a violation, each of a sentence the repository says:

| Run | Sentence | What happens |
|---|---|---|
| `boot_thumb` | `flm_elf.c:233` entry functions have their LSB set; `app_jump.h:17` | `app_image_valid()` wants bit 0 of the reset vector clear and refuses every image a Cortex-M linker makes; so the other runs must use images with an even reset vector to see a start at all |
| `boot_first` | `update.c:21` "always firmware.bin first" | a failing stat of `firmware.bin` reads as absence |
| `fr_files` | `fr8016.h:29` on failure both files are kept | second unlink fails, `ble.bin` is gone |
| `swd_arm` | `swd.h:50` ready for a DPIDR read after the line reset | `swd_build_request()` gives the request odd parity (`swd.c:158`), and a port of ARM's kind ignores it. Beyond that it has no turnaround before read data (`swd.c:210`) and one after WAIT and FAULT (`swd.c:199`) |
| `flm_zero` | `flm.h:117` 0 is success | clean-up's `flm_uninit()` takes a lost routine's halt for its own |
| `flm_vector` | `cortexm.h:115` halts at the reset vector | the halt from before the reset is enough; `FirmwareRestarts` shows that it does no harm in the update |
| `flm_sticky` | `cortexm.h:145` clear errors before retrying | nobody does |

Two more behaviours are in the models and in no run of their own. An unmounted
card hides the repair of a torn application, which then starts if its two
vector words look right: `JumpOnlyIntact` excepts the boots that missed a
`firmware.bin`. When `swd_init()` fails half way, `fr8016_update()` returns
without `fr_restore_usart2()`: `ReturnClean` speaks only of pins that are both
taken (`pins = "half"` is that exit).

### Fairness

`Bootloader`: weak fairness of the program's fault-free steps (the processor
runs), of `PowerOff` and `PowerOn` (the user keeps switching the device on), and
of the end of a routine left behind. `Fr8016Update`: likewise, the next boot
being a power cycle of both chips; without it a sticky error could go on for
ever. `FlmRuntime`: the STM32's fault-free steps and the core's steps. `FlmLoad`:
the driver's steps, the next boot, the halt and the power-up that the core and
the port owe. `SwdWire`: the cycles of a transaction, the next access, and strong
fairness of the line reset: each attempt makes finitely many accesses and
begins with one. No fault, restart in the middle, or copy by the user is fair. These let the
liveness properties say "after finitely many faults" and nothing stronger.

## What is proved

All theorems hold for every value of the constants that the named assumptions
allow (`MemoryMapAssumption`, `BleValuesAssumption`, `BootAssumption`,
`FrAssumption`, `CallsAssumption`, `LayoutAssumption`, `LoadAssumption`,
`LinkAssumption`, `WireAssumption`): any number of chunks, pages, sectors and
images, any sector map, sizes and vectors, any sequence of routines that starts
with Init and ends with UnInit, any files, any sizes of sections, RAM, buffer and
stack, any words and accesses, any `MaxFaults`. Three theorems about the wire state
two hypotheses of their own (see `SwdWireProofs`).

Every safety invariant and every action property of the runs that pass is the
property of a theorem, and so is the refinement.

* `BleUpdateProofs`: `BleStaysRecoverable`. The inductive invariant adds to
  `BleRecoverable` what each stage knows: up to the first unlink both files are
  there, from "flashing" on nothing is in flight, at "verified" the flash holds
  `ble.bin`, and at "orphan" (between the two unlinks) a complete image.
* `BootloaderProofs`: `TypeCorrect`, `AppStaysRecoverable`,
  `DeletesOnlyInstalled`, `FirmwareComesFirst`, `FrStaysRecoverable`,
  `JumpsToIntact`, `GreenOnlyWhenDone`. `AppRecoverable` is not inductive: that the
  file may be dropped at the unlink has to be known from the erase on.
  `InstallProgress` says it: during the erase the first `idx - 1` sectors are
  blank, during the write the first `idx - 1` chunks hold the image and the rest
  are blank, and from the close on the flash is exactly the installed image;
  past the size check the image is one that fits. `Ordering` carries the order of the updates: the
  BLE stage is active only at its place in `update_apply()`, which is reached
  with no `firmware.bin` or in a boot that missed it. `Outcome` carries the result to
  the end of the boot: when `ble_update()` is done, and from there on while `rc` has
  no error, no complete BLE update waits (`BleServed`), and green is lit after that
  only. With `Ordering` and `BleRecoverable` this is `GreenOnlyWhenDone`. The BLE half is taken from
  `BleUpdateProofs` through one lemma (`BleFollows`): every step of `Bootloader`
  is a step of `BleUpdate` or leaves its variables alone.
* `FlmRuntimeProofs`: `TypeCorrect`, `ReturnsOwnResult`, `SetupIsStable`. That a 0
  is the routine's own cannot be seen from the last access alone, so
  `CallProgress` follows a call that has not failed access by access: halted from
  the load on, the first `wr - 1` registers set for it, all eight at the resume,
  and at the poll either its routine runs with all that was set up for it or
  the core has halted with its answer (`Awaited`, `Answered`). A dropped write
  breaks this, but leaves the sticky error, and no later access of the call
  gets past that; `fr_verify()`, between two calls, ends on it too. Two facts about the rest of the system are needed beside it:
  only the PC of a call starts a routine (`RoutineOfCall`), and no reset of an
  earlier attempt is still to come (`NoReset`).

* `Fr8016UpdateProofs`: `TypeCorrect`, `ReturnsClean`, `FailsOnlyWithFaults`,
  `DeletesOnlyRunning` and `ImplementsPromise`, the refinement. The invariant has
  three parts. `Control`: which files and pins are whose at each call, and that the
  error paths, and they alone, carry an error. `Alone`: a routine without its
  caller works for the `ble.bin` that is still on the card, and none runs from
  `fr_attach()` on. `Progress`: the sectors before `idx` are blank, then the
  pages before `idx` are written and those after it blank, then the pages
  before `idx` compare equal, and from `flm_uninit()` to the first unlink all
  of `ble.bin` is there. `SectorsCover` is the arithmetic under it: the sectors
  that the loop erases cover the image and lie in the flash. For the refinement
  `ViewIs` and `ViewAfter` say what the content of the pages means to
  `BleUpdate`, `CutRoutine` and `CutOp` what a routine cut at any point makes of
  it; each action is then a stutter (`Stutters`), a failure (`GivesUp`), the end of
  a lost routine (`Settles`) or a step of its own. `StaysRecoverable` draws
  from it that the detailed update keeps the FR8016HA recoverable, too.
* `FlmLoadProofs`: `LayoutSafe`, `BadFileHarmless`, `LoadTyped`, `LoadIsExact`,
  `WritesWanted`, `FaultFreeLoad`, `CallsRoutine`. `LayoutSafe` is the arithmetic of
  rounding up to four; its invariant carries that the layout was accepted for
  the image at hand. The others are about lists of accesses whose length
  depends on the file. They need no induction, as a copy is a function of the
  position: the lemmas say of each list what its access at `k` finds before it
  (`WellMeant`: a transfer comes right after the TAR, CSW and SELECT that it needs,
  and a word of the RAM gets what is wanted there), what it is refused for
  (`Refuses`), which words it writes (`Puts`) and how it begins and ends, each lemma
  once for one function and once for two lists in a row. `LoadMeant` is their
  sum for `flm_load()`. The invariant `LoadInv` then has four parts beside the
  types: `ImageInv`, image and layout are those of the file; `AccessInv`, the
  port has power, and has been prepared by the last access for the next one or
  is in a sticky error; `MemInv`, from the layout on the core is halted, and what
  the accesses before `n` write is in the RAM or there is a sticky error;
  `DoneInv`, a return is as the properties want it. `LoadIsExact` rests on the last access of
  `flm_load()` being a read that a sticky error stops.
* `SwdWireProofs`: `WireTyped`, for every port; `OkIsNeverALie`, `NeverBothDrive` and
  `EndsInStep` for the port that the driver is written for (`PortOfDriver`: parity
  1, a turnaround before read data and none after WAIT and FAULT) and numbers
  that leave its line reset the time it needs (`ResetLongEnough`: no access has as
  many ones in a row as restart a port, `WordBits + 14 < ResetOnes`, and the longest
  access is over within a line reset, `WordBits + 16 <= LineHigh`). The code's
  32, 50 and 51 satisfy both, with little to spare, and so do the run's 8, 50 and
  51. The theorems are for words of any length, so for the 32 bits of the code,
  of which the run has 8.
  The invariant `WireInv` adds two parts to the types. `TrustInv`: as long as no
  access has failed, host and port are in matching phases at the same bit, and
  what one has received is what the other has sent but for at most one bit
  (`Near`). The exception is a start bit that was misread: then the port takes a
  later bit for it, or is deaf, but the eighth bit of a request and the pull-up
  after it are ones, so it never has a request that is good (`Lost`), and no ACK
  comes. Of the other 7 bits of a request each is told by the parity or is one of
  the two fixed bits (`SpoiledIsNot`), the ACKs are two bits apart (`AcksApart`), and
  a word is told by its parity (`ParityTells`); all rest on `ParityFlips`, that one
  changed bit changes the parity of any number of bits. `ResetInv` is about the
  line reset: the cycles of ones that the port still needs from wherever it was
  (`Finishes`) are at most those that are left, then it is deaf or started anew,
  the switch sequence is no request to it, and the second line reset starts it
  anew in any case.

The proofs corrected the model twice. `PortBit` and `Cycle` of `SwdWire` had CASE
guards that overlapped, of which TLC takes the first and a proof may take none.
And `InStep` used to leave out the accesses with a misread bit; it holds for them
as well.

Only model-checked: liveness, for fairness and ENABLED are not within reach of the
prover: `FirmwareInstalled`, `BleInstalled`, `UpdateSucceeds`, `FirmwareRestarts`,
`RetrySucceeds`, `RetryLoads`, `Recovers`. And that the sentences of the seven runs
that expect a violation are violated, which takes one behaviour each.

## Not modelled, and the plan

* `app_jump()` past the vector check: it runs once, to its end, with interrupts
  masked, and its register writes meet no other actor; a model would restate the
  assignments. Reading shows two things. The loop under the comment "Clear every
  pending NVIC interrupt" (`app_jump.c:56`) writes `ICER`, which disables the
  interrupts and leaves them pending. And `__set_MSP()` is the live stack pointer only
  if `main()` runs on it; under an RTOS thread the application starts on the
  bootloader's process stack, with interrupts still masked.
* The self-tests (`swd_selftest`, `dap_selftest` with `dap_read_ap_idr`,
  `cm_selftest`, `flm_selftest`), and `dap_clear_errors`, which only they call.
* The bytes of a page: the padding of a partial last page, the comparison of
  its length, and a `page_size` or `sector_size` of 0 in a `.FLM`, which divides
  by zero or never ends the loop at `fr8016.c:243`. `FrAssumption` asks for a sane
  geometry.
* What accesses to a port that is out of step may do between the first failure
  and the next line reset. The clean-up makes some (`flm_uninit()` after an unreadable
  ACK); the port may take the tail of one for the head of another.
* Timing: how long SWCLK is, the blink of the LED, the time-outs of the polls,
  which end after any number of reads within their bound.

Worth doing next, in this order: a composition of `FlmLoad` and `FlmRuntime`, so that
the calls run what the load has left; the pages in bytes; an abstract access (it
happens, fails, or is dropped with a sticky error) that `SwdWire` is shown to
implement and the modules above it to use.
