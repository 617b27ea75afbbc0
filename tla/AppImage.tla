------------------------------- MODULE AppImage -------------------------------
(***************************************************************************)
(* What the bootloader asks of an application image before it starts it:  *)
(* the two words of the Cortex-M vector table at the start of the          *)
(* application flash (app_jump.c) against the memory map                   *)
(* (memory_layout.h).  Addresses are numbers; a .cfg gives a small map     *)
(* with the same order of regions as the STM32F411.                        *)
(***************************************************************************)
EXTENDS Naturals

CONSTANTS
  ALONZO_SRAM_BASE, ALONZO_SRAM_END,  \* SRAM is (BASE .. END-1)
  ALONZO_APP_START, ALONZO_APP_END,   \* application flash is (START .. END-1)
  ErasedWord                          \* a word of erased flash, 0xFFFFFFFF

ASSUME MemoryMapAssumption ==
  /\ ALONZO_SRAM_BASE \in Nat /\ ALONZO_SRAM_END \in Nat
  /\ ALONZO_APP_START \in Nat /\ ALONZO_APP_END \in Nat
  /\ ErasedWord \in Nat
  /\ ALONZO_APP_START < ALONZO_APP_END
  /\ ALONZO_APP_END <= ALONZO_SRAM_BASE
  /\ ALONZO_SRAM_BASE < ALONZO_SRAM_END
  /\ ALONZO_SRAM_END < ErasedWord

(* vt[0] and vt[1] of the image's vector table *)
VectorTable == [msp : Nat, reset : Nat]

ErasedVector == [msp |-> ErasedWord, reset |-> ErasedWord]

msp_in_sram(msp) == ALONZO_SRAM_BASE < msp /\ msp < ALONZO_SRAM_END

addr_in_app_flash(addr) == ALONZO_APP_START <= addr /\ addr < ALONZO_APP_END

app_image_valid(vt) ==
  /\ msp_in_sram(vt.msp)
  /\ addr_in_app_flash(vt.reset)
  /\ vt.reset % 2 = 0

(* A vector table as a Cortex-M linker emits it: the reset vector is the   *)
(* address of a Thumb function, so its bit 0 is set (the same rule that    *)
(* flm_elf.c applies to the entry points of the flash algorithm).          *)
ThumbEntry(vt) ==
  /\ msp_in_sram(vt.msp)
  /\ addr_in_app_flash(vt.reset)
  /\ vt.reset % 2 = 1
===============================================================================
