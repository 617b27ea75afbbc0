------------------------------- MODULE FlmImage -------------------------------
(***************************************************************************)
(* From the bytes of a .FLM to a place in the RAM of the FR8016HA: what    *)
(* flm_elf_parse() takes from the ELF file (flm_elf.c), and where          *)
(* fr_work_layout() (fr8016.c) and flm_load() (flm.c), each for itself,    *)
(* put it.  Addresses and sizes are in bytes.                              *)
(*                                                                         *)
(* A file is at most 64 KiB and its sections lie within it, so no sum of   *)
(* sizes reaches 2^32.                                                     *)
(***************************************************************************)
EXTENDS Integers, Sequences, FiniteSetsExt

CONSTANTS
  RAM_BASE, RAM_SIZE,        \* CONFIG_ALONZO_FR8016_RAM_*
  FR_PAGE_BUF_SIZE,          \* 256
  FLM_REQUIRED_STACK_SIZE    \* 512

ASSUME LayoutAssumption ==
  /\ RAM_BASE \in Nat /\ RAM_BASE % 4 = 0
  /\ RAM_SIZE \in Nat
  /\ FR_PAGE_BUF_SIZE \in Nat \ {0}
  /\ FLM_REQUIRED_STACK_SIZE \in Nat

DEV_SECTADDR_OFF == 164    \* 0xa4, of the first sector address in DevDscr

(* The names whose entry offsets are taken. *)
Routines == {"Init", "UnInit", "EraseChip", "EraseSector", "ProgramPage"}

(* A file: the header is that of a little-endian ELF32 with a section      *)
(* table; each section has its name, address, contents in words and size   *)
(* in bytes, and whether it lies within the file; the symbols of .symtab   *)
(* with their name, value and binding; and the first sector address of     *)
(* the FlashDevice descriptor.                                             *)

(* The first section of this name: what strcmp() meets first. *)
Sections(f, name) == {i \in DOMAIN f.sections : f.sections[i].name = name}
sec_get(f, name) == f.sections[Min(Sections(f, name))]
HasSection(f, name) == Sections(f, name) # {} /\ sec_get(f, name).inFile

(* Seeded fault: local symbols are taken, too. *)
AnySymbols(f, name) == {i \in DOMAIN f.symbols : f.symbols[i].name = name}

Symbols(f, name) == {i \in DOMAIN f.symbols : f.symbols[i].global /\ f.symbols[i].name = name}
sym_value(f, name) == f.symbols[Min(Symbols(f, name))].value

(* flm_elf_parse() returns 0. *)
Parses(f) ==
  /\ f.elf
  /\ \A name \in {"PrgCode", "PrgData", "DevDscr", ".symtab", ".strtab"} : HasSection(f, name)
  /\ sec_get(f, "DevDscr").size >= DEV_SECTADDR_OFF + 4
  /\ \A r \in Routines : Symbols(f, r) # {} /\ sym_value(f, r) % 2 = 1
  /\ f.sectaddr = 0
  /\ sec_get(f, "PrgCode").size # 0 /\ sec_get(f, "PrgData").size # 0

flm_image(f) ==
  LET code == sec_get(f, "PrgCode")
      data == sec_get(f, "PrgData")
  IN  [code |-> code.words, code_size |-> code.size,
       data |-> data.words, data_size |-> data.size,
       entry |-> [r \in Routines |-> sym_value(f, r) - code.addr]]

align4(a) == ((a + 3) \div 4) * 4

(* Seeded fault: the BKPT stub has no room of its own. *)
WorkWithoutStub(code_size, data_size) ==
  LET data_base == align4(RAM_BASE + code_size)
  IN  [code_base |-> RAM_BASE, data_base |-> data_base,
       page_buf |-> align4(data_base + data_size), stack_top |-> RAM_BASE + RAM_SIZE]

fr_work(code_size, data_size) ==
  LET data_base == align4(RAM_BASE + code_size)
  IN  [code_base |-> RAM_BASE, data_base |-> data_base,
       page_buf |-> align4(data_base + data_size + 4), stack_top |-> RAM_BASE + RAM_SIZE]

(* Seeded fault: a work area that fits exactly is refused. *)
LaidOutStrictly(w) ==
  /\ FLM_REQUIRED_STACK_SIZE <= RAM_SIZE
  /\ w.page_buf + FR_PAGE_BUF_SIZE < w.stack_top - FLM_REQUIRED_STACK_SIZE

(* fr_work_layout() returns 0. *)
LaidOut(w) ==
  /\ FLM_REQUIRED_STACK_SIZE <= RAM_SIZE
  /\ w.page_buf + FR_PAGE_BUF_SIZE <= w.stack_top - FLM_REQUIRED_STACK_SIZE

(* Where flm_load() puts the stub, from the same image and layout. *)
BkptOf(w, data_size) == align4(w.data_base + data_size)

(* The checks of flm_load(). *)
LoadAccepts(w, code_size, data_size) ==
  /\ w.code_base + code_size <= w.data_base
  /\ w.stack_top >= BkptOf(w, data_size) + 4 + FLM_REQUIRED_STACK_SIZE
===============================================================================
