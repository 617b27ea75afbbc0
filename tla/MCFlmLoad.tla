------------------------------ MODULE MCFlmLoad -------------------------------
(* Files like those of ARMCC, linked at 8, in which the first instruction  *)
(* of a routine has its name, and the ways in which one may not do.        *)
EXTENDS FlmLoad

MCCode == <<"Init", "UnInit", "EraseChip", "EraseSector", "ProgramPage">>
MCLinkedAt == 8

MCSection(name, words, size) ==
  [name |-> name, addr |-> MCLinkedAt, words |-> words, size |-> size, inFile |-> TRUE]

MCFile(data_size) ==
  [elf |-> TRUE, sectaddr |-> 0,
   sections |->
     <<MCSection("PrgCode", MCCode, 20), MCSection("PrgData", <<"d1", "d2">>, data_size),
       MCSection("DevDscr", <<>>, 168), MCSection(".symtab", <<>>, 96),
       MCSection(".strtab", <<>>, 64), MCSection("PrgData", <<"x1", "x2">>, 8)>>,
   symbols |->
     <<[name |-> "UnInit", global |-> FALSE, value |-> MCLinkedAt + 1]>>
     \o [i \in 1..5 |-> [name |-> MCCode[i], global |-> TRUE, value |-> MCLinkedAt + 4 * (i - 1) + 1]]]

MCFiles ==
  LET good == MCFile(8)
  IN  {good,
       MCFile(4), MCFile(12),                            \* one fits, one does not
       MCFile(6), MCFile(0),
       [good EXCEPT !.elf = FALSE], [good EXCEPT !.sectaddr = 4],
       [good EXCEPT !.sections[4].name = "none"], [good EXCEPT !.sections[1].inFile = FALSE],
       [good EXCEPT !.sections[3].size = 167],           \* the descriptor ends too early
       [good EXCEPT !.symbols[4].global = FALSE], [good EXCEPT !.symbols[5].value = 20]}
===============================================================================
