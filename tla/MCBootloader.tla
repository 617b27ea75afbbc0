----------------------------- MODULE MCBootloader ------------------------------
(* A small device for TLC: three chunks in two sectors, and one image for   *)
(* each case of the size check and of the vector check.                     *)
EXTENDS Bootloader

CONSTANTS good, full, thumb, empty, huge, b1, b2

MCSectorOf == <<1, 1, 2>>

MCImageSize ==
  [v \in Images |-> CASE v = good -> 2 [] v = empty -> 0 [] v = huge -> 4 [] OTHER -> 3]

(* Application flash is 8..15, SRAM 32..47: even and odd reset vectors, and *)
(* stack pointers inside SRAM and outside.                                  *)
MCVector ==
  [v \in Images |->
    [msp |-> CASE v = full -> 46 [] v = empty -> 0 [] OTHER -> 40,
     reset |-> CASE v = full -> 14 [] v = thumb -> 11 [] OTHER -> 10]]
===============================================================================
