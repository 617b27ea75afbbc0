---------------------------- MODULE MCFr8016Update -----------------------------
(* A flash of four pages in two sectors.  half fills one sector and part of *)
(* the other is its neighbour's; odd ends inside a sector; empty and huge   *)
(* fail the size check.                                                     *)
EXTENDS Fr8016Update

CONSTANTS odd, half, empty, huge

MCBleSize ==
  [b \in BleImages |->
    CASE b = odd -> 3 [] b = half -> 2 [] b = empty -> 0 [] OTHER -> FlashPages + 1]
===============================================================================
