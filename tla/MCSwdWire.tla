------------------------------ MODULE MCSwdWire -------------------------------
(* A word of either parity, and one access of each kind. *)
EXTENDS SwdWire

MCWords ==
  {[i \in 1..WordBits |-> IF i % 5 \in {1, 2} THEN 1 ELSE 0],
   [i \in 1..WordBits |-> IF i = 3 THEN 1 ELSE 0]}

MCRequests ==
  {[ap |-> 0, rn |-> 1, a2 |-> 1, a3 |-> 0],   \* read CTRL/STAT
   [ap |-> 1, rn |-> 0, a2 |-> 1, a3 |-> 1],   \* write DRW
   [ap |-> 1, rn |-> 1, a2 |-> 1, a3 |-> 1]}   \* read DRW

MCReadDpidr == {[ap |-> 0, rn |-> 1, a2 |-> 0, a3 |-> 0]}
===============================================================================
