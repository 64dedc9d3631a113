------------------------------ MODULE NavNumbers ------------------------------
(***************************************************************************)
(* dtNextPow2, by which the hash tables of the navigation library are      *)
(* sized.                                                                  *)
(***************************************************************************)
EXTENDS Integers

NextPow2(v) ==
    LET Up[n \in 0..v] == IF n <= 1 THEN n ELSE 2 * Up[(n + 1) \div 2]
    IN  Up[v]
===============================================================================
