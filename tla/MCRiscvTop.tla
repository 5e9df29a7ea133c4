------------------------------ MODULE MCRiscvTop ------------------------------
(***************************************************************************)
(* The program that MCCpuBytes interrupts, and a host that writes a cell   *)
(* of which the program writes the whole word.                             *)
(***************************************************************************)
EXTENDS MCCpuBytes, RiscvTop

MCUploads == {[a |-> 6, din |-> 0], [a |-> 6, din |-> 1]}
=============================================================================
