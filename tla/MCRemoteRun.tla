----------------------------- MODULE MCRemoteRun ------------------------------
(***************************************************************************)
(* An image of two blocks, the second of which begins behind the first     *)
(* byte of an address, and an input of one block and a rest.               *)
(***************************************************************************)
EXTENDS RemoteRun

MCGreeting == <<11, 5, 4>>
MCImage    == [i \in 1 .. 15 |-> (7 * i) % BASE]
MCInput    == <<4, 0, 10>>
MCDbgreg   == <<10, 0, 0, 0>>
=============================================================================
