------------------------------- MODULE Session --------------------------------
(***************************************************************************)
(* What host, board and line together promise: a program runs on the image *)
(* that was uploaded, reads the input that was given, byte by byte, and    *)
(* what it writes is printed in order, all of it before the host returns.  *)
(***************************************************************************)
EXTENDS Integers, Sequences

CONSTANTS Byte, Image, Input

VARIABLES at,        \* "uploading", "running", "stopped", "returned"
          ram,       \* the memory the program runs on, <<>> before
          heard,     \* read by the program
          wrote,     \* written by the program
          printed

vars == <<at, ram, heard, wrote, printed>>

Init == /\ at = "uploading" /\ ram = <<>>
        /\ heard = <<>> /\ wrote = <<>> /\ printed = <<>>

Start == /\ at = "uploading" /\ at' = "running"
         /\ ram' = Image
         /\ UNCHANGED <<heard, wrote, printed>>

\* Behind the end of the input the program reads anything.
Read == /\ at = "running"
        /\ \E byte \in Byte : /\ heard' = Append(heard, byte)
                              /\ Len(heard) < Len(Input) => byte = Input[Len(heard) + 1]
        /\ UNCHANGED <<at, ram, wrote, printed>>

Write == /\ at = "running"
         /\ \E byte \in Byte \ {0} : wrote' = Append(wrote, byte)
         /\ UNCHANGED <<at, ram, heard, printed>>

Show == /\ at # "returned"
        /\ Len(printed) < Len(wrote)
        /\ printed' = Append(printed, wrote[Len(printed) + 1])
        /\ UNCHANGED <<at, ram, heard, wrote>>

Stop == /\ at = "running" /\ at' = "stopped"
        /\ UNCHANGED <<ram, heard, wrote, printed>>

Return == /\ at = "stopped" /\ printed = wrote
          /\ at' = "returned"
          /\ UNCHANGED <<ram, heard, wrote, printed>>

Next == Start \/ Read \/ Write \/ Show \/ Stop \/ Return

Spec == Init /\ [][Next]_vars
=============================================================================
