------------------------------ MODULE Program -------------------------------
(***************************************************************************)
(* What a user expects of a program that runs under the debugger: that it  *)
(* is the same program.  Runs follow one another; each executes, from the  *)
(* entry point, one instruction after another along the control flow of    *)
(* the file until an exit instruction ends it or it is killed.  There is   *)
(* no debugger in this module.                                             *)
(***************************************************************************)
EXTENDS Integers

CONSTANTS Starts, Succ, Entry, Exits

Off  == -1   \* no process
Over == -2   \* ended, not waited for yet

VARIABLE at  \* the link address of the next instruction, Off or Over

Launch == at = Off /\ at' = Entry
Step   == at \in Starts \ Exits /\ at' \in Succ[at]
End    == at \in Exits /\ at' = Over
Kill   == at \in Starts /\ at' \in {Over, Off}
Stillborn == at = Off /\ at' = Over   \* killed before its first instruction
Gone   == at = Over /\ at' = Off

Init == at = Off
Next == Launch \/ Step \/ End \/ Kill \/ Stillborn \/ Gone

Spec == Init /\ [][Next]_at
=============================================================================
