------------------------------ MODULE MCTracers -----------------------------
(***************************************************************************)
(* A program for TLC: two-byte instructions, a branch around a system call *)
(* and an exit.  All paths meet the int3s of the prepared file in the same *)
(* order, as the list of bytes requires.                                   *)
(***************************************************************************)
EXTENDS Tracers, TLC

BranchStarts == {1, 3, 5, 7}
BranchLen    == [a \in BranchStarts |-> 2]
BranchSucc   == (1 :> {3, 5}) @@ (3 :> {5}) @@ (5 :> {7}) @@ (7 :> {})
BranchList   == (0 :> 1) @@ (1 :> 5) @@ (2 :> 7)

\* The list fits this program.
BranchPlaces == {<<1, {}>>, <<1, {1}>>, <<3, {1}>>, <<5, {1}>>, <<5, {1, 5}>>,
                 <<7, {1, 5}>>, <<7, {1, 5, 7}>>}

ASSUME BranchFits == Fits(BranchPlaces)

\* The instruction at 1 sets rdx, the system call at 3 is passed it.
ASSUME BranchSpares == RdxSpared
=============================================================================
