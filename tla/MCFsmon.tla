------------------------------ MODULE MCFsmon -------------------------------
(***************************************************************************)
(* Two threads of a program under fsmon, with its descriptors and a        *)
(* directory address that is used again.                                   *)
(***************************************************************************)
EXTENDS Fsmon, TLC

\* stderr and two more: one for the log and one for the program.
Fds == 2 .. 4

Symmetry == Permutations(Thread) \cup Permutations(Dir)
=============================================================================
