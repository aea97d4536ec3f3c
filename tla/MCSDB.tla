------------------------------- MODULE MCSDB --------------------------------
(***************************************************************************)
(* Programs small enough for TLC.  The segment of a position-independent   *)
(* file starts at link address 0; the other kind (FixedLo) is mapped where *)
(* it was linked, with bias 0.                                             *)
(***************************************************************************)
EXTENDS SDB, TLC

NoAddrs == {}

\* A loop of two-byte instructions: 3 goes back to 1 or on to the exit at 5.
LoopStarts == {1, 3, 5}
LoopLen    == [a \in LoopStarts |-> 2]
LoopSucc   == (1 :> {3}) @@ (3 :> {1, 5}) @@ (5 :> {})

\* The same instructions without the way back.
LineSucc   == (1 :> {3}) @@ (3 :> {5}) @@ (5 :> {})

\* A one-byte instruction (push, ret, nop) before a two-byte exit, in a file
\* linked at 4 with .text one byte into its segment.
ShortStarts == {5, 6}
ShortLen    == (5 :> 1) @@ (6 :> 2)
ShortSucc   == (5 :> {6}) @@ (6 :> {})
=============================================================================
