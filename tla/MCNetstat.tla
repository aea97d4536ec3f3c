------------------------------ MODULE MCNetstat -----------------------------
(***************************************************************************)
(* Small systems for TLC.                                                  *)
(***************************************************************************)
EXTENDS Netstat, TLC

TwoTcpOneUdp == (1 :> "TCP") @@ (2 :> "TCP") @@ (3 :> "UDP")
Options      == {{"t", "u"}, {"t"}, {"u"}}
=============================================================================
