----------------------------- MODULE MCExtcap -----------------------------
(***************************************************************************)
(* A version of Wireshark for each case of the version check.              *)
(***************************************************************************)
EXTENDS Extcap

MCVersions == {<<0, 0>>, <<2, 9>>, <<3, 0>>, <<3, 1>>, <<4, 0>>}
=============================================================================
