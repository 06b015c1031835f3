----------------------------- MODULE MCPcapTime -----------------------------
(***************************************************************************)
(* Instances of PcapTime: starts at both ends of a second and where the    *)
(* divisions round; packets at the same tick, and less than a second, a    *)
(* second and several seconds apart.  The frequency is that of the code.   *)
(***************************************************************************)
EXTENDS PcapTime

MCStartTimes == [sec : {0, 1}, nsec : {0, 16, 17, 849, 850, 123456789, 999999982, 999999999}]
MCTicks == {0, 9999991, 29999999, 60000000, 190000001}
=============================================================================
