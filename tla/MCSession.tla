----------------------------- MODULE MCSession -----------------------------
(***************************************************************************)
(* Two packages.  The second has two registers at addresses where the      *)
(* first has others.                                                       *)
(***************************************************************************)
EXTENDS Session

MCAddr ==
  [a |-> [RING |-> 1, SINK_GO |-> 2, CSTREAM_CFG |-> 3, HOST_READ_GO |-> 4],
   b |-> [RING |-> 1, SINK_GO |-> 4, CSTREAM_CFG |-> 2, HOST_READ_GO |-> 5]]
=============================================================================
