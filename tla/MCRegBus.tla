------------------------------ MODULE MCRegBus ------------------------------
(***************************************************************************)
(* Instances of RegBus: a word of four different bytes, so that any other  *)
(* order shows, some of which the messages have in other places too.       *)
(***************************************************************************)
EXTENDS RegBus

MCWords == {<<85, 4, 128, 0>>}
=============================================================================
