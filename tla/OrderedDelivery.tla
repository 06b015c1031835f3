-------------------------- MODULE OrderedDelivery --------------------------
(***************************************************************************)
(* What a stream of packets promises its reader: what is put in comes out, *)
(* in the order in which it was put in, unchanged, and nothing else does.  *)
(* A producer appends to `source', a step takes from it a first element,   *)
(* which is delivered.                                                     *)
(***************************************************************************)
EXTENDS Naturals, Sequences

VARIABLES source, delivered

Init == source = << >> /\ delivered = << >>

\* Something is appended to the source, which keeps what it had.
Produce ==
  /\ Len(source') = Len(source) + 1
  /\ SubSeq(source', 1, Len(source)) = source
  /\ UNCHANGED delivered

Deliver ==
  /\ source # << >>
  /\ delivered' = Append(delivered, Head(source))
  /\ source' = Tail(source)

Next == Produce \/ Deliver

Spec == Init /\ [][Next]_<<source, delivered>>
=============================================================================
