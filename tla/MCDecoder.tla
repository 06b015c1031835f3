----------------------------- MODULE MCDecoder -----------------------------
(***************************************************************************)
(* Small instances of DecoderStream.  The packets cover what the decoder   *)
(* tells apart: none, one and two bytes of data, timestamps of one and two *)
(* bytes, and a truncated packet, whose captured size is not its `size'.   *)
(***************************************************************************)
EXTENDS DecoderStream

MCEmpty == [flags |-> 0, size |-> 0, ts |-> <<3>>, data |-> << >>]
MCOne == [flags |-> 16, size |-> 1, ts |-> <<2, 1>>, data |-> <<208>>]
MCTruncated == [flags |-> 8, size |-> 300, ts |-> <<0>>,
                data |-> <<160, 85, 161>>]

MCKinds == {MCEmpty, MCOne, MCTruncated}
MCBusFrames == {[addr |-> 33282, value |-> 0]}
\* Bits 0 to 2 of a byte count, so that 8 bytes fit in TLC's integers
MCShifted(b, k) == b * 8 ^ k
MCFrameSizes == {1, 3}
MCChunkSizes == {1, 12}
MCChunk == {}
=============================================================================
