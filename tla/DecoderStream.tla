--------------------------- MODULE DecoderStream ---------------------------
(***************************************************************************)
(* The decoder of src/decoder.c at the end of a wire.  The device encodes  *)
(* packets into the SDRAM stream, cuts that into SDRAM frames wherever it  *)
(* likes and puts bus frames between them; the host cuts the wire into     *)
(* buffers wherever it likes and may lose some of them, as the completion  *)
(* callback does with what it read once the loop is no longer RUNNING.     *)
(* Such a stream may make a call fail; the buffers that follow come to the *)
(* same decoder, as in ov_capture_stop().                                  *)
(*                                                                         *)
(* The device's actions come before those of the host: they only append to *)
(* the wire, so that no behaviour of the decoder is lost by that.          *)
(***************************************************************************)
EXTENDS Decoder

CONSTANTS
  Kinds,      \* the packets the device may send, with relative timestamps
  BusFrames,  \* the bus frames it may send
  MaxPackets, MaxBusFrames,  \* bounds on how many it sends
  FrameSizes, \* the sizes of SDRAM frames, in words
  ChunkSizes, \* the sizes of the buffers of the host, in bytes
  MaxLosses,  \* bound: buffers the host may lose
  MaxFailures \* calls that fail before it ends for good: ov_capture_stop() runs
              \* the loop once more

\* The device sends what the fields of the wire hold, and as much data as it says.
ASSUME KindsAssumption == \A k \in Kinds :
  /\ k.flags \in Byte /\ k.size \in Nat /\ k.size <= 8191
  /\ k.ts \in Seq(Byte) /\ 1 <= Len(k.ts) /\ Len(k.ts) <= 8
  /\ k.data \in Seq(Byte) /\ Len(k.data) = CapturedSize(k.flags, k.size)
MaxAddress == 65535  \* of two bytes
Address == 0 .. MaxAddress
ASSUME BusFramesAssumption == BusFrames \subseteq [addr : Address, value : Byte]
ASSUME SizesAssumption == FrameSizes \subseteq 1 .. 256 /\ ChunkSizes \subseteq Nat

VARIABLES
  fifo,       \* bytes of the packet stream not yet in a frame
  wire,       \* bytes sent
  fed,        \* how many of them the host has read
  losses,     \* buffers it has lost
  failures,   \* calls of the decoder that have failed
  lossy,      \* whether it loses any
  sent,       \* the packets sent, with absolute timestamps
  sent_bus    \* the bus frames sent

device_vars == <<fifo, wire, sent, sent_bus>>
host_vars == <<fed, losses, failures, lossy>>
vars == <<decoder_vars, device_vars, host_vars>>

StreamInit ==
  /\ Init
  /\ fifo = << >> /\ wire = << >> /\ fed = 0 /\ losses = 0 /\ failures = 0
  /\ lossy \in BOOLEAN
  /\ sent = << >> /\ sent_bus = << >>

-----------------------------------------------------------------------------
\* How the device encodes a packet, as the decoder and test/decoder.c have it
Encode(k) ==
  <<160, k.flags, k.size % 256, (k.size \div 256) + 32 * (Len(k.ts) - 1)>>
  \o k.ts \o k.data

\* The first n of up to 8 bytes of a timestamp, and all of them
TimestampUpTo(ts, n) ==
  LET at == [i \in 1 .. 8 |-> IF i <= n THEN Shifted(ts[i], i - 1) ELSE 0]
  IN  at[1] + at[2] + at[3] + at[4] + at[5] + at[6] + at[7] + at[8]

Timestamp(ts) == TimestampUpTo(ts, Len(ts))

LastTimestamp == IF sent = << >> THEN 0 ELSE sent[Len(sent)].timestamp

SendPacket(k) ==
  /\ fed = 0 /\ Len(sent) < MaxPackets
  /\ fifo' = fifo \o Encode(k)
  /\ sent' = Append(sent, [magic |-> 160, flags |-> k.flags, size |-> k.size,
                           timestamp |-> Later(LastTimestamp, Timestamp(k.ts)), data |-> k.data])
  /\ UNCHANGED <<decoder_vars, wire, host_vars, sent_bus>>

\* A frame is a whole number of 16-bit words; the last one is filled up.
SendFrame(words) ==
  /\ fed = 0
  /\ LET n == MinOf(2 * words, Len(fifo))
         filler == [i \in 1 .. 2 * words - n |-> 161]
     IN  /\ fifo # << >> /\ Len(filler) <= 1
         /\ wire' = wire \o <<208, words - 1>> \o SubSeq(fifo, 1, n) \o filler
         /\ fifo' = SubSeq(fifo, n + 1, Len(fifo))
  /\ UNCHANGED <<decoder_vars, host_vars, sent, sent_bus>>

SendBusFrame(b) ==
  /\ fed = 0 /\ Len(sent_bus) < MaxBusFrames
  /\ wire' = wire \o <<85, b.addr \div 256, b.addr % 256, b.value,
                       (85 + (b.addr \div 256) + (b.addr % 256) + b.value) % 256>>
  /\ sent_bus' = Append(sent_bus, b)
  /\ UNCHANGED <<decoder_vars, fifo, host_vars, sent>>

-----------------------------------------------------------------------------
\* The completion callback passes on what follows the FTDI header.
Receive(n) ==
  /\ fifo = << >> /\ n <= Len(wire) - fed /\ failures < MaxFailures
  /\ Feed(SubSeq(wire, fed + 1, fed + n))
  /\ fed' = fed + n
  /\ UNCHANGED <<device_vars, losses, failures, lossy>>

Lose(n) ==
  /\ lossy /\ losses < MaxLosses /\ fifo = << >> /\ n <= Len(wire) - fed /\ AtRest
  /\ failures < MaxFailures
  /\ fed' = fed + n /\ losses' = losses + 1
  /\ UNCHANGED <<decoder_vars, device_vars, failures, lossy>>

DecoderStep ==
  /\ Step
  /\ failures' = IF proc' = "error" THEN failures + 1 ELSE failures
  /\ UNCHANGED <<device_vars, fed, losses, lossy>>

StreamNext ==
  \/ \E k \in Kinds : SendPacket(k)
  \/ \E words \in FrameSizes : SendFrame(words)
  \/ \E b \in BusFrames : SendBusFrame(b)
  \/ \E n \in ChunkSizes : Receive(n) \/ Lose(n)
  \/ DecoderStep

StreamSpec == StreamInit /\ [][StreamNext]_vars

\* The host's read loop goes on, and a call of the decoder runs to its end.
StreamFairSpec ==
  StreamSpec /\ WF_vars(DecoderStep) /\ WF_vars(\E n \in ChunkSizes : Receive(n))

-----------------------------------------------------------------------------
\* Of a stream that loses nothing packets reach the callback in the order and with
\* the contents and absolute timestamps with which they were sent, none is skipped or
\* repeated, however the stream is cut; the same holds for bus frames
\* (src/src/decoder.c:26-165).
Rest(all, some) == IF lossy THEN << >> ELSE SubSeq(all, Len(some) + 1, Len(all))
Taken(some) == IF lossy THEN << >> ELSE some

Packets == INSTANCE OrderedDelivery WITH
             source <- Rest(sent, packets), delivered <- Taken(packets)

Bus == INSTANCE OrderedDelivery WITH
         source <- Rest(sent_bus, bus_frames), delivered <- Taken(bus_frames)

OrderedDelivered == Packets!Spec /\ Bus!Spec

\* Such a stream is never rejected, and when the whole wire has been decoded all that
\* was sent has been delivered, except a packet without data that is the very last
\* thing in the stream: it waits for the byte after it (src/src/decoder.c:74-92).
NothingHeldBack ==
  ~lossy =>
    /\ proc # "error"
    /\ AtRest /\ fed = Len(wire) /\ fifo = << >> =>
         /\ bus_frames = sent_bus
         /\ \/ packets = sent
            \/ /\ packets = SubSeq(sent, 1, Len(sent) - 1)
               /\ sent[Len(sent)].data = << >>

\* Every call of frame_decoder_proc() returns: no turn of its loops repeats
\* without an effect, not even those that consume nothing.
CallsReturn == []<>AtRest
=============================================================================
