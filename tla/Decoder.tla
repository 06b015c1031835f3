------------------------------ MODULE Decoder ------------------------------
(***************************************************************************)
(* The stream decoder of src/decoder.c.  The device sends two kinds of     *)
(* frames: bus frames (0x55, address, value, checksum) and SDRAM frames    *)
(* (0xd0, length, data).  The data of the SDRAM frames, put together, is   *)
(* the stream of USB packets (0xa0 or 0xa2, flags, size, a timestamp of 1  *)
(* to 8 bytes, data) with 0xa1 as filler between them.  Frames end         *)
(* anywhere in a packet, and calls end anywhere in a frame, so that all    *)
(* that is known about a half-read packet is kept in the decoders.         *)
(*                                                                         *)
(* A call of frame_decoder_proc() is a Feed followed by one step for each  *)
(* turn through the switch of frame_decoder_proc() or, while it runs, of   *)
(* packet_decoder_proc().  Bytes are numbers, sizes are those of the code. *)
(***************************************************************************)
EXTENDS Integers, Sequences

CONSTANTS MAX_PACKET_SIZE,  \* OV_MAX_PACKET_SIZE, 1027: what a TRUNC packet has
          buf_length,       \* the room the caller has for a packet
          Shifted(_, _),    \* byte b of a timestamp at place k: b << 8 * k
                            \* (TLC's integers are too narrow for 8 bytes)
          ClockMod,         \* 2^64, where a uint64_t starts again at 0
          Chunk             \* the buffers the decoder may be called with

Byte == 0 .. 255

ASSUME MaxPacketSizeAssumption == MAX_PACKET_SIZE \in Nat
\* packet_decoder_proc() asserts that there is some.
ASSUME BufLengthAssumption == buf_length \in Nat \ {0}
ASSUME ShiftedAssumption == \A b \in Byte, k \in 0 .. 7 : Shifted(b, k) \in Nat
ASSUME ClockModAssumption == ClockMod \in Nat \ {0}
ASSUME ChunkAssumption == Chunk \subseteq Seq(Byte)

VARIABLES
  buf, pos,        \* this call's buffer, and how much of it is consumed
  data_start, data_end,  \* where the buffer of this packet_decoder_proc() starts, ends
  proc,            \* the loop that runs, "return" from the inner one, or "error"
  \* struct frame_decoder
  frame_state, required_length, addr, value,
  \* struct packet_decoder, with the packet it fills
  packet_state, magic, flags, size, timestamp, data, buf_actual_length,
  cumulative_ts, ts_byte, ts_length,
  \* history: what was passed to ops.packet and ops.bus_frame
  packets, bus_frames,
  frame_left,      \* how much of the SDRAM frame the buffers have not brought yet, or
                   \* this buffer still holds
  frame_failed,    \* whether a call has failed within that frame
  wrapped          \* whether the clock has passed its 64 bits

header  == <<magic, flags, size>>
clock   == <<timestamp, cumulative_ts, ts_byte, ts_length, wrapped>>
payload == <<data, buf_actual_length>>
sdram   == <<required_length, frame_left, frame_failed>>
frame_vars  == <<frame_state, sdram, addr, value>>
packet_vars == <<packet_state, header, clock, payload>>
decoder_vars ==
  <<buf, pos, data_start, data_end, proc, frame_vars, packet_vars, packets, bus_frames>>

FrameState == {"MAGIC", "SDRAM_LENGTH", "SDRAM_DATA", "BUS_ADDR_HI",
               "BUS_ADDR_LO", "BUS_VALUE", "BUS_CHECKSUM"}
PacketState == {"MAGIC", "FLAGS", "LENGTH_LO", "LENGTH_HI", "TIMESTAMP", "DATA"}

\* ov_packet_captured_size(): OV_FLAGS_HF0_TRUNC is the bit 0x08.
CapturedSize(f, s) == IF (f \div 8) % 2 = 1 THEN MAX_PACKET_SIZE ELSE s

MinOf(a, b) == IF a < b THEN a ELSE b

\* cumulative_ts += timestamp, in a uint64_t
Later(t, d) == (t + d) % ClockMod

-----------------------------------------------------------------------------
InitPacketDecoder ==
  /\ packet_state = "MAGIC" /\ buf_actual_length = 0
  /\ cumulative_ts = 0 /\ ts_byte = 0 /\ ts_length = 0 /\ wrapped = FALSE
  /\ magic = 0 /\ flags = 0 /\ size = 0 /\ timestamp = 0 /\ data = << >>

Init ==
  /\ buf = << >> /\ pos = 0 /\ data_start = 0 /\ data_end = 0 /\ proc = "frame"
  /\ frame_state = "MAGIC" /\ required_length = 0 /\ addr = 0 /\ value = 0
  /\ frame_left = 0 /\ frame_failed = FALSE
  /\ InitPacketDecoder
  /\ packets = << >> /\ bus_frames = << >>

\* The byte at hand, and a turn of either loop in a state
Here == buf[pos + 1]
InFrame(st)  == proc = "frame" /\ pos < Len(buf) /\ frame_state = st
InPacket(st) == proc = "packet" /\ pos < data_end /\ packet_state = st

\* A turn that consumes a byte and goes on to another state
FrameByte(st, next) ==
  /\ InFrame(st) /\ frame_state' = next /\ pos' = pos + 1
  /\ UNCHANGED <<buf, data_start, data_end, proc, packet_vars, packets>>

\* The packet decoder goes on by n bytes; the frame decoder's count of the frame
\* learns of it when packet_decoder_proc() returns.
Consume(n) ==
  /\ pos' = pos + n /\ frame_left' = frame_left - n
  /\ UNCHANGED <<buf, data_start, data_end, frame_state, required_length, frame_failed,
                 addr, value, bus_frames>>

PacketByte(st, next) ==
  /\ InPacket(st) /\ packet_state' = next /\ Consume(1)
  /\ UNCHANGED <<proc, packets>>

\* No call is under way.
AtRest == (proc = "frame" /\ pos = Len(buf)) \/ proc = "error"

\* The caller passes the next buffer, behind an error too, as ov_capture_stop()
\* does: what the failed call left of its buffer is not looked at again, and the
\* decoder goes on in the state in which that call left it.
Feed(chunk) ==
  /\ AtRest
  /\ buf' = chunk /\ pos' = 0 /\ proc' = "frame"
  /\ UNCHANGED <<data_start, data_end, frame_vars, packet_vars, packets, bus_frames>>

-----------------------------------------------------------------------------
(***************************************************************************)
(* frame_decoder_proc()                                                    *)
(***************************************************************************)
FrameMagic ==
  /\ \/ FrameByte("MAGIC", "BUS_ADDR_HI")  /\ Here = 85
     \/ FrameByte("MAGIC", "SDRAM_LENGTH") /\ Here = 208
  /\ UNCHANGED <<sdram, addr, value, bus_frames>>

WrongFrameMagic ==
  /\ InFrame("MAGIC") /\ Here \notin {85, 208}
  /\ pos' = pos + 1 /\ proc' = "error"
  /\ UNCHANGED <<buf, data_start, data_end, frame_vars, packet_vars, packets, bus_frames>>

SdramLength ==
  /\ FrameByte("SDRAM_LENGTH", "SDRAM_DATA")
  /\ required_length' = (Here + 1) * 2
  /\ frame_left' = required_length' /\ frame_failed' = FALSE
  /\ UNCHANGED <<addr, value, bus_frames>>

\* Mutant of SdramData: the frame's end is forgotten.
SdramDataUnbounded ==
  /\ InFrame("SDRAM_DATA")
  /\ proc' = "packet" /\ data_start' = pos /\ data_end' = Len(buf)
  /\ UNCHANGED <<buf, pos, frame_vars, packet_vars, packets, bus_frames>>

\* The packet decoder gets what the buffer has of this frame.
SdramData ==
  /\ InFrame("SDRAM_DATA")
  /\ proc' = "packet" /\ data_start' = pos
  /\ data_end' = pos + MinOf(required_length, Len(buf) - pos)
  /\ UNCHANGED <<buf, pos, frame_vars, packet_vars, packets, bus_frames>>

BusAddrHi ==
  /\ FrameByte("BUS_ADDR_HI", "BUS_ADDR_LO")
  /\ addr' = Here * 256
  /\ UNCHANGED <<sdram, value, bus_frames>>

BusAddrLo ==
  /\ FrameByte("BUS_ADDR_LO", "BUS_VALUE")
  /\ addr' = addr + Here
  /\ UNCHANGED <<sdram, value, bus_frames>>

BusValue ==
  /\ FrameByte("BUS_VALUE", "BUS_CHECKSUM")
  /\ value' = Here
  /\ UNCHANGED <<sdram, addr, bus_frames>>

\* The checksum is not verified.
BusChecksum ==
  /\ FrameByte("BUS_CHECKSUM", "MAGIC")
  /\ bus_frames' = Append(bus_frames, [addr |-> addr, value |-> value])
  /\ UNCHANGED <<sdram, addr, value>>

-----------------------------------------------------------------------------
(***************************************************************************)
(* packet_decoder_proc()                                                   *)
(***************************************************************************)
\* 0xa1 is filler between packets.
PacketMagic ==
  /\ \/ PacketByte("MAGIC", "MAGIC") /\ Here = 161 /\ UNCHANGED magic
     \/ PacketByte("MAGIC", "FLAGS") /\ Here \in {160, 162} /\ magic' = Here
  /\ UNCHANGED <<flags, size, clock, payload>>

\* frame_decoder_proc() returns too and subtracts nothing from required_length,
\* although the rest of the buffer is lost to the frame.
WrongPacketMagic ==
  /\ InPacket("MAGIC") /\ Here \notin {160, 161, 162}
  /\ proc' = "error" /\ frame_failed' = TRUE /\ frame_left' = frame_left - (data_end - pos)
  /\ UNCHANGED <<buf, pos, data_start, data_end, frame_state, required_length, addr, value,
                 packet_vars, packets, bus_frames>>

PacketFlags ==
  /\ PacketByte("FLAGS", "LENGTH_LO")
  /\ flags' = Here
  /\ UNCHANGED <<magic, size, clock, payload>>

PacketLengthLo ==
  /\ PacketByte("LENGTH_LO", "LENGTH_HI")
  /\ size' = Here
  /\ UNCHANGED <<magic, flags, clock, payload>>

\* The high 5 bits of the size and, in the other 3, the timestamp's length
PacketLengthHi ==
  /\ PacketByte("LENGTH_HI", "TIMESTAMP")
  /\ size' = (Here % 32) * 256 + size
  /\ ts_length' = (Here \div 32) + 1 /\ ts_byte' = 0 /\ timestamp' = 0
  /\ UNCHANGED <<magic, flags, cumulative_ts, wrapped, payload>>

\* Another byte of the timestamp, and the last one: the timestamp on the wire
\* is relative to that of the packet before.
ShiftedTimestamp == timestamp + Shifted(Here, ts_byte)

\* Mutants of MoreTimestamp: one byte more than there are is awaited.
MoreTimestampOffByOne == ts_byte + 1 < ts_length + 1

MoreTimestamp == ts_byte + 1 < ts_length

PacketTimestamp ==
  /\ MoreTimestamp
  /\ PacketByte("TIMESTAMP", "TIMESTAMP")
  /\ timestamp' = ShiftedTimestamp /\ ts_byte' = ts_byte + 1
  /\ UNCHANGED <<header, cumulative_ts, ts_length, wrapped, payload>>

ClockForward ==
  /\ cumulative_ts' = Later(cumulative_ts, ShiftedTimestamp)
  /\ wrapped' = (wrapped \/ cumulative_ts + ShiftedTimestamp >= ClockMod)

\* Mutant of PacketTimestampEnd: the timestamp stays relative.
PacketTimestampEndRelative ==
  /\ ~MoreTimestamp
  /\ PacketByte("TIMESTAMP", "DATA")
  /\ timestamp' = ShiftedTimestamp /\ ts_byte' = ts_byte + 1
  /\ ClockForward
  /\ UNCHANGED <<header, ts_length, payload>>

PacketTimestampEnd ==
  /\ ~MoreTimestamp
  /\ PacketByte("TIMESTAMP", "DATA")
  /\ ClockForward
  /\ timestamp' = cumulative_ts' /\ ts_byte' = ts_byte + 1
  /\ UNCHANGED <<header, ts_length, payload>>

\* How much of the packet's data is missing, and how much of it is here
DataMissing == CapturedSize(flags, size) - buf_actual_length
DataToCopy  == MinOf(DataMissing, data_end - pos)

\* memcpy() of that much behind what was copied before
CopiedData == SubSeq(data, 1, buf_actual_length)
              \o SubSeq(buf, pos + 1, pos + DataToCopy)

\* Mutants of DataComplete: a packet is finished on the byte after its data, or
\* never if it has none.
DataCompleteLate == DataMissing = 0
DataCompleteNeedsData == DataMissing = DataToCopy /\ DataToCopy > 0

\* A packet without data is complete at once, but only with a byte at hand.
DataComplete == DataMissing = DataToCopy

PacketData ==
  /\ InPacket("DATA") /\ ~DataComplete
  /\ Consume(DataToCopy)
  /\ data' = CopiedData
  /\ buf_actual_length' = buf_actual_length + DataToCopy
  /\ UNCHANGED <<proc, packet_state, header, clock, packets>>

\* The packet goes to ops.packet, and packet_decoder_proc() returns.
PacketDataEnd ==
  /\ InPacket("DATA") /\ DataComplete
  /\ Consume(DataToCopy)
  /\ data' = CopiedData
  /\ buf_actual_length' = 0
  /\ packets' = Append(packets, [magic |-> magic, flags |-> flags, size |-> size,
                                 timestamp |-> timestamp, data |-> CopiedData])
  /\ packet_state' = "MAGIC" /\ proc' = "return"
  /\ UNCHANGED <<header, clock>>

\* Back in frame_decoder_proc(), with the number of bytes consumed
PacketReturn ==
  /\ proc = "return" \/ (proc = "packet" /\ pos = data_end)
  /\ proc' = "frame"
  /\ required_length' = required_length - (pos - data_start)
  /\ frame_state' = IF required_length' = 0 THEN "MAGIC" ELSE frame_state
  /\ UNCHANGED <<buf, pos, data_start, data_end, frame_left, frame_failed, addr, value,
                 packet_vars, packets, bus_frames>>

FrameStep == \/ FrameMagic \/ WrongFrameMagic \/ SdramLength \/ SdramData
             \/ BusAddrHi \/ BusAddrLo \/ BusValue \/ BusChecksum

PacketStep == \/ PacketMagic \/ WrongPacketMagic \/ PacketFlags
              \/ PacketLengthLo \/ PacketLengthHi \/ PacketTimestamp
              \/ PacketTimestampEnd \/ PacketData \/ PacketDataEnd
              \/ PacketReturn

Step == FrameStep \/ PacketStep

Next == Step \/ \E chunk \in Chunk : Feed(chunk)

Spec == Init /\ [][Next]_decoder_vars

-----------------------------------------------------------------------------
(***************************************************************************)
(* Properties that hold whatever bytes arrive, a stream from which buffers *)
(* were lost included, and after a call that failed.                       *)
(***************************************************************************)

\* The types of both decoders' fields; lengths fit the fields of the wire.
TypeOK ==
  /\ buf \in Seq(Byte) /\ pos \in Nat /\ data_start \in Nat /\ data_end \in Nat
  /\ proc \in {"frame", "packet", "return", "error"}
  /\ frame_state \in FrameState
  /\ required_length \in Nat /\ required_length <= 512
  /\ frame_left \in Int /\ frame_failed \in BOOLEAN /\ wrapped \in BOOLEAN
  /\ addr \in Nat /\ addr <= 65535 /\ value \in Byte
  /\ packet_state \in PacketState /\ buf_actual_length \in Nat
  /\ magic \in {0, 160, 162} /\ flags \in Byte
  /\ size \in Nat /\ size <= 8191
  /\ packet_state = "LENGTH_HI" => size \in Byte
  /\ timestamp \in Nat /\ cumulative_ts \in Nat
  /\ ts_byte \in Nat /\ ts_byte <= 8 /\ ts_length \in Nat /\ ts_length <= 8
  /\ data \in Seq(Byte)

\* The assertion of packet_decoder_proc() in NEED_PACKET_MAGIC: no offset is
\* carried from one packet into the next.
DecoderAssertion ==
  proc = "packet" /\ packet_state = "MAGIC" => buf_actual_length = 0

\* No byte is read past the caller's buffer, what is subtracted from the frame's
\* length is at most that length, and the packet decoder reads no byte that lies
\* behind the end of the SDRAM frame, unless a call has failed within that frame: a
\* failed call leaves required_length as it is, and in the next one the decoder
\* takes what follows the frame for its data.
ReadsWithinFrame ==
  /\ pos <= Len(buf)
  /\ proc = "packet" => /\ pos <= data_end /\ data_end <= Len(buf)
                        /\ data_end - data_start <= required_length
                        /\ ~frame_failed => data_end - pos <= frame_left
  /\ frame_state = "SDRAM_DATA" => required_length > 0

\* What memcpy() stores of a packet stays within its captured size, so that the
\* size_t difference `required_length' never wraps, and within the room of the caller
\* if it has that for the captured size, which nothing checks.  A packet is passed
\* on whole.
WritesWithinPacket ==
  /\ packet_state = "DATA" =>
       /\ buf_actual_length <= CapturedSize(flags, size)
       /\ CapturedSize(flags, size) <= buf_length => buf_actual_length <= buf_length
  /\ \A i \in 1 .. Len(packets) :
       Len(packets[i].data) = CapturedSize(packets[i].flags, packets[i].size)

\* The timestamp bytes are shifted by less than the 64 bits of the field.
TimestampFits == packet_state = "TIMESTAMP" => ts_byte < ts_length /\ ts_length <= 8

\* Whatever bytes arrive, behind a failed call too, the decoder reads within the
\* buffer it is called with, writes within the captured size of the packet, and keeps
\* to the SDRAM frame in which no call has failed (src/src/decoder.c:31-92, 126-145).
WithinBounds == DecoderAssertion /\ ReadsWithinFrame /\ WritesWithinPacket /\ TimestampFits

\* Until the clock passes its 64 bits the timestamps passed on never decrease, which
\* the conversion to wall clock time in packet_handler() relies on
\* (src/src/decoder.c:65-72).
TimestampsOrdered ==
  ~wrapped =>
    \A i, j \in 1 .. Len(packets) :
      i < j => packets[i].timestamp <= packets[j].timestamp
=============================================================================
